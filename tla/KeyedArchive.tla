---------------------------- MODULE KeyedArchive ----------------------------
(***************************************************************************)
(* Keyed archives (src/src/protocol/keyed_archive.cpp): a value laid out as *)
(* a flat list of objects that refer to each other by Uid, inside a binary  *)
(* property list, and the resolution of those Uids with a bound on depth.   *)
(* A key is a string of one character here.                                 *)
(***************************************************************************)
EXTENDS Plist

CONSTANTS
    Version,       \* kVersion
    MaxDepth       \* kMaxDepth: 64 in the code

Name(s) == <<s>>
Str(s)  == <<"string", Name(s)>>
Uid(n)  == <<"uid", n>>

Get(value, key) ==
    IF value[1] = "dict" /\ Name(key) \in DOMAIN value[2] THEN value[2][Name(key)] ELSE <<"missing">>

Dict(entries) == <<"dict", [k \in {Name(n) : n \in DOMAIN entries} |-> entries[k[1]]]>>

-----------------------------------------------------------------------------
(* Writing: append_object returns the objects and, with it, the slot.       *)

ClassDictionary(name) ==
    Dict([n \in {"$classes", "$classname"} |->
            IF n = "$classname" THEN Str(name) ELSE <<"array", <<Str(name), Str("NSObject")>>>>])

RECURSIVE AppendValue(_, _)
AppendValue(value, objects) ==
    IF value[1] \notin {"array", "dict"} THEN [slot |-> Len(objects), objects |-> Append(objects, value)]
    ELSE LET class == IF value[1] = "array" THEN "NSArray" ELSE "NSDictionary"
             slot  == Len(objects)
             begun == objects \o <<<<"null">>, ClassDictionary(class)>>
             One(sofar, item) ==
                 LET added == AppendValue(item, sofar.objects)
                 IN  [refs |-> Append(sofar.refs, Uid(added.slot)), objects |-> added.objects]
             strings == IF value[1] = "dict"
                          THEN [i \in DOMAIN KeysOf(value[2]) |-> <<"string", KeysOf(value[2])[i]>>]
                          ELSE <<>>
             keys  == FoldLeft(One, [refs |-> <<>>, objects |-> begun], strings)
             items == FoldLeft(One, [refs |-> <<>>, objects |-> keys.objects], Children(value))
             itself == [n \in {"$class", "NS.objects"} |->
                          IF n = "$class" THEN Uid(slot + 1) ELSE <<"array", items.refs>>]
         IN  [slot |-> slot,
              objects |-> [items.objects EXCEPT ![slot + 1] =
                  IF value[1] = "array" THEN Dict(itself)
                  ELSE Dict([n \in {"$class", "NS.keys", "NS.objects"} |->
                               IF n = "NS.keys" THEN <<"array", keys.refs>> ELSE itself[n]])]]

Archive(value) ==
    LET added == AppendValue(value, <<Str("$null")>>)
    IN  ToBinary(Dict([n \in {"$version", "$archiver", "$top", "$objects"} |->
            CASE n = "$version"  -> <<"int", Version>>
              [] n = "$archiver" -> Str("NSKeyedArchiver")
              [] n = "$top"      -> Dict([root \in {"root"} |-> Uid(added.slot)])
              [] n = "$objects"  -> <<"array", added.objects>>]))

-----------------------------------------------------------------------------
(* Reading.                                                                 *)

\* Each step costs one, the one from a Uid to its object too.
Deeper(value, depth) == depth + 1

RECURSIVE Resolve(_, _, _)
Resolve(value, objects, depth) ==
    LET Each(refs) == [i \in DOMAIN refs |-> Resolve(refs[i], objects, Deeper(value, depth))]
        All(items) == IF \E i \in DOMAIN items : items[i] = Refused THEN Refused ELSE <<"array", items>>
        class == Get(value, "$class")
        name  == StringOr(Get(objects[class[2] + 1], "$classname"))
        keys  == Get(value, "NS.keys")
        refs  == Get(value, "NS.objects")
    IN  CASE depth > MaxDepth -> Refused
          [] value[1] = "uid" ->
               IF value[2] >= Len(objects) THEN Refused
               ELSE Resolve(objects[value[2] + 1], objects, Deeper(value, depth))
          [] value[1] = "array" -> All(Each(value[2]))
          [] class[1] = "missing" -> value
          [] class[1] # "uid" \/ class[2] >= Len(objects) -> Refused
          [] name \in {Name("NSArray"), Name("NSMutableArray")} ->
               IF refs[1] # "array" THEN Refused ELSE All(Each(refs[2]))
          [] name \in {Name("NSDictionary"), Name("NSMutableDictionary")} ->
               IF keys[1] # "array" \/ refs[1] # "array" \/ Len(keys[2]) # Len(refs[2]) THEN Refused
               ELSE LET names == All(Each(keys[2]))
                        items == All(Each(refs[2]))
                    IN  IF Refused \in {names, items} THEN Refused
                        ELSE <<"dict", FoldLeft(LAMBDA f, i : Emplace(f, StringOr(names[2][i]), items[2][i]),
                                                <<>>, [i \in DOMAIN keys[2] |-> i])>>
          [] OTHER -> value

Unarchive(bytes) ==
    LET parsed  == ParseBinary(bytes)
        objects == Get(parsed, "$objects")
        root    == Get(Get(parsed, "$top"), "root")
    IN  IF \/ Get(parsed, "$archiver") # Str("NSKeyedArchiver")
           \/ Get(parsed, "$version") # <<"int", Version>>
           \/ objects[1] # "array" \/ root[1] # "uid"
          THEN Refused
          ELSE Resolve(root, objects[2], 0)

=============================================================================
