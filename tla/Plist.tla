------------------------------- MODULE Plist -------------------------------
(***************************************************************************)
(* Binary property lists (src/src/protocol/plist.cpp): Plist::to_binary,   *)
(* which lays a value out as a table of objects that refer to each other,  *)
(* and Plist::parse_binary, which follows the references.                  *)
(*                                                                         *)
(* A value is a tuple that begins with its type: <<"null">>, <<"bool", b>>, *)
(* <<"int", n>>, <<"real", n>>, <<"date", n>> (n the bits of the number),   *)
(* <<"uid", n>>, <<"string", s>>, <<"data", s>>, <<"array", items>> and      *)
(* <<"dict", f>>, f from strings to values; a string or data is a sequence   *)
(* of characters.  A file is a sequence of bytes, characters and markers,    *)
(* each a byte of its own; the trailer, 32 bytes in the code, is one record. *)
(***************************************************************************)
EXTENDS Integers, Sequences, SequencesExt

CONSTANTS
    Byte,          \* 2^8 in the code
    CountFollows   \* kMarkerCountFollows: 15 in the code

Refused == <<"refused">>

Marker(kind, info) == [kind |-> kind, info |-> info]

PutBe(value, size) == [i \in 1 .. size |-> (value \div Byte^(size - i)) % Byte]

\* Big-endian, into 64 bits.
ReadBe(bytes, position, size) ==
    FoldLeft(LAMBDA value, b : (value * Byte + b) % Byte^8, 0, SubSeq(bytes, position, position + size - 1))

-----------------------------------------------------------------------------
(* Writing.                                                                 *)

\* The exponents of 1, 2, 4 and 8 bytes.
Fits(n, e) == e = 3 \/ IF n >= 0 THEN n < Byte^(2^e) ELSE 2 * n >= 0 - Byte^(2^e)

Exponent(n) == CHOOSE e \in 0 .. 3 : Fits(n, e) /\ \A less \in 0 .. e - 1 : ~Fits(n, less)

WithWidth(kind, n) ==
    <<Marker(kind, Exponent(n))>> \o PutBe(n % Byte^(2^Exponent(n)), 2^Exponent(n))

AppendInt(n) == WithWidth("int", n)

AppendCount(kind, count) ==
    IF count < CountFollows THEN <<Marker(kind, count)>>
    ELSE <<Marker(kind, CountFollows)>> \o AppendInt(count)

\* The order of a std::map.
KeysOf(f) == SetToSeq(DOMAIN f)

(* flatten: the objects in the order of their slots.  An object is known by   *)
(* where it is in the value, a key by its string: keys are shared, values are *)
(* not.                                                                       *)
Slot(objects, at)   == CHOOSE i \in DOMAIN objects : ~objects[i].key /\ objects[i].at = at
KeySlot(objects, s) == CHOOSE i \in DOMAIN objects : objects[i].key /\ objects[i].at = s

KeyObject(s) == [key |-> TRUE, at |-> s, value |-> <<"string", s>>]

Children(value) ==
    CASE value[1] = "array" -> value[2]
      [] value[1] = "dict"  -> [i \in DOMAIN KeysOf(value[2]) |-> value[2][KeysOf(value[2])[i]]]
      [] OTHER              -> <<>>

\* Every object as it is met, a key as often as it is.
RECURSIVE Walk(_, _)
Walk(value, at) ==
    LET items == Children(value)
        keys  == IF value[1] = "dict" THEN KeysOf(value[2]) ELSE <<>>
    IN  <<[key |-> FALSE, at |-> at, value |-> value]>>
        \o [i \in DOMAIN keys |-> KeyObject(keys[i])]
        \o FlattenSeq([i \in DOMAIN items |-> Walk(items[i], Append(at, i))])

Flatten(value) ==
    LET met == Walk(value, <<>>)
        New(i) == ~met[i].key \/ \A j \in 1 .. i - 1 : met[j] # met[i]
        slots == SelectSeq([i \in DOMAIN met |-> i], New)
    IN  [i \in DOMAIN slots |-> met[slots[i]]]

\* A reference is a slot, counted from zero.
Refs(slots, ref_size) == FlattenSeq([i \in DOMAIN slots |-> PutBe(slots[i] - 1, ref_size)])

ItemSlots(object, objects) ==
    [i \in DOMAIN Children(object.value) |-> Slot(objects, Append(object.at, i))]

AppendObject(object, objects, ref_size) ==
    LET value == object.value
    IN  CASE value[1] = "null" -> <<Marker("null", 0)>>
          [] value[1] = "bool" -> <<Marker(IF value[2] THEN "true" ELSE "false", 0)>>
          [] value[1] \in {"int", "uid"} -> WithWidth(value[1], value[2])
          [] value[1] \in {"real", "date"} -> <<Marker(value[1], 3)>> \o PutBe(value[2], 8)
          [] value[1] \in {"string", "data"} -> AppendCount(value[1], Len(value[2])) \o value[2]
          [] value[1] = "array" ->
               AppendCount("array", Len(value[2])) \o Refs(ItemSlots(object, objects), ref_size)
          [] value[1] = "dict" ->
               LET keys == KeysOf(value[2])
               IN  AppendCount("dict", Len(keys))
                   \o Refs([i \in DOMAIN keys |-> KeySlot(objects, keys[i])], ref_size)
                   \o Refs(ItemSlots(object, objects), ref_size)

\* The bytes a number up to n needs.
SizeFor(n) == CHOOSE s \in 1 .. 8 : n < Byte^s /\ \A less \in 1 .. s - 1 : n >= Byte^less

HeaderSize == 8
Header == [i \in 1 .. HeaderSize |-> Marker("bplist00", i)]

ToBinary(value) ==
    LET objects == Flatten(value)
        ref_size == SizeFor(Len(objects))
        laid == [i \in DOMAIN objects |-> AppendObject(objects[i], objects, ref_size)]
        Offset(i) == HeaderSize + Len(FlattenSeq(SubSeq(laid, 1, i - 1)))
        table == Offset(Len(objects) + 1)
        offset_size == SizeFor(table)
    IN  Header \o FlattenSeq(laid)
        \o FlattenSeq([i \in DOMAIN objects |-> PutBe(Offset(i), offset_size)])
        \o <<[offset_size |-> offset_size, ref_size |-> ref_size, count |-> Len(objects), top |-> 0,
              table |-> table]>>

-----------------------------------------------------------------------------
(* Reading.                                                                 *)

Trailer(bytes) == bytes[Len(bytes)]

OffsetOf(bytes, index) ==
    ReadBe(bytes, Trailer(bytes).table + index * Trailer(bytes).offset_size + 1, Trailer(bytes).offset_size)

TrailerHolds(bytes) ==
    LET t == Trailer(bytes)
    IN  /\ Len(bytes) > HeaderSize /\ SubSeq(bytes, 1, HeaderSize) = Header
        /\ t.offset_size # 0 /\ t.ref_size # 0 /\ t.count # 0
        /\ t.table <= Len(bytes)
        /\ t.count <= (Len(bytes) - t.table) \div t.offset_size

Has(bytes, position, count) == count <= Len(bytes) - position + 1

\* An integer of any size is taken for a signed one of that size, 64 bits at most.
Signed(raw, size) ==
    LET width == IF size < 8 THEN size ELSE 8
    IN  IF 2 * raw >= Byte^width THEN raw - Byte^width ELSE raw

\* Eight bytes are the bits of a real; four are taken for the number itself.
Real(raw, size) == CASE size = 8 -> <<"real", raw>> [] size = 4 -> <<"float", raw>> [] OTHER -> <<"real", 0>>

(* The count of an object whose marker is at position p, and where its body   *)
(* begins; 0 for the latter when the count itself is cut short.               *)
CountAt(bytes, p) ==
    IF bytes[p].info # CountFollows THEN [count |-> bytes[p].info, body |-> p + 1]
    ELSE IF ~Has(bytes, p + 1, 1) THEN [count |-> 0, body |-> 0]
    ELSE LET size == 2^bytes[p + 1].info
         IN  IF Has(bytes, p + 2, size)
               THEN [count |-> ReadBe(bytes, p + 2, size), body |-> p + 2 + size]
               ELSE [count |-> 0, body |-> 0]

Scalar(bytes, p, size) ==
    LET kind == bytes[p].kind
        raw  == ReadBe(bytes, p + 1, size)
    IN  CASE ~Has(bytes, p + 1, size) -> Refused
          [] kind = "int"  -> <<"int", Signed(raw, size)>>
          [] kind = "real" -> Real(raw, size)
          [] OTHER         -> <<kind, raw>>

Characters(bytes, kind, at, count) ==
    IF kind = "utf16" THEN <<"string", [i \in 1 .. count |-> bytes[at + 2 * i - 1]]>>
    ELSE <<kind, SubSeq(bytes, at, at + count - 1)>>

\* std::map::emplace: a key that is there already stays.
Emplace(f, key, value) == [k \in DOMAIN f \cup {key} |-> IF k \in DOMAIN f THEN f[k] ELSE value]

StringOr(value) == IF value[1] = "string" THEN value[2] ELSE <<>>

\* The objects that are being decoded when the i-th reference of one is.
Active(active, index, refs, i) == active \cup {index}

(* Decoder::decode.  Its cache is left out: it holds what decoding the same   *)
(* object again would give.                                                   *)
RECURSIVE Decode(_, _, _)
Decode(bytes, index, active) ==
    LET p == OffsetOf(bytes, index) + 1
        kind == bytes[p].kind
        sized == CountAt(bytes, p)
        ref_size == Trailer(bytes).ref_size
        \* The bytes of each entry of what has a count, and how many references.
        entry == CASE kind = "array" -> ref_size [] kind = "dict" -> 2 * ref_size
                   [] kind = "utf16" -> 2 [] OTHER -> 1
        length == IF kind = "dict" THEN 2 * sized.count ELSE sized.count
        refs == [i \in 1 .. length |-> ReadBe(bytes, sized.body + (i - 1) * ref_size, ref_size)]
        items == [i \in 1 .. length |-> Decode(bytes, refs[i], Active(active, index, refs, i))]
    IN  CASE index >= Trailer(bytes).count \/ index \in active -> Refused
          [] p > Len(bytes) -> Refused
          [] kind = "null" -> <<"null">>
          [] kind \in {"false", "true"} -> <<"bool", kind = "true">>
          [] kind \in {"int", "uid", "real"} -> Scalar(bytes, p, 2^bytes[p].info)
          [] kind = "date" -> Scalar(bytes, p, 8)
          [] kind \notin {"string", "utf16", "data", "array", "dict"} -> Refused
          [] sized.body = 0 \/ sized.count > (Len(bytes) - sized.body + 1) \div entry -> Refused
          [] kind \in {"string", "utf16", "data"} -> Characters(bytes, kind, sized.body, sized.count)
          [] \E i \in DOMAIN items : items[i] = Refused -> Refused
          [] kind = "array" -> <<"array", items>>
          [] OTHER -> <<"dict", FoldLeft(LAMBDA f, i : Emplace(f, StringOr(items[i]), items[sized.count + i]),
                                         <<>>, [i \in 1 .. sized.count |-> i])>>

ParseBinary(bytes) == IF TrailerHolds(bytes) THEN Decode(bytes, Trailer(bytes).top, {}) ELSE Refused

=============================================================================
