-------------------------------- MODULE Json --------------------------------
(***************************************************************************)
(* JSON (src/src/protocol/json.cpp), which the CDTunnel handshake speaks:   *)
(* Json::to_string and the recursive-descent Parser behind Json::parse.     *)
(*                                                                         *)
(* A value is a tuple that begins with its type.  A text is a sequence of   *)
(* words: each bracket, quote and backslash is one, so is a character, and   *)
(* a literal or a number is one too.                                        *)
(***************************************************************************)
EXTENDS Integers, Sequences, SequencesExt

CONSTANT MaxDouble   \* bound: the numbers a text can have in it

Refused == <<"refused">>
Numbers == {ToString(n) : n \in 0 - MaxDouble .. MaxDouble}

-----------------------------------------------------------------------------
(* Writing.                                                                 *)

\* What has a letter of its own behind a backslash.
Short == [c \in {"\"", "\\", "newline", "tab"} |->
    CASE c = "newline" -> "n" [] c = "tab" -> "t" [] OTHER -> c]

\* The other control characters, and how they are written.
Control == [c \in {"control"} |-> "0001"]

Quoted(chars) ==
    <<"\"">> \o FlattenSeq([i \in DOMAIN chars |->
        CASE chars[i] \in DOMAIN Short   -> <<"\\", Short[chars[i]]>>
          [] chars[i] \in DOMAIN Control -> <<"\\", "u", Control[chars[i]]>>
          [] OTHER -> <<chars[i]>>]) \o <<"\"">>

Joined(texts) == FlattenSeq([i \in DOMAIN texts |-> IF i = 1 THEN texts[i] ELSE <<",">> \o texts[i]])

RECURSIVE Serialize(_)
Serialize(value) ==
    CASE value[1] = "null"   -> <<"null">>
      [] value[1] = "bool"   -> <<IF value[2] THEN "true" ELSE "false">>
      [] value[1] = "number" -> <<ToString(value[2])>>
      [] value[1] = "string" -> Quoted(value[2])
      [] value[1] = "array"  -> <<"[">> \o Joined([i \in DOMAIN value[2] |-> Serialize(value[2][i])]) \o <<"]">>
      [] value[1] = "object" ->
           LET keys == SetToSeq(DOMAIN value[2])
           IN  <<"{">> \o Joined([i \in DOMAIN keys |->
                   Quoted(keys[i]) \o <<":">> \o Serialize(value[2][keys[i]])]) \o <<"}">>

-----------------------------------------------------------------------------
(* Reading: a reader returns a value and the position behind it.            *)

Fails == [value |-> Refused, at |-> 0]
Is(value, at) == [value |-> value, at |-> at]

Peek(text, i) == IF i <= Len(text) THEN text[i] ELSE "end"

RECURSIVE SkipWhitespace(_, _)
SkipWhitespace(text, i) == IF Peek(text, i) = " " THEN SkipWhitespace(text, i + 1) ELSE i

\* The four hex digits of an escape are a word.
Surrogates == [h \in {"d800", "dc00"} |-> IF h = "d800" THEN "high" ELSE "low"]
Hex4 == [h \in {"0001", "0041"} \cup DOMAIN Surrogates |->
    CASE h = "0001" -> "control" [] h = "0041" -> "A" [] OTHER -> Surrogates[h]]

\* A high surrogate and a low one right behind it are a character.
IsPair(text, i) ==
    /\ Peek(text, i) = "d800" /\ Peek(text, i + 1) = "\\" /\ Peek(text, i + 2) = "u"
    /\ Peek(text, i + 3) = "dc00"

Letters == [l \in {"\"", "\\", "/", "n", "t"} |->
    CASE l = "n" -> "newline" [] l = "t" -> "tab" [] OTHER -> l]

\* parse_string, behind the opening quote.
RECURSIVE Characters(_, _, _)
Characters(text, i, chars) ==
    LET c == Peek(text, i)
        letter == Peek(text, i + 1)
        hex == Peek(text, i + 2)
    IN  CASE c = "end"  -> Fails
          [] c = "\""   -> Is(chars, i + 1)
          [] c # "\\"   -> Characters(text, i + 1, Append(chars, c))
          [] letter \in DOMAIN Letters -> Characters(text, i + 2, Append(chars, Letters[letter]))
          [] letter # "u" \/ hex \notin DOMAIN Hex4 -> Fails
          [] IsPair(text, i + 2) -> Characters(text, i + 6, Append(chars, "pair"))
          [] OTHER -> Characters(text, i + 3, Append(chars, Hex4[hex]))

ParseString(text, i) == IF Peek(text, i) # "\"" THEN Fails ELSE Characters(text, i + 1, <<>>)

Literals == [l \in {"null", "true", "false"} |->
    IF l = "null" THEN <<"null">> ELSE <<"bool", l = "true">>]

NumberOf(word) == CHOOSE n \in 0 - MaxDouble .. MaxDouble : ToString(n) = word

Emplace(f, key, value) == [k \in DOMAIN f \cup {key} |-> IF k \in DOMAIN f THEN f[k] ELSE value]

\* Mutant: a comma may be the last thing in an array.
NextItemOrEnd(text, at, close) ==
    LET i == SkipWhitespace(text, at)
    IN  CASE Peek(text, i) = "," /\ Peek(text, SkipWhitespace(text, i + 1)) = close ->
               [more |-> FALSE, at |-> SkipWhitespace(text, i + 1) + 1]
          [] Peek(text, i) = ","   -> [more |-> TRUE, at |-> i + 1]
          [] Peek(text, i) = close -> [more |-> FALSE, at |-> i + 1]
          [] OTHER -> Fails

\* Behind an item: a comma, after which there is another, or the end.
NextItem(text, at, close) ==
    LET i == SkipWhitespace(text, at)
    IN  CASE Peek(text, i) = ","   -> [more |-> TRUE, at |-> i + 1]
          [] Peek(text, i) = close -> [more |-> FALSE, at |-> i + 1]
          [] OTHER -> Fails

RECURSIVE ParseValue(_, _), ParseItems(_, _, _), ParseMembers(_, _, _)

ParseItems(text, at, items) ==
    LET item == ParseValue(text, SkipWhitespace(text, at))
        next == NextItem(text, item.at, "]")
        all  == Append(items, item.value)
    IN  CASE item = Fails \/ next = Fails -> Fails
          [] next.more -> ParseItems(text, next.at, all)
          [] OTHER     -> Is(<<"array", all>>, next.at)

ParseMembers(text, at, members) ==
    LET key   == ParseString(text, SkipWhitespace(text, at))
        colon == SkipWhitespace(text, key.at)
        item  == ParseValue(text, SkipWhitespace(text, colon + 1))
        next  == NextItem(text, item.at, "}")
        all   == Emplace(members, key.value, item.value)
    IN  CASE key = Fails \/ Peek(text, colon) # ":" -> Fails
          [] item = Fails \/ next = Fails -> Fails
          [] next.more -> ParseMembers(text, next.at, all)
          [] OTHER     -> Is(<<"object", all>>, next.at)

ParseValue(text, i) ==
    LET c == Peek(text, i)
        first == SkipWhitespace(text, i + 1)
        string == ParseString(text, i)
    IN  CASE c = "{" -> IF Peek(text, first) = "}" THEN Is(<<"object", <<>>>>, first + 1) ELSE ParseMembers(text, first, <<>>)
          [] c = "[" -> IF Peek(text, first) = "]" THEN Is(<<"array", <<>>>>, first + 1) ELSE ParseItems(text, first, <<>>)
          [] c = "\"" -> IF string = Fails THEN Fails ELSE Is(<<"string", string.value>>, string.at)
          [] c \in DOMAIN Literals -> Is(Literals[c], i + 1)
          [] c \in Numbers -> Is(<<"number", NumberOf(c)>>, i + 1)
          [] OTHER -> Fails

\* Nothing but white space may follow the value.
Parse(text) ==
    LET parsed == ParseValue(text, SkipWhitespace(text, 1))
    IN  IF parsed = Fails \/ SkipWhitespace(text, parsed.at) <= Len(text) THEN Refused ELSE parsed.value

=============================================================================
