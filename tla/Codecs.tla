------------------------------- MODULE Codecs -------------------------------
(***************************************************************************)
(* The wire formats of the library, each as its writer and its reader see   *)
(* it: a value is written, what was written may be cut short or have one    *)
(* byte changed on its way, and it is read again; or a text comes from      *)
(* elsewhere.  The formats themselves are in the modules instanced below.   *)
(***************************************************************************)
EXTENDS Integers, Sequences, SequencesExt

CONSTANTS
    Byte, CountFollows, Version, MaxDepth,     \* see Plist and KeyedArchive
    MaxNumber, MaxDouble,                      \* see PlistXml and Json
    MaxInt,        \* bound: the integers tried
    MaxChars,      \* bound: the length of a string
    MaxWords       \* bound: the length of a JSON text that comes from elsewhere

Binary == INSTANCE KeyedArchive
Xml    == INSTANCE PlistXml
Json   == INSTANCE Json
Xpc    == INSTANCE RemoteXpc

VARIABLES
    format,        \* what is written and read; a table is binary, tokens are JSON
    value,         \* what is written
    text,          \* what is on the wire
    result,        \* what the reader returned
    step           \* "value", then "text", perhaps "cut" or "harmed", then "read"

vars == <<format, value, text, result, step>>

Refused == <<"refused">>

-----------------------------------------------------------------------------
(* The values that are written.                                             *)

SeqsUpTo(S, n) == UNION {[1 .. k -> S] : k \in 0 .. n}

\* Arrays and dictionaries of what is in S.
Nested(S, dict, keys) ==
    {<<"array", items>> : items \in SeqsUpTo(S, 2)} \cup {<<dict, f>> : f \in UNION {[K -> S] : K \in SUBSET keys}}

Few   == {<<"null">>, <<"bool", TRUE>>, <<"int", 1>>, <<"string", <<"a">>>>}
Keys  == {<<"a">>, <<"b">>}
Flat  == Nested(Few, "dict", Keys)
Trees == Flat \cup Nested({<<"null">>, <<"dict", <<>>>>, <<"array", <<<<"int", 1>>>>>>,
                           <<"dict", [k \in {<<"a">>} |-> <<"string", <<"a">>>>]>>}, "dict", Keys)
Tall  == Trees \cup {<<"array", <<t>>>> : t \in Trees}

Long == {[i \in 1 .. n |-> "a"] : n \in 0 .. Byte + 1}

BinaryValues ==
    Tall \cup {<<"int", n>> : n \in 0 - MaxInt .. MaxInt}
         \cup {<<"uid", n>> : n \in 0 .. MaxInt}
         \cup {<<kind, s>> : kind \in {"string", "data"}, s \in Long}
         \cup {<<"array", [i \in DOMAIN s |-> <<"bool", FALSE>>]>> : s \in Long}
         \cup {<<"real", 3>>, <<"date", 4>>}

\* Words that could be taken for a tag or for an entity among them.
XmlStrings == SeqsUpTo({"a", "&", "<", "lt;", "amp;", "/string>"}, MaxChars)

XmlValues ==
    Trees \cup {<<"string", s>> : s \in XmlStrings}
          \cup {<<"data", s>> : s \in SeqsUpTo({0, 1, 255}, 4)}
          \cup {<<"date", n>> : n \in {0, 1, 86399} \cup {k * 43199 - 978307200 : k \in 0 - 3 .. 3}}
          \cup {<<"dict", [k \in {s} |-> <<"null">>]>> : s \in XmlStrings}

JsonFew == {<<"null">>, <<"bool", FALSE>>, <<"number", 1>>, <<"string", <<"\"">>>>}
JsonValues ==
    Nested(JsonFew \cup Nested(JsonFew, "object", {<<"a">>}), "object", Keys)
    \cup {<<"string", s>> : s \in SeqsUpTo({"a", "\"", "\\", "n", "newline", "control"}, MaxChars)}

XpcFew ==
    {<<"null">>, <<"bool", TRUE>>, <<"uint64", [i \in 1 .. 8 |-> i % Byte]>>, <<"uuid", [i \in 1 .. 16 |-> 1]>>}
    \cup {<<kind, [i \in 1 .. n |-> 1]>> : kind \in {"data", "string"}, n \in 0 .. 4}
XpcContainers ==
    Nested(XpcFew, "dict", {<<1>>}) \cup Nested({<<"array", <<v>>>> : v \in XpcFew} \cup {<<"dict", <<>>>>}, "dict", {<<1, 1, 1, 1>>})
XpcValues ==
    {[flags |-> 1, id |-> 1, payload |-> v] : v \in XpcFew \cup XpcContainers \cup {<<"none">>}}

\* Days around the turns of the years and the ends of their Februaries.
Years == {y \in 1 .. 2600 : y % 100 \in {0, 1, 4, 99}}
Days  == {((y - 1970) * 146097) \div 400 + d : y \in Years, d \in (0 - 2 .. 2) \cup (57 .. 62)}

-----------------------------------------------------------------------------
(* The texts that come from elsewhere.                                      *)

\* A binary property list of arrays that refer to whatever they like.
Tables == [1 .. 3 -> SeqsUpTo(0 .. 3, 2)]

TableBytes(refs) ==
    LET Object(i) == <<Binary!Marker("array", Len(refs[i]))>> \o refs[i]
        objects == Object(1) \o Object(2) \o Object(3)
        h == Binary!HeaderSize
        offsets == <<h, h + Len(Object(1)), h + Len(Object(1)) + Len(Object(2))>>
    IN  Binary!Header \o objects \o FlattenSeq([i \in 1 .. 3 |-> Binary!PutBe(offsets[i], 2)])
        \o <<[offset_size |-> 2, ref_size |-> 1, count |-> 3, top |-> 0, table |-> h + Len(objects)]>>

\* JSON of these tokens, the third to last a string.
Tokens == {"{", "}", "[", "]", ",", ":", "1", " ", "\"a\""}

JsonText(tokens) ==
    FlattenSeq([i \in DOMAIN tokens |-> IF tokens[i] = "\"a\"" THEN <<"\"", "a", "\"">> ELSE <<tokens[i]>>])

\* What is between the quotes of a JSON string.
Escapes == {"\\", "\"", "u", "d800", "dc00", "z"}

-----------------------------------------------------------------------------
Begins(f, first) == format = f /\ step = first /\ result = Refused

Init ==
    \/ /\ text = <<>>
       /\ \/ Begins("binary", "value")  /\ value \in BinaryValues
          \/ Begins("archive", "value") /\ value \in Tall
          \/ Begins("xml", "value")     /\ value \in XmlValues
          \/ Begins("json", "value")    /\ value \in JsonValues
          \/ Begins("xpc", "value")     /\ value \in XpcValues
          \/ Begins("days", "value")    /\ value \in Days
    \/ Begins("table", "text")  /\ value \in Tables /\ text = TableBytes(value)
    \/ Begins("tokens", "text") /\ value \in SeqsUpTo(Tokens, MaxWords) /\ text = JsonText(value)
    \/ Begins("escapes", "text") /\ value \in SeqsUpTo(Escapes, MaxWords) /\ text = <<"\"">> \o value \o <<"\"">>

Write(f, written) ==
    /\ format = f /\ step = "value"
    /\ text' = written /\ step' = "text"
    /\ UNCHANGED <<format, value, result>>

WriteBinary  == Write("binary", Binary!ToBinary(value))
WriteArchive == Write("archive", Binary!Archive(value))
WriteXml     == Write("xml", Xml!ToXml(value))
WriteJson    == Write("json", Json!Serialize(value))
WriteXpc     == Write("xpc", Xpc!Encode(value))
WriteDays    == Write("days", Xml!CivilFromDays(value))

\* What of a text cannot be missed.
Needed == CASE format = "xml" -> Len(text) - 3 [] format \in {"json", "xpc"} -> Len(text) [] OTHER -> 0

Cut ==
    /\ step = "text" /\ Needed > 0
    /\ \E k \in 0 .. Needed - 1 : text' = SubSeq(text, 1, k)
    /\ step' = "cut"
    /\ UNCHANGED <<format, value, result>>

\* Where a wrapper has its length, and its object one, and the number of entries.
Lengths == {9, 10} \cup {37, 38, 41}

Harm ==
    /\ format = "xpc" /\ step = "text" /\ value.payload[1] \in {"array", "dict"}
    /\ \E i \in Lengths, b \in 0 .. Byte - 1 : text[i] # b /\ text' = [text EXCEPT ![i] = b]
    /\ step' = "harmed"
    /\ UNCHANGED <<format, value, result>>

Read(formats, parsed) ==
    /\ format \in formats /\ step \in {"text", "cut", "harmed"}
    /\ result' = parsed /\ step' = "read " \o step
    /\ UNCHANGED <<format, value, text>>

ReadBinary  == Read({"binary", "table"}, Binary!ParseBinary(text))
ReadArchive == Read({"archive"}, Binary!Unarchive(text))
ReadXml     == Read({"xml"}, Xml!ParseXml(text))
ReadJson    == Read({"json", "tokens", "escapes"}, Json!Parse(text))
ReadXpc     == Read({"xpc"}, Xpc!Parse(text))
ReadDays    == Read({"days"}, <<"days", Xml!DaysFromCivil(text.y, text.m, text.d)>>)

Next == \/ WriteBinary \/ WriteArchive \/ WriteXml \/ WriteJson \/ WriteXpc \/ WriteDays
        \/ Cut \/ Harm
        \/ ReadBinary \/ ReadArchive \/ ReadXml \/ ReadJson \/ ReadXpc \/ ReadDays

Spec == Init /\ [][Next]_vars

-----------------------------------------------------------------------------
(* An integer of a width whose top bit it has set is one a reader takes for  *)
(* a negative one (see IntegersRoundTrip).                                  *)
TopClear(n) == n < 0 \/ 2 * n < Byte^(2^Binary!Exponent(n))

Returned(f) == format = f /\ step = "read text"

(* A value that is written as a binary property list is read as it was,     *)
(* whatever the sizes of its counts, references and offsets, its shared keys *)
(* and its nesting (Plist::to_binary, parse_binary).                        *)
BinaryRoundTrips ==
    Returned("binary") /\ (value[1] = "int" => TopClear(value[2])) => result = value

(* An integer that is written as a binary property list is read as it was   *)
(* (append_int, Decoder::decode_uncached).                                  *)
IntegersRoundTrip == Returned("binary") /\ value[1] = "int" => result = value

(* A table of objects is read if, and only if, what can be reached from the *)
(* top is there and none of it is part of itself: objects may be shared     *)
(* (Decoder::decode).                                                       *)
TablesAccepted ==
    LET Refers(i, j) == i < 3 /\ \E k \in DOMAIN value[i + 1] : value[i + 1][k] = j
        Reach(i, j) == \/ Refers(i, j)
                       \/ \E k \in 0 .. 2 : Refers(i, k) /\ Refers(k, j)
                       \/ \E k, l \in 0 .. 2 : Refers(i, k) /\ Refers(k, l) /\ Refers(l, j)
    IN  Returned("table") => (result # Refused <=> ~Reach(0, 3) /\ ~Reach(0, 0) /\ \A i \in 1 .. 2 : Reach(0, i) => ~Reach(i, i))

(* A keyed archive is read as it was written, up to the depth the reader     *)
(* allows, and refused beyond it (KeyedArchive::archive, unarchive).        *)
RECURSIVE Levels(_)
Levels(v) ==
    LET below == CASE v[1] = "array" -> {Levels(v[2][i]) : i \in DOMAIN v[2]}
                   [] v[1] = "dict"  -> {Levels(v[2][k]) : k \in DOMAIN v[2]} \cup {0 : k \in DOMAIN v[2]}
                   [] OTHER -> {}
    IN  IF below = {} THEN 0 ELSE 1 + (CHOOSE n \in below : \A m \in below : m <= n)

ArchivesRoundTrip ==
    Returned("archive") => result = IF 2 * Levels(value) + 1 <= MaxDepth THEN value ELSE Refused

(* A value that is written as an XML property list is read as it was: a      *)
(* string with what looks like a tag or an entity, data of every length,     *)
(* dates before 1970 (Plist::to_xml, parse_xml).                            *)
XmlRoundTrips == Returned("xml") => result = value

(* The dates that are written are those of the calendar, leap years and      *)
(* centuries included, and are read back to the same day (civil_from_days,   *)
(* days_from_civil).                                                        *)
LeapYear(y) == y % 4 = 0 /\ (y % 100 = 0 => y % 400 = 0)

DaysIn(y, m) == CASE m = 2 -> IF LeapYear(y) THEN 29 ELSE 28 [] m \in {4, 6, 9, 11} -> 30 [] OTHER -> 31

Tomorrow(date) ==
    CASE date.d < DaysIn(date.y, date.m) -> [date EXCEPT !.d = @ + 1]
      [] date.m < 12 -> [date EXCEPT !.d = 1, !.m = @ + 1]
      [] OTHER -> [y |-> date.y + 1, m |-> 1, d |-> 1]

DatesFollowCalendar ==
    Returned("days") => result[2] = value /\ Xml!CivilFromDays(value + 1) = Tomorrow(text)

(* A value that is written as JSON is read as it was (Json::to_string,       *)
(* Json::parse).                                                            *)
JsonRoundTrips == Returned("json") => result = value

(* A text of these tokens is read if, and only if, it is JSON: a value by    *)
(* the grammar with white space between its tokens, and nothing behind it.  *)
(* So is a string of these escapes, if all its quotes and backslashes are   *)
(* escaped (Parser).  How a number is spelled, and characters below U+0020   *)
(* in a string, are not among the texts: the parser takes 1., .5, 01 and     *)
(* raw control characters, which JSON does not allow.                       *)
RECURSIVE Texts(_), Items(_), Members(_)
Texts(n) ==
    IF n = 1 THEN {<<"1">>, <<"\"a\"">>}
    ELSE {<<"[">> \o items \o <<"]">> : items \in Items(n - 2)}
         \cup {<<"{">> \o members \o <<"}">> : members \in Members(n - 2)}
Items(n) ==
    IF n <= 0 THEN IF n = 0 THEN {<<>>} ELSE {}
    ELSE Texts(n) \cup UNION {{v \o <<",">> \o rest : v \in Texts(k), rest \in Items(n - 1 - k)} : k \in 1 .. n - 2}
Members(n) ==
    IF n <= 2 THEN IF n = 0 THEN {<<>>} ELSE {}
    ELSE {<<"\"a\"", ":">> \o v : v \in Texts(n - 2)}
         \cup UNION {{<<"\"a\"", ":">> \o v \o <<",">> \o rest : v \in Texts(k), rest \in Members(n - 3 - k)} : k \in 1 .. n - 4}

Grammar == [n \in 1 .. MaxWords |-> Texts(n)]

Pieces ==
    {<<w>> : w \in Escapes \ {"\\", "\""}} \cup {<<"\\", "\\">>, <<"\\", "\"">>}
    \cup {<<"\\", "u", h>> : h \in {"d800", "dc00"}}

RECURSIVE IsString(_)
IsString(words) ==
    words = <<>> \/ \E p \in Pieces : IsPrefix(p, words) /\ IsString(SubSeq(words, Len(p) + 1, Len(words)))

JsonAccepts ==
    LET tokens == SelectSeq(value, LAMBDA t : t # " ")
    IN  /\ Returned("tokens") => (result # Refused <=> tokens # <<>> /\ tokens \in Grammar[Len(tokens)])
        /\ Returned("escapes") => (result # Refused <=> IsString(value))

(* A wrapper is read as it was written, header and payload, whatever the     *)
(* alignment of what is in it (XpcWrapper::encode, parse).                  *)
XpcRoundTrips == Returned("xpc") => result = <<"wrapper", value>>

(* A wrapper whose length, or whose object's length or number of entries, is *)
(* not that of what is there is refused (XpcWrapper::parse, decode_object).  *)
XpcLengthsHold == step = "read harmed" => result = Refused

(* An XML, JSON or XPC text that is cut short anywhere is refused, never     *)
(* taken for something smaller; the end tag of an XML plist may be missing   *)
(* (XmlParser::read_body, Parser, Reader::has).                             *)
CutIsRefused == step = "read cut" => result = Refused

(* Every format gives back the values above that it was given (BinaryValues, *)
(* XmlValues, JsonValues, XpcValues), but integers whose top bit is set.     *)
RoundTrips ==
    /\ BinaryRoundTrips /\ ArchivesRoundTrip /\ XmlRoundTrips /\ DatesFollowCalendar
    /\ JsonRoundTrips /\ XpcRoundTrips

(* Four kinds of malformed input are refused, and nothing well formed of the *)
(* first two: object tables with references out of range or in a circle,     *)
(* JSON texts made of tokens or escapes, XPC wrappers with a length or count *)
(* changed, and XML, JSON and XPC texts without their end.                   *)
OnlyWellFormedIsRead == TablesAccepted /\ JsonAccepts /\ XpcLengthsHold /\ CutIsRefused

=============================================================================
