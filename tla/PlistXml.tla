------------------------------ MODULE PlistXml ------------------------------
(***************************************************************************)
(* XML property lists (src/src/protocol/plist.cpp): Plist::to_xml, the      *)
(* XmlParser behind Plist::parse_xml, and the conversions they use: base64, *)
(* XML escapes and dates.                                                   *)
(*                                                                         *)
(* Values are those of Plist; data is a sequence of bytes, a date a number  *)
(* of seconds.  A text is a sequence of words: a character that means       *)
(* something to XML is a word, and so is a name, an entity or a number.     *)
(***************************************************************************)
EXTENDS Integers, Sequences, SequencesExt

CONSTANT MaxNumber   \* bound: the numbers a text can have in it

Refused == <<"refused">>
Numbers == 0 - MaxNumber .. MaxNumber

KeysOf(f) == SetToSeq(DOMAIN f)

\* std::strtoll: no number is zero.
NumberIn(words) ==
    IF words # <<>> /\ \E n \in Numbers : ToString(n) = words[1]
      THEN CHOOSE n \in Numbers : ToString(n) = words[1] ELSE 0

-----------------------------------------------------------------------------
(* Base64: three bytes are four sextets; a sextet is its number here.       *)

Encode3(bytes, i) ==
    LET At(j) == IF j <= Len(bytes) THEN bytes[j] ELSE 0
        triple == At(i) * 65536 + At(i + 1) * 256 + At(i + 2)
        sextets == [k \in 1 .. 4 |-> ToString((triple \div 64^(4 - k)) % 64)]
    IN  [k \in 1 .. 4 |-> IF i + k - 2 <= Len(bytes) THEN sextets[k] ELSE "="]

Base64Encode(bytes) ==
    FlattenSeq([t \in 1 .. (Len(bytes) + 2) \div 3 |-> Encode3(bytes, 3 * t - 2)])

\* What is left of the buffer are the bits that no byte has been made of.
Base64Decode(words) ==
    LET sextets == {ToString(n) : n \in 0 .. 63}
        ends == {i \in DOMAIN words : words[i] = "="}
        text == SelectSeq(IF ends = {} THEN words ELSE SubSeq(words, 1, (CHOOSE i \in ends : \A j \in ends : i <= j) - 1),
                          LAMBDA w : w # " ")
        Take(s, word) ==
            LET buffer == s.buffer * 64 + (CHOOSE n \in 0 .. 63 : ToString(n) = word)
                bits == s.bits + 6
            IN  IF bits < 8 THEN [s EXCEPT !.buffer = buffer, !.bits = bits]
                ELSE [out |-> Append(s.out, buffer \div 2^(bits - 8)), buffer |-> buffer % 2^(bits - 8), bits |-> bits - 8]
    IN  IF \E i \in DOMAIN text : text[i] \notin sextets THEN Refused
        ELSE <<"data", FoldLeft(Take, [out |-> <<>>, buffer |-> 0, bits |-> 0], text).out>>

-----------------------------------------------------------------------------
(* Escapes.  "lt;" and the like are words, as "&" and "<" are.              *)

Escape(text) ==
    FlattenSeq([i \in DOMAIN text |->
        CASE text[i] = "&" -> <<"&", "amp;">> [] text[i] = "<" -> <<"&", "lt;">>
          [] text[i] = ">" -> <<"&", "gt;">>  [] OTHER -> <<text[i]>>])

Entities == [e \in {"amp;", "lt;", "gt;", "quot;", "apos;"} |->
    CASE e = "amp;" -> "&" [] e = "lt;" -> "<" [] e = "gt;" -> ">" [] e = "quot;" -> "\"" [] OTHER -> "'"]

\* Mutant: the entities are replaced one kind after the other, "&amp;" first.
UnescapeInTurn(text) ==
    LET once == FoldLeft(LAMBDA s, w : IF s # <<>> /\ Last(s) = "&" /\ w = "amp;" THEN s ELSE Append(s, w), <<>>, text)
    IN  FoldLeft(LAMBDA s, w : IF s # <<>> /\ Last(s) = "&" /\ w \in DOMAIN Entities \ {"amp;"}
                                 THEN Append(Front(s), Entities[w]) ELSE Append(s, w), <<>>, once)

\* One pass: what an entity stood for is not looked at again.
Unescape(text) ==
    LET Word(s, w) ==
            IF s.amp /\ w \in DOMAIN Entities
              THEN [out |-> Append(Front(s.out), Entities[w]), amp |-> FALSE]
              ELSE [out |-> Append(s.out, w), amp |-> w = "&"]
    IN  FoldLeft(Word, [out |-> <<>>, amp |-> FALSE], text).out

-----------------------------------------------------------------------------
(* Dates.                                                                   *)

\* As the division of C does it.
DivC(a, b) == IF a >= 0 THEN a \div b ELSE 0 - ((0 - a) \div b)

EraOf(n, length) == DivC(IF n >= 0 THEN n ELSE n - (length - 1), length)

DaysFromCivil(year, m, d) ==
    LET y   == IF m <= 2 THEN year - 1 ELSE year
        era == EraOf(y, 400)
        yoe == y - era * 400
        doy == (153 * (m + (IF m > 2 THEN 0 - 3 ELSE 9)) + 2) \div 5 + d - 1
    IN  era * 146097 + yoe * 365 + yoe \div 4 - yoe \div 100 + doy - 719468

YearOfEra(doe) == (doe - doe \div 1460 + doe \div 36524 - doe \div 146096) \div 365

CivilFromDays(days) ==
    LET z   == days + 719468
        era == EraOf(z, 146097)
        doe == z - era * 146097
        yoe == YearOfEra(doe)
        doy == doe - (365 * yoe + yoe \div 4 - yoe \div 100)
        mp  == (5 * doy + 2) \div 153
        m   == IF mp < 10 THEN mp + 3 ELSE mp - 9
    IN  [y |-> yoe + era * 400 + (IF m <= 2 THEN 1 ELSE 0), m |-> m, d |-> doy - (153 * mp + 2) \div 5 + 1]

Epoch  == 978307200      \* kPlistEpochSeconds
PerDay == 86400          \* kSecondsPerDay

\* The fields of a text of fixed widths, one word each.
FormatDate(since_2001) ==
    LET seconds == since_2001 + Epoch
        days == DivC(IF seconds >= 0 THEN seconds ELSE seconds - (PerDay - 1), PerDay)
        rest == seconds - days * PerDay
        date == CivilFromDays(days)
    IN  [i \in 1 .. 6 |-> ToString(CASE i = 1 -> date.y [] i = 2 -> date.m [] i = 3 -> date.d
            [] i = 4 -> rest \div 3600 [] i = 5 -> (rest % 3600) \div 60 [] OTHER -> rest % 60)]

ParseDate(words) ==
    LET At(i) == NumberIn(SubSeq(words, i, i))
    IN  IF Len(words) < 6 \/ \E i \in 1 .. 6 : At(i) < 0 THEN Refused
        ELSE <<"date", DaysFromCivil(At(1), At(2), At(3)) * PerDay
                       + At(4) * 3600 + At(5) * 60 + At(6) - Epoch>>

-----------------------------------------------------------------------------
(* Writing.                                                                 *)

Closes(name) == <<"<", "/" \o name \o ">">>

Element(name, body) == <<"<", name, ">">> \o body \o Closes(name)

RECURSIVE AppendXml(_)
AppendXml(value) ==
    CASE value[1] = "null" -> <<"<", "null/>">>
      [] value[1] = "bool" -> <<"<", IF value[2] THEN "true/>" ELSE "false/>">>
      [] value[1] \in {"int", "uid"} -> Element("integer", <<ToString(value[2])>>)
      [] value[1] = "real"   -> Element("real", <<ToString(value[2])>>)
      [] value[1] = "string" -> Element("string", Escape(value[2]))
      [] value[1] = "data"   -> Element("data", Base64Encode(value[2]))
      [] value[1] = "date"   -> Element("date", FormatDate(value[2]))
      [] value[1] = "array"  -> Element("array", FlattenSeq([i \in DOMAIN value[2] |-> AppendXml(value[2][i])]))
      [] value[1] = "dict"   ->
           LET keys == KeysOf(value[2])
           IN  Element("dict", FlattenSeq([i \in DOMAIN keys |->
                   Element("key", Escape(keys[i])) \o AppendXml(value[2][keys[i]])]))

ToXml(value) ==
    <<"<", "?xml", ">", " ", "<", "!DOCTYPE", ">", " ", "<", "plist", " ", "version", ">">>
    \o AppendXml(value) \o Closes("plist") \o <<" ">>

-----------------------------------------------------------------------------
(* Reading: position i is of the next word; a reader returns a value and the *)
(* position behind it.                                                      *)

IsAt(text, i, words) == i + Len(words) - 1 <= Len(text) /\ SubSeq(text, i, i + Len(words) - 1) = words

RECURSIVE SkipSpace(_, _)
SkipSpace(text, i) == IF IsAt(text, i, <<" ">>) THEN SkipSpace(text, i + 1) ELSE i

Find(text, i, words) ==
    LET found == {j \in i .. Len(text) : IsAt(text, j, words)}
    IN  IF found = {} THEN 0 ELSE CHOOSE j \in found : \A k \in found : j <= k

SkipTo(text, i, word) == LET j == Find(text, i, <<word>>) IN IF j = 0 THEN Len(text) + 1 ELSE j + 1

RECURSIVE SkipProlog(_, _)
SkipProlog(text, at) ==
    LET i == SkipSpace(text, at)
    IN  CASE IsAt(text, i, <<"<", "!--">>) -> SkipProlog(text, SkipTo(text, i, "-->"))
          [] IsAt(text, i, <<"<", "?xml">>) \/ IsAt(text, i, <<"<", "!DOCTYPE">>) -> SkipProlog(text, SkipTo(text, i, ">"))
          [] OTHER -> i

Fails == [value |-> Refused, at |-> 0]

\* read_body: i is behind the name of the element.
Body(text, name, i) ==
    LET open == SkipSpace(text, i)
        end  == Find(text, open + 1, Closes(name))
    IN  CASE IsAt(text, open, <<"/>">>) -> [value |-> <<>>, at |-> open + 1]
          [] ~IsAt(text, open, <<">">>) -> Fails
          [] end = 0 -> Fails
          [] OTHER -> [value |-> SubSeq(text, open + 1, end - 1), at |-> end + 2]

Convert(name, words) ==
    CASE name = "integer" -> <<"int", NumberIn(words)>>
      [] name = "real"    -> <<"real", NumberIn(words)>>
      [] name = "string"  -> <<"string", Unescape(words)>>
      [] name = "data"    -> Base64Decode(words)
      [] name = "date"    -> ParseDate(words)

Scalars == {"integer", "real", "string", "data", "date"}

Emplace(f, key, value) == [k \in DOMAIN f \cup {key} |-> IF k \in DOMAIN f THEN f[k] ELSE value]

RECURSIVE ParseValue(_, _), ParseItems(_, _, _), ParseEntries(_, _, _)

ParseItems(text, at, items) ==
    LET i == SkipSpace(text, at)
        item == ParseValue(text, i)
    IN  CASE IsAt(text, i, Closes("array")) -> [value |-> <<"array", items>>, at |-> i + 2]
          [] item.value = Refused -> Fails
          [] OTHER -> ParseItems(text, item.at, Append(items, item.value))

ParseEntries(text, at, entries) ==
    LET i == SkipSpace(text, at)
        key == Body(text, "key", i + 2)
        item == ParseValue(text, key.at)
    IN  CASE IsAt(text, i, Closes("dict")) -> [value |-> <<"dict", entries>>, at |-> i + 2]
          [] ~IsAt(text, i, <<"<", "key">>) \/ key = Fails -> Fails
          [] item.value = Refused -> Fails
          [] OTHER -> ParseEntries(text, item.at, Emplace(entries, Unescape(key.value), item.value))

ParseValue(text, at) ==
    LET i == SkipSpace(text, at)
        name == text[i + 1]
        body == Body(text, name, i + 2)
        open == SkipSpace(text, i + 2)
        value == Convert(name, body.value)
    IN  CASE ~IsAt(text, i, <<"<">>) \/ i = Len(text) -> Fails
          [] IsAt(text, i, <<"<", "null/>">>)  -> [value |-> <<"null">>, at |-> i + 2]
          [] IsAt(text, i, <<"<", "true/>">>)  -> [value |-> <<"bool", TRUE>>, at |-> i + 2]
          [] IsAt(text, i, <<"<", "false/>">>) -> [value |-> <<"bool", FALSE>>, at |-> i + 2]
          [] name \in Scalars -> IF body = Fails \/ value = Refused THEN Fails ELSE [value |-> value, at |-> body.at]
          [] name \notin {"array", "dict"} \/ ~IsAt(text, open, <<">">>) -> Fails
          [] name = "array" -> ParseItems(text, open + 1, <<>>)
          [] OTHER -> ParseEntries(text, open + 1, <<>>)

ParseXml(text) ==
    LET i == SkipProlog(text, 1)
    IN  IF ~IsAt(text, i, <<"<", "plist">>) THEN Refused ELSE ParseValue(text, SkipTo(text, i, ">")).value

=============================================================================
