----------------------------- MODULE RemoteXpc -----------------------------
(***************************************************************************)
(* RemoteXPC (src/src/protocol/remotexpc.cpp): XpcWrapper::encode and parse, *)
(* with the payload and the xpc object inside it.                           *)
(*                                                                         *)
(* A value is a tuple that begins with its type; text, data, keys and uuids *)
(* are sequences of bytes, and so are the 64-bit values.                    *)
(***************************************************************************)
EXTENDS Integers, Sequences, SequencesExt

CONSTANT Byte        \* 2^8 in the code

Refused == <<"refused">>

\* The numbers of the types, the magic numbers and the version.
Types == <<"null", "bool", "int64", "uint64", "double", "date", "data", "string", "uuid", "array", "dict">>
TypeNumber(name) == CHOOSE t \in DOMAIN Types : Types[t] = name

WrapperMagic   == 1
PayloadMagic   == 2
PayloadVersion == 5

Wide == {"int64", "uint64", "double", "date"}

-----------------------------------------------------------------------------
(* Writing.                                                                 *)

Word(value, size) == [i \in 1 .. size |-> (value \div Byte^(i - 1)) % Byte]
U32(value) == Word(value, 4)
U64(value) == Word(value, 8)

Pad(bytes) == bytes \o [i \in 1 .. (4 - (Len(bytes) % 4)) % 4 |-> 0]

EncodeKey(key) == Pad(Append(key, 0))

\* A body, its number of entries before it, and its length before that.
Container(count, entries) ==
    LET body == U32(count) \o FlattenSeq(entries) IN U32(Len(body)) \o body

RECURSIVE EncodeObject(_)
EncodeObject(value) ==
    U32(TypeNumber(value[1])) \o
    CASE value[1] = "null" -> <<>>
      [] value[1] = "bool" -> U32(IF value[2] THEN 1 ELSE 0)
      [] value[1] \in Wide \cup {"uuid"} -> value[2]
      [] value[1] = "data" -> Pad(U32(Len(value[2])) \o value[2])
      [] value[1] = "string" -> Pad(U32(Len(value[2]) + 1) \o Append(value[2], 0))
      [] value[1] = "array" ->
           Container(Len(value[2]), [i \in DOMAIN value[2] |-> EncodeObject(value[2][i])])
      [] value[1] = "dict" ->
           LET keys == SetToSeq(DOMAIN value[2])
           IN  Container(Len(keys), [i \in DOMAIN keys |-> EncodeKey(keys[i]) \o EncodeObject(value[2][keys[i]])])

EncodePayload(object) == U32(PayloadMagic) \o U32(PayloadVersion) \o EncodeObject(object)

\* A wrapper without a payload has <<"none">> for one.
Encode(wrapper) ==
    LET body == IF wrapper.payload = <<"none">> THEN <<>> ELSE EncodePayload(wrapper.payload)
    IN  U32(WrapperMagic) \o U32(wrapper.flags) \o U64(Len(body)) \o U64(wrapper.id) \o body

-----------------------------------------------------------------------------
(* Reading: at is Reader::offset, and none, -1, once a read has failed.      *)

Fails == [value |-> Refused, at |-> 0 - 1]
Is(value, at) == [value |-> value, at |-> at]

Has(bytes, at, count) == count <= Len(bytes) - at

ReadWord(bytes, at, size) ==
    IF Has(bytes, at, size)
      THEN Is(FoldRight(LAMBDA b, value : value * Byte + b, SubSeq(bytes, at + 1, at + size), 0), at + size)
      ELSE [value |-> 0, at |-> 0 - 1]

SkipPadding(bytes, at) ==
    LET skipped == (4 - (at % 4)) % 4 IN IF Has(bytes, at, skipped) THEN at + skipped ELSE 0 - 1

Take(bytes, at, count) ==
    IF Has(bytes, at, count) THEN Is(SubSeq(bytes, at + 1, at + count), at + count) ELSE Fails

\* A value with its padding behind it.
Padded(bytes, value, at) ==
    LET next == SkipPadding(bytes, at) IN IF next < 0 THEN Fails ELSE Is(value, next)

DecodeKey(bytes, at) ==
    LET ends == {i \in at + 1 .. Len(bytes) : bytes[i] = 0}
        end  == CHOOSE i \in ends : \A j \in ends : i <= j
    IN  IF ends = {} THEN Fails ELSE Padded(bytes, SubSeq(bytes, at + 1, end - 1), end)

\* The NUL at the end of a text goes, and every one before it.
RECURSIVE DropNuls(_)
DropNuls(text) == IF text # <<>> /\ Last(text) = 0 THEN DropNuls(Front(text)) ELSE text

Emplace(f, key, value) == [k \in DOMAIN f \cup {key} |-> IF k \in DOMAIN f THEN f[k] ELSE value]

\* The entries take up just the length that was announced.
Fills(start, length, at) == at >= 0 /\ at - start = length

RECURSIVE DecodeObject(_, _), DecodeItems(_, _, _, _), DecodeEntries(_, _, _, _)

DecodeItems(bytes, at, count, items) ==
    LET item == DecodeObject(bytes, at)
    IN  CASE Len(items) = count -> Is(<<"array", items>>, at)
          [] item.at < 0 -> Fails
          [] OTHER -> DecodeItems(bytes, item.at, count, Append(items, item.value))

DecodeEntries(bytes, at, left, entries) ==
    LET key  == DecodeKey(bytes, at)
        item == DecodeObject(bytes, key.at)
    IN  CASE left = 0 -> Is(<<"dict", entries>>, at)
          [] key.at < 0 -> Fails
          [] item.at < 0 -> Fails
          [] OTHER -> DecodeEntries(bytes, item.at, left - 1, Emplace(entries, key.value, item.value))

DecodeObject(bytes, start) ==
    LET type   == ReadWord(bytes, start, 4)
        name   == Types[type.value]
        at     == type.at
        word   == ReadWord(bytes, at, 4)      \* a boolean, or a length
        body   == Take(bytes, word.at, word.value)
        fixed  == Take(bytes, at, IF name = "uuid" THEN 16 ELSE 8)
        count  == ReadWord(bytes, word.at, 4)
        filled == IF name = "array" THEN DecodeItems(bytes, count.at, count.value, <<>>)
                  ELSE DecodeEntries(bytes, count.at, count.value, <<>>)
    IN  CASE at < 0 \/ type.value \notin DOMAIN Types -> Fails
          [] name = "null" -> Is(<<"null">>, at)
          [] name \in Wide \cup {"uuid"} -> IF fixed.at < 0 THEN Fails ELSE Is(<<name, fixed.value>>, fixed.at)
          [] word.at < 0 -> Fails
          [] name = "bool" -> Is(<<"bool", word.value # 0>>, word.at)
          [] name \in {"data", "string"} ->
               IF body.at < 0 THEN Fails
               ELSE Padded(bytes, <<name, IF name = "data" THEN body.value ELSE DropNuls(body.value)>>, body.at)
          [] count.at < 0 -> Fails
          [] name = "array" /\ count.value > (Len(bytes) - count.at) \div 4 -> Fails
          [] filled.at < 0 \/ ~Fills(word.at, word.value, filled.at) -> Fails
          [] OTHER -> filled

ParsePayload(bytes) ==
    LET object == DecodeObject(bytes, 8)
    IN  IF \/ ReadWord(bytes, 0, 4) # Is(PayloadMagic, 4)
           \/ ReadWord(bytes, 4, 4) # Is(PayloadVersion, 8)
           \/ object.at # Len(bytes)
          THEN Refused
          ELSE object.value

Parse(bytes) ==
    LET flags  == ReadWord(bytes, 4, 4)
        length == ReadWord(bytes, 8, 8)
        id     == ReadWord(bytes, 16, 8)
        body   == Take(bytes, 24, length.value)
        payload == IF length.value = 0 THEN <<"none">> ELSE ParsePayload(body.value)
    IN  IF \/ ReadWord(bytes, 0, 4) # Is(WrapperMagic, 4) \/ id.at < 0
           \/ body.at < 0 \/ body.at # Len(bytes) \/ payload = Refused
          THEN Refused
          ELSE <<"wrapper", [flags |-> flags.value, id |-> id.value, payload |-> payload]>>

=============================================================================
