---------------------------- MODULE Http2Proofs ----------------------------
(***************************************************************************)
(* Theorems about Http2 for every value of its constants: frames and       *)
(* windows of any size, any number of messages, settings, faults and       *)
(* grants.  They hold against every peer of the model, one that grants     *)
(* what it likes and sends SETTINGS again included; what it did before is  *)
(* a condition in StreamWithinGrant and WindowsExact, where the one        *)
(* stream_window cannot do more.                                           *)
(***************************************************************************)
EXTENDS Http2, SequenceTheorems, TLAPS

-----------------------------------------------------------------------------
(* The inductive invariants.                                               *)

\* The accounts of the two sides: neither grant nor spending is invented.
Ledger ==
    /\ sent[0] = sent[1] + sent[3]
    /\ consumed[0] = consumed[1] + consumed[3]
    /\ \A st \in StreamIds : consumed[st] <= sent[st]
    /\ \A id \in Ids : updates[id] <= issued[id]

\* The DATA frames under way lie between what was consumed and what was sent,
\* one after the other on their stream.
DataUnderWay ==
    /\ \A i \in 1 .. Len(to_peer) : to_peer[i].type = "DATA" =>
           /\ consumed[to_peer[i].stream] + to_peer[i].n <= to_peer[i].at
           /\ to_peer[i].at <= sent[to_peer[i].stream]
    /\ \A i, j \in 1 .. Len(to_peer) :
           /\ i < j
           /\ to_peer[i].type = "DATA" /\ to_peer[j].type = "DATA"
           /\ to_peer[i].stream = to_peer[j].stream
           => to_peer[i].at + to_peer[j].n <= to_peer[j].at

\* So do the WINDOW_UPDATE frames, between what was read and what was issued.
GrantsUnderWay ==
    /\ \A i \in 1 .. Len(from_peer) : from_peer[i].type = "WINDOW_UPDATE" =>
           /\ updates[from_peer[i].stream] <= from_peer[i].at
           /\ from_peer[i].at + from_peer[i].n <= issued[from_peer[i].stream]
    /\ \A i, j \in 1 .. Len(from_peer) :
           /\ i < j
           /\ from_peer[i].type = "WINDOW_UPDATE" /\ from_peer[j].type = "WINDOW_UPDATE"
           /\ from_peer[i].stream = from_peer[j].stream
           => from_peer[i].at + from_peer[i].n <= from_peer[j].at

\* A window that wrapped is smaller than the grant, never larger.
ConnectionBacked == connection_window <= DefaultWindow + updates[0] - sent[0]

IInv == Ledger /\ DataUnderWay /\ GrantsUnderWay /\ ConnectionBacked

\* The streams are opened after the peer's SETTINGS were read, and nothing is
\* sent or granted on a stream before it is open, ...
Opening ==
    /\ op \in {"new", "connect", "closing"} \/ ~settings_seen => opened = {}
    /\ op \in {"idle", "write", "read"} => settings_seen
    /\ op = "write" => cur \in opened
    /\ peer_open \subseteq opened
    /\ \A i \in 1 .. Len(to_peer) : to_peer[i].type = "HEADERS" => to_peer[i].stream \in opened
    /\ \A st \in StreamIds : /\ st \notin opened => sent[st] = 0
                             /\ st \notin peer_open => issued[st] = 0

\* ... a peer that sends SETTINGS once has them read in connect, and what they say
\* is what it goes by, ...
Known == initial = peer_initial

SettingsOnce ==
    /\ \A i, j \in 1 .. Len(from_peer) :
           from_peer[i].type = "SETTINGS" /\ from_peer[j].type = "SETTINGS" => i = j
    /\ \A i \in 1 .. Len(from_peer) : from_peer[i].type = "SETTINGS" =>
           /\ settings_seen => op \in {"closing", "over"}
           /\ ~settings_seen /\ from_peer[i].n = NoWindow => Known
           /\ ~settings_seen /\ from_peer[i].n # NoWindow => from_peer[i].n = peer_initial
    /\ settings_seen \/ peer_settings = 0 => Known

SettingsRead ==
    /\ settings_seen => peer_settings > 0
    /\ \A i \in 1 .. Len(from_peer) : from_peer[i].type = "SETTINGS" => peer_settings > 0
    /\ peer_settings <= 1 => SettingsOnce

\* ... and no window of the peer's passes MaxWindow.
WindowsOpen ==
    /\ DefaultWindow + issued[0] - consumed[0] <= MaxWindow
    /\ \A st \in StreamIds : st \notin ahead => issued[st] <= consumed[st]
    /\ peer_settings <= 1 =>
           \A st \in StreamIds : peer_initial + issued[st] - consumed[st] <= MaxWindow

WindowInv == Opening /\ SettingsRead /\ WindowsOpen /\ WindowsExact
-----------------------------------------------------------------------------
(* Lemmas about sequences and about the operators of the model.            *)

LEMMA AppendFacts ==
    ASSUME NEW S, NEW q \in Seq(S), NEW e \in S
    PROVE  /\ Append(q, e) \in Seq(S)
           /\ Len(Append(q, e)) = Len(q) + 1
           /\ \A i \in 1 .. Len(q) : Append(q, e)[i] = q[i]
           /\ Append(q, e)[Len(q) + 1] = e
  BY AppendProperties

LEMMA TailFacts ==
    ASSUME NEW S, NEW q \in Seq(S), q # <<>>
    PROVE  /\ Head(q) = q[1] /\ Head(q) \in S
           /\ Tail(q) \in Seq(S)
           /\ Len(q) \in Nat \ {0}
           /\ Len(Tail(q)) = Len(q) - 1
           /\ \A i \in 1 .. Len(Tail(q)) : Tail(q)[i] = q[i + 1]
  BY HeadTailProperties

\* Units of a stream count for the connection too.
LEMMA Counted ==
    ASSUME NEW f \in [Ids -> Nat], NEW st \in StreamIds, NEW n \in Nat
    PROVE  [f EXCEPT ![0] = @ + n, ![st] = @ + n] \in [Ids -> Nat]
  <1>1. 0 \in Ids /\ st \in Ids /\ st # 0
    BY DEF Ids, StreamIds
  <1> QED
    BY <1>1

\* A DATA frame takes no more than the write has left, nor than either window.
LEMMA CountBounds ==
    ASSUME TypeOK, op = "write", left > 0, Budget > 0
    PROVE  /\ Count \in Nat \ {0}
           /\ Count <= left
           /\ Count <= connection_window
           /\ Count <= stream_window
  BY Http2Assumption DEF TypeOK, Count, Budget, Smaller

\* The Bodies have an element for the frames that carry none.
LEMMA ABodyType == ABody \in Bodies
  BY Http2Assumption DEF ABody

\* The frames the host sends, but for DATA.
LEMMA HostFrameTypes ==
    /\ \A type \in {"PREFACE", "SETTINGS_ACK", "PING_ACK", "GOAWAY"} :
           HostFrame(type, 0, 0, 0) \in HostFrames
    /\ \A st \in StreamIds : HostFrame("HEADERS", st, 0, 0) \in HostFrames
  BY DEF HostFrame, HostFrames

\* What a transport write does to the wire, whether it succeeds or not.
LEMMA SentType ==
    ASSUME TypeOK, NEW f \in HostFrames, Sent(f) \/ SendFails
    PROVE  /\ link' \in {"up", "ended"}
           /\ faults' \in 0 .. MaxFaults
           /\ to_peer' \in Seq(HostFrames)
  <1>1. CASE Sent(f)
    BY <1>1, AppendFacts DEF TypeOK, Sent, wire
  <1>2. CASE SendFails
    BY <1>2, Http2Assumption DEF TypeOK, SendFails, Trouble
  <1> QED
    BY <1>1, <1>2

\* The frame at the head, and what is left behind it.
LEMMA FrameType ==
    ASSUME TypeOK, from_peer # <<>>
    PROVE  Frame \in PeerFrames /\ Tail(from_peer) \in Seq(PeerFrames)
  BY TailFacts DEF TypeOK, Frame

LEMMA FailType ==
    ASSUME TypeOK, Fail \/ Return
    PROVE  /\ op' \in {"new", "connect", "idle", "write", "read", "closing", "over"}
           /\ cur' \in StreamIds
           /\ left' \in Nat
  BY DEF TypeOK, Fail, Return
-----------------------------------------------------------------------------
(* Type correctness.                                                       *)

LEMMA InitType == Init => TypeOK
  <1> SUFFICES ASSUME Init PROVE TypeOK
    OBVIOUS
  <1>1. <<>> \in Seq(Messages) /\ <<>> \in Seq(HostFrames) /\ <<>> \in Seq(PeerFrames)
    BY EmptySeq
  <1>2. Zero \in [Ids -> Nat]
    BY DEF Zero
  <1>3. DefaultWindow \in 0 .. MaxWindow /\ DefaultWindow \in Int
    BY Http2Assumption
  <1>4. 0 \in 0 .. MaxFaults /\ 0 + 0 + 0 <= MaxOwn + 1
    BY Http2Assumption
  <1> QED
    BY <1>1, <1>2, <1>3, <1>4 DEF Init, TypeOK, StreamIds

LEMMA CallType ==
    ASSUME TypeOK, Call
    PROVE  TypeOK'
  <1>1. CASE Connect
    <2>1. /\ link' \in {"up", "ended"}
          /\ faults' \in 0 .. MaxFaults
          /\ to_peer' \in Seq(HostFrames)
      BY <1>1, SentType, HostFrameTypes DEF Connect
    <2> QED
      BY <1>1, <2>1 DEF Connect, TypeOK, impl, windows, history, peer
  <1>2. CASE Read
    BY <1>2 DEF Read, TypeOK, impl, windows, history, peer, wire
  <1>3. CASE Close
    <2>1. /\ link' \in {"up", "ended"}
          /\ faults' \in 0 .. MaxFaults
          /\ to_peer' \in Seq(HostFrames)
      BY <1>3, SentType, HostFrameTypes DEF Close
    <2> QED
      BY <1>3, <2>1 DEF Close, TypeOK, impl, windows, history, peer
  <1>4. ASSUME NEW st \in StreamIds, Open(st)
        PROVE  TypeOK'
    <2>1. /\ link' \in {"up", "ended"}
          /\ faults' \in 0 .. MaxFaults
          /\ to_peer' \in Seq(HostFrames)
      BY <1>4, SentType, HostFrameTypes DEF Open
    <2>2. opened' \subseteq StreamIds
      BY <1>4 DEF Open, TypeOK
    <2> QED
      BY <1>4, <2>1, <2>2 DEF Open, TypeOK, impl, windows, calls, peer
  <1>5. ASSUME NEW st \in StreamIds, NEW n \in 1 .. MaxUnits, Write(st, n)
        PROVE  TypeOK'
    BY <1>5, SMTT(60) DEF Write, TypeOK, impl, windows, history, peer, wire
  <1> QED
    BY <1>1, <1>2, <1>3, <1>4, <1>5 DEF Call

LEMMA TakesType ==
    ASSUME TypeOK, TakesFrame
    PROVE  TypeOK'
  <1>1. CASE TakesData
    <2>1. Frame \in PeerFrames /\ Tail(from_peer) \in Seq(PeerFrames)
      BY <1>1, FrameType DEF TakesData, Takes
    <2> DEFINE m == [stream |-> Frame.stream, at |-> Frame.at, body |-> Frame.body]
    <2>2. m \in Messages
      BY <2>1 DEF PeerFrames, Messages, Ids
    <2>3. received' \in Seq(Messages)
      BY <1>1, <2>2, AppendFacts DEF TakesData, TypeOK
    <2> QED
      BY <1>1, <2>1, <2>3 DEF TakesData, Erased, Unmoved, TypeOK, windows, history, peer, calls, wire
  <1>2. CASE TakesSettings
    <2>1. Frame \in PeerFrames /\ Tail(from_peer) \in Seq(PeerFrames) /\ Frame.type = "SETTINGS"
      BY <1>2, FrameType DEF TakesSettings, Takes
    <2>2. stream_window' \in Int /\ initial' \in 0 .. MaxWindow
      BY <1>2, <2>1, Http2Assumption, SMTT(60) DEF TakesSettings, WindowAfter, PeerFrames, TypeOK, NoWindow
    <2>3. Sent(HostFrame("SETTINGS_ACK", 0, 0, 0)) \/ SendFails
      BY <1>2 DEF TakesSettings, Answered
    <2>4. /\ link' \in {"up", "ended"}
          /\ faults' \in 0 .. MaxFaults
          /\ to_peer' \in Seq(HostFrames)
      BY <2>3, SentType, HostFrameTypes
    <2>5. from_peer' \in Seq(PeerFrames)
      BY <1>2, <2>1 DEF TakesSettings, Answered, Erased, TypeOK
    <2>6. /\ op' \in {"new", "connect", "idle", "write", "read", "closing", "over"}
          /\ cur' \in StreamIds
          /\ left' \in Nat
      BY <1>2, FailType DEF TakesSettings, Answered, TypeOK, calls
    <2> QED
      BY <1>2, <2>2, <2>4, <2>5, <2>6 DEF TakesSettings, TypeOK, peer
  <1>3. CASE TakesUpdate
    <2>1. Frame \in PeerFrames /\ Tail(from_peer) \in Seq(PeerFrames) /\ Frame.type = "WINDOW_UPDATE"
      BY <1>3, FrameType DEF TakesUpdate, Takes
    <2>2. PICK id \in Ids, n \in Nat : id = Frame.stream /\ n = Frame.n
      <3>1. Frame.stream \in Ids /\ Frame.n \in Nat
        BY <2>1 DEF PeerFrames, Ids
      <3> QED
        BY <3>1
    <2>7. Granted(id, n) /\ updates' = [updates EXCEPT ![id] = @ + n]
      BY <1>3, <2>2 DEF TakesUpdate
    <2>4. connection_window' \in Int /\ stream_window' \in Int
      <3>1. Wrap(connection_window + n) \in Int /\ Wrap(stream_window + n) \in Int
        BY Http2Assumption DEF TypeOK, Wrap
      <3> QED
        BY <2>7, <3>1 DEF Granted, TypeOK
    <2>5. updates' \in [Ids -> Nat]
      BY <2>7 DEF TypeOK
    <2> QED
      BY <1>3, <2>1, <2>4, <2>5 DEF TakesUpdate, Erased, Unmoved, TypeOK, peer, calls, wire
  <1>4. CASE TakesPing
    <2>1. Tail(from_peer) \in Seq(PeerFrames)
      BY <1>4, FrameType DEF TakesPing, Takes
    <2>2. Sent(HostFrame("PING_ACK", 0, 0, 0)) \/ SendFails
      BY <1>4 DEF TakesPing, Answered
    <2>3. /\ link' \in {"up", "ended"}
          /\ faults' \in 0 .. MaxFaults
          /\ to_peer' \in Seq(HostFrames)
      BY <2>2, SentType, HostFrameTypes
    <2>4. from_peer' \in Seq(PeerFrames)
      BY <1>4, <2>1 DEF TakesPing, Answered, Erased, TypeOK
    <2>5. /\ op' \in {"new", "connect", "idle", "write", "read", "closing", "over"}
          /\ cur' \in StreamIds
          /\ left' \in Nat
      BY <1>4, FailType DEF TakesPing, Answered, TypeOK, calls
    <2> QED
      BY <1>4, <2>3, <2>4, <2>5 DEF TakesPing, TypeOK, impl, windows, history, peer
  <1>5. CASE TakesClose
    <2>1. Tail(from_peer) \in Seq(PeerFrames)
      BY <1>5, FrameType DEF TakesClose, Takes
    <2> QED
      BY <1>5, <2>1 DEF TakesClose, Erased, Unmoved, TypeOK, windows, history, peer, calls, wire
  <1> QED
    BY <1>1, <1>2, <1>3, <1>4, <1>5 DEF TakesFrame
LEMMA ContinueType ==
    ASSUME TypeOK, Continue
    PROVE  TypeOK'
  <1>1. CASE Connected
    BY <1>1, FailType DEF Connected, TypeOK, impl, windows, history, peer, wire
  <1>2. CASE WriteData
    <2>1. Count \in Nat \ {0} /\ Count <= left
      BY <1>2, CountBounds DEF WriteData
    <2>2. PICK st \in StreamIds, n \in Nat : st = cur /\ n = Count
      BY <2>1 DEF TypeOK
    <2>3. /\ Sent(HostFrame("DATA", st, n, sent[st] + n))
          /\ left' = left - n
          /\ Charged(n)
          /\ sent' = [sent EXCEPT ![0] = @ + n, ![st] = @ + n]
      BY <1>2, <2>2 DEF WriteData
    <2>9. sent \in [Ids -> Nat]
      BY DEF TypeOK
    <2>10. st \in Ids
      BY DEF Ids
    <2>11. sent[st] \in Nat
      BY <2>9, <2>10
    <2>4. st \in Ids /\ sent[st] + n \in Nat
      BY <2>2, <2>10, <2>11
    <2>8. HostFrame("DATA", st, n, sent[st] + n) \in HostFrames
      BY <2>4 DEF HostFrame, HostFrames
    <2>5. /\ link' \in {"up", "ended"}
          /\ faults' \in 0 .. MaxFaults
          /\ to_peer' \in Seq(HostFrames)
      BY <2>3, <2>8, SentType
    <2>6. sent' \in [Ids -> Nat]
      BY <2>3, Counted DEF TypeOK
    <2>7. connection_window' \in Int /\ stream_window' \in Int /\ left' \in Nat
      <3>1. n <= left
        BY <2>1, <2>2
      <3> QED
        BY <2>3, <3>1 DEF Charged, TypeOK
    <2> QED
      BY <1>2, <2>5, <2>6, <2>7 DEF WriteData, TypeOK, peer
  <1>3. CASE WriteFails
    <2>1. /\ link' \in {"up", "ended"}
          /\ faults' \in 0 .. MaxFaults
          /\ to_peer' \in Seq(HostFrames)
      BY <1>3, SentType, HostFrameTypes DEF WriteFails
    <2> QED
      BY <1>3, <2>1, FailType DEF WriteFails, TypeOK, impl, windows, history, peer
  <1>4. CASE Written
    BY <1>4, FailType DEF Written, TypeOK, impl, windows, history, peer, wire
  <1>5. CASE ReadReturns
    <2>1. Head(received) \in Messages /\ received' \in Seq(Messages)
      BY <1>5, TailFacts DEF ReadReturns, OldestFirst, TypeOK
    <2>2. got' \in Seq(Messages)
      BY <1>5, <2>1, AppendFacts DEF ReadReturns, OldestFirst, TypeOK
    <2> QED
      BY <1>5, <2>1, <2>2, FailType DEF ReadReturns, TypeOK, windows, peer, wire
  <1>6. CASE GivesUp
    BY <1>6, FailType DEF GivesUp, TypeOK, impl, windows, history, peer, wire
  <1>7. CASE TakesFrame
    BY <1>7, TakesType
  <1>8. CASE FrameFails
    <2>1. link' \in {"up", "ended"} /\ faults' \in 0 .. MaxFaults
      BY <1>8, Http2Assumption DEF FrameFails, ReadFails, Trouble, TypeOK
    <2> QED
      BY <1>8, <2>1, FailType DEF FrameFails, ReadFails, TypeOK, impl, windows, history, peer
  <1> QED
    BY <1>1, <1>2, <1>3, <1>4, <1>5, <1>6, <1>7, <1>8 DEF Continue

\* What a frame of the peer does to everything but the peer.
LEMMA PeerSendsType ==
    ASSUME TypeOK, NEW f \in PeerFrames, PeerSends(f),
           peer_initial' \in 0 .. MaxWindow,
           peer_settings' \in Nat,
           peer_open' \subseteq StreamIds,
           consumed' \in [Ids -> Nat],
           issued' \in [Ids -> Nat],
           ahead' \subseteq Ids,
           peer_sent' \in Nat,
           others' \in Nat,
           peer_settings' + peer_sent' + others' <= MaxOwn + 1
    PROVE  TypeOK'
  <1>1. from_peer' \in Seq(PeerFrames)
    BY AppendFacts DEF PeerSends, TypeOK
  <1> QED
    BY <1>1 DEF PeerSends, TypeOK, impl, windows, calls, wire, history

LEMMA PeerType ==
    ASSUME TypeOK, PeerStep
    PROVE  TypeOK'
  <1>1. ASSUME NEW w \in Windows \cup {NoWindow}, PeerSettings(w)
        PROVE  TypeOK'
    <2>1. PeerFrame("SETTINGS", 0, w, 0, ABody) \in PeerFrames
      BY <1>1, Http2Assumption, ABodyType DEF PeerFrame, PeerFrames
    <2>2. peer_initial' \in 0 .. MaxWindow
      BY <1>1, Http2Assumption DEF PeerSettings, TypeOK, NoWindow
    <2>3. peer_settings' \in Nat /\ peer_settings' + peer_sent + others <= MaxOwn + 1
      BY <1>1, Http2Assumption DEF PeerSettings, Spare, TypeOK
    <2> QED
      BY <1>1, <2>1, <2>2, <2>3, PeerSendsType DEF PeerSettings, TypeOK
  <1>2. ASSUME NEW id \in Ids, NEW n \in 1 .. MaxWindow, PeerGrants(id, n)
        PROVE  TypeOK'
    <2>1. n \in Nat /\ issued[id] \in Nat
      BY Http2Assumption DEF TypeOK
    <2>2. PeerFrame("WINDOW_UPDATE", id, n, issued[id], ABody) \in PeerFrames
      BY <2>1, ABodyType DEF PeerFrame, PeerFrames
    <2>3. issued' \in [Ids -> Nat]
      BY <1>2, <2>1, SMTT(60) DEF PeerGrants, TypeOK
    <2>4. ahead' \subseteq Ids
      BY <1>2 DEF PeerGrants, TypeOK
    <2>5. others' \in Nat /\ peer_settings + peer_sent + others' <= MaxOwn + 1
      <3>1. \/ others' = others
            \/ others' = others + 1 /\ peer_settings + peer_sent + others <= MaxOwn
        BY <1>2 DEF PeerGrants, Spare
      <3>2. /\ peer_settings \in Nat /\ peer_sent \in Nat /\ others \in Nat /\ MaxOwn \in Nat
            /\ peer_settings + peer_sent + others <= MaxOwn + 1
        BY Http2Assumption DEF TypeOK
      <3> QED
        BY ONLY <3>1, <3>2, SMT
    <2> QED
      BY <1>2, <2>2, <2>3, <2>4, <2>5, PeerSendsType DEF PeerGrants, TypeOK
  <1>3. ASSUME NEW id \in StreamIds, NEW body \in Bodies, PeerData(id, body)
        PROVE  TypeOK'
    <2>1. /\ PeerFrame("DATA", id, 1, peer_sent + 1, body) \in PeerFrames
          /\ PeerFrame("DATA", id, 0, 0, body) \in PeerFrames
      BY DEF PeerFrame, PeerFrames, Ids, TypeOK
    <2>2. peer_sent' \in Nat /\ others' \in Nat
          /\ peer_settings + peer_sent' + others' <= MaxOwn + 1
      BY <1>3, Http2Assumption DEF PeerData, Spare, TypeOK
    <2> QED
      BY <1>3, <2>1, <2>2, PeerSendsType DEF PeerData, TypeOK
  <1>4. CASE PeerPing
    <2>1. PeerFrame("PING", 0, 8, 0, ABody) \in PeerFrames
      BY ABodyType DEF PeerFrame, PeerFrames, Ids
    <2>2. others' \in Nat /\ peer_settings + peer_sent + others' <= MaxOwn + 1
      BY <1>4, Http2Assumption DEF PeerPing, Spare, TypeOK
    <2> QED
      BY <1>4, <2>1, <2>2, PeerSendsType DEF PeerPing, TypeOK
  <1>5. CASE PeerCloses
    <2>1. PeerFrame("GOAWAY", 0, 8, 0, ABody) \in PeerFrames
      BY ABodyType DEF PeerFrame, PeerFrames, Ids
    <2>2. \A st \in peer_open : PeerFrame("RST_STREAM", st, 4, 0, ABody) \in PeerFrames
      BY ABodyType DEF PeerFrame, PeerFrames, Ids, TypeOK
    <2>3. others' \in Nat /\ peer_settings + peer_sent + others' <= MaxOwn + 1
      BY <1>5, Http2Assumption DEF PeerCloses, Spare, TypeOK
    <2>4. PICK f \in PeerFrames : PeerSends(f)
      BY <1>5, <2>1, <2>2 DEF PeerCloses
    <2> QED
      BY <1>5, <2>3, <2>4, PeerSendsType DEF PeerCloses, TypeOK
  <1>6. CASE PeerTakes
    <2>1. Head(to_peer) \in HostFrames /\ to_peer' \in Seq(HostFrames)
      BY <1>6, TailFacts DEF PeerTakes, TypeOK
    <2>4. consumed' \in [Ids -> Nat]
      <3>1. CASE Head(to_peer).type = "DATA"
        <4>1. Head(to_peer).stream \in StreamIds /\ Head(to_peer).n \in Nat
          BY <2>1, <3>1 DEF HostFrames
        <4>2. PICK st \in StreamIds, n \in Nat : st = Head(to_peer).stream /\ n = Head(to_peer).n
          BY <4>1
        <4>3. consumed' = [consumed EXCEPT ![0] = @ + n, ![st] = @ + n]
          BY <1>6, <3>1, <4>2 DEF PeerTakes
        <4> QED
          BY <4>3, Counted DEF TypeOK
      <3>2. CASE Head(to_peer).type # "DATA"
        BY <1>6, <3>2 DEF PeerTakes, TypeOK
      <3> QED
        BY <3>1, <3>2
    <2>5. peer_open' \subseteq StreamIds
      <3>1. Head(to_peer).type = "HEADERS" => Head(to_peer).stream \in StreamIds
        BY <2>1 DEF HostFrames
      <3> QED
        BY <1>6, <3>1 DEF PeerTakes, TypeOK
    <2> QED
      BY <1>6, <2>1, <2>4, <2>5 DEF PeerTakes, TypeOK, impl, windows, calls, wire, history
  <1>7. CASE PeerEnds
    <2>1. <<>> \in Seq(HostFrames)
      BY EmptySeq
    <2> QED
      BY <1>7, <2>1 DEF PeerEnds, TypeOK, impl, windows, calls, history, peer
  <1> QED
    BY <1>1, <1>2, <1>3, <1>4, <1>5, <1>6, <1>7 DEF PeerStep, GrantSteps

LEMMA NextType == TypeOK /\ [Next]_vars => TypeOK'
  <1> SUFFICES ASSUME TypeOK, [Next]_vars PROVE TypeOK'
    OBVIOUS
  <1>1. CASE Call
    BY <1>1, CallType
  <1>2. CASE Continue
    BY <1>2, ContinueType
  <1>3. CASE PeerStep
    BY <1>3, PeerType
  <1>4. CASE UNCHANGED vars
    BY <1>4 DEF TypeOK, vars, impl, windows, calls, wire, history, peer
  <1> QED
    BY <1>1, <1>2, <1>3, <1>4 DEF Next

\* Every variable keeps its type, whatever the peer sends and whichever
\* transport calls fail: read_frame, write, read and close of http2.cpp.
THEOREM TypeCorrect == Spec => []TypeOK
  BY InitType, NextType, PTL DEF Spec
-----------------------------------------------------------------------------
(* The steps that leave the accounts alone.                                *)

HostQuiet ==
    \/ UNCHANGED to_peer
    \/ to_peer' = <<>>
    \/ \E f \in HostFrames : f.type # "DATA" /\ to_peer' = Append(to_peer, f)

PeerQuiet ==
    \/ UNCHANGED from_peer
    \/ from_peer # <<>> /\ from_peer' = Tail(from_peer)
    \/ \E f \in PeerFrames : f.type # "WINDOW_UPDATE" /\ from_peer' = Append(from_peer, f)

Quiet ==
    /\ HostQuiet
    /\ PeerQuiet
    /\ UNCHANGED <<sent, consumed, updates, issued, connection_window>>

LEMMA HostQuietKeeps ==
    ASSUME TypeOK, DataUnderWay, HostQuiet, UNCHANGED <<sent, consumed>>
    PROVE  DataUnderWay'
  <1>1. CASE UNCHANGED to_peer
    BY <1>1 DEF DataUnderWay
  <1>2. CASE to_peer' = <<>>
    <2>1. 1 .. Len(to_peer') = {}
      BY <1>2
    <2> QED
      BY <2>1 DEF DataUnderWay
  <1>3. ASSUME NEW f \in HostFrames, f.type # "DATA", to_peer' = Append(to_peer, f)
        PROVE  DataUnderWay'
    <2>1. /\ Len(to_peer) \in Nat
          /\ Len(to_peer') = Len(to_peer) + 1
          /\ \A i \in 1 .. Len(to_peer) : to_peer'[i] = to_peer[i]
          /\ to_peer'[Len(to_peer) + 1] = f
      BY <1>3, AppendFacts DEF TypeOK
    <2>2. \A i \in 1 .. Len(to_peer') : to_peer'[i].type = "DATA" => i \in 1 .. Len(to_peer)
      BY <1>3, <2>1
    <2> QED
      BY <2>1, <2>2 DEF DataUnderWay
  <1> QED
    BY <1>1, <1>2, <1>3 DEF HostQuiet

LEMMA PeerQuietKeeps ==
    ASSUME TypeOK, GrantsUnderWay, PeerQuiet, UNCHANGED <<updates, issued>>
    PROVE  GrantsUnderWay'
  <1>1. CASE UNCHANGED from_peer
    BY <1>1 DEF GrantsUnderWay
  <1>2. CASE from_peer # <<>> /\ from_peer' = Tail(from_peer)
    <2>1. /\ Len(from_peer) \in Nat \ {0}
          /\ Len(from_peer') = Len(from_peer) - 1
          /\ \A i \in 1 .. Len(from_peer') : from_peer'[i] = from_peer[i + 1]
      BY <1>2, TailFacts DEF TypeOK
    <2>2. \A i \in 1 .. Len(from_peer') : i + 1 \in 1 .. Len(from_peer)
      BY <2>1
    <2>3. ASSUME NEW i \in 1 .. Len(from_peer'), from_peer'[i].type = "WINDOW_UPDATE"
          PROVE  /\ updates[from_peer'[i].stream] <= from_peer'[i].at
                 /\ from_peer'[i].at + from_peer'[i].n <= issued[from_peer'[i].stream]
      BY <2>1, <2>2, <2>3 DEF GrantsUnderWay
    <2>4. ASSUME NEW i \in 1 .. Len(from_peer'), NEW j \in 1 .. Len(from_peer'),
                 i < j,
                 from_peer'[i].type = "WINDOW_UPDATE", from_peer'[j].type = "WINDOW_UPDATE",
                 from_peer'[i].stream = from_peer'[j].stream
          PROVE  from_peer'[i].at + from_peer'[i].n <= from_peer'[j].at
      <3>1. i + 1 \in 1 .. Len(from_peer) /\ j + 1 \in 1 .. Len(from_peer) /\ i + 1 < j + 1
        BY <2>1, <2>4
      <3> QED
        BY <2>1, <2>4, <3>1 DEF GrantsUnderWay
    <2> QED
      BY <2>3, <2>4 DEF GrantsUnderWay
  <1>3. ASSUME NEW f \in PeerFrames, f.type # "WINDOW_UPDATE", from_peer' = Append(from_peer, f)
        PROVE  GrantsUnderWay'
    <2>1. /\ Len(from_peer) \in Nat
          /\ Len(from_peer') = Len(from_peer) + 1
          /\ \A i \in 1 .. Len(from_peer) : from_peer'[i] = from_peer[i]
          /\ from_peer'[Len(from_peer) + 1] = f
      BY <1>3, AppendFacts DEF TypeOK
    <2>2. \A i \in 1 .. Len(from_peer') :
              from_peer'[i].type = "WINDOW_UPDATE" => i \in 1 .. Len(from_peer)
      BY <1>3, <2>1
    <2> QED
      BY <2>1, <2>2 DEF GrantsUnderWay
  <1> QED
    BY <1>1, <1>2, <1>3 DEF PeerQuiet

LEMMA QuietKeeps ==
    ASSUME TypeOK, IInv, Quiet
    PROVE  IInv'
  <1>1. DataUnderWay' /\ GrantsUnderWay'
    BY HostQuietKeeps, PeerQuietKeeps DEF IInv, Quiet
  <1> QED
    BY <1>1 DEF IInv, Quiet, Ledger, ConnectionBacked

\* A transport write of anything but DATA is quiet.
LEMMA SentQuiet ==
    ASSUME NEW f \in HostFrames, f.type # "DATA", Sent(f) \/ SendFails
    PROVE  HostQuiet
  BY DEF Sent, SendFails, HostQuiet

LEMMA SentOtherQuiet ==
    ASSUME NEW type \in {"PREFACE", "SETTINGS_ACK", "PING_ACK", "GOAWAY"},
           Sent(HostFrame(type, 0, 0, 0)) \/ SendFails
    PROVE  HostQuiet
  BY HostFrameTypes, SentQuiet DEF HostFrame

LEMMA CallQuiet ==
    ASSUME TypeOK, Call
    PROVE  Quiet
  <1>1. CASE Connect
    BY <1>1, SentOtherQuiet DEF Connect, Quiet, PeerQuiet, impl, windows, history, peer
  <1>2. CASE Read
    BY <1>2 DEF Read, Quiet, HostQuiet, PeerQuiet, impl, windows, history, peer
  <1>3. CASE Close
    BY <1>3, SentOtherQuiet DEF Close, Quiet, PeerQuiet, impl, windows, history, peer
  <1>4. ASSUME NEW st \in StreamIds, Open(st)
        PROVE  Quiet
    <2>1. HostQuiet
      BY <1>4, HostFrameTypes, SentQuiet DEF Open, HostFrame
    <2> QED
      BY <1>4, <2>1 DEF Open, Quiet, PeerQuiet, impl, windows, peer
  <1>5. ASSUME NEW st \in StreamIds, NEW n \in 1 .. MaxUnits, Write(st, n)
        PROVE  Quiet
    BY <1>5 DEF Write, Quiet, HostQuiet, PeerQuiet, impl, windows, history, peer
  <1> QED
    BY <1>1, <1>2, <1>3, <1>4, <1>5 DEF Call

LEMMA ContinueQuiet ==
    ASSUME TypeOK,
           \/ Connected \/ WriteFails \/ Written \/ ReadReturns \/ GivesUp \/ FrameFails
           \/ TakesData \/ TakesSettings \/ TakesPing \/ TakesClose
    PROVE  Quiet
  <1>1. CASE Connected \/ Written \/ GivesUp
    BY <1>1 DEF Connected, Written, GivesUp, Quiet, HostQuiet, PeerQuiet, impl, windows,
                history, peer
  <1>2. CASE WriteFails
    BY <1>2 DEF WriteFails, SendFails, Quiet, HostQuiet, PeerQuiet, impl, windows, history, peer
  <1>3. CASE ReadReturns
    BY <1>3 DEF ReadReturns, Quiet, HostQuiet, PeerQuiet, windows, peer
  <1>4. CASE FrameFails
    BY <1>4 DEF FrameFails, ReadFails, Quiet, HostQuiet, PeerQuiet, impl, windows, history, peer
  <1>5. CASE TakesData
    BY <1>5 DEF TakesData, Takes, Erased, Unmoved, Quiet, HostQuiet, PeerQuiet, windows,
                history, peer
  <1>6. CASE TakesSettings
    <2>1. HostQuiet
      BY <1>6, SentOtherQuiet DEF TakesSettings, Answered
    <2> QED
      BY <1>6, <2>1 DEF TakesSettings, Takes, Answered, Erased, Quiet, PeerQuiet, peer
  <1>7. CASE TakesPing
    <2>1. HostQuiet
      BY <1>7, SentOtherQuiet DEF TakesPing, Answered
    <2> QED
      BY <1>7, <2>1 DEF TakesPing, Takes, Answered, Erased, Quiet, PeerQuiet, impl, windows,
                        history, peer
  <1>8. CASE TakesClose
    BY <1>8 DEF TakesClose, Takes, Erased, Unmoved, Quiet, HostQuiet, PeerQuiet, windows,
                history, peer
  <1> QED
    BY <1>1, <1>2, <1>3, <1>4, <1>5, <1>6, <1>7, <1>8
LEMMA PeerOtherQuiet ==
    ASSUME TypeOK, NEW f \in PeerFrames, f.type # "WINDOW_UPDATE", PeerSends(f),
           UNCHANGED <<consumed, issued>>
    PROVE  Quiet
  BY DEF PeerSends, Quiet, HostQuiet, PeerQuiet, impl, windows, history

LEMMA PeerStepQuiet ==
    ASSUME TypeOK,
           \/ \E w \in Windows \cup {NoWindow} : PeerSettings(w)
           \/ \E id \in StreamIds, body \in Bodies : PeerData(id, body)
           \/ PeerPing \/ PeerCloses \/ PeerEnds
    PROVE  Quiet
  <1>1. ASSUME NEW w \in Windows \cup {NoWindow}, PeerSettings(w)
        PROVE  Quiet
    <2>1. PeerFrame("SETTINGS", 0, w, 0, ABody) \in PeerFrames
      BY <1>1, Http2Assumption, ABodyType DEF PeerFrame, PeerFrames
    <2> QED
      BY <1>1, <2>1, PeerOtherQuiet DEF PeerSettings, PeerFrame
  <1>2. ASSUME NEW id \in StreamIds, NEW body \in Bodies, PeerData(id, body)
        PROVE  Quiet
    <2>1. /\ PeerFrame("DATA", id, 1, peer_sent + 1, body) \in PeerFrames
          /\ PeerFrame("DATA", id, 0, 0, body) \in PeerFrames
      BY DEF PeerFrame, PeerFrames, Ids, TypeOK
    <2> QED
      BY <1>2, <2>1, PeerOtherQuiet DEF PeerData, PeerFrame
  <1>3. CASE PeerPing
    <2>1. PeerFrame("PING", 0, 8, 0, ABody) \in PeerFrames
      BY ABodyType DEF PeerFrame, PeerFrames, Ids
    <2> QED
      BY <1>3, <2>1, PeerOtherQuiet DEF PeerPing, PeerFrame
  <1>4. CASE PeerCloses
    <2>1. PeerFrame("GOAWAY", 0, 8, 0, ABody) \in PeerFrames
      BY ABodyType DEF PeerFrame, PeerFrames, Ids
    <2>2. \A st \in peer_open : PeerFrame("RST_STREAM", st, 4, 0, ABody) \in PeerFrames
      BY ABodyType DEF PeerFrame, PeerFrames, Ids, TypeOK
    <2>3. PICK f \in PeerFrames : f.type # "WINDOW_UPDATE" /\ PeerSends(f)
      BY <1>4, <2>1, <2>2 DEF PeerCloses, PeerFrame
    <2> QED
      BY <1>4, <2>3, PeerOtherQuiet DEF PeerCloses
  <1>5. CASE PeerEnds
    BY <1>5 DEF PeerEnds, Quiet, HostQuiet, PeerQuiet, impl, windows, history, peer
  <1> QED
    BY <1>1, <1>2, <1>3, <1>4, <1>5
-----------------------------------------------------------------------------
(* The steps that move the accounts.                                       *)

\* Http2::write sends a DATA frame and charges both windows for it.
LEMMA WriteDataShape ==
    ASSUME TypeOK, WriteData
    PROVE  \E st \in StreamIds, n \in Nat :
               /\ st = cur
               /\ n <= connection_window
               /\ n <= stream_window
               /\ to_peer' = Append(to_peer, HostFrame("DATA", st, n, sent[st] + n))
               /\ HostFrame("DATA", st, n, sent[st] + n) \in HostFrames
               /\ connection_window' = connection_window - n
               /\ stream_window' = stream_window - n
               /\ sent' \in [Ids -> Nat]
               /\ sent'[0] = sent[0] + n
               /\ sent'[st] = sent[st] + n
               /\ \A t \in StreamIds \ {st} : sent'[t] = sent[t]
               /\ UNCHANGED <<consumed, updates, issued, from_peer, initial, settings_seen,
                              peer_settings, opened, op>>
  <1>1. PICK st \in StreamIds, n \in Nat : st = cur /\ n = Count
    BY CountBounds DEF WriteData, TypeOK
  <1>2. n <= connection_window /\ n <= stream_window
    BY <1>1, CountBounds DEF WriteData
  <1>3. /\ Sent(HostFrame("DATA", st, n, sent[st] + n))
        /\ Charged(n)
        /\ sent' = [sent EXCEPT ![0] = @ + n, ![st] = @ + n]
    BY <1>1 DEF WriteData
  <1>4. sent[st] + n \in Nat
    <2>1. sent \in [Ids -> Nat]
      BY DEF TypeOK
    <2>2. st \in Ids
      BY DEF Ids
    <2>3. sent[st] \in Nat
      BY <2>1, <2>2
    <2> QED
      BY <2>3
  <1>5. HostFrame("DATA", st, n, sent[st] + n) \in HostFrames
    BY <1>4 DEF HostFrame, HostFrames
  <1>6. /\ sent' \in [Ids -> Nat]
        /\ sent'[0] = sent[0] + n
        /\ sent'[st] = sent[st] + n
        /\ \A t \in StreamIds \ {st} : sent'[t] = sent[t]
    <2>1. sent \in [Ids -> Nat]
      BY DEF TypeOK
    <2>2. 0 \in Ids /\ st \in Ids /\ st # 0
      BY DEF Ids, StreamIds
    <2>3. sent' \in [Ids -> Nat]
      BY <1>3, <2>1, Counted
    <2>4. sent'[0] = sent[0] + n
      BY <1>3, <2>1, <2>2
    <2>5. sent'[st] = sent[st] + n
      BY <1>3, <2>1, <2>2
    <2>6. \A t \in StreamIds \ {st} : sent'[t] = sent[t]
      BY <1>3, <2>1, <2>2 DEF Ids, StreamIds
    <2> QED
      BY <2>3, <2>4, <2>5, <2>6
  <1>7. UNCHANGED <<consumed, updates, issued, from_peer, initial, settings_seen,
                    peer_settings, opened, op>>
    BY DEF WriteData, peer
  <1> QED
    BY <1>1, <1>2, <1>3, <1>5, <1>6, <1>7 DEF Sent, Charged

LEMMA WriteDataKeeps ==
    ASSUME TypeOK, IInv, WriteData
    PROVE  IInv'
  <1>1. PICK st \in StreamIds, n \in Nat :
               /\ st = cur
               /\ n <= connection_window
               /\ n <= stream_window
               /\ to_peer' = Append(to_peer, HostFrame("DATA", st, n, sent[st] + n))
               /\ HostFrame("DATA", st, n, sent[st] + n) \in HostFrames
               /\ connection_window' = connection_window - n
               /\ stream_window' = stream_window - n
               /\ sent' \in [Ids -> Nat]
               /\ sent'[0] = sent[0] + n
               /\ sent'[st] = sent[st] + n
               /\ \A t \in StreamIds \ {st} : sent'[t] = sent[t]
               /\ UNCHANGED <<consumed, updates, issued, from_peer, initial, settings_seen,
                              peer_settings, opened, op>>
    BY WriteDataShape
  <1> DEFINE f == HostFrame("DATA", st, n, sent[st] + n)
  <1>2. f.type = "DATA" /\ f.stream = st /\ f.n = n /\ f.at = sent[st] + n
    BY DEF HostFrame
  <1> HIDE DEF f
  <1>3. /\ Len(to_peer) \in Nat
        /\ Len(to_peer') = Len(to_peer) + 1
        /\ \A i \in 1 .. Len(to_peer) : to_peer'[i] = to_peer[i]
        /\ to_peer'[Len(to_peer) + 1] = f
    <2>1. f \in HostFrames /\ to_peer' = Append(to_peer, f)
      BY <1>1 DEF f
    <2> QED
      BY <2>1, AppendFacts DEF TypeOK
  <1>4. /\ \A t \in StreamIds : sent[t] \in Nat /\ sent'[t] \in Nat /\ consumed[t] \in Nat
        /\ \A t \in StreamIds : sent[t] <= sent'[t]
        /\ sent[0] \in Nat /\ updates[0] \in Nat /\ DefaultWindow \in Nat
        /\ connection_window \in Int
    <2>1. \A id \in Ids : sent[id] \in Nat /\ sent'[id] \in Nat /\ consumed[id] \in Nat
                            /\ updates[id] \in Nat
      BY <1>1 DEF TypeOK
    <2>2. 0 \in Ids /\ StreamIds \subseteq Ids
      BY DEF Ids
    <2>3. \A t \in StreamIds : sent[t] <= sent'[t]
      BY <1>1, <2>1, <2>2, SMTT(60)
    <2> QED
      BY <2>1, <2>2, <2>3, Http2Assumption DEF TypeOK
  <1>5. Ledger'
    <2>1. sent'[0] = sent'[1] + sent'[3]
      <3>1. sent[0] = sent[1] + sent[3]
        BY DEF IInv, Ledger
      <3>2. 1 \in StreamIds /\ 3 \in StreamIds
        BY DEF StreamIds
      <3>3. CASE st = 1
        BY <1>1, <1>4, <3>1, <3>2, <3>3
      <3>4. CASE st = 3
        BY <1>1, <1>4, <3>1, <3>2, <3>4
      <3> QED
        BY <3>3, <3>4 DEF StreamIds
    <2>2. ASSUME NEW t \in StreamIds
          PROVE  consumed'[t] <= sent'[t]
      <3>1. consumed'[t] = consumed[t] /\ consumed[t] <= sent[t] /\ sent[t] <= sent'[t]
        BY <1>1, <1>4 DEF IInv, Ledger
      <3> QED
        BY <1>4, <3>1
    <2>3. consumed'[0] = consumed'[1] + consumed'[3] /\ \A id \in Ids : updates'[id] <= issued'[id]
      BY <1>1 DEF IInv, Ledger
    <2> QED
      BY <2>1, <2>2, <2>3 DEF Ledger
  <1>6. ConnectionBacked'
    BY <1>1, <1>4 DEF ConnectionBacked, IInv
  <1>7. GrantsUnderWay'
    BY <1>1 DEF GrantsUnderWay, IInv
  <1>8. \A i \in 1 .. Len(to_peer) : to_peer[i] \in HostFrames
    BY DEF TypeOK
  <1>9. ASSUME NEW i \in 1 .. Len(to_peer), to_peer[i].type = "DATA"
        PROVE  /\ to_peer[i].stream \in StreamIds /\ to_peer[i].n \in Nat /\ to_peer[i].at \in Nat
               /\ consumed[to_peer[i].stream] + to_peer[i].n <= to_peer[i].at
               /\ to_peer[i].at <= sent[to_peer[i].stream]
    <2>1. to_peer[i].stream \in StreamIds /\ to_peer[i].n \in Nat /\ to_peer[i].at \in Nat
      BY <1>8, <1>9 DEF HostFrames
    <2> QED
      BY <1>9, <2>1 DEF IInv, DataUnderWay
  <1>10. ASSUME NEW i \in 1 .. Len(to_peer'), to_peer'[i].type = "DATA"
         PROVE  /\ consumed[to_peer'[i].stream] + to_peer'[i].n <= to_peer'[i].at
                /\ to_peer'[i].at <= sent'[to_peer'[i].stream]
    <2>1. CASE i \in 1 .. Len(to_peer)
      BY <1>3, <1>4, <1>9, <1>10, <2>1
    <2>2. CASE i = Len(to_peer) + 1
      <3>1. consumed[st] <= sent[st] /\ st \in Ids
        BY DEF IInv, Ledger, Ids
      <3>2. /\ to_peer'[i].stream = st /\ to_peer'[i].n = n /\ to_peer'[i].at = sent[st] + n
            /\ sent'[st] = sent[st] + n
        BY <1>1, <1>2, <1>3, <2>2
      <3>3. sent[st] \in Nat /\ consumed[st] \in Nat
        BY <3>1 DEF TypeOK
      <3> QED
        BY <3>1, <3>2, <3>3
    <2> QED
      BY <1>3, <2>1, <2>2
  <1>11. ASSUME NEW i \in 1 .. Len(to_peer'), NEW j \in 1 .. Len(to_peer'),
                i < j,
                to_peer'[i].type = "DATA", to_peer'[j].type = "DATA",
                to_peer'[i].stream = to_peer'[j].stream
         PROVE  to_peer'[i].at + to_peer'[j].n <= to_peer'[j].at
    <2>1. i \in 1 .. Len(to_peer)
      BY <1>3, <1>11
    <2>2. CASE j \in 1 .. Len(to_peer)
      BY <1>3, <1>11, <2>1, <2>2 DEF IInv, DataUnderWay
    <2>3. CASE j = Len(to_peer) + 1
      <3>1. to_peer[i].stream = st /\ to_peer[i].at <= sent[st] /\ to_peer[i].at \in Nat
        BY <1>2, <1>3, <1>9, <1>11, <2>1, <2>3
      <3> QED
        BY <1>2, <1>3, <1>4, <2>1, <2>3, <3>1
    <2> QED
      BY <1>3, <2>2, <2>3
  <1>12. DataUnderWay'
    BY <1>1, <1>10, <1>11, SMTT(60) DEF DataUnderWay
  <1> QED
    BY <1>5, <1>6, <1>7, <1>12 DEF IInv
\* The peer takes a frame, and counts the units of a DATA frame.
LEMMA PeerTakesData ==
    ASSUME TypeOK, PeerTakes, Head(to_peer).type = "DATA"
    PROVE  \E st \in StreamIds, n \in Nat :
               /\ st = Head(to_peer).stream /\ n = Head(to_peer).n
               /\ consumed' \in [Ids -> Nat]
               /\ consumed'[0] = consumed[0] + n
               /\ consumed'[st] = consumed[st] + n
               /\ \A t \in StreamIds \ {st} : consumed'[t] = consumed[t]
  <1>1. Head(to_peer) \in HostFrames
    BY TailFacts DEF PeerTakes, TypeOK
  <1>2. Head(to_peer).stream \in StreamIds /\ Head(to_peer).n \in Nat
    BY <1>1 DEF HostFrames
  <1>3. PICK st \in StreamIds, n \in Nat : st = Head(to_peer).stream /\ n = Head(to_peer).n
    BY <1>2
  <1>4. consumed' = [consumed EXCEPT ![0] = @ + n, ![st] = @ + n]
    BY <1>3 DEF PeerTakes
  <1>5. consumed \in [Ids -> Nat]
    BY DEF TypeOK
  <1>6. 0 \in Ids /\ st \in Ids /\ st # 0
    BY DEF Ids, StreamIds
  <1>7. consumed' \in [Ids -> Nat]
    BY <1>4, <1>5, Counted
  <1>8. consumed'[0] = consumed[0] + n
    BY <1>4, <1>5, <1>6
  <1>9. consumed'[st] = consumed[st] + n
    BY <1>4, <1>5, <1>6
  <1>10. \A t \in StreamIds \ {st} : consumed'[t] = consumed[t]
    BY <1>4, <1>5, <1>6 DEF Ids, StreamIds
  <1> QED
    BY <1>3, <1>7, <1>8, <1>9, <1>10

LEMMA PeerTakesKeeps ==
    ASSUME TypeOK, IInv, PeerTakes
    PROVE  IInv'
  <1>1. /\ Len(to_peer) \in Nat \ {0}
        /\ Head(to_peer) = to_peer[1]
        /\ Len(to_peer') = Len(to_peer) - 1
        /\ \A i \in 1 .. Len(to_peer') : to_peer'[i] = to_peer[i + 1]
    BY TailFacts DEF PeerTakes, TypeOK
  <1>2. UNCHANGED <<sent, updates, issued, connection_window, from_peer>>
    BY DEF PeerTakes, impl, windows, history
  <1>3. /\ \A t \in StreamIds : sent[t] \in Nat /\ consumed[t] \in Nat
        /\ consumed[0] \in Nat
    BY DEF TypeOK, Ids
  <1>4. \A i \in 1 .. Len(to_peer') : i + 1 \in 1 .. Len(to_peer)
    BY <1>1
  <1>5. \A i \in 1 .. Len(to_peer) : to_peer[i] \in HostFrames
    BY DEF TypeOK
  <1>6. ASSUME NEW i \in 1 .. Len(to_peer), to_peer[i].type = "DATA"
        PROVE  /\ to_peer[i].stream \in StreamIds /\ to_peer[i].n \in Nat /\ to_peer[i].at \in Nat
               /\ consumed[to_peer[i].stream] + to_peer[i].n <= to_peer[i].at
               /\ to_peer[i].at <= sent[to_peer[i].stream]
    <2>1. to_peer[i].stream \in StreamIds /\ to_peer[i].n \in Nat /\ to_peer[i].at \in Nat
      BY <1>5, <1>6 DEF HostFrames
    <2> QED
      BY <1>6, <2>1 DEF IInv, DataUnderWay
  <1>7. ASSUME NEW i \in 1 .. Len(to_peer'), NEW j \in 1 .. Len(to_peer'),
               i < j,
               to_peer'[i].type = "DATA", to_peer'[j].type = "DATA",
               to_peer'[i].stream = to_peer'[j].stream
        PROVE  to_peer'[i].at + to_peer'[j].n <= to_peer'[j].at
    <2>1. i + 1 \in 1 .. Len(to_peer) /\ j + 1 \in 1 .. Len(to_peer) /\ i + 1 < j + 1
      BY <1>1, <1>7
    <2> QED
      BY <1>1, <1>7, <2>1 DEF IInv, DataUnderWay
  <1>8. GrantsUnderWay' /\ ConnectionBacked'
    BY <1>2 DEF IInv, GrantsUnderWay, ConnectionBacked
  <1>9. CASE Head(to_peer).type # "DATA"
    <2>1. UNCHANGED consumed
      BY <1>9 DEF PeerTakes
    <2>2. Ledger'
      BY <1>2, <2>1 DEF IInv, Ledger
    <2>3. ASSUME NEW i \in 1 .. Len(to_peer'), to_peer'[i].type = "DATA"
          PROVE  /\ consumed'[to_peer'[i].stream] + to_peer'[i].n <= to_peer'[i].at
                 /\ to_peer'[i].at <= sent'[to_peer'[i].stream]
      BY <1>1, <1>2, <1>4, <1>6, <2>1, <2>3
    <2>4. DataUnderWay'
      BY <1>7, <2>3 DEF DataUnderWay
    <2> QED
      BY <1>8, <2>2, <2>4 DEF IInv
  <1>10. CASE Head(to_peer).type = "DATA"
    <2>1. PICK st \in StreamIds, n \in Nat :
               /\ st = Head(to_peer).stream /\ n = Head(to_peer).n
               /\ consumed' \in [Ids -> Nat]
               /\ consumed'[0] = consumed[0] + n
               /\ consumed'[st] = consumed[st] + n
               /\ \A t \in StreamIds \ {st} : consumed'[t] = consumed[t]
      BY <1>10, PeerTakesData
    <2>2. to_peer[1].type = "DATA" /\ to_peer[1].stream = st /\ to_peer[1].n = n
      BY <1>1, <1>10, <2>1
    <2>3. /\ to_peer[1].at \in Nat
          /\ consumed[st] + n <= to_peer[1].at
          /\ to_peer[1].at <= sent[st]
      <3>1. 1 \in 1 .. Len(to_peer)
        BY <1>1
      <3> QED
        BY <1>6, <2>2, <3>1
    <2>4. consumed'[st] <= to_peer[1].at /\ consumed'[st] <= sent[st]
      BY <1>3, <2>1, <2>3
    <2>5. consumed'[0] = consumed'[1] + consumed'[3]
      <3>1. consumed[0] = consumed[1] + consumed[3]
        BY DEF IInv, Ledger
      <3>2. 1 \in StreamIds /\ 3 \in StreamIds
        BY DEF StreamIds
      <3>3. CASE st = 1
        BY <1>3, <2>1, <3>1, <3>2, <3>3
      <3>4. CASE st = 3
        BY <1>3, <2>1, <3>1, <3>2, <3>4
      <3> QED
        BY <3>3, <3>4 DEF StreamIds
    <2>6. ASSUME NEW t \in StreamIds PROVE consumed'[t] <= sent'[t]
      BY <1>2, <2>1, <2>4 DEF IInv, Ledger
    <2>7. Ledger'
      BY <1>2, <2>5, <2>6 DEF IInv, Ledger
    <2>8. ASSUME NEW i \in 1 .. Len(to_peer'), to_peer'[i].type = "DATA"
          PROVE  /\ consumed'[to_peer'[i].stream] + to_peer'[i].n <= to_peer'[i].at
                 /\ to_peer'[i].at <= sent'[to_peer'[i].stream]
      <3>1. PICK k \in 1 .. Len(to_peer) : k = i + 1
        BY <1>4
      <3>2. to_peer'[i] = to_peer[k] /\ 1 < k /\ to_peer[k].type = "DATA"
        BY <1>1, <2>8, <3>1
      <3>3. /\ to_peer[k].stream \in StreamIds /\ to_peer[k].n \in Nat /\ to_peer[k].at \in Nat
            /\ consumed[to_peer[k].stream] + to_peer[k].n <= to_peer[k].at
            /\ to_peer[k].at <= sent[to_peer[k].stream]
        BY <1>6, <3>2
      <3>4. CASE to_peer[k].stream = st
        <4>1. to_peer[1].at + to_peer[k].n <= to_peer[k].at
          <5>1. 1 \in 1 .. Len(to_peer)
            BY <1>1
          <5> QED
            BY <2>2, <3>2, <3>4, <5>1 DEF IInv, DataUnderWay
        <4>2. consumed'[st] \in Nat
          BY <1>3, <2>1
        <4> QED
          BY <1>2, <2>3, <2>4, <3>2, <3>3, <3>4, <4>1, <4>2
      <3>5. CASE to_peer[k].stream # st
        BY <1>2, <2>1, <3>2, <3>3, <3>5
      <3> QED
        BY <3>4, <3>5
    <2>9. DataUnderWay'
      BY <1>7, <2>8 DEF DataUnderWay
    <2> QED
      BY <1>8, <2>7, <2>9 DEF IInv
  <1> QED
    BY <1>9, <1>10

\* read_frame adds a WINDOW_UPDATE to the one window or the other.
LEMMA TakesUpdateShape ==
    ASSUME TypeOK, TakesUpdate
    PROVE  \E id \in Ids, n \in Nat :
               /\ id = from_peer[1].stream /\ n = from_peer[1].n
               /\ from_peer[1].type = "WINDOW_UPDATE"
               /\ from_peer # <<>> /\ from_peer' = Tail(from_peer)
               /\ Granted(id, n)
               /\ updates' \in [Ids -> Nat]
               /\ updates'[id] = updates[id] + n
               /\ \A t \in Ids \ {id} : updates'[t] = updates[t]
               /\ UNCHANGED <<sent, consumed, issued, initial, to_peer, settings_seen,
                              peer_settings, opened, op>>
  <1>1. /\ from_peer # <<>> /\ Frame = from_peer[1] /\ Frame \in PeerFrames
        /\ Frame.type = "WINDOW_UPDATE"
    BY TailFacts DEF TakesUpdate, Takes, Frame, TypeOK
  <1>2. Frame.stream \in Ids /\ Frame.n \in Nat
    BY <1>1 DEF PeerFrames, Ids
  <1>3. PICK id \in Ids, n \in Nat : id = Frame.stream /\ n = Frame.n
    BY <1>2
  <1>4. Granted(id, n) /\ updates' = [updates EXCEPT ![id] = @ + n]
    BY <1>3 DEF TakesUpdate
  <1>5. /\ updates' \in [Ids -> Nat]
        /\ updates'[id] = updates[id] + n
        /\ \A t \in Ids \ {id} : updates'[t] = updates[t]
    BY <1>4 DEF TypeOK
  <1>6. /\ from_peer' = Tail(from_peer)
        /\ UNCHANGED <<sent, consumed, issued, initial, to_peer, settings_seen,
                       peer_settings, opened, op>>
    BY DEF TakesUpdate, Erased, Unmoved, calls, peer
  <1> QED
    BY <1>1, <1>3, <1>4, <1>5, <1>6
LEMMA TakesUpdateKeeps ==
    ASSUME TypeOK, IInv, TakesUpdate
    PROVE  IInv'
  <1>1. PICK id \in Ids, n \in Nat :
               /\ id = from_peer[1].stream /\ n = from_peer[1].n
               /\ from_peer[1].type = "WINDOW_UPDATE"
               /\ from_peer # <<>> /\ from_peer' = Tail(from_peer)
               /\ Granted(id, n)
               /\ updates' \in [Ids -> Nat]
               /\ updates'[id] = updates[id] + n
               /\ \A t \in Ids \ {id} : updates'[t] = updates[t]
               /\ UNCHANGED <<sent, consumed, issued, initial, to_peer, settings_seen,
                              peer_settings, opened, op>>
    BY TakesUpdateShape
  <1>2. /\ Len(from_peer) \in Nat \ {0}
        /\ Len(from_peer') = Len(from_peer) - 1
        /\ \A i \in 1 .. Len(from_peer') : from_peer'[i] = from_peer[i + 1]
    BY <1>1, TailFacts DEF TypeOK
  <1>3. \A t \in Ids : updates[t] \in Nat /\ updates'[t] \in Nat /\ issued[t] \in Nat
    BY <1>1 DEF TypeOK
  <1>4. \A i \in 1 .. Len(from_peer') : i + 1 \in 1 .. Len(from_peer)
    BY <1>2
  <1>5. \A i \in 1 .. Len(from_peer) : from_peer[i] \in PeerFrames
    BY DEF TypeOK
  <1>6. ASSUME NEW i \in 1 .. Len(from_peer), from_peer[i].type = "WINDOW_UPDATE"
        PROVE  /\ from_peer[i].stream \in Ids /\ from_peer[i].n \in Nat /\ from_peer[i].at \in Nat
               /\ updates[from_peer[i].stream] <= from_peer[i].at
               /\ from_peer[i].at + from_peer[i].n <= issued[from_peer[i].stream]
    <2>1. from_peer[i].stream \in Ids /\ from_peer[i].n \in Nat /\ from_peer[i].at \in Nat
      BY <1>5, <1>6 DEF PeerFrames
    <2> QED
      BY <1>6, <2>1 DEF IInv, GrantsUnderWay
  <1>7. 1 \in 1 .. Len(from_peer)
    BY <1>2
  <1>8. /\ from_peer[1].at \in Nat
        /\ updates[id] <= from_peer[1].at
        /\ from_peer[1].at + n <= issued[id]
    BY <1>1, <1>6, <1>7
  <1>9. Ledger'
    <2>1. ASSUME NEW t \in Ids PROVE updates'[t] <= issued'[t]
      <3>1. CASE t = id
        BY <1>1, <1>3, <1>8, <3>1
      <3>2. CASE t # id
        BY <1>1, <3>2 DEF IInv, Ledger
      <3> QED
        BY <3>1, <3>2
    <2> QED
      BY <1>1, <2>1 DEF IInv, Ledger
  <1>10. ConnectionBacked'
    <2>1. /\ connection_window \in Int /\ sent[0] \in Nat /\ updates[0] \in Nat
          /\ DefaultWindow \in Nat /\ MaxWindow \in Nat
          /\ connection_window <= DefaultWindow + updates[0] - sent[0]
      BY Http2Assumption DEF TypeOK, Ids, IInv, ConnectionBacked
    <2>2. CASE id = 0
      <3>1. connection_window' = Wrap(connection_window + n) /\ updates'[0] = updates[0] + n
        BY <1>1, <2>2 DEF Granted
      <3>2. Wrap(connection_window + n) <= connection_window + n
            /\ Wrap(connection_window + n) \in Int
        BY <2>1 DEF Wrap
      <3> QED
        BY <1>1, <2>1, <3>1, <3>2 DEF ConnectionBacked
    <2>3. CASE id # 0
      <3>1. connection_window' = connection_window /\ updates'[0] = updates[0]
        BY <1>1, <2>3 DEF Granted, Ids
      <3> QED
        BY <1>1, <2>1, <3>1 DEF ConnectionBacked
    <2> QED
      BY <2>2, <2>3
  <1>11. DataUnderWay'
    BY <1>1 DEF IInv, DataUnderWay
  <1>12. ASSUME NEW i \in 1 .. Len(from_peer'), from_peer'[i].type = "WINDOW_UPDATE"
         PROVE  /\ updates'[from_peer'[i].stream] <= from_peer'[i].at
                /\ from_peer'[i].at + from_peer'[i].n <= issued'[from_peer'[i].stream]
    <2>1. PICK k \in 1 .. Len(from_peer) : k = i + 1
      BY <1>4
    <2>2. from_peer'[i] = from_peer[k] /\ 1 < k /\ from_peer[k].type = "WINDOW_UPDATE"
      BY <1>2, <1>12, <2>1
    <2>3. /\ from_peer[k].stream \in Ids /\ from_peer[k].n \in Nat /\ from_peer[k].at \in Nat
          /\ updates[from_peer[k].stream] <= from_peer[k].at
          /\ from_peer[k].at + from_peer[k].n <= issued[from_peer[k].stream]
      BY <1>6, <2>2
    <2>4. CASE from_peer[k].stream = id
      <3>1. from_peer[1].at + from_peer[1].n <= from_peer[k].at
        BY <1>1, <1>7, <2>2, <2>4 DEF IInv, GrantsUnderWay
      <3>2. updates'[id] <= from_peer[k].at
        <4>1. updates[id] + n <= from_peer[1].at + n
          BY <1>3, <1>8
        <4>2. from_peer[1].at + n <= from_peer[k].at
          BY <1>1, <3>1
        <4>3. updates[id] \in Nat /\ from_peer[1].at \in Nat /\ from_peer[k].at \in Nat
          BY <1>3, <1>8, <2>3
        <4> QED
          BY <1>1, <4>1, <4>2, <4>3
      <3> QED
        BY <1>1, <2>2, <2>3, <2>4, <3>2
    <2>5. CASE from_peer[k].stream # id
      BY <1>1, <2>2, <2>3, <2>5
    <2> QED
      BY <2>4, <2>5
  <1>13. ASSUME NEW i \in 1 .. Len(from_peer'), NEW j \in 1 .. Len(from_peer'),
                i < j,
                from_peer'[i].type = "WINDOW_UPDATE", from_peer'[j].type = "WINDOW_UPDATE",
                from_peer'[i].stream = from_peer'[j].stream
         PROVE  from_peer'[i].at + from_peer'[i].n <= from_peer'[j].at
    <2>1. i + 1 \in 1 .. Len(from_peer) /\ j + 1 \in 1 .. Len(from_peer) /\ i + 1 < j + 1
      BY <1>2, <1>13
    <2> QED
      BY <1>2, <1>13, <2>1 DEF IInv, GrantsUnderWay
  <1>14. GrantsUnderWay'
    BY <1>12, <1>13 DEF GrantsUnderWay
  <1> QED
    BY <1>9, <1>10, <1>11, <1>14 DEF IInv

LEMMA PeerGrantsKeeps ==
    ASSUME TypeOK, IInv, NEW id \in Ids, NEW n \in 1 .. MaxWindow,
           PeerGrants(id, n)
    PROVE  IInv'
  <1>1. n \in Nat /\ \A t \in Ids : issued[t] \in Nat /\ updates[t] \in Nat
    BY Http2Assumption DEF TypeOK
  <1>2. /\ issued' = [issued EXCEPT ![id] = @ + n]
        /\ PeerSends(PeerFrame("WINDOW_UPDATE", id, n, issued[id], ABody))
        /\ UNCHANGED <<sent, consumed, updates, connection_window, to_peer>>
    BY DEF PeerGrants, PeerSends, impl, windows, history
  <1>3. /\ issued'[id] = issued[id] + n
        /\ \A t \in Ids : issued[t] <= issued'[t] /\ issued'[t] \in Nat
    <2>1. issued'[id] = issued[id] + n
      BY <1>2 DEF TypeOK
    <2>2. \A t \in Ids \ {id} : issued'[t] = issued[t]
      BY <1>2 DEF TypeOK
    <2> QED
      BY <1>1, <2>1, <2>2
  <1>4. Ledger'
    <2>1. ASSUME NEW t \in Ids PROVE updates'[t] <= issued'[t]
      <3>1. updates[t] <= issued[t]
        BY DEF IInv, Ledger
      <3> QED
        BY <1>1, <1>2, <1>3, <3>1
    <2> QED
      BY <1>2, <2>1 DEF IInv, Ledger
  <1>5. DataUnderWay' /\ ConnectionBacked'
    BY <1>2 DEF IInv, DataUnderWay, ConnectionBacked
  <1> DEFINE f == PeerFrame("WINDOW_UPDATE", id, n, issued[id], ABody)
  <1>6. f.stream = id /\ f.n = n /\ f.at = issued[id] /\ f \in PeerFrames
    BY <1>1, ABodyType DEF PeerFrame, PeerFrames
  <1>7. from_peer' = Append(from_peer, f)
    BY <1>2 DEF PeerSends
  <1> HIDE DEF f
  <1>8. /\ Len(from_peer) \in Nat
        /\ Len(from_peer') = Len(from_peer) + 1
        /\ \A i \in 1 .. Len(from_peer) : from_peer'[i] = from_peer[i]
        /\ from_peer'[Len(from_peer) + 1] = f
    BY <1>6, <1>7, AppendFacts DEF TypeOK
  <1>9. \A i \in 1 .. Len(from_peer) : from_peer[i] \in PeerFrames
    BY DEF TypeOK
  <1>10. ASSUME NEW i \in 1 .. Len(from_peer), from_peer[i].type = "WINDOW_UPDATE"
         PROVE  /\ from_peer[i].stream \in Ids /\ from_peer[i].n \in Nat /\ from_peer[i].at \in Nat
                /\ updates[from_peer[i].stream] <= from_peer[i].at
                /\ from_peer[i].at + from_peer[i].n <= issued[from_peer[i].stream]
    <2>1. from_peer[i].stream \in Ids /\ from_peer[i].n \in Nat /\ from_peer[i].at \in Nat
      BY <1>9, <1>10 DEF PeerFrames
    <2> QED
      BY <1>10, <2>1 DEF IInv, GrantsUnderWay
  <1>11. ASSUME NEW i \in 1 .. Len(from_peer'), from_peer'[i].type = "WINDOW_UPDATE"
         PROVE  /\ updates'[from_peer'[i].stream] <= from_peer'[i].at
                /\ from_peer'[i].at + from_peer'[i].n <= issued'[from_peer'[i].stream]
    <2>1. CASE i \in 1 .. Len(from_peer)
      <3>1. from_peer'[i] = from_peer[i]
        BY <1>8, <2>1
      <3>2. /\ from_peer[i].stream \in Ids /\ from_peer[i].n \in Nat /\ from_peer[i].at \in Nat
            /\ updates[from_peer[i].stream] <= from_peer[i].at
            /\ from_peer[i].at + from_peer[i].n <= issued[from_peer[i].stream]
        BY <1>10, <1>11, <2>1, <3>1
      <3>3. /\ issued[from_peer[i].stream] <= issued'[from_peer[i].stream]
            /\ issued[from_peer[i].stream] \in Nat /\ issued'[from_peer[i].stream] \in Nat
        BY <1>1, <1>3, <3>2
      <3> QED
        BY <1>2, <3>1, <3>2, <3>3
    <2>2. CASE i = Len(from_peer) + 1
      <3>1. updates[id] <= issued[id]
        BY DEF IInv, Ledger
      <3> QED
        BY <1>1, <1>2, <1>3, <1>6, <1>8, <2>2, <3>1
    <2> QED
      BY <1>8, <2>1, <2>2
  <1>12. ASSUME NEW i \in 1 .. Len(from_peer'), NEW j \in 1 .. Len(from_peer'),
                i < j,
                from_peer'[i].type = "WINDOW_UPDATE", from_peer'[j].type = "WINDOW_UPDATE",
                from_peer'[i].stream = from_peer'[j].stream
         PROVE  from_peer'[i].at + from_peer'[i].n <= from_peer'[j].at
    <2>1. i \in 1 .. Len(from_peer)
      BY <1>8, <1>12
    <2>2. CASE j \in 1 .. Len(from_peer)
      BY <1>8, <1>12, <2>1, <2>2 DEF IInv, GrantsUnderWay
    <2>3. CASE j = Len(from_peer) + 1
      BY <1>6, <1>8, <1>10, <1>12, <2>1, <2>3
    <2> QED
      BY <1>8, <2>2, <2>3
  <1>13. GrantsUnderWay'
    BY <1>11, <1>12 DEF GrantsUnderWay
  <1> QED
    BY <1>4, <1>5, <1>13 DEF IInv

LEMMA InitIInv == Init => IInv
  <1> SUFFICES ASSUME Init PROVE IInv
    OBVIOUS
  <1>1. \A id \in Ids : sent[id] = 0 /\ consumed[id] = 0 /\ updates[id] = 0 /\ issued[id] = 0
    BY DEF Init, Zero
  <1>2. 0 \in Ids /\ 1 \in Ids /\ 3 \in Ids /\ StreamIds \subseteq Ids
    BY DEF Ids, StreamIds
  <1>3. Ledger /\ ConnectionBacked
    BY <1>1, <1>2, Http2Assumption DEF Init, Ledger, ConnectionBacked
  <1>4. DataUnderWay /\ GrantsUnderWay
    BY DEF Init, DataUnderWay, GrantsUnderWay
  <1> QED
    BY <1>3, <1>4 DEF IInv

LEMMA NextIInv == TypeOK /\ IInv /\ [Next]_vars => IInv'
  <1> SUFFICES ASSUME TypeOK, IInv, [Next]_vars PROVE IInv'
    OBVIOUS
  <1>1. CASE Call
    BY <1>1, CallQuiet, QuietKeeps
  <1>2. CASE Continue
    BY <1>2, ContinueQuiet, QuietKeeps, WriteDataKeeps, TakesUpdateKeeps DEF Continue, TakesFrame
  <1>3. CASE PeerStep
    BY <1>3, PeerStepQuiet, QuietKeeps, PeerGrantsKeeps, PeerTakesKeeps DEF PeerStep, GrantSteps
  <1>4. CASE UNCHANGED vars
    <2>1. Quiet
      BY <1>4 DEF Quiet, HostQuiet, PeerQuiet, vars, impl, windows, history, peer
    <2> QED
      BY <2>1, QuietKeeps
  <1> QED
    BY <1>1, <1>2, <1>3, <1>4 DEF Next

LEMMA InvariantHolds == Spec => [](TypeOK /\ IInv)
  <1>1. Init => TypeOK /\ IInv
    BY InitType, InitIInv
  <1>2. TypeOK /\ IInv /\ [Next]_vars => TypeOK' /\ IInv'
    BY NextType, NextIInv
  <1> QED
    BY <1>1, <1>2, PTL DEF Spec
\* The only steps that touch the accounts of the connection.
LEMMA NextConnection ==
    ASSUME TypeOK, IInv, ConnectionWithinGrant, [Next]_vars
    PROVE  ConnectionWithinGrant'
  <1>1. /\ sent[0] \in Nat /\ updates[0] \in Nat /\ DefaultWindow \in Nat
        /\ sent[0] <= DefaultWindow + updates[0]
        /\ connection_window \in Int
        /\ connection_window <= DefaultWindow + updates[0] - sent[0]
    BY Http2Assumption DEF TypeOK, Ids, IInv, ConnectionBacked, ConnectionWithinGrant
  <1>2. CASE UNCHANGED <<sent, updates>>
    BY <1>1, <1>2 DEF ConnectionWithinGrant
  <1>3. CASE WriteData
    <2>1. PICK n \in Nat : /\ n <= connection_window
                           /\ sent'[0] = sent[0] + n
                           /\ UNCHANGED updates
      BY <1>3, WriteDataShape
    <2> QED
      BY <1>1, <2>1 DEF ConnectionWithinGrant
  <1>4. CASE TakesUpdate
    <2>1. PICK id \in Ids, n \in Nat : /\ updates'[id] = updates[id] + n
                                       /\ \A t \in Ids \ {id} : updates'[t] = updates[t]
                                       /\ UNCHANGED sent
      BY <1>4, TakesUpdateShape
    <2>2. updates'[0] = updates[0] \/ updates'[0] = updates[0] + n
      BY <2>1 DEF Ids
    <2> QED
      BY <1>1, <2>1, <2>2 DEF ConnectionWithinGrant
  <1>5. CASE Call
    BY <1>2, <1>5, CallQuiet DEF Quiet
  <1>6. CASE Continue
    BY <1>2, <1>3, <1>4, <1>6, ContinueQuiet DEF Continue, TakesFrame, Quiet
  <1>7. CASE PeerStep
    <2>1. UNCHANGED <<sent, updates>>
      BY <1>7, PeerStepQuiet DEF PeerStep, GrantSteps, PeerGrants, PeerTakes, PeerSends, history,
                                 Quiet
    <2> QED
      BY <1>2, <2>1
  <1>8. CASE UNCHANGED vars
    BY <1>2, <1>8 DEF vars, history
  <1> QED
    BY <1>5, <1>6, <1>7, <1>8 DEF Next

\* connection_window never lets more out than the peer granted the connection:
\* against any peer, after any loss and any wrap of the counter (Http2::write
\* and the WINDOW_UPDATE case of read_frame).
THEOREM ConnectionWithin == Spec => []ConnectionWithinGrant
  <1>1. Init => ConnectionWithinGrant
    BY Http2Assumption DEF Init, Zero, Ids, ConnectionWithinGrant
  <1>2. TypeOK /\ IInv /\ ConnectionWithinGrant /\ [Next]_vars => ConnectionWithinGrant'
    BY NextConnection
  <1> QED
    BY <1>1, <1>2, InvariantHolds, PTL DEF Spec
-----------------------------------------------------------------------------
(* The windows, as long as they can be known.                              *)

\* Most steps touch none of the accounts, ...
Accounts == <<windows, sent, updates, initial, issued, consumed, ahead, peer_settings,
              peer_initial>>

\* ... read or send no SETTINGS, ...
SettingsQuiet ==
    /\ UNCHANGED <<settings_seen, peer_settings, initial, peer_initial>>
    /\ \/ UNCHANGED from_peer
       \/ from_peer # <<>> /\ from_peer' = Tail(from_peer)
       \/ \E f \in PeerFrames : f.type # "SETTINGS" /\ from_peer' = Append(from_peer, f)
    /\ op \in {"closing", "over"} => op' \in {"closing", "over"}

\* ... and send and grant on open streams only.
OpeningQuiet ==
    /\ opened \subseteq opened'
    /\ op' \in {"new", "connect", "closing"} \/ ~settings_seen' => opened' = {}
    /\ op' \in {"idle", "write", "read"} => settings_seen'
    /\ op' = "write" => cur' \in opened'
    /\ UNCHANGED peer_open
    /\ \/ UNCHANGED to_peer
       \/ to_peer' = <<>>
       \/ \E f \in HostFrames : /\ f.type = "HEADERS" => f.stream \in opened'
                                /\ to_peer' = Append(to_peer, f)
    /\ \A st \in StreamIds : /\ sent'[st] = sent[st] \/ st \in opened'
                             /\ issued'[st] = issued[st] \/ st \in peer_open

LEMMA OpeningKeeps ==
    ASSUME TypeOK, Opening, OpeningQuiet
    PROVE  Opening'
  <1>1. \A i \in 1 .. Len(to_peer) : to_peer[i].type = "HEADERS" => to_peer[i].stream \in opened'
    BY DEF Opening, OpeningQuiet
  <1>2. \A i \in 1 .. Len(to_peer') :
            to_peer'[i].type = "HEADERS" => to_peer'[i].stream \in opened'
    <2>1. CASE UNCHANGED to_peer
      BY <1>1, <2>1
    <2>2. CASE to_peer' = <<>>
      <3>1. 1 .. Len(to_peer') = {}
        BY <2>2
      <3> QED
        BY <3>1
    <2>3. ASSUME NEW f \in HostFrames, f.type = "HEADERS" => f.stream \in opened',
                 to_peer' = Append(to_peer, f),
                 NEW i \in 1 .. Len(to_peer'), to_peer'[i].type = "HEADERS"
          PROVE  to_peer'[i].stream \in opened'
      <3>1. /\ Len(to_peer) \in Nat
            /\ Len(to_peer') = Len(to_peer) + 1
            /\ \A k \in 1 .. Len(to_peer) : to_peer'[k] = to_peer[k]
            /\ to_peer'[Len(to_peer) + 1] = f
        BY <2>3, AppendFacts DEF TypeOK
      <3>2. i \in 1 .. Len(to_peer) \/ i = Len(to_peer) + 1
        BY <3>1
      <3> QED
        BY <1>1, <2>3, <3>1, <3>2
    <2> QED
      BY <2>1, <2>2, <2>3 DEF OpeningQuiet
  <1>3. \A st \in StreamIds : /\ st \notin opened' => sent'[st] = 0
                              /\ st \notin peer_open' => issued'[st] = 0
    BY DEF Opening, OpeningQuiet
  <1>4. peer_open' \subseteq opened'
    BY DEF Opening, OpeningQuiet
  <1> QED
    BY <1>2, <1>3, <1>4 DEF Opening, OpeningQuiet

\* The SETTINGS frames are where they were, or one further on.
LEMMA SettingsKeep ==
    ASSUME TypeOK, SettingsRead, SettingsQuiet
    PROVE  SettingsRead'
  <1>1. ASSUME NEW m \in Nat,
               \A i \in 1 .. Len(from_peer') : from_peer'[i].type = "SETTINGS" =>
                   i + m \in 1 .. Len(from_peer) /\ from_peer'[i] = from_peer[i + m]
        PROVE  SettingsRead'
    <2>1. ASSUME NEW i \in 1 .. Len(from_peer'), from_peer'[i].type = "SETTINGS"
          PROVE  peer_settings' > 0
      BY <1>1, <2>1 DEF SettingsRead, SettingsQuiet
    <2>2. ASSUME peer_settings <= 1 PROVE SettingsOnce'
      <3>1. ASSUME NEW i \in 1 .. Len(from_peer'), NEW j \in 1 .. Len(from_peer'),
                   from_peer'[i].type = "SETTINGS", from_peer'[j].type = "SETTINGS"
            PROVE  i = j
        <4>1. PICK k \in 1 .. Len(from_peer), l \in 1 .. Len(from_peer) :
                 /\ k = i + m /\ l = j + m
                 /\ from_peer'[i] = from_peer[k] /\ from_peer'[j] = from_peer[l]
          BY <1>1, <3>1
        <4>2. k = l
          BY <2>2, <3>1, <4>1 DEF SettingsRead, SettingsOnce
        <4>3. i \in Int /\ j \in Int
          OBVIOUS
        <4> QED
          BY <4>1, <4>2, <4>3
      <3>2. ASSUME NEW i \in 1 .. Len(from_peer'), from_peer'[i].type = "SETTINGS"
            PROVE  /\ settings_seen => op \in {"closing", "over"}
                   /\ ~settings_seen /\ from_peer'[i].n = NoWindow => Known
                   /\ ~settings_seen /\ from_peer'[i].n # NoWindow =>
                          from_peer'[i].n = peer_initial
        <4>1. PICK k \in 1 .. Len(from_peer) : from_peer'[i] = from_peer[k]
          BY <1>1, <3>2
        <4> QED
          BY <2>2, <3>2, <4>1 DEF SettingsRead, SettingsOnce
      <3>3. settings_seen \/ peer_settings = 0 => Known
        BY <2>2 DEF SettingsRead, SettingsOnce
      <3> QED
        BY <3>1, <3>2, <3>3 DEF SettingsQuiet, SettingsOnce, Known
    <2> QED
      BY <2>1, <2>2 DEF SettingsRead, SettingsQuiet
  <1>2. CASE UNCHANGED from_peer
    <2>1. \A i \in 1 .. Len(from_peer') : i + 0 \in 1 .. Len(from_peer) /\ i + 0 = i
      BY <1>2
    <2> QED
      BY <1>1, <1>2, <2>1
  <1>3. CASE from_peer # <<>> /\ from_peer' = Tail(from_peer)
    <2>1. /\ Len(from_peer) \in Nat \ {0}
          /\ Len(from_peer') = Len(from_peer) - 1
          /\ \A i \in 1 .. Len(from_peer') : from_peer'[i] = from_peer[i + 1]
      BY <1>3, TailFacts DEF TypeOK
    <2>2. \A i \in 1 .. Len(from_peer') : i + 1 \in 1 .. Len(from_peer)
      BY <2>1
    <2> QED
      BY <1>1, <2>1, <2>2
  <1>4. ASSUME NEW f \in PeerFrames, f.type # "SETTINGS", from_peer' = Append(from_peer, f)
        PROVE  SettingsRead'
    <2>1. /\ Len(from_peer) \in Nat
          /\ Len(from_peer') = Len(from_peer) + 1
          /\ \A i \in 1 .. Len(from_peer) : from_peer'[i] = from_peer[i]
          /\ from_peer'[Len(from_peer) + 1] = f
      BY <1>4, AppendFacts DEF TypeOK
    <2>2. \A i \in 1 .. Len(from_peer') : from_peer'[i].type = "SETTINGS" =>
              i + 0 \in 1 .. Len(from_peer) /\ from_peer'[i] = from_peer[i + 0]
      BY <1>4, <2>1
    <2> QED
      BY <1>1, <2>2
  <1> QED
    BY <1>2, <1>3, <1>4 DEF SettingsQuiet

LEMMA OpenKeeps ==
    ASSUME WindowsOpen, UNCHANGED <<issued, consumed, ahead, peer_settings, peer_initial>>
    PROVE  WindowsOpen'
  BY DEF WindowsOpen

\* A step that touches none of the accounts.
WindowQuiet == OpeningQuiet /\ SettingsQuiet /\ UNCHANGED Accounts

LEMMA WindowQuietKeeps ==
    ASSUME TypeOK, WindowInv, WindowQuiet
    PROVE  WindowInv'
  <1>1. Opening' /\ SettingsRead'
    BY OpeningKeeps, SettingsKeep DEF WindowInv, WindowQuiet
  <1>2. WindowsOpen'
    BY OpenKeeps DEF WindowInv, WindowQuiet, Accounts
  <1>3. WindowsExact'
    BY DEF WindowInv, WindowQuiet, Accounts, windows, WindowsExact, Tracked
  <1> QED
    BY <1>1, <1>2, <1>3 DEF WindowInv

LEMMA CallWindow ==
    ASSUME TypeOK, Opening, Call
    PROVE  WindowQuiet
  <1>1. CASE Connect
    <2>1. \/ UNCHANGED to_peer
          \/ \E f \in HostFrames : f.type # "HEADERS" /\ to_peer' = Append(to_peer, f)
      BY <1>1, HostFrameTypes DEF Connect, Sent, SendFails, HostFrame
    <2>2. /\ op = "new" /\ op' \in {"connect", "closing"}
          /\ UNCHANGED <<impl, cur, from_peer, history, peer>>
      BY <1>1 DEF Connect
    <2> QED
      BY <2>1, <2>2 DEF Opening, WindowQuiet, OpeningQuiet, SettingsQuiet, Accounts, impl,
                        history, peer
  <1>2. CASE Read
    BY <1>2 DEF Read, Opening, WindowQuiet, OpeningQuiet, SettingsQuiet, Accounts, impl,
                history, peer
  <1>3. CASE Close
    <2>1. \/ UNCHANGED to_peer
          \/ \E f \in HostFrames : f.type # "HEADERS" /\ to_peer' = Append(to_peer, f)
      BY <1>3, HostFrameTypes DEF Close, Sent, SendFails, HostFrame
    <2>2. /\ op \in {"idle", "closing"} /\ op' = "over"
          /\ UNCHANGED <<impl, cur, from_peer, history, peer>>
      BY <1>3 DEF Close
    <2> QED
      BY <2>1, <2>2 DEF Opening, WindowQuiet, OpeningQuiet, SettingsQuiet, Accounts, impl,
                        history, peer
  <1>4. ASSUME NEW st \in StreamIds, Open(st)
        PROVE  WindowQuiet
    <2>1. \/ UNCHANGED <<to_peer, opened>>
          \/ /\ opened' = opened \cup {st}
             /\ \E f \in HostFrames : f.stream = st /\ to_peer' = Append(to_peer, f)
      BY <1>4, HostFrameTypes DEF Open, Sent, SendFails, HostFrame
    <2>2. op = "idle" /\ UNCHANGED <<impl, calls, from_peer, got, sent, updates, initial, peer>>
      BY <1>4 DEF Open
    <2>3. opened \subseteq opened'
      BY <2>1
    <2> QED
      BY <2>1, <2>2, <2>3 DEF Opening, WindowQuiet, OpeningQuiet, SettingsQuiet, Accounts, impl,
                              calls, peer
  <1>5. ASSUME NEW st \in StreamIds, NEW n \in 1 .. MaxUnits, Write(st, n)
        PROVE  WindowQuiet
    BY <1>5 DEF Write, Opening, WindowQuiet, OpeningQuiet, SettingsQuiet, Accounts, impl,
                history, peer
  <1> QED
    BY <1>1, <1>2, <1>3, <1>4, <1>5 DEF Call

LEMMA ContinueWindow ==
    ASSUME TypeOK, Opening,
           \/ Connected \/ WriteFails \/ Written \/ ReadReturns \/ GivesUp \/ FrameFails
           \/ TakesData \/ TakesPing \/ TakesClose
    PROVE  WindowQuiet
  <1> USE DEF Opening, WindowQuiet, OpeningQuiet, SettingsQuiet, Accounts
  <1>1. CASE Connected
    BY <1>1 DEF Connected, Return, impl, history, peer
  <1>2. CASE WriteFails
    BY <1>2 DEF WriteFails, SendFails, Fail, impl, history, peer
  <1>3. CASE Written
    BY <1>3 DEF Written, Return, impl, history, peer
  <1>4. CASE ReadReturns
    BY <1>4 DEF ReadReturns, Return, peer
  <1>5. CASE GivesUp
    BY <1>5 DEF GivesUp, Fail, impl, history, peer
  <1>6. CASE FrameFails
    BY <1>6 DEF FrameFails, ReadFails, InReadFrame, Fail, impl, history, peer
  <1>7. CASE TakesData
    BY <1>7 DEF TakesData, Takes, Erased, Unmoved, calls, history, peer
  <1>8. CASE TakesPing
    <2>1. \/ UNCHANGED to_peer
          \/ \E f \in HostFrames : f.type # "HEADERS" /\ to_peer' = Append(to_peer, f)
      BY <1>8, HostFrameTypes DEF TakesPing, Answered, Sent, SendFails, HostFrame
    <2>2. /\ from_peer # <<>>
          /\ UNCHANGED from_peer \/ from_peer' = Tail(from_peer)
          /\ UNCHANGED <<impl, history, peer>>
      BY <1>8 DEF TakesPing, Takes, Answered, Erased
    <2>3. /\ op \in {"connect", "write", "read"}
          /\ \/ UNCHANGED <<op, cur>>
             \/ op' = IF op = "connect" THEN "closing" ELSE "idle"
      BY <1>8 DEF TakesPing, Takes, InReadFrame, Answered, Fail, calls
    <2> QED
      BY <2>1, <2>2, <2>3 DEF impl, history, peer
  <1>9. CASE TakesClose
    BY <1>9 DEF TakesClose, Takes, Erased, Unmoved, calls, history, peer
  <1> QED
    BY <1>1, <1>2, <1>3, <1>4, <1>5, <1>6, <1>7, <1>8, <1>9

LEMMA PeerWindow ==
    ASSUME TypeOK, Opening,
           \/ \E id \in StreamIds, body \in Bodies : PeerData(id, body)
           \/ PeerPing \/ PeerCloses \/ PeerEnds
    PROVE  WindowQuiet
  <1>1. ASSUME NEW f \in PeerFrames, f.type # "SETTINGS", PeerSends(f),
               UNCHANGED <<peer_initial, peer_settings, peer_open, consumed, issued, ahead>>
        PROVE  WindowQuiet
    <2>1. UNCHANGED <<windows, settings_seen, op, cur, to_peer, opened, sent, updates, initial>>
          /\ from_peer' = Append(from_peer, f)
      BY <1>1 DEF PeerSends, calls, impl, history
    <2> QED
      BY <1>1, <2>1 DEF Opening, WindowQuiet, OpeningQuiet, SettingsQuiet, Accounts
  <1>2. ASSUME NEW id \in StreamIds, NEW body \in Bodies, PeerData(id, body)
        PROVE  WindowQuiet
    <2>1. /\ PeerFrame("DATA", id, 1, peer_sent + 1, body) \in PeerFrames
          /\ PeerFrame("DATA", id, 0, 0, body) \in PeerFrames
      BY DEF PeerFrame, PeerFrames, Ids, TypeOK
    <2> QED
      BY <1>1, <1>2, <2>1 DEF PeerData, PeerFrame
  <1>3. CASE PeerPing
    <2>1. PeerFrame("PING", 0, 8, 0, ABody) \in PeerFrames
      BY ABodyType DEF PeerFrame, PeerFrames, Ids
    <2> QED
      BY <1>1, <1>3, <2>1 DEF PeerPing, PeerFrame
  <1>4. CASE PeerCloses
    <2>1. PeerFrame("GOAWAY", 0, 8, 0, ABody) \in PeerFrames
      BY ABodyType DEF PeerFrame, PeerFrames, Ids
    <2>2. \A st \in peer_open : PeerFrame("RST_STREAM", st, 4, 0, ABody) \in PeerFrames
      BY ABodyType DEF PeerFrame, PeerFrames, Ids, TypeOK
    <2>3. PICK f \in PeerFrames : f.type # "SETTINGS" /\ PeerSends(f)
      BY <1>4, <2>1, <2>2 DEF PeerCloses, PeerFrame
    <2> QED
      BY <1>1, <1>4, <2>3 DEF PeerCloses
  <1>5. CASE PeerEnds
    BY <1>5 DEF PeerEnds, Opening, WindowQuiet, OpeningQuiet, SettingsQuiet, Accounts, calls,
                impl, history, peer
  <1> QED
    BY <1>2, <1>3, <1>4, <1>5

\* What a step on one stream does to the sum of both.
LEMMA SumMoves ==
    ASSUME NEW i \in Int, NEW n \in Nat,
           NEW u1 \in Nat, NEW s1 \in Nat, NEW u2 \in Nat, NEW s2 \in Nat
    PROVE  /\ i + (u1 - s1) + (u2 - s2) - n = i + (u1 - (s1 + n)) + (u2 - s2)
           /\ i + (u1 - s1) + (u2 - s2) - n = i + (u1 - s1) + (u2 - (s2 + n))
           /\ i + (u1 - s1) + (u2 - s2) + n = i + ((u1 + n) - s1) + (u2 - s2)
           /\ i + (u1 - s1) + (u2 - s2) + n = i + (u1 - s1) + ((u2 + n) - s2)
  OBVIOUS

\* A DATA frame is charged to its stream and to both counters.
LEMMA WriteDataWindow ==
    ASSUME TypeOK, WindowInv, WriteData
    PROVE  WindowInv'
  <1>1. PICK st \in StreamIds, n \in Nat :
               /\ st = cur
               /\ to_peer' = Append(to_peer, HostFrame("DATA", st, n, sent[st] + n))
               /\ HostFrame("DATA", st, n, sent[st] + n) \in HostFrames
               /\ connection_window' = connection_window - n
               /\ stream_window' = stream_window - n
               /\ sent'[0] = sent[0] + n
               /\ sent'[st] = sent[st] + n
               /\ \A t \in StreamIds \ {st} : sent'[t] = sent[t]
               /\ UNCHANGED <<consumed, updates, issued, from_peer, initial, settings_seen,
                              peer_settings, opened, op>>
    BY WriteDataShape
  <1>2. /\ op = "write"
        /\ UNCHANGED <<cur, peer_initial, peer_open, ahead>>
    BY DEF WriteData, peer
  <1>3. /\ \A id \in Ids : sent[id] \in Nat /\ updates[id] \in Nat
        /\ initial \in Int /\ DefaultWindow \in Int
    BY Http2Assumption DEF TypeOK
  <1>4. 0 \in Ids /\ 1 \in Ids /\ 3 \in Ids /\ 1 \in StreamIds /\ 3 \in StreamIds
    BY DEF Ids, StreamIds
  <1>5. WindowsExact'
    <2>1. connection_window = DefaultWindow + updates[0] - sent[0]
      BY DEF WindowInv, WindowsExact
    <2>2. connection_window' = DefaultWindow + updates'[0] - sent'[0]
      BY <1>1, <1>3, <1>4, <2>1
    <2>3. ASSUME Tracked
          PROVE  stream_window' = initial' + (updates'[1] - sent'[1]) + (updates'[3] - sent'[3])
      <3>1. stream_window = initial + (updates[1] - sent[1]) + (updates[3] - sent[3])
        BY <2>3 DEF WindowInv, WindowsExact
      <3> DEFINE u1 == updates[1]
                 s1 == sent[1]
                 u2 == updates[3]
                 s2 == sent[3]
      <3>2. u1 \in Nat /\ s1 \in Nat /\ u2 \in Nat /\ s2 \in Nat
        BY <1>3, <1>4
      <3>3. UNCHANGED <<initial, updates>> /\ stream_window' = stream_window - n
        BY <1>1
      <3>4. CASE st = 1
        <4>1. sent'[1] = s1 + n /\ sent'[3] = s2
          BY <1>1, <1>4, <3>4
        <4>2. stream_window = initial + (u1 - s1) + (u2 - s2)
              /\ updates'[1] = u1 /\ updates'[3] = u2
          BY <3>1, <3>3
        <4> HIDE DEF u1, s1, u2, s2
        <4>3. stream_window - n = initial + (u1 - (s1 + n)) + (u2 - s2)
          BY <1>3, <3>2, <4>2, SumMoves
        <4> QED
          BY <3>3, <4>1, <4>2, <4>3
      <3>5. CASE st = 3
        <4>1. sent'[3] = s2 + n /\ sent'[1] = s1
          BY <1>1, <1>4, <3>5
        <4>2. stream_window = initial + (u1 - s1) + (u2 - s2)
              /\ updates'[1] = u1 /\ updates'[3] = u2
          BY <3>1, <3>3
        <4> HIDE DEF u1, s1, u2, s2
        <4>3. stream_window - n = initial + (u1 - s1) + (u2 - (s2 + n))
          BY <1>3, <3>2, <4>2, SumMoves
        <4> QED
          BY <3>3, <4>1, <4>2, <4>3
      <3> QED
        BY <3>4, <3>5 DEF StreamIds
    <2> QED
      BY <1>1, <1>2, <2>2, <2>3 DEF WindowsExact, Tracked
  <1>6. OpeningQuiet
    <2>1. st \in opened /\ settings_seen
      BY <1>1, <1>2 DEF WindowInv, Opening
    <2>2. HostFrame("DATA", st, n, sent[st] + n).type # "HEADERS"
      BY DEF HostFrame
    <2> QED
      BY <1>1, <1>2, <2>1, <2>2 DEF OpeningQuiet
  <1>7. SettingsQuiet
    BY <1>1, <1>2 DEF SettingsQuiet
  <1> QED
    BY <1>1, <1>2, <1>5, <1>6, <1>7, OpeningKeeps, SettingsKeep, OpenKeeps DEF WindowInv

\* No sum wraps: what was read was granted, and what was granted fits.
LEMMA SumFits ==
    ASSUME NEW n \in Nat, NEW m \in Int, NEW i \in Int,
           NEW s1 \in Nat, NEW s2 \in Nat, NEW u1 \in Nat, NEW u2 \in Nat,
           NEW c1 \in Nat, NEW c2 \in Nat, NEW g1 \in Nat, NEW g2 \in Nat,
           u1 + n <= g1, u2 <= g2, c1 <= s1, c2 <= s2,
           i + g1 - c1 <= m, i + g2 - c2 <= m, g1 <= c1 \/ g2 <= c2
    PROVE  i + (u1 - s1) + (u2 - s2) + n <= m
  OBVIOUS

LEMMA TakesUpdateWindow ==
    ASSUME TypeOK, TypeOK', IInv, IInv', WindowInv, TakesUpdate
    PROVE  WindowInv'
  <1>1. PICK id \in Ids, n \in Nat :
               /\ from_peer # <<>> /\ from_peer' = Tail(from_peer)
               /\ Granted(id, n)
               /\ updates'[id] = updates[id] + n
               /\ \A t \in Ids \ {id} : updates'[t] = updates[t]
               /\ UNCHANGED <<sent, consumed, issued, initial, to_peer, settings_seen,
                              peer_settings, opened, op>>
    BY TakesUpdateShape
  <1>2. /\ op \in {"connect", "write", "read"}
        /\ op = "connect" => ~settings_seen
        /\ UNCHANGED <<cur, peer_initial, peer_open, ahead>>
    BY DEF TakesUpdate, Takes, InReadFrame, Unmoved, calls, peer
  <1>3. Ids = {0, 1, 3} /\ StreamIds = {1, 3}
    BY DEF Ids, StreamIds
  <1>4. \A t \in {0, 1, 3} : /\ sent[t] \in Nat /\ updates[t] \in Nat /\ updates'[t] \in Nat
                             /\ consumed[t] \in Nat /\ issued[t] \in Nat
    BY <1>3 DEF TypeOK
  <1>5. /\ initial \in 0 .. MaxWindow /\ DefaultWindow \in 0 .. MaxWindow /\ MaxWindow \in Nat
        /\ connection_window \in Int /\ stream_window \in Int
    BY Http2Assumption DEF TypeOK
  <1>6. /\ \A t \in {0, 1, 3} : updates'[t] <= issued[t]
        /\ consumed[1] <= sent[1] /\ consumed[3] <= sent[3]
        /\ consumed[0] = consumed[1] + consumed[3] /\ sent[0] = sent[1] + sent[3]
    BY <1>1, <1>3 DEF IInv, Ledger
  <1>7. connection_window' = DefaultWindow + updates'[0] - sent'[0]
    <2>1. connection_window = DefaultWindow + updates[0] - sent[0]
          /\ DefaultWindow + issued[0] - consumed[0] <= MaxWindow
      BY DEF WindowInv, WindowsExact, WindowsOpen
    <2>2. CASE id = 0
      <3>1. updates'[0] = updates[0] + n
        BY <1>1, <2>2
      <3>2. connection_window + n <= MaxWindow
        BY <1>4, <1>5, <1>6, <2>1, <3>1
      <3>3. connection_window' = connection_window + n
        BY <1>1, <1>5, <2>2, <3>2 DEF Granted, Wrap
      <3>4. sent'[0] = sent[0]
        BY <1>1
      <3> DEFINE u == updates[0]
                 s == sent[0]
      <3>5. u \in Nat /\ s \in Nat /\ DefaultWindow \in Int /\ connection_window = DefaultWindow + u - s
            /\ updates'[0] = u + n /\ sent'[0] = s
        BY <1>4, <1>5, <2>1, <3>1, <3>4
      <3> HIDE DEF u, s
      <3>6. connection_window + n = DefaultWindow + (u + n) - s
        BY <3>5
      <3> QED
        BY <3>3, <3>5, <3>6
    <2>3. CASE id # 0
      <3>1. updates'[0] = updates[0] /\ connection_window' = connection_window
        BY <1>1, <1>3, <2>3 DEF Granted
      <3> QED
        BY <1>1, <2>1, <3>1
    <2> QED
      BY <2>2, <2>3
  <1>8. ASSUME Tracked
        PROVE  stream_window' = initial' + (updates'[1] - sent'[1]) + (updates'[3] - sent'[3])
    <2>1. stream_window = initial + (updates[1] - sent[1]) + (updates[3] - sent[3])
      BY <1>8 DEF WindowInv, WindowsExact
    <2>2. CASE id = 0
      <3>1. updates'[1] = updates[1] /\ updates'[3] = updates[3] /\ stream_window' = stream_window
        BY <1>1, <1>3, <2>2 DEF Granted
      <3> QED
        BY <1>1, <2>1, <3>1
    <2>3. ASSUME id # 0
          PROVE  stream_window + n <= MaxWindow
      <3>1. PICK o \in {1, 3} : o # id /\ {id, o} = {1, 3}
        BY <1>3, <2>3
      <3>2. updates[id] + n <= issued[id] /\ updates[o] <= issued[o]
        BY <1>1, <1>3, <1>6, <3>1
      <3>3. stream_window = initial + (updates[id] - sent[id]) + (updates[o] - sent[o])
        <4>1. CASE id = 1 /\ o = 3
          BY <2>1, <4>1
        <4>2. CASE id = 3 /\ o = 1
          BY <1>4, <1>5, <2>1, <4>2
        <4> QED
          BY <3>1, <4>1, <4>2
      <3>4. peer_settings <= 1 /\ (id \notin ahead \/ o \notin ahead)
        BY <1>8, <1>3, <3>1 DEF Tracked
      <3>5. issued[id] <= consumed[id] \/ issued[o] <= consumed[o]
        BY <1>3, <3>1, <3>4 DEF WindowInv, WindowsOpen
      <3>6. initial + issued[id] - consumed[id] <= MaxWindow
            /\ initial + issued[o] - consumed[o] <= MaxWindow
        <4>1. CASE settings_seen
          <5>1. initial = peer_initial
            BY <3>4, <4>1 DEF WindowInv, SettingsRead, SettingsOnce, Known
          <5> QED
            BY <1>3, <3>1, <3>4, <5>1 DEF WindowInv, WindowsOpen
        <4>2. CASE ~settings_seen
          <5>1. issued[id] = 0 /\ issued[o] = 0
            BY <1>3, <3>1, <4>2 DEF WindowInv, Opening
          <5> QED
            BY <1>3, <1>4, <1>5, <3>1, <5>1
        <4> QED
          BY <4>1, <4>2
      <3>7. consumed[id] <= sent[id] /\ consumed[o] <= sent[o]
        BY <1>6, <3>1
      <3> DEFINE s1 == sent[id]
                 s2 == sent[o]
                 u1 == updates[id]
                 u2 == updates[o]
                 c1 == consumed[id]
                 c2 == consumed[o]
                 g1 == issued[id]
                 g2 == issued[o]
      <3>8. /\ s1 \in Nat /\ s2 \in Nat /\ u1 \in Nat /\ u2 \in Nat
            /\ c1 \in Nat /\ c2 \in Nat /\ g1 \in Nat /\ g2 \in Nat
        BY <1>3, <1>4, <3>1
      <3>9. u1 + n <= g1 /\ u2 <= g2 /\ c1 <= s1 /\ c2 <= s2 /\ (g1 <= c1 \/ g2 <= c2)
            /\ initial + g1 - c1 <= MaxWindow /\ initial + g2 - c2 <= MaxWindow
        BY <3>2, <3>5, <3>6, <3>7
      <3>10. stream_window = initial + (u1 - s1) + (u2 - s2)
        BY <3>3
      <3>11. initial \in Int /\ MaxWindow \in Int
        BY <1>5
      <3> HIDE DEF s1, s2, u1, u2, c1, c2, g1, g2
      <3>12. initial + (u1 - s1) + (u2 - s2) + n <= MaxWindow
        BY <3>8, <3>9, <3>11, SumFits
      <3> QED
        BY <3>10, <3>12
    <2>4. ASSUME id # 0
          PROVE  stream_window' = stream_window + n
      BY <1>1, <1>5, <2>3, <2>4 DEF Granted, Wrap
    <2> DEFINE u1 == updates[1]
               s1 == sent[1]
               u2 == updates[3]
               s2 == sent[3]
    <2>5. u1 \in Nat /\ s1 \in Nat /\ u2 \in Nat /\ s2 \in Nat /\ initial \in Int
      BY <1>4, <1>5
    <2>6. /\ stream_window = initial + (u1 - s1) + (u2 - s2)
          /\ initial' = initial /\ sent'[1] = s1 /\ sent'[3] = s2
      BY <1>1, <2>1
    <2>7. CASE id = 1
      <3>1. updates'[1] = u1 + n /\ updates'[3] = u2
        BY <1>1, <1>3, <2>7
      <3>2. stream_window' = stream_window + n
        BY <2>4, <2>7
      <3> HIDE DEF u1, s1, u2, s2
      <3>3. stream_window + n = initial + ((u1 + n) - s1) + (u2 - s2)
        BY <2>5, <2>6, SumMoves
      <3> QED
        BY <2>6, <3>1, <3>2, <3>3
    <2>8. CASE id = 3
      <3>1. updates'[3] = u2 + n /\ updates'[1] = u1
        BY <1>1, <1>3, <2>8
      <3>2. stream_window' = stream_window + n
        BY <2>4, <2>8
      <3> HIDE DEF u1, s1, u2, s2
      <3>3. stream_window + n = initial + (u1 - s1) + ((u2 + n) - s2)
        BY <2>5, <2>6, SumMoves
      <3> QED
        BY <2>6, <3>1, <3>2, <3>3
    <2> QED
      BY <1>3, <2>2, <2>7, <2>8
  <1>9. WindowsExact'
    BY <1>1, <1>2, <1>7, <1>8 DEF WindowsExact, Tracked
  <1>10. OpeningQuiet
    BY <1>1, <1>2 DEF WindowInv, Opening, OpeningQuiet
  <1>11. SettingsQuiet
    BY <1>1, <1>2 DEF SettingsQuiet
  <1> QED
    BY <1>1, <1>2, <1>9, <1>10, <1>11, OpeningKeeps, SettingsKeep, OpenKeeps DEF WindowInv

\* SETTINGS in connect find the streams untouched; later ones come from a peer
\* that sends them again.
LEMMA TakesSettingsWindow ==
    ASSUME TypeOK, IInv, WindowInv, TakesSettings
    PROVE  WindowInv'
  <1>1. /\ from_peer # <<>> /\ Frame = from_peer[1] /\ Frame.type = "SETTINGS"
        /\ Len(from_peer) \in Nat \ {0}
    BY TailFacts DEF TakesSettings, Takes, Frame, TypeOK
  <1>2. 1 \in 1 .. Len(from_peer)
    BY <1>1
  <1>3. /\ UNCHANGED <<connection_window, sent, updates, consumed, issued, ahead, peer_settings,
                       peer_initial, peer_open, opened>>
        /\ settings_seen' = TRUE
        /\ op \in {"connect", "write", "read"}
        /\ op = "connect" => ~settings_seen
    BY DEF TakesSettings, Takes, InReadFrame, peer
  <1>4. \/ Erased /\ UNCHANGED <<op, cur>>
        \/ /\ UNCHANGED from_peer
           /\ op' = IF op = "connect" THEN "closing" ELSE "idle"
    BY DEF TakesSettings, Answered, Fail, calls
  <1>5. peer_settings > 0
    BY <1>1, <1>2 DEF WindowInv, SettingsRead
  <1>6. OpeningQuiet
    <2>1. \/ UNCHANGED to_peer
          \/ \E f \in HostFrames : f.type # "HEADERS" /\ to_peer' = Append(to_peer, f)
      BY HostFrameTypes DEF TakesSettings, Answered, Sent, SendFails, HostFrame
    <2> QED
      BY <1>3, <1>4, <2>1 DEF WindowInv, Opening, OpeningQuiet
  <1>7. ASSUME peer_settings <= 1
        PROVE  /\ op = "connect" /\ ~settings_seen
               /\ Frame.n = NoWindow => Known
               /\ Frame.n # NoWindow => Frame.n = peer_initial
    <2>1. SettingsOnce
      BY <1>7 DEF WindowInv, SettingsRead
    <2>2. settings_seen => op \in {"closing", "over"}
      BY <1>1, <1>2, <2>1 DEF SettingsOnce
    <2>3. op \in {"write", "read"} => settings_seen
      BY DEF WindowInv, Opening
    <2>4. op = "connect" /\ ~settings_seen
      BY <1>3, <2>2, <2>3
    <2> QED
      BY <1>1, <1>2, <2>1, <2>4 DEF SettingsOnce
  <1>8. initial \in Int /\ Frame.n \in Int
    BY <1>1, FrameType DEF TypeOK, PeerFrames, NoWindow
  <1>9. WindowsExact'
    <2>1. connection_window' = DefaultWindow + updates'[0] - sent'[0]
      BY <1>3 DEF WindowInv, WindowsExact
    <2>2. ASSUME Tracked
          PROVE  stream_window' = initial' + (updates'[1] - sent'[1]) + (updates'[3] - sent'[3])
      <3>1. op = "connect" /\ ~settings_seen
        BY <1>7, <2>2 DEF Tracked
      <3>2. ASSUME NEW st \in StreamIds PROVE updates[st] = 0 /\ sent[st] = 0
        <4>1. sent[st] = 0 /\ issued[st] = 0
          BY <3>1 DEF WindowInv, Opening
        <4>2. st \in Ids /\ updates[st] \in Nat /\ updates[st] <= issued[st]
          BY DEF Ids, TypeOK, IInv, Ledger
        <4> QED
          BY <4>1, <4>2
      <3>3. updates[1] = 0 /\ sent[1] = 0 /\ updates[3] = 0 /\ sent[3] = 0
        BY <3>2 DEF StreamIds
      <3>4. \A w \in Int : w = w + (0 - 0) + (0 - 0)
        OBVIOUS
      <3>5. stream_window = initial
        <4>1. stream_window = initial + (0 - 0) + (0 - 0)
          BY <2>2, <3>3 DEF WindowInv, WindowsExact
        <4> QED
          BY <1>8, <3>4, <4>1
      <3>6. stream_window' = initial' /\ initial' \in Int
        <4>1. CASE Frame.n = NoWindow
          BY <1>8, <3>5, <4>1 DEF TakesSettings, WindowAfter
        <4>2. CASE Frame.n # NoWindow
          BY <1>8, <4>2 DEF TakesSettings, WindowAfter
        <4> QED
          BY <4>1, <4>2
      <3>7. initial' = initial' + (0 - 0) + (0 - 0)
        BY <3>4, <3>6
      <3>8. updates'[1] = 0 /\ sent'[1] = 0 /\ updates'[3] = 0 /\ sent'[3] = 0
        BY <1>3, <3>3
      <3> QED
        BY <3>6, <3>7, <3>8
    <2> QED
      BY <1>3, <2>1, <2>2 DEF WindowsExact, Tracked
  <1>10. SettingsRead'
    <2>1. ASSUME peer_settings <= 1
          PROVE  SettingsOnce'
      <3>1. \A i, j \in 1 .. Len(from_peer) :
                from_peer[i].type = "SETTINGS" /\ from_peer[j].type = "SETTINGS" => i = j
        BY <2>1 DEF WindowInv, SettingsRead, SettingsOnce
      <3>2. initial' = peer_initial'
        BY <1>3, <1>7, <2>1 DEF TakesSettings, Known
      <3>3. CASE Erased
        <4>1. /\ Len(from_peer') = Len(from_peer) - 1
              /\ \A i \in 1 .. Len(from_peer') : from_peer'[i] = from_peer[i + 1]
          BY <1>1, <3>3, TailFacts DEF Erased, TypeOK
        <4>2. ASSUME NEW i \in 1 .. Len(from_peer'), from_peer'[i].type = "SETTINGS"
              PROVE  FALSE
          <5>1. i + 1 \in 1 .. Len(from_peer) /\ i + 1 # 1 /\ from_peer[i + 1].type = "SETTINGS"
            BY <1>1, <4>1, <4>2
          <5> QED
            BY <1>1, <1>2, <3>1, <5>1
        <4> QED
          BY <3>2, <4>2 DEF SettingsOnce, Known
      <3>4. CASE UNCHANGED from_peer /\ op' = "closing"
        BY <1>3, <3>1, <3>2, <3>4 DEF SettingsOnce, Known
      <3> QED
        BY <1>4, <1>7, <2>1, <3>3, <3>4
    <2> QED
      BY <1>3, <1>5, <2>1 DEF SettingsRead
  <1> QED
    BY <1>3, <1>6, <1>9, <1>10, OpeningKeeps, OpenKeeps DEF WindowInv

LEMMA PeerSettingsWindow ==
    ASSUME TypeOK, WindowInv, NEW w \in Windows \cup {NoWindow}, PeerSettings(w)
    PROVE  WindowInv'
  <1> DEFINE f == PeerFrame("SETTINGS", 0, w, 0, ABody)
  <1>1. f \in PeerFrames /\ f.n = w
    BY Http2Assumption, ABodyType DEF PeerFrame, PeerFrames
  <1>2. /\ from_peer' = Append(from_peer, f)
        /\ peer_settings' = peer_settings + 1
        /\ peer_initial' = IF w = NoWindow THEN peer_initial ELSE w
        /\ UNCHANGED <<connection_window, stream_window, sent, updates, consumed, issued, ahead,
                       initial, settings_seen, opened, peer_open, op, cur, to_peer>>
    BY DEF PeerSettings, PeerSends, impl, windows, calls, history
  <1> HIDE DEF f
  <1>3. peer_settings \in Nat
    BY DEF TypeOK
  <1>4. OpeningQuiet
    BY <1>2 DEF WindowInv, Opening, OpeningQuiet
  <1>5. WindowsExact'
    <2>1. Tracked' => Tracked
      BY <1>2, <1>3 DEF Tracked
    <2> QED
      BY <1>2, <2>1 DEF WindowInv, WindowsExact
  <1>6. ASSUME peer_settings' <= 1
        PROVE  /\ peer_settings = 0 /\ ~settings_seen /\ Known
               /\ \A st \in StreamIds : issued[st] = 0
               /\ \A i \in 1 .. Len(from_peer) : from_peer[i].type # "SETTINGS"
    <2>1. peer_settings = 0
      BY <1>2, <1>3, <1>6
    <2> QED
      BY <2>1 DEF WindowInv, Opening, SettingsRead, SettingsOnce
  <1>7. WindowsOpen'
    <2>1. peer_settings' <= 1 =>
              \A st \in StreamIds : peer_initial' + issued'[st] - consumed'[st] <= MaxWindow
      <3>1. peer_initial' \in 0 .. MaxWindow
        BY <1>2, Http2Assumption DEF TypeOK
      <3>2. \A st \in StreamIds : consumed[st] \in Nat
        BY DEF TypeOK, Ids
      <3> QED
        BY <1>2, <1>6, <3>1, <3>2, Http2Assumption
    <2> QED
      BY <1>2, <2>1 DEF WindowInv, WindowsOpen
  <1>8. SettingsRead'
    <2>1. /\ Len(from_peer) \in Nat
          /\ Len(from_peer') = Len(from_peer) + 1
          /\ \A i \in 1 .. Len(from_peer) : from_peer'[i] = from_peer[i]
          /\ from_peer'[Len(from_peer) + 1] = f
      BY <1>1, <1>2, AppendFacts DEF TypeOK
    <2>2. ASSUME peer_settings' <= 1
          PROVE  SettingsOnce'
      <3>1. ASSUME NEW i \in 1 .. Len(from_peer'), from_peer'[i].type = "SETTINGS"
            PROVE  i = Len(from_peer) + 1 /\ from_peer'[i] = f
        <4>1. i \notin 1 .. Len(from_peer)
          BY <1>6, <2>1, <2>2, <3>1
        <4> QED
          BY <2>1, <4>1
      <3>2. peer_settings' # 0
        BY <1>2, <1>3
      <3>3. IF w = NoWindow THEN Known' ELSE w = peer_initial'
        BY <1>2, <1>6, <2>2 DEF Known
      <3> QED
        BY <1>1, <1>2, <1>6, <2>2, <3>1, <3>2, <3>3 DEF SettingsOnce
    <2>3. peer_settings' > 0
      BY <1>2, <1>3
    <2> QED
      BY <2>2, <2>3 DEF SettingsRead
  <1> QED
    BY <1>4, <1>5, <1>7, <1>8, OpeningKeeps DEF WindowInv

LEMMA PeerGrantsWindow ==
    ASSUME TypeOK, WindowInv, NEW id \in Ids, NEW n \in 1 .. MaxWindow, PeerGrants(id, n)
    PROVE  WindowInv'
  <1> DEFINE f == PeerFrame("WINDOW_UPDATE", id, n, issued[id], ABody)
  <1>1. /\ issued' = [issued EXCEPT ![id] = @ + n]
        /\ from_peer' = Append(from_peer, f)
        /\ id = 0 \/ id \in peer_open
        /\ UNCHANGED <<windows, sent, updates, consumed, initial, settings_seen, peer_settings,
                       peer_initial, peer_open, opened, op, cur, to_peer>>
    BY DEF PeerGrants, PeerSends, impl, calls, history
  <1>2. f \in PeerFrames /\ f.type # "SETTINGS"
    <2>1. n \in Nat /\ issued[id] \in Nat
      BY Http2Assumption DEF TypeOK
    <2> QED
      BY <2>1, ABodyType DEF PeerFrame, PeerFrames
  <1> HIDE DEF f
  <1>3. /\ issued'[id] = issued[id] + n
        /\ \A t \in Ids \ {id} : issued'[t] = issued[t]
    BY <1>1 DEF TypeOK
  <1>4. /\ ahead \subseteq ahead'
        /\ id \in ahead' \/ issued[id] + n <= consumed[id]
    BY DEF PeerGrants
  <1>5. (IF id = 0 THEN DefaultWindow ELSE peer_initial) + issued[id] + n - consumed[id] <= MaxWindow
    BY DEF PeerGrants
  <1>6. WindowsOpen'
    <2>1. DefaultWindow + issued'[0] - consumed'[0] <= MaxWindow
      <3>1. CASE id = 0
        <4>1. issued'[0] = issued[0] + n /\ n \in Int
              /\ issued[0] \in Int /\ consumed[0] \in Int /\ DefaultWindow \in Int
          BY <1>3, <3>1, Http2Assumption DEF TypeOK, Ids
        <4>2. DefaultWindow + issued[0] + n - consumed[0] <= MaxWindow
          BY <1>5, <3>1
        <4> QED
          BY <1>1, <4>1, <4>2
      <3>2. CASE id # 0
        <4>1. issued'[0] = issued[0]
          BY <1>3, <3>2 DEF Ids
        <4> QED
          BY <1>1, <4>1 DEF WindowInv, WindowsOpen
      <3> QED
        BY <3>1, <3>2
    <2>2. ASSUME NEW st \in StreamIds
          PROVE  /\ st \notin ahead' => issued'[st] <= consumed'[st]
                 /\ peer_settings' <= 1 =>
                        peer_initial' + issued'[st] - consumed'[st] <= MaxWindow
      <3>1. st \in Ids /\ st # 0
        BY DEF Ids, StreamIds
      <3>2. CASE st = id
        <4>1. issued'[st] = issued[st] + n /\ n \in Int
              /\ issued[st] \in Int /\ consumed[st] \in Int /\ peer_initial \in Int
          BY <1>3, <3>1, <3>2, Http2Assumption DEF TypeOK
        <4>2. peer_initial + issued[st] + n - consumed[st] <= MaxWindow
          BY <1>5, <3>1, <3>2
        <4> QED
          BY <1>1, <1>4, <3>2, <4>1, <4>2
      <3>3. CASE st # id
        <4>1. issued'[st] = issued[st] /\ (st \notin ahead' => st \notin ahead)
          BY <1>3, <1>4, <3>1, <3>3
        <4> QED
          BY <1>1, <4>1 DEF WindowInv, WindowsOpen
      <3> QED
        BY <3>2, <3>3
    <2> QED
      BY <2>1, <2>2 DEF WindowsOpen
  <1>7. WindowsExact'
    <2>1. Tracked' => Tracked
      BY <1>1, <1>4 DEF Tracked
    <2> QED
      BY <1>1, <2>1 DEF WindowInv, WindowsExact, windows
  <1>8. OpeningQuiet
    <2>1. ASSUME NEW st \in StreamIds
          PROVE  issued'[st] = issued[st] \/ st \in peer_open
      BY <1>1, <1>3 DEF Ids, StreamIds
    <2> QED
      BY <1>1, <2>1 DEF WindowInv, Opening, OpeningQuiet
  <1>9. SettingsQuiet
    BY <1>1, <1>2 DEF SettingsQuiet
  <1> QED
    BY <1>6, <1>7, <1>8, <1>9, OpeningKeeps, SettingsKeep DEF WindowInv

LEMMA PeerTakesWindow ==
    ASSUME TypeOK, WindowInv, PeerTakes
    PROVE  WindowInv'
  <1> DEFINE f == Head(to_peer)
  <1>1. /\ to_peer # <<>> /\ to_peer' = Tail(to_peer)
        /\ peer_open' = IF f.type = "HEADERS" THEN peer_open \cup {f.stream} ELSE peer_open
        /\ UNCHANGED <<windows, sent, updates, issued, ahead, initial, settings_seen,
                       peer_settings, peer_initial, opened, op, cur, from_peer>>
    BY DEF PeerTakes, impl, calls, history
  <1>2. /\ f = to_peer[1] /\ 1 \in 1 .. Len(to_peer)
        /\ \A i \in 1 .. Len(to_peer') : /\ i + 1 \in 1 .. Len(to_peer)
                                         /\ to_peer'[i] = to_peer[i + 1]
    BY <1>1, TailFacts DEF TypeOK
  <1> HIDE DEF f
  <1>3. Opening'
    <2>1. f.type = "HEADERS" => f.stream \in opened
      BY <1>2 DEF WindowInv, Opening
    <2>2. \A i \in 1 .. Len(to_peer') :
              to_peer'[i].type = "HEADERS" => to_peer'[i].stream \in opened
      BY <1>2 DEF WindowInv, Opening
    <2>3. peer_open' \subseteq opened /\ peer_open \subseteq peer_open'
      BY <1>1, <2>1 DEF WindowInv, Opening
    <2>4. /\ op \in {"new", "connect", "closing"} \/ ~settings_seen => opened = {}
          /\ op \in {"idle", "write", "read"} => settings_seen
          /\ op = "write" => cur \in opened
          /\ \A st \in StreamIds : /\ st \notin opened => sent[st] = 0
                                   /\ st \notin peer_open' => issued[st] = 0
      BY <2>3 DEF WindowInv, Opening
    <2> QED
      BY <1>1, <2>2, <2>3, <2>4 DEF Opening
  <1>4. WindowsExact'
    BY <1>1 DEF WindowInv, WindowsExact, Tracked, windows
  <1>5. SettingsQuiet
    BY <1>1 DEF SettingsQuiet
  <1>6. WindowsOpen'
    <2>1. ASSUME NEW t \in Ids
          PROVE  consumed[t] \in Nat /\ issued[t] \in Nat /\ consumed'[t] \in Nat
                 /\ consumed[t] <= consumed'[t]
      <3>1. consumed[t] \in Nat /\ issued[t] \in Nat
        BY DEF TypeOK
      <3>2. CASE f.type = "DATA"
        <4>1. PICK st \in StreamIds, n \in Nat :
                   /\ consumed'[0] = consumed[0] + n
                   /\ consumed'[st] = consumed[st] + n
                   /\ \A u \in StreamIds \ {st} : consumed'[u] = consumed[u]
          BY <3>2, PeerTakesData DEF f
        <4>2. consumed'[t] = consumed[t] \/ consumed'[t] = consumed[t] + n
          BY <4>1 DEF Ids
        <4> QED
          BY <3>1, <4>2
      <3>3. CASE f.type # "DATA"
        BY <3>1, <3>3 DEF PeerTakes, f
      <3> QED
        BY <3>2, <3>3
    <2>2. DefaultWindow \in Int /\ MaxWindow \in Int /\ peer_initial \in Int
      BY Http2Assumption DEF TypeOK
    <2>3. DefaultWindow + issued'[0] - consumed'[0] <= MaxWindow
      <3>1. 0 \in Ids /\ DefaultWindow + issued[0] - consumed[0] <= MaxWindow
        BY DEF Ids, WindowInv, WindowsOpen
      <3> QED
        BY <1>1, <2>1, <2>2, <3>1
    <2>4. ASSUME NEW st \in StreamIds
          PROVE  /\ st \notin ahead' => issued'[st] <= consumed'[st]
                 /\ peer_settings' <= 1 =>
                        peer_initial' + issued'[st] - consumed'[st] <= MaxWindow
      <3>1. /\ st \in Ids
            /\ st \notin ahead => issued[st] <= consumed[st]
            /\ peer_settings <= 1 => peer_initial + issued[st] - consumed[st] <= MaxWindow
        BY DEF Ids, WindowInv, WindowsOpen
      <3>2. consumed[st] \in Nat /\ issued[st] \in Nat /\ consumed'[st] \in Nat
            /\ consumed[st] <= consumed'[st]
        BY <2>1, <3>1
      <3> QED
        BY <1>1, <2>2, <3>1, <3>2
    <2> QED
      BY <2>3, <2>4 DEF WindowsOpen
  <1> QED
    BY <1>3, <1>4, <1>5, <1>6, SettingsKeep DEF WindowInv

LEMMA InitWindow == Init => WindowInv
  <1> SUFFICES ASSUME Init PROVE WindowInv
    OBVIOUS
  <1>1. \A id \in {0, 1, 3} : sent[id] = 0 /\ consumed[id] = 0 /\ updates[id] = 0 /\ issued[id] = 0
    BY DEF Init, Zero, Ids, StreamIds
  <1>2. Opening
    BY <1>1 DEF Init, Opening, StreamIds
  <1>3. SettingsRead
    BY DEF Init, SettingsRead, SettingsOnce, Known
  <1>4. WindowsOpen
    <2>1. peer_initial = DefaultWindow /\ DefaultWindow \in Int /\ DefaultWindow <= MaxWindow
      BY Http2Assumption DEF Init
    <2> QED
      BY <1>1, <2>1 DEF WindowsOpen, StreamIds
  <1>5. WindowsExact
    BY <1>1, Http2Assumption DEF Init, WindowsExact
  <1> QED
    BY <1>2, <1>3, <1>4, <1>5 DEF WindowInv

LEMMA NextWindow == TypeOK /\ IInv /\ WindowInv /\ [Next]_vars => WindowInv'
  <1> SUFFICES ASSUME TypeOK, IInv, WindowInv, [Next]_vars PROVE WindowInv'
    OBVIOUS
  <1>1. TypeOK' /\ IInv' /\ Opening
    BY NextType, NextIInv DEF WindowInv
  <1>2. CASE Call
    BY <1>1, <1>2, CallWindow, WindowQuietKeeps
  <1>3. CASE Continue
    BY <1>1, <1>3, ContinueWindow, WindowQuietKeeps, WriteDataWindow, TakesSettingsWindow,
       TakesUpdateWindow DEF Continue, TakesFrame
  <1>4. CASE PeerStep
    BY <1>1, <1>4, PeerWindow, WindowQuietKeeps, PeerSettingsWindow, PeerGrantsWindow,
       PeerTakesWindow DEF PeerStep, GrantSteps
  <1>5. CASE UNCHANGED vars
    <2>1. WindowQuiet
      BY <1>1, <1>5 DEF WindowQuiet, Opening, OpeningQuiet, SettingsQuiet, Accounts, vars, impl,
                        windows, calls, history, peer
    <2> QED
      BY <2>1, WindowQuietKeeps
  <1> QED
    BY <1>2, <1>3, <1>4, <1>5 DEF Next

LEMMA WindowHolds == Spec => [](TypeOK /\ IInv /\ WindowInv)
  <1>1. Init => TypeOK /\ IInv /\ WindowInv
    BY InitType, InitIInv, InitWindow
  <1>2. TypeOK /\ IInv /\ WindowInv /\ [Next]_vars => TypeOK' /\ IInv' /\ WindowInv'
    BY NextType, NextIInv, NextWindow
  <1> QED
    BY <1>1, <1>2, PTL DEF Spec

\* The connection's counter is exact against every peer; the streams' is the sum of
\* what is left to them as long as the SETTINGS came once and one stream at most was
\* granted more than the peer consumed, and no int32_t sum of read_frame wraps then.
THEOREM WindowsAreExact == Spec => []WindowsExact
  <1>1. WindowInv => WindowsExact
    BY DEF WindowInv
  <1> QED
    BY <1>1, WindowHolds, PTL

\* Http2::write overruns no stream's window, although it looks only at the shared
\* one, unless the SETTINGS came again or the peer granted another stream more than
\* it consumed.
THEOREM StreamWithin == Spec => StreamWithinGrant
  <1> DEFINE Step == \A st \in StreamIds :
          sent'[st] # sent[st] /\ peer_settings <= 1 /\ ahead \cap StreamIds \subseteq {st} =>
              sent'[st] <= initial + updates[st]
  <1>1. TypeOK /\ IInv /\ WindowInv /\ [Next]_vars => [Step]_vars
    <2> SUFFICES ASSUME TypeOK, IInv, WindowInv, [Next]_vars, ~UNCHANGED vars,
                        NEW t \in StreamIds, sent'[t] # sent[t],
                        peer_settings <= 1, ahead \cap StreamIds \subseteq {t}
                 PROVE  sent'[t] <= initial + updates[t]
      OBVIOUS
    <2>1. WriteData
      <3>1. CASE Call
        BY <3>1, CallQuiet DEF Quiet
      <3>2. CASE Continue /\ ~WriteData
        BY <3>2, ContinueQuiet, TakesUpdateShape DEF Continue, TakesFrame, Quiet
      <3>3. CASE PeerStep
        BY <3>3, PeerStepQuiet DEF PeerStep, GrantSteps, PeerGrants, PeerTakes, PeerSends,
                                   history, Quiet
      <3> QED
        BY <3>1, <3>2, <3>3 DEF Next
    <2>2. PICK st \in StreamIds, n \in Nat :
               /\ n <= stream_window
               /\ sent'[st] = sent[st] + n
               /\ \A u \in StreamIds \ {st} : sent'[u] = sent[u]
      BY <2>1, WriteDataShape
    <2>3. t = st
      BY <2>2
    <2>4. \A id \in Ids : updates[id] \in Nat /\ sent[id] \in Nat /\ issued[id] \in Nat
                          /\ consumed[id] \in Nat
      BY DEF TypeOK
    <2>5. PICK o \in StreamIds : o # t /\ {t, o} = {1, 3}
      BY DEF StreamIds
    <2>6. t \in Ids /\ o \in Ids /\ initial \in Nat
      BY Http2Assumption DEF Ids, TypeOK
    <2>7. updates[o] <= sent[o]
      <3>1. o \notin ahead
        BY <2>5
      <3>2. updates[o] <= issued[o] /\ issued[o] <= consumed[o] /\ consumed[o] <= sent[o]
        BY <2>6, <3>1 DEF IInv, Ledger, WindowInv, WindowsOpen
      <3> QED
        BY <2>4, <2>6, <3>2
    <2>8. stream_window = initial + (updates[t] - sent[t]) + (updates[o] - sent[o])
      <3>1. Tracked
        BY <2>5 DEF Tracked
      <3>2. stream_window = initial + (updates[1] - sent[1]) + (updates[3] - sent[3])
        BY <3>1 DEF WindowInv, WindowsExact
      <3>3. CASE t = 1 /\ o = 3
        BY <3>2, <3>3
      <3>4. CASE t = 3 /\ o = 1
        <4>1. \A a, b, c \in Int : a + b + c = a + c + b
          OBVIOUS
        <4>2. updates[1] - sent[1] \in Int /\ updates[3] - sent[3] \in Int
          BY <2>4, <2>6, <3>4
        <4> QED
          BY <2>6, <3>2, <3>4, <4>1, <4>2
      <3> QED
        BY <2>5, <3>3, <3>4
    <2> QED
      BY <2>2, <2>3, <2>4, <2>6, <2>7, <2>8
  <1> QED
    BY <1>1, WindowHolds, PTL DEF Spec, StreamWithinGrant
-----------------------------------------------------------------------------
(* The messages of the peer.                                               *)

\* What read handed out and will hand out.
Heard == got \o received

\* A frame that carries a message.
Carries(f) == f.type = "DATA" /\ f.n > 0

\* The messages that were not heard yet are under way, each once and in their order.
MessagesUnderWay ==
    /\ Len(Heard) <= peer_sent
    /\ \A i \in 1 .. Len(from_peer) : Carries(from_peer[i]) =>
           /\ Len(Heard) < from_peer[i].at /\ from_peer[i].at <= peer_sent
           /\ \A j \in 1 .. Len(from_peer) : i < j /\ Carries(from_peer[j]) =>
                  from_peer[i].at < from_peer[j].at
    /\ \A u \in 1 .. peer_sent : Len(Heard) < u =>
           \E i \in 1 .. Len(from_peer) : Carries(from_peer[i]) /\ from_peer[i].at = u

HeardInTurn == \A i \in 1 .. Len(Heard) : Heard[i].at = i

MessageInv == MessagesUnderWay /\ HeardInTurn
-----------------------------------------------------------------------------
\* Both are sequences of messages.
LEMMA HeardFacts ==
    ASSUME TypeOK
    PROVE  /\ got \in Seq(Messages) /\ received \in Seq(Messages)
           /\ Heard \in Seq(Messages) /\ Len(Heard) \in Nat
           /\ from_peer \in Seq(PeerFrames) /\ Len(from_peer) \in Nat
           /\ \A i \in 1 .. Len(from_peer) :
                  from_peer[i] \in PeerFrames /\ from_peer[i].at \in Nat
           /\ peer_sent \in Nat
  <1>1. got \in Seq(Messages) /\ received \in Seq(Messages) /\ from_peer \in Seq(PeerFrames)
    BY DEF TypeOK
  <1>2. Heard \in Seq(Messages)
    BY <1>1, ConcatProperties DEF Heard
  <1>3. Len(Heard) \in Nat /\ Len(from_peer) \in Nat
    BY <1>1, <1>2, LenProperties
  <1>4. \A i \in 1 .. Len(from_peer) : from_peer[i] \in PeerFrames
    BY <1>1, ElementOfSeq
  <1>5. \A f \in PeerFrames : f.at \in Nat
    BY DEF PeerFrames
  <1> QED
    BY <1>1, <1>2, <1>3, <1>4, <1>5, Http2Assumption DEF TypeOK

\* What read takes from `received` stays where it is among what was heard.
LEMMA HandedOut ==
    ASSUME TypeOK, received # <<>>, got' = Append(got, Head(received)), received' = Tail(received)
    PROVE  Heard' = Heard
  <1>1. PICK h \in Messages, t \in Seq(Messages) : h = Head(received) /\ t = Tail(received)
    BY TailFacts, HeardFacts
  <1>2. PICK g \in Seq(Messages), q \in Seq(Messages) : g = got /\ q = received
    BY HeardFacts
  <1>3. q = <<h>> \o t
    <2>1. Len(q) \in Nat /\ 1 \in 1 .. Len(q) /\ Len(q) \in 1 .. Len(q) /\ q[1] = h
      BY <1>1, <1>2, TailFacts
    <2>2. SubSeq(q, 1, Len(q)) = <<q[1]>> \o SubSeq(q, 1 + 1, Len(q))
      BY <2>1, SubSeqRecursiveFirst
    <2>3. SubSeq(q, 1, Len(q)) = q
      BY SubSeqFull
    <2>4. t = SubSeq(q, 2, Len(q))
      BY <1>1, <1>2, TailIsSubSeq
    <2> QED
      BY <2>1, <2>2, <2>3, <2>4
  <1>4. Append(g, h) = g \o <<h>> /\ <<h>> \in Seq(Messages)
    BY AppendIsConcat
  <1>5. (g \o <<h>>) \o t = g \o (<<h>> \o t)
    BY <1>4, ConcatAssociative
  <1>6. Heard' = Append(g, h) \o t /\ Heard = g \o q
    BY <1>1, <1>2 DEF Heard
  <1> QED
    BY <1>3, <1>4, <1>5, <1>6

\* A message that is received is the last that was heard.
LEMMA HeardLast ==
    ASSUME TypeOK, NEW m \in Messages, got' = got, received' = Append(received, m)
    PROVE  /\ Len(Heard') = Len(Heard) + 1
           /\ Heard'[Len(Heard) + 1] = m
           /\ \A i \in 1 .. Len(Heard) : Heard'[i] = Heard[i]
  <1>1. PICK g \in Seq(Messages), q \in Seq(Messages) : g = got /\ q = received
    BY HeardFacts
  <1>2. Append(q, m) = q \o <<m>> /\ <<m>> \in Seq(Messages)
    BY AppendIsConcat
  <1>3. (g \o q) \o <<m>> = g \o (q \o <<m>>) /\ g \o q \in Seq(Messages)
    BY <1>2, ConcatAssociative, ConcatProperties
  <1>4. Append(g \o q, m) = (g \o q) \o <<m>>
    BY <1>3, AppendIsConcat
  <1>5. Heard' = g \o Append(q, m) /\ Heard = g \o q
    BY <1>1 DEF Heard
  <1>6. Heard' = Append(Heard, m)
    BY <1>2, <1>3, <1>4, <1>5
  <1>7. Heard \in Seq(Messages)
    BY HeardFacts
  <1> QED
    BY <1>6, <1>7, AppendFacts

\* A frame that carries no message goes.
LEMMA EmptyGoes ==
    ASSUME TypeOK, MessageInv, from_peer # <<>>, ~Carries(Frame), from_peer' = Tail(from_peer),
           Heard' = Heard, peer_sent' = peer_sent
    PROVE  MessageInv'
  <1>1. PICK n \in Nat : n = Len(from_peer)
    BY HeardFacts
  <1>2. /\ n >= 1 /\ Len(from_peer') = n - 1 /\ Frame = from_peer[1]
        /\ \A i \in 1 .. (n - 1) : from_peer'[i] = from_peer[i + 1]
    BY <1>1, HeardFacts, TailFacts DEF Frame
  <1>3. ASSUME NEW i \in 1 .. (n - 1), NEW j \in 1 .. (n - 1)
        PROVE  i + 1 \in 1 .. n /\ j + 1 \in 1 .. n /\ (i < j => i + 1 < j + 1)
    OBVIOUS
  <1>4. ASSUME NEW u \in 1 .. peer_sent, Len(Heard) < u
        PROVE  \E i \in 1 .. (n - 1) : Carries(from_peer'[i]) /\ from_peer'[i].at = u
    <2>1. PICK k \in 1 .. n : Carries(from_peer[k]) /\ from_peer[k].at = u
      BY <1>1, <1>4 DEF MessageInv, MessagesUnderWay
    <2>2. k # 1
      BY <1>2, <2>1
    <2>3. PICK i \in 1 .. (n - 1) : k = i + 1
      <3>1. k - 1 \in 1 .. (n - 1) /\ k = (k - 1) + 1
        BY <2>2
      <3> QED
        BY <3>1
    <2> QED
      BY <1>2, <2>1, <2>3
  <1>5. MessagesUnderWay'
    BY <1>1, <1>2, <1>3, <1>4 DEF MessageInv, MessagesUnderWay
  <1> QED
    BY <1>5 DEF MessageInv, HeardInTurn

\* The message at the head is the next one.
LEMMA NextHeard ==
    ASSUME TypeOK, MessageInv, from_peer # <<>>, Carries(Frame), from_peer' = Tail(from_peer),
           got' = got, peer_sent' = peer_sent,
           received' = Append(received, [stream |-> Frame.stream, at |-> Frame.at,
                                         body |-> Frame.body])
    PROVE  MessageInv'
  <1> DEFINE m == [stream |-> Frame.stream, at |-> Frame.at, body |-> Frame.body]
  <1>1. PICK n \in Nat : n = Len(from_peer)
    BY HeardFacts
  <1>2. /\ n >= 1 /\ Len(from_peer') = n - 1 /\ Frame = from_peer[1] /\ 1 \in 1 .. n
        /\ \A i \in 1 .. (n - 1) : from_peer'[i] = from_peer[i + 1]
    BY <1>1, HeardFacts, TailFacts DEF Frame
  <1>3. PICK h \in Nat, s \in Nat, a \in Nat :
            h = Len(Heard) /\ s = peer_sent /\ a = Frame.at
    BY <1>1, <1>2, HeardFacts
  <1>4. m \in Messages
    <2>1. Frame \in PeerFrames
      BY FrameType
    <2> QED
      BY <2>1 DEF PeerFrames, Messages, Ids
  <1>5. /\ Len(Heard') = h + 1 /\ Heard'[h + 1] = m
        /\ \A i \in 1 .. h : Heard'[i] = Heard[i]
    BY <1>3, <1>4, HeardLast
  <1>6. h < a /\ a <= s
    BY <1>1, <1>2, <1>3 DEF MessageInv, MessagesUnderWay
  <1>7. ASSUME NEW k \in 1 .. n, k # 1, Carries(from_peer[k])
        PROVE  a < from_peer[k].at
    <2>1. 1 < k
      BY <1>7
    <2> QED
      BY <1>1, <1>2, <1>3, <1>7, <2>1 DEF MessageInv, MessagesUnderWay
  <1>8. a = h + 1
    <2>1. h + 1 \in 1 .. s /\ h < h + 1
      BY <1>6
    <2>2. PICK k \in 1 .. n : Carries(from_peer[k]) /\ from_peer[k].at = h + 1
      BY <1>1, <1>3, <2>1 DEF MessageInv, MessagesUnderWay
    <2>3. CASE k = 1
      BY <1>2, <1>3, <2>2, <2>3
    <2>4. CASE k # 1
      BY <1>6, <1>7, <2>2, <2>4
    <2> QED
      BY <2>3, <2>4
  <1>9. ASSUME NEW i \in 1 .. (n - 1), NEW j \in 1 .. (n - 1)
        PROVE  /\ i + 1 \in 1 .. n /\ i + 1 # 1 /\ j + 1 \in 1 .. n
               /\ i < j => i + 1 < j + 1
    OBVIOUS
  <1>10. ASSUME NEW u \in 1 .. s, h + 1 < u
         PROVE  \E i \in 1 .. (n - 1) : Carries(from_peer'[i]) /\ from_peer'[i].at = u
    <2>0. h < u
      BY <1>10
    <2>1. PICK k \in 1 .. n : Carries(from_peer[k]) /\ from_peer[k].at = u
      BY <1>1, <1>3, <2>0 DEF MessageInv, MessagesUnderWay
    <2>2. k # 1
      <3> SUFFICES ASSUME k = 1 PROVE FALSE
        OBVIOUS
      <3>1. u = h + 1
        BY <1>2, <1>3, <1>8, <2>1
      <3> QED
        BY <1>10, <3>1
    <2>3. PICK i \in 1 .. (n - 1) : k = i + 1
      <3>1. k - 1 \in 1 .. (n - 1) /\ k = (k - 1) + 1
        BY <2>2
      <3> QED
        BY <3>1
    <2> QED
      BY <1>2, <2>1, <2>3
  <1>11. ASSUME NEW i \in 1 .. (n - 1), Carries(from_peer'[i])
         PROVE  /\ h + 1 < from_peer'[i].at /\ from_peer'[i].at <= s
                /\ \A j \in 1 .. (n - 1) : i < j /\ Carries(from_peer'[j]) =>
                       from_peer'[i].at < from_peer'[j].at
    BY <1>1, <1>2, <1>3, <1>7, <1>8, <1>9, <1>11 DEF MessageInv, MessagesUnderWay
  <1>12. MessagesUnderWay'
    <2>1. h + 1 <= s
      BY <1>6, <1>8
    <2> QED
      BY <1>2, <1>3, <1>5, <1>10, <1>11, <2>1 DEF MessagesUnderWay
  <1>13. HeardInTurn'
    <2>1. ASSUME NEW i \in 1 .. (h + 1)
          PROVE  Heard'[i].at = i
      <3>1. CASE i \in 1 .. h
        BY <1>3, <1>5, <3>1 DEF MessageInv, HeardInTurn
      <3>2. CASE i = h + 1
        BY <1>3, <1>5, <1>8, <3>2
      <3>3. i \in 1 .. h \/ i = h + 1
        BY ONLY h \in Nat, i \in 1 .. (h + 1)
      <3> QED
        BY <3>1, <3>2, <3>3
    <2> QED
      BY <1>5, <2>1 DEF HeardInTurn
  <1> QED
    BY <1>12, <1>13 DEF MessageInv

\* The peer numbers the messages one after the other.
LEMMA PeerNumbers ==
    ASSUME TypeOK, MessageInv, NEW f \in PeerFrames, from_peer' = Append(from_peer, f),
           Heard' = Heard,
           \/ Carries(f) /\ f.at = peer_sent + 1 /\ peer_sent' = peer_sent + 1
           \/ ~Carries(f) /\ peer_sent' = peer_sent
    PROVE  MessageInv'
  <1>1. PICK n \in Nat : n = Len(from_peer)
    BY HeardFacts
  <1>2. /\ Len(from_peer') = n + 1 /\ from_peer'[n + 1] = f
        /\ \A i \in 1 .. n : from_peer'[i] = from_peer[i]
    BY <1>1, HeardFacts, AppendFacts
  <1>3. PICK h \in Nat, s \in Nat : h = Len(Heard) /\ s = peer_sent
    BY HeardFacts
  <1>4. \A i \in 1 .. (n + 1) : i \in 1 .. n \/ i = n + 1
    OBVIOUS
  <1>5. \A i \in 1 .. n : i \in 1 .. (n + 1) /\ i < n + 1
    OBVIOUS
  <1>6. \A i \in 1 .. n : from_peer[i].at \in Nat
    BY <1>1, HeardFacts
  <1>7. h <= s /\ Heard' = Heard
    BY <1>3 DEF MessageInv, MessagesUnderWay
  <1>8. ASSUME NEW i \in 1 .. n, Carries(from_peer[i])
        PROVE  /\ h < from_peer[i].at /\ from_peer[i].at <= s
               /\ \A j \in 1 .. n : i < j /\ Carries(from_peer[j]) =>
                      from_peer[i].at < from_peer[j].at
    BY <1>1, <1>3, <1>8 DEF MessageInv, MessagesUnderWay
  <1>9. ASSUME NEW u \in 1 .. s, h < u
        PROVE  \E i \in 1 .. (n + 1) : Carries(from_peer'[i]) /\ from_peer'[i].at = u
    <2>1. PICK k \in 1 .. n : Carries(from_peer[k]) /\ from_peer[k].at = u
      BY <1>1, <1>3, <1>9 DEF MessageInv, MessagesUnderWay
    <2> QED
      BY <1>2, <1>5, <2>1
  <1>10. CASE Carries(f) /\ f.at = s + 1 /\ peer_sent' = s + 1
    <2>1. ASSUME NEW i \in 1 .. (n + 1), Carries(from_peer'[i])
          PROVE  /\ h < from_peer'[i].at /\ from_peer'[i].at <= s + 1
                 /\ \A j \in 1 .. (n + 1) : i < j /\ Carries(from_peer'[j]) =>
                        from_peer'[i].at < from_peer'[j].at
      <3>1. CASE i \in 1 .. n
        <4>1. from_peer'[i] = from_peer[i]
          BY <1>2, <3>1
        <4>2. PICK x \in Nat : x = from_peer[i].at
          BY <1>6, <3>1
        <4>3. h < x /\ x <= s /\ x < s + 1
          BY <1>8, <2>1, <3>1, <4>1, <4>2
        <4>4. ASSUME NEW j \in 1 .. (n + 1), i < j, Carries(from_peer'[j])
              PROVE  from_peer'[i].at < from_peer'[j].at
          <5>1. CASE j \in 1 .. n
            BY <1>2, <1>8, <2>1, <3>1, <4>1, <4>4, <5>1
          <5>2. CASE j = n + 1
            BY <1>2, <1>10, <4>1, <4>2, <4>3, <5>2
          <5> QED
            BY <1>4, <5>1, <5>2
        <4>5. h < from_peer'[i].at /\ from_peer'[i].at <= s + 1
          <5>1. from_peer'[i].at = x /\ x <= s + 1
            BY <4>1, <4>2, <4>3
          <5> QED
            BY <4>3, <5>1
        <4> QED
          BY <4>4, <4>5
      <3>2. CASE i = n + 1
        <4>1. from_peer'[i].at = s + 1
          BY <1>2, <1>10, <3>2
        <4>2. \A j \in 1 .. (n + 1) : ~(i < j)
          BY <3>2
        <4>3. h < s + 1 /\ s + 1 <= s + 1
          BY <1>7
        <4> QED
          BY <4>1, <4>2, <4>3
      <3> QED
        BY <1>4, <3>1, <3>2
    <2>2. ASSUME NEW u \in 1 .. (s + 1), h < u
          PROVE  \E i \in 1 .. (n + 1) : Carries(from_peer'[i]) /\ from_peer'[i].at = u
      <3>1. CASE u \in 1 .. s
        BY <1>9, <2>2, <3>1
      <3>2. CASE u = s + 1
        <4>1. n + 1 \in 1 .. (n + 1)
          OBVIOUS
        <4> QED
          BY <1>2, <1>10, <3>2, <4>1
      <3>3. u \in 1 .. s \/ u = s + 1
        BY ONLY s \in Nat, u \in 1 .. (s + 1)
      <3> QED
        BY <3>1, <3>2, <3>3
    <2>3. h <= s + 1
      BY <1>7
    <2>4. MessagesUnderWay'
      BY <1>2, <1>3, <1>7, <1>10, <2>1, <2>2, <2>3 DEF MessagesUnderWay
    <2> QED
      BY <1>7, <2>4 DEF MessageInv, HeardInTurn
  <1>11. CASE ~Carries(f) /\ peer_sent' = s
    <2>1. ASSUME NEW i \in 1 .. (n + 1), Carries(from_peer'[i])
          PROVE  i \in 1 .. n /\ from_peer'[i] = from_peer[i]
      BY <1>2, <1>4, <1>11, <2>1
    <2>2. MessagesUnderWay'
      BY <1>2, <1>3, <1>7, <1>8, <1>9, <1>11, <2>1 DEF MessagesUnderWay
    <2> QED
      BY <1>7, <2>2 DEF MessageInv, HeardInTurn
  <1> QED
    BY <1>3, <1>10, <1>11

\* Every step is one of these.
LEMMA NextMessages ==
    ASSUME TypeOK, MessageInv, [Next]_vars
    PROVE  MessageInv'
  <1>1. CASE UNCHANGED <<from_peer, got, received, peer_sent>>
    <2>1. Heard' = Heard
      BY <1>1 DEF Heard
    <2> QED
      BY <1>1, <2>1 DEF MessageInv, MessagesUnderWay, HeardInTurn
  <1>2. CASE ReadReturns
    <2>1. Heard' = Heard
      BY <1>2, HandedOut DEF ReadReturns, OldestFirst
    <2>2. UNCHANGED <<from_peer, peer_sent>>
      BY <1>2 DEF ReadReturns, peer
    <2> QED
      BY <2>1, <2>2 DEF MessageInv, MessagesUnderWay, HeardInTurn
  <1>3. CASE TakesData
    <2>1. /\ from_peer # <<>> /\ Frame.type = "DATA" /\ from_peer' = Tail(from_peer)
          /\ UNCHANGED <<got, peer_sent>>
      BY <1>3 DEF TakesData, Takes, Erased, history, peer
    <2>2. CASE Frame.n > 0
      BY <1>3, <2>1, <2>2, NextHeard DEF TakesData, Carries
    <2>3. CASE ~(Frame.n > 0)
      <3>1. Heard' = Heard
        BY <1>3, <2>1, <2>3 DEF TakesData, Heard
      <3> QED
        BY <2>1, <2>3, <3>1, EmptyGoes DEF Carries
    <2> QED
      BY <2>2, <2>3
  <1>4. CASE TakesSettings \/ TakesUpdate \/ TakesPing \/ TakesClose
    <2>1. /\ from_peer # <<>> /\ Frame.type # "DATA" /\ UNCHANGED <<got, received, peer_sent>>
          /\ from_peer' = Tail(from_peer) \/ from_peer' = from_peer
      BY <1>4 DEF TakesSettings, TakesUpdate, TakesPing, TakesClose, Takes, Answered, Erased,
         history, peer, impl
    <2>2. Heard' = Heard
      BY <2>1 DEF Heard
    <2> QED
      BY <1>1, <2>1, <2>2, EmptyGoes DEF Carries
  <1>5. ASSUME NEW f \in PeerFrames, PeerSends(f),
               \/ Carries(f) /\ f.at = peer_sent + 1 /\ peer_sent' = peer_sent + 1
               \/ ~Carries(f) /\ peer_sent' = peer_sent
        PROVE  MessageInv'
    <2>1. from_peer' = Append(from_peer, f) /\ UNCHANGED <<got, received>>
      BY <1>5 DEF PeerSends, impl, history
    <2>2. Heard' = Heard
      BY <2>1 DEF Heard
    <2> QED
      BY <1>5, <2>1, <2>2, PeerNumbers
  <1>6. ASSUME NEW id \in StreamIds, NEW body \in Bodies, PeerData(id, body)
        PROVE  MessageInv'
    <2>1. peer_sent + 1 \in Nat
      BY HeardFacts
    <2>2. /\ PeerFrame("DATA", id, 1, peer_sent + 1, body) \in PeerFrames
          /\ PeerFrame("DATA", id, 0, 0, body) \in PeerFrames
      BY <2>1 DEF PeerFrame, PeerFrames, Ids
    <2> QED
      BY <1>5, <1>6, <2>2 DEF PeerData, PeerFrame, Carries
  <1>7. CASE PeerStep
    <2>1. CASE \E w \in Windows \cup {NoWindow} : PeerSettings(w)
      <3>1. PICK w \in Windows \cup {NoWindow} : PeerSettings(w)
        BY <2>1
      <3>2. PeerFrame("SETTINGS", 0, w, 0, ABody) \in PeerFrames
        BY ABodyType, Http2Assumption DEF PeerFrame, PeerFrames
      <3> QED
        BY <1>5, <3>1, <3>2 DEF PeerSettings, PeerFrame, Carries
    <2>2. CASE \E id \in Ids : GrantSteps(id)
      <3>1. PICK id \in Ids, n \in 1 .. MaxWindow : PeerGrants(id, n)
        BY <2>2 DEF GrantSteps
      <3>2. PeerFrame("WINDOW_UPDATE", id, n, issued[id], ABody) \in PeerFrames
        BY ABodyType, Http2Assumption DEF PeerFrame, PeerFrames, TypeOK
      <3> QED
        BY <1>5, <3>1, <3>2 DEF PeerGrants, PeerFrame, Carries
    <2>3. CASE PeerPing
      <3>1. PeerFrame("PING", 0, 8, 0, ABody) \in PeerFrames
        BY ABodyType DEF PeerFrame, PeerFrames, Ids
      <3> QED
        BY <1>5, <2>3, <3>1 DEF PeerPing, PeerFrame, Carries
    <2>4. CASE PeerCloses
      <3>1. /\ PeerFrame("GOAWAY", 0, 8, 0, ABody) \in PeerFrames
            /\ \A st \in StreamIds : PeerFrame("RST_STREAM", st, 4, 0, ABody) \in PeerFrames
        BY ABodyType DEF PeerFrame, PeerFrames, Ids
      <3>2. peer_open \subseteq StreamIds
        BY DEF TypeOK
      <3> QED
        BY <1>5, <2>4, <3>1, <3>2 DEF PeerCloses, PeerFrame, Carries
    <2>5. CASE PeerTakes \/ PeerEnds
      BY <1>1, <2>5 DEF PeerTakes, PeerEnds, impl, history, peer
    <2> QED
      BY <1>6, <1>7, <2>1, <2>2, <2>3, <2>4, <2>5 DEF PeerStep
  <1>8. CASE Call
    BY <1>1, <1>8 DEF Call, Connect, Read, Close, Open, Write, impl, history, peer
  <1>9. CASE Connected \/ WriteData \/ WriteFails \/ Written \/ GivesUp \/ FrameFails
    BY <1>1, <1>9 DEF Connected, WriteData, WriteFails, Written, GivesUp, FrameFails, ReadFails,
       impl, history, peer
  <1>10. CASE UNCHANGED vars
    BY <1>1, <1>10 DEF vars, impl, history, peer
  <1> QED
    BY <1>2, <1>3, <1>4, <1>7, <1>8, <1>9, <1>10 DEF Next, Continue, TakesFrame

\* A new connection has heard nothing, and nothing is under way.
LEMMA InitMessages == Init => MessageInv
  <1> SUFFICES ASSUME Init PROVE MessageInv
    OBVIOUS
  <1>1. got = <<>> /\ received = <<>> /\ from_peer = <<>> /\ peer_sent = 0
    BY DEF Init
  <1>2. TypeOK
    BY InitType
  <1>3. Len(from_peer) = 0 /\ Len(got) = 0 /\ Len(received) = 0
    BY <1>1
  <1>4. Len(Heard) = 0
    BY <1>2, <1>3, HeardFacts, ConcatProperties DEF Heard
  <1>5. 1 .. 0 = {}
    OBVIOUS
  <1> QED
    BY <1>1, <1>3, <1>4, <1>5 DEF MessageInv, MessagesUnderWay, HeardInTurn

\* Http2::read gives the caller the peer's messages in the order they were sent, none
\* lost and none twice, also those that came while connect or a write waited, whatever
\* is granted, refused, pinged or failed (Http2::read, Impl::read_frame).
THEOREM MessagesArrive == Spec => []MessagesInOrder
  <1>1. Init => MessageInv
    BY InitMessages
  <1>2. TypeOK /\ MessageInv /\ [Next]_vars => MessageInv'
    BY NextMessages
  <1>3. MessageInv => MessagesInOrder
    BY DEF MessageInv, HeardInTurn, Heard, MessagesInOrder
  <1> QED
    BY <1>1, <1>2, <1>3, TypeCorrect, PTL DEF Spec
=============================================================================
