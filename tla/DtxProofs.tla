----------------------------- MODULE DtxProofs -----------------------------
(***************************************************************************)
(* Theorems about Dtx for every value of its constants: any services and   *)
(* number of calls, messages of any size, any faults and an identifier of  *)
(* any width.  The device may answer in any order and any number of calls  *)
(* late; what the theorems rest on is that a message it sends of its own   *)
(* carries the index 0.                                                    *)
(***************************************************************************)
EXTENDS Dtx, SequenceTheorems, TLAPS

-----------------------------------------------------------------------------
(* The inductive invariant.                                                *)

\* The requests somebody may still answer, and the messages the host may still take.
Asked    == cur \cup dev_asked
            \cup {to_dev[i] : i \in {j \in 1 .. Len(to_dev) : to_dev[j].kind # "ack"}}
Underway == reading \cup {from_dev[i].msg : i \in 1 .. Len(from_dev)}

\* The channels anybody counts as open or may yet open.
Named == channels \cup dev_open
         \cup {[code |-> r.code, service |-> r.service] : r \in {q \in Asked : q.kind = "channel"}}

\* The calls that fit the identifier are told apart by it.
Numbered(e) == e.call \in 1 .. calls /\ (e.call < IdModulus => e.id = e.call)

\* Identifiers are given out one after the other, to calls that succeed or fail.
CallsNumbered ==
    /\ calls + 1 < IdModulus => next_identifier = calls + 1
    /\ \A req \in Asked : Numbered(req)

\* An answer carries the number of the call it answers, and, unless it is an
\* error, comes after the device did what the call asked.
AnswersTrue ==
    \A m \in Underway : m.index > 0 => Numbered(m) /\ (m.body # "error" => m.call \in dev_done)

\* A code is given out once, and is in nobody's hands before that.
CodesOnce ==
    \A c, d \in Named : c.code < next_channel_code /\ (c.code = d.code => c.service = d.service)

IInv == CallsNumbered /\ AnswersTrue /\ CodesOnce /\ ReplyAnswersCall /\ SuccessIsDone
-----------------------------------------------------------------------------
(* Lemmas about sequences and about the operators of the model.            *)

LEMMA AppendFacts ==
    ASSUME NEW S, NEW q \in Seq(S), NEW e \in S
    PROVE  /\ Append(q, e) \in Seq(S)
           /\ Len(Append(q, e)) = Len(q) + 1
           /\ \A i \in 1 .. Len(q) : Append(q, e)[i] = q[i]
           /\ Append(q, e)[Len(q) + 1] = e
  BY AppendProperties

LEMMA TailFacts ==
    ASSUME NEW S, NEW q \in Seq(S), q # <<>>
    PROVE  /\ Head(q) = q[1] /\ Head(q) \in S
           /\ Tail(q) \in Seq(S)
           /\ Len(q) \in Nat \ {0}
           /\ Len(Tail(q)) = Len(q) - 1
           /\ \A i \in 1 .. Len(Tail(q)) : Tail(q)[i] = q[i + 1]
  BY HeadTailProperties

\* Taking units off the front leaves units that were there.
LEMMA DropFacts ==
    ASSUME NEW S, NEW q \in Seq(S), NEW n \in Nat, n <= Len(q)
    PROVE  /\ SubSeq(q, n + 1, Len(q)) \in Seq(S)
           /\ \A i \in 1 .. Len(SubSeq(q, n + 1, Len(q))) :
                 \E j \in 1 .. Len(q) : SubSeq(q, n + 1, Len(q))[i] = q[j]
  <1> DEFINE r == SubSeq(q, n + 1, Len(q))
  <1>1. Len(q) \in Nat /\ \A i \in n + 1 .. Len(q) : q[i] \in S
    OBVIOUS
  <1>2. /\ r \in Seq(S)
        /\ Len(r) = IF n + 1 <= Len(q) THEN Len(q) - (n + 1) + 1 ELSE 0
        /\ \A i \in 1 .. Len(q) - (n + 1) + 1 : r[i] = q[(n + 1) + i - 1]
    BY <1>1, SubSeqProperties
  <1>3. ASSUME NEW i \in 1 .. Len(r)
        PROVE  \E j \in 1 .. Len(q) : r[i] = q[j]
    <2>1. i \in 1 .. Len(q) - n /\ n + i \in 1 .. Len(q)
      BY <1>1, <1>2
    <2>2. r[i] = q[n + i]
      BY <1>1, <1>2, <2>1
    <2> QED
      BY <2>1, <2>2
  <1> QED
    BY <1>2, <1>3

\* The identifier after the last one is 0.
LEMMA IdentifierType ==
    ASSUME NEW id \in Ids
    PROVE  /\ IdentifierAfter(id) \in Ids
           /\ id + 1 < IdModulus => IdentifierAfter(id) = id + 1
  BY DtxAssumption DEF Ids, IdentifierAfter


\* What a write does to the stream, whether it succeeds or not.
LEMMA SentType ==
    ASSUME TypeOK, NEW m \in Requests \cup Acks, Sent(m) \/ SendFails
    PROVE  /\ faults' \in 0 .. MaxFaults
           /\ to_dev' \in Seq(Requests \cup Acks)
           /\ dev' \in {"up", "deaf", "gone"}
  <1>1. CASE Sent(m)
    BY <1>1, AppendFacts DEF TypeOK, Sent
  <1>2. CASE SendFails
    BY <1>2, DtxAssumption DEF TypeOK, SendFails, Trouble
  <1> QED
    BY <1>1, <1>2

\* What was read is gone from the stream, and nothing else changes in it.
LEMMA DropType ==
    ASSUME TypeOK, NEW n \in Nat, Has(n), Drop(n)
    PROVE  /\ from_dev' \in Seq(Units)
           /\ \A i \in 1 .. Len(from_dev') : \E j \in 1 .. Len(from_dev) : from_dev'[i] = from_dev[j]
  <1>1. from_dev \in Seq(Units) /\ n <= Len(from_dev)
    BY DEF TypeOK, Has
  <1>2. from_dev' = SubSeq(from_dev, n + 1, Len(from_dev))
    BY DEF Drop
  <1> QED
    BY <1>1, <1>2, DropFacts

\* So of a read that fails.
LEMMA ReadFailedType ==
    ASSUME TypeOK, ReadFailed
    PROVE  /\ faults' \in 0 .. MaxFaults
           /\ from_dev' \in Seq(Units)
           /\ \A i \in 1 .. Len(from_dev') : \E j \in 1 .. Len(from_dev) : from_dev'[i] = from_dev[j]
  <1>1. PICK n \in 0 .. (Wanted - 1) : Has(n) /\ Drop(n)
    BY DEF ReadFailed
  <1>2. n \in Nat
    BY <1>1
  <1>3. faults' \in 0 .. MaxFaults
    BY DtxAssumption DEF ReadFailed, Trouble, TypeOK
  <1> QED
    BY <1>1, <1>2, <1>3, DropType

LEMMA RequestType ==
    ASSUME TypeOK, NEW kind \in Kinds, NEW code \in Nat, NEW service \in Services,
           Request(kind, code, service)
    PROVE  [kind |-> kind, id |-> next_identifier, code |-> code, service |-> service,
            call |-> calls + 1] \in Requests
  BY DEF TypeOK, Requests

LEMMA AckType ==
    ASSUME NEW m \in Messages
    PROVE  Ack(m) \in Acks
  BY DEF Messages, Ack, Acks
-----------------------------------------------------------------------------
(* Type correctness.                                                       *)

LEMMA InitType == Init => TypeOK
  <1> SUFFICES ASSUME Init PROVE TypeOK
    OBVIOUS
  <1>1. <<>> \in Seq(Messages) /\ <<>> \in Seq(Requests \cup Acks) /\ <<>> \in Seq(Units)
        /\ <<>> \in Seq(Nat)
    BY EmptySeq
  <1>2. 0 \in 0 .. MaxFaults /\ 0 \in 0 .. MaxCalls /\ 0 \in 0 .. MaxSends /\ 1 \in Ids
    BY DtxAssumption DEF Ids
  <1> QED
    BY <1>1, <1>2 DEF Init, TypeOK

LEMMA AskType ==
    ASSUME TypeOK, NEW kind \in Kinds, NEW code \in Nat, NEW service \in Services,
           Request(kind, code, service), next_channel_code' \in Nat \ {0}
    PROVE  TypeOK'
  <1> DEFINE req == [kind |-> kind, id |-> next_identifier, code |-> code, service |-> service,
                     call |-> calls + 1]
  <1>1. req \in Requests
    BY RequestType
  <1>2. Sent(req) \/ SendFails
    BY DEF Request
  <1>3. /\ faults' \in 0 .. MaxFaults
        /\ to_dev' \in Seq(Requests \cup Acks)
        /\ dev' \in {"up", "deaf", "gone"}
    BY <1>1, <1>2, SentType
  <1>4. next_identifier' \in Ids
    BY IdentifierType DEF TypeOK, Request
  <1>5. calls' \in 0 .. MaxCalls
    BY DtxAssumption DEF TypeOK, Request
  <1>6. cur' \subseteq Requests /\ reading' \subseteq Messages
        /\ op' \in {"idle", "header", "rest"} /\ op' # "rest"
    BY <1>1 DEF TypeOK, Request, Return
  <1> QED
    BY <1>3, <1>4, <1>5, <1>6 DEF TypeOK, Request, device

LEMMA CallType ==
    ASSUME TypeOK, Call
    PROVE  TypeOK'
  <1>1. ASSUME NEW service \in Services, RequestChannel(service)
        PROVE  TypeOK'
    <2>1. PICK code \in Nat : code = next_channel_code
      BY DEF TypeOK
    <2>2. Request("channel", code, service) /\ next_channel_code' \in Nat \ {0}
      BY <1>1, <2>1 DEF RequestChannel, CodeAfter
    <2> QED
      BY <2>2, AskType DEF Kinds
  <1>2. ASSUME NEW kind \in {"launch", "kill"}, NEW c \in channels, MethodCall(kind, c)
        PROVE  TypeOK'
    <2>1. c.code \in Nat /\ c.service \in Services
      BY DEF TypeOK, Channels
    <2>2. Request(kind, c.code, c.service) /\ next_channel_code' \in Nat \ {0}
      BY <1>2 DEF MethodCall, TypeOK
    <2> QED
      BY <2>1, <2>2, AskType DEF Kinds
  <1>3. CASE Receive
    BY <1>3 DEF Receive, TypeOK, conn, history, device
  <1>4. CASE NextPending
    <2>1. Head(pending) \in Messages /\ pending' \in Seq(Messages)
      BY <1>4, TailFacts DEF NextPending, TypeOK
    <2>2. Head(pending).at \in Nat
      BY <2>1 DEF Messages
    <2>3. handed' \in Seq(Nat)
      BY <1>4, <2>2, AppendFacts DEF NextPending, TypeOK
    <2> QED
      BY <1>4, <2>1, <2>3 DEF NextPending, TypeOK, call, device
  <1> QED
    BY <1>1, <1>2, <1>3, <1>4 DEF Call

\* What every message read whole does.
LEMMA TakesType ==
    ASSUME TypeOK, NEW m \in reading, Takes(m)
    PROVE  /\ from_dev' \in Seq(Units)
           /\ \A i \in 1 .. Len(from_dev') : \E j \in 1 .. Len(from_dev) : from_dev'[i] = from_dev[j]
           /\ faults' \in 0 .. MaxFaults
           /\ to_dev' \in Seq(Requests \cup Acks)
           /\ dev' \in {"up", "deaf", "gone"}
           /\ taken' \subseteq Nat
           /\ acked' \in Seq(Nat)
  <1>1. m \in Messages /\ m.rest \in Nat /\ m.at \in Nat
    BY DEF TypeOK, Messages
  <1>2. /\ from_dev' \in Seq(Units)
        /\ \A i \in 1 .. Len(from_dev') : \E j \in 1 .. Len(from_dev) : from_dev'[i] = from_dev[j]
    BY <1>1, DropType DEF Takes
  <1>3. taken' \subseteq Nat
    BY <1>1 DEF Takes, TypeOK
  <1>4. CASE WantsAck(m)
    <2>1. Sent(Ack(m)) /\ acked' = Append(acked, m.at)
      BY <1>4 DEF Takes
    <2>2. /\ faults' \in 0 .. MaxFaults
          /\ to_dev' \in Seq(Requests \cup Acks)
          /\ dev' \in {"up", "deaf", "gone"}
      BY <1>1, <2>1, AckType, SentType
    <2>3. acked' \in Seq(Nat)
      BY <1>1, <2>1, AppendFacts DEF TypeOK
    <2> QED
      BY <1>2, <1>3, <2>2, <2>3
  <1>5. CASE ~WantsAck(m)
    BY <1>2, <1>3, <1>5 DEF Takes, TypeOK
  <1> QED
    BY <1>4, <1>5

LEMMA ContinueType ==
    ASSUME TypeOK, Continue
    PROVE  TypeOK'
  <1>1. CASE ReadHeader
    <2>1. from_dev' \in Seq(Units)
      BY <1>1, DropType DEF ReadHeader, HeaderUnits
    <2>2. Head(from_dev) \in Units
      <3>1. from_dev \in Seq(Units) /\ Len(from_dev) >= 2
        BY <1>1 DEF ReadHeader, Has, HeaderUnits, TypeOK
      <3>2. from_dev # <<>>
        BY <3>1
      <3> QED
        BY <3>1, <3>2, TailFacts
    <2>3. Head(from_dev).msg \in Messages
      BY <2>2 DEF Units
    <2>4. /\ op' \in {"idle", "header", "rest"}
          /\ cur' \subseteq Requests
          /\ reading' \subseteq Messages
          /\ op' = "rest" => reading' # {}
      BY <1>1, <2>3 DEF ReadHeader, Return, TypeOK
    <2> QED
      BY <1>1, <2>1, <2>4 DEF ReadHeader, TypeOK, conn, history, device
  <1>2. CASE Refuses
    <2>1. PICK m \in reading : Has(m.rest) /\ Drop(m.rest) /\ Return
      BY <1>2 DEF Refuses
    <2>2. m.rest \in Nat
      BY DEF TypeOK, Messages
    <2>3. from_dev' \in Seq(Units)
      BY <2>1, <2>2, DropType
    <2> QED
      BY <1>2, <2>1, <2>3 DEF Refuses, Return, TypeOK, conn, history, device
  <1>3. CASE TakesReply
    <2>1. PICK req \in cur, m \in reading :
              /\ Takes(m)
              /\ outcomes' = outcomes \cup {[kind |-> req.kind, call |-> req.call,
                                             answers |-> m.call, at |-> m.at,
                                             ok |-> Succeeds(req.kind, m)]}
              /\ channels' = IF req.kind = "channel"
                             THEN channels \cup {[code |-> req.code, service |-> req.service]}
                             ELSE channels
              /\ Return
              /\ UNCHANGED <<pending, handed, received>>
      BY <1>3 DEF TakesReply
    <2>2. req \in Requests /\ m \in Messages
      BY DEF TypeOK
    <2>3. Succeeds(req.kind, m) \in BOOLEAN
      BY <2>2 DEF Succeeds, Requests, Kinds
    <2>4. outcomes' \subseteq Outcomes
      <3>1. [kind |-> req.kind, call |-> req.call, answers |-> m.call, at |-> m.at,
             ok |-> Succeeds(req.kind, m)] \in Outcomes
        BY <2>2, <2>3 DEF Requests, Messages, Outcomes
      <3> QED
        BY <2>1, <3>1 DEF TypeOK
    <2>5. channels' \subseteq Channels
      BY <2>1, <2>2 DEF TypeOK, Requests, Channels
    <2> QED
      BY <2>1, <2>4, <2>5, TakesType DEF TypeOK, Takes, Return, device
  <1>4. CASE Queues
    <2>1. PICK req \in cur, m \in reading :
              /\ Takes(m)
              /\ pending' = Append(pending, m)
              /\ op' = "header"
              /\ reading' = {}
              /\ UNCHANGED <<cur, channels, outcomes, handed, received>>
      BY <1>4 DEF Queues, Queued
    <2>2. pending' \in Seq(Messages)
      BY <2>1, AppendFacts DEF TypeOK
    <2> QED
      BY <2>1, <2>2, TakesType DEF TypeOK, Takes, device
  <1>5. CASE Receives
    <2>1. PICK m \in reading :
              /\ Takes(m)
              /\ received' = Append(received, m.at)
              /\ Return
              /\ UNCHANGED <<pending, channels, outcomes, handed>>
      BY <1>5 DEF Receives
    <2>2. m.at \in Nat
      BY DEF TypeOK, Messages
    <2>3. received' \in Seq(Nat)
      BY <2>1, <2>2, AppendFacts DEF TypeOK
    <2> QED
      BY <2>1, <2>3, TakesType DEF TypeOK, Takes, Return, device
  <1>6. CASE AckFails
    <2>1. PICK m \in reading :
              /\ Has(m.rest) /\ Drop(m.rest)
              /\ SendFails
              /\ taken' = taken \cup {m.at}
              /\ lost' = lost \cup {m.at}
              /\ Return
              /\ UNCHANGED <<conn, calls, outcomes, handed, received, acked, device>>
      BY <1>6 DEF AckFails
    <2>2. m \in Messages /\ m.rest \in Nat /\ m.at \in Nat
      BY DEF TypeOK, Messages
    <2>3. from_dev' \in Seq(Units)
      BY <2>1, <2>2, DropType
    <2>4. /\ faults' \in 0 .. MaxFaults
          /\ to_dev' \in Seq(Requests \cup Acks)
          /\ dev' \in {"up", "deaf", "gone"}
      BY <2>1, <2>2, AckType, SentType
    <2>5. taken' \subseteq Nat /\ lost' \subseteq Nat
      BY <2>1, <2>2 DEF TypeOK
    <2> QED
      BY <2>1, <2>3, <2>4, <2>5 DEF TypeOK, Return, conn, device
  <1> QED
    BY <1>1, <1>2, <1>3, <1>4, <1>5, <1>6 DEF Continue

\* A message of the device goes into the stream unit by unit, and whole.
LEMMA WritesType ==
    ASSUME TypeOK, NEW m \in Messages, DevWrites(m)
    PROVE  /\ from_dev' \in Seq(Units)
           /\ dev_sent' \in Nat
           /\ \A i \in 1 .. Len(from_dev') :
                 \/ \E j \in 1 .. Len(from_dev) : from_dev'[i] = from_dev[j]
                 \/ from_dev'[i].msg = m
  <1>1. HeaderUnits + m.rest \in Nat
    BY DEF HeaderUnits, Messages
  <1>2. PICK n \in Nat : n = HeaderUnits + m.rest
    BY <1>1
  <1>3. Frame(m) = [k \in 1 .. n |-> [msg |-> m, part |-> k]]
    BY <1>2 DEF Frame
  <1>4. Frame(m) \in Seq(Units) /\ Len(Frame(m)) = n /\ \A k \in 1 .. n : Frame(m)[k].msg = m
    BY <1>3 DEF Units
  <1>5. /\ from_dev' = from_dev \o Frame(m)
        /\ from_dev \in Seq(Units)
        /\ dev_sent' \in Nat
    BY DEF DevWrites, TypeOK
  <1>6. /\ from_dev' \in Seq(Units)
        /\ Len(from_dev') = Len(from_dev) + n
        /\ \A i \in 1 .. Len(from_dev) + n :
              from_dev'[i] = IF i <= Len(from_dev) THEN from_dev[i]
                             ELSE Frame(m)[i - Len(from_dev)]
    BY <1>4, <1>5, ConcatProperties
  <1>7. ASSUME NEW i \in 1 .. Len(from_dev')
        PROVE  \/ \E j \in 1 .. Len(from_dev) : from_dev'[i] = from_dev[j]
               \/ from_dev'[i].msg = m
    <2>1. Len(from_dev) \in Nat
      BY <1>5
    <2>2. CASE i <= Len(from_dev)
      BY <1>6, <2>1, <2>2
    <2>3. CASE ~(i <= Len(from_dev))
      <3>1. i - Len(from_dev) \in 1 .. n
        BY <1>6, <2>1, <2>3
      <3> QED
        BY <1>4, <1>6, <2>1, <2>3, <3>1
    <2> QED
      BY <2>2, <2>3
  <1> QED
    BY <1>5, <1>6, <1>7
LEMMA DeviceType ==
    ASSUME TypeOK, DevTakes \/ Answer \/ DevSend \/ DevHangsUp
    PROVE  TypeOK'
  <1>1. CASE DevTakes
    <2>1. Head(to_dev) \in Requests \cup Acks /\ to_dev' \in Seq(Requests \cup Acks)
      BY <1>1, TailFacts DEF DevTakes, TypeOK
    <2>2. Head(to_dev).kind # "ack" => Head(to_dev) \in Requests
      BY <2>1 DEF Acks
    <2>3. dev_asked' \subseteq Requests
      BY <1>1, <2>2 DEF DevTakes, TypeOK
    <2> QED
      BY <1>1, <2>1, <2>3 DEF DevTakes, TypeOK, conn, call, history
  <1>2. ASSUME NEW req \in dev_asked, NEW body \in {"pid", "other", "error"},
               NEW rest \in 1 .. MaxRest, DevAnswers(req, body, rest)
        PROVE  TypeOK'
    <2> DEFINE m == [at |-> dev_sent + 1, id |-> req.id, index |-> 1, expects |-> FALSE,
                     call |-> req.call, body |-> body, form |-> "good", rest |-> rest]
    <2>1. req \in Requests
      BY DEF TypeOK
    <2>2. m \in Messages
      BY <2>1 DEF TypeOK, Requests, Messages
    <2>3. from_dev' \in Seq(Units) /\ dev_sent' \in Nat
      BY <1>2, <2>2, WritesType DEF DevAnswers
    <2>4. dev_open' \subseteq Channels /\ dev_done' \subseteq Nat
      <3>1. /\ dev_open' \in {dev_open,
                              dev_open \cup {[code |-> req.code, service |-> req.service]}}
            /\ dev_done' \in {dev_done, dev_done \cup {req.call}}
        BY <1>2 DEF DevAnswers
      <3>2. [code |-> req.code, service |-> req.service] \in Channels /\ req.call \in Nat
        BY <2>1 DEF Requests, Channels
      <3> QED
        BY <3>1, <3>2 DEF TypeOK
    <2>5. dev_asked' \subseteq Requests
      BY <1>2 DEF DevAnswers, TypeOK
    <2>6. dev' \in {"up", "deaf", "gone"}
      BY <1>2 DEF DevAnswers, TypeOK
    <2> QED
      BY <1>2, <2>3, <2>4, <2>5, <2>6 DEF DevAnswers, TypeOK, conn, call, history
  <1>3. ASSUME NEW expects \in BOOLEAN, NEW form \in {"good", "fragment", "huge"},
               NEW rest \in 1 .. MaxRest, DevSends(expects, form, rest)
        PROVE  TypeOK'
    <2> DEFINE m == [at |-> dev_sent + 1, id |-> (dev_own + 1) % IdModulus, index |-> 0,
                     expects |-> expects, call |-> 0, body |-> "other", form |-> form,
                     rest |-> rest]
    <2>1. (dev_own + 1) % IdModulus \in Ids
      <3>1. PICK k \in Nat : k = dev_own + 1
        BY DEF TypeOK
      <3> QED
        BY <3>1, DtxAssumption DEF Ids
    <2>2. m \in Messages
      BY <2>1 DEF TypeOK, Messages
    <2>3. from_dev' \in Seq(Units) /\ dev_sent' \in Nat
      BY <1>3, <2>2, WritesType DEF DevSends
    <2>4. dev_own' \in 0 .. MaxSends
      BY <1>3, DtxAssumption DEF DevSends, TypeOK
    <2> QED
      BY <1>3, <2>3, <2>4 DEF DevSends, TypeOK, conn, call, history
  <1>4. CASE DevHangsUp
    BY <1>4, EmptySeq DEF DevHangsUp, TypeOK, conn, call, history, device
  <1> QED
    BY <1>1, <1>2, <1>3, <1>4 DEF Answer, DevSend

LEMMA NextType ==
    ASSUME TypeOK, [Next]_vars
    PROVE  TypeOK'
  <1>1. CASE ReadFails
    BY <1>1, ReadFailedType DEF ReadFails, ReadFailed, Return, TypeOK, conn, history, device
  <1>2. CASE UNCHANGED vars
    BY <1>2 DEF vars, conn, call, history, device, TypeOK
  <1> QED
    BY <1>1, <1>2, CallType, ContinueType, DeviceType DEF Next

\* Every variable keeps its type: the identifier its width, the messages and the
\* requests their form, whatever is sent, refused, lost or late
\* (dtx_connection.cpp:87-219).
THEOREM TypeCorrect == Spec => []TypeOK
  <1>1. Init => TypeOK
    BY InitType
  <1>2. TypeOK /\ [Next]_vars => TypeOK'
    BY NextType
  <1> QED
    BY <1>1, <1>2, PTL DEF Spec
-----------------------------------------------------------------------------
(* What a step that adds nothing keeps of the invariant.                   *)

LEMMA KeepsCalls ==
    ASSUME CallsNumbered, Asked' \subseteq Asked, UNCHANGED <<calls, next_identifier>>
    PROVE  CallsNumbered'
  BY DEF CallsNumbered, Numbered

LEMMA KeepsAnswers ==
    ASSUME TypeOK, AnswersTrue, Underway' \subseteq Underway, dev_done \subseteq dev_done',
           calls' \in Nat, calls <= calls'
    PROVE  AnswersTrue'
  <1> SUFFICES ASSUME NEW m \in Underway', m.index > 0
               PROVE  Numbered(m)' /\ (m.body # "error" => m.call \in dev_done')
    BY DEF AnswersTrue
  <1>1. Numbered(m) /\ (m.body # "error" => m.call \in dev_done)
    BY DEF AnswersTrue
  <1>2. m.call \in 1 .. calls'
    BY <1>1 DEF Numbered, TypeOK
  <1> QED
    BY <1>1, <1>2 DEF Numbered

LEMMA KeepsCodes ==
    ASSUME CodesOnce, Named' \subseteq Named, UNCHANGED next_channel_code
    PROVE  CodesOnce'
  BY DEF CodesOnce

LEMMA KeepsOutcomes ==
    ASSUME TypeOK, ReplyAnswersCall, SuccessIsDone, UNCHANGED outcomes,
           dev_done \subseteq dev_done', calls' \in Nat, calls <= calls'
    PROVE  ReplyAnswersCall' /\ SuccessIsDone'
  <1>1. NoWrap' => NoWrap
    BY DtxAssumption DEF NoWrap, TypeOK
  <1> QED
    BY <1>1 DEF ReplyAnswersCall, SuccessIsDone

LEMMA KeepsNamed ==
    ASSUME Asked' \subseteq Asked, channels' \subseteq Named, dev_open' \subseteq Named
    PROVE  Named' \subseteq Named
  BY DEF Named

LEMMA KeepsUnderway ==
    ASSUME reading' \subseteq Underway,
           \A i \in 1 .. Len(from_dev') : \E j \in 1 .. Len(from_dev) : from_dev'[i] = from_dev[j]
    PROVE  Underway' \subseteq Underway
  BY DEF Underway

\* An acknowledgement that is sent, or not, asks the device for nothing.
LEMMA KeepsAsked ==
    ASSUME TypeOK, cur' \subseteq cur, dev_asked' = dev_asked,
           \/ \E m \in Acks : Sent(m)
           \/ UNCHANGED to_dev
    PROVE  Asked' \subseteq Asked
  <1>1. ASSUME NEW m \in Acks, Sent(m)
        PROVE  \A i \in 1 .. Len(to_dev') : to_dev'[i].kind # "ack" =>
                   i \in 1 .. Len(to_dev) /\ to_dev'[i] = to_dev[i]
    <2>1. to_dev \in Seq(Requests \cup Acks) /\ m.kind = "ack"
      BY DEF TypeOK, Acks
    <2>2. CASE dev = "up"
      <3>1. to_dev' = Append(to_dev, m)
        BY <1>1, <2>2 DEF Sent
      <3> QED
        BY <2>1, <3>1, AppendFacts
    <2>3. CASE dev # "up"
      BY <1>1, <2>3 DEF Sent
    <2> QED
      BY <2>2, <2>3
  <1>2. \A i \in 1 .. Len(to_dev') : to_dev'[i].kind # "ack" =>
            i \in 1 .. Len(to_dev) /\ to_dev'[i] = to_dev[i]
    BY <1>1
  <1> QED
    BY <1>2 DEF Asked

LEMMA Keeps ==
    ASSUME TypeOK, IInv, Asked' \subseteq Asked, Underway' \subseteq Underway,
           channels' \subseteq Named, dev_open' \subseteq Named,
           UNCHANGED <<calls, next_identifier, next_channel_code, outcomes, dev_done>>
    PROVE  IInv'
  <1>1. calls' \in Nat /\ calls <= calls'
    BY DtxAssumption DEF TypeOK
  <1> QED
    BY <1>1, KeepsCalls, KeepsAnswers, KeepsCodes, KeepsOutcomes, KeepsNamed DEF IInv
-----------------------------------------------------------------------------
(* The invariant, step by step.                                            *)

LEMMA InitInv == Init => IInv
  <1> SUFFICES ASSUME Init PROVE IInv
    OBVIOUS
  <1>1. Asked = {} /\ Underway = {} /\ Named = {}
    BY DEF Init, Asked, Underway, Named
  <1>2. CallsNumbered
    BY <1>1 DEF Init, CallsNumbered
  <1> QED
    BY <1>1, <1>2 DEF Init, IInv, AnswersTrue, CodesOnce, ReplyAnswersCall, SuccessIsDone

\* A request adds itself, under a number nobody has.
LEMMA RequestAsks ==
    ASSUME TypeOK, NEW kind \in Kinds, NEW code \in Nat, NEW service \in Services,
           Request(kind, code, service), NEW req \in Requests,
           req = [kind |-> kind, id |-> next_identifier, code |-> code, service |-> service,
                  call |-> calls + 1]
    PROVE  Asked' \subseteq Asked \cup {req}
  <1>1. cur' \subseteq cur \cup {req} /\ dev_asked' = dev_asked
    BY DEF Request, Return, device
  <1>2. to_dev' \in {to_dev, Append(to_dev, req)}
    BY DEF Request, Sent, SendFails
  <1>3. \A i \in 1 .. Len(to_dev') :
            (i \in 1 .. Len(to_dev) /\ to_dev'[i] = to_dev[i]) \/ to_dev'[i] = req
    <2>1. to_dev \in Seq(Requests \cup Acks)
      BY DEF TypeOK
    <2>2. CASE to_dev' = to_dev
      BY <2>2
    <2>3. CASE to_dev' = Append(to_dev, req)
      BY <2>1, <2>3, AppendFacts
    <2> QED
      BY <1>2, <2>2, <2>3
  <1> QED
    BY <1>1, <1>3 DEF Asked

LEMMA RequestNumbers ==
    ASSUME TypeOK, CallsNumbered,
           NEW kind \in Kinds, NEW code \in Nat, NEW service \in Services,
           Request(kind, code, service)
    PROVE  CallsNumbered'
  <1>1. PICK req \in Requests :
            req = [kind |-> kind, id |-> next_identifier, code |-> code, service |-> service,
                   call |-> calls + 1]
    BY RequestType
  <1>2. Asked' \subseteq Asked \cup {req}
    BY <1>1, RequestAsks
  <1>3. PICK n \in Nat : n = calls
    BY DtxAssumption DEF TypeOK
  <1>4. calls' = n + 1
    BY <1>3 DEF Request
  <1>5. IdModulus \in Nat
    BY DtxAssumption
  <1>6. n + 1 < IdModulus => next_identifier = n + 1
    BY <1>3 DEF CallsNumbered
  <1>7. (n + 1) + 1 < IdModulus => next_identifier' = (n + 1) + 1
    <2>1. next_identifier \in Ids /\ next_identifier' = IdentifierAfter(next_identifier)
      BY DEF Request, TypeOK
    <2> QED
      BY <1>5, <1>6, <2>1, IdentifierType
  <1>8. req.call = n + 1 /\ req.id = next_identifier
    BY <1>1, <1>3
  <1>9. Numbered(req)'
    BY <1>4, <1>6, <1>8 DEF Numbered
  <1>10. ASSUME NEW e \in Asked
         PROVE  Numbered(e)'
    BY <1>3, <1>4, <1>10 DEF CallsNumbered, Numbered
  <1> QED
    BY <1>2, <1>4, <1>7, <1>9, <1>10 DEF CallsNumbered

LEMMA RequestKeeps ==
    ASSUME TypeOK, IInv,
           NEW kind \in Kinds, NEW code \in Nat, NEW service \in Services,
           Request(kind, code, service)
    PROVE  CallsNumbered' /\ AnswersTrue' /\ ReplyAnswersCall' /\ SuccessIsDone'
  <1>1. CallsNumbered'
    BY RequestNumbers DEF IInv
  <1>2. calls' \in Nat /\ calls <= calls'
    BY DtxAssumption DEF TypeOK, Request
  <1>3. reading' \subseteq reading /\ UNCHANGED <<from_dev, outcomes, dev_done>>
    BY DEF Request, Return, device
  <1>4. Underway' \subseteq Underway
    BY <1>3 DEF Underway
  <1> QED
    BY <1>1, <1>2, <1>3, <1>4, KeepsAnswers, KeepsOutcomes DEF IInv

LEMMA CallInv ==
    ASSUME TypeOK, IInv, Call
    PROVE  IInv'
  <1>1. ASSUME NEW service \in Services, RequestChannel(service)
        PROVE  IInv'
    <2>1. PICK code \in Nat : code = next_channel_code
      BY DEF TypeOK
    <2>2. Request("channel", code, service) /\ next_channel_code' = code + 1
      BY <1>1, <2>1 DEF RequestChannel, CodeAfter
    <2>3. CallsNumbered' /\ AnswersTrue' /\ ReplyAnswersCall' /\ SuccessIsDone'
      BY <2>2, RequestKeeps DEF Kinds
    <2>4. PICK req \in Requests :
              req = [kind |-> "channel", id |-> next_identifier, code |-> code,
                     service |-> service, call |-> calls + 1]
      BY <2>2, RequestType DEF Kinds
    <2>5. Asked' \subseteq Asked \cup {req}
      BY <2>2, <2>4, RequestAsks DEF Kinds
    <2>6. UNCHANGED <<channels, dev_open>>
      BY <2>2 DEF Request, device
    <2> DEFINE new == [code |-> code, service |-> service]
    <2>7. Named' \subseteq Named \cup {new}
      <3>1. [code |-> req.code, service |-> req.service] = new
        BY <2>4
      <3> QED
        BY <2>5, <2>6, <3>1 DEF Named
    <2>8. \A c \in Named : c.code < code
      BY <2>1 DEF IInv, CodesOnce
    <2>9. \A c \in Named : c.code \in Nat
      <3>1. Asked \subseteq Requests \cup Acks /\ \A q \in Asked : q.kind = "channel" => q \in Requests
        BY DEF Asked, TypeOK, Acks
      <3> QED
        BY <3>1 DEF Named, TypeOK, Channels, Requests
    <2>10. \A c \in Named \cup {new} : c.code < code + 1
      BY <2>8, <2>9
    <2>11. \A c, d \in Named \cup {new} : c.code = d.code => c.service = d.service
      <3>1. ASSUME NEW c \in Named \cup {new}, NEW d \in Named \cup {new}, c.code = d.code
            PROVE  c.service = d.service
        <4>1. CASE c \in Named /\ d \in Named
          BY <3>1, <4>1 DEF IInv, CodesOnce
        <4>2. CASE c = new /\ d = new
          BY <4>2
        <4>3. CASE c \in Named /\ d = new
          BY <2>8, <2>9, <3>1, <4>3
        <4>4. CASE c = new /\ d \in Named
          BY <2>8, <2>9, <3>1, <4>4
        <4> QED
          BY <4>1, <4>2, <4>3, <4>4
      <3> QED
        BY <3>1
    <2>12. CodesOnce'
      BY <2>2, <2>7, <2>10, <2>11 DEF CodesOnce
    <2> QED
      BY <2>3, <2>12 DEF IInv
  <1>2. ASSUME NEW kind \in {"launch", "kill"}, NEW c \in channels, MethodCall(kind, c)
        PROVE  IInv'
    <2>1. c.code \in Nat /\ c.service \in Services /\ kind \in Kinds /\ kind # "channel"
      BY DEF TypeOK, Channels, Kinds
    <2>2. Request(kind, c.code, c.service) /\ UNCHANGED next_channel_code
      BY <1>2 DEF MethodCall
    <2>3. CallsNumbered' /\ AnswersTrue' /\ ReplyAnswersCall' /\ SuccessIsDone'
      BY <2>1, <2>2, RequestKeeps
    <2>4. PICK req \in Requests :
              req = [kind |-> kind, id |-> next_identifier, code |-> c.code,
                     service |-> c.service, call |-> calls + 1]
      BY <2>1, <2>2, RequestType
    <2>5. Asked' \subseteq Asked \cup {req}
      BY <2>1, <2>2, <2>4, RequestAsks
    <2>6. req.kind # "channel"
      BY <2>1, <2>4
    <2>7. UNCHANGED <<channels, dev_open>>
      BY <2>2 DEF Request, device
    <2>8. Named' \subseteq Named
      BY <2>5, <2>6, <2>7 DEF Named
    <2> QED
      BY <2>2, <2>3, <2>8, KeepsCodes DEF IInv
  <1>3. CASE Receive \/ NextPending
    <2>1. UNCHANGED <<cur, reading, from_dev, to_dev, dev_asked, channels, dev_open, calls,
                      next_identifier, next_channel_code, outcomes, dev_done>>
      BY <1>3 DEF Receive, NextPending, conn, call, history, device
    <2>2. Asked' = Asked /\ Underway' = Underway
      BY <2>1 DEF Asked, Underway
    <2>3. channels \subseteq Named /\ dev_open \subseteq Named
      BY DEF Named
    <2> QED
      BY <2>1, <2>2, <2>3, Keeps
  <1> QED
    BY <1>1, <1>2, <1>3 DEF Call
\* What every message read whole leaves as it is.
LEMMA TakesKeeps ==
    ASSUME TypeOK, NEW m \in reading, Takes(m), reading' = {}, cur' \subseteq cur
    PROVE  /\ Asked' \subseteq Asked
           /\ Underway' \subseteq Underway
           /\ UNCHANGED <<dev_open, dev_asked, dev_done, calls, next_identifier, next_channel_code>>
  <1>1. m \in Messages
    BY DEF TypeOK
  <1>2. \A i \in 1 .. Len(from_dev') : \E j \in 1 .. Len(from_dev) : from_dev'[i] = from_dev[j]
    BY TakesType
  <1>3. UNCHANGED <<dev_open, dev_asked, dev_done, calls, next_identifier, next_channel_code>>
    BY DEF Takes, device
  <1>4. (\E a \in Acks : Sent(a)) \/ UNCHANGED to_dev
    BY <1>1, AckType DEF Takes
  <1> QED
    BY <1>2, <1>3, <1>4, KeepsUnderway, KeepsAsked

\* The reply that is taken is the one to this very call, and true.
LEMMA ReplyTrue ==
    ASSUME TypeOK, IInv, NoWrap, NEW req \in cur, NEW m \in reading, IsReply(m, req)
    PROVE  /\ m.call = req.call
           /\ m.body # "error" => req.call \in dev_done
  <1>1. req \in Asked /\ m \in Underway
    BY DEF Asked, Underway
  <1>2. Numbered(req) /\ Numbered(m) /\ (m.body # "error" => m.call \in dev_done)
    BY <1>1 DEF IInv, CallsNumbered, AnswersTrue, IsReply
  <1>3. req.call < IdModulus /\ m.call < IdModulus
    BY <1>2, DtxAssumption DEF Numbered, NoWrap, TypeOK
  <1> QED
    BY <1>2, <1>3 DEF Numbered, IsReply

LEMMA ContinueInv ==
    ASSUME TypeOK, IInv, Continue
    PROVE  IInv'
  <1>0. channels \subseteq Named /\ dev_open \subseteq Named /\ reading \subseteq Underway
    BY DEF Named, Underway
  <1>1. CASE ReadHeader
    <2>1. \A i \in 1 .. Len(from_dev') : \E j \in 1 .. Len(from_dev) : from_dev'[i] = from_dev[j]
      BY <1>1, DropType DEF ReadHeader, HeaderUnits
    <2>2. Head(from_dev).msg \in Underway
      <3>1. from_dev \in Seq(Units) /\ Len(from_dev) >= 2
        BY <1>1 DEF ReadHeader, Has, HeaderUnits, TypeOK
      <3>2. from_dev # <<>> /\ 1 \in 1 .. Len(from_dev)
        BY <3>1
      <3>3. Head(from_dev) = from_dev[1]
        BY <3>1, <3>2, TailFacts
      <3> QED
        BY <3>2, <3>3 DEF Underway
    <2>3. reading' \subseteq Underway /\ cur' \subseteq cur
      BY <1>0, <1>1, <2>2 DEF ReadHeader, Return
    <2>4. UNCHANGED <<to_dev, dev_asked, channels, dev_open, calls, next_identifier,
                      next_channel_code, outcomes, dev_done>>
      BY <1>1 DEF ReadHeader, conn, history, device
    <2> QED
      BY <1>0, <2>1, <2>3, <2>4, KeepsUnderway, KeepsAsked, Keeps
  <1>2. CASE Refuses
    <2>1. PICK m \in reading : Has(m.rest) /\ Drop(m.rest) /\ Return
      BY <1>2 DEF Refuses
    <2>2. m.rest \in Nat
      BY DEF TypeOK, Messages
    <2>3. \A i \in 1 .. Len(from_dev') : \E j \in 1 .. Len(from_dev) : from_dev'[i] = from_dev[j]
      BY <2>1, <2>2, DropType
    <2>4. reading' \subseteq Underway /\ cur' \subseteq cur
      BY <2>1 DEF Return
    <2>5. UNCHANGED <<to_dev, dev_asked, channels, dev_open, calls, next_identifier,
                      next_channel_code, outcomes, dev_done>>
      BY <1>2 DEF Refuses, conn, history, device
    <2> QED
      BY <1>0, <2>3, <2>4, <2>5, KeepsUnderway, KeepsAsked, Keeps
  <1>3. CASE TakesReply
    <2>1. PICK req \in cur, m \in reading :
              /\ Takes(m)
              /\ IsReply(m, req)
              /\ outcomes' = outcomes \cup {[kind |-> req.kind, call |-> req.call,
                                             answers |-> m.call, at |-> m.at,
                                             ok |-> Succeeds(req.kind, m)]}
              /\ channels' = IF req.kind = "channel"
                             THEN channels \cup {[code |-> req.code, service |-> req.service]}
                             ELSE channels
              /\ Return
      BY <1>3 DEF TakesReply
    <2>2. /\ Asked' \subseteq Asked
          /\ Underway' \subseteq Underway
          /\ UNCHANGED <<dev_open, dev_asked, dev_done, calls, next_identifier, next_channel_code>>
      BY <2>1, TakesKeeps DEF Return
    <2>3. req \in Asked /\ req.kind \in Kinds
      BY DEF Asked, TypeOK, Requests
    <2>4. channels' \subseteq Named
      BY <1>0, <2>1, <2>3 DEF Named
    <2>5. calls' \in Nat /\ calls <= calls'
      BY <2>2, DtxAssumption DEF TypeOK
    <2>6. CallsNumbered' /\ AnswersTrue' /\ CodesOnce'
      BY <1>0, <2>2, <2>4, <2>5, KeepsCalls, KeepsAnswers, KeepsCodes, KeepsNamed DEF IInv
    <2>7. NoWrap' => NoWrap
      BY <2>2 DEF NoWrap
    <2>8. NoWrap => m.call = req.call /\ (m.body # "error" => req.call \in dev_done)
      BY <2>1, ReplyTrue
    <2>9. Succeeds(req.kind, m) /\ req.kind # "channel" => m.body # "error"
      BY <2>3 DEF Succeeds, Kinds
    <2>10. ReplyAnswersCall'
      BY <2>1, <2>7, <2>8 DEF ReplyAnswersCall, IInv
    <2>11. SuccessIsDone'
      BY <2>1, <2>2, <2>7, <2>8, <2>9 DEF SuccessIsDone, IInv
    <2> QED
      BY <2>6, <2>10, <2>11 DEF IInv
  <1>4. CASE Queues \/ Receives
    <2>1. PICK m \in reading :
              /\ Takes(m)
              /\ reading' = {}
              /\ cur' \subseteq cur
              /\ UNCHANGED <<channels, outcomes>>
      BY <1>4 DEF Queues, Receives, Return
    <2>2. /\ Asked' \subseteq Asked
          /\ Underway' \subseteq Underway
          /\ UNCHANGED <<dev_open, dev_asked, dev_done, calls, next_identifier, next_channel_code>>
      BY <2>1, TakesKeeps
    <2> QED
      BY <1>0, <2>1, <2>2, Keeps
  <1>5. CASE AckFails
    <2>1. PICK m \in reading : Has(m.rest) /\ Drop(m.rest) /\ SendFails /\ Return
      BY <1>5 DEF AckFails
    <2>2. m.rest \in Nat
      BY DEF TypeOK, Messages
    <2>3. \A i \in 1 .. Len(from_dev') : \E j \in 1 .. Len(from_dev) : from_dev'[i] = from_dev[j]
      BY <2>1, <2>2, DropType
    <2>4. reading' \subseteq Underway /\ cur' \subseteq cur /\ UNCHANGED to_dev
      BY <2>1 DEF Return, SendFails
    <2>5. UNCHANGED <<dev_asked, channels, dev_open, calls, next_identifier,
                      next_channel_code, outcomes, dev_done>>
      BY <1>5 DEF AckFails, conn, device
    <2> QED
      BY <1>0, <2>3, <2>4, <2>5, KeepsUnderway, KeepsAsked, Keeps
  <1> QED
    BY <1>1, <1>2, <1>3, <1>4, <1>5 DEF Continue

LEMMA DeviceInv ==
    ASSUME TypeOK, IInv, ReadFails \/ DevTakes \/ Answer \/ DevSend \/ DevHangsUp
    PROVE  IInv'
  <1>0. channels \subseteq Named /\ dev_open \subseteq Named /\ reading \subseteq Underway
    BY DEF Named, Underway
  <1>1. CASE ReadFails
    <2>1. \A i \in 1 .. Len(from_dev') : \E j \in 1 .. Len(from_dev) : from_dev'[i] = from_dev[j]
      BY <1>1, ReadFailedType DEF ReadFails
    <2>2. reading' = {} /\ cur' = {}
      BY <1>1 DEF ReadFails, Return
    <2>3. UNCHANGED <<to_dev, dev_asked, channels, dev_open, calls, next_identifier,
                      next_channel_code, outcomes, dev_done>>
      BY <1>1 DEF ReadFails, ReadFailed, conn, history, device
    <2> QED
      BY <1>0, <2>1, <2>2, <2>3, KeepsUnderway, KeepsAsked, Keeps
  <1>2. CASE DevTakes
    <2>1. to_dev # <<>> /\ to_dev \in Seq(Requests \cup Acks) /\ to_dev' = Tail(to_dev)
      BY <1>2 DEF DevTakes, TypeOK
    <2>2. /\ Head(to_dev) = to_dev[1]
          /\ 1 \in 1 .. Len(to_dev)
          /\ \A i \in 1 .. Len(to_dev') : i + 1 \in 1 .. Len(to_dev) /\ to_dev'[i] = to_dev[i + 1]
      BY <2>1, TailFacts
    <2>3. UNCHANGED <<cur, reading, from_dev, channels, dev_open, calls, next_identifier,
                      next_channel_code, outcomes, dev_done>>
      BY <1>2 DEF DevTakes, conn, call, history
    <2>4. dev_asked' \subseteq Asked
      BY <1>2, <2>2 DEF DevTakes, Asked
    <2>5. Asked' \subseteq Asked
      BY <2>2, <2>3, <2>4 DEF Asked
    <2>6. Underway' = Underway
      BY <2>3 DEF Underway
    <2> QED
      BY <1>0, <2>3, <2>5, <2>6, Keeps
  <1>3. ASSUME NEW req \in dev_asked, NEW body \in {"pid", "other", "error"},
               NEW rest \in 1 .. MaxRest, DevAnswers(req, body, rest)
        PROVE  IInv'
    <2> DEFINE m == [at |-> dev_sent + 1, id |-> req.id, index |-> 1, expects |-> FALSE,
                     call |-> req.call, body |-> body, form |-> "good", rest |-> rest]
    <2>1. req \in Requests /\ req \in Asked
      BY DEF TypeOK, Asked
    <2>2. m \in Messages
      BY <2>1 DEF TypeOK, Requests, Messages
    <2>3. UNCHANGED <<cur, reading, to_dev, channels, calls, next_identifier,
                      next_channel_code, outcomes>>
      BY <1>3 DEF DevAnswers, conn, call, history
    <2>4. /\ dev_asked' \subseteq dev_asked
          /\ dev_done \subseteq dev_done'
          /\ body # "error" => req.call \in dev_done'
          /\ dev_open' \subseteq Named
      <3>1. CASE body = "error"
        BY <1>0, <1>3, <3>1 DEF DevAnswers
      <3>2. CASE body # "error"
        <4>1. req.kind = "channel" => [code |-> req.code, service |-> req.service] \in Named
          BY <2>1 DEF Named
        <4> QED
          BY <1>0, <1>3, <3>2, <4>1 DEF DevAnswers
      <3> QED
        BY <3>1, <3>2
    <2>5. Asked' \subseteq Asked
      BY <2>3, <2>4 DEF Asked
    <2>6. Underway' \subseteq Underway \cup {m}
      <3>1. \A i \in 1 .. Len(from_dev') :
                \/ \E j \in 1 .. Len(from_dev) : from_dev'[i] = from_dev[j]
                \/ from_dev'[i].msg = m
        BY <1>3, <2>2, WritesType DEF DevAnswers
      <3> QED
        BY <2>3, <3>1 DEF Underway
    <2>7. CallsNumbered' /\ CodesOnce' /\ ReplyAnswersCall' /\ SuccessIsDone'
      <3>1. calls' \in Nat /\ calls <= calls'
        BY <2>3, DtxAssumption DEF TypeOK
      <3> QED
        BY <1>0, <2>3, <2>4, <2>5, <3>1, KeepsCalls, KeepsCodes, KeepsOutcomes, KeepsNamed DEF IInv
    <2>8. AnswersTrue'
      <3> SUFFICES ASSUME NEW a \in Underway', a.index > 0
                   PROVE  Numbered(a)' /\ (a.body # "error" => a.call \in dev_done')
        BY DEF AnswersTrue
      <3>1. CASE a \in Underway
        <4>1. Numbered(a) /\ (a.body # "error" => a.call \in dev_done)
          BY <3>1 DEF IInv, AnswersTrue
        <4> QED
          BY <2>3, <2>4, <4>1 DEF Numbered
      <3>2. CASE a = m
        <4>1. Numbered(req)
          BY <2>1 DEF IInv, CallsNumbered
        <4>2. a.call = req.call /\ a.id = req.id /\ a.body = body
          BY <3>2
        <4> QED
          BY <2>3, <2>4, <4>1, <4>2 DEF Numbered
      <3> QED
        BY <2>6, <3>1, <3>2
    <2> QED
      BY <2>7, <2>8 DEF IInv
  <1>4. ASSUME NEW expects \in BOOLEAN, NEW form \in {"good", "fragment", "huge"},
               NEW rest \in 1 .. MaxRest, DevSends(expects, form, rest)
        PROVE  IInv'
    <2> DEFINE m == [at |-> dev_sent + 1, id |-> (dev_own + 1) % IdModulus, index |-> 0,
                     expects |-> expects, call |-> 0, body |-> "other", form |-> form,
                     rest |-> rest]
    <2>1. (dev_own + 1) % IdModulus \in Ids
      <3>1. PICK k \in Nat : k = dev_own + 1
        BY DEF TypeOK
      <3> QED
        BY <3>1, DtxAssumption DEF Ids
    <2>2. m \in Messages
      BY <2>1 DEF TypeOK, Messages
    <2>3. UNCHANGED <<cur, reading, to_dev, channels, calls, next_identifier,
                      next_channel_code, outcomes, dev_open, dev_asked, dev_done>>
      BY <1>4 DEF DevSends, conn, call, history
    <2>4. Asked' = Asked
      BY <2>3 DEF Asked
    <2>5. Underway' \subseteq Underway \cup {m}
      <3>1. \A i \in 1 .. Len(from_dev') :
                \/ \E j \in 1 .. Len(from_dev) : from_dev'[i] = from_dev[j]
                \/ from_dev'[i].msg = m
        BY <1>4, <2>2, WritesType DEF DevSends
      <3> QED
        BY <2>3, <3>1 DEF Underway
    <2>6. CallsNumbered' /\ CodesOnce' /\ ReplyAnswersCall' /\ SuccessIsDone'
      <3>1. calls' \in Nat /\ calls <= calls'
        BY <2>3, DtxAssumption DEF TypeOK
      <3> QED
        BY <1>0, <2>3, <2>4, <3>1, KeepsCalls, KeepsCodes, KeepsOutcomes, KeepsNamed DEF IInv
    <2>7. AnswersTrue'
      <3>1. ~(m.index > 0)
        OBVIOUS
      <3> QED
        BY <2>3, <2>5, <3>1 DEF IInv, AnswersTrue, Numbered
    <2> QED
      BY <2>6, <2>7 DEF IInv
  <1>5. CASE DevHangsUp
    <2>1. UNCHANGED <<cur, reading, from_dev, channels, calls, next_identifier,
                      next_channel_code, outcomes, dev_open, dev_asked, dev_done>>
      BY <1>5 DEF DevHangsUp, conn, call, history, device
    <2>2. to_dev' = <<>>
      BY <1>5 DEF DevHangsUp
    <2>3. Asked' \subseteq Asked /\ Underway' = Underway
      BY <2>1, <2>2 DEF Asked, Underway
    <2> QED
      BY <1>0, <2>1, <2>3, Keeps
  <1> QED
    BY <1>1, <1>2, <1>3, <1>4, <1>5 DEF Answer, DevSend

LEMMA NextInv ==
    ASSUME TypeOK, IInv, [Next]_vars
    PROVE  IInv'
  <1>1. CASE UNCHANGED vars
    <2>1. UNCHANGED <<cur, reading, from_dev, to_dev, dev_asked, channels, dev_open, calls,
                      next_identifier, next_channel_code, outcomes, dev_done>>
      BY <1>1 DEF vars, conn, call, history, device
    <2>2. Asked' = Asked /\ Underway' = Underway
      BY <2>1 DEF Asked, Underway
    <2>3. channels \subseteq Named /\ dev_open \subseteq Named
      BY DEF Named
    <2> QED
      BY <2>1, <2>2, <2>3, Keeps
  <1> QED
    BY <1>1, CallInv, ContinueInv, DeviceInv DEF Next

\* The invariant holds of every behaviour: requests, answers and codes keep their
\* owners through failures, late answers and torn messages (dtx_connection.cpp:87-192).
THEOREM Inductive == Spec => []IInv
  <1>1. Init => IInv
    BY InitInv
  <1>2. TypeOK /\ IInv /\ [Next]_vars => IInv'
    BY NextInv
  <1> QED
    BY <1>1, <1>2, TypeCorrect, PTL DEF Spec
-----------------------------------------------------------------------------
(* The theorems.                                                           *)

\* As long as the identifier has not gone all the way round, what a call returns
\* answers that very call: not an earlier one the host gave up, nor anything the
\* device sent of its own (dtx_connection.cpp:168-174).
THEOREM RepliesMatch == Spec => []ReplyAnswersCall
  <1>1. IInv => ReplyAnswersCall
    BY DEF IInv
  <1> QED
    BY <1>1, Inductive, PTL

\* Nor does a launch or a kill report success the device did not have
\* (process_control.cpp:43-60).
THEOREM SuccessesDone == Spec => []SuccessIsDone
  <1>1. IInv => SuccessIsDone
    BY DEF IInv
  <1> QED
    BY <1>1, Inductive, PTL

\* And a code under which the host holds a channel and the device has one open is for
\* the same service on both, whichever requests failed or were answered late
\* (dtx_connection.cpp:180).  The device may have none open: request_channel takes an
\* error for an answer.
THEOREM CodesMatch == Spec => []CodeNamesService
  <1>1. IInv => CodeNamesService
    BY DEF IInv, CodesOnce, Named, CodeNamesService
  <1> QED
    BY <1>1, Inductive, PTL
-----------------------------------------------------------------------------
(* The messages that come in besides the reply.                            *)

Climbs(q)  == \A i, j \in 1 .. Len(q) : i < j => q[i] < q[j]
Members(q) == {q[i] : i \in 1 .. Len(q)}

\* What next_pending gave out and will give out.
Kept == handed \o PendingAts

\* The messages begin one behind the other in the stream, the last one sent last.
StartsClimb ==
    \A i \in 1 .. Len(from_dev) :
        /\ from_dev[i].msg.at <= dev_sent
        /\ from_dev[i].part = 1 => \A j \in 1 .. Len(from_dev) :
               i < j /\ from_dev[j].part = 1 => from_dev[i].msg.at < from_dev[j].msg.at

\* What was read is behind what will be: the message whose header was read is a new
\* one, and what begins in the stream is newer.
ReadBehind ==
    /\ \A n \in taken : n <= dev_sent
    /\ \A m \in reading :
           /\ m.at <= dev_sent
           /\ \A n \in taken : n < m.at
    /\ \A i \in 1 .. Len(from_dev) : from_dev[i].part = 1 =>
           /\ \A n \in taken : n < from_dev[i].msg.at
           /\ \A m \in reading : m.at < from_dev[i].msg.at

\* What is kept is what was taken, in that order, and so are the acknowledgements.
KeptInOrder ==
    /\ Climbs(Kept)
    /\ taken = Members(Kept) \cup Members(received) \cup {o.at : o \in outcomes} \cup lost

AcksInOrder ==
    /\ Climbs(acked)
    /\ Members(acked) \subseteq taken
    /\ \A i \in 1 .. Len(pending) : pending[i].expects => pending[i].at \in Members(acked)

KeepInv == StartsClimb /\ ReadBehind /\ KeptInOrder /\ AcksInOrder
-----------------------------------------------------------------------------
\* A number behind all others.
LEMMA ClimbsOn ==
    ASSUME NEW q \in Seq(Nat), NEW x \in Nat, Climbs(q), \A y \in Members(q) : y < x
    PROVE  /\ Climbs(Append(q, x))
           /\ Members(Append(q, x)) = Members(q) \cup {x}
  <1> DEFINE r == Append(q, x)
  <1>1. PICK n \in Nat : n = Len(q)
    BY LenProperties
  <1>2. Len(r) = n + 1 /\ r[n + 1] = x /\ \A i \in 1 .. n : r[i] = q[i]
    BY <1>1, AppendFacts
  <1>3. ASSUME NEW i \in 1 .. (n + 1), NEW j \in 1 .. (n + 1), i < j
        PROVE  r[i] < r[j]
    <2>1. i \in 1 .. n
      BY <1>3
    <2>2. CASE j \in 1 .. n
      BY <1>1, <1>2, <1>3, <2>1, <2>2 DEF Climbs
    <2>3. CASE j = n + 1
      BY <1>1, <1>2, <2>1, <2>3 DEF Members
    <2>4. j \in 1 .. n \/ j = n + 1
      BY ONLY n \in Nat, j \in 1 .. (n + 1)
    <2> QED
      BY <2>2, <2>3, <2>4
  <1>4. Members(r) = Members(q) \cup {x}
    <2>1. ASSUME NEW y \in Members(r)
          PROVE  y \in Members(q) \cup {x}
      <3>1. PICK i \in 1 .. (n + 1) : y = r[i]
        BY <1>2 DEF Members
      <3>2. CASE i \in 1 .. n
        BY <1>1, <1>2, <3>1, <3>2 DEF Members
      <3>3. CASE i = n + 1
        BY <1>2, <3>1, <3>3
      <3> QED
        BY <3>2, <3>3
    <2>2. ASSUME NEW i \in 1 .. n
          PROVE  q[i] \in Members(r)
      <3>1. i \in 1 .. Len(r) /\ r[i] = q[i]
        BY <1>2
      <3> QED
        BY <3>1 DEF Members
    <2>3. x \in Members(r)
      <3>1. n + 1 \in 1 .. Len(r) /\ r[n + 1] = x
        BY <1>2
      <3> QED
        BY <3>1 DEF Members
    <2> QED
      BY <1>1, <2>1, <2>2, <2>3 DEF Members
  <1> QED
    BY <1>2, <1>3, <1>4 DEF Climbs

\* The queue as numbers.
LEMMA AtsFacts ==
    ASSUME TypeOK
    PROVE  /\ handed \in Seq(Nat) /\ received \in Seq(Nat) /\ acked \in Seq(Nat)
           /\ pending \in Seq(Messages) /\ Len(pending) \in Nat
           /\ \A i \in 1 .. Len(pending) : pending[i] \in Messages /\ pending[i].at \in Nat
           /\ PendingAts \in Seq(Nat) /\ Len(PendingAts) = Len(pending)
           /\ \A i \in 1 .. Len(pending) : PendingAts[i] = pending[i].at
           /\ Kept \in Seq(Nat)
  <1>1. handed \in Seq(Nat) /\ received \in Seq(Nat) /\ acked \in Seq(Nat)
        /\ pending \in Seq(Messages)
    BY DEF TypeOK
  <1>2. Len(pending) \in Nat /\ \A i \in 1 .. Len(pending) : pending[i] \in Messages
    BY <1>1, LenProperties, ElementOfSeq
  <1>3. \A i \in 1 .. Len(pending) : pending[i].at \in Nat
    BY <1>2 DEF Messages
  <1>4. PICK n \in Nat : n = Len(pending)
    BY <1>2
  <1>5. PendingAts = [i \in 1 .. n |-> pending[i].at]
    BY <1>4 DEF PendingAts
  <1>6. PendingAts \in Seq(Nat) /\ Len(PendingAts) = n
    BY <1>3, <1>4, <1>5
  <1>7. Kept \in Seq(Nat)
    BY <1>1, <1>6, ConcatProperties DEF Kept
  <1> QED
    BY <1>1, <1>2, <1>3, <1>4, <1>5, <1>6, <1>7

\* A message that is queued comes behind what is kept.
LEMMA QueuedBehind ==
    ASSUME TypeOK, TypeOK', NEW m \in Messages, pending' = Append(pending, m), handed' = handed
    PROVE  Kept' = Append(Kept, m.at)
  <1> DEFINE P == PendingAts
  <1>1. m.at \in Nat
    BY DEF Messages
  <1>2. PICK n \in Nat : n = Len(pending)
    BY AtsFacts
  <1>3. Len(pending') = n + 1 /\ pending'[n + 1] = m /\ \A i \in 1 .. n : pending'[i] = pending[i]
    BY <1>2, AtsFacts, AppendFacts
  <1>4. P \in Seq(Nat) /\ Len(P) = n /\ \A i \in 1 .. n : P[i] = pending[i].at
    BY <1>2, AtsFacts
  <1>5. P' = [i \in 1 .. (n + 1) |-> pending'[i].at]
    BY <1>3 DEF PendingAts
  <1>6. Append(P, m.at) \in Seq(Nat) /\ Len(Append(P, m.at)) = n + 1
        /\ Append(P, m.at)[n + 1] = m.at /\ \A i \in 1 .. n : Append(P, m.at)[i] = P[i]
    BY <1>1, <1>4, AppendFacts
  <1>7. P' \in Seq(Nat) /\ Len(P') = n + 1
    <2>1. \A i \in 1 .. (n + 1) : pending'[i].at \in Nat
      <3>1. \A i \in 1 .. (n + 1) : i \in 1 .. n \/ i = n + 1
        OBVIOUS
      <3> QED
        BY <1>1, <1>2, <1>3, <3>1, AtsFacts
    <2>2. PICK k \in Nat : k = n + 1
      OBVIOUS
    <2>3. P' = [i \in 1 .. k |-> pending'[i].at] /\ \A i \in 1 .. k : pending'[i].at \in Nat
      BY <1>5, <2>1, <2>2
    <2>4. P' \in Seq(Nat) /\ Len(P') = k
      BY ONLY <2>3, k \in Nat
    <2> QED
      BY <2>2, <2>4
  <1>8. \A i \in 1 .. (n + 1) : P'[i] = Append(P, m.at)[i]
    <2>1. ASSUME NEW i \in 1 .. (n + 1)
          PROVE  P'[i] = Append(P, m.at)[i]
      <3>1. P'[i] = pending'[i].at
        BY <1>5
      <3>2. CASE i \in 1 .. n
        BY <1>3, <1>4, <1>6, <3>1, <3>2
      <3>3. CASE i = n + 1
        BY <1>3, <1>6, <3>1, <3>3
      <3>4. i \in 1 .. n \/ i = n + 1
        BY ONLY n \in Nat, i \in 1 .. (n + 1)
      <3> QED
        BY <3>2, <3>3, <3>4
    <2> QED
      BY <2>1
  <1>9. P' = Append(P, m.at)
    BY <1>6, <1>7, <1>8, SeqEqual
  <1>10. handed \in Seq(Nat) /\ <<m.at>> \in Seq(Nat)
    BY <1>1, AtsFacts
  <1>11. Append(P, m.at) = P \o <<m.at>> /\ Append(handed \o P, m.at) = (handed \o P) \o <<m.at>>
    BY <1>1, <1>4, <1>10, ConcatProperties, AppendIsConcat
  <1> QED
    BY <1>4, <1>9, <1>10, <1>11, ConcatAssociative, SMTT(30) DEF Kept

\* What next_pending returns stays where it is among what is kept.
LEMMA HandedOver ==
    ASSUME TypeOK, TypeOK', NextPending
    PROVE  Kept' = Kept
  <1> DEFINE P == PendingAts
             x == Head(pending).at
  <1>1. pending # <<>> /\ handed' = Append(handed, x) /\ pending' = Tail(pending)
    BY DEF NextPending
  <1>2. PICK n \in Nat : n = Len(pending)
    BY AtsFacts
  <1>3. /\ n >= 1 /\ Len(pending') = n - 1 /\ x = pending[1].at
        /\ \A i \in 1 .. (n - 1) : pending'[i] = pending[i + 1]
    BY <1>1, <1>2, AtsFacts, TailFacts
  <1>4. P \in Seq(Nat) /\ Len(P) = n /\ \A i \in 1 .. n : P[i] = pending[i].at
    BY <1>2, AtsFacts
  <1>5. P' = [i \in 1 .. (n - 1) |-> pending'[i].at]
    BY <1>3 DEF PendingAts
  <1>6. P # <<>> /\ Head(P) = x /\ 1 \in 1 .. n
    BY <1>3, <1>4, EmptySeq
  <1>7. Tail(P) \in Seq(Nat) /\ Len(Tail(P)) = n - 1
        /\ \A i \in 1 .. (n - 1) : Tail(P)[i] = P[i + 1]
    BY <1>4, <1>6, TailFacts
  <1>8. \A i \in 1 .. (n - 1) : P'[i] = Tail(P)[i]
    <2>1. ASSUME NEW i \in 1 .. (n - 1)
          PROVE  P'[i] = Tail(P)[i]
      <3>1. i + 1 \in 1 .. n
        BY <1>3
      <3> QED
        BY <1>3, <1>4, <1>5, <1>7, <3>1
    <2> QED
      BY <2>1
  <1>9. P' \in Seq(Nat) /\ Len(P') = n - 1
    <2>1. n - 1 \in Nat
      BY <1>3
    <2>2. \A i \in 1 .. (n - 1) : pending'[i].at \in Nat
      <3>1. \A i \in 1 .. (n - 1) : i + 1 \in 1 .. n
        BY <1>3
      <3> QED
        BY <1>2, <1>3, <3>1, AtsFacts
    <2> QED
      BY <1>5, <2>1, <2>2
  <1>10. P' = Tail(P)
    BY <1>7, <1>8, <1>9, SeqEqual
  <1>11. x \in Nat /\ <<x>> \in Seq(Nat) /\ handed \in Seq(Nat)
    BY <1>2, <1>3, <1>6, AtsFacts
  <1>12. P = <<x>> \o Tail(P)
    <2>1. P = <<P[1]>> \o SubSeq(P, 2, n) /\ SubSeq(P, 1, n) = P
      BY <1>3, <1>4, SubSeqRecursiveFirst, SubSeqFull
    <2>2. Tail(P) = SubSeq(P, 2, n)
      BY <1>4, <1>6, TailIsSubSeq
    <2> QED
      BY <1>3, <1>4, <1>6, <2>1, <2>2
  <1>13. Append(handed, x) = handed \o <<x>>
    BY <1>11, AppendIsConcat
  <1>14. (handed \o <<x>>) \o Tail(P) = handed \o (<<x>> \o Tail(P))
    BY <1>7, <1>11, ConcatAssociative
  <1>15. Kept' = (handed \o <<x>>) \o Tail(P)
    BY <1>1, <1>10, <1>13 DEF Kept
  <1>16. Kept = handed \o P
    BY DEF Kept
  <1> QED
    BY <1>12, <1>14, <1>15, <1>16
-----------------------------------------------------------------------------
\* Taking units off the front of the stream.
CutBy(n) ==
    /\ n \in Nat /\ Len(from_dev') \in Nat
    /\ Len(from_dev) = Len(from_dev') + n
    /\ \A i \in 1 .. Len(from_dev') :
           i + n \in 1 .. Len(from_dev) /\ from_dev'[i] = from_dev[i + n]

\* That is what a read does.
LEMMA DropCuts ==
    ASSUME TypeOK, NEW n \in Nat, Has(n), Drop(n)
    PROVE  CutBy(n)
  <1>1. PICK k \in Nat : k = Len(from_dev)
    BY LenProperties DEF TypeOK
  <1>2. from_dev \in Seq(Units) /\ n <= k /\ from_dev' = SubSeq(from_dev, n + 1, k)
    BY <1>1 DEF TypeOK, Has, Drop
  <1>3. \A i \in n + 1 .. k : from_dev[i] \in Units
    BY <1>1, <1>2, ElementOfSeq
  <1>4. /\ Len(from_dev') = IF n + 1 <= k THEN k - (n + 1) + 1 ELSE 0
        /\ \A i \in 1 .. k - (n + 1) + 1 : from_dev'[i] = from_dev[(n + 1) + i - 1]
    BY <1>2, <1>3, SubSeqProperties
  <1>5. PICK d \in Nat : d = k - n
    BY <1>2
  <1>6. Len(from_dev') = d /\ k = d + n
    BY <1>2, <1>4, <1>5
  <1>7. ASSUME NEW i \in 1 .. d
        PROVE  i + n \in 1 .. k /\ from_dev'[i] = from_dev[i + n]
    <2>1. i \in 1 .. k - (n + 1) + 1 /\ (n + 1) + i - 1 = i + n /\ i + n \in 1 .. k
      BY ONLY <1>6, d \in Nat, n \in Nat, k \in Nat, i \in 1 .. d
    <2> QED
      BY <1>4, <2>1
  <1> QED
    BY <1>1, <1>6, <1>7 DEF CutBy

\* What such a step keeps, when nothing new is read and nothing taken.
LEMMA CutKeepsStarts ==
    ASSUME TypeOK, StartsClimb, NEW n \in Nat, CutBy(n), dev_sent' = dev_sent
    PROVE  StartsClimb'
  <1>1. ASSUME NEW i \in 1 .. Len(from_dev'), NEW j \in 1 .. Len(from_dev')
        PROVE  /\ i + n \in 1 .. Len(from_dev) /\ from_dev'[i] = from_dev[i + n]
               /\ j + n \in 1 .. Len(from_dev) /\ from_dev'[j] = from_dev[j + n]
               /\ i < j => i + n < j + n
    <2>1. i < j => i + n < j + n
      BY ONLY n \in Nat, i \in 1 .. Len(from_dev'), j \in 1 .. Len(from_dev')
    <2> QED
      BY <2>1 DEF CutBy
  <1> QED
    BY <1>1 DEF StartsClimb

\* What is newer than what was read stays so.
LEMMA CutKeepsBehind ==
    ASSUME TypeOK, ReadBehind, NEW n \in Nat, CutBy(n), dev_sent' = dev_sent,
           taken' = taken, reading' \subseteq reading
    PROVE  ReadBehind'
  <1>1. \A i \in 1 .. Len(from_dev') :
            i + n \in 1 .. Len(from_dev) /\ from_dev'[i] = from_dev[i + n]
    BY DEF CutBy
  <1> QED
    BY <1>1 DEF ReadBehind

\* A message in the stream begins with its first unit, and only there.
LEMMA WritesClimb ==
    ASSUME TypeOK, StartsClimb, ReadBehind, NEW m \in Messages, DevWrites(m),
           m.at = dev_sent + 1, taken' = taken, reading' = reading
    PROVE  StartsClimb' /\ ReadBehind'
  <1>1. PICK n \in Nat : n = HeaderUnits + m.rest
    BY DEF HeaderUnits, Messages
  <1>2. Frame(m) = [k \in 1 .. n |-> [msg |-> m, part |-> k]]
    BY <1>1 DEF Frame
  <1>3. /\ Frame(m) \in Seq(Units) /\ Len(Frame(m)) = n
        /\ \A k \in 1 .. n : Frame(m)[k].msg = m /\ Frame(m)[k].part = k
    BY <1>2 DEF Units
  <1>4. PICK a \in Nat : a = Len(from_dev)
    BY LenProperties DEF TypeOK
  <1>5. from_dev' = from_dev \o Frame(m) /\ from_dev \in Seq(Units) /\ dev_sent \in Nat
        /\ dev_sent' = dev_sent + 1
    BY DEF DevWrites, TypeOK
  <1>6. /\ Len(from_dev') = a + n
        /\ \A i \in 1 .. (a + n) :
               from_dev'[i] = IF i <= a THEN from_dev[i] ELSE Frame(m)[i - a]
    <2>1. LET q == Frame(m)
          IN  /\ Len(from_dev \o q) = Len(from_dev) + Len(q)
              /\ \A i \in 1 .. Len(from_dev) + Len(q) :
                     (from_dev \o q)[i] = IF i <= Len(from_dev) THEN from_dev[i]
                                          ELSE q[i - Len(from_dev)]
      BY <1>3, <1>5, ConcatProperties, ZenonT(30)
    <2> QED
      BY <1>3, <1>4, <1>5, <2>1
  <1>7. ASSUME NEW i \in 1 .. (a + n)
        PROVE  \/ i \in 1 .. a /\ from_dev'[i] = from_dev[i] /\ from_dev[i].msg.at \in Nat
               \/ i > a /\ from_dev'[i].msg = m /\ from_dev'[i].part = i - a
    <2>1. CASE i <= a
      <3>1. i \in 1 .. a
        BY <2>1
      <3>2. from_dev[i] \in Units
        BY <1>4, <1>5, <3>1, ElementOfSeq
      <3> QED
        BY <1>6, <2>1, <3>1, <3>2 DEF Units, Messages
    <2>2. CASE ~(i <= a)
      <3>1. i - a \in 1 .. n
        BY <2>2
      <3> QED
        BY <1>3, <1>6, <2>2, <3>1
    <2> QED
      BY <2>1, <2>2
  <1>8. StartsClimb'
    <2>1. ASSUME NEW i \in 1 .. (a + n)
          PROVE  from_dev'[i].msg.at <= dev_sent'
      <3>1. CASE i \in 1 .. a /\ from_dev'[i] = from_dev[i] /\ from_dev[i].msg.at \in Nat
        BY <1>4, <1>5, <3>1 DEF StartsClimb
      <3>2. CASE from_dev'[i].msg = m
        BY <1>5, <3>2
      <3> QED
        BY <1>7, <3>1, <3>2
    <2>2. ASSUME NEW i \in 1 .. (a + n), NEW j \in 1 .. (a + n), i < j,
                 from_dev'[i].part = 1, from_dev'[j].part = 1
          PROVE  from_dev'[i].msg.at < from_dev'[j].msg.at
      <3>1. CASE j > a
        <4>1. from_dev'[j].msg.at = dev_sent + 1 /\ j - a = 1
          BY <1>7, <2>2, <3>1
        <4>2. i \in 1 .. a
          BY <2>2, <4>1
        <4>3. from_dev'[i] = from_dev[i] /\ from_dev[i].msg.at \in Nat
          BY <1>7, <4>2
        <4>4. from_dev'[i].msg.at \in Nat /\ from_dev'[i].msg.at <= dev_sent
          BY <1>4, <4>2, <4>3 DEF StartsClimb
        <4>5. PICK x \in Nat, d \in Nat : x = from_dev'[i].msg.at /\ d = dev_sent
          BY <1>5, <4>4
        <4>6. x < d + 1
          BY <4>4, <4>5
        <4> QED
          BY <4>1, <4>5, <4>6
      <3>2. CASE ~(j > a)
        <4>1. i \in 1 .. a /\ j \in 1 .. a
          BY <2>2, <3>2
        <4>2. from_dev'[i] = from_dev[i] /\ from_dev'[j] = from_dev[j]
          BY <1>7, <4>1
        <4> QED
          BY <1>4, <2>2, <4>1, <4>2 DEF StartsClimb
      <3> QED
        BY <3>1, <3>2
    <2> QED
      BY <1>6, <2>1, <2>2 DEF StartsClimb
  <1>9. ReadBehind'
    <2>1. (\A x \in taken : x \in Nat) /\ (\A r \in reading : r.at \in Nat)
      BY DEF TypeOK, Messages
    <2>2. \A x \in taken : x <= dev_sent'
      BY <1>5, <2>1 DEF ReadBehind
    <2>3. \A r \in reading : r.at <= dev_sent' /\ \A x \in taken : x < r.at
      BY <1>5, <2>1 DEF ReadBehind
    <2>4. ASSUME NEW i \in 1 .. (a + n), from_dev'[i].part = 1
          PROVE  /\ \A x \in taken : x < from_dev'[i].msg.at
                 /\ \A r \in reading : r.at < from_dev'[i].msg.at
      <3>1. CASE i \in 1 .. a /\ from_dev'[i] = from_dev[i]
        BY <1>4, <2>4, <3>1 DEF ReadBehind
      <3>2. CASE from_dev'[i].msg = m
        BY <1>5, <2>1, <3>2 DEF ReadBehind
      <3> QED
        BY <1>7, <3>1, <3>2
    <2> QED
      BY <1>6, <2>2, <2>3, <2>4 DEF ReadBehind
  <1> QED
    BY <1>8, <1>9
-----------------------------------------------------------------------------
\* A message is read whole: it is newer than all that was taken, and than nothing that
\* will be read.
LEMMA TakenNext ==
    ASSUME TypeOK, StartsClimb, ReadBehind, NEW m \in reading, CutBy(m.rest),
           dev_sent' = dev_sent, taken' = taken \cup {m.at}, reading' = {}
    PROVE  StartsClimb' /\ ReadBehind'
  <1>1. m.rest \in Nat /\ m.at \in Nat
    BY DEF TypeOK, Messages
  <1>2. StartsClimb'
    BY <1>1, CutKeepsStarts
  <1>3. \A i \in 1 .. Len(from_dev') :
            i + m.rest \in 1 .. Len(from_dev) /\ from_dev'[i] = from_dev[i + m.rest]
    BY DEF CutBy
  <1>4. ReadBehind'
    BY <1>3 DEF ReadBehind
  <1> QED
    BY <1>2, <1>4

\* What happens to the calls and the queue, and what must be so for the order to be kept.
KeepsAll == UNCHANGED <<taken, outcomes, handed, pending, received, acked, lost>>

\* A message that was read whole is taken, whatever becomes of it.
Becomes(m) ==
    \/ pending' = Append(pending, m) /\ UNCHANGED <<handed, received, outcomes, lost>>
    \/ received' = Append(received, m.at) /\ UNCHANGED <<handed, pending, outcomes, lost>>
    \/ /\ \E o \in Outcomes : o.at = m.at /\ outcomes' = outcomes \cup {o}
       /\ UNCHANGED <<handed, pending, received, lost>>
    \/ lost' = lost \cup {m.at} /\ UNCHANGED <<handed, pending, received, outcomes>>

Acknowledges(m) ==
    \/ m.expects /\ acked' = Append(acked, m.at)
    \/ (m.expects => pending' = pending) /\ acked' = acked

\* A step that takes nothing keeps the order of what was taken.
LEMMA AllKept ==
    ASSUME KeepsAll
    PROVE  KeptInOrder /\ AcksInOrder => KeptInOrder' /\ AcksInOrder'
  <1>1. Kept' = Kept
    BY DEF KeepsAll, Kept, PendingAts
  <1> QED
    BY <1>1 DEF KeepsAll, KeptInOrder, AcksInOrder, Climbs, Members

\* The queue, and what was handed out, grow by newer messages only.
LEMMA BecomesKept ==
    ASSUME TypeOK, TypeOK', KeptInOrder, NEW m \in Messages, \A n \in taken : n < m.at,
           Becomes(m), taken' = taken \cup {m.at}
    PROVE  KeptInOrder'
  <1>1. m.at \in Nat /\ Kept \in Seq(Nat) /\ received \in Seq(Nat)
    BY AtsFacts DEF Messages
  <1>2. CASE pending' = Append(pending, m) /\ UNCHANGED <<handed, received, outcomes, lost>>
    <2>1. Kept' = Append(Kept, m.at)
      BY <1>2, QueuedBehind
    <2>2. \A y \in Members(Kept) : y < m.at
      BY DEF KeptInOrder
    <2>3. Climbs(Kept') /\ Members(Kept') = Members(Kept) \cup {m.at}
      BY <1>1, <2>1, <2>2, ClimbsOn DEF KeptInOrder
    <2>4. Members(received') = Members(received)
      BY <1>2
    <2> QED
      BY <1>2, <2>3, <2>4 DEF KeptInOrder, Climbs, Members
  <1>3. CASE Kept' = Kept /\ UNCHANGED <<received, outcomes>> /\ lost' = lost \cup {m.at}
    BY <1>3 DEF KeptInOrder, Climbs, Members
  <1>4. CASE /\ Kept' = Kept /\ UNCHANGED <<received, lost>>
             /\ \E o \in Outcomes : o.at = m.at /\ outcomes' = outcomes \cup {o}
    BY <1>4 DEF KeptInOrder, Climbs, Members
  <1>5. CASE Kept' = Kept /\ UNCHANGED <<outcomes, lost>> /\ received' = Append(received, m.at)
    <2>1. Members(received') = Members(received) \cup {m.at}
      <3>1. PICK n \in Nat : n = Len(received)
        BY <1>1, LenProperties
      <3>2. /\ Len(received') = n + 1 /\ received'[n + 1] = m.at
            /\ \A i \in 1 .. n : received'[i] = received[i]
        BY <1>1, <1>5, <3>1, AppendFacts
      <3>3. \A i \in 1 .. (n + 1) : i \in 1 .. n \/ i = n + 1
        OBVIOUS
      <3>4. n + 1 \in 1 .. (n + 1) /\ \A i \in 1 .. n : i \in 1 .. (n + 1)
        OBVIOUS
      <3> QED
        BY <3>1, <3>2, <3>3, <3>4 DEF Members
    <2> QED
      BY <1>5, <2>1 DEF KeptInOrder, Climbs, Members
  <1>6. UNCHANGED <<handed, pending>> => Kept' = Kept
    BY DEF Kept, PendingAts
  <1> QED
    BY <1>2, <1>3, <1>4, <1>5, <1>6 DEF Becomes

\* So do the acknowledgements, and a message that wants one is queued with it.
LEMMA AcksKept ==
    ASSUME TypeOK, TypeOK', AcksInOrder, NEW m \in Messages, \A n \in taken : n < m.at,
           Becomes(m), Acknowledges(m), taken' = taken \cup {m.at}
    PROVE  AcksInOrder'
  <1>1. m.at \in Nat /\ acked \in Seq(Nat) /\ pending \in Seq(Messages)
    BY AtsFacts DEF Messages
  <1>2. /\ Climbs(acked')
        /\ Members(acked') = Members(acked) \/ Members(acked') = Members(acked) \cup {m.at}
        /\ m.expects /\ pending' # pending => m.at \in Members(acked')
    <2>1. CASE m.expects /\ acked' = Append(acked, m.at)
      <3>1. \A y \in Members(acked) : y < m.at
        BY DEF AcksInOrder
      <3> QED
        BY <1>1, <2>1, <3>1, ClimbsOn DEF AcksInOrder
    <2>2. CASE (m.expects => pending' = pending) /\ acked' = acked
      BY <2>2 DEF AcksInOrder
    <2> QED
      BY <2>1, <2>2 DEF Acknowledges
  <1>3. Members(acked') \subseteq taken'
    BY <1>2 DEF AcksInOrder
  <1>4. ASSUME NEW i \in 1 .. Len(pending'), pending'[i].expects
        PROVE  pending'[i].at \in Members(acked')
    <2>1. CASE pending' = pending
      BY <1>2, <1>4, <2>1 DEF AcksInOrder
    <2>2. CASE pending' # pending
      <3>1. PICK n \in Nat : n = Len(pending)
        BY <1>1, LenProperties
      <3>2. pending' = Append(pending, m)
        BY <2>2 DEF Becomes
      <3>3. /\ Len(pending') = n + 1 /\ pending'[n + 1] = m
            /\ \A j \in 1 .. n : pending'[j] = pending[j]
        BY <1>1, <3>1, <3>2, AppendFacts
      <3>4. i \in 1 .. n \/ i = n + 1
        BY <3>3
      <3>5. CASE i \in 1 .. n
        BY <1>2, <1>4, <3>1, <3>3, <3>5 DEF AcksInOrder
      <3>6. CASE i = n + 1
        BY <1>2, <1>4, <2>2, <3>3, <3>6
      <3> QED
        BY <3>4, <3>5, <3>6
    <2> QED
      BY <2>1, <2>2
  <1>5. Climbs(acked)'
    BY <1>2 DEF Climbs
  <1>6. Members(acked)' = Members(acked')
    BY DEF Members
  <1> QED
    BY <1>3, <1>4, <1>5, <1>6 DEF AcksInOrder
-----------------------------------------------------------------------------
(* The steps.                                                              *)

\* A new connection has read nothing.
LEMMA KeepInit == Init => KeepInv
  <1> SUFFICES ASSUME Init PROVE KeepInv
    OBVIOUS
  <1>1. /\ pending = <<>> /\ handed = <<>> /\ received = <<>> /\ acked = <<>> /\ from_dev = <<>>
        /\ taken = {} /\ reading = {} /\ outcomes = {} /\ lost = {}
    BY DEF Init
  <1>2. Len(<<>>) = 0 /\ 1 .. 0 = {}
    OBVIOUS
  <1>3. TypeOK
    BY InitType
  <1>4. Len(PendingAts) = 0 /\ Len(handed) = 0 /\ PendingAts \in Seq(Nat) /\ handed \in Seq(Nat)
    BY <1>1, <1>2, <1>3, AtsFacts
  <1>5. Len(Kept) = 0
    BY <1>4, ConcatProperties DEF Kept
  <1>6. Members(Kept) = {} /\ Climbs(Kept)
    BY <1>2, <1>5 DEF Members, Climbs
  <1>7. Members(received) = {} /\ Members(acked) = {} /\ Climbs(acked)
    BY <1>1, <1>2 DEF Members, Climbs
  <1> QED
    BY <1>1, <1>2, <1>6, <1>7 DEF KeepInv, StartsClimb, ReadBehind, KeptInOrder, AcksInOrder

\* A call that begins reads nothing and takes nothing.
LEMMA CallKeep ==
    ASSUME TypeOK, TypeOK', KeepInv, Call
    PROVE  KeepInv'
  <1>1. UNCHANGED <<from_dev, dev_sent, taken>> /\ reading' \subseteq reading
    BY DEF Call, RequestChannel, MethodCall, Request, Receive, NextPending, Return, device, call, history
  <1>2. CutBy(0)
    <2>1. PICK n \in Nat : n = Len(from_dev)
      BY LenProperties DEF TypeOK
    <2> QED
      BY <1>1, <2>1 DEF CutBy
  <1>3. StartsClimb' /\ ReadBehind'
    BY <1>1, <1>2, CutKeepsStarts, CutKeepsBehind DEF KeepInv
  <1>4. CASE NextPending
    <2>1. Kept' = Kept
      BY <1>4, HandedOver
    <2>2. UNCHANGED <<taken, outcomes, received, acked, lost>>
      BY <1>4 DEF NextPending
    <2>3. KeptInOrder'
      BY <2>1, <2>2 DEF KeepInv, KeptInOrder, Climbs, Members
    <2>4. ASSUME NEW i \in 1 .. Len(pending')
          PROVE  pending'[i] = pending[i + 1] /\ i + 1 \in 1 .. Len(pending)
      <3>1. pending # <<>> /\ pending' = Tail(pending) /\ pending \in Seq(Messages)
        BY <1>4, AtsFacts DEF NextPending
      <3>2. PICK n \in Nat : n = Len(pending)
        BY AtsFacts
      <3>3. Len(pending') = n - 1 /\ pending'[i] = pending[i + 1]
        BY <3>1, <3>2, TailFacts
      <3> QED
        BY <3>2, <3>3
    <2>5. AcksInOrder'
      BY <2>2, <2>4 DEF KeepInv, AcksInOrder, Climbs, Members
    <2> QED
      BY <1>3, <2>3, <2>5 DEF KeepInv
  <1>5. CASE KeepsAll
    BY <1>3, <1>5, AllKept DEF KeepInv
  <1> QED
    BY <1>4, <1>5 DEF Call, RequestChannel, MethodCall, Request, Receive, KeepsAll, conn, history

\* What was read so far of a message: nothing that begins in the stream is older.
LEMMA ReadHeaderKeep ==
    ASSUME TypeOK, TypeOK', KeepInv, ReadHeader
    PROVE  KeepInv'
  <1>1. KeepsAll /\ dev_sent' = dev_sent /\ Has(2) /\ Drop(2)
    BY DEF ReadHeader, KeepsAll, conn, history, device, HeaderUnits
  <1>2. CutBy(2)
    BY <1>1, DropCuts
  <1>3. StartsClimb'
    BY <1>1, <1>2, CutKeepsStarts DEF KeepInv
  <1>4. CASE reading' = {}
    BY <1>1, <1>2, <1>4, CutKeepsBehind, <1>3, AllKept DEF KeepInv, KeepsAll
  <1>5. CASE Head(from_dev).part = 1 /\ reading' = {Head(from_dev).msg}
    <2>1. 1 \in 1 .. Len(from_dev) /\ Head(from_dev) = from_dev[1]
      <3>1. from_dev \in Seq(Units) /\ Len(from_dev) \in Nat /\ Len(from_dev) >= 2
        BY <1>1, LenProperties DEF TypeOK, Has
      <3>2. from_dev # <<>>
        BY <3>1, EmptySeq
      <3> QED
        BY <3>1, <3>2, TailFacts
    <2>2. ASSUME NEW i \in 1 .. Len(from_dev')
          PROVE  i + 2 \in 1 .. Len(from_dev) /\ from_dev'[i] = from_dev[i + 2] /\ 1 < i + 2
      BY <1>2 DEF CutBy
    <2>3. ReadBehind'
      BY <1>1, <1>5, <2>1, <2>2 DEF KeepInv, StartsClimb, ReadBehind, KeepsAll
    <2> QED
      BY <1>1, <1>3, <2>3, AllKept DEF KeepInv
  <1> QED
    BY <1>4, <1>5 DEF ReadHeader, Return

\* Every message that is read whole is taken once, and is one of these.
LEMMA TakenKeep ==
    ASSUME TypeOK, TypeOK', KeepInv, NEW m \in reading, Has(m.rest), Drop(m.rest),
           dev_sent' = dev_sent, taken' = taken \cup {m.at}, reading' = {},
           Becomes(m), Acknowledges(m)
    PROVE  KeepInv'
  <1>1. m \in Messages /\ m.rest \in Nat /\ \A n \in taken : n < m.at
    <2>1. m \in Messages
      BY DEF TypeOK
    <2> QED
      BY <2>1 DEF Messages, KeepInv, ReadBehind
  <1>2. CutBy(m.rest)
    BY <1>1, DropCuts
  <1>3. StartsClimb' /\ ReadBehind'
    BY <1>2, TakenNext DEF KeepInv
  <1> QED
    BY <1>1, <1>3, BecomesKept, AcksKept DEF KeepInv

\* DtxConnection::receive and what send_and_await_reply does with the message.
LEMMA ContinueKeep ==
    ASSUME TypeOK, TypeOK', KeepInv, Continue
    PROVE  KeepInv'
  <1>1. CASE ReadHeader
    BY <1>1, ReadHeaderKeep
  <1>2. CASE Refuses
    <2>1. PICK m \in reading : Has(m.rest) /\ Drop(m.rest)
      BY <1>2 DEF Refuses
    <2>2. m \in Messages
      BY DEF TypeOK
    <2>3. m.rest \in Nat
      BY <2>2 DEF Messages
    <2>4. CutBy(m.rest)
      BY <2>1, <2>3, DropCuts
    <2>5. KeepsAll /\ dev_sent' = dev_sent /\ reading' = {}
      BY <1>2 DEF Refuses, Return, KeepsAll, conn, history, device
    <2> QED
      BY <2>3, <2>4, <2>5, CutKeepsStarts, CutKeepsBehind, AllKept DEF KeepInv, KeepsAll
  <1>3. ASSUME NEW m \in reading, Takes(m), reading' = {}, Becomes(m)
        PROVE  KeepInv'
    <2>1. m.expects \in BOOLEAN
      BY DEF TypeOK, Messages
    <2>2. Acknowledges(m)
      BY <1>3, <2>1 DEF Takes, WantsAck, Acknowledges
    <2> QED
      BY <1>3, <2>2, TakenKeep DEF Takes, device
  <1>4. CASE TakesReply
    <2>1. PICK req \in cur, m \in reading :
              /\ Takes(m)
              /\ outcomes' = outcomes \cup {[kind |-> req.kind, call |-> req.call,
                                             answers |-> m.call, at |-> m.at,
                                             ok |-> Succeeds(req.kind, m)]}
              /\ reading' = {}
              /\ UNCHANGED <<pending, handed, received>>
      BY <1>4 DEF TakesReply, Return
    <2> DEFINE o == [kind |-> req.kind, call |-> req.call, answers |-> m.call, at |-> m.at,
                     ok |-> Succeeds(req.kind, m)]
    <2>2. req \in Requests /\ m \in Messages
      BY DEF TypeOK
    <2>3. Succeeds(req.kind, m) \in BOOLEAN
      BY <2>2 DEF Succeeds, Requests, Kinds
    <2>4. o \in Outcomes /\ o.at = m.at
      BY <2>2, <2>3 DEF Requests, Messages, Outcomes
    <2>5. Becomes(m)
      BY <2>1, <2>4 DEF Becomes, Takes
    <2> QED
      BY <1>3, <2>1, <2>5
  <1>5. CASE Queues
    <2>1. PICK m \in reading : /\ Takes(m) /\ pending' = Append(pending, m) /\ reading' = {}
                               /\ UNCHANGED <<outcomes, handed, received>>
      BY <1>5 DEF Queues, Queued
    <2>2. Becomes(m)
      BY <2>1 DEF Becomes, Takes
    <2> QED
      BY <1>3, <2>1, <2>2
  <1>6. CASE Receives
    <2>1. PICK m \in reading : /\ Takes(m) /\ received' = Append(received, m.at) /\ reading' = {}
                               /\ UNCHANGED <<pending, outcomes, handed>>
      BY <1>6 DEF Receives, Return
    <2>2. Becomes(m)
      BY <2>1 DEF Becomes, Takes
    <2> QED
      BY <1>3, <2>1, <2>2
  <1>7. CASE AckFails
    <2>1. PICK m \in reading :
              /\ Has(m.rest) /\ Drop(m.rest) /\ taken' = taken \cup {m.at}
              /\ lost' = lost \cup {m.at} /\ reading' = {} /\ dev_sent' = dev_sent
              /\ UNCHANGED <<pending, outcomes, handed, received, acked>>
      BY <1>7 DEF AckFails, Return, conn, device
    <2>2. Becomes(m) /\ Acknowledges(m)
      BY <2>1 DEF Becomes, Acknowledges
    <2> QED
      BY <2>1, <2>2, TakenKeep
  <1> QED
    BY <1>1, <1>2, <1>4, <1>5, <1>6, <1>7 DEF Continue

\* The device only adds to the stream, and a read that fails only takes from it.
LEMMA DeviceKeep ==
    ASSUME TypeOK, TypeOK', KeepInv, DevTakes \/ Answer \/ DevSend \/ DevHangsUp \/ ReadFails
    PROVE  KeepInv'
  <1>0. KeepsAll /\ reading' \subseteq reading
    BY DEF DevTakes, Answer, DevAnswers, DevSend, DevSends, DevHangsUp, ReadFails, Return, KeepsAll,
       conn, call, history
  <1>1. CASE DevTakes \/ DevHangsUp
    <2>1. UNCHANGED <<from_dev, dev_sent>>
      BY <1>1 DEF DevTakes, DevHangsUp, device
    <2>2. PICK n \in Nat : n = Len(from_dev)
      BY LenProperties DEF TypeOK
    <2>3. CutBy(0)
      BY <2>1, <2>2 DEF CutBy
    <2> QED
      BY <1>0, <2>1, <2>3, CutKeepsStarts, CutKeepsBehind, AllKept DEF KeepInv, KeepsAll
  <1>2. CASE ReadFails
    <2>1. PICK n \in 0 .. (Wanted - 1) : Has(n) /\ Drop(n)
      BY <1>2 DEF ReadFails, ReadFailed
    <2>2. n \in Nat /\ dev_sent' = dev_sent
      BY <1>2, <2>1 DEF ReadFails, device
    <2>3. CutBy(n)
      BY <2>1, <2>2, DropCuts
    <2> QED
      BY <1>0, <2>2, <2>3, CutKeepsStarts, CutKeepsBehind, AllKept DEF KeepInv, KeepsAll
  <1>3. ASSUME NEW m \in Messages, DevWrites(m), m.at = dev_sent + 1, reading' = reading
        PROVE  KeepInv'
    BY <1>0, <1>3, WritesClimb, AllKept DEF KeepInv, KeepsAll
  <1>4. ASSUME NEW req \in dev_asked, NEW body \in {"pid", "other", "error"},
               NEW rest \in 1 .. MaxRest, DevAnswers(req, body, rest)
        PROVE  KeepInv'
    <2> DEFINE m == [at |-> dev_sent + 1, id |-> req.id, index |-> 1, expects |-> FALSE,
                     call |-> req.call, body |-> body, form |-> "good", rest |-> rest]
    <2>1. req \in Requests /\ dev_sent + 1 \in Nat
      BY DEF TypeOK
    <2>2. m \in Messages /\ m.at = dev_sent + 1
      BY <2>1 DEF Requests, Messages
    <2> QED
      BY <1>3, <1>4, <2>2 DEF DevAnswers, call
  <1>5. ASSUME NEW expects \in BOOLEAN, NEW form \in {"good", "fragment", "huge"},
               NEW rest \in 1 .. MaxRest, DevSends(expects, form, rest)
        PROVE  KeepInv'
    <2> DEFINE m == [at |-> dev_sent + 1, id |-> (dev_own + 1) % IdModulus, index |-> 0,
                     expects |-> expects, call |-> 0, body |-> "other", form |-> form,
                     rest |-> rest]
    <2>1. (dev_own + 1) % IdModulus \in Ids
      <3>1. PICK k \in Nat : k = dev_own + 1
        BY DEF TypeOK
      <3> QED
        BY <3>1, DtxAssumption DEF Ids
    <2>2. m \in Messages /\ m.at = dev_sent + 1
      BY <2>1 DEF TypeOK, Messages
    <2> QED
      BY <1>3, <1>5, <2>2 DEF DevSends, call
  <1> QED
    BY <1>1, <1>2, <1>4, <1>5 DEF Answer, DevSend

\* Every step keeps the order.
LEMMA NextKeep ==
    ASSUME TypeOK, TypeOK', KeepInv, [Next]_vars
    PROVE  KeepInv'
  <1>1. CASE UNCHANGED vars
    <2>1. KeepsAll /\ UNCHANGED <<from_dev, dev_sent, reading>>
      BY <1>1 DEF vars, conn, call, history, device, KeepsAll
    <2> QED
      BY <2>1, AllKept DEF KeepInv, KeepsAll, StartsClimb, ReadBehind
  <1> QED
    BY <1>1, CallKeep, ContinueKeep, DeviceKeep DEF Next

\* The stream and the queue of DtxConnection keep the order in which the device sent,
\* through reads cut short and acknowledgements that fail (dtx_connection.cpp:87-219).
THEOREM KeepHolds == Spec => []KeepInv
  <1>1. Init => KeepInv
    BY KeepInit
  <1>2. TypeOK /\ TypeOK' /\ KeepInv /\ [Next]_vars => KeepInv'
    BY NextKeep
  <1> QED
    BY <1>1, <1>2, TypeCorrect, PTL DEF Spec

\* Whatever comes in besides the reply is queued in the order it was sent, handed out
\* once, and acknowledged once and before that, if it asks for it: for any number of
\* calls and messages of the device (DtxConnection::send_and_await_reply,
\* receive, next_pending).
THEOREM NothingDropped == Spec => []IncomingHandled
  <1>1. KeepInv => QueuedInOrder
    BY DEF KeepInv, KeptInOrder, Kept, Climbs, Members, QueuedInOrder
  <1>2. KeepInv => AckedOnce
    <2> SUFFICES ASSUME KeepInv, NEW i \in 1 .. Len(pending), pending[i].expects
                 PROVE  \E j \in 1 .. Len(acked) : acked[j] = pending[i].at
      BY DEF KeepInv, AcksInOrder, Climbs, AckedOnce
    <2> QED
      BY DEF KeepInv, AcksInOrder, Members
  <1> QED
    BY <1>1, <1>2, KeepHolds, PTL DEF IncomingHandled
=============================================================================
