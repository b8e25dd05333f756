-------------------------------- MODULE Dtx --------------------------------
(***************************************************************************)
(* A DtxConnection (src/src/dtx_connection.cpp), the channels it opened    *)
(* and the calls ProcessControl makes on them, against the device.         *)
(*                                                                         *)
(* The host is one thread of blocking calls, cut at its reads.  The        *)
(* ByteStream below is reliable and in order.  What comes in is counted in *)
(* units of 16 bytes: the header of a message is two, its rest (payload    *)
(* header, auxiliary, payload) one or more.  A read that fails between the *)
(* two leaves the stream in the middle of a message, and what is read next *)
(* is taken for a header.                                                  *)
(*                                                                         *)
(* A message is written in one go.  A write that fails may have sent a     *)
(* part, after which the device cannot tell where a message starts.        *)
(***************************************************************************)
EXTENDS Integers, Sequences, FiniteSets

CONSTANTS
    Services,   \* channel identifiers
    IdModulus,  \* 2^32 in the code: next_identifier_ is a std::uint32_t
    MaxRest,    \* bound: units of a message of the device behind its header
    MaxCalls,   \* bound: calls of the host
    MaxSends,   \* bound: messages the device sends of its own
    MaxWire,    \* bound: units under way when the device sends
    MaxFaults   \* bound: stream calls that fail on a stream that is up

ASSUME DtxAssumption ==
    /\ IdModulus \in Nat \ {0, 1}
    /\ MaxRest \in Nat \ {0}
    /\ MaxCalls \in Nat
    /\ MaxSends \in Nat
    /\ MaxWire \in Nat
    /\ MaxFaults \in Nat

HeaderUnits == 2                    \* kDtxHeaderSize
Kinds       == {"channel", "launch", "kill"}
Ids         == 0 .. (IdModulus - 1)

\* `code` is the channel a request is sent on, or the one it is to open; `call` is a
\* history: which call of the host a message belongs to, 0 for none.
Requests  == [kind : Kinds, id : Ids, code : Nat, service : Services, call : Nat]
Acks      == [kind : {"ack"}, id : Ids, index : Nat]
\* `at` is a history: the number of the message among those of the device.
Messages  == [at : Nat, id : Ids, index : Nat, expects : BOOLEAN, call : Nat,
              body : {"pid", "other", "error"}, form : {"good", "fragment", "huge"},
              rest : 1 .. MaxRest]
Units     == [msg : Messages, part : Nat]
Channels  == [code : Nat, service : Services]
Outcomes  == [kind : Kinds, call : Nat, answers : Nat, at : Nat, ok : BOOLEAN]

VARIABLES
    next_identifier,    \* DtxConnection::next_identifier_
    next_channel_code,  \* DtxConnection::next_channel_code_
    pending,            \* DtxConnection::pending_
    channels,           \* the DtxChannels the caller was given
    op,                 \* the call: "idle", or what it reads, "header" or "rest"
    cur,                \* the request in progress, empty for a plain receive
    reading,            \* the message whose header was read
    faults,             \* history: stream calls that failed on a stream that is up
    to_dev,             \* messages under way to the device
    from_dev,           \* units under way to the host
    calls,              \* history: calls begun
    outcomes,           \* history: what the calls returned
    taken,              \* history: messages read whole and understood
    handed,             \* history: messages next_pending returned
    received,           \* history: messages a plain receive returned
    acked,              \* history: messages acknowledged, in order
    lost,               \* history: messages whose acknowledgement failed
    dev,                \* device: "up", "deaf" or "gone"
    dev_open,           \* device: channels it opened
    dev_asked,          \* device: requests it has not answered
    dev_done,           \* device: calls it carried out
    dev_sent,           \* device: messages it sent
    dev_own             \* device: those it sent of its own

conn    == <<next_identifier, next_channel_code, pending, channels>>
call    == <<op, cur, reading>>
history == <<calls, outcomes, taken, handed, received, acked, lost>>
device  == <<dev_open, dev_asked, dev_done, dev_sent, dev_own>>
vars    == <<conn, call, faults, to_dev, from_dev, history, dev, device>>

TypeOK ==
    /\ next_identifier \in Ids
    /\ next_channel_code \in Nat \ {0}
    /\ pending \in Seq(Messages)
    /\ channels \subseteq Channels
    /\ op \in {"idle", "header", "rest"}
    /\ cur \subseteq Requests
    /\ reading \subseteq Messages
    /\ op = "rest" => reading # {}
    /\ faults \in 0 .. MaxFaults
    /\ to_dev \in Seq(Requests \cup Acks)
    /\ from_dev \in Seq(Units)
    /\ calls \in 0 .. MaxCalls
    /\ outcomes \subseteq Outcomes
    /\ taken \subseteq Nat
    /\ handed \in Seq(Nat)
    /\ received \in Seq(Nat)
    /\ acked \in Seq(Nat)
    /\ lost \subseteq Nat
    /\ dev \in {"up", "deaf", "gone"}
    /\ dev_open \subseteq Channels
    /\ dev_asked \subseteq Requests
    /\ dev_done \subseteq Nat
    /\ dev_sent \in Nat
    /\ dev_own \in 0 .. MaxSends

Init ==
    /\ next_identifier = 1
    /\ next_channel_code = 1
    /\ pending = <<>>
    /\ channels = {}
    /\ op = "idle"
    /\ cur = {}
    /\ reading = {}
    /\ faults = 0
    /\ to_dev = <<>>
    /\ from_dev = <<>>
    /\ calls = 0
    /\ outcomes = {}
    /\ taken = {}
    /\ handed = <<>>
    /\ received = <<>>
    /\ acked = <<>>
    /\ lost = {}
    /\ dev = "up"
    /\ dev_open = {}
    /\ dev_asked = {}
    /\ dev_done = {}
    /\ dev_sent = 0
    /\ dev_own = 0
-----------------------------------------------------------------------------
(* The stream.                                                             *)

\* What is written to a device that is gone may still be reported as sent.
Sent(m) ==
    /\ to_dev' = IF dev = "up" THEN Append(to_dev, m) ELSE to_dev
    /\ UNCHANGED <<faults, dev>>

\* A call of the stream that fails: the device is gone, or it is its own trouble.
Trouble ==
    /\ dev = "gone" \/ faults < MaxFaults
    /\ faults' = IF dev = "gone" THEN faults ELSE faults + 1

SendFails ==
    /\ Trouble
    /\ dev' \in IF dev = "up" THEN {"up", "deaf"} ELSE {dev}
    /\ UNCHANGED to_dev

Has(n) == Len(from_dev) >= n
Drop(n) == from_dev' = SubSeq(from_dev, n + 1, Len(from_dev))

Wanted == IF op = "header" THEN HeaderUnits
          ELSE CHOOSE n \in 1 .. MaxRest : \A m \in reading : m.rest = n

\* A read_exact that fails has used up nothing (Stream) or a part (TcpLink).
ReadFailed ==
    /\ \/ dev = "gone" /\ ~Has(Wanted)
       \/ dev # "gone" /\ faults < MaxFaults
    /\ Trouble
    /\ \E n \in 0 .. (Wanted - 1) : Has(n) /\ Drop(n)
    /\ UNCHANGED <<to_dev, dev>>
-----------------------------------------------------------------------------
(* The calls of the host.                                                  *)

\* Every way out of a call; what was not read stays in the stream.
Return == op' = "idle" /\ cur' = {} /\ reading' = {}

\* Mutant: the counter is wider than the field it is sent in.
IdentifierWide(id) == id + 1

IdentifierAfter(id) == (id + 1) % IdModulus

\* send_and_await_reply: the identifier is used up whether or not the write fails.
Request(kind, code, service) ==
    LET req == [kind |-> kind, id |-> next_identifier, code |-> code, service |-> service,
                call |-> calls + 1]
    IN  /\ op = "idle"
        /\ calls < MaxCalls
        /\ calls' = calls + 1
        /\ next_identifier' = IdentifierAfter(next_identifier)
        /\ \/ Sent(req) /\ op' = "header" /\ cur' = {req} /\ UNCHANGED reading
           \/ SendFails /\ Return
        /\ UNCHANGED <<pending, channels, from_dev, outcomes, taken, handed, received,
                       acked, lost, device>>

\* Mutant: the code is not used up.
CodeKept(code) == code

CodeAfter(code) == code + 1

\* request_channel: the code is used up whatever comes of the request.
RequestChannel(service) ==
    /\ Request("channel", next_channel_code, service)
    /\ next_channel_code' = CodeAfter(next_channel_code)

\* ProcessControl::launch, process_identifier and kill: DtxChannel::method_call.
MethodCall(kind, c) ==
    /\ Request(kind, c.code, c.service)
    /\ UNCHANGED next_channel_code

\* DtxConnection::receive, called by the caller itself.
Receive ==
    /\ op = "idle"
    /\ op' = "header"
    /\ UNCHANGED <<conn, cur, reading, faults, to_dev, from_dev, history, dev, device>>

\* DtxConnection::next_pending.
NextPending ==
    /\ op = "idle"
    /\ pending # <<>>
    /\ handed' = Append(handed, Head(pending).at)
    /\ pending' = Tail(pending)
    /\ UNCHANGED <<next_identifier, next_channel_code, channels, call, faults, to_dev,
                   from_dev, calls, outcomes, taken, received, acked, lost, dev, device>>
-----------------------------------------------------------------------------
(* DtxConnection::receive.                                                 *)

ReadHeader ==
    LET u == Head(from_dev)
    IN  /\ op = "header"
        /\ Has(HeaderUnits)
        /\ Drop(HeaderUnits)
        /\ IF u.part = 1 /\ u.msg.form # "huge"
           THEN op' = "rest" /\ reading' = {u.msg} /\ UNCHANGED cur
           ELSE Return
        /\ UNCHANGED <<conn, faults, to_dev, history, dev, device>>

ReadFails ==
    /\ op # "idle"
    /\ ReadFailed
    /\ Return
    /\ UNCHANGED <<conn, history, device>>

\* Dtx::parse refuses a message with more than one fragment, and forgets it.
Refuses ==
    \E m \in reading :
        /\ op = "rest"
        /\ Has(m.rest) /\ Drop(m.rest)
        /\ m.form = "fragment"
        /\ Return
        /\ UNCHANGED <<conn, faults, to_dev, history, dev, device>>

Ack(m) == [kind |-> "ack", id |-> m.id, index |-> m.index + 1]

WantsAck(m) == m.expects

\* The acknowledgement cannot be written: the message is lost.
AckFails ==
    \E m \in reading :
        /\ op = "rest"
        /\ Has(m.rest) /\ Drop(m.rest)
        /\ m.form = "good"
        /\ WantsAck(m)
        /\ SendFails
        /\ taken' = taken \cup {m.at}
        /\ lost' = lost \cup {m.at}
        /\ Return
        /\ UNCHANGED <<conn, calls, outcomes, handed, received, acked, device>>

\* The message is whole, and acknowledged if it expects that.
Takes(m) ==
    /\ op = "rest"
    /\ Has(m.rest) /\ Drop(m.rest)
    /\ m.form = "good"
    /\ taken' = taken \cup {m.at}
    /\ IF WantsAck(m)
       THEN Sent(Ack(m)) /\ acked' = Append(acked, m.at)
       ELSE UNCHANGED <<to_dev, faults, dev, acked>>
    /\ UNCHANGED <<next_identifier, next_channel_code, calls, lost, device>>

\* Mutant: the identifiers of the device are taken for those of the host.
SameId(m, req) == m.id = req.id

\* Mutant: the reply is compared with the next identifier, not the request's.
NextId(m, req) == m.id = next_identifier /\ m.index > 0

IsReply(m, req) == m.id = req.id /\ m.index > 0

\* Mutant: an error is not told from an answer.
AnyReply(kind, m) == TRUE

\* request_channel looks at no more than that a reply came; reply_pid wants a
\* process id, and kill no more than that it is no error.
Succeeds(kind, m) ==
    CASE kind = "channel" -> TRUE
      [] kind = "launch"  -> m.body = "pid"
      [] kind = "kill"    -> m.body # "error"

\* send_and_await_reply returns the reply.
TakesReply ==
    \E req \in cur, m \in reading :
        /\ Takes(m)
        /\ IsReply(m, req)
        /\ outcomes' = outcomes \cup {[kind |-> req.kind, call |-> req.call,
                                       answers |-> m.call, at |-> m.at,
                                       ok |-> Succeeds(req.kind, m)]}
        /\ channels' = IF req.kind = "channel"
                       THEN channels \cup {[code |-> req.code, service |-> req.service]}
                       ELSE channels
        /\ Return
        /\ UNCHANGED <<pending, handed, received>>

\* Mutant: what arrives while a reply is awaited is put first.
Pushed(m) == <<m>> \o pending

Queued(m) == Append(pending, m)

\* It queues any other message, and reads on.
Queues ==
    \E req \in cur, m \in reading :
        /\ Takes(m)
        /\ ~IsReply(m, req)
        /\ pending' = Queued(m)
        /\ op' = "header"
        /\ reading' = {}
        /\ UNCHANGED <<cur, channels, outcomes, handed, received>>

\* A plain receive returns the message, ahead of what is queued.
Receives ==
    \E m \in reading :
        /\ cur = {}
        /\ Takes(m)
        /\ received' = Append(received, m.at)
        /\ Return
        /\ UNCHANGED <<pending, channels, outcomes, handed>>
-----------------------------------------------------------------------------
(* The device, as the code counts on it: it numbers the messages of its    *)
(* own from 1 as the host does, and answers requests in any order.         *)

DevTakes ==
    LET m == Head(to_dev)
    IN  /\ dev = "up"
        /\ to_dev # <<>>
        /\ to_dev' = Tail(to_dev)
        /\ dev_asked' = IF m.kind = "ack" THEN dev_asked ELSE dev_asked \cup {m}
        /\ UNCHANGED <<conn, call, faults, from_dev, history, dev, dev_open, dev_done,
                       dev_sent, dev_own>>

Frame(m) ==
    [k \in 1 .. (HeaderUnits + m.rest) |-> [msg |-> m, part |-> k]]

DevWrites(m) ==
    /\ dev # "gone"
    /\ Len(from_dev) < MaxWire
    /\ from_dev' = from_dev \o Frame(m)
    /\ dev_sent' = dev_sent + 1

\* It does what it is asked on a channel it opened, and says so, or says why not.
DevAnswers(req, body, rest) ==
    /\ DevWrites([at |-> dev_sent + 1, id |-> req.id, index |-> 1, expects |-> FALSE,
                  call |-> req.call, body |-> body, form |-> "good", rest |-> rest])
    /\ dev_asked' = dev_asked \ {req}
    /\ \/ body = "error" /\ UNCHANGED <<dev_open, dev_done>>
       \/ /\ body # "error"
          /\ req.kind = "channel"
          /\ dev_open' = dev_open \cup {[code |-> req.code, service |-> req.service]}
          /\ dev_done' = dev_done \cup {req.call}
       \/ /\ body # "error"
          /\ [code |-> req.code, service |-> req.service] \in dev_open
          /\ req.kind # "channel"
          /\ dev_done' = dev_done \cup {req.call}
          /\ UNCHANGED dev_open
    /\ UNCHANGED <<conn, call, faults, to_dev, history, dev, dev_own>>

\* _notifyOfPublishedCapabilities:, output of a process, calls of the device.
DevSends(expects, form, rest) ==
    /\ dev_own < MaxSends
    /\ dev_own' = dev_own + 1
    /\ DevWrites([at |-> dev_sent + 1, id |-> (dev_own + 1) % IdModulus, index |-> 0,
                  expects |-> expects, call |-> 0, body |-> "other", form |-> form,
                  rest |-> rest])
    /\ UNCHANGED <<conn, call, faults, to_dev, history, dev, dev_open, dev_asked, dev_done>>

\* The service ends; what it sent before can still be read.
DevHangsUp ==
    /\ dev # "gone"
    /\ dev' = "gone"
    /\ to_dev' = <<>>
    /\ UNCHANGED <<conn, call, faults, from_dev, history, device>>
-----------------------------------------------------------------------------
Call ==
    \/ \E service \in Services : RequestChannel(service)
    \/ \E kind \in {"launch", "kill"}, c \in channels : MethodCall(kind, c)
    \/ Receive \/ NextPending

Continue ==
    ReadHeader \/ Refuses \/ TakesReply \/ Queues \/ Receives \/ AckFails

Answer ==
    \E req \in dev_asked, body \in {"pid", "other", "error"}, rest \in 1 .. MaxRest :
        DevAnswers(req, body, rest)

DevSend ==
    \E expects \in BOOLEAN, form \in {"good", "fragment", "huge"}, rest \in 1 .. MaxRest :
        DevSends(expects, form, rest)

Next == Call \/ Continue \/ ReadFails \/ DevTakes \/ Answer \/ DevSend \/ DevHangsUp

Spec == Init /\ [][Next]_vars

\* The thread runs, and a read of a stream that ended fails; the device takes what
\* it is sent and answers it; one that cannot follow hangs up.
Fairness ==
    /\ WF_vars(Continue)
    /\ WF_vars(dev = "gone" /\ ReadFails)
    /\ WF_vars(DevTakes)
    /\ WF_vars(Answer)
    /\ WF_vars(dev = "deaf" /\ DevHangsUp)

FairSpec == Spec /\ Fairness
-----------------------------------------------------------------------------
NoWrap == calls < IdModulus
PendingAts == [i \in 1 .. Len(pending) |-> pending[i].at]

\* "routes a reply to the caller that awaits it" (dtx_connection.hpp:73): what a
\* call returns answers that very call, though the answers to calls that failed
\* still come in and the device's own identifiers are the same numbers.
ReplyAnswersCall == NoWrap => \A o \in outcomes : o.answers = o.call

\* "awaits a reply, which proves the device acted on the request"
\* (docs/04-blockers.md:371): a launch or kill that succeeds was carried out.
SuccessIsDone ==
    NoWrap => \A o \in outcomes : o.ok /\ o.kind # "channel" => o.call \in dev_done

\* "a message that is not this reply is queued rather than dropped"
\* (dtx_connection.cpp:160): what came in whole was queued, and comes out of the
\* queue in that order and once, unless it was the reply, was given to a plain
\* receive, or could not be acknowledged.
QueuedInOrder ==
    LET kept == handed \o PendingAts
    IN  /\ \A i, j \in 1 .. Len(kept) : i < j => kept[i] < kept[j]
        /\ taken = {kept[i] : i \in 1 .. Len(kept)}
                   \cup {received[i] : i \in 1 .. Len(received)}
                   \cup {o.at : o \in outcomes} \cup lost

\* "acks a message that expects a reply" (dtx_connection.hpp:73): once, and
\* before anybody is given the message.
AckedOnce ==
    /\ \A i, j \in 1 .. Len(acked) : i < j => acked[i] < acked[j]
    /\ \A i \in 1 .. Len(pending) :
          pending[i].expects => \E j \in 1 .. Len(acked) : acked[j] = pending[i].at

\* What comes in besides the reply (DtxConnection::send_and_await_reply, receive,
\* next_pending): each message is kept in order for whoever asks next, and
\* acknowledged once.
IncomingHandled == QueuedInOrder /\ AckedOnce

\* "Opens identifier on a fresh channel" (dtx_connection.hpp:102): a code never
\* names two services, not even after a request the host gave up and the device
\* carried out late.  That the device opened a channel at all is not said here:
\* request_channel takes an error for an answer too.
CodeNamesService ==
    \A c \in channels, d \in dev_open : c.code = d.code => c.service = d.service

\* A call that awaits a reply returns, when the device answers or hangs up.
CallsReturn == cur # {} ~> op = "idle"
=============================================================================
