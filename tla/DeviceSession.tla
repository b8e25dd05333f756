--------------------------- MODULE DeviceSession ---------------------------
(***************************************************************************)
(* From a plugged-in device to a lockdown session: connect_with_retry      *)
(* (src/include/ioscpp/device.hpp), Device (src/src/device.cpp), the       *)
(* usbmuxd side of Connection and Stream, Lockdown (src/src/lockdown.cpp), *)
(* and the pairing record with its TLS session (src/src/crypto/pairing.cpp)*)
(* against lockdownd, the person who taps Trust, the cable and the disk.   *)
(*                                                                         *)
(* A key chain is a number, 0 for none: the host's keys, the root and the  *)
(* device certificate are made, stored, sent and presented together.  An   *)
(* answer of lockdownd is a length and a body, read one after the other.   *)
(* It does not name its request; `step` in it is known to the device only, *)
(* the host sees what a body of that kind lets it see.                     *)
(***************************************************************************)
EXTENDS Naturals, Sequences

CONSTANTS
    Vias,          \* how the device is reached: "direct" (mux over USB), "usbmuxd"
    Attempts,      \* connect_with_retry: attempts
    MaxTries,      \* Pair requests that fit in the 120 seconds of pair()
    MaxGens,       \* bound: key chains made
    Services,      \* the services the caller starts, as the ports they are given
    MaxWire,       \* bound: requests the device has not taken yet
    MaxFaults      \* bound: reads given up, writes failed, unplugs, disk errors, records
                   \*        forgotten, crashes

\* Ports are 16 bits wide.
PortValues == 65536

ASSUME DeviceSessionAssumption ==
    /\ Vias \subseteq {"direct", "usbmuxd"}
    /\ Attempts \in Nat \ {0}
    /\ MaxTries \in Nat \ {0}
    /\ MaxGens \in Nat
    /\ Services \subseteq Nat /\ \A s \in Services : s < PortValues
    /\ MaxWire \in Nat \ {0}
    /\ MaxFaults \in Nat

Chains   == 0 .. MaxGens
Ignored  == {"udid", "wifi", "type", "version"}     \* requests whose failure is passed over
Requests == Ignored \cup {"key", "pair", "session", "tls", "service"}
Pairing  == {"wifi", "pair", "save", "write"}       \* the record is filled and not yet saved
Results  == {"ok", "pending", "refused"}
Messages == [step : Requests, arg : Nat, tls : BOOLEAN]
Replies  == [step : Requests, arg : Nat, result : Results]

VARIABLES
    via,           \* Transport::is_usbmuxd
    pc,            \* what the host does next; a request is named for what it asks
    wait,          \* within a request: "send", "length", "body"
    attempt,       \* connect_with_retry: attempt, 0 outside of it
    tries,         \* pair(): requests sent
    chain,         \* Pairing::Impl: the certificates in memory
    tls,           \* Lockdown::Impl::tls is set
    asked, port,   \* start_service: the service asked for, the port answered
    file,          \* the pairing record on disk
    gen,           \* chains made so far
    plugged,       \* the device is attached
    link,          \* the host's transport: "none", "up", "down"
    stream,        \* the lockdown stream: "none", "open", "reset" by the device
    aligned,       \* the next byte to be read is the first of a length
    toDev, toHost, \* requests and answers under way
    trusted,       \* device: the chain it holds for this HostID, 0 for none
    dialog,        \* device: "none", "shown", "trust" or "refuse" tapped
    session,       \* device: "none", "plain", "tls"
    accepted,      \* history: the chains the device accepted
    doubtful,      \* history: chains whose pairing was cut short, or met a fault
    strayed,       \* history: a request on this stream was given up
    good,          \* history: the call began with a record the device trusts, as it still
                   \*          does, and has not succeeded
    since,         \* history: the faults before that call
    missed,        \* history: its attempts that found no device attached
    faults

call    == <<attempt, good, since, missed>>
memory  == <<chain, tries, doubtful>>
disk    == <<file, gen>>
service == <<asked, port>>
wires   == <<toDev, toHost, aligned, strayed>>
cable   == <<via, plugged, link>>
device  == <<trusted, dialog, session, accepted>>
ends    == <<stream, tls>>
vars    == <<pc, wait, call, memory, disk, service, wires, cable, device, ends, faults>>

TypeOK ==
    /\ via \in Vias
    /\ pc \in Requests \cup {"load", "idle", "open", "mux", "stream", "save", "write", "connected", "port"}
    /\ wait \in {"send", "length", "body"}
    /\ attempt \in 0 .. Attempts /\ tries \in 0 .. MaxTries
    /\ chain \in Chains /\ gen \in Chains /\ trusted \in Chains
    /\ tls \in BOOLEAN /\ aligned \in BOOLEAN /\ strayed \in BOOLEAN /\ plugged \in BOOLEAN /\ good \in BOOLEAN
    /\ asked \in Services \cup {0} /\ port \in Nat
    /\ file \in [kind : {"absent", "empty", "torn", "whole"}, chain : Chains]
    /\ link \in {"none", "up", "down"} /\ stream \in {"none", "open", "reset"}
    /\ toDev \in Seq(Messages) /\ toHost \in Seq(Replies)
    /\ dialog \in {"none", "shown", "trust", "refuse"} /\ session \in {"none", "plain", "tls"}
    /\ accepted \subseteq Chains /\ doubtful \subseteq Chains
    /\ faults \in 0 .. MaxFaults /\ since \in 0 .. MaxFaults /\ missed \in Nat

NoFile == [kind |-> "absent", chain |-> 0]

Init ==
    /\ via \in Vias
    /\ pc = "load" /\ wait = "send" /\ attempt = 0 /\ tries = 0 /\ chain = 0 /\ tls = FALSE
    /\ asked = 0 /\ port = 0 /\ file = NoFile /\ gen = 0
    /\ plugged = TRUE /\ link = "none" /\ stream = "none" /\ aligned = TRUE
    /\ toDev = <<>> /\ toHost = <<>>
    /\ trusted = 0 /\ dialog = "none" /\ session = "none"
    /\ accepted = {} /\ doubtful = {} /\ strayed = FALSE /\ good = FALSE /\ since = 0 /\ missed = 0 /\ faults = 0

-----------------------------------------------------------------------------
(* The steps of a connect that go forward, and the one that gives it up.    *)

\* Mutant: what was under way is left for the next attempt.
HangupKeeps ==
    /\ UNCHANGED <<toDev, toHost>> /\ aligned' = TRUE /\ strayed' = FALSE
    /\ link' = "none" /\ stream' = "none" /\ tls' = FALSE /\ session' = "none"
    /\ UNCHANGED <<via, plugged, trusted, dialog, accepted>>

\* The session, the stream and the transport go, in this order; the device
\* ends what it held for them.
Hangup ==
    /\ toDev' = <<>> /\ toHost' = <<>> /\ aligned' = TRUE /\ strayed' = FALSE
    /\ link' = "none" /\ stream' = "none" /\ tls' = FALSE /\ session' = "none"
    /\ UNCHANGED <<via, plugged, trusted, dialog, accepted>>

\* The transport or usbmuxd has no device to give.
Misses == missed' = IF good /\ pc \in {"open", "mux"} /\ link # "down" THEN missed + 1 ELSE missed

\* Mutant: the last attempt is not made.
FailEarly ==
    /\ Hangup /\ Misses
    /\ wait' = "send" /\ tries' = 0
    /\ doubtful' = IF pc \in Pairing THEN doubtful \cup {chain} ELSE doubtful
    /\ IF attempt + 1 < Attempts
         THEN pc' = "open" /\ attempt' = attempt + 1
         ELSE pc' = "idle" /\ attempt' = 0
    /\ UNCHANGED <<good, since, chain, gen, service>>

\* An error of Device::connect: what it opened is closed again, and the next
\* attempt starts over unless it was the last.
Fail ==
    /\ Hangup /\ Misses
    /\ wait' = "send" /\ tries' = 0
    /\ doubtful' = IF pc \in Pairing THEN doubtful \cup {chain} ELSE doubtful
    /\ IF attempt < Attempts
         THEN pc' = "open" /\ attempt' = attempt + 1
         ELSE pc' = "idle" /\ attempt' = 0
    /\ UNCHANGED <<good, since, chain, gen, service>>

\* Mutant: the record is saved before the device has seen it.
FollowingSaves ==
    CASE pc = "udid"    -> IF chain = 0 THEN "key" ELSE "session"
      [] pc = "wifi"    -> "save"
      [] pc = "type"    -> "version"
      [] pc = "version" -> "connected"
      [] pc = "service" -> "connected"

\* Mutant: every connect pairs, as long as it can make a chain.
FollowingAsks ==
    CASE pc = "udid"    -> IF gen < MaxGens THEN "key" ELSE "session"
      [] pc = "wifi"    -> "pair"
      [] pc = "type"    -> "version"
      [] pc = "version" -> "connected"
      [] pc = "service" -> "connected"

\* The request that follows one that is over, whatever became of it.
Following ==
    CASE pc = "udid"    -> IF chain = 0 THEN "key" ELSE "session"
      [] pc = "wifi"    -> "pair"
      [] pc = "type"    -> "version"
      [] pc = "version" -> "connected"
      [] pc = "service" -> "connected"

\* `next` is done next; a connect that is over has succeeded.
Goes(next) ==
    /\ pc' = next /\ wait' = "send"
    /\ tries' = IF next = "pair" /\ pc = "pair" THEN tries + 1 ELSE 0
    /\ IF next = "connected"
         THEN attempt' = 0 /\ good' = FALSE /\ since' = 0 /\ missed' = 0 /\ asked' = 0 /\ port' = 0
         ELSE UNCHANGED <<call, service>>

\* A request that returns an error, on a stream that goes on if the error is
\* one the caller passes over.  Once a part of an answer was taken for a length,
\* all that comes is swallowed by the reads that wait for so much.
Unanswered(whole, given_up) ==
    IF pc \in Ignored \cup {"service"}
      THEN /\ Goes(Following)
           /\ aligned' = whole /\ strayed' = given_up
           /\ toHost' = IF whole THEN toHost ELSE <<>>
           /\ UNCHANGED <<chain, doubtful, disk, toDev, cable, device, ends>>
      ELSE Fail /\ UNCHANGED file

-----------------------------------------------------------------------------
(* The record on disk, and the caller.                                      *)

\* A record that does not parse is an error, and there is no other way on than
\* to delete it.  An absent or an empty one makes a fresh record.
Load ==
    /\ pc = "load" /\ file.kind # "torn"
    /\ pc' = "idle" /\ chain' = file.chain
    /\ UNCHANGED <<wait, call, tries, doubtful, disk, service, wires, cable, device, ends, faults>>

Delete ==
    /\ pc = "load" /\ file.kind = "torn"
    /\ file' = NoFile
    /\ UNCHANGED <<pc, wait, call, memory, gen, service, wires, cable, device, ends, faults>>

Connect ==
    /\ pc = "idle" /\ (gen < MaxGens \/ chain # 0)
    /\ pc' = "open" /\ attempt' = 1
    /\ good' = (chain # 0 /\ chain = trusted)
    /\ since' = (IF good' THEN faults ELSE 0) /\ missed' = 0
    /\ UNCHANGED <<wait, memory, disk, service, wires, cable, device, ends, faults>>

Disconnect ==
    /\ pc = "connected"
    /\ Hangup
    /\ pc' = "idle"
    /\ UNCHANGED <<wait, call, memory, disk, service, faults>>

StartService(s) ==
    /\ pc = "connected"
    /\ pc' = "service" /\ asked' = s
    /\ UNCHANGED <<wait, call, memory, disk, port, wires, cable, device, ends, faults>>

\* A record written only in part is torn, one not yet written is empty.
Crash ==
    /\ pc # "load" /\ faults < MaxFaults
    /\ faults' = faults + 1
    /\ Hangup
    /\ pc' = "load" /\ wait' = "send" /\ attempt' = 0 /\ tries' = 0 /\ chain' = 0
    /\ asked' = 0 /\ port' = 0 /\ good' = FALSE /\ since' = 0 /\ missed' = 0
    /\ file' \in IF pc = "write" THEN {file, [kind |-> "torn", chain |-> 0]} ELSE {file}
    /\ UNCHANGED <<doubtful, gen>>

(* An attempt: the transport, the connection, the stream to lockdownd.      *)

\* A direct transport opens on the attached device; the socket of usbmuxd opens
\* whether a device is attached or not.
OpenTransport ==
    /\ pc = "open"
    /\ IF plugged \/ via = "usbmuxd"
         THEN /\ Goes("mux")
              /\ link' = "up"
              /\ UNCHANGED <<chain, doubtful, disk, wires, via, plugged, device, ends>>
         ELSE Fail /\ UNCHANGED file
    /\ UNCHANGED faults

\* usbmuxd answers ListDevices with at least one device.
DeviceListed == plugged

\* The version handshake, or the device list of usbmuxd and its first entry.
OpenConnection ==
    /\ pc = "mux"
    /\ IF link = "up" /\ (via = "usbmuxd" => DeviceListed)
         THEN Goes("stream") /\ UNCHANGED <<chain, doubtful, disk, wires, cable, device, ends>>
         ELSE Fail /\ UNCHANGED file
    /\ UNCHANGED faults

\* A SYN to lockdownd, or a socket of its own and a Connect to the device listed.
OpenStream ==
    /\ pc = "stream"
    /\ IF link = "up"
         THEN /\ Goes("udid") /\ stream' = "open"
              /\ UNCHANGED <<chain, doubtful, disk, wires, cable, device, tls>>
         ELSE Fail /\ UNCHANGED file
    /\ UNCHANGED faults

\* The stream to the port a service was given; the caller keeps it.
OpenServiceStream ==
    /\ pc = "port"
    /\ Goes("connected")
    /\ UNCHANGED <<chain, doubtful, disk, wires, cable, device, ends, faults>>

-----------------------------------------------------------------------------
(* A request of lockdownd.                                                  *)

Request == [step |-> pc, tls |-> tls \/ pc = "tls",
            arg  |-> IF pc \in {"pair", "tls"} THEN chain ELSE IF pc = "service" THEN asked ELSE 0]

\* A mux port the device has reset still takes frames, a socket it closed does not.
Writable == link = "up" /\ (stream = "open" \/ via = "direct")

Send ==
    /\ pc \in Requests /\ wait = "send" /\ Writable /\ Len(toDev) < MaxWire
    /\ wait' = "length"
    /\ toDev' = IF stream = "open" THEN Append(toDev, Request) ELSE toDev
    /\ UNCHANGED <<pc, call, memory, disk, service, toHost, aligned, strayed, cable, device, ends, faults>>

\* tls_send makes "want write" of every failure and the TLS loops try again:
\* over TLS, and in its handshake, a write to a link that is gone never returns.
Spinning == pc \in Requests /\ wait = "send" /\ ~Writable /\ (tls \/ pc = "tls")

\* Else a write to a link that is gone fails; one to a link that is up may, and then
\* the request has not reached the device.
SendFails ==
    /\ pc \in Requests /\ wait = "send"
    /\ \/ ~Writable /\ ~Spinning /\ UNCHANGED faults
       \/ Writable /\ ~tls /\ pc # "tls" /\ faults < MaxFaults /\ faults' = faults + 1
    /\ Unanswered(aligned, strayed)

Readable == aligned /\ toHost # <<>>

ReadLength ==
    /\ wait = "length" /\ Readable
    /\ wait' = "body"
    /\ UNCHANGED <<pc, call, memory, disk, service, wires, cable, device, ends, faults>>

\* Mutant: a stream the device has reset is waited on.
ReadFailsOnLink ==
    /\ wait \in {"length", "body"}
    /\ ~aligned \/ (toHost = <<>> /\ link = "down")
    /\ Unanswered(aligned /\ wait = "length", strayed)
    /\ UNCHANGED faults

\* Nothing more can come: the link or the stream is gone, or the host takes
\* four bytes from the middle of an answer for a length.
ReadFails ==
    /\ wait \in {"length", "body"}
    /\ ~aligned \/ (toHost = <<>> /\ (link = "down" \/ stream = "reset"))
    /\ Unanswered(aligned /\ wait = "length", strayed)
    /\ UNCHANGED faults

\* The budget of the transport runs out before the answer comes.  The answer, or
\* the rest of it, is still under way.
GiveUp ==
    /\ wait \in {"length", "body"} /\ aligned /\ link = "up" /\ stream = "open"
    /\ faults < MaxFaults
    /\ faults' = faults + 1
    /\ Unanswered(wait = "length", TRUE)

Answer      == Head(toHost)
Reads(step) == pc = step /\ wait = "body" /\ Readable

\* The answer is taken and `next` follows.
Takes(next) ==
    /\ Goes(next)
    /\ toHost' = Tail(toHost)
    /\ UNCHANGED <<disk, toDev, aligned, strayed, cable, device, stream, faults>>

Refused == Fail /\ UNCHANGED <<file, faults>>

ReadIgnored ==
    /\ pc \in Ignored /\ Reads(pc)
    /\ Takes(Following)
    /\ UNCHANGED <<chain, doubtful, tls>>

\* The root, host and device certificates with their keys, made anew.
NewChain == gen + 1

\* The device key must be data, which no other answer holds.  The chain made for
\* it is in the record before the device has seen it.
ReadKey ==
    /\ Reads("key")
    /\ IF Answer.result = "ok" /\ Answer.step = "key"
         THEN /\ Goes("wifi")
              /\ gen' = NewChain /\ chain' = NewChain
              /\ toHost' = Tail(toHost)
              /\ UNCHANGED <<doubtful, file, toDev, aligned, strayed, cable, device, ends, faults>>
         ELSE Refused

\* Mutant: there is no deadline.
ReadPairForEver ==
    /\ Reads("pair")
    /\ \/ /\ Answer.result = "ok"
          /\ Takes("save")
          /\ doubtful' = IF strayed THEN doubtful \cup {chain} ELSE doubtful
          /\ UNCHANGED <<chain, tls>>
       \/ Answer.result = "pending" /\ Takes("pair") /\ UNCHANGED <<chain, doubtful, tls>>
       \/ Answer.result = "refused" /\ Refused

\* Any answer without an error is an acceptance.  Pending ones are asked again
\* until the 120 seconds are over.
ReadPair ==
    /\ Reads("pair")
    /\ \/ /\ Answer.result = "ok"
          /\ Takes("save")
          /\ doubtful' = IF strayed THEN doubtful \cup {chain} ELSE doubtful
          /\ UNCHANGED <<chain, tls>>
       \/ /\ Answer.result = "pending" /\ tries + 1 < MaxTries
          /\ Takes("pair")
          /\ UNCHANGED <<chain, doubtful, tls>>
       \/ /\ Answer.result = "refused" \/ (Answer.result = "pending" /\ tries + 1 >= MaxTries)
          /\ Refused

\* Without an error the session counts as started; TLS is started when the
\* answer says so.
ReadSession ==
    /\ Reads("session")
    /\ IF Answer.result = "ok"
         THEN /\ Takes(IF Answer.step = "session" /\ Answer.arg = 1 THEN "tls" ELSE "type")
              /\ UNCHANGED <<chain, doubtful, tls>>
         ELSE Refused

ReadHandshake ==
    /\ Reads("tls")
    /\ IF Answer.step = "tls" /\ Answer.result = "ok"
         THEN Takes("type") /\ tls' = TRUE /\ UNCHANGED <<chain, doubtful>>
         ELSE Refused

\* The port is whatever an answer with a port in it says, cut to 16 bits.
ReadService ==
    /\ Reads("service")
    /\ IF Answer.step = "service" /\ Answer.result = "ok"
         THEN /\ pc' = "port" /\ wait' = "send" /\ port' = Answer.arg % PortValues
              /\ toHost' = Tail(toHost)
              /\ UNCHANGED <<call, memory, disk, asked, toDev, aligned, strayed, cable, device, ends, faults>>
         ELSE Takes("connected") /\ UNCHANGED <<chain, doubtful, tls>>

-----------------------------------------------------------------------------
(* Pairing::save: the file is truncated, then written, then closed.         *)

Truncate ==
    /\ pc = "save"
    /\ Goes("write")
    /\ file' = [kind |-> "empty", chain |-> 0]
    /\ UNCHANGED <<chain, doubtful, gen, wires, cable, device, ends, faults>>

WriteRecord ==
    /\ pc = "write"
    /\ Goes("session")
    /\ file' = [kind |-> "whole", chain |-> chain]
    /\ UNCHANGED <<chain, doubtful, gen, wires, cable, device, ends, faults>>

\* A file that cannot be opened or a short write is an error; what only the
\* close would report is passed over.
DiskFails ==
    /\ pc \in {"save", "write"} /\ faults < MaxFaults
    /\ faults' = faults + 1
    /\ file' = IF pc = "save" THEN file ELSE [kind |-> "torn", chain |-> 0]
    /\ \/ Fail
       \/ /\ pc = "write"
          /\ Goes("session")
          /\ doubtful' = doubtful \cup {chain}
          /\ UNCHANGED <<chain, gen, wires, cable, device, ends>>

-----------------------------------------------------------------------------
(* The device, the person who holds it, and the cable.                      *)

\* lockdownd takes a request in its turn.  What comes in the clear where it
\* expects TLS, and a client that has not the key of the chain it trusts, make
\* it reset the stream.
DeviceResets ==
    /\ link = "up" /\ stream = "open" /\ toDev # <<>>
    /\ LET m == Head(toDev) IN
         \/ m.tls # (session = "tls")
         \/ m.step = "tls" /\ m.arg # trusted
    /\ stream' = "reset" /\ session' = "none" /\ toDev' = <<>>
    /\ UNCHANGED <<pc, wait, call, memory, disk, service, toHost, aligned, strayed, cable, tls,
                   trusted, dialog, accepted, faults>>

\* The device answers the request it takes.
DeviceReplies(step, outcome, arg) ==
    /\ link = "up" /\ stream = "open" /\ toDev # <<>>
    /\ Head(toDev).step = step /\ Head(toDev).tls = (session = "tls")
    /\ toDev' = Tail(toDev)
    /\ toHost' = Append(toHost, [step |-> step, result |-> outcome, arg |-> arg])
    /\ UNCHANGED <<pc, wait, call, memory, disk, service, aligned, strayed, cable, ends, faults>>

DeviceTells ==
    /\ \E step \in Ignored \cup {"key"} : DeviceReplies(step, "ok", 0)
    /\ UNCHANGED device

DevicePairs ==
    LET c == Head(toDev).arg IN
    \/ /\ dialog \in {"none", "shown"}
       /\ DeviceReplies("pair", "pending", 0)
       /\ dialog' = "shown"
       /\ UNCHANGED <<trusted, session, accepted>>
    \/ /\ dialog = "trust"
       /\ DeviceReplies("pair", "ok", c)
       /\ trusted' = c /\ accepted' = accepted \cup {c} /\ dialog' = "none"
       /\ UNCHANGED session
    \/ /\ dialog = "refuse"
       /\ DeviceReplies("pair", "refused", 0)
       /\ dialog' = "none"
       /\ UNCHANGED <<trusted, session, accepted>>

DeviceStartsSession ==
    /\ IF trusted = 0
         THEN DeviceReplies("session", "refused", 0) /\ UNCHANGED session
         ELSE \E ssl \in {"plain", "tls"} :
                /\ DeviceReplies("session", "ok", IF ssl = "tls" THEN 1 ELSE 0)
                /\ session' = ssl
    /\ UNCHANGED <<trusted, dialog, accepted>>

DeviceShakesHands ==
    /\ toDev # <<>> /\ Head(toDev).arg = trusted
    /\ DeviceReplies("tls", "ok", 0)
    /\ UNCHANGED device

DeviceStartsService ==
    /\ DeviceReplies("service", IF session = "none" THEN "refused" ELSE "ok", Head(toDev).arg)
    /\ UNCHANGED device

Tap(answer) ==
    /\ dialog = "shown"
    /\ dialog' = answer
    /\ UNCHANGED <<pc, wait, call, memory, disk, service, wires, cable, trusted, session, accepted, ends, faults>>

\* The settings of the device let its owner drop every host it trusts.
Forget ==
    /\ trusted # 0 /\ faults < MaxFaults
    /\ faults' = faults + 1 /\ trusted' = 0 /\ good' = FALSE /\ since' = 0 /\ missed' = 0
    /\ UNCHANGED <<pc, wait, attempt, memory, disk, service, wires, cable, dialog, session, accepted,
                   ends>>

Unplug ==
    /\ plugged /\ faults < MaxFaults
    /\ faults' = faults + 1 /\ plugged' = FALSE /\ dialog' = "none"
    /\ link' = IF link = "none" \/ (via = "usbmuxd" /\ pc = "mux") THEN link ELSE "down"
    /\ toDev' = <<>> /\ toHost' = <<>> /\ session' = "none"
    /\ stream' = IF stream = "none" THEN "none" ELSE "reset"
    /\ UNCHANGED <<pc, wait, call, memory, disk, service, aligned, strayed, via, trusted, accepted,
                   tls>>

Replug ==
    /\ ~plugged
    /\ plugged' = TRUE
    /\ UNCHANGED <<pc, wait, call, memory, disk, service, wires, via, link, device, ends, faults>>

-----------------------------------------------------------------------------
HostNext ==
    \/ Load \/ OpenTransport \/ OpenConnection \/ OpenStream \/ OpenServiceStream
    \/ Send \/ SendFails \/ ReadLength \/ ReadFails
    \/ ReadIgnored \/ ReadKey \/ ReadPair \/ ReadSession \/ ReadHandshake \/ ReadService
    \/ Truncate \/ WriteRecord

DeviceNext ==
    \/ DeviceResets \/ DeviceTells \/ DevicePairs \/ DeviceStartsSession
    \/ DeviceShakesHands \/ DeviceStartsService

CallerNext == Connect \/ Disconnect \/ Delete \/ \E s \in Services : StartService(s)

FaultNext == GiveUp \/ DiskFails \/ Crash \/ Forget \/ Unplug

Next ==
    \/ HostNext \/ DeviceNext \/ CallerNext \/ FaultNext
    \/ \E answer \in {"trust", "refuse"} : Tap(answer)
    \/ Replug

Spec     == Init /\ [][Next]_vars
FairSpec == Spec /\ WF_vars(HostNext) /\ WF_vars(DeviceNext)

-----------------------------------------------------------------------------
(* Properties                                                               *)

InSession == {"session", "tls", "type", "version", "connected", "service", "port"}

\* lockdownd does not number its answers: unless a request was given up on the
\* stream, the one message under way is the request in progress or its answer.
\* (Lockdown::request reads the next answer whatever it answers.)
AnswersMatch ==
    ~strayed =>
        /\ Len(toDev) + Len(toHost) <= 1
        /\ toDev \o toHost # <<>> => wait # "send"
        /\ \A i \in DOMAIN toDev : toDev[i].step = pc
        /\ \A i \in DOMAIN toHost : toHost[i].step = pc

\* "A pairing record saved once is reusable" (docs/08-assumptions.md): the
\* device accepted what the file holds, through crashes and retries.
SavedIsAccepted == file.kind = "whole" /\ file.chain \notin doubtful => file.chain \in accepted

\* A device that was connected will be connected to again without a question:
\* its record is on disk as it is in memory (Device::connect saves what it paired).
ConnectedIsSaved ==
    pc \in InSession /\ chain \notin doubtful => file = [kind |-> "whole", chain |-> chain]

\* The record on disk is one the device accepted, and that of every session, through
\* refusals, full disks, crashes between the two writes and retries.
RecordsHold == SavedIsAccepted /\ ConnectedIsSaved

\* Host and device speak TLS together or neither does, unless an answer of a
\* request given up was taken for the one of StartSession.
TlsAgrees ==
    pc \in {"type", "version", "connected", "service", "port"} /\ ~strayed /\ stream = "open"
        => session = (IF tls THEN "tls" ELSE "plain")

\* The stream of a service goes to the port of that service.
PortIsForService == pc = "port" /\ ~strayed => port = asked

\* The two ends of a session stay in step: each answer is read for the request it
\* answers, both speak TLS or neither, and a service is reached at its own port.
SessionAgrees == AnswersMatch /\ TlsAgrees /\ PortIsForService

\* connect_with_retry outlasts what is over by the next attempt, a replug as much as
\* a read or a write that failed: with a record the device trusts throughout it fails
\* only if each of its attempts met a fault of its own or found no device attached.
RetryOutlastsFaults == pc = "idle" /\ good => (faults - since) + missed >= Attempts

\* "the next run reuses it and the device does not ask for trust again"
\* (pairing.hpp on pair()): no new question while the file holds the record the
\* device trusts.
NoSecondDialog ==
    [][file.kind = "whole" /\ file.chain = trusted /\ dialog = "none" => dialog' # "shown"]_vars

\* Every call returns, whatever the link, the device and its owner do, except on
\* the TLS writes that try for ever.
CallsReturn ==
    (pc \notin {"load", "idle", "connected"}) ~> (pc \in {"load", "idle", "connected"} \/ Spinning)
=============================================================================
