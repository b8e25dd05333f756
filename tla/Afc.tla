-------------------------------- MODULE Afc --------------------------------
(***************************************************************************)
(* The AFC client (src/src/afc.cpp) over one service stream, against the   *)
(* file service of the device and the host's own disk.                     *)
(*                                                                         *)
(* A call is a string of transactions, each one packet out and one back.   *)
(* An answer is a header and a payload, read one after the other.  A chunk *)
(* of a file is a number; a file is a sequence of them.  A handle is the   *)
(* number of the packet that opened it.                                    *)
(***************************************************************************)
EXTENDS Naturals, Sequences

CONSTANTS
    Paths,         \* the remote paths
    MaxChunks,     \* bound: chunks of a file
    MaxCalls,      \* bound: calls on one stream
    MaxFaults      \* bound: reads given up, streams lost, refusals and disk errors

ASSUME AfcAssumption ==
    /\ Paths # {}
    /\ MaxChunks \in Nat
    /\ MaxCalls \in Nat
    /\ MaxFaults \in Nat

Chunks  == 1 .. 2 * MaxChunks
Files   == Seq(Chunks)
Simple  == {"list", "stat", "remove", "mkdir", "rename"}     \* one transaction each
Ops     == Simple \cup {"open_r", "open_w", "read", "write", "close"}
Kinds   == {"status", "data", "open"}
Packets == [num : Nat, op : Ops, path : Paths, to : Paths, handle : Nat, chunk : Nat]
Answers == [num : Nat, kind : Kinds, code : {0, 1}, data : Seq(Nat)]
Units   == [part : {"header", "payload"}, answer : Answers]
Handles == [handle : Nat, path : Paths, pos : Nat]

VARIABLES
    stream,        \* the service stream: "closed", "open", "down"
    packet_num,    \* Afc::Impl::packet_num
    aligned,       \* the next byte to be read begins a header or is the payload expected
    op,            \* the call in progress: "idle", "pull", "push" or one of Simple
    step,          \* within pull and push: "open", "body", "close"
    wait,          \* within a transaction: "send", "header", "payload"
    path, to,      \* the paths the call is about
    handle,        \* the handle of pull and push
    left,          \* push: the chunks not yet read from the local file
    source,        \* push: the local file; pull: the remote file as it was opened
    target,        \* pull: the local file
    status,        \* what pull or push will return: TRUE for no error
    result,        \* what the last call returned: "none", "ok", "error"
    toDev, toHost, \* packets and units under way
    files,         \* device: the files there are, by path
    handles,       \* device: the handles open
    done,          \* history: packets the device carried out
    credited,      \* history: the last packet the host took for carried out, 0 for none
    spoilt,        \* history: a transaction of this stream was cut short
    leaked,        \* history: a pull found no local file to write, or a close was not sent
    cut,           \* history: the local file of this call, or the last, failed unnoticed
    calls, faults

file_io == <<step, handle, left, source, target, status>>
client  == <<op, wait, path, to, result, packet_num>>
wires   == <<toDev, toHost, aligned>>
afcd    == <<files, handles, done>>
past    == <<credited, spoilt, leaked, cut>>
afcVars == <<stream, client, file_io, wires, afcd, past, calls, faults>>

Absent == <<0>>          \* no file: chunks are not 0

TypeOK ==
    /\ stream \in {"closed", "open", "down"}
    /\ packet_num \in Nat /\ credited \in Nat /\ handle \in Nat
    /\ op \in {"idle", "pull", "push"} \cup Simple
    /\ step \in {"open", "body", "close"} /\ wait \in {"send", "header", "payload"}
    /\ path \in Paths /\ to \in Paths
    /\ left \in Files /\ source \in Files /\ target \in Files
    /\ {aligned, status, spoilt, leaked, cut} \subseteq BOOLEAN
    /\ result \in {"none", "ok", "error"}
    /\ toDev \in Seq(Packets) /\ toHost \in Seq(Units)
    /\ files \in [Paths -> Files \cup {Absent}]
    /\ handles \subseteq Handles /\ done \subseteq Nat
    /\ calls \in 0 .. MaxCalls /\ faults \in 0 .. MaxFaults

\* What the device holds at first: some file, or none, at each path.
Remote == [i \in 1 .. MaxChunks |-> MaxChunks + i]

\* The files on the host's disk.
Locals == {[i \in 1 .. n |-> i] : n \in {0, MaxChunks}}

FirstPath == CHOOSE p \in Paths : TRUE

AfcInit ==
    /\ stream = "closed" /\ packet_num = 0 /\ result = "none"
    /\ op = "idle" /\ path = FirstPath /\ to = FirstPath
    /\ step = "open" /\ wait = "send" /\ status = TRUE
    /\ handle = 0 /\ left = <<>> /\ source = <<>> /\ target = <<>>
    /\ toDev = <<>> /\ toHost = <<>> /\ aligned = TRUE
    /\ files \in [Paths -> {Absent, Remote}] /\ handles = {} /\ done = {}
    /\ credited = 0 /\ spoilt = FALSE /\ leaked = FALSE /\ cut = FALSE
    /\ calls = 0 /\ faults = 0

-----------------------------------------------------------------------------
(* The stream.  What the device holds for it goes with it.                  *)

Start ==
    /\ stream = "closed" /\ stream' = "open" /\ cut' = FALSE
    /\ UNCHANGED <<client, file_io, wires, afcd, credited, spoilt, leaked, calls, faults>>

\* A new Afc object has nothing of the one before.  The device ends what it has for the
\* stream, unless it is not told (Apps, Dropped); what it was sent and has not carried out
\* by now it never does.
Close ==
    /\ stream # "closed" /\ op = "idle"
    /\ stream' = "closed" /\ packet_num' = 0 /\ result' = "none"
    /\ path' = FirstPath /\ to' = FirstPath /\ step' = "open" /\ status' = TRUE
    /\ handle' = 0 /\ left' = <<>> /\ source' = <<>> /\ target' = <<>>
    /\ toDev' = <<>> /\ toHost' = <<>> /\ aligned' = TRUE /\ handles' = {} /\ done' = {}
    /\ credited' = 0 /\ spoilt' = FALSE /\ leaked' = FALSE /\ calls' = 0
    /\ UNCHANGED <<op, wait, files, cut, faults>>

-----------------------------------------------------------------------------
(* The calls.                                                               *)

Calls(what, p, q) ==
    /\ op = "idle" /\ stream # "closed" /\ calls < MaxCalls
    /\ calls' = calls + 1
    /\ op' = what /\ path' = p /\ to' = q
    /\ step' = "open" /\ wait' = "send" /\ status' = TRUE /\ result' = "none"
    /\ handle' = 0 /\ target' = <<>> /\ cut' = FALSE

Call(what, p, q) ==
    /\ Calls(what, p, q) /\ left' = <<>> /\ source' = <<>>
    /\ UNCHANGED <<stream, packet_num, wires, afcd, credited, spoilt, leaked, faults>>

Pull(p) == Call("pull", p, p)

Push(p, local) ==
    /\ Calls("push", p, p)
    /\ source' = local /\ left' = local
    /\ UNCHANGED <<stream, packet_num, wires, afcd, credited, spoilt, leaked, faults>>

\* A local file that cannot be opened is an error before anything is sent.
PushFails ==
    /\ op = "idle" /\ stream # "closed" /\ calls < MaxCalls /\ faults < MaxFaults
    /\ calls' = calls + 1 /\ faults' = faults + 1
    /\ result' = "error"
    /\ UNCHANGED <<stream, op, wait, path, to, packet_num, file_io, wires, afcd, past>>

Return(ok) ==
    /\ op' = "idle" /\ wait' = "send" /\ result' = IF ok THEN "ok" ELSE "error"

\* pull and push go on to the next transaction; the last one is the close.
GoesOn(next) ==
    /\ step' = next /\ wait' = "send" /\ UNCHANGED <<op, result>>

\* A transaction fails.  A failure of the close is passed over, one between open
\* and close is what the call returns after the close; stat takes an error of the
\* device for a path that does not exist.
Errs(by_device) ==
    IF op \in {"pull", "push"} /\ step # "open"
      THEN IF step = "body" THEN status' = FALSE /\ GoesOn("close")
                            ELSE Return(status) /\ UNCHANGED <<step, status>>
      ELSE Return(op = "stat" /\ by_device) /\ UNCHANGED <<step, status>>

-----------------------------------------------------------------------------
(* A transaction.                                                           *)

PacketOp == IF op \in Simple THEN op
            ELSE IF step = "close" THEN "close"
            ELSE IF op = "pull" THEN (IF step = "open" THEN "open_r" ELSE "read")
            ELSE IF step = "open" THEN "open_w" ELSE "write"

Packet == [num |-> packet_num + 1, op |-> PacketOp, path |-> path, to |-> to, handle |-> handle,
           chunk |-> IF PacketOp = "write" THEN Head(left) ELSE 0]

\* push: there is a chunk to send, or all were.
MaySend == op # "idle" /\ wait = "send" /\ ~(op = "push" /\ step = "body" /\ left = <<>>)

Send ==
    /\ MaySend /\ stream = "open"
    /\ packet_num' = packet_num + 1
    /\ toDev' = Append(toDev, Packet)
    /\ wait' = "header"
    /\ left' = IF PacketOp = "write" THEN Tail(left) ELSE left
    /\ UNCHANGED <<stream, op, path, to, result, step, handle, source, target, status, toHost, aligned, afcd, past,
                   calls, faults>>

\* The stream is gone, or takes nothing: a close that is not sent leaves its handle.
SendFails ==
    /\ MaySend
    /\ \/ stream = "down" /\ UNCHANGED faults
       \/ stream = "open" /\ faults < MaxFaults /\ faults' = faults + 1
    /\ packet_num' = packet_num + 1
    /\ leaked' = (leaked \/ PacketOp = "close")
    /\ Errs(FALSE)
    /\ UNCHANGED <<stream, path, to, handle, left, source, target, wires, afcd, credited, spoilt, cut, calls>>

\* fread has nothing more: the end of the file, or an error it does not tell apart.
PushEnds ==
    /\ op = "push" /\ step = "body" /\ wait = "send"
    /\ \/ left = <<>> /\ UNCHANGED <<faults, cut>>
       \/ left # <<>> /\ faults < MaxFaults /\ faults' = faults + 1 /\ cut' = TRUE
    /\ GoesOn("close")
    /\ UNCHANGED <<stream, path, to, packet_num, handle, left, source, target, status, wires, afcd,
                   credited, spoilt, leaked, calls>>

\* The transport's budget runs out, or the stream is gone: what of the answer was
\* not read stays under way, and what was read of it is lost.
ReadFails ==
    /\ wait \in {"header", "payload"}
    /\ \/ (stream = "down" \/ spoilt) /\ UNCHANGED faults
       \/ stream = "open" /\ faults < MaxFaults /\ faults' = faults + 1
    /\ spoilt' = TRUE
    /\ aligned' \in {FALSE, aligned /\ wait = "header"}
    /\ Errs(FALSE)
    /\ UNCHANGED <<stream, path, to, packet_num, handle, left, source, target, toDev, toHost, afcd,
                   credited, leaked, cut, calls>>

\* The number of the packet is all that ties the answer to the request.
Matches == Head(toHost).part = "header" /\ Head(toHost).answer.num = packet_num

ReadHeader ==
    /\ wait = "header" /\ aligned /\ toHost # <<>> /\ Matches
    /\ toHost' = Tail(toHost)
    /\ wait' = "payload"
    /\ UNCHANGED <<stream, op, path, to, result, packet_num, file_io, toDev, aligned, afcd, past, calls, faults>>

\* A header with another number leaves its payload behind; a payload read as a
\* header has not the magic, and what is read with it may be part of the next one.
RefuseHeader ==
    /\ wait = "header" /\ aligned /\ toHost # <<>> /\ ~Matches
    /\ toHost' = Tail(toHost)
    /\ aligned' \in IF Head(toHost).part = "payload" THEN BOOLEAN ELSE {TRUE}
    /\ Errs(FALSE)
    /\ UNCHANGED <<stream, path, to, packet_num, handle, left, source, target, toDev, afcd, past, calls, faults>>

Credits == credited' = packet_num

\* The answer of open has the handle, where a status has its code.  pull opens its local file after it, and leaves
\* the handle behind when it cannot.
Opened(answer) ==
    /\ Credits
    /\ handle' = IF answer.kind = "open" THEN answer.data[1] ELSE 0
    /\ \/ /\ op = "pull"
          /\ source' = files[path] /\ target' = <<>>
          /\ GoesOn("body") /\ UNCHANGED <<leaked, faults>>
       \/ /\ op = "pull" /\ faults < MaxFaults /\ faults' = faults + 1
          /\ leaked' = TRUE
          /\ Return(FALSE) /\ UNCHANGED <<step, source, target>>
       \/ /\ op = "push"
          /\ GoesOn("body") /\ UNCHANGED <<source, target, leaked, faults>>
    /\ UNCHANGED <<status, cut>>

\* fclose writes what is left in the buffer, and what comes of it is not looked at.
LocalEnds ==
    \/ UNCHANGED <<target, cut, faults>>
    \/ /\ faults < MaxFaults /\ faults' = faults + 1 /\ cut' = TRUE
       /\ target' \in {SubSeq(target, 1, n) : n \in 0 .. Len(target) - 1}

\* Mutant: what fwrite took is not looked at.
PulledUnchecked(answer) ==
    /\ Credits
    /\ IF answer.kind = "status" \/ answer.data = <<>>
         THEN GoesOn("close") /\ LocalEnds
         ELSE \/ target' = target \o answer.data /\ GoesOn("body") /\ UNCHANGED <<cut, faults>>
              \/ /\ faults < MaxFaults /\ faults' = faults + 1
                 /\ GoesOn("body") /\ UNCHANGED <<target, cut>>
    /\ UNCHANGED <<handle, source, leaked, status>>

\* A status ends a pull; a chunk goes to the local file, which may not take it.
Pulled(answer) ==
    /\ Credits
    /\ IF answer.kind = "status" \/ answer.data = <<>>
         THEN GoesOn("close") /\ LocalEnds /\ UNCHANGED status
         ELSE \/ /\ target' = target \o answer.data
                 /\ GoesOn("body") /\ UNCHANGED <<status, cut, faults>>
              \/ /\ faults < MaxFaults /\ faults' = faults + 1
                 /\ status' = FALSE
                 /\ GoesOn("close") /\ UNCHANGED <<target, cut>>
    /\ UNCHANGED <<handle, source, leaked>>

Pushed ==
    /\ Credits /\ GoesOn("body")
    /\ UNCHANGED <<handle, source, target, status, leaked, cut, faults>>

Closed ==
    /\ Credits /\ Return(status)
    /\ UNCHANGED <<step, handle, source, target, status, leaked, cut, faults>>

\* list must have data; for the others a status without a code will do.
Simply(answer) ==
    /\ Credits /\ Return(op # "list" \/ answer.kind = "data")
    /\ UNCHANGED <<step, handle, source, target, status, leaked, cut, faults>>

Refused(answer) ==
    /\ Errs(TRUE)
    /\ UNCHANGED <<credited, handle, source, target, leaked, cut, faults>>

ReadPayload ==
    /\ wait = "payload" /\ aligned /\ toHost # <<>>
    /\ toHost' = Tail(toHost)
    /\ LET answer == Head(toHost).answer
       IN  IF answer.kind = "status" /\ answer.code # 0 THEN Refused(answer)
           ELSE IF op \in Simple THEN Simply(answer)
           ELSE CASE step = "open" -> Opened(answer)
                  [] step = "close" -> Closed
                  [] step = "body" -> IF op = "pull" THEN Pulled(answer) ELSE Pushed
    /\ UNCHANGED <<stream, path, to, packet_num, left, toDev, aligned, afcd, spoilt, calls>>

-----------------------------------------------------------------------------
(* The device.  It carries out one packet after another and answers each.   *)

Status(p, code) == [num |-> p.num, kind |-> "status", code |-> code, data |-> <<>>]
Data(p, data)   == [num |-> p.num, kind |-> "data", code |-> 0, data |-> data]

Sent(answer) == toHost' = toHost \o <<[part |-> "header", answer |-> answer],
                                      [part |-> "payload", answer |-> answer]>>

\* What the device can do with the packet.
Can(p) == CASE p.op \in {"open_r", "stat", "remove", "rename"} -> files[p.path] # Absent
            [] p.op \in {"read", "write", "close"} -> \E h \in handles : h.handle = p.handle
            [] OTHER -> TRUE

Of(p) == CHOOSE h \in handles : h.handle = p.handle

Does(p) ==
    CASE p.op \in {"open_r", "open_w"} ->
           /\ handles' = handles \cup {[handle |-> p.num, path |-> p.path, pos |-> 0]}
           /\ files' = IF p.op = "open_w" THEN [files EXCEPT ![p.path] = <<>>] ELSE files
           /\ Sent([num |-> p.num, kind |-> "open", code |-> 0, data |-> <<p.num>>])
      [] p.op = "read" ->
           LET h == Of(p)
               more == files[h.path] # Absent /\ h.pos < Len(files[h.path])
           IN  /\ handles' = IF more THEN (handles \ {h}) \cup {[h EXCEPT !.pos = @ + 1]} ELSE handles
               /\ Sent(IF more THEN Data(p, <<files[h.path][h.pos + 1]>>) ELSE Status(p, 0))
               /\ UNCHANGED files
      [] p.op = "write" ->
           /\ files' = [files EXCEPT ![Of(p).path] = IF @ = Absent THEN @ ELSE Append(@, p.chunk)]
           /\ Sent(Status(p, 0)) /\ UNCHANGED handles
      [] p.op = "close" ->
           handles' = handles \ {Of(p)} /\ Sent(Status(p, 0)) /\ UNCHANGED files
      [] p.op = "remove" ->
           files' = [files EXCEPT ![p.path] = Absent] /\ Sent(Status(p, 0)) /\ UNCHANGED handles
      [] p.op = "rename" ->
           /\ files' = [q \in Paths |-> IF q = p.to THEN files[p.path]
                                        ELSE IF q = p.path THEN Absent ELSE files[q]]
           /\ Sent(Status(p, 0)) /\ UNCHANGED handles
      [] p.op = "mkdir" ->
           Sent(Status(p, 0)) /\ UNCHANGED <<files, handles>>
      [] p.op \in {"stat", "list"} ->
           Sent(Data(p, <<>>)) /\ UNCHANGED <<files, handles>>

\* A packet the device has no reason to refuse may be refused all the same, except
\* the closing of an open handle.
DeviceServes ==
    /\ stream = "open" /\ toDev # <<>>
    /\ toDev' = Tail(toDev)
    /\ LET p == Head(toDev)
       IN  \/ Can(p) /\ Does(p) /\ done' = done \cup {p.num} /\ UNCHANGED faults
           \/ ~Can(p) /\ Sent(Status(p, 1)) /\ UNCHANGED <<files, handles, done, faults>>
           \/ /\ p.op # "close" /\ faults < MaxFaults /\ faults' = faults + 1
              /\ Sent(Status(p, 1)) /\ UNCHANGED <<files, handles, done>>
    /\ UNCHANGED <<stream, client, file_io, aligned, past, calls>>

\* What has arrived can still be read; what was sent is lost.
StreamDrops ==
    /\ stream = "open" /\ faults < MaxFaults /\ faults' = faults + 1
    /\ stream' = "down" /\ toDev' = <<>> /\ handles' = {}
    /\ UNCHANGED <<client, file_io, toHost, aligned, files, done, past, calls>>

-----------------------------------------------------------------------------
Calling ==
           \/ \E p \in Paths : Pull(p) \/ \E local \in Locals : Push(p, local)
           \/ PushFails
           \/ \E what \in Simple \ {"rename"}, p \in Paths : Call(what, p, p)
           \/ \E p, q \in Paths : p # q /\ Call("rename", p, q)

Client == Send \/ SendFails \/ PushEnds \/ ReadFails \/ ReadHeader \/ RefuseHeader \/ ReadPayload

-----------------------------------------------------------------------------
(* A pull that reports success has the remote file whole, and a push that    *)
(* does has made the remote file what the local one is, unless the local     *)
(* disk failed where the code does not look: in the fclose of a pull, in a   *)
(* read of a push (Afc::pull, Afc::push).                                    *)
TransfersWhole ==
    [][op' = "idle" /\ result' = "ok" /\ ~cut =>
         /\ op = "pull" => target' = source'
         /\ op = "push" => files'[path] = source']_afcVars

(* What the host takes for carried out, the device did carry out: no answer  *)
(* of an earlier packet is taken for that of a later one (Impl::receive).    *)
AnswerIsOwn == credited \in done \cup {0}

(* Between calls no handle is left open on the device, as long as no answer  *)
(* was given up, no close failed to be sent and no pull failed to create its *)
(* local file (Afc::pull, Afc::push).                                        *)
HandlesClosed == op = "idle" /\ stream = "open" /\ ~spoilt /\ ~leaked => handles = {}
=============================================================================
