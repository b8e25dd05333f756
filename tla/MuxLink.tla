------------------------------ MODULE MuxLink ------------------------------
(***************************************************************************)
(* The direct USB link of ioscpp after its handshake: one Connection       *)
(* (src/src/connection.cpp) over one Session (src/src/session.cpp), and    *)
(* the Streams (src/src/stream.cpp) that share it, against the device.     *)
(*                                                                         *)
(* The host is one thread of blocking calls.  A call that may block is cut *)
(* at its receives, so the device, the cable and the timeouts interleave   *)
(* with it; `op` and `cur` say which call of which stream is in progress.  *)
(* The k-th call of Stream::open makes stream k.                           *)
(*                                                                         *)
(* Payload units stand for bytes.  A unit of the device is tagged with the *)
(* connection it was sent on and its position there, so that a lost, a     *)
(* repeated or a foreign unit can be told.  TCP sequence numbers are left  *)
(* unbounded: the code only adds to them and never compares them, so their *)
(* wrap at 2^32 is harmless.  Local ports and mux sequence numbers, which  *)
(* do wrap in use, keep their width as PortModulus and MuxModulus.         *)
(***************************************************************************)
EXTENDS Integers, Sequences

CONSTANTS
    MaxOpens,      \* bound: calls of Stream::open
    Services,      \* the remote ports the caller opens
    PortModulus,   \* 2^16 in the code: std::uint16_t next_port_
    MuxModulus,    \* 2^16 in the code: std::uint16_t tx_seq_
    MaxPayload,    \* kMaxPayload, in units
    MaxUnits,      \* bound: units each side writes on one stream
    MaxWire,       \* bound: frames the device has under way to the host
    MaxFaults,     \* bound: sends and receives that fail on a link that is up
    Controls,      \* the device interleaves control frames
    OneAtATime     \* the caller finishes an exchange before it turns to another stream

ASSUME MuxLinkAssumption ==
    /\ MaxOpens \in Nat \ {0}
    /\ PortModulus \in Nat \ {0, 1}
    /\ MuxModulus \in Nat \ {0, 1}
    /\ MaxPayload \in Nat \ {0}
    /\ MaxUnits \in Nat
    /\ MaxWire \in Nat
    /\ MaxFaults \in Nat
    /\ Controls \in BOOLEAN
    /\ OneAtATime \in BOOLEAN

Streams == 1 .. MaxOpens
Ports   == 0 .. (PortModulus - 1)
Conns   == Ports \X Services         \* a connection, as a <<local, remote>> pair

\* A frame of another mux protocol, or one too short for a TCP header, is for
\* no connection: both receive loops skip it.
NoConn  == <<>>

Flags      == {"SYN", "SYNACK", "ACK", "RST"}
Units      == Conns \X Nat
HostFrames == [conn : Conns, flags : Flags, seq : Nat, ack : Nat, len : Nat,
               mux : 0 .. (MuxModulus - 1)]
DevFrames  == [conn : Conns \cup {NoConn}, flags : Flags, seq : Nat, data : Seq(Units)]

VARIABLES
    next_port_,    \* Connection::next_port_
    mux_tx_seq_,   \* Session::tx_seq_
    link,          \* the transport: "up", "down" (unplugged) or "closed" (by the host)
    opens,         \* how many times Stream::open was called
    local_port_,   \* Stream::local_port_ of each stream
    remote_port_,  \* Stream::remote_port_
    tx_seq_,       \* Stream::tx_seq_
    tx_ack_,       \* Stream::tx_ack_
    closed_,       \* Stream::closed_
    incoming_,     \* Stream::incoming_ from incoming_offset_ on
    phase,         \* of each Stream object: "none", "opening", "open", "failed", "closed"
    op,            \* the call in progress: "idle", "open", "read", "read_all", "write"
    cur,           \* the stream the call in progress is on
    want,          \* units the read or the write in progress has left
    got,           \* history: the units each stream's caller was handed
    failed,        \* history: a call on the stream returned an error
    stranded,      \* history: the streams whose SYN went out and whose open then timed
                   \* out, or whose reset could not be written
    faults,        \* history: transport calls that failed on a link that is up
    dead_use,      \* history: the host wrote to a transport it had closed
    to_dev,        \* frames under way to the device
    to_host,       \* frames under way to the host
    dev_state,     \* device: "none", "synrcvd", "est" or "reset", by connection
    dev_rcvd,      \* device: units received in order
    dev_sent,      \* device: units sent
    dev_mux        \* device: the mux sequence number of the last frame it took

session    == <<mux_tx_seq_, link, faults, dead_use, to_dev>>
connection == <<next_port_, opens, stranded>>
names      == <<local_port_, remote_port_>>
stream     == <<tx_seq_, tx_ack_, closed_, incoming_>>
caller     == <<phase, op, cur, want, got, failed>>
device     == <<dev_state, dev_rcvd, dev_sent, dev_mux>>
vars       == <<session, connection, names, stream, caller, device, to_host>>

Conn(s) == <<local_port_[s], remote_port_[s]>>

TypeOK ==
    /\ next_port_ \in Ports
    /\ mux_tx_seq_ \in 0 .. (MuxModulus - 1)
    /\ link \in {"up", "down", "closed"}
    /\ opens \in 0 .. MaxOpens
    /\ local_port_ \in [Streams -> Ports]
    /\ remote_port_ \in [Streams -> Services]
    /\ tx_seq_ \in [Streams -> Nat]
    /\ tx_ack_ \in [Streams -> Nat]
    /\ closed_ \in [Streams -> BOOLEAN]
    /\ incoming_ \in [Streams -> Seq(Units)]
    /\ phase \in [Streams -> {"none", "opening", "open", "failed", "closed"}]
    /\ op \in {"idle", "open", "read", "read_all", "write"}
    /\ cur \in Streams
    /\ want \in Nat
    /\ got \in [Streams -> Seq(Units)]
    /\ failed \in [Streams -> BOOLEAN]
    /\ stranded \in SUBSET Streams
    /\ faults \in 0 .. MaxFaults
    /\ dead_use \in BOOLEAN
    /\ to_dev \in Seq(HostFrames)
    /\ to_host \in Seq(DevFrames)
    /\ dev_state \in [Conns -> {"none", "synrcvd", "est", "reset"}]
    /\ dev_rcvd \in [Conns -> Nat]
    /\ dev_sent \in [Conns -> Nat]
    /\ dev_mux \in 0 .. (MuxModulus - 1)

\* The state Connection::open leaves on a version 2 device: the setup packet
\* was frame 0, and no port has been allocated.
Init ==
    /\ next_port_ = 1
    /\ mux_tx_seq_ = 1
    /\ link = "up"
    /\ opens = 0
    /\ local_port_ = [s \in Streams |-> 0]
    /\ \E svc \in Services : remote_port_ = [s \in Streams |-> svc]
    /\ tx_seq_ = [s \in Streams |-> 1]
    /\ tx_ack_ = [s \in Streams |-> 1]
    /\ closed_ = [s \in Streams |-> FALSE]
    /\ incoming_ = [s \in Streams |-> <<>>]
    /\ phase = [s \in Streams |-> "none"]
    /\ op = "idle"
    /\ cur = 1
    /\ want = 0
    /\ got = [s \in Streams |-> <<>>]
    /\ failed = [s \in Streams |-> FALSE]
    /\ stranded = {}
    /\ faults = 0
    /\ dead_use = FALSE
    /\ to_dev = <<>>
    /\ to_host = <<>>
    /\ dev_state = [c \in Conns |-> "none"]
    /\ dev_rcvd = [c \in Conns |-> 0]
    /\ dev_sent = [c \in Conns |-> 0]
    /\ dev_mux = 0
-----------------------------------------------------------------------------
(* Session: one frame out, one frame in.                                   *)

NextMux(m) == (m + 1) % MuxModulus

HostFrame(c, flags, seq, ack, len, m) ==
    [conn |-> c, flags |-> flags, seq |-> seq, ack |-> ack, len |-> len, mux |-> m]

\* Session::send numbers the frame before it writes it.
Sent(c, flags, seq, ack, len) ==
    /\ link = "up"
    /\ to_dev' = Append(to_dev, HostFrame(c, flags, seq, ack, len, mux_tx_seq_))
    /\ mux_tx_seq_' = NextMux(mux_tx_seq_)
    /\ UNCHANGED <<link, faults, dead_use>>

\* The transport refuses the frame: the number is used up all the same.
SendFails ==
    /\ link # "up" \/ faults < MaxFaults
    /\ faults' = IF link = "up" THEN faults + 1 ELSE faults
    /\ dead_use' = (dead_use \/ link = "closed")
    /\ mux_tx_seq_' = NextMux(mux_tx_seq_)
    /\ UNCHANGED <<link, to_dev>>

\* Session::receive hands out the next frame, whoever it is for.
Frame == Head(to_host)

\* Mutant: only the remote port of a frame is compared.
SamePeer(f, s) == f.conn # NoConn /\ f.conn[2] = remote_port_[s]

\* Both receive loops keep a frame only if both its ports are the stream's.
IsFor(f, s) == f.conn = Conn(s)

\* Mutant: the reset bit is tested under the wrong mask.
NeverReset(f) == f.flags = "SYN"

IsReset(f) == f.flags = "RST"

\* receive_more acknowledges up to the end of the frame's payload.
AckOf(f) == f.seq + Len(f.data)

Received ==
    /\ link = "up"
    /\ to_host # <<>>
    /\ to_host' = Tail(to_host)

\* It fails when the link is gone, or when the transport's time is up.
ReceiveFails ==
    /\ link # "up" \/ faults < MaxFaults
    /\ faults' = IF link = "up" THEN faults + 1 ELSE faults
    /\ UNCHANGED <<mux_tx_seq_, link, dead_use, to_dev, to_host>>
-----------------------------------------------------------------------------
(* The caller.  On a mux that carries one service at a time it turns to a  *)
(* stream only when every other open stream is quiet: no call on it failed *)
(* and all that it wrote there was answered and read.                      *)

Quiet(s)     == ~failed[s] /\ Len(got[s]) = tx_seq_[s] - 1
MayUse(s)    == OneAtATime => \A t \in Streams \ {s} : phase[t] = "open" => Quiet(t)
Owed(s)      == (tx_seq_[s] - 1) - Len(got[s])
MayCall(s)   == /\ op = "idle"
                /\ phase[s] = "open"
                /\ link # "closed"
                /\ MayUse(s)
                /\ OneAtATime => ~failed[s]

Return       == op' = "idle" /\ UNCHANGED cur /\ want' = 0
-----------------------------------------------------------------------------
(* Stream::open.                                                           *)

\* Mutants: the increment is lost; the counter is wider than the port.
PortKept(p) == p
PortWide(p) == p + 1

\* Connection::allocate_local_port.
PortAfter(p) == (p + 1) % PortModulus

\* A port is allocated, then the SYN goes out.
OpenSyn(svc) ==
    LET s == opens + 1
        c == <<next_port_, svc>>
    IN  /\ op = "idle"
        /\ opens < MaxOpens
        /\ link # "closed"
        /\ MayUse(s)
        /\ opens' = s
        /\ next_port_' = PortAfter(next_port_)
        /\ local_port_' = [local_port_ EXCEPT ![s] = next_port_]
        /\ remote_port_' = [remote_port_ EXCEPT ![s] = svc]
        /\ \/ /\ Sent(c, "SYN", 0, 0, 0)
              /\ phase' = [phase EXCEPT ![s] = "opening"]
              /\ op' = "open"
              /\ cur' = s
              /\ UNCHANGED <<want, failed>>
           \/ /\ SendFails
              /\ phase' = [phase EXCEPT ![s] = "failed"]
              /\ UNCHANGED <<op, cur, want, failed>>
        /\ UNCHANGED <<stranded, stream, got, device, to_host>>

\* The call returns an error and no Stream object was made.
OpenGivesUp ==
    /\ phase' = [phase EXCEPT ![cur] = "failed"]
    /\ failed' = [failed EXCEPT ![cur] = TRUE]
    /\ Return

\* One turn of the loop: a frame of another connection is thrown away.
OpenSkips ==
    /\ op = "open"
    /\ Received
    /\ ~IsFor(Frame, cur)
    /\ UNCHANGED <<session, connection, names, stream, caller, device>>

\* A reset, or an answer to the SYN that is not a SYN|ACK.
OpenRefused ==
    /\ op = "open"
    /\ Received
    /\ IsFor(Frame, cur)
    /\ Frame.flags # "SYNACK"
    /\ OpenGivesUp
    /\ UNCHANGED <<session, connection, names, stream, got, device>>

\* The SYN is out and there is no Stream object whose destructor would reset the
\* port: if the device accepts it, nothing closes it.
OpenTimesOut ==
    /\ op = "open"
    /\ ReceiveFails
    /\ OpenGivesUp
    /\ stranded' = stranded \cup {cur}
    /\ UNCHANGED <<next_port_, opens, names, stream, got, device>>

OpenAnswered ==
    /\ op = "open"
    /\ Received
    /\ IsFor(Frame, cur)
    /\ Frame.flags = "SYNACK"
    /\ tx_seq_' = [tx_seq_ EXCEPT ![cur] = 1]
    /\ tx_ack_' = [tx_ack_ EXCEPT ![cur] = Frame.seq + 1]
    /\ UNCHANGED <<next_port_, opens, names, incoming_, got, device>>

OpenSucceeds ==
    /\ OpenAnswered
    /\ Sent(Conn(cur), "ACK", 1, Frame.seq + 1, 0)
    /\ phase' = [phase EXCEPT ![cur] = "open"]
    /\ Return
    /\ UNCHANGED <<closed_, failed, stranded>>

\* The ACK cannot be sent: the local Stream object is destroyed on the way
\* out, and its destructor tries to reset the port.
OpenAckFails ==
    /\ OpenAnswered
    /\ \/ /\ faults < MaxFaults
          /\ faults' = faults + 1
          /\ to_dev' = Append(to_dev, HostFrame(Conn(cur), "RST", 1, Frame.seq + 1, 0,
                                                NextMux(mux_tx_seq_)))
          /\ UNCHANGED stranded
       \/ /\ faults + 1 < MaxFaults
          /\ faults' = faults + 2
          /\ stranded' = stranded \cup {cur}
          /\ UNCHANGED to_dev
    /\ mux_tx_seq_' = NextMux(NextMux(mux_tx_seq_))
    /\ closed_' = [closed_ EXCEPT ![cur] = TRUE]
    /\ OpenGivesUp
    /\ UNCHANGED <<link, dead_use>>
-----------------------------------------------------------------------------
(* Stream::read_exact and Stream::read_all over Stream::receive_more.      *)

Smaller(a, b) == IF a < b THEN a ELSE b

\* Mutant: incoming_offset_ is not advanced.
KeepOffset(s, data, n) ==
    /\ got' = [got EXCEPT ![s] = @ \o SubSeq(data, 1, n)]
    /\ incoming_' = [incoming_ EXCEPT ![s] = data]

\* The caller of s is handed the first n units of data, the rest is buffered.
HandOut(s, data, n) ==
    /\ got' = [got EXCEPT ![s] = @ \o SubSeq(data, 1, n)]
    /\ incoming_' = [incoming_ EXCEPT ![s] = SubSeq(data, n + 1, Len(data))]

\* read_exact first takes what is buffered; it blocks for the rest.
ReadExact(s, n) ==
    LET n1 == Smaller(n, Len(incoming_[s]))
    IN  /\ MayCall(s)
        /\ n > 0
        /\ OneAtATime => n <= Owed(s)
        /\ HandOut(s, incoming_[s], n1)
        /\ IF n1 = n
           THEN UNCHANGED <<op, cur, want>>
           ELSE op' = "read" /\ cur' = s /\ want' = n - n1
        /\ UNCHANGED <<session, connection, names, tx_seq_, tx_ack_, closed_,
                       phase, failed, device, to_host>>

ReadAll(s) ==
    /\ MayCall(s)
    /\ ~OneAtATime
    /\ HandOut(s, incoming_[s], Len(incoming_[s]))
    /\ op' = "read_all" /\ cur' = s /\ want' = 0
    /\ UNCHANGED <<session, connection, names, tx_seq_, tx_ack_, closed_,
                   phase, failed, device, to_host>>

Reading == op \in {"read", "read_all"}

\* The error return of a read, a write or a failed acknowledgement.
Fail ==
    /\ failed' = [failed EXCEPT ![cur] = TRUE]
    /\ Return
    /\ UNCHANGED <<phase, got>>

\* A frame of another stream is thrown away, whatever it carries.
ReadSkips ==
    /\ Reading
    /\ Received
    /\ ~IsFor(Frame, cur)
    /\ UNCHANGED <<session, connection, names, stream, caller, device>>

\* A reset marks the stream closed.  It ends read_all, and fails read_exact.
ReadReset ==
    /\ Reading
    /\ Received
    /\ IsFor(Frame, cur)
    /\ IsReset(Frame)
    /\ closed_' = [closed_ EXCEPT ![cur] = TRUE]
    /\ IF op = "read"
       THEN Fail
       ELSE Return /\ UNCHANGED <<phase, got, failed>>
    /\ UNCHANGED <<session, connection, names, tx_seq_, tx_ack_, incoming_, device>>

ReadFrame ==
    /\ Reading
    /\ Received
    /\ IsFor(Frame, cur)
    /\ ~IsReset(Frame)
    /\ tx_ack_' = [tx_ack_ EXCEPT ![cur] = AckOf(Frame)]
    /\ UNCHANGED <<connection, names, tx_seq_, closed_, device>>

\* The frame is acknowledged before its payload is buffered.  A frame without
\* a payload is acknowledged too, and the read waits on.
ReadTakes ==
    LET n == IF op = "read" THEN Smaller(want, Len(Frame.data)) ELSE Len(Frame.data)
    IN  /\ ReadFrame
        /\ Sent(Conn(cur), "ACK", tx_seq_[cur], AckOf(Frame), 0)
        /\ HandOut(cur, Frame.data, n)
        /\ IF op = "read" /\ n = want
           THEN Return
           ELSE UNCHANGED <<op, cur>> /\ want' = IF op = "read" THEN want - n ELSE 0
        /\ UNCHANGED <<phase, failed>>

\* The acknowledgement cannot be sent: the payload never reaches the buffer.
ReadAckFails ==
    /\ ReadFrame
    /\ SendFails
    /\ Fail
    /\ UNCHANGED incoming_

ReadTimesOut ==
    /\ Reading
    /\ ReceiveFails
    /\ Fail
    /\ UNCHANGED <<connection, names, stream, device>>
-----------------------------------------------------------------------------
(* Stream::write, one chunk at a time.  It does not look at closed_.       *)

Write(s, n) ==
    /\ MayCall(s)
    /\ n > 0
    /\ tx_seq_[s] - 1 + n <= MaxUnits
    /\ op' = "write" /\ cur' = s /\ want' = n
    /\ UNCHANGED <<session, connection, names, stream, phase, got, failed, device, to_host>>

\* Mutant: tx_seq_ advances by all that is left, not by the chunk.
SeqAfterAll(s, chunk) == tx_seq_[s] + want

SeqAfter(s, chunk) == tx_seq_[s] + chunk

WriteChunk ==
    LET chunk == Smaller(MaxPayload, want)
    IN  /\ op = "write"
        /\ Sent(Conn(cur), "ACK", tx_seq_[cur], tx_ack_[cur], chunk)
        /\ tx_seq_' = [tx_seq_ EXCEPT ![cur] = SeqAfter(cur, chunk)]
        /\ IF chunk = want
           THEN Return
           ELSE UNCHANGED <<op, cur>> /\ want' = want - chunk
        /\ UNCHANGED <<connection, names, tx_ack_, closed_, incoming_,
                       phase, got, failed, device, to_host>>

WriteFails ==
    /\ op = "write"
    /\ SendFails
    /\ Fail
    /\ UNCHANGED <<connection, names, stream, device, to_host>>
-----------------------------------------------------------------------------
(* Stream::close, which the destructor routes through, and                 *)
(* Connection::close.                                                      *)

\* Mutants: closed_ is not looked at; the connection is not asked; a stream
\* that wrote nothing is left alone.
SkipIfGone(s)   == link = "closed"
SkipIfClosed(s) == closed_[s]
SkipIfUnused(s) == closed_[s] \/ link = "closed" \/ tx_seq_[s] = 1

\* close_now returns early, or without a reset.
SkipsReset(s) == closed_[s] \/ link = "closed"

\* Only the first close of a stream that was not reset sends a reset, and
\* only over a connection that is not closed.
Close(s) ==
    /\ op = "idle"
    /\ phase[s] \in {"open", "closed"}
    /\ phase' = [phase EXCEPT ![s] = "closed"]
    /\ closed_' = [closed_ EXCEPT ![s] = TRUE]
    /\ \/ SkipsReset(s) /\ UNCHANGED <<session, stranded>>
       \/ /\ ~SkipsReset(s)
          /\ Sent(Conn(s), "RST", tx_seq_[s], tx_ack_[s], 0)
          /\ UNCHANGED stranded
       \/ ~SkipsReset(s) /\ SendFails /\ stranded' = stranded \cup {s}
    /\ UNCHANGED <<next_port_, opens, names, tx_seq_, tx_ack_, incoming_, op, cur, want,
                   got, failed, device, to_host>>

\* What was written is written; nothing more is read.
ConnClose ==
    /\ op = "idle"
    /\ link # "closed"
    /\ link' = "closed"
    /\ to_host' = <<>>
    /\ UNCHANGED <<mux_tx_seq_, faults, dead_use, to_dev, connection, names,
                   stream, caller, device>>
-----------------------------------------------------------------------------
(* The device's end of the mux and its services, as the code uses them.    *)

DevFrame(c, flags, seq, data) == [conn |-> c, flags |-> flags, seq |-> seq, data |-> data]

Answers(f) == to_host' = IF link = "up" THEN Append(to_host, f) ELSE to_host

Live(c) == dev_state[c] \in {"synrcvd", "est"}

DevTakes ==
    /\ to_dev # <<>>
    /\ Len(to_host) < MaxWire
    /\ to_dev' = Tail(to_dev)
    /\ dev_mux' = Head(to_dev).mux
    /\ UNCHANGED <<mux_tx_seq_, link, faults, dead_use, connection, names, stream, caller>>

\* A SYN for a free port is accepted, refused, or answered with something else.
DevSyn ==
    LET c == Head(to_dev).conn
    IN  /\ DevTakes
        /\ Head(to_dev).flags = "SYN"
        /\ ~Live(c)
        /\ \/ /\ dev_state' = [dev_state EXCEPT ![c] = "synrcvd"]
              /\ dev_rcvd' = [dev_rcvd EXCEPT ![c] = 0]
              /\ dev_sent' = [dev_sent EXCEPT ![c] = 0]
              /\ Answers(DevFrame(c, "SYNACK", 0, <<>>))
           \/ /\ \E flags \in {"RST", "ACK"} : Answers(DevFrame(c, flags, 0, <<>>))
              /\ UNCHANGED <<dev_state, dev_rcvd, dev_sent>>

\* A frame the connection cannot take resets it: a SYN for a live connection,
\* a gap in the sequence, data for no connection.
DevRefuses ==
    LET f == Head(to_dev)
    IN  /\ DevTakes
        /\ \/ f.flags = "SYN" /\ Live(f.conn)
           \/ f.flags = "ACK" /\ f.len > 0 /\ (Live(f.conn) => f.seq # dev_rcvd[f.conn] + 1)
        /\ dev_state' = [dev_state EXCEPT ![f.conn] = "reset"]
        /\ Answers(DevFrame(f.conn, "RST", dev_sent[f.conn] + 1, <<>>))
        /\ UNCHANGED <<dev_rcvd, dev_sent>>

\* Data in order is taken, with or without an acknowledgement of its own.
DevData ==
    LET f == Head(to_dev)
        c == f.conn
    IN  /\ DevTakes
        /\ f.flags = "ACK"
        /\ Live(c)
        /\ f.len > 0 => f.seq = dev_rcvd[c] + 1
        /\ dev_state' = [dev_state EXCEPT ![c] = "est"]
        /\ dev_rcvd' = [dev_rcvd EXCEPT ![c] = @ + f.len]
        /\ \/ UNCHANGED to_host
           \/ f.len > 0 /\ Answers(DevFrame(c, "ACK", dev_sent[c] + 1, <<>>))
        /\ UNCHANGED dev_sent

\* A reset, and an acknowledgement of no connection, end with this frame.
DevEnds ==
    LET f == Head(to_dev)
    IN  /\ DevTakes
        /\ f.flags = "RST" \/ (f.flags = "ACK" /\ f.len = 0 /\ ~Live(f.conn))
        /\ dev_state' = [dev_state EXCEPT ![f.conn] = IF Live(f.conn) THEN "reset" ELSE @]
        /\ UNCHANGED <<dev_rcvd, dev_sent, to_host>>

\* A service sends n units.  One that only answers sends what it was asked for.
DevSend(c, n) ==
    /\ link = "up"
    /\ Len(to_host) < MaxWire
    /\ dev_state[c] = "est"
    /\ n > 0
    /\ dev_sent[c] + n <= IF OneAtATime THEN dev_rcvd[c] ELSE MaxUnits
    /\ to_host' = Append(to_host, DevFrame(c, "ACK", dev_sent[c] + 1,
                                           [k \in 1 .. n |-> <<c, dev_sent[c] + k>>]))
    /\ dev_sent' = [dev_sent EXCEPT ![c] = @ + n]
    /\ UNCHANGED <<session, connection, names, stream, caller, dev_state, dev_rcvd, dev_mux>>

\* A service hangs up.  One that only answers does so in place of an answer.
DevReset(c) ==
    /\ link = "up"
    /\ Len(to_host) < MaxWire
    /\ dev_state[c] = "est"
    /\ OneAtATime => dev_sent[c] < dev_rcvd[c]
    /\ to_host' = Append(to_host, DevFrame(c, "RST", dev_sent[c] + 1, <<>>))
    /\ dev_state' = [dev_state EXCEPT ![c] = "reset"]
    /\ UNCHANGED <<session, connection, names, stream, caller, dev_rcvd, dev_sent, dev_mux>>

\* A control frame, which carries the device's log text.
DevControl ==
    /\ Controls
    /\ link = "up"
    /\ Len(to_host) < MaxWire
    /\ to_host' = Append(to_host, DevFrame(NoConn, "ACK", 0, <<>>))
    /\ UNCHANGED <<session, connection, names, stream, caller, device>>

\* The cable is pulled: what is under way is lost.
Drop ==
    /\ link = "up"
    /\ link' = "down"
    /\ to_dev' = <<>>
    /\ to_host' = <<>>
    /\ UNCHANGED <<mux_tx_seq_, faults, dead_use, connection, names, stream, caller, device>>
-----------------------------------------------------------------------------
OpenStep  == OpenSkips \/ OpenRefused \/ OpenTimesOut \/ OpenSucceeds \/ OpenAckFails
ReadStep  == ReadSkips \/ ReadReset \/ ReadTakes \/ ReadAckFails \/ ReadTimesOut
WriteStep == WriteChunk \/ WriteFails

\* The thread inside a call.
Continue == OpenStep \/ ReadStep \/ WriteStep

\* The thread between calls.
Call ==
    \/ \E svc \in Services : OpenSyn(svc)
    \/ \E s \in Streams, n \in 1 .. MaxUnits : ReadExact(s, n) \/ Write(s, n)
    \/ \E s \in Streams : ReadAll(s) \/ Close(s)
    \/ ConnClose

DevTurn == DevSyn \/ DevRefuses \/ DevData \/ DevEnds

Device ==
    \/ DevTurn
    \/ \E c \in Conns : DevReset(c) \/ \E n \in 1 .. MaxUnits : DevSend(c, n)
    \/ DevControl

Next == Continue \/ Call \/ Device \/ Drop

Spec == Init /\ [][Next]_vars

\* What the thread does without the help of a timeout.
Progress ==
    \/ OpenSkips \/ OpenRefused \/ OpenSucceeds
    \/ ReadSkips \/ ReadReset \/ ReadTakes
    \/ WriteChunk
    \/ link # "up" /\ Continue

\* The thread runs, and so does a device that answers what it was asked.  The
\* code gives no more: a caller may stop calling, a timeout may not come.
Fairness ==
    /\ WF_vars(Progress)
    /\ WF_vars(DevTurn)
    /\ \A c \in Conns : WF_vars(\E n \in 1 .. MaxUnits : DevSend(c, n))

FairSpec == Spec /\ Fairness
-----------------------------------------------------------------------------
(* Properties.  Those that speak of a connection by its port hold until    *)
(* the port counter has come round: NoWrap.                                *)

NoWrap    == opens < PortModulus
InUse(s)  == phase[s] \in {"opening", "open"}
Heard(s)  == got[s] \o incoming_[s]

\* "Allocates a unique, non-zero local port" (connection.hpp:100): no stream in
\* use has port 0 or the port of another stream in use.
LocalPortUnique ==
    \A s \in Streams : InUse(s) =>
        /\ local_port_[s] # 0
        /\ \A t \in Streams \ {s} : InUse(t) => local_port_[t] # local_port_[s]

\* As far as the uint16_t next_port_ allows, that is what the allocator gives.
PortUniqueUntilWrap == NoWrap => LocalPortUnique

\* Stream::receive_more discards, and errors lose payloads, but what it buffers
\* and read_exact hands out was sent on this very connection, and no unit is
\* repeated or overtaken by a later one.
DeliveredInOrder ==
    NoWrap => \A s \in Streams :
        /\ \A i \in 1 .. Len(Heard(s)) :
               /\ Heard(s)[i][1] = Conn(s)
               /\ Heard(s)[i][2] <= dev_sent[Conn(s)]
        /\ \A i, j \in 1 .. Len(Heard(s)) : i < j => Heard(s)[i][2] < Heard(s)[j][2]

\* Stream::write counts a chunk only once it is sent, so the next data frame the
\* device takes starts where the last one ended, across failed writes too.
HostSeqContiguous ==
    NoWrap /\ to_dev # <<>> =>
        LET f == Head(to_dev)
        IN  f.flags = "ACK" /\ f.len > 0 /\ Live(f.conn) => f.seq = dev_rcvd[f.conn] + 1

\* Session::send numbers every frame, acknowledgements and resets included: the
\* device sees no number twice and none left out while no send has failed.
MuxSeqAdvances ==
    faults = 0 /\ to_dev # <<>> => Head(to_dev).mux = NextMux(dev_mux)

\* "The reset is sent once" (stream.hpp:77) and nothing follows it: close, the
\* destructor and the error path of open do not repeat it.
ResetIsLast ==
    NoWrap => \A i, j \in 1 .. Len(to_dev) :
        i < j /\ to_dev[i].flags = "RST" => to_dev[j].conn # to_dev[i].conn

\* Stream::close_now skips the reset once Connection::close has closed the
\* transport, so nothing is written to a dead transport in any order of closes.
NoDeadTransportUse == ~dead_use

\* "Resets the port, releasing it on the device" (stream.hpp:75): while the cable is
\* in, a stream that is done with is gone from the device or its reset is on the way,
\* after a refused open, an open whose ACK could not be sent, and failed reads and
\* writes too.  Two failures the code does not clean up after, and they are excepted:
\* an open that times out behind its SYN, and a reset that cannot be written.
NoOrphanPort ==
    NoWrap /\ link = "up" /\ op = "idle" =>
        \A s \in Streams \ stranded :
            phase[s] \in {"failed", "closed"} /\ Live(Conn(s)) =>
                \E i \in 1 .. Len(to_dev) :
                    to_dev[i].conn = Conn(s) /\ to_dev[i].flags = "RST"

\* A port is given back by one reset that is the last frame for it, in any order of
\* closes, Connection::close and failed calls, but for the two of NoOrphanPort.
ClosedByReset == ResetIsLast /\ NoDeadTransportUse /\ NoOrphanPort

\* An acknowledgement is a promise: what tx_ack_ acknowledges has reached the
\* buffer.  A discarded frame, or a failed acknowledgement, would break it.
AckedIsDelivered ==
    NoWrap /\ OneAtATime => \A s \in Streams :
        phase[s] = "open" /\ ~failed[s] => tx_ack_[s] = Len(Heard(s)) + 1

\* The three numbers of the two headers are true: what the device is sent follows
\* what it took, and what it is told to forget has reached the buffer.
SequencesHonest == HostSeqContiguous /\ MuxSeqAdvances /\ AckedIsDelivered

\* A stream used one exchange at a time is the byte channel of ByteChannel.tla.
Channel == INSTANCE ByteChannel WITH
    st       <- [s \in Streams |-> IF phase[s] \in {"none", "opening"} THEN "new"
                                   ELSE IF phase[s] = "open" THEN "open" ELSE "over"],
    written  <- [s \in Streams |-> tx_seq_[s] - 1],
    taken    <- [s \in Streams |-> dev_rcvd[Conn(s)]],
    produced <- [s \in Streams |-> dev_sent[Conn(s)]],
    out      <- [s \in Streams |-> [i \in 1 .. Len(got[s]) |->
                    IF got[s][i][1] = Conn(s) THEN got[s][i][2] ELSE 0]]

ImplementsByteChannel == Channel!Spec

\* A call on a stream used that way returns: the answer is not thrown away by
\* the loops of open and receive_more, and a reset or a lost link ends them.
CallsReturn == op # "idle" ~> op = "idle"
=============================================================================
