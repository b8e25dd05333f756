------------------------------ MODULE TunnelTcp ------------------------------
(***************************************************************************)
(* The userspace TCP of the CoreDevice tunnel (src/src/tcp_link.cpp), over *)
(* the re-framer (src/src/protocol/ipv6.cpp) and the tunnel                *)
(* (src/src/tunnel.cpp), against the TCP of the device.                    *)
(*                                                                         *)
(* The tunnel is one byte stream.  What comes in is cut into pieces, two   *)
(* to a packet: the IPv6 header, and the segment.  Every link borrows the  *)
(* tunnel and re-frames it with a buffer of its own, so a link that reads  *)
(* takes what is there, whosever it is.                                    *)
(*                                                                         *)
(* Link l is made by the l-th TcpLink::open, and stands for its source     *)
(* port: next_source_port does not repeat within the links of an instance. *)
(* All links go to one port of the device.  A unit stands for bytes.  Both *)
(* sides start at sequence number 0, so the unit with number k is the k-th *)
(* of its direction; the code compares no sequence numbers.                *)
(***************************************************************************)
EXTENDS Integers, Sequences

CONSTANTS
    MaxLinks,       \* bound: links made
    MaxUnits,       \* bound: units of one direction of a link, in any use
    ReadSize,       \* kReadSize, in pieces
    Uses            \* the ways the tunnel may be used, each with its bounds; see UseType

\* A way the tunnel is used.
UseType == [
    over    : {"tls", "plain", "other"},
                          \* what the links borrow: a Tunnel with its TLS session, one without,
                          \* or another Transport
    links   : Nat,        \* bound: links made
    mss     : Nat,        \* units a segment holds
    aligned : BOOLEAN,    \* a read of the tunnel ends where a packet ends
    alone   : BOOLEAN,    \* the caller is done with a link before it makes the next, and drops
                          \* a link whose call failed
    writes  : Nat,        \* bound: units the caller writes to a link
    units   : Nat,        \* bound: units a service sends on a link
    resends : Nat,        \* bound: segments the device sends again
    wire    : Nat,        \* bound: pieces under way to the host
    faults  : Nat]        \* bound: tunnel calls that fail on a tunnel that is up

ASSUME TunnelTcpAssumption ==
    /\ MaxLinks \in Nat \ {0}
    /\ MaxUnits \in Nat
    /\ ReadSize \in Nat \ {0}
    /\ \A u \in Uses : u \in UseType /\ u.mss > 0 /\ u.links <= MaxLinks
                      /\ u.writes <= MaxUnits /\ u.units <= MaxUnits

Links      == 1 .. MaxLinks
HostFrames == [link : Links, type : {"SYN", "ACK", "DATA", "FIN"}, seq : Nat, n : Nat]
DevFrames  == [link : Links, type : {"SYNACK", "ACK", "DATA", "FIN", "RST"}, seq : Nat, n : Nat]
Pieces     == [frame : DevFrames, part : {1, 2}]
Units      == [link : Links, at : Nat]

VARIABLES
    use,        \* how the tunnel is used in this run
    st,         \* a link, as the caller sees it: "none", "connecting", "open", "broken", "over"
    closed,     \* Impl::closed
    send_seq,   \* Impl::send_seq
    recv_seq,   \* Impl::recv_seq
    incoming,   \* Impl::incoming, from incoming_offset on
    framer,     \* Ipv6Framer::buffer_ of the link, from offset_ on
    op,         \* the call in progress: "idle", "connect", "write" or "read", or "spins" for
                \* one that was made on an ended tunnel and tries its first segment for ever
    cur,        \* the link it is on
    left,       \* units left to write, or the size of the buffer to read into
    tunnel,     \* "up" or "ended"
    faults,     \* history: tunnel calls that failed on a tunnel that is up
    to_dev,     \* segments under way to the device
    from_dev,   \* pieces under way to the host
    heard,      \* history: the units the caller was handed
    fins,       \* history: FINs the host sent
    dev,        \* device: its side is "none", "syn", "open" or "closed"
    dev_seq,    \* device: the sequence number it expects
    dev_fin,    \* device: the host's FIN came
    dev_sent,   \* device: units its service sent
    dev_done,   \* device: it sent its own FIN
    resends     \* device: segments it sent again

host    == <<closed, send_seq, recv_seq, incoming, framer>>
calls   == <<op, cur, left>>
wire    == <<tunnel, faults>>
history == <<heard, fins>>
device  == <<dev, dev_seq, dev_fin, dev_sent, dev_done, resends>>
vars    == <<use, st, host, calls, wire, to_dev, from_dev, history, device>>

TypeOK ==
    /\ use \in Uses
    /\ st \in [Links -> {"none", "connecting", "open", "broken", "over"}]
    /\ closed \in [Links -> BOOLEAN]
    /\ send_seq \in [Links -> Nat]
    /\ recv_seq \in [Links -> Nat]
    /\ incoming \in [Links -> Seq(Units)]
    /\ framer \in [Links -> Seq(Pieces)]
    /\ op \in {"idle", "connect", "write", "read", "spins"}
    /\ cur \in Links
    /\ left \in Nat
    /\ tunnel \in {"up", "ended"}
    /\ faults \in 0 .. use.faults
    /\ to_dev \in Seq(HostFrames)
    /\ from_dev \in Seq(Pieces)
    /\ heard \in [Links -> Seq(Units)]
    /\ fins \in [Links -> Nat]
    /\ dev \in [Links -> {"none", "syn", "open", "closed"}]
    /\ dev_seq \in [Links -> Nat]
    /\ dev_fin \in [Links -> BOOLEAN]
    /\ dev_sent \in [Links -> 0 .. use.units]
    /\ dev_done \in [Links -> BOOLEAN]
    /\ resends \in 0 .. use.resends

Init ==
    /\ use \in Uses
    /\ st = [l \in Links |-> "none"]
    /\ closed = [l \in Links |-> FALSE]
    /\ send_seq = [l \in Links |-> 0]
    /\ recv_seq = [l \in Links |-> 0]
    /\ incoming = [l \in Links |-> <<>>]
    /\ framer = [l \in Links |-> <<>>]
    /\ op = "idle" /\ cur = 1 /\ left = 0
    /\ tunnel = "up" /\ faults = 0
    /\ to_dev = <<>> /\ from_dev = <<>>
    /\ heard = [l \in Links |-> <<>>]
    /\ fins = [l \in Links |-> 0]
    /\ dev = [l \in Links |-> "none"]
    /\ dev_seq = [l \in Links |-> 0]
    /\ dev_fin = [l \in Links |-> FALSE]
    /\ dev_sent = [l \in Links |-> 0]
    /\ dev_done = [l \in Links |-> FALSE]
    /\ resends = 0
-----------------------------------------------------------------------------
(* send_segment.                                                           *)

HostFrame(l, type, n) == [link |-> l, type |-> type, seq |-> send_seq[l], n |-> n]

\* What a segment takes of the sequence numbers.
Taken(type, n) == n + (IF type \in {"SYN", "FIN"} THEN 1 ELSE 0)

\* Every segment carries recv_seq[l], as the step leaves it.
Sent(l, type, n) ==
    /\ tunnel = "up"
    /\ to_dev' = Append(to_dev, HostFrame(l, type, n))
    /\ send_seq' = [send_seq EXCEPT ![l] = @ + Taken(type, n)]
    /\ UNCHANGED wire

\* A call of the tunnel that fails: it is gone, or the failure is its own.
Trouble ==
    /\ tunnel = "ended" \/ faults < use.faults
    /\ faults' = IF tunnel = "up" THEN faults + 1 ELSE faults
    /\ UNCHANGED tunnel

\* A TLS session has no writes that fail: tls_send asks for the same record again
\* whatever went wrong below it, and TlsSession::write does not give up.
SendFails ==
    /\ use.over # "tls"
    /\ Trouble
    /\ UNCHANGED <<to_dev, send_seq>>
-----------------------------------------------------------------------------
(* The calls of a TcpLink, and how each returns.                           *)

Return == op' = "idle" /\ left' = 0 /\ UNCHANGED cur

\* A link whose connect failed is destroyed by Rsd; after another failure it is
\* the caller's.
Fail ==
    /\ Return
    /\ st' = [st EXCEPT ![cur] = IF op = "connect" THEN "over" ELSE "broken"]

MayUse(l) == st[l] = "open" \/ (st[l] = "broken" /\ ~use.alone)

MayOpen(l) ==
    /\ st[l] = "none"
    /\ l <= use.links
    /\ \A k \in 1 .. (l - 1) : st[k] # "none"
    /\ use.alone => \A k \in 1 .. (l - 1) : st[k] = "over"

\* TcpLink::open and connect, up to the SYN.
Connect(l) ==
    /\ op = "idle"
    /\ MayOpen(l)
    /\ cur' = l
    /\ UNCHANGED left
    /\ \/ /\ Sent(l, "SYN", 0)
          /\ op' = "connect"
          /\ st' = [st EXCEPT ![l] = "connecting"]
       \/ /\ SendFails
          /\ st' = [st EXCEPT ![l] = "over"]
          /\ UNCHANGED op
    /\ UNCHANGED <<closed, recv_seq, incoming, framer, from_dev, history, device, use>>

Write(l, n) ==
    /\ op = "idle"
    /\ MayUse(l)
    /\ n > 0
    /\ send_seq[l] + n <= use.writes + 1
    /\ op' = "write" /\ cur' = l /\ left' = n
    /\ UNCHANGED <<st, host, wire, to_dev, from_dev, history, device, use>>

\* TcpLink::read into a buffer of n units; read_exact is a loop of it.
Read(l, n) ==
    /\ op = "idle"
    /\ MayUse(l)
    /\ n > 0
    /\ op' = "read" /\ cur' = l /\ left' = n
    /\ UNCHANGED <<st, host, wire, to_dev, from_dev, history, device, use>>

IsClosed(l) == closed[l]

\* TcpLink::close of an established link: a FIN, whatever becomes of it.
Close(l) ==
    /\ op = "idle"
    /\ st[l] \in {"open", "broken"}
    /\ st' = [st EXCEPT ![l] = "over"]
    /\ closed' = [closed EXCEPT ![l] = TRUE]
    /\ IF IsClosed(l)
       THEN UNCHANGED <<send_seq, wire, to_dev, fins>>
       ELSE \/ Sent(l, "FIN", 0) /\ fins' = [fins EXCEPT ![l] = @ + 1]
            \/ SendFails /\ UNCHANGED fins
    /\ UNCHANGED <<recv_seq, incoming, framer, calls, from_dev, heard, device, use>>

\* The SYN of a connect, or the FIN of a close, over TLS on a tunnel that has ended.
CallSpins(l) ==
    /\ op = "idle"
    /\ use.over = "tls" /\ tunnel = "ended"
    /\ MayOpen(l) \/ (st[l] \in {"open", "broken"} /\ ~IsClosed(l))
    /\ op' = "spins" /\ cur' = l
    /\ UNCHANGED <<st, host, left, wire, to_dev, from_dev, history, device, use>>

\* The destructor says nothing to the device.
Destroy(l) ==
    /\ op = "idle"
    /\ st[l] \in {"open", "broken"}
    /\ st' = [st EXCEPT ![l] = "over"]
    /\ UNCHANGED <<host, calls, wire, to_dev, from_dev, history, device, use>>
-----------------------------------------------------------------------------
(* Impl::write, which looks at nothing but its data.                       *)

Smaller(a, b) == IF a < b THEN a ELSE b

\* Mutant: every segment is full.
FullChunk == use.mss

Chunk == Smaller(use.mss, left)

WriteChunk ==
    /\ op = "write"
    /\ left > 0
    /\ Sent(cur, "DATA", Chunk)
    /\ left' = left - Chunk
    /\ UNCHANGED <<st, closed, recv_seq, incoming, framer, op, cur, from_dev, history, device, use>>

WriteFails ==
    /\ op = "write"
    /\ left > 0
    /\ SendFails
    /\ Fail
    /\ UNCHANGED <<closed, recv_seq, incoming, framer, from_dev, history, device, use>>

Written ==
    /\ op = "write"
    /\ left = 0
    /\ Return
    /\ UNCHANGED <<st, host, wire, to_dev, from_dev, history, device, use>>
-----------------------------------------------------------------------------
(* Ipv6Framer::read_packet, one read of the tunnel at a time.              *)

Waits ==
    \/ op = "connect"
    \/ op = "read" /\ incoming[cur] = <<>> /\ ~closed[cur]

Buffer == framer[cur]

\* A whole packet, less than one, or the middle of one.
Whole    == Len(Buffer) >= 2 /\ Buffer[1].part = 1 /\ Buffer[2] = [Buffer[1] EXCEPT !.part = 2]
Short    == Buffer = <<>> \/ (Len(Buffer) = 1 /\ Buffer[1].part = 1)

\* Tunnel::read without TLS waits for the whole of the buffer; the others give what is there.
ReadSizes ==
    {k \in 1 .. Smaller(ReadSize, Len(from_dev)) :
        /\ use.over = "plain" => k = ReadSize
        /\ use.aligned => from_dev[k].part = 2}

TunnelRead ==
    /\ Waits
    /\ Short
    /\ \E k \in ReadSizes :
          /\ framer' = [framer EXCEPT ![cur] = @ \o SubSeq(from_dev, 1, k)]
          /\ from_dev' = SubSeq(from_dev, k + 1, Len(from_dev))
    /\ UNCHANGED <<st, closed, send_seq, recv_seq, incoming, calls, wire, to_dev,
                   history, device, use>>

\* What came in before the tunnel ended can still be read.
ReadFails ==
    /\ Waits
    /\ Short
    /\ tunnel = "up" \/ ReadSizes = {}
    /\ Trouble
    /\ Fail
    /\ UNCHANGED <<host, to_dev, from_dev, history, device, use>>

\* The middle of a packet is taken for a header that is not IPv6, and stays.
Misframed ==
    /\ Waits
    /\ ~Whole /\ ~Short
    /\ Fail
    /\ UNCHANGED <<host, wire, to_dev, from_dev, history, device, use>>

AfterPacket(q) == SubSeq(q, 3, Len(q))

Segment == Buffer[1].frame

\* Mutant: the ports are not compared.
AnyLink(f) == TRUE

\* A segment of another connection is thrown away.
IsMine(f) == f.link = cur

\* Mutant: a reset is one of the frames that are passed over.
NoReset(f) == FALSE

IsReset(f) == f.type = "RST"

Takes == Waits /\ Whole /\ framer' = [framer EXCEPT ![cur] = AfterPacket(@)]
Mine  == Takes /\ IsMine(Segment)
-----------------------------------------------------------------------------
(* connect, after the SYN.                                                 *)

ConnectSkips ==
    /\ op = "connect"
    /\ Takes
    /\ ~IsMine(Segment) \/ (Segment.type # "SYNACK" /\ ~IsReset(Segment))
    /\ UNCHANGED <<st, closed, send_seq, recv_seq, incoming, calls, wire, to_dev, from_dev,
                   history, device, use>>

ConnectRefused ==
    /\ op = "connect"
    /\ Mine
    /\ IsReset(Segment)
    /\ Fail
    /\ UNCHANGED <<closed, send_seq, recv_seq, incoming, wire, to_dev, from_dev,
                   history, device, use>>

Connected ==
    /\ op = "connect"
    /\ Mine
    /\ Segment.type = "SYNACK"
    /\ recv_seq' = [recv_seq EXCEPT ![cur] = Segment.seq + 1]
    /\ \/ /\ Sent(cur, "ACK", 0)
          /\ Return
          /\ st' = [st EXCEPT ![cur] = "open"]
       \/ SendFails /\ Fail
    /\ UNCHANGED <<closed, incoming, from_dev, history, device, use>>
-----------------------------------------------------------------------------
(* Impl::read.                                                             *)

\* Mutant: one more is acknowledged.
OneMore(f) == f.seq + f.n + 1

After(f) == f.seq + f.n

Payload(f) == [k \in 1 .. f.n |-> [link |-> f.link, at |-> f.seq + k - 1]]

ReadSkips ==
    /\ op = "read"
    /\ Takes
    /\ ~IsMine(Segment) \/ Segment.type \in {"SYNACK", "ACK"}
    /\ UNCHANGED <<st, closed, send_seq, recv_seq, incoming, calls, wire, to_dev, from_dev,
                   history, device, use>>

ReadReset ==
    /\ op = "read"
    /\ Mine
    /\ Segment.type = "RST"
    /\ closed' = [closed EXCEPT ![cur] = TRUE]
    /\ Fail
    /\ UNCHANGED <<send_seq, recv_seq, incoming, wire, to_dev, from_dev, history, device, use>>

\* The answer to a FIN is a FIN, whatever becomes of it; then the payload.
ReadFin ==
    /\ op = "read"
    /\ Mine
    /\ Segment.type = "FIN"
    /\ recv_seq' = [recv_seq EXCEPT ![cur] = After(Segment) + 1]
    /\ \/ /\ Sent(cur, "FIN", 0)
          /\ fins' = [fins EXCEPT ![cur] = @ + 1]
       \/ SendFails /\ UNCHANGED fins
    /\ closed' = [closed EXCEPT ![cur] = TRUE]
    /\ incoming' = [incoming EXCEPT ![cur] = Payload(Segment)]
    /\ UNCHANGED <<st, calls, from_dev, heard, device, use>>

\* A segment is taken as the next one.  When its acknowledgement cannot be sent
\* the payload is lost.
ReadData ==
    /\ op = "read"
    /\ Mine
    /\ Segment.type = "DATA"
    /\ recv_seq' = [recv_seq EXCEPT ![cur] = After(Segment)]
    /\ \/ /\ Sent(cur, "ACK", 0)
          /\ incoming' = [incoming EXCEPT ![cur] = Payload(Segment)]
          /\ UNCHANGED <<st, calls>>
       \/ SendFails /\ Fail /\ UNCHANGED incoming
    /\ UNCHANGED <<closed, from_dev, history, device, use>>

\* Mutant: what does not fit into the buffer is lost.
RestLost(q, k) == <<>>

Rest(q, k) == SubSeq(q, k + 1, Len(q))

ReadReturns ==
    LET k == Smaller(left, Len(incoming[cur]))
    IN  /\ op = "read"
        /\ incoming[cur] # <<>>
        /\ heard' = [heard EXCEPT ![cur] = @ \o SubSeq(incoming[cur], 1, k)]
        /\ incoming' = [incoming EXCEPT ![cur] = Rest(@, k)]
        /\ Return
        /\ UNCHANGED <<st, closed, send_seq, recv_seq, framer, wire, to_dev, from_dev,
                       fins, device, use>>

\* The end of the connection: 0.
ReadEnds ==
    /\ op = "read"
    /\ incoming[cur] = <<>>
    /\ closed[cur]
    /\ Return
    /\ UNCHANGED <<st, host, wire, to_dev, from_dev, history, device, use>>
-----------------------------------------------------------------------------
(* The device.                                                             *)

DevFrame(l, type, seq, n) == [link |-> l, type |-> type, seq |-> seq, n |-> n]

Room(k) == tunnel = "up" /\ Len(from_dev) + 2 * k <= use.wire

DevSends(f) ==
    from_dev' = from_dev \o <<[frame |-> f, part |-> 1], [frame |-> f, part |-> 2]>>

\* What the device leaves alone in every step of its own.
DevOnly == UNCHANGED <<st, host, calls, wire, history, use>>

Arrives(l) == to_dev # <<>> /\ Head(to_dev).link = l /\ to_dev' = Tail(to_dev)

DevSyn(l) ==
    /\ Arrives(l)
    /\ Head(to_dev).type = "SYN"
    /\ Room(1)
    /\ \/ /\ DevSends(DevFrame(l, "SYNACK", 0, 0))
          /\ dev' = [dev EXCEPT ![l] = "syn"]
       \/ /\ DevSends(DevFrame(l, "RST", 0, 0))
          /\ dev' = [dev EXCEPT ![l] = "closed"]
    /\ dev_seq' = [dev_seq EXCEPT ![l] = 1]
    /\ DevOnly
    /\ UNCHANGED <<dev_fin, dev_sent, dev_done, resends>>

\* The next segment of a connection: its data goes to the service, and may be
\* acknowledged.
DevNext(l) ==
    LET f == Head(to_dev)
    IN  /\ Arrives(l)
        /\ f.type # "SYN"
        /\ dev[l] \in {"syn", "open"} /\ ~dev_fin[l] /\ f.seq = dev_seq[l]
        /\ dev' = [dev EXCEPT ![l] = "open"]
        /\ dev_seq' = [dev_seq EXCEPT ![l] = @ + f.n + (IF f.type = "FIN" THEN 1 ELSE 0)]
        /\ dev_fin' = [dev_fin EXCEPT ![l] = f.type = "FIN"]
        /\ \/ UNCHANGED from_dev
           \/ /\ f.type = "DATA" /\ Room(1)
              /\ DevSends(DevFrame(l, "ACK", dev_sent[l] + 1, 0))
        /\ DevOnly
        /\ UNCHANGED <<dev_sent, dev_done, resends>>

\* A segment the device has no use for is answered with a reset.
DevRefuses(l) ==
    LET f == Head(to_dev)
    IN  /\ Arrives(l)
        /\ f.type # "SYN"
        /\ dev[l] = "closed" \/ dev_fin[l] \/ f.seq # dev_seq[l]
        /\ Room(1)
        /\ DevSends(DevFrame(l, "RST", 0, 0))
        /\ dev' = [dev EXCEPT ![l] = "closed"]
        /\ DevOnly
        /\ UNCHANGED <<dev_seq, dev_fin, dev_sent, dev_done, resends>>

DevTakes == \E l \in Links : DevSyn(l) \/ DevNext(l) \/ DevRefuses(l)

DevData(l, n) ==
    /\ dev[l] = "open" /\ ~dev_done[l] /\ Room(1)
    /\ dev_sent[l] + n <= use.units
    /\ dev_sent' = [dev_sent EXCEPT ![l] = @ + n]
    /\ \/ /\ n > 0
          /\ DevSends(DevFrame(l, "DATA", dev_sent[l] + 1, n))
          /\ UNCHANGED dev_done
       \/ /\ DevSends(DevFrame(l, "FIN", dev_sent[l] + 1, n))
          /\ dev_done' = [dev_done EXCEPT ![l] = TRUE]
    /\ DevOnly
    /\ UNCHANGED <<to_dev, dev, dev_seq, dev_fin, resends>>

\* A service hangs up hard.
DevReset(l) ==
    /\ dev[l] = "open" /\ Room(1)
    /\ DevSends(DevFrame(l, "RST", 0, 0))
    /\ dev' = [dev EXCEPT ![l] = "closed"]
    /\ DevOnly
    /\ UNCHANGED <<to_dev, dev_seq, dev_fin, dev_sent, dev_done, resends>>

\* A TCP that has waited for an acknowledgement the host did not send yet sends
\* the segment again.
DevResends(l) ==
    /\ dev[l] = "open" /\ resends < use.resends /\ Room(1)
    /\ recv_seq[l] <= dev_sent[l]
    /\ DevSends(DevFrame(l, "DATA", recv_seq[l], dev_sent[l] + 1 - recv_seq[l]))
    /\ resends' = resends + 1
    /\ DevOnly
    /\ UNCHANGED <<to_dev, dev, dev_seq, dev_fin, dev_sent, dev_done>>

\* The device is unplugged, so that reads and writes of the stream below fail.
TunnelEnds ==
    /\ tunnel = "up"
    /\ tunnel' = "ended"
    /\ to_dev' = <<>>
    /\ UNCHANGED <<st, host, calls, faults, from_dev, history, device, use>>
-----------------------------------------------------------------------------
Call ==
    \E l \in Links :
        \/ Connect(l) \/ Close(l) \/ Destroy(l) \/ CallSpins(l)
        \/ \E n \in 1 .. use.writes : Write(l, n)
        \/ \E n \in 1 .. use.units : Read(l, n)

\* The packet at the head of the buffer is taken.
TakesPacket ==
    \/ ConnectSkips \/ ConnectRefused \/ Connected
    \/ ReadSkips \/ ReadReset \/ ReadFin \/ ReadData

Continue ==
    \/ WriteChunk \/ WriteFails \/ Written
    \/ TunnelRead \/ Misframed \/ TakesPacket
    \/ ReadReturns \/ ReadEnds

Serves(l) == \E n \in 0 .. use.mss : DevData(l, n)

Next ==
    \/ Call \/ Continue \/ ReadFails
    \/ DevTakes \/ TunnelEnds
    \/ \E l \in Links : Serves(l) \/ DevReset(l) \/ DevResends(l)

Spec == Init /\ [][Next]_vars

\* The thread runs, the device takes what it is sent, a service answers or hangs
\* up.  Without a tunnel a read fails.
Fairness ==
    /\ WF_vars(Continue)
    /\ WF_vars(tunnel = "ended" /\ ReadFails)
    /\ WF_vars(DevTakes)
    /\ \A l \in Links : WF_vars(Serves(l))

FairSpec == Spec /\ Fairness
-----------------------------------------------------------------------------
\* What came in on a link, in the order the caller sees it.
Hears(l) == heard[l] \o incoming[l]

\* No other link reads what is meant for one.
Undisturbed == use.alone \/ use.links = 1

\* Impl::read, "a segment arrives in order" (tcp_link.cpp:348): what a link hands
\* out was sent on its connection, in the order it was sent and once, whatever
\* other links read and throw away, where the device sends nothing twice.
DeliveredInOrder ==
    use.resends = 0 => \A l \in Links :
        LET h == Hears(l)
        IN  /\ \A i \in 1 .. Len(h) : h[i].link = l /\ h[i].at <= dev_sent[l]
            /\ \A i, j \in 1 .. Len(h) : i < j => h[i].at < h[j].at

\* The same comment, for a caller that uses one link at a time and a device that sends
\* nothing twice: nothing between two units is missing, not even after the packets a
\* former link read ahead.
DeliveredGapless ==
    use.alone /\ use.resends = 0 =>
        \A l \in Links : \A i \in 1 .. Len(Hears(l)) : Hears(l)[i].at = i

\* recv_seq is sent with every segment (tcp_link.cpp:219): a unit the device is
\* told to forget is in the caller's hands or in `incoming`.
AckedIsHeard ==
    \A l \in Links : Undisturbed /\ st[l] = "open" =>
        \A u \in 1 .. dev_sent[l] : u < recv_seq[l] =>
            \E i \in 1 .. Len(Hears(l)) : Hears(l)[i].at = u

\* send_seq counts what was sent, a SYN and a FIN for one (tcp_link.cpp:257): after
\* writes that failed the device still finds the next segment in sequence.
SentInSequence ==
    \A l \in Links : \A f \in {to_dev[i] : i \in 1 .. Smaller(1, Len(to_dev))} :
        f.link = l /\ dev[l] \in {"syn", "open"} => f.seq = dev_seq[l]

\* The FIN of close and the answer to the device's FIN cross: one is sent.
FinOnce == \A l \in Links : fins[l] <= 1

\* "so the re-framer starts on a packet boundary" (docs/10-coredevice-tunnel.md:72):
\* what the only link of a tunnel reads first is the start of a packet, and stays so.
FramerAligned == use.links = 1 => \A l \in Links : framer[l] # <<>> => framer[l][1].part = 1

\* What the caller of a link reads is the service's bytes from the first on
\* (Impl::read, take_segment), as far as the use of the links lets it be.
DeliveredWhole == DeliveredInOrder /\ DeliveredGapless /\ FramerAligned

\* The numbers of the TCP header are true: send_seq and the FIN for the device, and
\* recv_seq for the caller of the link (send_segment, take_segment).
SequencesHonest == SentInSequence /\ FinOnce /\ AckedIsHeard

\* The call has something to send.
Sending ==
    \/ op = "spins"
    \/ op = "write" /\ left > 0
    \/ op = "connect" /\ Whole /\ IsMine(Segment) /\ Segment.type = "SYNACK"
    \/ op = "read" /\ Waits /\ Whole /\ IsMine(Segment) /\ Segment.type \in {"DATA", "FIN"}

\* The loop of TlsSession::write (pairing.cpp:828) goes round for ever.
Spinning == use.over = "tls" /\ tunnel = "ended" /\ Sending

\* The loops of connect and read wait for a segment of their own and pass over the
\* others: a call on a tunnel whose device answers returns, also when the tunnel ends,
\* unless it has something to send over TLS then.  A Tunnel without TLS, whose reads
\* wait for more than the answer, promises nothing of the kind.
CallsReturn ==
    op # "idle" /\ Undisturbed /\ use.over # "plain" ~> op = "idle" \/ Spinning

\* One link at a time, and a device that sends nothing twice.
Plain == use.alone /\ use.resends = 0

Count(seq, fin) == IF seq = 0 THEN 0 ELSE seq - 1 - fin

Channel == INSTANCE ByteChannel WITH
    Streams  <- Links,
    st       <- [l \in Links |-> IF st[l] \in {"none", "connecting"} \/ ~Plain THEN "new"
                                 ELSE IF st[l] = "open" THEN "open" ELSE "over"],
    written  <- [l \in Links |-> IF Plain THEN Count(send_seq[l], fins[l]) ELSE 0],
    taken    <- [l \in Links |-> IF Plain THEN Count(dev_seq[l], IF dev_fin[l] THEN 1 ELSE 0) ELSE 0],
    produced <- [l \in Links |-> IF Plain THEN dev_sent[l] ELSE 0],
    out      <- [l \in Links |-> IF Plain THEN [i \in 1 .. Len(heard[l]) |-> heard[l][i].at] ELSE <<>>]

\* TcpLink is a ByteStream (tcp_link.hpp:35): used one at a time, the links are the
\* channels a service codec counts on, the same that a mux Stream is.  Of links
\* that share the tunnel, or hear what was sent again, nothing of the kind is promised.
ImplementsByteChannel == Channel!Spec
=============================================================================
