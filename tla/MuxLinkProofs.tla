--------------------------- MODULE MuxLinkProofs ---------------------------
(***************************************************************************)
(* Theorems about MuxLink for every value of its constants: any number of  *)
(* streams, ports of any width, frames of any size, any number of faults,  *)
(* and a caller and a device with or without discipline.  What streams     *)
(* hear comes first, then how they let go of their ports.                  *)
(***************************************************************************)
EXTENDS MuxLink, SequenceTheorems, TLAPS

-----------------------------------------------------------------------------
(* The inductive invariant of DeliveredInOrder.                            *)

Fresh(c) == c[1] \notin 1 .. opens

\* Until the counter wraps, stream s has port s, and a port not yet allocated
\* was never used, on either side or on the way.
PortsInOrder ==
    /\ next_port_ = IF opens + 1 = PortModulus THEN 0 ELSE opens + 1
    /\ \A s \in Streams : s <= opens => local_port_[s] = s
    /\ \A s \in Streams : s > opens =>
           local_port_[s] = 0 /\ phase[s] = "none" /\ Heard(s) = <<>>
    /\ op # "idle" => cur <= opens

FreshUnused ==
    \A c \in Conns : Fresh(c) =>
        /\ dev_state[c] = "none"
        /\ dev_sent[c] = 0
        /\ \A i \in 1 .. Len(to_dev) : to_dev[i].conn # c
        /\ \A i \in 1 .. Len(to_host) : to_host[i].conn # c

\* The SYN of a connection is the first frame the device sees of it.
SynFirst ==
    \A j \in 1 .. Len(to_dev) : to_dev[j].flags = "SYN" =>
        /\ dev_state[to_dev[j].conn] = "none"
        /\ dev_sent[to_dev[j].conn] = 0
        /\ \A i \in 1 .. (j - 1) : to_dev[i].conn # to_dev[j].conn

\* A data frame under way holds the units its sequence number says.
FramesExact ==
    \A i \in 1 .. Len(to_host) : to_host[i].data # <<>> =>
        /\ to_host[i].conn \in Conns
        /\ to_host[i].seq + Len(to_host[i].data) <= dev_sent[to_host[i].conn] + 1
        /\ \A k \in 1 .. Len(to_host[i].data) :
               to_host[i].data[k] = <<to_host[i].conn, (to_host[i].seq - 1) + k>>

\* Of one connection they are in order.
FramesOrdered ==
    \A i, j \in 1 .. Len(to_host) :
        /\ i < j
        /\ to_host[i].conn = to_host[j].conn
        /\ to_host[i].data # <<>>
        /\ to_host[j].data # <<>>
        => to_host[i].seq + Len(to_host[i].data) <= to_host[j].seq

HeardExact ==
    \A s \in Streams : \A i \in 1 .. Len(Heard(s)) :
        /\ Heard(s)[i][1] = Conn(s)
        /\ Heard(s)[i][2] <= dev_sent[Conn(s)]

HeardOrdered ==
    \A s \in Streams : \A i, j \in 1 .. Len(Heard(s)) :
        i < j => Heard(s)[i][2] < Heard(s)[j][2]

\* What is under way comes after what was heard.
HeardFirst ==
    \A s \in Streams : \A i \in 1 .. Len(to_host) :
        to_host[i].data # <<>> /\ to_host[i].conn = Conn(s) =>
            \A k \in 1 .. Len(Heard(s)) : Heard(s)[k][2] < to_host[i].seq

Wires == FreshUnused /\ SynFirst /\ FramesExact /\ FramesOrdered
Ears  == HeardExact /\ HeardOrdered /\ HeardFirst
IInv  == NoWrap => PortsInOrder /\ Wires /\ Ears
-----------------------------------------------------------------------------
(* Lemmas about the operators of the model.                                *)

\* The uint16_t counters stay within their width.
LEMMA CounterTypes ==
    /\ \A p \in Ports : PortAfter(p) \in Ports
    /\ \A m \in 0 .. (MuxModulus - 1) : NextMux(m) \in 0 .. (MuxModulus - 1)
  BY MuxLinkAssumption DEF PortAfter, NextMux, Ports

\* A subsequence of units is a sequence of units.
LEMMA SubSeqUnits ==
    ASSUME NEW data \in Seq(Units), NEW m \in Nat \ {0}, NEW n \in 0 .. Len(data)
    PROVE  SubSeq(data, m, n) \in Seq(Units)
  BY SubSeqProperties

\* Session::send keeps the session well typed, whether the write succeeds or not.
LEMMA SentType ==
    ASSUME TypeOK, NEW c \in Conns, NEW flags \in Flags,
           NEW seq \in Nat, NEW ack \in Nat, NEW len \in Nat,
           Sent(c, flags, seq, ack, len)
    PROVE  /\ to_dev' \in Seq(HostFrames)
           /\ mux_tx_seq_' \in 0 .. (MuxModulus - 1)
           /\ link' \in {"up", "down", "closed"}
           /\ faults' \in 0 .. MaxFaults
           /\ dead_use' \in BOOLEAN
  BY CounterTypes DEF TypeOK, Sent, HostFrame, HostFrames

LEMMA SendFailsType ==
    ASSUME TypeOK, SendFails
    PROVE  /\ to_dev' \in Seq(HostFrames)
           /\ mux_tx_seq_' \in 0 .. (MuxModulus - 1)
           /\ link' \in {"up", "down", "closed"}
           /\ faults' \in 0 .. MaxFaults
           /\ dead_use' \in BOOLEAN
  BY CounterTypes, MuxLinkAssumption DEF TypeOK, SendFails
-----------------------------------------------------------------------------
(* Type correctness.                                                       *)

LEMMA ReceivedType ==
    ASSUME TypeOK, Received
    PROVE  Frame \in DevFrames /\ to_host' \in Seq(DevFrames)
  BY DEF TypeOK, Received, Frame

LEMMA ConnType ==
    ASSUME TypeOK, NEW s \in Streams
    PROVE  Conn(s) \in Conns
  BY DEF TypeOK, Conn, Conns

LEMMA HandOutType ==
    ASSUME TypeOK, NEW s \in Streams, NEW data \in Seq(Units), NEW n \in 0 .. Len(data),
           HandOut(s, data, n)
    PROVE  /\ got' \in [Streams -> Seq(Units)]
           /\ incoming_' \in [Streams -> Seq(Units)]
  <1>1. SubSeq(data, 1, n) \in Seq(Units)
    BY SubSeqUnits
  <1>2. SubSeq(data, n + 1, Len(data)) \in Seq(Units)
    BY SubSeqUnits
  <1>3. got[s] \o SubSeq(data, 1, n) \in Seq(Units)
    BY <1>1, ConcatProperties DEF TypeOK
  <1> QED
    BY <1>2, <1>3 DEF TypeOK, HandOut

LEMMA InitType == Init => TypeOK
  <1> SUFFICES ASSUME Init PROVE TypeOK
    OBVIOUS
  <1>1. <<>> \in Seq(Units) /\ <<>> \in Seq(HostFrames) /\ <<>> \in Seq(DevFrames)
    BY EmptySeq
  <1>2. 0 \in Ports /\ 1 \in Ports /\ 1 \in Streams /\ 1 \in 0 .. (MuxModulus - 1)
    BY MuxLinkAssumption DEF Ports, Streams
  <1>3. remote_port_ \in [Streams -> Services]
    BY DEF Init
  <1>4. /\ opens \in 0 .. MaxOpens /\ faults \in 0 .. MaxFaults /\ want \in Nat
        /\ dev_mux \in 0 .. (MuxModulus - 1) /\ mux_tx_seq_ \in 0 .. (MuxModulus - 1)
        /\ next_port_ \in Ports /\ cur \in Streams
    BY <1>2, MuxLinkAssumption DEF Init
  <1>5. /\ incoming_ \in [Streams -> Seq(Units)] /\ got \in [Streams -> Seq(Units)]
        /\ to_dev \in Seq(HostFrames) /\ to_host \in Seq(DevFrames)
    BY <1>1 DEF Init
  <1>6. /\ local_port_ \in [Streams -> Ports]
        /\ closed_ \in [Streams -> BOOLEAN] /\ failed \in [Streams -> BOOLEAN]
        /\ stranded \in SUBSET Streams
    BY <1>2 DEF Init
  <1> QED
    BY <1>3, <1>4, <1>5, <1>6 DEF Init, TypeOK

LEMMA OpenType ==
    ASSUME TypeOK, OpenStep \/ \E svc \in Services : OpenSyn(svc)
    PROVE  TypeOK'
  <1> USE DEF vars, session, connection, names, stream, caller, device
  <1>1. ASSUME NEW svc \in Services, OpenSyn(svc)
        PROVE  TypeOK'
    <2>1. opens + 1 \in Streams /\ <<next_port_, svc>> \in Conns
      BY <1>1, MuxLinkAssumption DEF OpenSyn, TypeOK, Streams, Conns
    <2>2. PortAfter(next_port_) \in Ports
      BY CounterTypes DEF TypeOK
    <2>3. /\ to_dev' \in Seq(HostFrames)
          /\ mux_tx_seq_' \in 0 .. (MuxModulus - 1)
          /\ link' \in {"up", "down", "closed"}
          /\ faults' \in 0 .. MaxFaults
          /\ dead_use' \in BOOLEAN
      BY <1>1, <2>1, SentType, SendFailsType DEF OpenSyn, Flags
    <2>4. /\ local_port_' \in [Streams -> Ports]
          /\ remote_port_' \in [Streams -> Services]
      BY <1>1, <2>1 DEF OpenSyn, TypeOK
    <2>5. opens' \in 0 .. MaxOpens
      BY <1>1, <2>1 DEF OpenSyn, Streams
    <2>6. /\ phase' \in [Streams -> {"none", "opening", "open", "failed", "closed"}]
          /\ op' \in {"idle", "open", "read", "read_all", "write"}
          /\ cur' \in Streams
      BY <1>1, <2>1 DEF OpenSyn, TypeOK
    <2>7. UNCHANGED <<stranded, stream, got, want, failed, device, to_host>>
      BY <1>1 DEF OpenSyn
    <2>8. next_port_' \in Ports
      BY <1>1, <2>2 DEF OpenSyn
    <2> QED
      BY <2>3, <2>4, <2>5, <2>6, <2>7, <2>8 DEF TypeOK
  <1>2. CASE OpenSkips
    BY <1>2, ReceivedType DEF OpenSkips, TypeOK
  <1>3. CASE OpenRefused
    BY <1>3, ReceivedType DEF OpenRefused, OpenGivesUp, Return, TypeOK
  <1>4. CASE OpenTimesOut
    BY <1>4, MuxLinkAssumption DEF OpenTimesOut, OpenGivesUp, Return, ReceiveFails, TypeOK
  <1>5. CASE OpenSucceeds
    <2>1. Frame \in DevFrames /\ to_host' \in Seq(DevFrames)
      BY <1>5, ReceivedType DEF OpenSucceeds, OpenAnswered
    <2>2. Frame.seq + 1 \in Nat
      BY <2>1 DEF DevFrames
    <2>3. /\ to_dev' \in Seq(HostFrames)
          /\ mux_tx_seq_' \in 0 .. (MuxModulus - 1)
          /\ link' \in {"up", "down", "closed"}
          /\ faults' \in 0 .. MaxFaults
          /\ dead_use' \in BOOLEAN
      BY <1>5, <2>2, ConnType, SentType DEF OpenSucceeds, Flags, TypeOK
    <2> QED
      BY <1>5, <2>1, <2>2, <2>3 DEF OpenSucceeds, OpenAnswered, Return, TypeOK
  <1>6. CASE OpenAckFails
    <2>1. Frame \in DevFrames /\ to_host' \in Seq(DevFrames)
      BY <1>6, ReceivedType DEF OpenAckFails, OpenAnswered
    <2>2. Frame.seq + 1 \in Nat
      BY <2>1 DEF DevFrames
    <2>3. HostFrame(Conn(cur), "RST", 1, Frame.seq + 1, 0, NextMux(mux_tx_seq_)) \in HostFrames
      BY <2>2, ConnType, CounterTypes DEF TypeOK, HostFrame, HostFrames, Flags
    <2>4. to_dev' \in Seq(HostFrames) /\ faults' \in 0 .. MaxFaults
      <3> DEFINE rst == HostFrame(Conn(cur), "RST", 1, Frame.seq + 1, 0, NextMux(mux_tx_seq_))
      <3>1. CASE faults < MaxFaults /\ faults' = faults + 1 /\ to_dev' = Append(to_dev, rst)
        <4> HIDE DEF rst
        <4> QED
          BY <3>1, <2>3, MuxLinkAssumption DEF TypeOK, rst
      <3>2. CASE faults + 1 < MaxFaults /\ faults' = faults + 2 /\ UNCHANGED to_dev
        BY <3>2, MuxLinkAssumption DEF TypeOK
      <3> QED
        BY <1>6, <3>1, <3>2 DEF OpenAckFails
    <2>5. mux_tx_seq_' \in 0 .. (MuxModulus - 1)
      BY <1>6, CounterTypes DEF OpenAckFails, TypeOK
    <2>6. stranded' \in SUBSET Streams
      BY <1>6 DEF OpenAckFails, TypeOK
    <2> QED
      BY <1>6, <2>1, <2>2, <2>4, <2>5, <2>6 DEF OpenAckFails, OpenAnswered, OpenGivesUp, Return, TypeOK
  <1> QED
    BY <1>1, <1>2, <1>3, <1>4, <1>5, <1>6 DEF OpenStep

LEMMA ReadType ==
    ASSUME TypeOK,
           \/ ReadStep
           \/ \E s \in Streams : ReadAll(s) \/ \E n \in 1 .. MaxUnits : ReadExact(s, n)
    PROVE  TypeOK'
  <1> USE DEF vars, session, connection, names, stream, caller, device
  <1>1. ASSUME NEW s \in Streams, NEW n \in 1 .. MaxUnits, ReadExact(s, n)
        PROVE  TypeOK'
    <2> DEFINE n1 == Smaller(n, Len(incoming_[s]))
    <2>1. incoming_[s] \in Seq(Units) /\ Len(incoming_[s]) \in Nat
      BY LenProperties DEF TypeOK
    <2>2. n1 \in 0 .. Len(incoming_[s]) /\ (n1 # n => n - n1 \in Nat)
      BY <2>1, MuxLinkAssumption DEF Smaller
    <2>3. HandOut(s, incoming_[s], n1)
      BY <1>1 DEF ReadExact
    <2>4. got' \in [Streams -> Seq(Units)] /\ incoming_' \in [Streams -> Seq(Units)]
      BY <2>1, <2>2, <2>3, HandOutType
    <2>5. /\ op' \in {"idle", "open", "read", "read_all", "write"}
          /\ cur' \in Streams
          /\ want' \in Nat
      BY <1>1, <2>2 DEF ReadExact, TypeOK
    <2> QED
      BY <1>1, <2>4, <2>5 DEF ReadExact, TypeOK
  <1>2. ASSUME NEW s \in Streams, ReadAll(s)
        PROVE  TypeOK'
    <2>1. incoming_[s] \in Seq(Units) /\ Len(incoming_[s]) \in Nat
      BY LenProperties DEF TypeOK
    <2>2. Len(incoming_[s]) \in 0 .. Len(incoming_[s])
      BY <2>1
    <2>3. got' \in [Streams -> Seq(Units)] /\ incoming_' \in [Streams -> Seq(Units)]
      BY <1>2, <2>1, <2>2, HandOutType DEF ReadAll
    <2> QED
      BY <1>2, <2>3 DEF ReadAll, TypeOK
  <1>3. CASE ReadSkips
    BY <1>3, ReceivedType DEF ReadSkips, TypeOK
  <1>4. CASE ReadReset
    <2>1. to_host' \in Seq(DevFrames) /\ closed_' \in [Streams -> BOOLEAN]
      BY <1>4, ReceivedType DEF ReadReset, TypeOK
    <2>2. /\ failed' \in [Streams -> BOOLEAN]
          /\ op' = "idle" /\ cur' = cur /\ want' = 0 /\ UNCHANGED <<phase, got>>
      BY <1>4 DEF ReadReset, Fail, Return, TypeOK
    <2> QED
      BY <1>4, <2>1, <2>2 DEF ReadReset, TypeOK
  <1>5. ASSUME ReadFrame
        PROVE  /\ Frame.seq \in Nat
               /\ Frame.data \in Seq(Units)
               /\ Len(Frame.data) \in Nat
               /\ AckOf(Frame) \in Nat
               /\ to_host' \in Seq(DevFrames)
               /\ tx_ack_' \in [Streams -> Nat]
    <2>1. Frame \in DevFrames /\ to_host' \in Seq(DevFrames)
      BY <1>5, ReceivedType DEF ReadFrame
    <2>2. Frame.seq \in Nat /\ Frame.data \in Seq(Units) /\ Len(Frame.data) \in Nat
      BY <2>1, LenProperties DEF DevFrames
    <2> QED
      BY <1>5, <2>1, <2>2, SMTT(60) DEF ReadFrame, AckOf, TypeOK
  <1>6. CASE ReadTakes
    <2> DEFINE n == IF op = "read" THEN Smaller(want, Len(Frame.data)) ELSE Len(Frame.data)
    <2>1. /\ Frame.seq \in Nat /\ Frame.data \in Seq(Units) /\ Len(Frame.data) \in Nat
          /\ to_host' \in Seq(DevFrames) /\ tx_ack_' \in [Streams -> Nat]
          /\ AckOf(Frame) \in Nat
      BY <1>5, <1>6 DEF ReadTakes
    <2>2. n \in 0 .. Len(Frame.data) /\ (op = "read" => want - n \in Nat)
      BY <2>1 DEF Smaller, TypeOK
    <2>3. HandOut(cur, Frame.data, n)
      BY <1>6 DEF ReadTakes
    <2>4. got' \in [Streams -> Seq(Units)] /\ incoming_' \in [Streams -> Seq(Units)]
      BY <2>1, <2>2, <2>3, HandOutType DEF TypeOK
    <2>5. Conn(cur) \in Conns /\ tx_seq_[cur] \in Nat
      BY ConnType DEF TypeOK
    <2>6. /\ to_dev' \in Seq(HostFrames)
          /\ mux_tx_seq_' \in 0 .. (MuxModulus - 1)
          /\ link' \in {"up", "down", "closed"}
          /\ faults' \in 0 .. MaxFaults
          /\ dead_use' \in BOOLEAN
      BY <1>6, <2>1, <2>5, SentType DEF ReadTakes, Flags
    <2>7. op' \in {"idle", "open", "read", "read_all", "write"} /\ cur' \in Streams /\ want' \in Nat
      BY <1>6, <2>2 DEF ReadTakes, Return, TypeOK
    <2> QED
      BY <1>6, <2>1, <2>4, <2>6, <2>7 DEF ReadTakes, ReadFrame, TypeOK
  <1>7. CASE ReadAckFails
    <2>1. /\ to_host' \in Seq(DevFrames) /\ tx_ack_' \in [Streams -> Nat]
      BY <1>5, <1>7 DEF ReadAckFails
    <2>2. /\ to_dev' \in Seq(HostFrames)
          /\ mux_tx_seq_' \in 0 .. (MuxModulus - 1)
          /\ link' \in {"up", "down", "closed"}
          /\ faults' \in 0 .. MaxFaults
          /\ dead_use' \in BOOLEAN
      BY <1>7, SendFailsType DEF ReadAckFails
    <2> QED
      BY <1>7, <2>1, <2>2 DEF ReadAckFails, ReadFrame, Fail, Return, TypeOK
  <1>8. CASE ReadTimesOut
    BY <1>8, MuxLinkAssumption DEF ReadTimesOut, ReceiveFails, Fail, Return, TypeOK
  <1> QED
    BY <1>1, <1>2, <1>3, <1>4, <1>6, <1>7, <1>8 DEF ReadStep

LEMMA WriteType ==
    ASSUME TypeOK,
           \/ WriteStep
           \/ \E s \in Streams, n \in 1 .. MaxUnits : Write(s, n)
    PROVE  TypeOK'
  <1> USE DEF vars, session, connection, names, stream, caller, device
  <1>1. ASSUME NEW s \in Streams, NEW n \in 1 .. MaxUnits, Write(s, n)
        PROVE  TypeOK'
    BY <1>1, MuxLinkAssumption, SMTT(60) DEF Write, TypeOK
  <1>2. CASE WriteChunk
    <2> DEFINE chunk == Smaller(MaxPayload, want)
    <2>1. chunk \in Nat /\ want - chunk \in Nat
      BY MuxLinkAssumption DEF Smaller, TypeOK
    <2>2. /\ Conn(cur) \in Conns /\ tx_seq_[cur] \in Nat /\ tx_ack_[cur] \in Nat
      BY ConnType DEF TypeOK
    <2>3. Sent(Conn(cur), "ACK", tx_seq_[cur], tx_ack_[cur], chunk)
      BY <1>2 DEF WriteChunk
    <2>4. /\ to_dev' \in Seq(HostFrames)
          /\ mux_tx_seq_' \in 0 .. (MuxModulus - 1)
          /\ link' \in {"up", "down", "closed"}
          /\ faults' \in 0 .. MaxFaults
          /\ dead_use' \in BOOLEAN
      <3> HIDE DEF chunk
      <3> QED
        BY <2>1, <2>2, <2>3, SentType DEF Flags
    <2>5. tx_seq_' \in [Streams -> Nat]
      BY <1>2, <2>1, <2>2, SMTT(60) DEF WriteChunk, SeqAfter, TypeOK
    <2>6. op' \in {"idle", "open", "read", "read_all", "write"} /\ cur' \in Streams /\ want' \in Nat
      BY <1>2, <2>1 DEF WriteChunk, Return, TypeOK
    <2> QED
      BY <1>2, <2>4, <2>5, <2>6 DEF WriteChunk, TypeOK
  <1>3. CASE WriteFails
    BY <1>3, SendFailsType DEF WriteFails, Fail, Return, TypeOK
  <1> QED
    BY <1>1, <1>2, <1>3 DEF WriteStep

LEMMA CloseType ==
    ASSUME TypeOK, ConnClose \/ Drop \/ \E s \in Streams : Close(s)
    PROVE  TypeOK'
  <1> USE DEF vars, session, connection, names, stream, caller, device
  <1>1. <<>> \in Seq(HostFrames) /\ <<>> \in Seq(DevFrames)
    BY EmptySeq
  <1>2. CASE ConnClose
    BY <1>1, <1>2 DEF ConnClose, TypeOK
  <1>3. CASE Drop
    BY <1>1, <1>3 DEF Drop, TypeOK
  <1>4. ASSUME NEW s \in Streams, Close(s)
        PROVE  TypeOK'
    <2>1. /\ Conn(s) \in Conns /\ tx_seq_[s] \in Nat /\ tx_ack_[s] \in Nat
      BY ConnType DEF TypeOK
    <2>2. /\ to_dev' \in Seq(HostFrames)
          /\ mux_tx_seq_' \in 0 .. (MuxModulus - 1)
          /\ link' \in {"up", "down", "closed"}
          /\ faults' \in 0 .. MaxFaults
          /\ dead_use' \in BOOLEAN
      <3>1. CASE SkipsReset(s)
        BY <1>4, <3>1 DEF Close, TypeOK
      <3>2. CASE SendFails
        BY <3>2, SendFailsType
      <3>3. CASE Sent(Conn(s), "RST", tx_seq_[s], tx_ack_[s], 0)
        BY <2>1, <3>3, SentType DEF Flags
      <3> QED
        BY <1>4, <3>1, <3>2, <3>3 DEF Close
    <2>3. stranded' \in SUBSET Streams
      BY <1>4 DEF Close, TypeOK
    <2> QED
      BY <1>4, <2>2, <2>3 DEF Close, TypeOK
  <1> QED
    BY <1>2, <1>3, <1>4

LEMMA DeviceType ==
    ASSUME TypeOK, Device
    PROVE  TypeOK'
  <1> USE DEF vars, session, connection, names, stream, caller, device
  <1>1. ASSUME NEW c \in Conns \cup {NoConn}, NEW flags \in Flags, NEW seq \in Nat,
               NEW data \in Seq(Units)
        PROVE  /\ DevFrame(c, flags, seq, data) \in DevFrames
               /\ Append(to_host, DevFrame(c, flags, seq, data)) \in Seq(DevFrames)
               /\ Answers(DevFrame(c, flags, seq, data)) => to_host' \in Seq(DevFrames)
    <2>1. DevFrame(c, flags, seq, data) \in DevFrames
      BY <1>1 DEF DevFrame, DevFrames
    <2>2. Append(to_host, DevFrame(c, flags, seq, data)) \in Seq(DevFrames)
      BY <2>1, AppendProperties DEF TypeOK
    <2> QED
      BY <2>1, <2>2 DEF Answers, TypeOK
  <1>2. <<>> \in Seq(Units)
    BY EmptySeq
  <1>3. ASSUME DevTakes
        PROVE  /\ Head(to_dev) \in HostFrames
               /\ Head(to_dev).conn \in Conns /\ Head(to_dev).len \in Nat
               /\ to_dev' \in Seq(HostFrames)
               /\ dev_mux' \in 0 .. (MuxModulus - 1)
    <2>1. Head(to_dev) \in HostFrames /\ Tail(to_dev) \in Seq(HostFrames)
      BY <1>3, HeadTailProperties DEF DevTakes, TypeOK
    <2> QED
      BY <1>3, <2>1 DEF DevTakes, HostFrames
  <1>4. CASE DevSyn
    <2> DEFINE c == Head(to_dev).conn
    <2>1. c \in Conns /\ to_dev' \in Seq(HostFrames) /\ dev_mux' \in 0 .. (MuxModulus - 1)
      BY <1>3, <1>4 DEF DevSyn
    <2>2. to_host' \in Seq(DevFrames)
      <3>1. CASE Answers(DevFrame(c, "SYNACK", 0, <<>>))
        BY <1>1, <1>2, <2>1, <3>1 DEF Flags
      <3>2. ASSUME NEW flags \in {"RST", "ACK"}, Answers(DevFrame(c, flags, 0, <<>>))
            PROVE  to_host' \in Seq(DevFrames)
        BY <1>1, <1>2, <2>1, <3>2 DEF Flags
      <3> QED
        BY <1>4, <3>1, <3>2 DEF DevSyn
    <2>3. /\ dev_state' \in [Conns -> {"none", "synrcvd", "est", "reset"}]
          /\ dev_rcvd' \in [Conns -> Nat]
          /\ dev_sent' \in [Conns -> Nat]
      <3>1. \/ UNCHANGED <<dev_state, dev_rcvd, dev_sent>>
            \/ /\ dev_state' = [dev_state EXCEPT ![c] = "synrcvd"]
               /\ dev_rcvd' = [dev_rcvd EXCEPT ![c] = 0]
               /\ dev_sent' = [dev_sent EXCEPT ![c] = 0]
        BY <1>4 DEF DevSyn
      <3> HIDE DEF c
      <3>2. dev_state \in [Conns -> {"none", "synrcvd", "est", "reset"}]
        BY DEF TypeOK
      <3>3. dev_rcvd \in [Conns -> Nat] /\ dev_sent \in [Conns -> Nat]
        BY DEF TypeOK
      <3>4. dev_state' \in [Conns -> {"none", "synrcvd", "est", "reset"}]
        BY <2>1, <3>1, <3>2
      <3> QED
        BY <2>1, <3>1, <3>3, <3>4
    <2> QED
      BY <1>4, <2>1, <2>2, <2>3 DEF DevSyn, DevTakes, TypeOK
  <1>5. CASE DevRefuses
    <2> DEFINE c == Head(to_dev).conn
    <2>1. c \in Conns /\ to_dev' \in Seq(HostFrames) /\ dev_mux' \in 0 .. (MuxModulus - 1)
      BY <1>3, <1>5 DEF DevRefuses
    <2>2. dev_sent[c] + 1 \in Nat
      BY <2>1 DEF TypeOK
    <2>3. to_host' \in Seq(DevFrames)
      BY <1>1, <1>2, <1>5, <2>1, <2>2 DEF DevRefuses, Flags
    <2>4. dev_state' \in [Conns -> {"none", "synrcvd", "est", "reset"}]
      BY <1>5, <2>1 DEF DevRefuses, TypeOK
    <2> QED
      BY <1>5, <2>1, <2>3, <2>4 DEF DevRefuses, DevTakes, TypeOK
  <1>6. CASE DevData
    <2> DEFINE f == Head(to_dev)
    <2>1. /\ f.conn \in Conns /\ f.len \in Nat
          /\ to_dev' \in Seq(HostFrames) /\ dev_mux' \in 0 .. (MuxModulus - 1)
      BY <1>3, <1>6 DEF DevData
    <2>2. dev_sent[f.conn] + 1 \in Nat
      BY <2>1, SMTT(60) DEF TypeOK
    <2>3. to_host' \in Seq(DevFrames)
      BY <1>1, <1>2, <1>6, <2>1, <2>2 DEF DevData, Flags, TypeOK
    <2>4. dev_state' \in [Conns -> {"none", "synrcvd", "est", "reset"}]
      BY <1>6, <2>1 DEF DevData, TypeOK
    <2>5. dev_rcvd' \in [Conns -> Nat]
      <3>1. dev_rcvd' = [dev_rcvd EXCEPT ![f.conn] = @ + f.len]
        BY <1>6 DEF DevData
      <3> QED
        BY <2>1, <3>1, SMTT(60) DEF TypeOK
    <2> QED
      BY <1>6, <2>1, <2>3, <2>4, <2>5 DEF DevData, DevTakes, TypeOK
  <1>7. CASE DevEnds
    <2>1. /\ Head(to_dev).conn \in Conns
          /\ to_dev' \in Seq(HostFrames) /\ dev_mux' \in 0 .. (MuxModulus - 1)
      BY <1>3, <1>7 DEF DevEnds
    <2>2. dev_state' \in [Conns -> {"none", "synrcvd", "est", "reset"}]
      BY <1>7, <2>1 DEF DevEnds, TypeOK
    <2> QED
      BY <1>7, <2>1, <2>2 DEF DevEnds, DevTakes, TypeOK
  <1>8. ASSUME NEW c \in Conns, DevReset(c)
        PROVE  TypeOK'
    <2>1. dev_sent[c] + 1 \in Nat
      BY DEF TypeOK
    <2>2. to_host' \in Seq(DevFrames)
      BY <1>1, <1>2, <1>8, <2>1 DEF DevReset, Flags
    <2> QED
      BY <1>8, <2>2 DEF DevReset, TypeOK
  <1>9. ASSUME NEW c \in Conns, NEW n \in 1 .. MaxUnits, DevSend(c, n)
        PROVE  TypeOK'
    <2> DEFINE data == [k \in 1 .. n |-> <<c, dev_sent[c] + k>>]
    <2>1. n \in Nat /\ dev_sent[c] + 1 \in Nat
      BY MuxLinkAssumption DEF TypeOK
    <2>2. \A k \in 1 .. n : <<c, dev_sent[c] + k>> \in Units
      BY DEF Units, TypeOK
    <2>3. data \in Seq(Units)
      <3>1. data \in [1 .. n -> Units]
        BY <2>2
      <3> QED
        BY <2>1, <3>1
    <2>4. to_host' \in Seq(DevFrames)
      <3> HIDE DEF data
      <3>1. to_host' = Append(to_host, DevFrame(c, "ACK", dev_sent[c] + 1, data))
        BY <1>9 DEF DevSend, data
      <3> QED
        BY <1>1, <2>1, <2>3, <3>1 DEF Flags
    <2>5. dev_sent' \in [Conns -> Nat]
      BY <1>9, <2>1, SMTT(60) DEF DevSend, TypeOK
    <2> QED
      BY <1>9, <2>4, <2>5 DEF DevSend, TypeOK
  <1>10. CASE DevControl
    <2>1. to_host' \in Seq(DevFrames)
      BY <1>1, <1>2, <1>10 DEF DevControl, Flags
    <2> QED
      BY <1>10, <2>1 DEF DevControl, TypeOK
  <1> QED
    BY <1>4, <1>5, <1>6, <1>7, <1>8, <1>9, <1>10 DEF Device, DevTurn

LEMMA NextType == TypeOK /\ [Next]_vars => TypeOK'
  <1> SUFFICES ASSUME TypeOK, [Next]_vars PROVE TypeOK'
    OBVIOUS
  <1>1. CASE Continue
    BY <1>1, OpenType, ReadType, WriteType DEF Continue
  <1>2. CASE Call
    BY <1>2, OpenType, ReadType, WriteType, CloseType DEF Call
  <1>3. CASE Device \/ Drop
    BY <1>3, DeviceType, CloseType
  <1>4. CASE UNCHANGED vars
    BY <1>4 DEF vars, session, connection, names, stream, caller, device, TypeOK
  <1> QED
    BY <1>1, <1>2, <1>3, <1>4 DEF Next

\* Every variable keeps its type in every behaviour: the uint16_t counters stay
\* in their width, and what is buffered and under way is well formed.
THEOREM TypeCorrect == Spec => []TypeOK
  <1>1. Init => TypeOK
    BY InitType
  <1>2. TypeOK /\ [Next]_vars => TypeOK'
    BY NextType
  <1> QED
    BY <1>1, <1>2, PTL DEF Spec
-----------------------------------------------------------------------------
(* Delivery.  First, what the steps do to the two wires.                   *)

LEMMA TailFacts ==
    ASSUME NEW S, NEW q \in Seq(S), q # <<>>
    PROVE  /\ Len(Tail(q)) = Len(q) - 1
           /\ \A i \in 1 .. Len(Tail(q)) : i + 1 \in 1 .. Len(q) /\ Tail(q)[i] = q[i + 1]
  BY HeadTailProperties

LEMMA AppendFacts ==
    ASSUME NEW S, NEW q \in Seq(S), NEW e \in S
    PROVE  /\ Len(Append(q, e)) = Len(q) + 1
           /\ \A i \in 1 .. Len(q) : Append(q, e)[i] = q[i]
           /\ Append(q, e)[Len(q) + 1] = e
  BY AppendProperties

\* A step of the host writes at most one frame, not a SYN, on a connection that
\* was opened, and takes at most the next frame.
HostWrites ==
    \/ to_dev' = to_dev
    \/ to_dev' = <<>>
    \/ \E f \in HostFrames :
           f.flags # "SYN" /\ ~Fresh(f.conn) /\ to_dev' = Append(to_dev, f)

HostTakes ==
    \/ to_host' = to_host
    \/ to_host' = <<>>
    \/ to_host # <<>> /\ to_host' = Tail(to_host)

LEMMA Taken ==
    ASSUME TypeOK, HostTakes
    PROVE  \E d \in {0, 1} : \A j \in 1 .. Len(to_host') :
               j + d \in 1 .. Len(to_host) /\ to_host'[j] = to_host[j + d]
  <1>1. to_host \in Seq(DevFrames)
    BY DEF TypeOK
  <1>2. CASE to_host' = to_host
    <2>1. \A j \in 1 .. Len(to_host') :
              j + 0 \in 1 .. Len(to_host) /\ to_host'[j] = to_host[j + 0]
      BY <1>1, <1>2
    <2> QED
      BY <2>1
  <1>3. CASE to_host' = <<>>
    BY <1>3
  <1>4. CASE to_host # <<>> /\ to_host' = Tail(to_host)
    <2>1. \A j \in 1 .. Len(to_host') :
              j + 1 \in 1 .. Len(to_host) /\ to_host'[j] = to_host[j + 1]
      BY <1>1, <1>4, TailFacts
    <2> QED
      BY <2>1
  <1> QED
    BY <1>2, <1>3, <1>4 DEF HostTakes

LEMMA Written ==
    ASSUME TypeOK, HostWrites, NEW j \in 1 .. Len(to_dev')
    PROVE  /\ j \in 1 .. Len(to_dev) => to_dev'[j] = to_dev[j]
           /\ j \notin 1 .. Len(to_dev) =>
                  to_dev'[j].flags # "SYN" /\ ~Fresh(to_dev'[j].conn)
  <1>1. to_dev \in Seq(HostFrames)
    BY DEF TypeOK
  <1>2. CASE to_dev' = to_dev \/ to_dev' = <<>>
    BY <1>1, <1>2
  <1>3. ASSUME NEW f \in HostFrames, f.flags # "SYN", ~Fresh(f.conn),
               to_dev' = Append(to_dev, f)
        PROVE  /\ j \in 1 .. Len(to_dev) => to_dev'[j] = to_dev[j]
               /\ j \notin 1 .. Len(to_dev) =>
                      to_dev'[j].flags # "SYN" /\ ~Fresh(to_dev'[j].conn)
    <2>1. CASE j \in 1 .. Len(to_dev)
      BY <1>1, <1>3, <2>1, AppendFacts
    <2>2. CASE j = Len(to_dev) + 1
      BY <1>1, <1>3, <2>2, AppendFacts
    <2>3. Len(to_dev') = Len(to_dev) + 1 /\ Len(to_dev) \in Nat
      BY <1>1, <1>3, AppendFacts
    <2> QED
      BY <2>1, <2>2, <2>3
  <1> QED
    BY <1>2, <1>3 DEF HostWrites

\* Such a step keeps what is said of the wires.
LEMMA HostKeepsWires ==
    ASSUME TypeOK, Wires, HostWrites, HostTakes, UNCHANGED <<opens, dev_state, dev_sent>>
    PROVE  Wires'
  <1>0. FreshUnused /\ SynFirst /\ FramesExact /\ FramesOrdered
    BY DEF Wires
  <1>1. PICK d \in {0, 1} : \A j \in 1 .. Len(to_host') :
                j + d \in 1 .. Len(to_host) /\ to_host'[j] = to_host[j + d]
    BY Taken
  <1>2. \A j \in 1 .. Len(to_dev') :
            /\ j \in 1 .. Len(to_dev) => to_dev'[j] = to_dev[j]
            /\ j \notin 1 .. Len(to_dev) =>
                   to_dev'[j].flags # "SYN" /\ ~Fresh(to_dev'[j].conn)
    BY Written
  <1>3. FreshUnused'
    <2> SUFFICES ASSUME NEW c \in Conns, Fresh(c)
                 PROVE  /\ dev_state'[c] = "none"
                        /\ dev_sent'[c] = 0
                        /\ \A i \in 1 .. Len(to_dev') : to_dev'[i].conn # c
                        /\ \A i \in 1 .. Len(to_host') : to_host'[i].conn # c
      BY DEF FreshUnused, Fresh
    <2>1. dev_state'[c] = "none" /\ dev_sent'[c] = 0
      BY <1>0 DEF FreshUnused
    <2>2. ASSUME NEW i \in 1 .. Len(to_dev') PROVE to_dev'[i].conn # c
      BY <1>0, <1>2 DEF FreshUnused
    <2>3. ASSUME NEW i \in 1 .. Len(to_host') PROVE to_host'[i].conn # c
      BY <1>0, <1>1 DEF FreshUnused
    <2> QED
      BY <2>1, <2>2, <2>3
  <1>4. SynFirst'
    <2> SUFFICES ASSUME NEW j \in 1 .. Len(to_dev'), to_dev'[j].flags = "SYN"
                 PROVE  /\ dev_state[to_dev'[j].conn] = "none"
                        /\ dev_sent[to_dev'[j].conn] = 0
                        /\ \A i \in 1 .. (j - 1) : to_dev'[i].conn # to_dev'[j].conn
      BY DEF SynFirst
    <2>0. to_dev \in Seq(HostFrames) /\ Len(to_dev) \in Nat
      BY DEF TypeOK
    <2>1. j \in 1 .. Len(to_dev) /\ to_dev'[j] = to_dev[j]
      BY <1>2
    <2>2. ASSUME NEW i \in 1 .. (j - 1)
          PROVE  to_dev'[i].conn # to_dev'[j].conn
      <3>1. i \in 1 .. Len(to_dev') /\ i \in 1 .. Len(to_dev)
        BY <2>0, <2>1
      <3>2. to_dev'[i] = to_dev[i]
        BY <1>2, <3>1
      <3> QED
        BY <1>0, <2>1, <3>2 DEF SynFirst
    <2> QED
      BY <1>0, <2>1, <2>2 DEF SynFirst
  <1>5. FramesExact'
    <2> SUFFICES ASSUME NEW i \in 1 .. Len(to_host'), to_host'[i].data # <<>>
                 PROVE  /\ to_host'[i].conn \in Conns
                        /\ to_host'[i].seq + Len(to_host'[i].data)
                               <= dev_sent[to_host'[i].conn] + 1
                        /\ \A k \in 1 .. Len(to_host'[i].data) :
                               to_host'[i].data[k]
                                   = <<to_host'[i].conn, (to_host'[i].seq - 1) + k>>
      BY DEF FramesExact
    <2>1. i + d \in 1 .. Len(to_host) /\ to_host'[i] = to_host[i + d]
      BY <1>1
    <2> QED
      BY <1>0, <2>1 DEF FramesExact
  <1>6. FramesOrdered'
    <2> SUFFICES ASSUME NEW i \in 1 .. Len(to_host'), NEW j \in 1 .. Len(to_host'),
                        i < j, to_host'[i].conn = to_host'[j].conn,
                        to_host'[i].data # <<>>, to_host'[j].data # <<>>
                 PROVE  to_host'[i].seq + Len(to_host'[i].data) <= to_host'[j].seq
      BY DEF FramesOrdered
    <2>1. /\ i + d \in 1 .. Len(to_host) /\ to_host'[i] = to_host[i + d]
          /\ j + d \in 1 .. Len(to_host) /\ to_host'[j] = to_host[j + d]
          /\ i + d < j + d
      BY <1>1
    <2> QED
      BY <1>0, <2>1 DEF FramesOrdered
  <1> QED
    BY <1>3, <1>4, <1>5, <1>6 DEF Wires
-----------------------------------------------------------------------------
(* Second, what the steps do to what the callers heard.                    *)

LEMMA HeardType ==
    ASSUME TypeOK, NEW s \in Streams
    PROVE  got[s] \in Seq(Units) /\ incoming_[s] \in Seq(Units) /\ Heard(s) \in Seq(Units)
  BY ConcatProperties DEF TypeOK, Heard

LEMMA CutAndJoin ==
    ASSUME NEW S, NEW g \in Seq(S), NEW q \in Seq(S), NEW n \in 0 .. Len(q)
    PROVE  (g \o SubSeq(q, 1, n)) \o SubSeq(q, n + 1, Len(q)) = g \o q
  <1> DEFINE a == SubSeq(q, 1, n)
             b == SubSeq(q, n + 1, Len(q))
  <1>1. Len(q) \in Nat
    BY LenProperties
  <1>2. a \in Seq(S) /\ b \in Seq(S)
    BY <1>1, SubSeqProperties
  <1>3. a \o b = q
    <2>1. /\ 1 \in 1 .. Len(q) + 1 /\ n \in 1 - 1 .. Len(q) /\ Len(q) \in n .. Len(q)
      BY <1>1
    <2>2. SubSeq(q, 1, n) \o SubSeq(q, n + 1, Len(q)) = SubSeq(q, 1, Len(q))
      BY <2>1, ConcatAdjacentSubSeq
    <2> QED
      BY <2>2, SubSeqFull
  <1> HIDE DEF a, b
  <1>4. (g \o a) \o b = g \o (a \o b)
    BY <1>2, ConcatAssociative
  <1> QED
    BY <1>3, <1>4 DEF a, b

\* What is handed out and what is buffered together are what came in.
LEMMA HandOutHeard ==
    ASSUME TypeOK, NEW s \in Streams, NEW data \in Seq(Units), NEW n \in 0 .. Len(data),
           HandOut(s, data, n)
    PROVE  /\ Heard(s)' = got[s] \o data
           /\ \A t \in Streams \ {s} : Heard(t)' = Heard(t)
  <1>1. got[s] \in Seq(Units)
    BY HeardType
  <1>2. /\ got'[s] = got[s] \o SubSeq(data, 1, n)
        /\ incoming_'[s] = SubSeq(data, n + 1, Len(data))
        /\ \A t \in Streams \ {s} : got'[t] = got[t] /\ incoming_'[t] = incoming_[t]
    BY DEF HandOut, TypeOK
  <1>3. (got[s] \o SubSeq(data, 1, n)) \o SubSeq(data, n + 1, Len(data)) = got[s] \o data
    BY <1>1, CutAndJoin
  <1>4. \A t \in Streams : Heard(t) = got[t] \o incoming_[t]
    BY DEF Heard
  <1>5. \A t \in Streams : Heard(t)' = got'[t] \o incoming_'[t]
    BY DEF Heard
  <1>6. Heard(s)' = got[s] \o data
    BY <1>2, <1>3, <1>5
  <1>7. \A t \in Streams \ {s} : Heard(t)' = Heard(t)
    BY <1>2, <1>4, <1>5
  <1> QED
    BY <1>6, <1>7

\* A step that takes a frame without hearing it keeps what is said of the ears.
LEMMA DeafStep ==
    ASSUME TypeOK, Ears, HostTakes, UNCHANGED <<local_port_, remote_port_, dev_sent>>,
           \A s \in Streams : Heard(s)' = Heard(s)
    PROVE  Ears'
  <1>1. PICK d \in {0, 1} : \A j \in 1 .. Len(to_host') :
                j + d \in 1 .. Len(to_host) /\ to_host'[j] = to_host[j + d]
    BY Taken
  <1>2. \A s \in Streams : Conn(s)' = Conn(s)
    BY DEF Conn
  <1>3. HeardExact'
    BY <1>2 DEF Ears, HeardExact
  <1>4. HeardOrdered'
    BY DEF Ears, HeardOrdered
  <1>5. HeardFirst'
    <2> SUFFICES ASSUME NEW s \in Streams, NEW i \in 1 .. Len(to_host'),
                        to_host'[i].data # <<>>, to_host'[i].conn = Conn(s)',
                        NEW k \in 1 .. Len(Heard(s)')
                 PROVE  Heard(s)'[k][2] < to_host'[i].seq
      BY DEF HeardFirst
    <2>1. i + d \in 1 .. Len(to_host) /\ to_host'[i] = to_host[i + d]
      BY <1>1
    <2>2. k \in 1 .. Len(Heard(s))
      OBVIOUS
    <2> QED
      BY <1>2, <2>1, <2>2 DEF Ears, HeardFirst
  <1> QED
    BY <1>3, <1>4, <1>5 DEF Ears
-----------------------------------------------------------------------------
(* Third, the steps of the host, but for the SYN of Stream::open.          *)

LEMMA SentWrites ==
    ASSUME TypeOK, NEW c \in Conns, NEW flags \in Flags \ {"SYN"},
           NEW seq \in Nat, NEW ack \in Nat, NEW len \in Nat,
           ~Fresh(c), Sent(c, flags, seq, ack, len) \/ SendFails
    PROVE  HostWrites
  <1>1. HostFrame(c, flags, seq, ack, len, mux_tx_seq_) \in HostFrames
    BY DEF TypeOK, HostFrame, HostFrames
  <1>2. HostFrame(c, flags, seq, ack, len, mux_tx_seq_).conn = c
    BY DEF HostFrame
  <1>3. HostFrame(c, flags, seq, ack, len, mux_tx_seq_).flags = flags
    BY DEF HostFrame
  <1> QED
    BY <1>1, <1>2, <1>3 DEF HostWrites, Sent, SendFails

\* A stream that was opened uses a port that was allocated.
LEMMA OpenedNotFresh ==
    ASSUME TypeOK, PortsInOrder, NEW s \in Streams, s <= opens
    PROVE  ~Fresh(Conn(s))
  BY DEF PortsInOrder, Fresh, Conn, Streams, TypeOK

LEMMA UsedWasOpened ==
    ASSUME TypeOK, PortsInOrder, NEW s \in Streams, phase[s] # "none"
    PROVE  s <= opens
  BY DEF PortsInOrder, Streams, TypeOK

HostCall ==
    \/ Continue
    \/ \E s \in Streams, n \in 1 .. MaxUnits : ReadExact(s, n) \/ Write(s, n)
    \/ \E s \in Streams : ReadAll(s) \/ Close(s)
    \/ ConnClose
    \/ Drop

HostShape == HostWrites /\ HostTakes /\ UNCHANGED <<next_port_, opens, names, dev_state, dev_sent>>

LEMMA HostCallShape ==
    ASSUME TypeOK, PortsInOrder, HostCall
    PROVE  HostShape
  <1> USE DEF vars, session, connection, names, stream, caller, device, HostShape
  <1>1. op # "idle" => ~Fresh(Conn(cur)) /\ Conn(cur) \in Conns
    BY OpenedNotFresh, ConnType DEF PortsInOrder, TypeOK
  <1>2. CASE OpenSkips \/ OpenRefused \/ OpenTimesOut
    BY <1>2 DEF OpenSkips, OpenRefused, OpenTimesOut, Received, ReceiveFails,
                HostWrites, HostTakes
  <1>3. CASE OpenSucceeds
    <2>1. op # "idle" /\ HostTakes /\ UNCHANGED <<next_port_, opens, names, dev_state, dev_sent>>
      BY <1>3 DEF OpenSucceeds, OpenAnswered, Received, HostTakes
    <2>2. Frame \in DevFrames
      BY <1>3, ReceivedType DEF OpenSucceeds, OpenAnswered
    <2>3. Frame.seq + 1 \in Nat
      BY <2>2 DEF DevFrames
    <2>4. Sent(Conn(cur), "ACK", 1, Frame.seq + 1, 0)
      BY <1>3 DEF OpenSucceeds
    <2>5. HostWrites
      BY <1>1, <2>1, <2>3, <2>4, SentWrites DEF Flags
    <2> QED
      BY <2>1, <2>5
  <1>4. CASE OpenAckFails
    <2>1. op # "idle" /\ HostTakes /\ UNCHANGED <<next_port_, opens, names, dev_state, dev_sent>>
      BY <1>4 DEF OpenAckFails, OpenAnswered, Received, HostTakes
    <2>2. Frame \in DevFrames
      BY <1>4, ReceivedType DEF OpenAckFails, OpenAnswered
    <2>3. Frame.seq + 1 \in Nat
      BY <2>2 DEF DevFrames
    <2> DEFINE rst == HostFrame(Conn(cur), "RST", 1, Frame.seq + 1, 0, NextMux(mux_tx_seq_))
    <2>4. rst \in HostFrames
      BY <1>1, <2>1, <2>3, CounterTypes DEF TypeOK, HostFrame, HostFrames, Flags
    <2>5. rst.conn = Conn(cur) /\ rst.flags = "RST"
      BY DEF HostFrame
    <2>6. to_dev' = to_dev \/ to_dev' = Append(to_dev, rst)
      BY <1>4 DEF OpenAckFails
    <2> HIDE DEF rst
    <2>7. HostWrites
      BY <1>1, <2>1, <2>4, <2>5, <2>6 DEF HostWrites
    <2> QED
      BY <2>1, <2>7
  <1>5. CASE ReadSkips \/ ReadReset \/ ReadTimesOut
    BY <1>5 DEF ReadSkips, ReadReset, ReadTimesOut, Received, ReceiveFails,
                HostWrites, HostTakes
  <1>6. CASE ReadTakes
    <2>1. op # "idle" /\ HostTakes /\ UNCHANGED <<next_port_, opens, names, dev_state, dev_sent>>
      BY <1>6 DEF ReadTakes, ReadFrame, Reading, Received, HostTakes
    <2>2. Frame \in DevFrames
      BY <1>6, ReceivedType DEF ReadTakes, ReadFrame
    <2>3. AckOf(Frame) \in Nat /\ tx_seq_[cur] \in Nat
      BY <2>2, LenProperties DEF DevFrames, AckOf, TypeOK
    <2>4. Sent(Conn(cur), "ACK", tx_seq_[cur], AckOf(Frame), 0)
      BY <1>6 DEF ReadTakes
    <2>5. HostWrites
      BY <1>1, <2>1, <2>3, <2>4, SentWrites DEF Flags
    <2> QED
      BY <2>1, <2>5
  <1>7. CASE ReadAckFails
    BY <1>7 DEF ReadAckFails, ReadFrame, Received, SendFails, HostWrites, HostTakes
  <1>8. CASE WriteChunk
    <2> DEFINE chunk == Smaller(MaxPayload, want)
    <2>1. op # "idle" /\ HostTakes /\ UNCHANGED <<next_port_, opens, names, dev_state, dev_sent>>
      BY <1>8 DEF WriteChunk, HostTakes
    <2>2. chunk \in Nat /\ tx_seq_[cur] \in Nat /\ tx_ack_[cur] \in Nat
      BY MuxLinkAssumption DEF Smaller, TypeOK
    <2>3. Sent(Conn(cur), "ACK", tx_seq_[cur], tx_ack_[cur], chunk)
      BY <1>8 DEF WriteChunk
    <2> HIDE DEF chunk
    <2>4. HostWrites
      BY <1>1, <2>1, <2>2, <2>3, SentWrites DEF Flags
    <2> QED
      BY <2>1, <2>4
  <1>9. CASE WriteFails
    BY <1>9 DEF WriteFails, SendFails, HostWrites, HostTakes
  <1>10. ASSUME NEW s \in Streams, Close(s)
         PROVE  HostShape
    <2>1. HostTakes /\ UNCHANGED <<next_port_, opens, names, dev_state, dev_sent>>
      BY <1>10 DEF Close, HostTakes
    <2>2. ~Fresh(Conn(s)) /\ Conn(s) \in Conns
      BY <1>10, UsedWasOpened, OpenedNotFresh, ConnType DEF Close
    <2>3. tx_seq_[s] \in Nat /\ tx_ack_[s] \in Nat
      BY DEF TypeOK
    <2>4. to_dev' = to_dev \/ SendFails \/ Sent(Conn(s), "RST", tx_seq_[s], tx_ack_[s], 0)
      BY <1>10 DEF Close
    <2>5. HostWrites
      BY <2>2, <2>3, <2>4, SentWrites DEF Flags, HostWrites
    <2> QED
      BY <2>1, <2>5
  <1>11. CASE \E s \in Streams, n \in 1 .. MaxUnits : ReadExact(s, n) \/ Write(s, n)
    BY <1>11 DEF ReadExact, Write, HostWrites, HostTakes
  <1>12. CASE (\E s \in Streams : ReadAll(s)) \/ ConnClose \/ Drop
    BY <1>12 DEF ReadAll, ConnClose, Drop, HostWrites, HostTakes
  <1> QED
    BY <1>2, <1>3, <1>4, <1>5, <1>6, <1>7, <1>8, <1>9, <1>10, <1>11, <1>12
       DEF HostCall, Continue, OpenStep, ReadStep, WriteStep

\* Only receive_more hears a new frame; every other call at most moves units
\* from the buffer to the caller.
LEMMA HostCallHears ==
    ASSUME TypeOK, HostCall, ~ReadTakes
    PROVE  \A s \in Streams : Heard(s)' = Heard(s)
  <1> USE DEF vars, session, connection, names, stream, caller, device
  <1>1. CASE UNCHANGED <<got, incoming_>>
    BY <1>1 DEF Heard
  <1>2. ASSUME NEW s \in Streams, NEW n \in 0 .. Len(incoming_[s]),
               HandOut(s, incoming_[s], n)
        PROVE  \A t \in Streams : Heard(t)' = Heard(t)
    <2>1. incoming_[s] \in Seq(Units)
      BY HeardType
    <2>2. Heard(s)' = got[s] \o incoming_[s] /\ \A t \in Streams \ {s} : Heard(t)' = Heard(t)
      BY <1>2, <2>1, HandOutHeard
    <2>3. Heard(s)' = Heard(s)
      BY <2>2 DEF Heard
    <2> QED
      BY <2>2, <2>3
  <1>3. ASSUME NEW s \in Streams, NEW n \in 1 .. MaxUnits, ReadExact(s, n)
        PROVE  \A t \in Streams : Heard(t)' = Heard(t)
    <2>1. Len(incoming_[s]) \in Nat
      BY HeardType, LenProperties
    <2>2. Smaller(n, Len(incoming_[s])) \in 0 .. Len(incoming_[s])
      BY <2>1, MuxLinkAssumption DEF Smaller
    <2>3. HandOut(s, incoming_[s], Smaller(n, Len(incoming_[s])))
      BY <1>3 DEF ReadExact
    <2> QED
      BY <1>2, <2>2, <2>3
  <1>4. ASSUME NEW s \in Streams, ReadAll(s)
        PROVE  \A t \in Streams : Heard(t)' = Heard(t)
    <2>1. Len(incoming_[s]) \in 0 .. Len(incoming_[s])
      BY HeardType, LenProperties
    <2>2. HandOut(s, incoming_[s], Len(incoming_[s]))
      BY <1>4 DEF ReadAll
    <2> QED
      BY <1>2, <2>1, <2>2
  <1>5. CASE OpenStep
    BY <1>1, <1>5 DEF OpenStep, OpenSkips, OpenRefused, OpenTimesOut, OpenSucceeds,
                      OpenAckFails, OpenAnswered
  <1>6. CASE ReadStep
    BY <1>1, <1>6 DEF ReadStep, ReadSkips, ReadReset, ReadAckFails, ReadFrame,
                      ReadTimesOut, Fail
  <1>7. CASE WriteStep \/ ConnClose \/ Drop
    BY <1>1, <1>7 DEF WriteStep, WriteChunk, WriteFails, ConnClose, Drop, Fail
  <1>8. CASE \E s \in Streams : Close(s) \/ \E n \in 1 .. MaxUnits : Write(s, n)
    BY <1>1, <1>8 DEF Close, Write
  <1> QED
    BY <1>3, <1>4, <1>5, <1>6, <1>7, <1>8 DEF HostCall, Continue

\* What was heard of a connection, and the next frame of it behind.
Exact(h, c, sent) == \A i \in 1 .. Len(h) : h[i][1] = c /\ h[i][2] <= sent
Ordered(h)        == \A i, j \in 1 .. Len(h) : i < j => h[i][2] < h[j][2]
Before(h, seq)    == \A i \in 1 .. Len(h) : h[i][2] < seq

LEMMA NextFrame ==
    ASSUME NEW c \in Conns, NEW g \in Seq(Units), NEW data \in Seq(Units),
           NEW seq \in Nat, NEW sent \in Nat,
           Exact(g, c, sent), Ordered(g), Before(g, seq), data # <<>>,
           seq + Len(data) <= sent + 1,
           \A k \in 1 .. Len(data) : data[k] = <<c, (seq - 1) + k>>
    PROVE  /\ Exact(g \o data, c, sent)
           /\ Ordered(g \o data)
           /\ Before(g \o data, seq + Len(data))
  <1> DEFINE h == g \o data
  <1>1. Len(g) \in Nat /\ Len(data) \in Nat
    BY LenProperties
  <1>2. Len(h) = Len(g) + Len(data)
    BY ConcatProperties
  <1>3. ASSUME NEW i \in 1 .. Len(h), i <= Len(g)
        PROVE  i \in 1 .. Len(g) /\ h[i] = g[i] /\ h[i] \in Units
    <2>1. i \in 1 .. Len(g) + Len(data) /\ i \in 1 .. Len(g)
      BY <1>1, <1>2, <1>3
    <2>2. h[i] = g[i]
      BY <1>3, <2>1, ConcatProperties
    <2> QED
      BY <2>1, <2>2
  <1>4. ASSUME NEW i \in 1 .. Len(h), i > Len(g)
        PROVE  i - Len(g) \in 1 .. Len(data) /\ h[i] = <<c, (seq - 1) + (i - Len(g))>>
    <2>1. i \in 1 .. Len(g) + Len(data) /\ i - Len(g) \in 1 .. Len(data) /\ ~(i <= Len(g))
      BY <1>1, <1>2, <1>4
    <2>2. h[i] = data[i - Len(g)]
      BY <2>1, ConcatProperties
    <2> QED
      BY <2>1, <2>2
  <1> HIDE DEF h
  <1>5. ASSUME NEW i \in 1 .. Len(h)
        PROVE  i \in Nat /\ (i <= Len(g) \/ i > Len(g))
    BY <1>1, <1>2
  <1>6. ASSUME NEW i \in 1 .. Len(h)
        PROVE  h[i][1] = c /\ h[i][2] \in Int /\ h[i][2] <= sent /\ h[i][2] < seq + Len(data)
    <2>1. CASE i <= Len(g)
      <3>1. h[i] = g[i] /\ g[i] \in Units /\ i \in 1 .. Len(g)
        BY <1>3, <2>1
      <3>2. g[i][2] \in Nat
        BY <3>1 DEF Units
      <3> QED
        BY <1>1, <3>1, <3>2 DEF Exact, Before
    <2>2. CASE i > Len(g)
      <3>1. i - Len(g) \in 1 .. Len(data) /\ h[i] = <<c, (seq - 1) + (i - Len(g))>>
        BY <1>4, <2>2
      <3> QED
        BY <1>1, <1>5, <3>1, SMTT(60)
    <2> QED
      BY <1>5, <2>1, <2>2
  <1>7. ASSUME NEW i \in 1 .. Len(h), NEW j \in 1 .. Len(h), i < j
        PROVE  h[i][2] < h[j][2]
    <2>1. CASE j <= Len(g)
      <3>1. i <= Len(g)
        BY <1>1, <1>5, <1>7, <2>1
      <3> QED
        BY <1>3, <1>7, <2>1, <3>1 DEF Ordered
    <2>2. CASE i > Len(g)
      <3>1. j > Len(g)
        BY <1>1, <1>5, <1>7, <2>2
      <3> QED
        BY <1>1, <1>4, <1>5, <1>7, <2>2, <3>1, SMTT(60)
    <2>3. CASE i <= Len(g) /\ j > Len(g)
      <3>1. h[i] = g[i] /\ g[i] \in Units /\ i \in 1 .. Len(g)
        BY <1>3, <2>3
      <3>2. g[i][2] \in Nat /\ g[i][2] < seq
        BY <3>1 DEF Units, Before
      <3>3. j - Len(g) \in 1 .. Len(data) /\ h[j][2] = (seq - 1) + (j - Len(g))
        BY <1>4, <2>3
      <3> QED
        BY <1>1, <1>5, <3>1, <3>2, <3>3
    <2> QED
      BY <1>5, <2>1, <2>2, <2>3
  <1> QED
    BY <1>6, <1>7 DEF h, Exact, Ordered, Before

LEMMA Prefix ==
    ASSUME NEW g \in Seq(Units), NEW b \in Seq(Units), NEW c, NEW sent, NEW seq
    PROVE  /\ Exact(g \o b, c, sent) => Exact(g, c, sent)
           /\ Ordered(g \o b) => Ordered(g)
           /\ Before(g \o b, seq) => Before(g, seq)
  <1>1. Len(g) \in Nat /\ Len(b) \in Nat
    BY LenProperties
  <1>2. Len(g \o b) = Len(g) + Len(b)
    BY ConcatProperties
  <1>3. ASSUME NEW i \in 1 .. Len(g)
        PROVE  i \in 1 .. Len(g \o b) /\ (g \o b)[i] = g[i]
    <2>1. i \in 1 .. Len(g) + Len(b) /\ i <= Len(g)
      BY <1>1
    <2> QED
      BY <1>2, <2>1, ConcatProperties
  <1> DEFINE h == g \o b
  <1>4. ASSUME NEW i \in 1 .. Len(g)
        PROVE  i \in 1 .. Len(h) /\ h[i] = g[i]
    BY <1>3
  <1> HIDE DEF h
  <1>5. Exact(h, c, sent) => Exact(g, c, sent)
    BY <1>4 DEF Exact
  <1>6. Ordered(h) => Ordered(g)
    BY <1>4 DEF Ordered
  <1>7. Before(h, seq) => Before(g, seq)
    BY <1>4 DEF Before
  <1> QED
    BY <1>5, <1>6, <1>7 DEF h

LEMMA EarsAre ==
    Ears <=> \A s \in Streams :
                 /\ Exact(Heard(s), Conn(s), dev_sent[Conn(s)])
                 /\ Ordered(Heard(s))
                 /\ \A i \in 1 .. Len(to_host) :
                        to_host[i].data # <<>> /\ to_host[i].conn = Conn(s) =>
                            Before(Heard(s), to_host[i].seq)
  BY DEF Ears, HeardExact, HeardOrdered, HeardFirst, Exact, Ordered, Before

\* The frame receive_more hears is the next of its connection: it comes after
\* all that was heard, and before all that is under way.
LEMMA ReadTakesEars ==
    ASSUME TypeOK, Wires, Ears, ReadTakes
    PROVE  Ears'
  <1> USE DEF vars, session, connection, names, stream, caller, device
  <1>0. PICK me \in Streams : me = cur
    BY DEF TypeOK
  <1> DEFINE c == Conn(me)
  <1>1. PICK f \in DevFrames : f = Frame
    BY ReceivedType DEF ReadTakes, ReadFrame
  <1>2. PICK g \in Seq(Units) : g = got[me]
    BY HeardType
  <1>3. /\ to_host \in Seq(DevFrames) /\ to_host # <<>> /\ to_host' = Tail(to_host)
        /\ f = to_host[1] /\ f.conn = c
        /\ UNCHANGED <<local_port_, remote_port_, dev_sent>>
    BY <1>0, <1>1 DEF ReadTakes, ReadFrame, Received, IsFor, Frame, TypeOK
  <1>4. f.seq \in Nat /\ f.data \in Seq(Units) /\ Len(f.data) \in Nat
    BY LenProperties DEF DevFrames
  <1>5. 1 \in 1 .. Len(to_host)
    BY <1>3, HeadTailProperties, LenProperties
  <1>6. /\ Len(to_host') = Len(to_host) - 1
        /\ \A i \in 1 .. Len(to_host') : i + 1 \in 1 .. Len(to_host) /\ to_host'[i] = to_host[i + 1]
    BY <1>3, TailFacts
  <1>7. Heard(me)' = g \o f.data /\ \A t \in Streams \ {me} : Heard(t)' = Heard(t)
    <2> DEFINE n == IF op = "read" THEN Smaller(want, Len(f.data)) ELSE Len(f.data)
    <2>1. n \in 0 .. Len(f.data)
      BY <1>4, SMTT(60) DEF Smaller, TypeOK
    <2>2. HandOut(me, f.data, n)
      BY <1>0, <1>1 DEF ReadTakes
    <2> HIDE DEF n
    <2>3. PICK data \in Seq(Units) : data = f.data
      BY <1>4
    <2>4. n \in 0 .. Len(data) /\ HandOut(me, data, n)
      BY <2>1, <2>2, <2>3
    <2>5. Heard(me)' = got[me] \o data /\ \A t \in Streams \ {me} : Heard(t)' = Heard(t)
      BY <1>3, <2>4, HandOutHeard
    <2> QED
      BY <1>2, <2>3, <2>5
  <1>8. \A s \in Streams : Conn(s)' = Conn(s)
    BY <1>3 DEF Conn
  <1>9. incoming_[me] \in Seq(Units) /\ Heard(me) = g \o incoming_[me]
    BY <1>2, <1>3, HeardType DEF Heard
  <1>10. c \in Conns /\ dev_sent[c] \in Nat
    BY <1>3, ConnType DEF TypeOK
  <1> HIDE DEF c
  <1>11. /\ Exact(g, c, dev_sent[c])
         /\ Ordered(g)
         /\ \A i \in 1 .. Len(to_host) : to_host[i].data # <<>> /\ to_host[i].conn = c =>
                Before(g, to_host[i].seq)
    BY <1>3, <1>9, EarsAre, Prefix, ZenonT(60) DEF c
  <1>12. f.data # <<>> =>
            /\ f.seq + Len(f.data) <= dev_sent[c] + 1
            /\ \A k \in 1 .. Len(f.data) : f.data[k] = <<c, (f.seq - 1) + k>>
            /\ Before(g, f.seq)
    BY <1>3, <1>5, <1>11 DEF Wires, FramesExact
  <1>13. Exact(g \o f.data, c, dev_sent[c]) /\ Ordered(g \o f.data)
    <2>1. CASE f.data = <<>>
      BY <1>11, <2>1, ConcatEmptySeq
    <2>2. CASE f.data # <<>>
      BY <1>4, <1>10, <1>11, <1>12, <2>2, NextFrame
    <2> QED
      BY <2>1, <2>2
  <1>14. ASSUME NEW i \in 1 .. Len(to_host'), to_host'[i].data # <<>>, to_host'[i].conn = c
         PROVE  Before(g \o f.data, to_host'[i].seq)
    <2>1. i + 1 \in 1 .. Len(to_host) /\ to_host'[i] = to_host[i + 1]
      BY <1>6
    <2>2. CASE f.data = <<>>
      BY <1>11, <1>14, <2>1, <2>2, ConcatEmptySeq
    <2>3. CASE f.data # <<>>
      <3>1. Before(g \o f.data, f.seq + Len(f.data))
        BY <1>4, <1>10, <1>11, <1>12, <2>3, NextFrame
      <3>2. f.seq + Len(f.data) <= to_host[i + 1].seq
        <4>1. 1 < i + 1 /\ FramesOrdered
          BY <1>3, <1>6 DEF Wires
        <4> QED
          BY <1>3, <1>5, <1>14, <2>1, <2>3, <4>1 DEF FramesOrdered
      <3>3. to_host[i + 1].seq \in Nat
        <4>1. to_host[i + 1] \in DevFrames
          BY <1>3, <2>1
        <4> QED
          BY <4>1 DEF DevFrames
      <3>4. g \o f.data \in Seq(Units)
        BY <1>4, ConcatProperties
      <3> DEFINE h == g \o f.data
      <3> HIDE DEF h
      <3>5. h \in Seq(Units)
        BY <3>4 DEF h
      <3>6. ASSUME NEW k \in 1 .. Len(h) PROVE h[k][2] < to_host'[i].seq
        <4>1. h[k] \in Units
          BY <3>5
        <4>2. h[k][2] \in Nat
          BY <4>1 DEF Units
        <4>3. h[k][2] < f.seq + Len(f.data)
          BY <3>1 DEF Before, h
        <4> QED
          BY <1>4, <2>1, <3>2, <3>3, <4>2, <4>3, SMTT(60)
      <3> QED
        BY <3>6 DEF Before, h
    <2> QED
      BY <2>2, <2>3
  <1>15. ASSUME NEW s \in Streams
         PROVE  /\ Exact(Heard(s), Conn(s), dev_sent[Conn(s)])'
                /\ Ordered(Heard(s))'
                /\ \A i \in 1 .. Len(to_host') :
                       to_host'[i].data # <<>> /\ to_host'[i].conn = Conn(s)' =>
                           Before(Heard(s)', to_host'[i].seq)
    <2>1. CASE s = me
      <3>1. Heard(s)' = g \o f.data /\ Conn(s)' = c /\ dev_sent' = dev_sent
        BY <1>3, <1>7, <1>8, <2>1 DEF c
      <3>2. Exact(Heard(s), Conn(s), dev_sent[Conn(s)])'
        BY <1>13, <3>1 DEF Exact
      <3>3. Ordered(Heard(s))'
        BY <1>13, <3>1 DEF Ordered
      <3> QED
        BY <1>14, <3>1, <3>2, <3>3
    <2>2. CASE s # me
      <3>1. Heard(s)' = Heard(s) /\ Conn(s)' = Conn(s) /\ dev_sent' = dev_sent
        BY <1>3, <1>7, <1>8, <2>2
      <3>2. Exact(Heard(s), Conn(s), dev_sent[Conn(s)])' /\ Ordered(Heard(s))'
        BY <3>1, EarsAre
      <3> QED
        BY <1>6, <3>1, <3>2, EarsAre
    <2> QED
      BY <2>1, <2>2
  <1> QED
    BY <1>15 DEF Ears, HeardExact, HeardOrdered, HeardFirst, Exact, Ordered, Before

\* Streams that were not opened stay as they are.
LEMMA HostCallPorts ==
    ASSUME TypeOK, PortsInOrder, HostCall, Wires, Ears
    PROVE  PortsInOrder'
  <1> USE DEF vars, session, connection, names, stream, caller, device
  <1>1. UNCHANGED <<next_port_, opens, local_port_>>
    BY HostCallShape DEF HostShape
  <1>2. ASSUME NEW s \in Streams, s > opens
        PROVE  phase'[s] = "none" /\ Heard(s)' = <<>>
    <2>1. phase[s] = "none" /\ Heard(s) = <<>> /\ s \in Nat /\ opens \in Nat
      BY <1>2 DEF PortsInOrder, Streams, TypeOK
    <2>2. op # "idle" => s # cur
      BY <1>2, <2>1 DEF PortsInOrder, TypeOK, Streams
    <2>3. phase'[s] = "none"
      <3>1. CASE OpenStep
        BY <2>1, <2>2, <3>1 DEF OpenStep, OpenSkips, OpenRefused, OpenTimesOut, OpenSucceeds,
                 OpenAckFails, OpenAnswered, OpenGivesUp, TypeOK
      <3>2. CASE ReadStep
        BY <2>1, <3>2 DEF ReadStep, ReadSkips, ReadReset, ReadTakes, ReadAckFails,
                          ReadTimesOut, Fail
      <3>3. CASE WriteStep \/ ConnClose \/ Drop
        BY <2>1, <3>3 DEF WriteStep, WriteChunk, WriteFails, Fail, ConnClose, Drop
      <3>4. ASSUME NEW t \in Streams,
                   Close(t) \/ ReadAll(t)
                     \/ \E n \in 1 .. MaxUnits : ReadExact(t, n) \/ Write(t, n)
            PROVE  phase'[s] = "none"
        BY <2>1, <3>4 DEF Close, ReadAll, ReadExact, Write, TypeOK
      <3> QED
        BY <3>1, <3>2, <3>3, <3>4 DEF HostCall, Continue
    <2>4. Heard(s)' = <<>>
      <3>1. CASE ReadTakes
        <4>1. cur \in Streams \ {s} /\ got' = [got EXCEPT ![cur] = got'[cur]]
                                    /\ incoming_' = [incoming_ EXCEPT ![cur] = incoming_'[cur]]
          BY <2>2, <3>1 DEF ReadTakes, ReadFrame, Reading, HandOut, TypeOK
        <4>2. got'[s] = got[s] /\ incoming_'[s] = incoming_[s]
          BY <4>1 DEF TypeOK
        <4> QED
          BY <2>1, <4>2 DEF Heard
      <3>2. CASE ~ReadTakes
        BY <2>1, <3>2, HostCallHears
      <3> QED
        BY <3>1, <3>2
    <2> QED
      BY <2>3, <2>4
  <1>3. op' # "idle" => cur' <= opens
    <2>1. CASE Continue
      <3>1. op # "idle" /\ UNCHANGED cur
        <4>1. CASE OpenStep
          BY <4>1 DEF OpenStep, OpenSkips, OpenRefused, OpenTimesOut, OpenSucceeds,
                 OpenAckFails, OpenAnswered, OpenGivesUp, Return
        <4>2. CASE ReadStep
          BY <4>2 DEF ReadStep, ReadSkips, ReadReset, ReadTakes, ReadAckFails, ReadFrame,
                          ReadTimesOut, Fail, Return, Reading
        <4>3. CASE WriteStep
          BY <4>3 DEF WriteStep, WriteChunk, WriteFails, Fail, Return
        <4> QED
          BY <2>1, <4>1, <4>2, <4>3 DEF Continue
      <3> QED
        BY <3>1 DEF PortsInOrder
    <2>2. ASSUME NEW t \in Streams,
                 Close(t) \/ ReadAll(t)
                     \/ \E n \in 1 .. MaxUnits : ReadExact(t, n) \/ Write(t, n)
          PROVE  op' # "idle" => cur' <= opens
      <3>1. CASE Close(t)
        BY <3>1 DEF Close, PortsInOrder
      <3>2. CASE ReadAll(t) \/ \E n \in 1 .. MaxUnits : ReadExact(t, n) \/ Write(t, n)
        <4>1. phase[t] # "none" /\ (op' # "idle" => cur' = t)
          BY <3>2 DEF ReadAll, ReadExact, Write, MayCall
        <4> QED
          BY <4>1, UsedWasOpened
      <3> QED
        BY <2>2, <3>1, <3>2
    <2>3. CASE ConnClose \/ Drop
      BY <2>3 DEF ConnClose, Drop, PortsInOrder
    <2> QED
      BY <2>1, <2>2, <2>3 DEF HostCall
  <1> QED
    BY <1>1, <1>2, <1>3 DEF PortsInOrder

\* The SYN of Stream::open goes out on a port that nobody used.
LEMMA OpenSynKeeps ==
    ASSUME TypeOK, PortsInOrder, Wires, Ears, NoWrap', NEW svc \in Services, OpenSyn(svc)
    PROVE  PortsInOrder' /\ Wires' /\ Ears'
  <1> USE DEF vars, session, connection, names, stream, caller, device
  <1>a. opens + 1 \in Streams
    BY MuxLinkAssumption DEF OpenSyn, TypeOK, Streams
  <1>b. PICK new \in Streams : new = opens + 1
    BY <1>a
  <1>c. PICK c \in Conns : c = <<next_port_, svc>>
    BY DEF TypeOK, Conns
  <1>1. /\ opens \in Nat /\ new < PortModulus /\ PortModulus \in Nat
        /\ opens' = new /\ next_port_ = new
    BY <1>b, MuxLinkAssumption DEF NoWrap, OpenSyn, TypeOK, Streams, PortsInOrder
  <1>2. Fresh(c)
    BY <1>1, <1>b, <1>c DEF Fresh
  <1>3. /\ local_port_' = [local_port_ EXCEPT ![new] = new]
        /\ remote_port_' = [remote_port_ EXCEPT ![new] = svc]
        /\ UNCHANGED <<got, incoming_, to_host, dev_state, dev_sent>>
        /\ next_port_' = PortAfter(next_port_)
        /\ phase' = [phase EXCEPT ![new] = phase'[new]]
        /\ op' # "idle" => cur' = new
    BY <1>1, <1>b DEF OpenSyn, TypeOK
  <1>4. PortsInOrder'
    <2>1. next_port_' = IF new + 1 = PortModulus THEN 0 ELSE new + 1
      BY <1>1, <1>b, <1>3 DEF PortAfter
    <2>2. ASSUME NEW s \in Streams, s <= new PROVE local_port_'[s] = s
      BY <1>1, <1>3, <2>2 DEF PortsInOrder, Streams, TypeOK
    <2>3. ASSUME NEW s \in Streams, s > new
          PROVE  local_port_'[s] = 0 /\ phase'[s] = "none" /\ Heard(s)' = <<>>
      <3>1. s # new /\ s > opens
        BY <1>1, <1>b, <2>3 DEF Streams
      <3>2. local_port_'[s] = local_port_[s] /\ phase'[s] = phase[s] /\ Heard(s)' = Heard(s)
        BY <1>3, <3>1 DEF Heard, TypeOK
      <3> QED
        BY <3>1, <3>2 DEF PortsInOrder
    <2> QED
      BY <1>1, <1>3, <2>1, <2>2, <2>3 DEF PortsInOrder
  <1>5. \A d \in Conns : ~Fresh(d) => ~Fresh(d)'
    BY <1>1, <1>b DEF Fresh
  <1>6. ~Fresh(c)'
    BY <1>1, <1>b, <1>c DEF Fresh
  <1>7. to_dev' = to_dev \/ \E f \in HostFrames : f.conn = c /\ to_dev' = Append(to_dev, f)
    <2> DEFINE f == HostFrame(c, "SYN", 0, 0, 0, mux_tx_seq_)
    <2>1. f \in HostFrames /\ f.conn = c
      BY DEF TypeOK, HostFrame, HostFrames, Flags
    <2>2. to_dev' = to_dev \/ to_dev' = Append(to_dev, f)
      BY <1>c DEF OpenSyn, Sent, SendFails
    <2> HIDE DEF f
    <2> QED
      BY <2>1, <2>2
  <1>8. ASSUME NEW j \in 1 .. Len(to_dev')
        PROVE  \/ j \in 1 .. Len(to_dev) /\ to_dev'[j] = to_dev[j]
               \/ j = Len(to_dev) + 1 /\ to_dev'[j].conn = c
    <2>1. to_dev \in Seq(HostFrames) /\ Len(to_dev) \in Nat
      BY LenProperties DEF TypeOK
    <2>2. CASE to_dev' = to_dev
      BY <2>2
    <2>3. ASSUME NEW f \in HostFrames, f.conn = c, to_dev' = Append(to_dev, f)
          PROVE  \/ j \in 1 .. Len(to_dev) /\ to_dev'[j] = to_dev[j]
                 \/ j = Len(to_dev) + 1 /\ to_dev'[j].conn = c
      <3>1. Len(to_dev') = Len(to_dev) + 1
        BY <2>1, <2>3, AppendFacts
      <3>2. CASE j \in 1 .. Len(to_dev)
        BY <2>1, <2>3, <3>2, AppendFacts
      <3>3. CASE j = Len(to_dev) + 1
        BY <2>1, <2>3, <3>3, AppendFacts
      <3> QED
        BY <2>1, <3>1, <3>2, <3>3
    <2> QED
      BY <1>7, <2>2, <2>3
  <1>9. Wires'
    <2>0. FreshUnused /\ SynFirst /\ FramesExact /\ FramesOrdered
      BY DEF Wires
    <2>1. FreshUnused'
      <3> SUFFICES ASSUME NEW d \in Conns, Fresh(d)'
                   PROVE  /\ dev_state'[d] = "none"
                          /\ dev_sent'[d] = 0
                          /\ \A i \in 1 .. Len(to_dev') : to_dev'[i].conn # d
                          /\ \A i \in 1 .. Len(to_host') : to_host'[i].conn # d
        BY DEF FreshUnused
      <3>1. Fresh(d) /\ d # c
        BY <1>5, <1>6
      <3>2. ASSUME NEW i \in 1 .. Len(to_dev') PROVE to_dev'[i].conn # d
        BY <1>8, <2>0, <3>1 DEF FreshUnused
      <3> QED
        BY <1>3, <2>0, <3>1, <3>2 DEF FreshUnused
    <2>2. SynFirst'
      <3> SUFFICES ASSUME NEW j \in 1 .. Len(to_dev'), to_dev'[j].flags = "SYN"
                   PROVE  /\ dev_state[to_dev'[j].conn] = "none"
                          /\ dev_sent[to_dev'[j].conn] = 0
                          /\ \A i \in 1 .. (j - 1) : to_dev'[i].conn # to_dev'[j].conn
        BY <1>3 DEF SynFirst
      <3>1. Len(to_dev) \in Nat
        BY LenProperties DEF TypeOK
      <3>2. ASSUME NEW i \in 1 .. (j - 1)
            PROVE  i \in 1 .. Len(to_dev) /\ to_dev'[i] = to_dev[i]
        <4>1. i \in 1 .. Len(to_dev') /\ i # Len(to_dev) + 1
          BY <1>8, <3>1
        <4> QED
          BY <1>8, <4>1
      <3>3. CASE j \in 1 .. Len(to_dev) /\ to_dev'[j] = to_dev[j]
        BY <2>0, <3>2, <3>3 DEF SynFirst
      <3>4. CASE to_dev'[j].conn = c
        BY <1>2, <2>0, <3>2, <3>4 DEF FreshUnused
      <3> QED
        BY <1>8, <3>3, <3>4
    <2>3. FramesExact' /\ FramesOrdered'
      BY <1>3, <2>0 DEF FramesExact, FramesOrdered
    <2> QED
      BY <2>1, <2>2, <2>3 DEF Wires
  <1>10. Ears'
    <2>1. ASSUME NEW s \in Streams, s # new
          PROVE  Heard(s)' = Heard(s) /\ Conn(s)' = Conn(s)
      BY <1>3, <2>1 DEF Heard, Conn, TypeOK
    <2>2. Heard(new)' = <<>>
      <3>1. Heard(new) = <<>>
        BY <1>1, <1>b DEF PortsInOrder
      <3> QED
        BY <1>3, <3>1 DEF Heard
    <2>3. ASSUME NEW s \in Streams
          PROVE  /\ Exact(Heard(s), Conn(s), dev_sent[Conn(s)])'
                 /\ Ordered(Heard(s))'
                 /\ \A i \in 1 .. Len(to_host') :
                        to_host'[i].data # <<>> /\ to_host'[i].conn = Conn(s)' =>
                            Before(Heard(s)', to_host'[i].seq)
      <3>1. CASE s = new
        <4>1. Heard(s)' = <<>>
          BY <1>1, <2>2, <3>1
        <4> QED
          BY <4>1 DEF Exact, Ordered, Before
      <3>2. CASE s # new
        <4>1. Heard(s)' = Heard(s) /\ Conn(s)' = Conn(s) /\ to_host' = to_host /\ dev_sent' = dev_sent
          BY <1>3, <2>1, <3>2
        <4> QED
          BY <4>1, EarsAre DEF Exact, Ordered
      <3> QED
        BY <3>1, <3>2
    <2> QED
      BY <2>3 DEF Ears, HeardExact, HeardOrdered, HeardFirst, Exact, Ordered, Before
  <1> QED
    BY <1>4, <1>9, <1>10
-----------------------------------------------------------------------------
(* Fourth, the steps of the device.                                        *)

\* But for DevSend they take a frame of a connection, or act on one that is
\* under way, and put at most one frame without a payload on the wire.
DevShape(c) ==
    /\ c # NoConn => c \in Conns /\ ~Fresh(c)
    /\ dev_sent' = dev_sent
    /\ \A d \in Conns \ {c} : dev_state'[d] = dev_state[d]
    /\ \/ to_dev # <<>> /\ to_dev' = Tail(to_dev) /\ c = to_dev[1].conn
       \/ to_dev' = to_dev /\ (c \in Conns => dev_state[c] # "none")
    /\ \/ to_host' = to_host
       \/ \E f \in DevFrames : f.conn = c /\ f.data = <<>> /\ to_host' = Append(to_host, f)

LEMMA NoConnIsNone == NoConn \notin Conns
  BY DEF NoConn, Conns

LEMMA DeviceShape ==
    ASSUME TypeOK, Wires, Device,
           ~\E c \in Conns : \E n \in 1 .. MaxUnits : DevSend(c, n)
    PROVE  \E c \in Conns \cup {NoConn} : DevShape(c)
  <1> USE DEF vars, session, connection, names, stream, caller, device
  <1>1. <<>> \in Seq(Units)
    BY EmptySeq
  <1>2. ASSUME NEW c \in Conns \cup {NoConn}, NEW flags \in Flags, NEW seq \in Nat
        PROVE  /\ DevFrame(c, flags, seq, <<>>) \in DevFrames
               /\ DevFrame(c, flags, seq, <<>>).conn = c
               /\ DevFrame(c, flags, seq, <<>>).data = <<>>
    BY <1>1 DEF DevFrame, DevFrames
  <1>3. ASSUME DevTakes, DevTurn
        PROVE  \E c \in Conns \cup {NoConn} : DevShape(c)
    <2>1. to_dev \in Seq(HostFrames) /\ to_dev # <<>> /\ to_dev' = Tail(to_dev)
      BY <1>3 DEF DevTakes, TypeOK
    <2>2. 1 \in 1 .. Len(to_dev) /\ Head(to_dev) = to_dev[1] /\ to_dev[1] \in HostFrames
      BY <2>1, HeadTailProperties, LenProperties
    <2>3. PICK c \in Conns : c = to_dev[1].conn
      BY <2>2 DEF HostFrames
    <2>4. ~Fresh(c)
      BY <2>2, <2>3 DEF Wires, FreshUnused
    <2>5. dev_sent[c] \in Nat
      BY DEF TypeOK
    <2>6. dev_sent' = dev_sent
      <3>1. CASE DevSyn
        <4>1. dev_sent' = dev_sent \/ dev_sent' = [dev_sent EXCEPT ![c] = 0]
          BY <2>2, <2>3, <3>1 DEF DevSyn
        <4>2. dev_sent[c] = 0
          BY <2>2, <2>3, <3>1 DEF DevSyn, Wires, SynFirst
        <4> QED
          BY <4>1, <4>2 DEF TypeOK
      <3>2. CASE DevRefuses \/ DevData \/ DevEnds
        BY <3>2 DEF DevRefuses, DevData, DevEnds
      <3> QED
        BY <1>3, <3>1, <3>2 DEF DevTurn
    <2>7. \A d \in Conns \ {c} : dev_state'[d] = dev_state[d]
      <3>1. dev_state' = dev_state \/ \E x : dev_state' = [dev_state EXCEPT ![c] = x]
        BY <1>3, <2>2, <2>3 DEF DevTurn, DevSyn, DevRefuses, DevData, DevEnds
      <3> QED
        BY <3>1 DEF TypeOK
    <2>8. \/ to_host' = to_host
          \/ \E f \in DevFrames : f.conn = c /\ f.data = <<>> /\ to_host' = Append(to_host, f)
      <3>1. ASSUME NEW flags \in Flags, NEW seq \in Nat, Answers(DevFrame(c, flags, seq, <<>>))
            PROVE  \/ to_host' = to_host
                   \/ \E f \in DevFrames : f.conn = c /\ f.data = <<>> /\ to_host' = Append(to_host, f)
        BY <1>2, <3>1 DEF Answers
      <3>2. \/ to_host' = to_host
            \/ Answers(DevFrame(c, "SYNACK", 0, <<>>))
            \/ \E flags \in {"RST", "ACK"} : Answers(DevFrame(c, flags, 0, <<>>))
            \/ Answers(DevFrame(c, "RST", dev_sent[c] + 1, <<>>))
            \/ Answers(DevFrame(c, "ACK", dev_sent[c] + 1, <<>>))
        BY <1>3, <2>2, <2>3 DEF DevTurn, DevSyn, DevRefuses, DevData, DevEnds
      <3> QED
        BY <2>5, <3>1, <3>2 DEF Flags
    <2> QED
      BY <2>1, <2>2, <2>3, <2>4, <2>6, <2>7, <2>8 DEF DevShape
  <1>4. ASSUME NEW c \in Conns, DevReset(c)
        PROVE  DevShape(c)
    <2>1. dev_state[c] = "est"
      BY <1>4 DEF DevReset
    <2>2. ~Fresh(c)
      BY <2>1 DEF Wires, FreshUnused
    <2>3. dev_sent[c] + 1 \in Nat
      BY DEF TypeOK
    <2>4. \E f \in DevFrames : f.conn = c /\ f.data = <<>> /\ to_host' = Append(to_host, f)
      BY <1>2, <1>4, <2>3 DEF DevReset, Flags
    <2>5. \A d \in Conns \ {c} : dev_state'[d] = dev_state[d]
      BY <1>4 DEF DevReset, TypeOK
    <2> QED
      BY <1>4, <2>1, <2>2, <2>4, <2>5 DEF DevReset, DevShape
  <1>5. CASE DevControl
    <2>1. \E f \in DevFrames : f.conn = NoConn /\ f.data = <<>> /\ to_host' = Append(to_host, f)
      BY <1>2, <1>5 DEF DevControl, Flags
    <2>2. DevShape(NoConn)
      BY <1>5, <2>1, NoConnIsNone DEF DevControl, DevShape
    <2> QED
      BY <2>2
  <1>6. DevTurn => DevTakes
    BY DEF DevTurn, DevSyn, DevRefuses, DevData, DevEnds
  <1> QED
    BY <1>3, <1>4, <1>5, <1>6 DEF Device

LEMMA DeviceLeavesHost ==
    ASSUME Device
    PROVE  UNCHANGED <<next_port_, opens, local_port_, remote_port_, incoming_, got, phase, op, cur>>
  BY DEF Device, DevTurn, DevSyn, DevRefuses, DevData, DevEnds, DevTakes, DevSend, DevReset,
         DevControl, connection, names, stream, caller

LEMMA DevShapeKeeps ==
    ASSUME TypeOK, PortsInOrder, Wires, Ears, Device,
           NEW c \in Conns \cup {NoConn}, DevShape(c)
    PROVE  Wires' /\ Ears'
  <1>1. /\ to_dev \in Seq(HostFrames) /\ to_host \in Seq(DevFrames)
        /\ Len(to_dev) \in Nat /\ Len(to_host) \in Nat
    BY LenProperties DEF TypeOK
  <1>2. UNCHANGED <<opens, local_port_, remote_port_, incoming_, got>>
    BY DeviceLeavesHost
  <1>3. FreshUnused /\ SynFirst /\ FramesExact /\ FramesOrdered
    BY DEF Wires
  <1>4. ASSUME NEW i \in 1 .. Len(to_host')
        PROVE  \/ i \in 1 .. Len(to_host) /\ to_host'[i] = to_host[i]
               \/ to_host'[i].conn = c /\ to_host'[i].data = <<>>
    <2>1. CASE to_host' = to_host
      BY <2>1
    <2>2. ASSUME NEW f \in DevFrames, f.conn = c, f.data = <<>>, to_host' = Append(to_host, f)
          PROVE  \/ i \in 1 .. Len(to_host) /\ to_host'[i] = to_host[i]
                 \/ to_host'[i].conn = c /\ to_host'[i].data = <<>>
      <3>1. Len(to_host') = Len(to_host) + 1
        BY <1>1, <2>2, AppendFacts
      <3>2. CASE i \in 1 .. Len(to_host)
        BY <1>1, <2>2, <3>2, AppendFacts
      <3>3. CASE i = Len(to_host) + 1
        BY <1>1, <2>2, <3>3, AppendFacts
      <3> QED
        BY <1>1, <3>1, <3>2, <3>3
    <2> QED
      BY <2>1, <2>2 DEF DevShape
  <1>5. ASSUME NEW i \in 1 .. Len(to_host'), to_host'[i].data # <<>>
        PROVE  i \in 1 .. Len(to_host) /\ to_host'[i] = to_host[i]
    BY <1>4, <1>5
  <1>6. ASSUME NEW d \in Conns, Fresh(d) PROVE d # c
    BY <1>6, NoConnIsNone DEF DevShape
  <1>7. FreshUnused'
    <2> SUFFICES ASSUME NEW d \in Conns, Fresh(d)
                 PROVE  /\ dev_state'[d] = "none"
                        /\ dev_sent'[d] = 0
                        /\ \A i \in 1 .. Len(to_dev') : to_dev'[i].conn # d
                        /\ \A i \in 1 .. Len(to_host') : to_host'[i].conn # d
      BY <1>2 DEF FreshUnused, Fresh
    <2>1. dev_state'[d] = "none" /\ dev_sent'[d] = 0
      BY <1>3, <1>6 DEF DevShape, FreshUnused
    <2>2. ASSUME NEW i \in 1 .. Len(to_dev') PROVE to_dev'[i].conn # d
      <3>1. CASE to_dev' = to_dev
        BY <1>3, <3>1 DEF FreshUnused
      <3>2. CASE to_dev # <<>> /\ to_dev' = Tail(to_dev)
        BY <1>1, <1>3, <3>2, TailFacts DEF FreshUnused
      <3> QED
        BY <3>1, <3>2 DEF DevShape
    <2>3. ASSUME NEW i \in 1 .. Len(to_host') PROVE to_host'[i].conn # d
      BY <1>3, <1>4, <1>6 DEF FreshUnused
    <2> QED
      BY <2>1, <2>2, <2>3
  <1>8. SynFirst'
    <2> SUFFICES ASSUME NEW j \in 1 .. Len(to_dev'), to_dev'[j].flags = "SYN"
                 PROVE  /\ dev_state'[to_dev'[j].conn] = "none"
                        /\ dev_sent'[to_dev'[j].conn] = 0
                        /\ \A i \in 1 .. (j - 1) : to_dev'[i].conn # to_dev'[j].conn
      BY DEF SynFirst
    <2>1. CASE to_dev' = to_dev /\ (c \in Conns => dev_state[c] # "none")
      <3>1. /\ dev_state[to_dev[j].conn] = "none" /\ dev_sent[to_dev[j].conn] = 0
            /\ \A i \in 1 .. (j - 1) : to_dev[i].conn # to_dev[j].conn
        BY <1>3, <2>1 DEF SynFirst
      <3>2. to_dev[j].conn \in Conns
        <4>1. to_dev[j] \in HostFrames
          BY <1>1, <2>1
        <4> QED
          BY <4>1 DEF HostFrames
      <3>3. dev_state'[to_dev[j].conn] = dev_state[to_dev[j].conn] /\ dev_sent' = dev_sent
        BY <2>1, <3>1, <3>2 DEF DevShape
      <3> QED
        BY <2>1, <3>1, <3>3
    <2>2. CASE to_dev # <<>> /\ to_dev' = Tail(to_dev) /\ c = to_dev[1].conn
      <3>1. /\ Len(to_dev') = Len(to_dev) - 1
            /\ \A i \in 1 .. Len(to_dev') : i + 1 \in 1 .. Len(to_dev) /\ to_dev'[i] = to_dev[i + 1]
        BY <1>1, <2>2, TailFacts
      <3>2. j + 1 \in 1 .. Len(to_dev) /\ to_dev'[j] = to_dev[j + 1]
        BY <3>1
      <3>3. /\ dev_state[to_dev[j + 1].conn] = "none" /\ dev_sent[to_dev[j + 1].conn] = 0
            /\ \A i \in 1 .. ((j + 1) - 1) : to_dev[i].conn # to_dev[j + 1].conn
        BY <1>3, <3>2 DEF SynFirst
      <3>4. to_dev[j + 1].conn \in Conns
        <4>1. to_dev[j + 1] \in HostFrames
          BY <1>1, <3>2
        <4> QED
          BY <4>1 DEF HostFrames
      <3>5. c # to_dev[j + 1].conn
        BY <1>1, <2>2, <3>1, <3>3
      <3>6. dev_state'[to_dev[j + 1].conn] = dev_state[to_dev[j + 1].conn] /\ dev_sent' = dev_sent
        BY <3>4, <3>5 DEF DevShape
      <3>7. ASSUME NEW i \in 1 .. (j - 1) PROVE to_dev'[i].conn # to_dev'[j].conn
        <4>1. i \in 1 .. Len(to_dev') /\ i + 1 \in 1 .. ((j + 1) - 1)
          BY <1>1, <3>1
        <4> QED
          BY <3>1, <3>2, <3>3, <4>1
      <3> QED
        BY <3>2, <3>3, <3>6, <3>7
    <2> QED
      BY <2>1, <2>2 DEF DevShape
  <1>9. FramesExact'
    BY <1>3, <1>5 DEF DevShape, FramesExact
  <1>10. FramesOrdered'
    BY <1>3, <1>5 DEF FramesOrdered
  <1>11. \A s \in Streams : Heard(s)' = Heard(s) /\ Conn(s)' = Conn(s)
    BY <1>2 DEF Heard, Conn
  <1>12. HeardExact' /\ HeardOrdered'
    BY <1>11 DEF DevShape, Ears, HeardExact, HeardOrdered
  <1>13. HeardFirst'
    BY <1>5, <1>11 DEF Ears, HeardFirst
  <1> QED
    BY <1>7, <1>8, <1>9, <1>10, <1>12, <1>13 DEF Wires, Ears

\* A data frame continues where the last one of its connection ended.
LEMMA DevSendKeeps ==
    ASSUME TypeOK, Wires, Ears, NEW c \in Conns, NEW n \in 1 .. MaxUnits, DevSend(c, n)
    PROVE  Wires' /\ Ears'
  <1> USE DEF vars, session, connection, names, stream, caller, device
  <1>1. PICK f : f = DevFrame(c, "ACK", dev_sent[c] + 1,
                              [k \in 1 .. n |-> <<c, dev_sent[c] + k>>])
    OBVIOUS
  <1>2. /\ n \in Nat /\ n > 0 /\ dev_sent[c] \in Nat
        /\ to_host \in Seq(DevFrames) /\ Len(to_host) \in Nat
    BY MuxLinkAssumption, LenProperties DEF TypeOK
  <1>3. PICK data : data = [k \in 1 .. n |-> <<c, dev_sent[c] + k>>]
    OBVIOUS
  <1>4. data \in Seq(Units) /\ Len(data) = n /\ \A k \in 1 .. n : data[k] = <<c, dev_sent[c] + k>>
    <2>1. \A k \in 1 .. n : <<c, dev_sent[c] + k>> \in Units
      BY <1>2 DEF Units
    <2>2. data \in [1 .. n -> Units]
      BY <1>3, <2>1
    <2> QED
      BY <1>2, <1>3, <2>2
  <1>5. f.conn = c /\ f.seq = dev_sent[c] + 1 /\ f.data = data
    BY <1>1, <1>3 DEF DevFrame
  <1>6. f \in DevFrames
    BY <1>1, <1>2, <1>3, <1>4 DEF DevFrame, DevFrames, Flags
  <1>7. /\ to_host' = Append(to_host, f)
        /\ dev_sent' = [dev_sent EXCEPT ![c] = @ + n]
        /\ dev_state[c] = "est"
        /\ UNCHANGED <<opens, local_port_, remote_port_, incoming_, got, to_dev, dev_state>>
    BY <1>1 DEF DevSend
  <1>8. /\ Len(to_host') = Len(to_host) + 1
        /\ \A i \in 1 .. Len(to_host) : to_host'[i] = to_host[i]
        /\ to_host'[Len(to_host) + 1] = f
    BY <1>2, <1>6, <1>7, AppendFacts
  <1>9. ASSUME NEW i \in 1 .. Len(to_host')
        PROVE  \/ i \in 1 .. Len(to_host) /\ to_host'[i] = to_host[i] /\ to_host[i] \in DevFrames
               \/ i = Len(to_host) + 1 /\ to_host'[i] = f
    BY <1>2, <1>8
  <1>10. /\ dev_sent'[c] = dev_sent[c] + n
         /\ \A d \in Conns : d # c => dev_sent'[d] = dev_sent[d]
         /\ \A d \in Conns : dev_sent[d] \in Nat /\ dev_sent'[d] \in Nat /\ dev_sent[d] <= dev_sent'[d]
    BY <1>2, <1>7, SMTT(60) DEF TypeOK
  <1>11. FreshUnused /\ SynFirst /\ FramesExact /\ FramesOrdered
    BY DEF Wires
  <1>12. FreshUnused'
    <2> SUFFICES ASSUME NEW d \in Conns, Fresh(d)
                 PROVE  /\ dev_state'[d] = "none"
                        /\ dev_sent'[d] = 0
                        /\ \A i \in 1 .. Len(to_dev') : to_dev'[i].conn # d
                        /\ \A i \in 1 .. Len(to_host') : to_host'[i].conn # d
      BY <1>7 DEF FreshUnused, Fresh
    <2>1. d # c
      BY <1>7, <1>11 DEF FreshUnused
    <2>2. ASSUME NEW i \in 1 .. Len(to_host') PROVE to_host'[i].conn # d
      BY <1>5, <1>9, <1>11, <2>1 DEF FreshUnused
    <2> QED
      BY <1>7, <1>10, <1>11, <2>1, <2>2 DEF FreshUnused
  <1>13. SynFirst'
    <2> SUFFICES ASSUME NEW j \in 1 .. Len(to_dev), to_dev[j].flags = "SYN"
                 PROVE  /\ dev_state[to_dev[j].conn] = "none"
                        /\ dev_sent'[to_dev[j].conn] = 0
                        /\ \A i \in 1 .. (j - 1) : to_dev[i].conn # to_dev[j].conn
      BY <1>7 DEF SynFirst
    <2>1. to_dev[j].conn \in Conns
      <3>1. to_dev[j] \in HostFrames
        BY DEF TypeOK
      <3> QED
        BY <3>1 DEF HostFrames
    <2> QED
      BY <1>7, <1>10, <1>11, <2>1 DEF SynFirst
  <1>14. FramesExact'
    <2> SUFFICES ASSUME NEW i \in 1 .. Len(to_host'), to_host'[i].data # <<>>
                 PROVE  /\ to_host'[i].conn \in Conns
                        /\ to_host'[i].seq + Len(to_host'[i].data)
                               <= dev_sent'[to_host'[i].conn] + 1
                        /\ \A k \in 1 .. Len(to_host'[i].data) :
                               to_host'[i].data[k]
                                   = <<to_host'[i].conn, (to_host'[i].seq - 1) + k>>
      BY DEF FramesExact
    <2>1. CASE i \in 1 .. Len(to_host) /\ to_host'[i] = to_host[i] /\ to_host[i] \in DevFrames
      <3>1. /\ to_host[i].conn \in Conns
            /\ to_host[i].seq + Len(to_host[i].data) <= dev_sent[to_host[i].conn] + 1
            /\ \A k \in 1 .. Len(to_host[i].data) :
                   to_host[i].data[k] = <<to_host[i].conn, (to_host[i].seq - 1) + k>>
        BY <1>11, <2>1 DEF FramesExact
      <3>2. to_host[i].seq \in Nat /\ to_host[i].data \in Seq(Units)
        BY <2>1 DEF DevFrames
      <3>3. to_host[i].seq + Len(to_host[i].data) <= dev_sent'[to_host[i].conn] + 1
        <4> DEFINE m == Len(to_host[i].data)
                   a == dev_sent[to_host[i].conn]
                   b == dev_sent'[to_host[i].conn]
        <4>1. m \in Nat
          BY <3>2, LenProperties
        <4>2. a \in Nat /\ b \in Nat /\ a <= b
          BY <1>10, <3>1
        <4>3. to_host[i].seq + m <= a + 1
          BY <3>1
        <4> HIDE DEF m, a, b
        <4>4. to_host[i].seq + m <= b + 1
          BY <3>2, <4>1, <4>2, <4>3
        <4> QED
          BY <4>4 DEF m, b
      <3> QED
        BY <2>1, <3>1, <3>3
    <2>2. CASE to_host'[i] = f
      <3>1. /\ to_host'[i].conn = c /\ to_host'[i].seq = dev_sent[c] + 1
            /\ to_host'[i].data = data
        BY <1>5, <2>2
      <3>2. (dev_sent[c] + 1) + Len(data) <= dev_sent'[c] + 1
        BY <1>2, <1>4, <1>10
      <3>3. ASSUME NEW k \in 1 .. Len(data)
            PROVE  data[k] = <<c, ((dev_sent[c] + 1) - 1) + k>>
        <4>1. k \in 1 .. n /\ ((dev_sent[c] + 1) - 1) + k = dev_sent[c] + k
          BY <1>2, <1>4
        <4> QED
          BY <1>4, <4>1
      <3> QED
        BY <3>1, <3>2, <3>3
    <2> QED
      BY <1>9, <2>1, <2>2
  <1>15. FramesOrdered'
    <2> SUFFICES ASSUME NEW i \in 1 .. Len(to_host'), NEW j \in 1 .. Len(to_host'),
                        i < j, to_host'[i].conn = to_host'[j].conn,
                        to_host'[i].data # <<>>, to_host'[j].data # <<>>
                 PROVE  to_host'[i].seq + Len(to_host'[i].data) <= to_host'[j].seq
      BY DEF FramesOrdered
    <2>1. i \in 1 .. Len(to_host) /\ to_host'[i] = to_host[i]
      BY <1>2, <1>8
    <2>2. CASE j \in 1 .. Len(to_host) /\ to_host'[j] = to_host[j]
      BY <1>11, <2>1, <2>2 DEF FramesOrdered
    <2>3. CASE to_host'[j] = f
      BY <1>5, <1>11, <2>1, <2>3 DEF FramesExact
    <2> QED
      BY <1>9, <2>2, <2>3
  <1>16. \A s \in Streams : Heard(s)' = Heard(s) /\ Conn(s)' = Conn(s)
    BY <1>7 DEF Heard, Conn
  <1>17. ASSUME NEW s \in Streams, NEW i \in 1 .. Len(Heard(s))
         PROVE  Conn(s) \in Conns /\ Heard(s)[i][2] \in Nat
    <2>1. Heard(s)[i] \in Units
      BY HeardType
    <2> QED
      BY <2>1, ConnType DEF Units
  <1>18. HeardExact'
    <2> SUFFICES ASSUME NEW s \in Streams, NEW i \in 1 .. Len(Heard(s))
                 PROVE  Heard(s)[i][1] = Conn(s) /\ Heard(s)[i][2] <= dev_sent'[Conn(s)]
      BY <1>16 DEF HeardExact
    <2>1. Heard(s)[i][1] = Conn(s) /\ Heard(s)[i][2] <= dev_sent[Conn(s)]
      BY DEF Ears, HeardExact
    <2> QED
      BY <1>10, <1>17, <2>1
  <1>19. HeardOrdered'
    BY <1>16 DEF Ears, HeardOrdered
  <1>20. HeardFirst'
    <2> SUFFICES ASSUME NEW s \in Streams, NEW i \in 1 .. Len(to_host'),
                        to_host'[i].data # <<>>, to_host'[i].conn = Conn(s),
                        NEW k \in 1 .. Len(Heard(s))
                 PROVE  Heard(s)[k][2] < to_host'[i].seq
      BY <1>16 DEF HeardFirst
    <2>1. CASE i \in 1 .. Len(to_host) /\ to_host'[i] = to_host[i]
      BY <2>1 DEF Ears, HeardFirst
    <2>2. CASE to_host'[i] = f
      <3>1. Heard(s)[k][2] <= dev_sent[c]
        BY <1>5, <2>2 DEF Ears, HeardExact
      <3> QED
        BY <1>2, <1>5, <1>17, <2>2, <3>1
    <2> QED
      BY <1>9, <2>1, <2>2
  <1> QED
    BY <1>12, <1>13, <1>14, <1>15, <1>18, <1>19, <1>20 DEF Wires, Ears
-----------------------------------------------------------------------------
(* Together.                                                               *)

LEMMA InitIInv == Init => IInv
  <1> SUFFICES ASSUME Init PROVE PortsInOrder /\ Wires /\ Ears
    BY DEF IInv
  <1>1. \A s \in Streams : Heard(s) = <<>>
    BY ConcatEmptySeq, EmptySeq DEF Init, Heard
  <1>2. PortsInOrder
    BY <1>1, MuxLinkAssumption DEF Init, PortsInOrder, Streams
  <1>3. Wires
    BY DEF Init, Wires, FreshUnused, SynFirst, FramesExact, FramesOrdered
  <1>4. Ears
    BY <1>1 DEF Init, Ears, HeardExact, HeardOrdered, HeardFirst
  <1> QED
    BY <1>2, <1>3, <1>4

LEMMA NextIInv == TypeOK /\ IInv /\ [Next]_vars => IInv'
  <1> SUFFICES ASSUME TypeOK, IInv, [Next]_vars, NoWrap' PROVE PortsInOrder' /\ Wires' /\ Ears'
    BY DEF IInv
  <1>1. CASE UNCHANGED vars
    <2>1. NoWrap
      BY <1>1 DEF NoWrap, vars, connection
    <2>2. UNCHANGED <<next_port_, opens, local_port_, remote_port_, incoming_, got, phase, op, cur,
                      to_dev, to_host, dev_state, dev_sent>>
      BY <1>1 DEF vars, session, connection, names, stream, caller, device
    <2>3. PortsInOrder /\ Wires /\ Ears
      BY <2>1 DEF IInv
    <2>4. PortsInOrder'
      BY <2>2, <2>3 DEF PortsInOrder, Heard
    <2>5. Wires'
      BY <2>2, <2>3 DEF Wires, FreshUnused, Fresh, SynFirst, FramesExact, FramesOrdered
    <2>6. Ears'
      BY <2>2, <2>3 DEF Ears, HeardExact, HeardOrdered, HeardFirst, Heard, Conn
    <2> QED
      BY <2>4, <2>5, <2>6
  <1>2. ASSUME NEW svc \in Services, OpenSyn(svc)
        PROVE  PortsInOrder' /\ Wires' /\ Ears'
    <2>1. NoWrap
      BY <1>2, MuxLinkAssumption DEF NoWrap, OpenSyn, TypeOK
    <2> QED
      BY <1>2, <2>1, OpenSynKeeps DEF IInv
  <1>3. CASE HostCall
    <2>1. NoWrap /\ HostShape
      <3>1. opens' = opens
        BY <1>3 DEF HostCall, Continue, OpenStep, OpenSkips, OpenRefused, OpenTimesOut, OpenSucceeds,
               OpenAckFails, OpenAnswered, ReadStep, ReadSkips, ReadReset, ReadTakes, ReadAckFails,
               ReadFrame, ReadTimesOut, WriteStep, WriteChunk, WriteFails, ReadExact, Write, ReadAll,
               Close, ConnClose, Drop, connection
      <3>2. NoWrap
        BY <3>1 DEF NoWrap
      <3> QED
        BY <1>3, <3>2, HostCallShape DEF IInv
    <2>2. PortsInOrder /\ Wires /\ Ears
      BY <2>1 DEF IInv
    <2>3. Wires'
      BY <2>1, <2>2, HostKeepsWires DEF HostShape, connection
    <2>4. Ears'
      <3>1. CASE ReadTakes
        BY <2>2, <3>1, ReadTakesEars
      <3>2. CASE ~ReadTakes
        BY <1>3, <2>1, <2>2, <3>2, HostCallHears, DeafStep DEF HostShape, names
      <3> QED
        BY <3>1, <3>2
    <2> QED
      BY <1>3, <2>2, <2>3, <2>4, HostCallPorts
  <1>4. CASE Device
    <2>1. UNCHANGED <<next_port_, opens, local_port_, remote_port_, incoming_, got, phase, op, cur>>
      BY <1>4, DeviceLeavesHost
    <2>2. NoWrap
      BY <2>1 DEF NoWrap
    <2>3. PortsInOrder /\ Wires /\ Ears
      BY <2>2 DEF IInv
    <2>4. PortsInOrder'
      BY <2>1, <2>3 DEF PortsInOrder, Heard
    <2>5. Wires' /\ Ears'
      <3>1. CASE \E c \in Conns : \E n \in 1 .. MaxUnits : DevSend(c, n)
        BY <2>3, <3>1, DevSendKeeps
      <3>2. CASE ~\E c \in Conns : \E n \in 1 .. MaxUnits : DevSend(c, n)
        BY <1>4, <2>3, <3>2, DeviceShape, DevShapeKeeps
      <3> QED
        BY <3>1, <3>2
    <2> QED
      BY <2>4, <2>5
  <1> QED
    BY <1>1, <1>2, <1>3, <1>4 DEF Next, Call, HostCall

LEMMA InvariantHolds == Spec => [](TypeOK /\ IInv)
  <1>1. Init => TypeOK /\ IInv
    BY InitType, InitIInv
  <1>2. (TypeOK /\ IInv) /\ [Next]_vars => (TypeOK /\ IInv)'
    BY NextType, NextIInv
  <1> QED
    BY <1>1, <1>2, PTL DEF Spec

\* Whatever the device sends, the cable loses and receive_more throws away, what
\* a stream is handed was sent on its own connection, in order, and not twice.
THEOREM Delivery == Spec => []DeliveredInOrder
  <1>1. IInv => DeliveredInOrder
    BY DEF IInv, Ears, HeardExact, HeardOrdered, DeliveredInOrder
  <1> QED
    BY <1>1, InvariantHolds, PTL

\* Until the counter of allocate_local_port comes round, a port is not zero and
\* no other stream's.
THEOREM PortsUnique == Spec => []PortUniqueUntilWrap
  <1>1. TypeOK /\ IInv => PortUniqueUntilWrap
    <2> SUFFICES ASSUME TypeOK, IInv, NoWrap, NEW s \in Streams, InUse(s)
                 PROVE  /\ local_port_[s] # 0
                        /\ \A t \in Streams \ {s} : InUse(t) => local_port_[t] # local_port_[s]
      BY DEF PortUniqueUntilWrap, LocalPortUnique
    <2>1. \A t \in Streams : InUse(t) => local_port_[t] = t
      <3>1. ASSUME NEW t \in Streams, InUse(t) PROVE local_port_[t] = t
        <4>1. PortsInOrder /\ phase[t] # "none"
          BY <3>1 DEF IInv, InUse
        <4> QED
          BY <4>1, UsedWasOpened DEF PortsInOrder
      <3> QED
        BY <3>1
    <2> QED
      BY <2>1 DEF Streams
  <1> QED
    BY <1>1, InvariantHolds, PTL

-----------------------------------------------------------------------------
(* Every port is given back: by a reset that is sent once, is the last      *)
(* frame of its connection, and is never written to a transport that was    *)
(* closed.  This rests on the invariant above, by which a connection has    *)
(* one stream.                                                              *)


LinkUp == link = "up"

\* A stream on which close or the error path of open has done its part.
Settled(s) == closed_[s] /\ phase[s] \in {"failed", "closed"}

\* The call in progress is on a stream it may be on, and the transport is there
\* for it.  Only a stream that was open can have been marked closed.
Calling ==
    /\ op = "open" => phase[cur] = "opening"
    /\ op \notin {"idle", "open"} => phase[cur] = "open"
    /\ op # "idle" => link # "closed"
    /\ \A s \in Streams : phase[s] = "closed" => closed_[s]
    /\ \A s \in Streams : phase[s] \in {"none", "opening"} => ~closed_[s]
    /\ \A s \in Streams : s > opens => phase[s] = "none"
    /\ \A s \in stranded : s <= opens
    /\ ~dead_use

\* A reset under way is that of a stream that says nothing more.
ResetSent ==
    \A i \in 1 .. Len(to_dev) : to_dev[i].flags = "RST" =>
        \A s \in Streams : s <= opens /\ to_dev[i].conn = Conn(s) => Settled(s)

NothingAfterReset ==
    \A i, j \in 1 .. Len(to_dev) :
        i < j /\ to_dev[i].flags = "RST" => to_dev[j].conn # to_dev[i].conn

\* An open is behind the SYN of c: it waits for the answer, or it gave up.
Behind(c) ==
    \/ op = "open" /\ c = Conn(cur)
    \/ \E s \in stranded : c = Conn(s)

\* While a SYN is under way nothing of its connection comes the other way, and an
\* open is behind it.
SynUnanswered ==
    \A i \in 1 .. Len(to_dev) : to_dev[i].flags = "SYN" =>
        /\ \A j \in 1 .. Len(to_host) : to_host[j].conn # to_dev[i].conn
        /\ LinkUp => Behind(to_dev[i].conn)

\* The device resets what it has let go of.
ResetHeard ==
    \A j \in 1 .. Len(to_host) : to_host[j].flags = "RST" =>
        to_host[j].conn \in Conns /\ ~Live(to_host[j].conn)

\* What open may find: a connection without data, and no answer but a SYN|ACK
\* of a connection that lives.
Opening ==
    LinkUp /\ op = "open" =>
        /\ dev_state[Conn(cur)] \in {"none", "synrcvd"}
        /\ \A i \in 1 .. Len(to_dev) : to_dev[i].conn = Conn(cur) => to_dev[i].flags = "SYN"
        /\ \A j \in 1 .. Len(to_host) :
               to_host[j].conn = Conn(cur) /\ to_host[j].flags # "SYNACK" => ~Live(Conn(cur))

ResetUnderWay(c) == \E i \in 1 .. Len(to_dev) : to_dev[i].conn = c /\ to_dev[i].flags = "RST"

\* What is done with is gone, or its reset is on the way.
GivenBack ==
    LinkUp => \A s \in Streams \ stranded :
        Live(Conn(s)) /\ (phase[s] = "failed" \/ closed_[s]) => ResetUnderWay(Conn(s))

Closes == ResetSent /\ NothingAfterReset /\ SynUnanswered /\ ResetHeard /\ Opening /\ GivenBack
CInv   == Calling /\ (NoWrap => Closes)
-----------------------------------------------------------------------------
(* The caller's side.                                                      *)

\* A place in a wire that grew is an old one, or the new frame's.
LEMMA AppendIndex ==
    ASSUME NEW S, NEW q \in Seq(S), NEW e \in S, NEW i \in 1 .. Len(Append(q, e))
    PROVE  \/ i \in 1 .. Len(q) /\ Append(q, e)[i] = q[i]
           \/ i = Len(q) + 1 /\ Append(q, e)[i] = e
  BY AppendFacts, LenProperties

\* Every step leaves the caller where Calling says.
LEMMA CallingKept == TypeOK /\ Calling /\ [Next]_vars => Calling'
  <1> SUFFICES ASSUME TypeOK, Calling, [Next]_vars PROVE Calling'
    OBVIOUS
  <1> USE DEF vars, session, connection, names, stream, caller, device, Calling
  <1>0. cur \in Streams
    BY DEF TypeOK
  <1>1. CASE UNCHANGED vars \/ Device
    <2>1. UNCHANGED <<opens, closed_, phase, op, cur, link, dead_use, stranded>>
      <3>1. CASE Device
        BY <3>1
           DEF Device, DevTurn, DevSyn, DevRefuses, DevData, DevEnds, DevTakes, DevSend, DevReset,
               DevControl
      <3> QED
        BY <1>1, <3>1
    <2> QED
      BY <2>1
  <1>2. ASSUME NEW svc \in Services, OpenSyn(svc)
        PROVE  Calling'
    <2>1. opens + 1 \in Streams /\ opens \in Nat /\ link # "closed" /\ op = "idle"
      BY <1>2, MuxLinkAssumption DEF OpenSyn, TypeOK, Streams
    <2>2. PICK new \in Streams : new = opens + 1
      BY <2>1
    <2>3. phase[new] = "none" /\ opens' = new /\ closed_' = closed_ /\ ~dead_use'
      <3>1. phase[new] = "none" /\ opens' = new /\ closed_' = closed_
        BY <1>2, <2>1, <2>2 DEF OpenSyn
      <3>2. ~dead_use'
        BY <1>2, <2>1 DEF OpenSyn, Sent, SendFails
      <3> QED
        BY <3>1, <3>2
    <2>4. /\ phase' = [phase EXCEPT ![new] = phase'[new]]
          /\ \/ phase'[new] = "opening" /\ op' = "open" /\ cur' = new /\ link' = link
             \/ phase'[new] = "failed" /\ op' = op
      BY <1>2, <2>2 DEF OpenSyn, Sent, TypeOK
    <2>5. \A s \in Streams : s # new => phase'[s] = phase[s]
      BY <2>4 DEF TypeOK
    <2>6. \A s \in Streams : s > new => s > opens /\ s # new
      BY <2>1, <2>2 DEF Streams
    <2>7. \A s \in stranded' : s <= opens'
      <3>1. stranded' = stranded /\ stranded \subseteq Streams
        BY <1>2 DEF OpenSyn, TypeOK
      <3>2. \A s \in Streams : s <= opens => s <= new
        BY <2>1, <2>2 DEF Streams
      <3> QED
        BY <2>3, <3>1, <3>2
    <2> QED
      BY <2>1, <2>3, <2>4, <2>5, <2>6, <2>7
  <1>3. CASE OpenStep
    <2>1. /\ op = "open" /\ link' = link /\ ~dead_use' /\ opens' = opens
          /\ \/ UNCHANGED <<op, cur, phase, closed_>>
             \/ /\ op' = "idle"
                /\ \/ phase' = [phase EXCEPT ![cur] = "failed"]
                   \/ phase' = [phase EXCEPT ![cur] = "open"]
                /\ closed_' = closed_ \/ (closed_' = [closed_ EXCEPT ![cur] = TRUE]
                                            /\ phase' = [phase EXCEPT ![cur] = "failed"])
      BY <1>3
         DEF OpenStep, OpenSkips, OpenRefused, OpenTimesOut, OpenSucceeds, OpenAckFails,
             OpenAnswered, OpenGivesUp, Return, ReceiveFails, Sent
    <2>2. phase[cur] = "opening" /\ ~(cur > opens)
      BY <1>0, <2>1
    <2>3. \A s \in stranded' : s <= opens'
      <3>1. stranded' \subseteq stranded \cup {cur}
        BY <1>3
           DEF OpenStep, OpenSkips, OpenRefused, OpenTimesOut, OpenSucceeds, OpenAckFails
      <3>2. cur <= opens
        BY <1>0, <2>2 DEF TypeOK, Streams
      <3> QED
        BY <2>1, <3>1, <3>2
    <2> QED
      BY <1>0, <2>1, <2>2, <2>3 DEF TypeOK
  <1>4. CASE ReadStep
    <2>1. /\ op \notin {"idle", "open"} /\ UNCHANGED <<link, opens, phase, cur, stranded>>
          /\ op' = op \/ op' = "idle"
          /\ closed_' = closed_ \/ closed_' = [closed_ EXCEPT ![cur] = TRUE]
      BY <1>4
         DEF ReadStep, ReadSkips, ReadReset, ReadTakes, ReadAckFails, ReadTimesOut, ReadFrame,
             Reading, Fail, Return, ReceiveFails, Sent, SendFails
    <2>2. ~dead_use'
      BY <1>4, <2>1
         DEF ReadStep, ReadSkips, ReadReset, ReadTakes, ReadAckFails, ReadTimesOut, ReceiveFails,
             Sent, SendFails
    <2> QED
      BY <1>0, <2>1, <2>2 DEF TypeOK
  <1>5. CASE WriteStep
    BY <1>5 DEF WriteStep, WriteChunk, WriteFails, Fail, Return, Sent, SendFails, TypeOK
  <1>6. ASSUME NEW s \in Streams, Close(s)
        PROVE  Calling'
    <2>1. \A t \in stranded' : t <= opens'
      <3>1. stranded' \subseteq stranded \cup {s} /\ opens' = opens /\ phase[s] # "none"
        BY <1>6 DEF Close
      <3>2. s <= opens
        BY <3>1 DEF TypeOK, Streams
      <3> QED
        BY <3>1, <3>2
    <2>a. /\ phase' = [phase EXCEPT ![s] = "closed"] /\ closed_' = [closed_ EXCEPT ![s] = TRUE]
          /\ op = "idle" /\ phase[s] \in {"open", "closed"}
          /\ UNCHANGED <<op, cur, opens>>
      BY <1>6 DEF Close
    <2>b. UNCHANGED link /\ ~dead_use'
      <3>1. CASE SkipsReset(s) /\ UNCHANGED session
        BY <3>1
      <3>2. CASE ~SkipsReset(s) /\ Sent(Conn(s), "RST", tx_seq_[s], tx_ack_[s], 0)
        BY <3>2 DEF Sent
      <3>3. CASE ~SkipsReset(s) /\ SendFails
        BY <3>3 DEF SendFails, SkipsReset
      <3> QED
        BY <1>6, <3>1, <3>2, <3>3 DEF Close
    <2>2. /\ phase' = [phase EXCEPT ![s] = "closed"] /\ closed_' = [closed_ EXCEPT ![s] = TRUE]
          /\ op = "idle" /\ phase[s] \in {"open", "closed"}
          /\ UNCHANGED <<op, cur, opens, link>> /\ ~dead_use'
      BY <2>a, <2>b
    <2>3. /\ phase'[s] = "closed" /\ closed_'[s]
          /\ \A t \in Streams : t # s => phase'[t] = phase[t] /\ closed_'[t] = closed_[t]
      BY <2>2 DEF TypeOK
    <2>4. \A t \in Streams : t > opens' => phase'[t] = "none"
      <3>1. ~(s > opens)
        BY <2>2
      <3> QED
        BY <2>2, <2>3, <3>1
    <2> QED
      BY <2>1, <2>2, <2>3, <2>4
  <1>7. ASSUME NEW s \in Streams,
               ReadAll(s) \/ \E n \in 1 .. MaxUnits : ReadExact(s, n) \/ Write(s, n)
        PROVE  Calling'
    <2>1. /\ phase[s] = "open" /\ op = "idle" /\ link # "closed"
          /\ UNCHANGED <<link, opens, phase, closed_, dead_use, stranded>>
          /\ UNCHANGED <<op, cur>> \/ (op' \in {"read", "read_all", "write"} /\ cur' = s)
      <3>1. CASE ReadAll(s)
        BY <3>1 DEF ReadAll, MayCall
      <3>2. ASSUME NEW n \in 1 .. MaxUnits, Write(s, n)
            PROVE  <2>1!:
        BY <3>2 DEF Write, MayCall
      <3>3. ASSUME NEW n \in 1 .. MaxUnits, ReadExact(s, n)
            PROVE  <2>1!:
        <4>1. /\ phase[s] = "open" /\ op = "idle" /\ link # "closed"
              /\ UNCHANGED <<link, opens, phase, closed_, dead_use, stranded>>
          BY <3>3 DEF ReadExact, MayCall
        <4>2. UNCHANGED <<op, cur>> \/ (op' \in {"read", "read_all", "write"} /\ cur' = s)
          BY <3>3 DEF ReadExact
        <4> QED
          BY <4>1, <4>2
      <3> QED
        BY <1>7, <3>1, <3>2, <3>3
    <2> QED
      BY <2>1
  <1>8. CASE ConnClose \/ Drop
    BY <1>8 DEF ConnClose, Drop
  <1> QED
    BY <1>1, <1>2, <1>3, <1>4, <1>5, <1>6, <1>7, <1>8 DEF Next, Call, Continue

\* What a call writes it writes on its own stream, before that is settled, and a
\* reset settles it.
Writes(s) ==
    \E f \in HostFrames :
        /\ to_dev' = Append(to_dev, f)
        /\ f.conn = Conn(s)
        /\ f.flags # "SYN"
        /\ f.flags = "RST" => Settled(s)'

CallShape ==
    /\ UNCHANGED <<opens, local_port_, remote_port_, dev_state>>
    /\ \A s \in Streams : Settled(s) => Settled(s)'
    /\ HostTakes
    /\ \/ to_dev' = to_dev
       \/ to_dev' = <<>>
       \/ \E s \in Streams : s <= opens /\ ~Settled(s) /\ Writes(s)

\* Session::send writes one frame on the stream it is called for.
LEMMA SentOn ==
    ASSUME TypeOK, NEW s \in Streams, NEW flags \in Flags \ {"SYN"},
           NEW seq \in Nat, NEW ack \in Nat, NEW len \in Nat,
           flags = "RST" => Settled(s)',
           Sent(Conn(s), flags, seq, ack, len)
    PROVE  Writes(s)
  <1>1. HostFrame(Conn(s), flags, seq, ack, len, mux_tx_seq_) \in HostFrames
    BY ConnType DEF TypeOK, HostFrame, HostFrames
  <1>2. /\ HostFrame(Conn(s), flags, seq, ack, len, mux_tx_seq_).conn = Conn(s)
        /\ HostFrame(Conn(s), flags, seq, ack, len, mux_tx_seq_).flags = flags
    BY DEF HostFrame
  <1> QED
    BY <1>1, <1>2 DEF Sent, Writes

\* Each step of a blocking call has the shape of CallShape.
LEMMA CallHasShape ==
    ASSUME TypeOK, Calling, PortsInOrder, HostCall
    PROVE  CallShape
  <1> USE DEF vars, session, connection, names, stream, caller, device, Calling, Settled
  <1>1. HostTakes /\ UNCHANGED <<opens, local_port_, remote_port_, dev_state>>
    BY HostCallShape DEF HostShape
  <1>2. PICK me \in Streams : me = cur
    BY DEF TypeOK
  <1>a. op # "idle" => me <= opens /\ phase[me] \in {"opening", "open"}
    BY <1>2 DEF PortsInOrder
  <1>3. ASSUME UNCHANGED <<phase, closed_>>
        PROVE  \A s \in Streams : Settled(s) => Settled(s)'
    BY <1>2, <1>3
  <1>4. CASE OpenSkips \/ OpenRefused \/ OpenTimesOut
    <2>1. /\ to_dev' = to_dev /\ closed_' = closed_
          /\ phase' = phase \/ phase' = [phase EXCEPT ![me] = "failed"]
      BY <1>2, <1>4 DEF OpenSkips, OpenRefused, OpenTimesOut, OpenGivesUp, ReceiveFails
    <2> QED
      BY <1>1, <2>1 DEF CallShape, TypeOK
  <1>5. CASE OpenSucceeds
    <2>1. /\ op # "idle" /\ closed_' = closed_ /\ phase' = [phase EXCEPT ![me] = "open"]
          /\ Sent(Conn(me), "ACK", 1, Frame.seq + 1, 0)
      BY <1>2, <1>5 DEF OpenSucceeds, OpenAnswered
    <2>2. Frame \in DevFrames
      BY <1>2, <1>5, ReceivedType DEF OpenSucceeds, OpenAnswered
    <2>3. Frame.seq + 1 \in Nat
      BY <2>2 DEF DevFrames
    <2>4. Writes(me)
      BY <1>2, <1>a, <2>1, <2>3, SentOn DEF Flags
    <2>5. \A s \in Streams : Settled(s) => Settled(s)'
      BY <1>2, <1>a, <2>1 DEF TypeOK
    <2> QED
      BY <1>1, <1>2, <1>a, <2>1, <2>4, <2>5 DEF CallShape
  <1>6. CASE OpenAckFails
    <2> DEFINE rst == HostFrame(Conn(me), "RST", 1, Frame.seq + 1, 0, NextMux(mux_tx_seq_))
    <2>1. /\ op # "idle" /\ closed_' = [closed_ EXCEPT ![me] = TRUE]
          /\ phase' = [phase EXCEPT ![me] = "failed"]
          /\ to_dev' = to_dev \/ to_dev' = Append(to_dev, rst)
      BY <1>2, <1>6 DEF OpenAckFails, OpenAnswered, OpenGivesUp
    <2>2. Frame \in DevFrames
      BY <1>2, <1>6, ReceivedType DEF OpenAckFails, OpenAnswered
    <2>3. Frame.seq + 1 \in Nat
      BY <2>2 DEF DevFrames
    <2>4. rst \in HostFrames
      BY <1>2, <1>a, <2>3, ConnType, CounterTypes DEF TypeOK, HostFrame, HostFrames, Flags
    <2>5. rst.conn = Conn(me) /\ rst.flags = "RST"
      BY DEF HostFrame
    <2> HIDE DEF rst
    <2>6. Settled(me)' /\ \A s \in Streams : Settled(s) => Settled(s)'
      <3>1. closed_'[me] /\ phase'[me] = "failed"
        BY <1>2, <1>a, <2>1 DEF TypeOK
      <3>2. \A s \in Streams : s # me => closed_'[s] = closed_[s] /\ phase'[s] = phase[s]
        BY <2>1 DEF TypeOK
      <3> QED
        BY <3>1, <3>2
    <2>7. to_dev' = to_dev \/ Writes(me)
      BY <2>1, <2>4, <2>5, <2>6 DEF Writes
    <2> QED
      BY <1>1, <1>2, <1>a, <2>1, <2>6, <2>7 DEF CallShape
  <1>7. CASE ReadSkips \/ ReadReset \/ ReadTimesOut \/ ReadAckFails
    <2>1. /\ to_dev' = to_dev /\ phase' = phase
          /\ closed_' = closed_ \/ closed_' = [closed_ EXCEPT ![me] = TRUE]
      BY <1>2, <1>7
         DEF ReadSkips, ReadReset, ReadTimesOut, ReadAckFails, ReadFrame, ReceiveFails, SendFails,
             Fail
    <2> QED
      BY <1>1, <2>1 DEF CallShape, TypeOK
  <1>8. CASE ReadTakes
    <2>1. /\ op # "idle" /\ closed_' = closed_ /\ phase' = phase
          /\ Sent(Conn(me), "ACK", tx_seq_[me], AckOf(Frame), 0)
      BY <1>2, <1>8 DEF ReadTakes, ReadFrame, Reading
    <2>2. Frame \in DevFrames
      BY <1>2, <1>8, ReceivedType DEF ReadTakes, ReadFrame
    <2>3. AckOf(Frame) \in Nat /\ tx_seq_[me] \in Nat
      BY <2>2, LenProperties DEF DevFrames, AckOf, TypeOK
    <2>4. Writes(me)
      BY <1>2, <1>a, <2>1, <2>3, SentOn DEF Flags
    <2> QED
      BY <1>1, <1>2, <1>a, <1>3, <2>1, <2>4 DEF CallShape
  <1>9. CASE WriteStep
    <2> DEFINE chunk == Smaller(MaxPayload, want)
    <2>1. /\ op # "idle" /\ closed_' = closed_ /\ phase' = phase
          /\ \/ Sent(Conn(me), "ACK", tx_seq_[me], tx_ack_[me], chunk)
             \/ to_dev' = to_dev
      BY <1>2, <1>9 DEF WriteStep, WriteChunk, WriteFails, SendFails, Fail
    <2>2. chunk \in Nat /\ tx_seq_[me] \in Nat /\ tx_ack_[me] \in Nat
      BY MuxLinkAssumption DEF Smaller, TypeOK
    <2> HIDE DEF chunk
    <2>3. to_dev' = to_dev \/ Writes(me)
      BY <1>2, <1>a, <2>1, <2>2, SentOn DEF Flags
    <2> QED
      BY <1>1, <1>2, <1>a, <1>3, <2>1, <2>3 DEF CallShape
  <1>10. ASSUME NEW s \in Streams, Close(s)
         PROVE  CallShape
    <2>1. /\ phase[s] \in {"open", "closed"} /\ phase' = [phase EXCEPT ![s] = "closed"]
          /\ closed_' = [closed_ EXCEPT ![s] = TRUE]
          /\ \/ to_dev' = to_dev
             \/ ~closed_[s] /\ Sent(Conn(s), "RST", tx_seq_[s], tx_ack_[s], 0)
      BY <1>2, <1>10 DEF Close, SkipsReset, SendFails
    <2>2. Settled(s)' /\ \A t \in Streams : Settled(t) => Settled(t)'
      BY <2>1 DEF TypeOK
    <2>3. tx_seq_[s] \in Nat /\ tx_ack_[s] \in Nat
      BY DEF TypeOK
    <2>4. to_dev' = to_dev \/ (~closed_[s] /\ Writes(s))
      <3>1. ASSUME Sent(Conn(s), "RST", tx_seq_[s], tx_ack_[s], 0)
            PROVE  Writes(s)
        BY <2>2, <2>3, <3>1, SentOn DEF Flags
      <3> QED
        BY <2>1, <3>1
    <2>5. s <= opens
      BY <2>1, UsedWasOpened
    <2> QED
      BY <1>1, <2>2, <2>4, <2>5 DEF CallShape
  <1>11. CASE \E s \in Streams, n \in 1 .. MaxUnits : ReadExact(s, n) \/ Write(s, n)
    BY <1>1, <1>3, <1>11 DEF ReadExact, Write, CallShape
  <1>12. CASE (\E s \in Streams : ReadAll(s)) \/ ConnClose \/ Drop
    BY <1>1, <1>3, <1>12 DEF ReadAll, ConnClose, Drop, CallShape
  <1> QED
    BY <1>2, <1>4, <1>5, <1>6, <1>7, <1>8, <1>9, <1>10, <1>11, <1>12
       DEF HostCall, Continue, OpenStep, ReadStep

\* A connection has one stream.
LEMMA OneStream ==
    ASSUME TypeOK, PortsInOrder, NEW s \in Streams, NEW t \in Streams,
           s <= opens, t <= opens, Conn(s) = Conn(t)
    PROVE  s = t
  BY DEF PortsInOrder, Conn

\* A call that writes does so on a stream whose reset is not under way.
LEMMA CallKeepsResets ==
    ASSUME TypeOK, PortsInOrder, CallShape, ResetSent, NothingAfterReset
    PROVE  ResetSent' /\ NothingAfterReset'
  <1>1. to_dev \in Seq(HostFrames) /\ Len(to_dev) \in Nat
    BY LenProperties DEF TypeOK
  <1>2. opens' = opens /\ \A s \in Streams : Conn(s)' = Conn(s) /\ (Settled(s) => Settled(s)')
    BY DEF CallShape, Conn
  <1>3. CASE to_dev' = to_dev \/ to_dev' = <<>>
    BY <1>2, <1>3 DEF ResetSent, NothingAfterReset
  <1>4. ASSUME NEW s \in Streams, s <= opens, ~Settled(s), Writes(s)
        PROVE  ResetSent' /\ NothingAfterReset'
    <2>1. PICK f \in HostFrames :
              to_dev' = Append(to_dev, f) /\ f.conn = Conn(s) /\ (f.flags = "RST" => Settled(s)')
      BY <1>4 DEF Writes
    <2>2. ASSUME NEW i \in 1 .. Len(to_dev')
          PROVE  \/ i \in 1 .. Len(to_dev) /\ to_dev'[i] = to_dev[i]
                 \/ i = Len(to_dev) + 1 /\ to_dev'[i] = f
      BY <1>1, <2>1, AppendIndex
    <2>3. ASSUME NEW i \in 1 .. Len(to_dev), to_dev[i].flags = "RST"
          PROVE  to_dev[i].conn # Conn(s)
      BY <1>4, <2>3 DEF ResetSent
    <2>4. ResetSent'
      <3> SUFFICES ASSUME NEW i \in 1 .. Len(to_dev'), to_dev'[i].flags = "RST",
                          NEW t \in Streams, t <= opens, to_dev'[i].conn = Conn(t)
                   PROVE  Settled(t)'
        BY <1>2 DEF ResetSent
      <3>1. CASE i \in 1 .. Len(to_dev) /\ to_dev'[i] = to_dev[i]
        BY <1>2, <3>1 DEF ResetSent
      <3>2. CASE to_dev'[i] = f
        <4>1. t = s
          BY <1>4, <2>1, <3>2, OneStream
        <4> QED
          BY <2>1, <3>2, <4>1
      <3> QED
        BY <2>2, <3>1, <3>2
    <2>5. NothingAfterReset'
      <3> SUFFICES ASSUME NEW i \in 1 .. Len(to_dev'), NEW j \in 1 .. Len(to_dev'),
                          i < j, to_dev'[i].flags = "RST"
                   PROVE  to_dev'[j].conn # to_dev'[i].conn
        BY DEF NothingAfterReset
      <3>1. i \in 1 .. Len(to_dev) /\ to_dev'[i] = to_dev[i]
        BY <1>1, <2>2
      <3>2. CASE j \in 1 .. Len(to_dev) /\ to_dev'[j] = to_dev[j]
        BY <3>1, <3>2 DEF NothingAfterReset
      <3>3. CASE to_dev'[j] = f
        BY <2>1, <2>3, <3>1, <3>3
      <3> QED
        BY <2>2, <3>2, <3>3
    <2> QED
      BY <2>4, <2>5
  <1> QED
    BY <1>3, <1>4 DEF CallShape

\* The next frame is for stream s.
FrameFor(s) == to_host # <<>> /\ to_host[1].conn = Conn(s)

\* While the cable is in, open ends with a frame of its connection or leaves its port
\* behind, and a stream is done with on a reset, with one, or without one that was due.
UpShape ==
    /\ LinkUp
    /\ op' = "open" => op = "open" /\ cur' = cur /\ to_dev' = to_dev
    /\ op = "open" => op' = "open" \/ FrameFor(cur) \/ cur \in stranded'
    /\ stranded \subseteq stranded'
    /\ to_dev' = to_dev \/ \E f \in HostFrames : to_dev' = Append(to_dev, f)
    /\ \A s \in Streams : phase'[s] = "failed" =>
           \/ phase[s] = "failed"
           \/ op = "open" /\ s = cur /\ FrameFor(s) /\ to_host[1].flags # "SYNACK"
           \/ ResetUnderWay(Conn(s))'
           \/ s \in stranded'
    /\ \A s \in Streams : closed_'[s] =>
           \/ closed_[s]
           \/ FrameFor(s) /\ to_host[1].flags = "RST"
           \/ ResetUnderWay(Conn(s))'
           \/ s \in stranded'

\* What a call can do while the cable is in.
LEMMA UpCall ==
    ASSUME TypeOK, HostCall, LinkUp'
    PROVE  UpShape
  <1> USE DEF vars, session, connection, names, stream, caller, device, LinkUp, UpShape
  <1>1. cur \in Streams
    BY DEF TypeOK
  <1>2. Received => Frame = to_host[1] /\ to_host # <<>>
    BY DEF Received, Frame, TypeOK
  <1>3. ASSUME NEW c \in Conns, NEW flags \in Flags, NEW seq \in Nat, NEW ack \in Nat,
               NEW len \in Nat, Sent(c, flags, seq, ack, len)
        PROVE  \E f \in HostFrames : to_dev' = Append(to_dev, f) /\ f.conn = c /\ f.flags = flags
    <2>1. HostFrame(c, flags, seq, ack, len, mux_tx_seq_) \in HostFrames
      BY DEF TypeOK, HostFrame, HostFrames
    <2> QED
      BY <1>3, <2>1 DEF Sent, HostFrame
  <1>4. CASE OpenSkips \/ ReadSkips
    BY <1>4 DEF OpenSkips, ReadSkips, Received
  <1>a. CASE ReadTimesOut \/ ReadAckFails \/ WriteFails
    <2>1. op # "open" /\ op' # "open" /\ UNCHANGED <<to_dev, phase, closed_, link, stranded>>
      BY <1>a
         DEF ReadTimesOut, ReadAckFails, WriteFails, ReadFrame, Reading, ReceiveFails, SendFails,
             Fail, Return
    <2> QED
      BY <2>1
  <1>b. CASE OpenTimesOut
    <2>1. /\ op' = "idle" /\ UNCHANGED <<to_dev, closed_, link>>
          /\ phase' = [phase EXCEPT ![cur] = "failed"]
          /\ stranded' = stranded \cup {cur}
      BY <1>b DEF OpenTimesOut, OpenGivesUp, Return, ReceiveFails
    <2> QED
      BY <2>1 DEF TypeOK
  <1>5. CASE OpenAckFails
    <2> DEFINE rst == HostFrame(Conn(cur), "RST", 1, Frame.seq + 1, 0, NextMux(mux_tx_seq_))
    <2>1. /\ op' = "idle" /\ FrameFor(cur) /\ link' = link
          /\ UNCHANGED <<local_port_, remote_port_>>
          /\ phase' = [phase EXCEPT ![cur] = "failed"]
          /\ closed_' = [closed_ EXCEPT ![cur] = TRUE]
          /\ \/ to_dev' = Append(to_dev, rst) /\ stranded' = stranded
             \/ to_dev' = to_dev /\ stranded' = stranded \cup {cur}
      BY <1>2, <1>5 DEF OpenAckFails, OpenAnswered, OpenGivesUp, Return, IsFor, FrameFor
    <2>2. Frame \in DevFrames
      BY <1>5, ReceivedType DEF OpenAckFails, OpenAnswered
    <2>3. rst \in HostFrames
      <3>1. Frame.seq + 1 \in Nat
        BY <2>2 DEF DevFrames
      <3> QED
        BY <1>1, <3>1, ConnType, CounterTypes DEF TypeOK, HostFrame, HostFrames, Flags
    <2>4. rst.conn = Conn(cur) /\ rst.flags = "RST"
      BY DEF HostFrame
    <2> HIDE DEF rst
    <2>5. to_dev' = Append(to_dev, rst) => ResetUnderWay(Conn(cur))'
      <3>1. to_dev \in Seq(HostFrames)
        BY DEF TypeOK
      <3>2. ASSUME to_dev' = Append(to_dev, rst)
            PROVE  Len(to_dev) + 1 \in 1 .. Len(to_dev') /\ to_dev'[Len(to_dev) + 1] = rst
        BY <2>3, <3>1, <3>2, AppendFacts, LenProperties
      <3>3. Conn(cur)' = Conn(cur)
        BY <1>5 DEF OpenAckFails, OpenAnswered, OpenGivesUp, Return, Conn
      <3> QED
        BY <2>4, <3>2, <3>3 DEF ResetUnderWay
    <2>6. cur' = cur
      BY <1>5 DEF OpenAckFails, OpenGivesUp, Return
    <2>7. \A s \in Streams : s # cur => phase'[s] = phase[s] /\ closed_'[s] = closed_[s]
      BY <2>1 DEF TypeOK
    <2>8. ResetUnderWay(Conn(cur))' \/ cur \in stranded'
      BY <2>1, <2>5
    <2> QED
      BY <1>1, <2>1, <2>3, <2>6, <2>7, <2>8
  <1>6. CASE OpenRefused
    <2>1. /\ op = "open" /\ op' = "idle" /\ FrameFor(cur) /\ to_host[1].flags # "SYNACK"
          /\ phase' = [phase EXCEPT ![cur] = "failed"]
          /\ UNCHANGED <<to_dev, closed_, link, stranded>>
      BY <1>2, <1>6 DEF OpenRefused, OpenGivesUp, Return, IsFor, FrameFor
    <2> QED
      BY <2>1 DEF TypeOK
  <1>7. CASE OpenSucceeds
    <2>1. /\ op = "open" /\ op' = "idle" /\ FrameFor(cur)
          /\ phase' = [phase EXCEPT ![cur] = "open"]
          /\ UNCHANGED <<closed_, link, stranded>>
          /\ Sent(Conn(cur), "ACK", 1, Frame.seq + 1, 0)
      BY <1>2, <1>7 DEF OpenSucceeds, OpenAnswered, Return, IsFor, FrameFor, Sent
    <2>2. Frame \in DevFrames
      BY <1>7, ReceivedType DEF OpenSucceeds, OpenAnswered
    <2>3. \E f \in HostFrames : to_dev' = Append(to_dev, f)
      BY <1>1, <1>3, <2>1, <2>2, ConnType DEF DevFrames, Flags
    <2> QED
      BY <2>1, <2>3 DEF TypeOK
  <1>8. CASE ReadReset
    <2>1. /\ op # "open" /\ op' # "open" /\ FrameFor(cur) /\ to_host[1].flags = "RST"
          /\ closed_' = [closed_ EXCEPT ![cur] = TRUE]
          /\ UNCHANGED <<to_dev, phase, link, stranded>>
      BY <1>2, <1>8 DEF ReadReset, Reading, Fail, Return, IsFor, IsReset, FrameFor
    <2> QED
      BY <2>1 DEF TypeOK
  <1>9. CASE ReadTakes
    <2>1. /\ op # "open" /\ op' # "open" /\ UNCHANGED <<closed_, phase, link, stranded>>
          /\ Sent(Conn(cur), "ACK", tx_seq_[cur], AckOf(Frame), 0)
      BY <1>9 DEF ReadTakes, ReadFrame, Reading, Return, Sent
    <2>2. Frame \in DevFrames
      BY <1>9, ReceivedType DEF ReadTakes, ReadFrame
    <2>3. AckOf(Frame) \in Nat /\ tx_seq_[cur] \in Nat
      BY <1>1, <2>2 DEF DevFrames, AckOf, TypeOK
    <2>4. \E f \in HostFrames : to_dev' = Append(to_dev, f)
      BY <1>1, <1>3, <2>1, <2>3, ConnType DEF Flags
    <2> QED
      BY <2>1, <2>4
  <1>10. CASE WriteChunk
    <2> DEFINE chunk == Smaller(MaxPayload, want)
    <2>1. /\ op # "open" /\ op' # "open" /\ UNCHANGED <<closed_, phase, link, stranded>>
          /\ Sent(Conn(cur), "ACK", tx_seq_[cur], tx_ack_[cur], chunk)
      BY <1>10 DEF WriteChunk, Return, Sent
    <2>2. chunk \in Nat /\ tx_seq_[cur] \in Nat /\ tx_ack_[cur] \in Nat
      BY <1>1, MuxLinkAssumption DEF Smaller, TypeOK
    <2> HIDE DEF chunk
    <2>3. \E f \in HostFrames : to_dev' = Append(to_dev, f)
      BY <1>1, <1>3, <2>1, <2>2, ConnType DEF Flags
    <2> QED
      BY <2>1, <2>3
  <1>11. ASSUME NEW s \in Streams, Close(s)
         PROVE  UpShape
    <2>1. /\ op # "open" /\ op' = op /\ phase' = [phase EXCEPT ![s] = "closed"]
          /\ closed_' = [closed_ EXCEPT ![s] = TRUE]
          /\ UNCHANGED <<local_port_, remote_port_>>
          /\ \/ closed_[s] /\ UNCHANGED <<to_dev, link, stranded>>
             \/ stranded' = stranded \cup {s} /\ UNCHANGED <<to_dev, link>>
             \/ /\ Sent(Conn(s), "RST", tx_seq_[s], tx_ack_[s], 0)
                /\ UNCHANGED <<link, stranded>>
      BY <1>11 DEF Close, SkipsReset, Sent, SendFails
    <2>2. CASE closed_[s] /\ UNCHANGED <<to_dev, link, stranded>>
      <3>1. closed_[s] /\ \A t \in Streams : closed_'[t] => closed_[t]
        BY <2>1, <2>2 DEF TypeOK
      <3> QED
        BY <2>1, <2>2, <3>1 DEF TypeOK
    <2>3. CASE stranded' = stranded \cup {s} /\ UNCHANGED <<to_dev, link>>
      BY <2>1, <2>3 DEF TypeOK
    <2>4. CASE Sent(Conn(s), "RST", tx_seq_[s], tx_ack_[s], 0) /\ UNCHANGED <<link, stranded>>
      <3>1. tx_seq_[s] \in Nat /\ tx_ack_[s] \in Nat
        BY DEF TypeOK
      <3>2. PICK f \in HostFrames :
                to_dev' = Append(to_dev, f) /\ f.conn = Conn(s) /\ f.flags = "RST"
        BY <1>3, <2>4, <3>1, ConnType DEF Flags
      <3>3. to_dev \in Seq(HostFrames)
        BY DEF TypeOK
      <3>4. Len(to_dev) + 1 \in 1 .. Len(to_dev') /\ to_dev'[Len(to_dev) + 1] = f
        BY <3>2, <3>3, AppendFacts, LenProperties
      <3>5. ResetUnderWay(Conn(s))'
        BY <2>1, <3>2, <3>4 DEF ResetUnderWay, Conn
      <3>6. \A t \in Streams : t # s => closed_'[t] = closed_[t]
        BY <2>1 DEF TypeOK
      <3>7. \A t \in Streams : phase'[t] = "failed" => phase[t] = "failed"
        BY <2>1 DEF TypeOK
      <3> QED
        BY <2>1, <2>4, <3>2, <3>5, <3>6, <3>7
    <2> QED
      BY <2>1, <2>2, <2>3, <2>4
  <1>12. CASE \E s \in Streams, n \in 1 .. MaxUnits : ReadExact(s, n) \/ Write(s, n)
    <2>1. op # "open" /\ op' # "open" /\ UNCHANGED <<to_dev, closed_, phase, link, stranded>>
      BY <1>12 DEF ReadExact, Write, MayCall
    <2> QED
      BY <2>1
  <1>13. CASE \E s \in Streams : ReadAll(s)
    BY <1>13 DEF ReadAll, MayCall
  <1>14. CASE ConnClose \/ Drop
    BY <1>14 DEF ConnClose, Drop
  <1> QED
    BY <1>4, <1>a, <1>b, <1>5, <1>6, <1>7, <1>8, <1>9, <1>10, <1>11, <1>12, <1>13, <1>14
       DEF HostCall, Continue, OpenStep, ReadStep, WriteStep

\* A step of a call loses no reset and sends nothing after one.
LEMMA CallKeepsCloses ==
    ASSUME TypeOK, Calling, PortsInOrder, CallShape, HostCall, Closes
    PROVE  Closes'
  <1>1. /\ to_dev \in Seq(HostFrames) /\ Len(to_dev) \in Nat
        /\ to_host \in Seq(DevFrames) /\ Len(to_host) \in Nat
    BY LenProperties DEF TypeOK
  <1>2. \A s \in Streams : Conn(s)' = Conn(s)
    BY DEF CallShape, Conn
  <1>3. \A c : Live(c)' <=> Live(c)
    BY DEF CallShape, Live
  <1>4. PICK d \in {0, 1} : \A j \in 1 .. Len(to_host') :
                j + d \in 1 .. Len(to_host) /\ to_host'[j] = to_host[j + d]
    BY Taken DEF CallShape
  <1>5. cur \in Streams
    BY DEF TypeOK
  <1>6. \A s \in Streams : FrameFor(s) => 1 \in 1 .. Len(to_host)
    BY <1>1, LenProperties, EmptySeq DEF FrameFor
  <1>7. ResetSent' /\ NothingAfterReset'
    BY CallKeepsResets DEF Closes
  <1>8. ASSUME NEW i \in 1 .. Len(to_dev'), to_dev'[i].flags = "SYN"
        PROVE  i \in 1 .. Len(to_dev) /\ to_dev'[i] = to_dev[i]
    <2>1. CASE to_dev' = to_dev \/ to_dev' = <<>>
      BY <2>1
    <2>2. ASSUME NEW f \in HostFrames, f.flags # "SYN", to_dev' = Append(to_dev, f)
          PROVE  i \in 1 .. Len(to_dev) /\ to_dev'[i] = to_dev[i]
      BY <1>1, <1>8, <2>2, AppendIndex
    <2> QED
      BY <2>1, <2>2 DEF CallShape, Writes
  <1>9. SynUnanswered'
    <2> SUFFICES ASSUME NEW i \in 1 .. Len(to_dev'), to_dev'[i].flags = "SYN",
                        NEW e, e = to_dev'[i].conn
                 PROVE  /\ \A j \in 1 .. Len(to_host') : to_host'[j].conn # to_dev'[i].conn
                        /\ LinkUp' => Behind(e)'
      BY DEF SynUnanswered, Behind
    <2>1. /\ i \in 1 .. Len(to_dev) /\ to_dev'[i] = to_dev[i]
          /\ \A j \in 1 .. Len(to_host) : to_host[j].conn # to_dev[i].conn
          /\ LinkUp => Behind(to_dev[i].conn)
      BY <1>8 DEF Closes, SynUnanswered
    <2>2. \A j \in 1 .. Len(to_host') : to_host'[j].conn # to_dev'[i].conn
      BY <1>4, <2>1
    <2>3. ASSUME LinkUp' PROVE Behind(e)'
      <3>1. UpShape /\ stranded \subseteq Streams
        BY <2>3, UpCall DEF TypeOK
      <3>2. CASE op = "open" /\ to_dev[i].conn = Conn(cur)
        <4>1. ~FrameFor(cur)
          BY <1>5, <1>6, <2>1, <3>2 DEF FrameFor
        <4>2. op' = "open" \/ cur \in stranded'
          BY <3>1, <3>2, <4>1 DEF UpShape
        <4>3. CASE op' = "open"
          <5>1. cur' = cur
            BY <3>1, <4>3 DEF UpShape
          <5>2. Conn(cur)' = Conn(cur)
            BY <5>1 DEF CallShape, Conn
          <5> QED
            BY <2>1, <3>2, <4>3, <5>2 DEF Behind
        <4>4. CASE cur \in stranded'
          BY <1>2, <1>5, <2>1, <3>2, <4>4 DEF Behind, Conn
        <4> QED
          BY <4>2, <4>3, <4>4
      <3>3. CASE \E s \in stranded : to_dev[i].conn = Conn(s)
        BY <1>2, <2>1, <3>1, <3>3 DEF Behind, UpShape, Conn
      <3> QED
        BY <2>1, <3>1, <3>2, <3>3 DEF Behind, UpShape
    <2> QED
      BY <2>2, <2>3
  <1>10. ResetHeard'
    BY <1>3, <1>4 DEF Closes, ResetHeard
  <1>11. Opening'
    <2> SUFFICES ASSUME LinkUp', op' = "open" PROVE Opening!2'
      BY DEF Opening
    <2>1. UpShape
      BY UpCall
    <2>2. LinkUp /\ op = "open" /\ cur' = cur /\ to_dev' = to_dev
      BY <2>1 DEF UpShape
    <2>3. Conn(cur)' = Conn(cur) /\ dev_state' = dev_state
      BY <2>2 DEF CallShape, Conn
    <2> QED
      BY <1>3, <1>4, <2>2, <2>3 DEF Closes, Opening
  <1>12. GivenBack'
    <2> SUFFICES ASSUME LinkUp', NEW s \in Streams, s \notin stranded', Live(Conn(s)),
                        phase'[s] = "failed" \/ closed_'[s]
                 PROVE  ResetUnderWay(Conn(s))'
      BY <1>2, <1>3 DEF GivenBack
    <2>1. UpShape
      BY UpCall
    <2>2. s \notin stranded /\ LinkUp
      BY <2>1 DEF UpShape
    <2>3. ResetUnderWay(Conn(s)) => ResetUnderWay(Conn(s))'
      <3>1. ASSUME NEW f \in HostFrames, to_dev' = Append(to_dev, f), NEW i \in 1 .. Len(to_dev)
            PROVE  i \in 1 .. Len(to_dev') /\ to_dev'[i] = to_dev[i]
        BY <1>1, <3>1, AppendFacts
      <3>2. CASE to_dev' = to_dev
        BY <1>2, <3>2 DEF ResetUnderWay
      <3>3. ASSUME NEW f \in HostFrames, to_dev' = Append(to_dev, f)
            PROVE  ResetUnderWay(Conn(s)) => ResetUnderWay(Conn(s))'
        BY <1>2, <3>1, <3>3 DEF ResetUnderWay
      <3> QED
        BY <2>1, <3>2, <3>3 DEF UpShape
    <2>4. CASE phase[s] = "failed" \/ closed_[s]
      BY <2>2, <2>3, <2>4 DEF Closes, GivenBack
    <2>5. ASSUME op = "open", s = cur, FrameFor(s), to_host[1].flags # "SYNACK"
          PROVE  FALSE
      BY <1>6, <2>2, <2>5 DEF Closes, Opening, FrameFor
    <2>6. ASSUME FrameFor(s), to_host[1].flags = "RST" PROVE FALSE
      BY <1>6, <2>6 DEF Closes, ResetHeard, FrameFor
    <2> QED
      BY <2>1, <2>4, <2>5, <2>6 DEF UpShape
  <1> QED
    BY <1>7, <1>9, <1>10, <1>11, <1>12 DEF Closes
-----------------------------------------------------------------------------
(* The SYN of Stream::open: its connection was never used.                 *)

SynShape(new, c) ==
    /\ Conn(new)' = c /\ Fresh(c)
    /\ \A s \in Streams : s # new => Conn(s)' = Conn(s) /\ phase'[s] = phase[s]
    /\ \A s \in Streams : s <= opens' => s <= opens \/ s = new
    /\ UNCHANGED <<to_host, dev_state, closed_, stranded>>
    /\ phase[new] = "none" /\ new \notin stranded
    /\ \/ to_dev' = to_dev
       \/ /\ \E f \in HostFrames : f.conn = c /\ f.flags = "SYN" /\ to_dev' = Append(to_dev, f)
          /\ op' = "open" /\ cur' = new
    /\ op = "idle" /\ (op' = "open" => cur' = new) /\ (LinkUp' => LinkUp)

\* Stream::open takes a port that nobody has used.
LEMMA OpenSynShape ==
    ASSUME TypeOK, Calling, PortsInOrder, NoWrap', NEW svc \in Services, OpenSyn(svc)
    PROVE  \E new \in Streams, c \in Conns : SynShape(new, c)
  <1> USE DEF vars, session, connection, names, stream, caller, device
  <1>1. opens + 1 \in Streams
    BY MuxLinkAssumption DEF OpenSyn, TypeOK, Streams
  <1>2. PICK new \in Streams : new = opens + 1
    BY <1>1
  <1>3. PICK c \in Conns : c = <<next_port_, svc>>
    BY DEF TypeOK, Conns
  <1>4. /\ opens \in Nat /\ opens' = new /\ next_port_ = new /\ op = "idle"
    BY <1>2 DEF NoWrap, OpenSyn, TypeOK, Streams, PortsInOrder
  <1>5. Fresh(c) /\ phase[new] = "none" /\ new \notin stranded
    BY <1>2, <1>3, <1>4 DEF Fresh, Calling
  <1>6. /\ local_port_' = [local_port_ EXCEPT ![new] = new]
        /\ remote_port_' = [remote_port_ EXCEPT ![new] = svc]
        /\ UNCHANGED <<to_host, dev_state, closed_, stranded>>
        /\ \/ /\ Sent(c, "SYN", 0, 0, 0)
              /\ phase' = [phase EXCEPT ![new] = "opening"]
              /\ op' = "open" /\ cur' = new
           \/ SendFails /\ phase' = [phase EXCEPT ![new] = "failed"] /\ op' = op
    BY <1>2, <1>3, <1>4 DEF OpenSyn
  <1>7. Conn(new)' = c /\ \A s \in Streams : s # new => Conn(s)' = Conn(s) /\ phase'[s] = phase[s]
    BY <1>3, <1>4, <1>6 DEF Conn, TypeOK
  <1>8. \A s \in Streams : s <= opens' => s <= opens \/ s = new
    BY <1>2, <1>4 DEF Streams
  <1>9. HostFrame(c, "SYN", 0, 0, 0, mux_tx_seq_) \in HostFrames
    BY DEF TypeOK, HostFrame, HostFrames, Flags
  <1>10. \/ to_dev' = to_dev
         \/ /\ \E f \in HostFrames : f.conn = c /\ f.flags = "SYN" /\ to_dev' = Append(to_dev, f)
            /\ op' = "open" /\ cur' = new
    BY <1>6, <1>9 DEF Sent, SendFails, HostFrame
  <1>11. (op' = "open" => cur' = new) /\ (LinkUp' => LinkUp)
    BY <1>4, <1>6 DEF Sent, SendFails, LinkUp
  <1>12. SynShape(new, c)
    BY <1>4, <1>5, <1>6, <1>7, <1>8, <1>10, <1>11 DEF SynShape
  <1> QED
    BY <1>12

\* The SYN of a new stream disturbs no older connection.
LEMMA SynKeepsCloses ==
    ASSUME TypeOK, Calling, PortsInOrder, FreshUnused, Closes,
           NEW new \in Streams, NEW c \in Conns, SynShape(new, c)
    PROVE  Closes'
  <1>1. to_dev \in Seq(HostFrames) /\ Len(to_dev) \in Nat
    BY LenProperties DEF TypeOK
  <1>2. /\ dev_state[c] = "none"
        /\ \A i \in 1 .. Len(to_dev) : to_dev[i].conn # c
        /\ \A j \in 1 .. Len(to_host) : to_host[j].conn # c
    BY DEF SynShape, FreshUnused
  <1>3. /\ Conn(new)' = c /\ ~closed_[new]
        /\ \A s \in Streams : s # new => Conn(s)' = Conn(s) /\ phase'[s] = phase[s]
        /\ \A s \in Streams : s <= opens' => s <= opens \/ s = new
        /\ UNCHANGED <<to_host, dev_state, closed_, stranded>>
        /\ stranded \subseteq Streams /\ new \notin stranded
    BY DEF SynShape, Calling, TypeOK
  <1>4. ASSUME NEW i \in 1 .. Len(to_dev')
        PROVE  \/ i \in 1 .. Len(to_dev) /\ to_dev'[i] = to_dev[i]
               \/ i = Len(to_dev) + 1 /\ to_dev'[i].conn = c /\ to_dev'[i].flags = "SYN"
    <2>1. CASE to_dev' = to_dev
      BY <2>1
    <2>2. ASSUME NEW f \in HostFrames, f.conn = c, f.flags = "SYN", to_dev' = Append(to_dev, f)
          PROVE  \/ i \in 1 .. Len(to_dev) /\ to_dev'[i] = to_dev[i]
                 \/ i = Len(to_dev) + 1 /\ to_dev'[i].conn = c /\ to_dev'[i].flags = "SYN"
      BY <1>1, <2>2, AppendIndex
    <2> QED
      BY <2>1, <2>2 DEF SynShape
  <1>5. ASSUME NEW i \in 1 .. Len(to_dev)
        PROVE  i \in 1 .. Len(to_dev') /\ to_dev'[i] = to_dev[i]
    <2>1. CASE to_dev' = to_dev
      BY <2>1
    <2>2. ASSUME NEW f \in HostFrames, to_dev' = Append(to_dev, f)
          PROVE  i \in 1 .. Len(to_dev') /\ to_dev'[i] = to_dev[i]
      BY <1>1, <2>2, AppendFacts
    <2> QED
      BY <2>1, <2>2 DEF SynShape
  <1>6. \A d : Live(d)' <=> Live(d)
    BY <1>3 DEF Live
  <1>7. ResetSent'
    <2> SUFFICES ASSUME NEW i \in 1 .. Len(to_dev'), to_dev'[i].flags = "RST",
                        NEW s \in Streams, s <= opens', to_dev'[i].conn = Conn(s)'
                 PROVE  Settled(s)'
      BY DEF ResetSent
    <2>1. i \in 1 .. Len(to_dev) /\ to_dev'[i] = to_dev[i]
      BY <1>4
    <2>2. s # new /\ s <= opens
      BY <1>2, <1>3, <2>1
    <2>3. Settled(s)
      BY <1>3, <2>1, <2>2 DEF Closes, ResetSent
    <2> QED
      BY <1>3, <2>2, <2>3 DEF Settled
  <1>8. NothingAfterReset'
    <2> SUFFICES ASSUME NEW i \in 1 .. Len(to_dev'), NEW j \in 1 .. Len(to_dev'),
                        i < j, to_dev'[i].flags = "RST"
                 PROVE  to_dev'[j].conn # to_dev'[i].conn
      BY DEF NothingAfterReset
    <2>1. i \in 1 .. Len(to_dev) /\ to_dev'[i] = to_dev[i]
      BY <1>4
    <2> QED
      BY <1>2, <1>4, <2>1 DEF Closes, NothingAfterReset
  <1>9. SynUnanswered'
    <2> SUFFICES ASSUME NEW i \in 1 .. Len(to_dev'), to_dev'[i].flags = "SYN",
                        NEW e, e = to_dev'[i].conn
                 PROVE  /\ \A j \in 1 .. Len(to_host') : to_host'[j].conn # to_dev'[i].conn
                        /\ LinkUp' => Behind(e)'
      BY DEF SynUnanswered, Behind
    <2>1. CASE i \in 1 .. Len(to_dev) /\ to_dev'[i] = to_dev[i]
      <3>1. /\ \A j \in 1 .. Len(to_host) : to_host[j].conn # to_dev[i].conn
            /\ LinkUp => \E s \in stranded : to_dev[i].conn = Conn(s)
        BY <2>1 DEF Closes, SynUnanswered, SynShape, Behind
      <3>2. \A s \in stranded : Conn(s)' = Conn(s)
        BY <1>3
      <3>3. LinkUp' => Behind(e)'
        BY <1>3, <2>1, <3>1, <3>2 DEF Behind, SynShape
      <3> QED
        BY <1>3, <2>1, <3>1, <3>3
    <2>2. CASE to_dev'[i].conn = c /\ i \notin 1 .. Len(to_dev)
      <3>1. op' = "open" /\ cur' = new
        BY <2>2 DEF SynShape
      <3>2. Conn(cur)' = c
        BY <1>3, <3>1 DEF Conn
      <3> QED
        BY <1>2, <1>3, <2>2, <3>1, <3>2 DEF Behind
    <2> QED
      BY <1>1, <1>4, <2>1, <2>2
  <1>10. ResetHeard'
    BY <1>3, <1>6 DEF Closes, ResetHeard
  <1>11. Opening'
    <2> SUFFICES ASSUME LinkUp', op' = "open" PROVE Opening!2'
      BY DEF Opening
    <2>1. Conn(cur)' = c
      <3>1. cur' = new
        BY DEF SynShape
      <3> QED
        BY <1>3, <3>1 DEF Conn
    <2> QED
      BY <1>2, <1>3, <1>4, <2>1
  <1>12. GivenBack'
    <2> SUFFICES ASSUME LinkUp', NEW s \in Streams, s \notin stranded, Live(Conn(s)'),
                        phase'[s] = "failed" \/ closed_[s]
                 PROVE  ResetUnderWay(Conn(s))'
      BY <1>3, <1>6 DEF GivenBack
    <2>1. s # new
      BY <1>2, <1>3 DEF Live
    <2>2. ResetUnderWay(Conn(s))
      BY <1>3, <2>1 DEF Closes, GivenBack, SynShape
    <2> QED
      BY <1>3, <1>5, <2>1, <2>2 DEF ResetUnderWay
  <1> QED
    BY <1>7, <1>8, <1>9, <1>10, <1>11, <1>12 DEF Closes
-----------------------------------------------------------------------------
(* The device's side.                                                      *)

\* A step of the device concerns one connection.  It takes the next frame of it or
\* acts on one that is established, and says at most one thing.
TakesFrame(c) ==
    /\ to_dev # <<>> /\ to_dev' = Tail(to_dev) /\ c \in Conns /\ to_dev[1].conn = c
    /\ Live(c)' => Live(c) \/ to_dev[1].flags = "SYN"
    /\ to_dev[1].flags = "SYN" => dev_state'[c] \in {"none", "synrcvd"}
    /\ to_dev[1].flags = "RST" => ~Live(c)'

ActsAlone(c) ==
    /\ to_dev' = to_dev
    /\ c \in Conns => dev_state[c] = "est"
    /\ c = NoConn => dev_state' = dev_state

Says(c) ==
    \E f \in DevFrames :
        /\ to_host' = Append(to_host, f)
        /\ f.conn = c
        /\ f.flags = "RST" => c \in Conns /\ ~Live(c)'
        /\ f.flags # "SYNACK" /\ c \in Conns /\ Live(c)' => dev_state'[c] = "est"

StepOf(c) ==
    /\ \A d \in Conns \ {c} : dev_state'[d] = dev_state[d]
    /\ TakesFrame(c) \/ ActsAlone(c)
    /\ to_host' = to_host \/ Says(c)

\* What the device puts on the wire for connection c is one frame of c.
LEMMA SaysFrame ==
    ASSUME NEW c \in Conns \cup {NoConn}, NEW flags \in Flags, NEW seq \in Nat,
           NEW data \in Seq(Units), to_host' = Append(to_host, DevFrame(c, flags, seq, data)),
           flags = "RST" => c \in Conns /\ ~Live(c)',
           flags # "SYNACK" /\ c \in Conns /\ Live(c)' => dev_state'[c] = "est"
    PROVE  Says(c)
  <1>1. DevFrame(c, flags, seq, data) \in DevFrames
    BY DEF DevFrame, DevFrames
  <1>2. DevFrame(c, flags, seq, data).conn = c /\ DevFrame(c, flags, seq, data).flags = flags
    BY DEF DevFrame
  <1> QED
    BY <1>1, <1>2 DEF Says

\* Each step of the device is about one connection.
LEMMA DeviceStep ==
    ASSUME TypeOK, SynFirst, Device
    PROVE  \E c \in Conns \cup {NoConn} : StepOf(c)
  <1> USE DEF vars, session, connection, names, stream, caller, device
  <1>1. <<>> \in Seq(Units)
    BY EmptySeq
  <1>2. CASE DevTurn
    <2>1. to_dev \in Seq(HostFrames) /\ to_dev # <<>> /\ to_dev' = Tail(to_dev)
      BY <1>2 DEF DevTurn, DevSyn, DevRefuses, DevData, DevEnds, DevTakes, TypeOK
    <2>2. 1 \in 1 .. Len(to_dev) /\ Head(to_dev) = to_dev[1] /\ to_dev[1] \in HostFrames
      BY <2>1, HeadTailProperties, LenProperties
    <2>3. PICK c \in Conns : c = to_dev[1].conn
      BY <2>2 DEF HostFrames
    <2>4. PICK flags \in Flags : flags = to_dev[1].flags
      BY <2>2 DEF HostFrames
    <2>5. dev_sent[c] + 1 \in Nat /\ 0 \in Nat
      BY DEF TypeOK
    <2>6. flags = "SYN" => dev_state[c] = "none" /\ ~Live(c)
      BY <2>2, <2>3, <2>4 DEF SynFirst, Live
    <2>7. \A d \in Conns \ {c} : dev_state'[d] = dev_state[d]
      <3>1. dev_state' = dev_state \/ \E x : dev_state' = [dev_state EXCEPT ![c] = x]
        BY <1>2, <2>2, <2>3 DEF DevTurn, DevSyn, DevRefuses, DevData, DevEnds
      <3> QED
        BY <3>1 DEF TypeOK
    <2>8. CASE DevSyn
      <3>1. flags = "SYN"
        BY <2>2, <2>4, <2>8 DEF DevSyn
      <3>2. CASE dev_state'[c] = "synrcvd" /\ Answers(DevFrame(c, "SYNACK", 0, <<>>))
        <4>1. to_host' = to_host \/ Says(c)
          BY <1>1, <2>5, <3>2, SaysFrame DEF Answers, Flags
        <4> QED
          BY <2>1, <2>3, <2>4, <2>7, <3>1, <3>2, <4>1 DEF StepOf, TakesFrame
      <3>3. CASE dev_state' = dev_state /\ \E x \in {"RST", "ACK"} : Answers(DevFrame(c, x, 0, <<>>))
        <4>1. ~Live(c)' /\ dev_state'[c] = "none"
          BY <2>6, <3>1, <3>3 DEF Live
        <4>2. to_host' = to_host \/ Says(c)
          BY <1>1, <2>5, <3>3, <4>1, SaysFrame DEF Answers, Flags
        <4> QED
          BY <2>1, <2>3, <2>4, <2>7, <4>1, <4>2 DEF StepOf, TakesFrame
      <3> QED
        BY <2>2, <2>3, <2>8, <3>2, <3>3 DEF DevSyn, TypeOK
    <2>9. CASE DevRefuses
      <3>1. dev_state'[c] = "reset" /\ flags # "SYN" /\ flags # "RST"
        BY <2>2, <2>3, <2>4, <2>6, <2>9 DEF DevRefuses, TypeOK
      <3>2. ~Live(c)'
        BY <3>1 DEF Live
      <3>3. Answers(DevFrame(c, "RST", dev_sent[c] + 1, <<>>))
        BY <2>2, <2>3, <2>9 DEF DevRefuses
      <3>4. to_host' = to_host \/ Says(c)
        BY <1>1, <2>5, <3>2, <3>3, SaysFrame DEF Answers, Flags
      <3> QED
        BY <2>1, <2>3, <2>4, <2>7, <3>1, <3>2, <3>4 DEF StepOf, TakesFrame
    <2>10. CASE DevData
      <3>1. dev_state'[c] = "est" /\ flags = "ACK" /\ Live(c)
        BY <2>2, <2>3, <2>4, <2>10 DEF DevData, TypeOK
      <3>2. to_host' = to_host \/ Answers(DevFrame(c, "ACK", dev_sent[c] + 1, <<>>))
        BY <2>2, <2>3, <2>10 DEF DevData
      <3>3. to_host' = to_host \/ Says(c)
        BY <1>1, <2>5, <3>1, <3>2, SaysFrame DEF Answers
      <3> QED
        BY <2>1, <2>3, <2>4, <2>7, <3>1, <3>3 DEF StepOf, TakesFrame
    <2>11. CASE DevEnds
      <3>1. /\ dev_state'[c] = (IF Live(c) THEN "reset" ELSE dev_state[c])
            /\ flags # "SYN" /\ to_host' = to_host
        BY <2>2, <2>3, <2>4, <2>11 DEF DevEnds, TypeOK
      <3>2. ~Live(c)'
        BY <3>1 DEF Live
      <3> QED
        BY <2>1, <2>3, <2>4, <2>7, <3>1, <3>2 DEF StepOf, TakesFrame
    <2> QED
      BY <1>2, <2>8, <2>9, <2>10, <2>11 DEF DevTurn
  <1>3. ASSUME NEW c \in Conns, DevReset(c)
        PROVE  StepOf(c)
    <2>1. dev_state[c] = "est" /\ dev_state' = [dev_state EXCEPT ![c] = "reset"] /\ to_dev' = to_dev
      BY <1>3 DEF DevReset
    <2>2. dev_state'[c] = "reset" /\ ~Live(c)'
      BY <2>1 DEF TypeOK, Live
    <2>3. dev_sent[c] + 1 \in Nat
      BY DEF TypeOK
    <2>4. Says(c)
      BY <1>1, <1>3, <2>2, <2>3, SaysFrame DEF DevReset, Flags
    <2> QED
      BY <2>1, <2>4, NoConnIsNone DEF StepOf, ActsAlone
  <1>4. ASSUME NEW c \in Conns, NEW n \in 1 .. MaxUnits, DevSend(c, n)
        PROVE  StepOf(c)
    <2> DEFINE data == [k \in 1 .. n |-> <<c, dev_sent[c] + k>>]
    <2>1. dev_state[c] = "est" /\ UNCHANGED <<dev_state, to_dev>>
      BY <1>4 DEF DevSend
    <2>2. n \in Nat /\ dev_sent[c] \in Nat /\ dev_sent[c] + 1 \in Nat
      BY MuxLinkAssumption DEF TypeOK
    <2>3. data \in [1 .. n -> Units]
      BY <2>2 DEF Units
    <2>4. data \in Seq(Units)
      BY <2>2, <2>3
    <2>5. to_host' = Append(to_host, DevFrame(c, "ACK", dev_sent[c] + 1, data))
      BY <1>4 DEF DevSend
    <2> HIDE DEF data
    <2>6. Says(c)
      BY <2>1, <2>2, <2>4, <2>5, SaysFrame DEF Flags
    <2> QED
      BY <2>1, <2>6 DEF StepOf, ActsAlone
  <1>5. CASE DevControl
    <2>1. Says(NoConn)
      BY <1>1, <1>5, NoConnIsNone, SaysFrame DEF DevControl, Flags
    <2>2. StepOf(NoConn)
      BY <1>5, <2>1, NoConnIsNone DEF DevControl, StepOf, ActsAlone
    <2> QED
      BY <2>2
  <1> QED
    BY <1>2, <1>3, <1>4, <1>5 DEF Device

\* The device lets go of a connection before it resets it, and not of another.
LEMMA DeviceKeepsCloses ==
    ASSUME TypeOK, Calling, PortsInOrder, SynFirst, Closes, Device,
           NEW c \in Conns \cup {NoConn}, StepOf(c)
    PROVE  Closes'
  <1>1. /\ to_dev \in Seq(HostFrames) /\ Len(to_dev) \in Nat
        /\ to_host \in Seq(DevFrames) /\ Len(to_host) \in Nat
    BY LenProperties DEF TypeOK
  <1>2. UNCHANGED <<opens, stranded, local_port_, remote_port_, phase, closed_, op, cur, link>>
    BY DEF Device, DevTurn, DevSyn, DevRefuses, DevData, DevEnds, DevTakes, DevSend, DevReset,
           DevControl, session, connection, names, stream, caller
  <1>3. /\ LinkUp' <=> LinkUp
        /\ \A s \in Streams : Conn(s)' = Conn(s) /\ (Settled(s)' <=> Settled(s))
        /\ \A s \in Streams : Conn(s) \in Conns
        /\ Conn(cur)' = Conn(cur) /\ cur \in Streams
        /\ stranded' = stranded /\ stranded \subseteq Streams
        /\ \A e : Behind(e)' <=> Behind(e)
    BY <1>2, ConnType DEF LinkUp, Conn, Settled, Behind, TypeOK
  <1>4. PICK d \in {0, 1} :
            /\ \A i \in 1 .. Len(to_dev') : i + d \in 1 .. Len(to_dev) /\ to_dev'[i] = to_dev[i + d]
            /\ \A i \in 1 .. Len(to_dev) : i > d => i - d \in 1 .. Len(to_dev') /\ to_dev'[i - d] = to_dev[i]
            /\ d = 0 => ActsAlone(c)
            /\ d = 1 => TakesFrame(c) /\ 1 \in 1 .. Len(to_dev)
    <2>1. CASE ActsAlone(c)
      <3>1. to_dev' = to_dev
        BY <2>1 DEF ActsAlone
      <3>2. \A i \in 1 .. Len(to_dev) : i + 0 = i /\ i - 0 = i
        BY <1>1
      <3> QED
        BY <2>1, <3>1, <3>2
    <2>2. CASE TakesFrame(c)
      <3>1. /\ Len(to_dev') = Len(to_dev) - 1
            /\ \A i \in 1 .. Len(to_dev') : i + 1 \in 1 .. Len(to_dev) /\ to_dev'[i] = to_dev[i + 1]
        BY <1>1, <2>2, TailFacts DEF TakesFrame
      <3>2. \A i \in 1 .. Len(to_dev) : i > 1 =>
                i - 1 \in 1 .. Len(to_dev') /\ to_dev'[i - 1] = to_dev[i]
        <4>1. ASSUME NEW i \in 1 .. Len(to_dev), i > 1
              PROVE  i - 1 \in 1 .. Len(to_dev') /\ (i - 1) + 1 = i
          BY <1>1, <3>1, <4>1
        <4> QED
          BY <3>1, <4>1
      <3>3. 1 \in 1 .. Len(to_dev)
        BY <1>1, <2>2, EmptySeq DEF TakesFrame
      <3> QED
        BY <2>2, <3>1, <3>2, <3>3
    <2> QED
      BY <2>1, <2>2 DEF StepOf
  <1>5. ASSUME NEW j \in 1 .. Len(to_host')
        PROVE  \/ j \in 1 .. Len(to_host) /\ to_host'[j] = to_host[j]
               \/ /\ to_host'[j].conn = c
                  /\ to_host'[j].flags = "RST" => c \in Conns /\ ~Live(c)'
                  /\ to_host'[j].flags # "SYNACK" /\ c \in Conns /\ Live(c)' => dev_state'[c] = "est"
    <2>1. CASE to_host' = to_host
      BY <2>1
    <2>2. CASE Says(c)
      BY <1>1, <2>2, AppendIndex DEF Says
    <2> QED
      BY <2>1, <2>2 DEF StepOf \* The next frame is a SYN of c when c comes to life.
  <1>6. ASSUME NEW e \in Conns, Live(e)', ~Live(e)
        PROVE  e = c /\ d = 1 /\ 1 \in 1 .. Len(to_dev) /\ to_dev[1].conn = e /\ to_dev[1].flags = "SYN"
    <2>1. e = c
      BY <1>6 DEF StepOf, Live
    <2>2. ~ActsAlone(c)
      BY <1>6, <2>1 DEF ActsAlone, Live
    <2> QED
      BY <1>4, <1>6, <2>1, <2>2 DEF TakesFrame
  <1>7. ResetSent'
    BY <1>2, <1>3, <1>4 DEF Closes, ResetSent
  <1>8. NothingAfterReset'
    <2> SUFFICES ASSUME NEW i \in 1 .. Len(to_dev'), NEW j \in 1 .. Len(to_dev'),
                        i < j, to_dev'[i].flags = "RST"
                 PROVE  to_dev'[j].conn # to_dev'[i].conn
      BY DEF NothingAfterReset
    <2>1. PICK m \in 1 .. Len(to_dev), n \in 1 .. Len(to_dev) :
              m < n /\ to_dev'[i] = to_dev[m] /\ to_dev'[j] = to_dev[n]
      <3>1. i + d < j + d
        OBVIOUS
      <3> QED
        BY <1>4, <3>1
    <2> QED
      BY <2>1 DEF Closes, NothingAfterReset
  <1>9. SynUnanswered'
    <2> SUFFICES ASSUME NEW i \in 1 .. Len(to_dev'), to_dev'[i].flags = "SYN",
                        NEW e, e = to_dev'[i].conn
                 PROVE  /\ \A j \in 1 .. Len(to_host') : to_host'[j].conn # to_dev'[i].conn
                        /\ LinkUp' => Behind(e)'
      BY DEF SynUnanswered, Behind
    <2>1. PICK k \in 1 .. Len(to_dev) : k = i + d /\ to_dev'[i] = to_dev[k]
      BY <1>4
    <2>2. /\ \A j \in 1 .. Len(to_host) : to_host[j].conn # to_dev[k].conn
          /\ LinkUp => Behind(to_dev[k].conn)
      BY <2>1 DEF Closes, SynUnanswered
    <2>3. dev_state[to_dev[k].conn] = "none" /\ \A h \in 1 .. (k - 1) : to_dev[h].conn # to_dev[k].conn
      BY <2>1 DEF SynFirst
    <2>4. to_dev[k].conn \in Conns
      <3>1. to_dev[k] \in HostFrames
        BY <1>1
      <3> QED
        BY <3>1 DEF HostFrames
    <2>5. to_dev[k].conn # c
      <3>1. CASE d = 0
        BY <1>4, <2>3, <2>4, <3>1 DEF ActsAlone
      <3>2. CASE d = 1
        <4>1. 1 \in 1 .. (k - 1)
          BY <1>1, <2>1, <3>2
        <4> QED
          BY <1>4, <2>3, <3>2, <4>1 DEF TakesFrame
      <3> QED
        BY <3>1, <3>2
    <2> QED
      BY <1>2, <1>3, <1>5, <2>1, <2>2, <2>5
  <1>10. ResetHeard'
    <2> SUFFICES ASSUME NEW j \in 1 .. Len(to_host'), to_host'[j].flags = "RST",
                        NEW e, e = to_host'[j].conn
                 PROVE  e \in Conns /\ ~Live(e)'
      BY DEF ResetHeard, Live
    <2>1. CASE j \in 1 .. Len(to_host) /\ to_host'[j] = to_host[j]
      <3>1. e \in Conns /\ ~Live(e)
        BY <2>1 DEF Closes, ResetHeard
      <3>2. ~Live(e)'
        BY <1>6, <2>1, <3>1 DEF Closes, SynUnanswered
      <3> QED
        BY <3>1, <3>2
    <2>2. CASE e = c /\ c \in Conns /\ ~Live(c)'
      BY <2>2
    <2> QED
      BY <1>5, <2>1, <2>2
  <1>11. Opening'
    <2> SUFFICES ASSUME LinkUp, op = "open" PROVE Opening!2'
      BY <1>2, <1>3 DEF Opening
    <2>1. Opening!2
      BY DEF Closes, Opening
    <2>2. dev_state'[Conn(cur)] \in {"none", "synrcvd"}
      <3>1. CASE c # Conn(cur)
        BY <1>3, <2>1, <3>1 DEF StepOf
      <3>2. CASE c = Conn(cur)
        <4>1. ~ActsAlone(c)
          BY <1>3, <2>1, <3>2 DEF ActsAlone
        <4>2. to_dev[1].flags = "SYN" /\ TakesFrame(c)
          BY <1>4, <2>1, <3>2, <4>1 DEF TakesFrame
        <4> QED
          BY <3>2, <4>2 DEF TakesFrame
      <3> QED
        BY <3>1, <3>2
    <2>3. ASSUME NEW i \in 1 .. Len(to_dev'), to_dev'[i].conn = Conn(cur)
          PROVE  to_dev'[i].flags = "SYN"
      BY <1>4, <2>1, <2>3
    <2>4. ASSUME NEW j \in 1 .. Len(to_host'),
                 to_host'[j].conn = Conn(cur), to_host'[j].flags # "SYNACK", Live(Conn(cur))'
          PROVE  FALSE
      <3>1. CASE j \in 1 .. Len(to_host) /\ to_host'[j] = to_host[j]
        <4>1. ~Live(Conn(cur))
          BY <2>1, <2>4, <3>1
        <4>2. 1 \in 1 .. Len(to_dev) /\ to_dev[1].conn = Conn(cur) /\ to_dev[1].flags = "SYN"
          BY <1>3, <1>6, <2>4, <4>1
        <4> QED
          BY <2>4, <3>1, <4>2 DEF Closes, SynUnanswered
      <3>2. CASE c = Conn(cur) /\ dev_state'[c] = "est"
        BY <2>2, <3>2
      <3> QED
        BY <1>3, <1>5, <2>4, <3>1, <3>2
    <2> QED
      BY <1>3, <2>2, <2>3, <2>4
  <1>12. GivenBack'
    <2> SUFFICES ASSUME LinkUp, NEW s \in Streams, s \notin stranded, Live(Conn(s))',
                        phase[s] = "failed" \/ closed_[s]
                 PROVE  ResetUnderWay(Conn(s))'
      BY <1>2, <1>3 DEF GivenBack
    <2>1. s <= opens
      BY DEF Calling, TypeOK, Streams
    <2>2. ASSUME ~Live(Conn(s)) PROVE FALSE
      <3>1. 1 \in 1 .. Len(to_dev) /\ to_dev[1].conn = Conn(s) /\ to_dev[1].flags = "SYN"
        BY <1>3, <1>6, <2>2
      <3>2. Behind(Conn(s))
        BY <3>1 DEF Closes, SynUnanswered
      <3>3. CASE op = "open" /\ Conn(s) = Conn(cur)
        <4>1. phase[cur] = "opening" /\ ~closed_[cur] /\ cur <= opens
          BY <1>3, <3>3 DEF Calling, PortsInOrder
        <4>2. s = cur
          BY <1>3, <2>1, <3>3, <4>1, OneStream
        <4> QED
          BY <4>1, <4>2
      <3>4. ASSUME NEW t \in stranded, Conn(s) = Conn(t) PROVE FALSE
        <4>1. t \in Streams /\ t <= opens
          BY <1>3 DEF Calling
        <4>2. s = t
          BY <2>1, <3>4, <4>1, OneStream
        <4> QED
          BY <4>2
      <3> QED
        BY <3>2, <3>3, <3>4 DEF Behind
    <2>3. ResetUnderWay(Conn(s))
      BY <2>2 DEF Closes, GivenBack
    <2>4. ASSUME NEW i \in 1 .. Len(to_dev), to_dev[i].conn = Conn(s), to_dev[i].flags = "RST"
          PROVE  ResetUnderWay(Conn(s))'
      <3>1. i > d
        <4>1. ASSUME d = 1, i = 1 PROVE FALSE
          BY <1>3, <1>4, <2>4, <4>1 DEF TakesFrame
        <4> QED
          BY <1>1, <4>1
      <3> QED
        BY <1>3, <1>4, <2>4, <3>1 DEF ResetUnderWay
    <2> QED
      BY <2>3, <2>4 DEF ResetUnderWay
  <1> QED
    BY <1>7, <1>8, <1>9, <1>10, <1>11, <1>12 DEF Closes
-----------------------------------------------------------------------------
(* Together.                                                               *)

\* At first there is no stream.
LEMMA InitCInv == Init => CInv
  <1> SUFFICES ASSUME Init PROVE Calling /\ Closes
    BY DEF CInv
  <1>1. Calling
    BY MuxLinkAssumption DEF Init, Calling, Streams
  <1>2. Closes
    BY DEF Init, Closes, ResetSent, NothingAfterReset, SynUnanswered, ResetHeard, Opening,
           GivenBack
  <1> QED
    BY <1>1, <1>2

\* CInv is inductive, given the invariant of MuxLinkProofs.
LEMMA NextCInv == TypeOK /\ IInv /\ CInv /\ [Next]_vars => CInv'
  <1> SUFFICES ASSUME TypeOK, IInv, CInv, [Next]_vars, NoWrap' PROVE Closes'
    BY CallingKept DEF CInv
  <1>1. NoWrap
    <2>1. opens' = opens \/ opens' = opens + 1
      BY DEF Next, Call, Continue, Device, DevTurn, DevSyn, DevRefuses, DevData, DevEnds,
             DevTakes, DevSend, DevReset, DevControl, OpenSyn, OpenStep, OpenSkips, OpenRefused,
             OpenTimesOut, OpenSucceeds, OpenAckFails, OpenAnswered, ReadStep, ReadSkips,
             ReadReset, ReadTakes, ReadAckFails, ReadFrame, ReadTimesOut, WriteStep, WriteChunk,
             WriteFails, ReadExact, Write, ReadAll, Close, ConnClose, Drop, connection, vars
    <2> QED
      BY <2>1, MuxLinkAssumption DEF NoWrap, TypeOK
  <1>2. Calling /\ Closes /\ PortsInOrder /\ FreshUnused /\ SynFirst
    BY <1>1 DEF CInv, IInv, Wires
  <1>3. CASE UNCHANGED vars
    BY <1>2, <1>3
       DEF vars, session, connection, names, stream, caller, device, Closes, ResetSent,
           NothingAfterReset, SynUnanswered, ResetHeard, Opening, GivenBack, ResetUnderWay,
           LinkUp, Settled, Live, Conn, Behind
  <1>4. ASSUME NEW svc \in Services, OpenSyn(svc)
        PROVE  Closes'
    BY <1>2, <1>4, OpenSynShape, SynKeepsCloses
  <1>5. CASE HostCall
    BY <1>2, <1>5, CallHasShape, CallKeepsCloses
  <1>6. CASE Device
    BY <1>2, <1>6, DeviceStep, DeviceKeepsCloses
  <1> QED
    BY <1>3, <1>4, <1>5, <1>6 DEF Next, Call, HostCall

\* In any order of opens that fail, closes, destructors and Connection::close, and with
\* any number of faults, a port that Stream::open asked for is given back: by one reset,
\* which is the last frame for it, and never on a transport that is closed.  Excepted
\* are an open that timed out behind its SYN and a reset that could not be written.
THEOREM PortsGivenBack == Spec => []ClosedByReset
  <1>1. Init => TypeOK /\ IInv /\ CInv
    BY InitType, InitIInv, InitCInv
  <1>2. (TypeOK /\ IInv /\ CInv) /\ [Next]_vars => (TypeOK /\ IInv /\ CInv)'
    BY NextType, NextIInv, NextCInv
  <1>3. TypeOK /\ IInv /\ CInv => ClosedByReset
    <2> SUFFICES ASSUME TypeOK, CInv PROVE ClosedByReset
      OBVIOUS
    <2>1. ResetIsLast
      BY DEF CInv, Closes, NothingAfterReset, ResetIsLast
    <2>2. NoDeadTransportUse
      BY DEF CInv, Calling, NoDeadTransportUse
    <2>3. NoOrphanPort
      <3> SUFFICES ASSUME NoWrap, LinkUp, NEW s \in Streams \ stranded,
                          phase[s] \in {"failed", "closed"}, Live(Conn(s))
                   PROVE  ResetUnderWay(Conn(s))
        BY DEF NoOrphanPort, LinkUp, ResetUnderWay
      <3>1. phase[s] = "failed" \/ closed_[s]
        BY DEF CInv, Calling
      <3> QED
        BY <3>1 DEF CInv, Closes, GivenBack
    <2> QED
      BY <2>1, <2>2, <2>3 DEF ClosedByReset
  <1> QED
    BY <1>1, <1>2, <1>3, PTL DEF Spec
=============================================================================
