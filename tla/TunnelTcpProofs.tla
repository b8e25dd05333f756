--------------------------- MODULE TunnelTcpProofs ---------------------------
(***************************************************************************)
(* The theorems about TunnelTcp: what a link sends is in sequence for the  *)
(* device, what it acknowledges was heard, what it hands out is what the   *)
(* device sent, and a link used alone is a byte channel.  They hold for    *)
(* every number of links, units, faults and segments sent again, and for   *)
(* every segment size and way of use the assumption on the constants       *)
(* allows.                                                                 *)
(***************************************************************************)
EXTENDS TunnelTcp, SequenceTheorems, TLAPS
-----------------------------------------------------------------------------
(* Lemmas about the operators of the model.                                *)

\* What the declared ways of use give.
LEMMA UseFacts ==
    ASSUME TypeOK
    PROVE  /\ use.links \in Nat /\ use.links <= MaxLinks /\ use.mss \in Nat \ {0}
           /\ use.aligned \in BOOLEAN /\ use.alone \in BOOLEAN
           /\ use.writes \in Nat /\ use.units \in Nat /\ use.resends \in Nat
           /\ use.wire \in Nat /\ use.faults \in Nat
  <1>1. use \in UseType /\ use.mss > 0 /\ use.links <= MaxLinks
    BY TunnelTcpAssumption DEF TypeOK
  <1> QED
    BY <1>1 DEF UseType

\* A sequence that is cut after its first k members.
LEMMA CutFacts ==
    ASSUME NEW S, NEW q \in Seq(S), NEW k \in Nat, k <= Len(q)
    PROVE  /\ SubSeq(q, 1, k) \in Seq(S) /\ Len(SubSeq(q, 1, k)) = k
           /\ \A i \in 1 .. k : SubSeq(q, 1, k)[i] = q[i]
           /\ SubSeq(q, k + 1, Len(q)) \in Seq(S)
           /\ Len(SubSeq(q, k + 1, Len(q))) = Len(q) - k
           /\ \A i \in 1 .. (Len(q) - k) : SubSeq(q, k + 1, Len(q))[i] = q[k + i]
  <1>1. Len(q) \in Nat
    BY LenProperties
  <1>2. CASE k = 0
    BY <1>1, <1>2, SubSeqProperties
  <1> QED
    BY <1>1, <1>2, SubSeqProperties

\* What a frame carries.
LEMMA PayloadFacts ==
    ASSUME NEW f \in DevFrames
    PROVE  /\ Payload(f) \in Seq(Units) /\ Len(Payload(f)) = f.n /\ f.n \in Nat /\ f.seq \in Nat
           /\ f.link \in Links
           /\ \A k \in 1 .. f.n : Payload(f)[k] = [link |-> f.link, at |-> f.seq + k - 1]
  <1>1. f.n \in Nat /\ f.seq \in Nat /\ f.link \in Links
    BY DEF DevFrames
  <1>2. \A k \in 1 .. f.n : f.seq + k - 1 \in Nat
    BY <1>1
  <1>3. Payload(f) \in [1 .. f.n -> Units]
    BY <1>1, <1>2 DEF Payload, Units
  <1>4. Payload(f) \in Seq(Units) /\ Len(Payload(f)) = f.n
    BY <1>1, <1>3, SeqDef, LenProperties
  <1> QED
    BY <1>1, <1>4 DEF Payload

\* What is known of the packet at the head of the buffer, and of what is left.
LEMMA TakesFacts ==
    ASSUME TypeOK, Whole
    PROVE  /\ Segment \in DevFrames
           /\ framer[cur] \in Seq(Pieces) /\ Len(framer[cur]) \in Nat /\ Len(framer[cur]) >= 2
           /\ AfterPacket(framer[cur]) \in Seq(Pieces)
           /\ Len(AfterPacket(framer[cur])) = Len(framer[cur]) - 2
           /\ \A i \in 1 .. (Len(framer[cur]) - 2) :
                  AfterPacket(framer[cur])[i] = framer[cur][i + 2]
           /\ framer[cur][1] \in Pieces /\ framer[cur][1].part = 1
           /\ framer[cur][2] = [framer[cur][1] EXCEPT !.part = 2]
  <1>1. framer[cur] \in Seq(Pieces) /\ Len(framer[cur]) \in Nat /\ Len(framer[cur]) >= 2
    BY LenProperties DEF TypeOK, Whole, Buffer
  <1>2. 2 \in Nat /\ 2 <= Len(framer[cur])
    BY <1>1
  <1>3. framer[cur][1] \in Pieces
    BY <1>1, ElementOfSeq
  <1> QED
    <2>1. /\ AfterPacket(framer[cur]) \in Seq(Pieces)
          /\ Len(AfterPacket(framer[cur])) = Len(framer[cur]) - 2
          /\ \A i \in 1 .. (Len(framer[cur]) - 2) :
                 AfterPacket(framer[cur])[i] = framer[cur][2 + i]
      BY <1>1, <1>2, CutFacts, 2 + 1 = 3 DEF AfterPacket
    <2>2. \A i \in 1 .. (Len(framer[cur]) - 2) : 2 + i = i + 2
      BY <1>1
    <2> QED
      BY <1>1, <1>3, <2>1, <2>2 DEF Segment, Whole, Buffer, Pieces

-----------------------------------------------------------------------------
(* Types.                                                                  *)

LEMMA InitType == Init => TypeOK
  BY TunnelTcpAssumption, EmptySeq DEF Init, TypeOK, UseType, Links

\* The faults stay within their bound.
LEMMA TroubleType == TypeOK /\ Trouble => faults' \in 0 .. use.faults
  <1> SUFFICES ASSUME TypeOK, Trouble PROVE faults' \in 0 .. use.faults
    OBVIOUS
  <1>1. PICK b \in Nat : b = use.faults
    BY UseFacts
  <1>2. faults \in 0 .. b /\ tunnel \in {"up", "ended"}
    BY <1>1 DEF TypeOK
  <1>3. faults' = faults \/ (faults < b /\ faults' = faults + 1)
    BY <1>1, <1>2 DEF Trouble
  <1>4. faults' \in 0 .. b
    BY <1>2, <1>3
  <1> QED
    BY <1>1, <1>4

\* A segment that is sent, or not.
LEMMA SentType ==
    ASSUME TypeOK, NEW l \in Links, NEW type \in {"SYN", "ACK", "DATA", "FIN"}, NEW n \in Nat,
           Sent(l, type, n) \/ SendFails, use' = use
    PROVE  /\ to_dev' \in Seq(HostFrames) /\ send_seq' \in [Links -> Nat]
           /\ tunnel' \in {"up", "ended"} /\ faults' \in 0 .. use'.faults
  <1>1. CASE Sent(l, type, n)
    <2>1. HostFrame(l, type, n) \in HostFrames
      BY DEF TypeOK, HostFrame, HostFrames
    <2>2. to_dev' \in Seq(HostFrames)
      BY <1>1, <2>1, AppendProperties DEF Sent, TypeOK
    <2>3. Taken(type, n) \in Nat
      BY DEF Taken
    <2>4. send_seq' \in [Links -> Nat]
      <3>1. send_seq \in [Links -> Nat] /\ send_seq[l] \in Nat
        BY DEF TypeOK
      <3>2. send_seq[l] + Taken(type, n) \in Nat
        BY <2>3, <3>1
      <3> QED
        BY <1>1, <3>1, <3>2 DEF Sent
    <2> QED
      BY <1>1, <2>2, <2>4 DEF Sent, wire, TypeOK
  <1>2. CASE SendFails
    <2>1. faults' \in 0 .. use.faults
      BY <1>2, TroubleType DEF SendFails
    <2> QED
      BY <1>2, <2>1 DEF SendFails, Trouble, TypeOK
  <1> QED
    BY <1>1, <1>2

\* A call begins with variables of their types.
LEMMA CallType == TypeOK /\ Call => TypeOK'
  <1> SUFFICES ASSUME TypeOK, NEW l \in Links,
                      \/ Connect(l) \/ Close(l) \/ Destroy(l) \/ CallSpins(l)
                      \/ \E n \in 1 .. use.writes : Write(l, n)
                      \/ \E n \in 1 .. use.units : Read(l, n)
               PROVE  TypeOK'
    BY DEF Call
  <1> USE DEF host, calls, wire, history, device
  <1>1. CASE Connect(l)
    <2>1. /\ to_dev' \in Seq(HostFrames) /\ send_seq' \in [Links -> Nat]
          /\ tunnel' \in {"up", "ended"} /\ faults' \in 0 .. use'.faults
      BY <1>1, SentType DEF Connect
    <2> QED
      BY <1>1, <2>1 DEF Connect, TypeOK
  <1>2. CASE Close(l)
    <2>1. /\ to_dev' \in Seq(HostFrames) /\ send_seq' \in [Links -> Nat]
          /\ tunnel' \in {"up", "ended"} /\ faults' \in 0 .. use'.faults
      <3>1. CASE IsClosed(l)
        BY <1>2, <3>1 DEF Close, TypeOK
      <3>2. CASE ~IsClosed(l)
        BY <1>2, <3>2, SentType DEF Close
      <3> QED
        BY <3>1, <3>2
    <2>2. fins' \in [Links -> Nat]
      <3>1. fins \in [Links -> Nat]
        BY DEF TypeOK
      <3>2. fins[l] + 1 \in Nat
        BY ONLY <3>1, l \in Links
      <3> QED
        BY <1>2, <3>1, <3>2 DEF Close
    <2>3. closed' \in [Links -> BOOLEAN] /\ st' \in [Links -> {"none", "connecting", "open", "broken", "over"}]
      BY <1>2 DEF Close, TypeOK
    <2>4. UNCHANGED <<use, recv_seq, incoming, framer, op, cur, left, from_dev, heard, dev, dev_seq, dev_fin,
                      dev_sent, dev_done, resends>>
      BY <1>2 DEF Close
    <2> QED
      BY <2>1, <2>2, <2>3, <2>4 DEF TypeOK
  <1>3. CASE Destroy(l) \/ CallSpins(l)
    BY <1>3 DEF Destroy, CallSpins, TypeOK
  <1>4. ASSUME NEW n \in 1 .. use.writes, Write(l, n)
        PROVE  TypeOK'
    <2>1. n \in Nat
      BY UseFacts
    <2> QED
      BY <1>4, <2>1 DEF Write, TypeOK
  <1>5. ASSUME NEW n \in 1 .. use.units, Read(l, n)
        PROVE  TypeOK'
    <2>1. n \in Nat
      BY UseFacts
    <2> QED
      BY <1>5, <2>1 DEF Read, TypeOK
  <1> QED
    BY <1>1, <1>2, <1>3, <1>4, <1>5

\* So does write go on, segment by segment.
LEMMA WriteType == TypeOK /\ (WriteChunk \/ WriteFails \/ Written) => TypeOK'
  <1> SUFFICES ASSUME TypeOK, WriteChunk \/ WriteFails \/ Written PROVE TypeOK'
    OBVIOUS
  <1> USE DEF host, calls, wire, history, device
  <1>1. cur \in Links
    BY DEF TypeOK
  <1>2. CASE WriteChunk
    <2>1. Chunk \in Nat /\ left - Chunk \in Nat
      <3>1. PICK m \in Nat : m = use.mss
        BY UseFacts
      <3>2. left \in Nat
        BY DEF TypeOK
      <3> QED
        BY <3>1, <3>2 DEF Chunk, Smaller
    <2>2. /\ to_dev' \in Seq(HostFrames) /\ send_seq' \in [Links -> Nat]
          /\ tunnel' \in {"up", "ended"} /\ faults' \in 0 .. use'.faults
      BY <1>1, <1>2, <2>1, SentType DEF WriteChunk
    <2> QED
      BY <1>2, <2>1, <2>2 DEF WriteChunk, TypeOK
  <1>3. CASE WriteFails
    <2>1. /\ to_dev' \in Seq(HostFrames) /\ send_seq' \in [Links -> Nat]
          /\ tunnel' \in {"up", "ended"} /\ faults' \in 0 .. use'.faults
      BY <1>1, <1>3, SentType DEF WriteFails
    <2> QED
      BY <1>3, <2>1 DEF WriteFails, Fail, Return, TypeOK
  <1>4. CASE Written
    BY <1>4 DEF Written, Return, TypeOK
  <1> QED
    BY <1>2, <1>3, <1>4

\* A read of the tunnel puts pieces of packets into the framer of the link.
LEMMA TunnelReadType == TypeOK /\ (TunnelRead \/ ReadFails \/ Misframed) => TypeOK'
  <1> SUFFICES ASSUME TypeOK, TunnelRead \/ ReadFails \/ Misframed PROVE TypeOK'
    OBVIOUS
  <1> USE DEF host, calls, wire, history, device
  <1>1. CASE TunnelRead
    <2>1. PICK k \in ReadSizes :
              /\ framer' = [framer EXCEPT ![cur] = @ \o SubSeq(from_dev, 1, k)]
              /\ from_dev' = SubSeq(from_dev, k + 1, Len(from_dev))
      BY <1>1 DEF TunnelRead
    <2>2. from_dev \in Seq(Pieces) /\ Len(from_dev) \in Nat
      BY LenProperties DEF TypeOK
    <2>3. k \in Nat /\ k <= Len(from_dev)
      BY <2>1, <2>2, TunnelTcpAssumption DEF ReadSizes, Smaller
    <2>4. SubSeq(from_dev, 1, k) \in Seq(Pieces) /\ from_dev' \in Seq(Pieces)
      BY <2>1, <2>2, <2>3, CutFacts
    <2>5. framer[cur] \o SubSeq(from_dev, 1, k) \in Seq(Pieces)
      BY <2>4, ConcatProperties DEF TypeOK
    <2> QED
      BY <1>1, <2>1, <2>4, <2>5 DEF TunnelRead, TypeOK
  <1>2. CASE ReadFails
    <2>1. faults' \in 0 .. use.faults
      BY <1>2, TroubleType DEF ReadFails
    <2> QED
      BY <1>2, <2>1 DEF ReadFails, Trouble, Fail, Return, TypeOK
  <1>3. CASE Misframed
    BY <1>3 DEF Misframed, Fail, Return, TypeOK
  <1> QED
    BY <1>1, <1>2, <1>3

\* What connect and receive_segment do with a packet.
LEMMA TakesPacketType == TypeOK /\ TakesPacket => TypeOK'
  <1> SUFFICES ASSUME TypeOK, TakesPacket PROVE TypeOK'
    OBVIOUS
  <1> USE DEF host, calls, wire, history, device
  <1>1. cur \in Links /\ Whole /\ framer' = [framer EXCEPT ![cur] = AfterPacket(framer[cur])]
    BY DEF TypeOK, TakesPacket, ConnectSkips, ConnectRefused, Connected, ReadSkips, ReadReset,
           ReadFin, ReadData, Mine, Takes
  <1>2. framer' \in [Links -> Seq(Pieces)]
    BY <1>1, TakesFacts DEF TypeOK
  <1>3. Segment \in DevFrames
    BY <1>1, TakesFacts
  <1>4. /\ Payload(Segment) \in Seq(Units) /\ Segment.seq + 1 \in Nat
        /\ After(Segment) \in Nat /\ After(Segment) + 1 \in Nat
    BY <1>3, PayloadFacts DEF After
  <1>5. CASE ConnectSkips \/ ReadSkips
    BY <1>2, <1>5 DEF ConnectSkips, ReadSkips, TypeOK
  <1>6. CASE ConnectRefused \/ ReadReset
    <2>1. st' \in [Links -> {"none", "connecting", "open", "broken", "over"}]
      BY <1>6 DEF ConnectRefused, ReadReset, Fail, TypeOK
    <2>2. closed' \in [Links -> BOOLEAN] /\ op' = "idle" /\ left' = 0 /\ cur' = cur
      BY <1>6 DEF ConnectRefused, ReadReset, Fail, Return, TypeOK
    <2>3. UNCHANGED <<use, send_seq, recv_seq, incoming, tunnel, faults, to_dev, from_dev, heard,
                      fins, dev, dev_seq, dev_fin, dev_sent, dev_done, resends>>
      BY <1>6 DEF ConnectRefused, ReadReset
    <2> QED
      BY <1>2, <2>1, <2>2, <2>3 DEF TypeOK
  <1>7. CASE Connected
    <2>1. /\ to_dev' \in Seq(HostFrames) /\ send_seq' \in [Links -> Nat]
          /\ tunnel' \in {"up", "ended"} /\ faults' \in 0 .. use'.faults
      BY <1>1, <1>7, SentType DEF Connected
    <2>2. /\ st' \in [Links -> {"none", "connecting", "open", "broken", "over"}]
          /\ op' = "idle" /\ left' = 0 /\ cur' = cur
      BY <1>7 DEF Connected, Fail, Return, TypeOK
    <2>3. recv_seq' \in [Links -> Nat]
      BY <1>4, <1>7 DEF Connected, TypeOK
    <2>4. UNCHANGED <<use, closed, incoming, from_dev, heard,
                      fins, dev, dev_seq, dev_fin, dev_sent, dev_done, resends>>
      BY <1>7 DEF Connected
    <2> QED
      BY <1>2, <2>1, <2>2, <2>3, <2>4 DEF TypeOK
  <1>8. CASE ReadFin
    <2>1. /\ to_dev' \in Seq(HostFrames) /\ send_seq' \in [Links -> Nat]
          /\ tunnel' \in {"up", "ended"} /\ faults' \in 0 .. use'.faults
      BY <1>1, <1>8, SentType DEF ReadFin
    <2>2. /\ recv_seq' \in [Links -> Nat] /\ closed' \in [Links -> BOOLEAN]
          /\ incoming' \in [Links -> Seq(Units)]
      BY <1>4, <1>8 DEF ReadFin, TypeOK
    <2>3. fins' \in [Links -> Nat]
      <3>1. fins \in [Links -> Nat] /\ fins[cur] + 1 \in Nat
        BY <1>1 DEF TypeOK
      <3> QED
        BY <1>8, <3>1 DEF ReadFin
    <2>4. UNCHANGED <<use, st, op, cur, left, from_dev, heard,
                      dev, dev_seq, dev_fin, dev_sent, dev_done, resends>>
      BY <1>8 DEF ReadFin
    <2> QED
      BY <1>2, <2>1, <2>2, <2>3, <2>4 DEF TypeOK
  <1>9. CASE ReadData
    <2>1. /\ to_dev' \in Seq(HostFrames) /\ send_seq' \in [Links -> Nat]
          /\ tunnel' \in {"up", "ended"} /\ faults' \in 0 .. use'.faults
      BY <1>1, <1>9, SentType DEF ReadData
    <2>2. recv_seq' \in [Links -> Nat] /\ incoming' \in [Links -> Seq(Units)]
      <3>1. recv_seq \in [Links -> Nat] /\ incoming \in [Links -> Seq(Units)]
        BY DEF TypeOK
      <3> QED
        BY <1>4, <1>9, <3>1 DEF ReadData
    <2>3. /\ st' \in [Links -> {"none", "connecting", "open", "broken", "over"}]
          /\ op' \in {"idle", op} /\ left' \in {0, left} /\ cur' = cur
      BY <1>9 DEF ReadData, Fail, Return, TypeOK
    <2>4. UNCHANGED <<use, closed, from_dev, heard, fins, dev, dev_seq, dev_fin, dev_sent,
                      dev_done, resends>>
      BY <1>9 DEF ReadData
    <2>5. op' \in {"idle", "connect", "write", "read", "spins"} /\ left' \in Nat /\ cur' \in Links
      BY <2>3 DEF TypeOK
    <2>6. use' \in Uses /\ dev_sent' \in [Links -> 0 .. use'.units] /\ resends' \in 0 .. use'.resends
      BY <2>4 DEF TypeOK
    <2> QED
      BY <1>2, <2>1, <2>2, <2>3, <2>4, <2>5, <2>6 DEF TypeOK
  <1> QED
    BY <1>5, <1>6, <1>7, <1>8, <1>9 DEF TakesPacket

\* read hands out a part of the buffer, or the end.
LEMMA ReadReturnsType == TypeOK /\ (ReadReturns \/ ReadEnds) => TypeOK'
  <1> SUFFICES ASSUME TypeOK, ReadReturns \/ ReadEnds PROVE TypeOK'
    OBVIOUS
  <1> USE DEF host, calls, wire, history, device
  <1>1. CASE ReadReturns
    <2>1. incoming[cur] \in Seq(Units) /\ Len(incoming[cur]) \in Nat
      BY LenProperties DEF TypeOK
    <2>2. PICK k \in Nat : k = Smaller(left, Len(incoming[cur])) /\ k <= Len(incoming[cur])
      BY <2>1 DEF Smaller, TypeOK
    <2>3. Rest(incoming[cur], k) \in Seq(Units) /\ SubSeq(incoming[cur], 1, k) \in Seq(Units)
      BY <2>1, <2>2, CutFacts DEF Rest
    <2>4. heard[cur] \o SubSeq(incoming[cur], 1, k) \in Seq(Units)
      BY <2>3, ConcatProperties DEF TypeOK
    <2> QED
      BY <1>1, <2>2, <2>3, <2>4 DEF ReadReturns, Return, TypeOK
  <1>2. CASE ReadEnds
    BY <1>2 DEF ReadEnds, Return, TypeOK
  <1> QED
    BY <1>1, <1>2

\* The device sends both pieces of a packet.
LEMMA DevSendsFacts ==
    ASSUME TypeOK, NEW l \in Links, NEW type \in {"SYNACK", "ACK", "DATA", "FIN", "RST"},
           NEW seq \in Nat, NEW n \in Nat, DevSends(DevFrame(l, type, seq, n))
    PROVE  /\ DevFrame(l, type, seq, n) \in DevFrames
           /\ from_dev' \in Seq(Pieces) /\ Len(from_dev') = Len(from_dev) + 2
           /\ from_dev \in Seq(Pieces) /\ Len(from_dev) \in Nat
           /\ \A i \in 1 .. Len(from_dev) : from_dev'[i] = from_dev[i]
           /\ from_dev'[Len(from_dev) + 1] = [frame |-> DevFrame(l, type, seq, n), part |-> 1]
           /\ from_dev'[Len(from_dev) + 2] = [frame |-> DevFrame(l, type, seq, n), part |-> 2]
  <1> DEFINE f == DevFrame(l, type, seq, n)
             q == <<[frame |-> f, part |-> 1], [frame |-> f, part |-> 2]>>
  <1>1. f \in DevFrames
    BY DEF DevFrame, DevFrames
  <1>2. q \in Seq(Pieces) /\ Len(q) = 2 /\ q[1] = [frame |-> f, part |-> 1]
        /\ q[2] = [frame |-> f, part |-> 2]
    BY <1>1 DEF Pieces
  <1>3. from_dev \in Seq(Pieces) /\ Len(from_dev) \in Nat /\ from_dev' = from_dev \o q
    BY LenProperties DEF TypeOK, DevSends
  <1> HIDE DEF q, f
  <1>4. /\ from_dev' \in Seq(Pieces) /\ Len(from_dev') = Len(from_dev) + 2
        /\ \A i \in 1 .. Len(from_dev) + 2 :
              from_dev'[i] = IF i <= Len(from_dev) THEN from_dev[i] ELSE q[i - Len(from_dev)]
    <2>1. /\ from_dev \o q \in Seq(Pieces)
          /\ Len(from_dev \o q) = Len(from_dev) + Len(q)
          /\ \A i \in 1 .. Len(from_dev) + Len(q) : (from_dev \o q)[i]
                 = IF i <= Len(from_dev) THEN from_dev[i] ELSE q[i - Len(from_dev)]
      BY ONLY <1>2, <1>3, ConcatProperties
    <2> QED
      BY <1>2, <1>3, <2>1
  <1>5. PICK m \in Nat : m = Len(from_dev)
    BY <1>3
  <1>6. /\ m + 1 \in 1 .. m + 2 /\ ~(m + 1 <= m) /\ (m + 1) - m = 1
        /\ m + 2 \in 1 .. m + 2 /\ ~(m + 2 <= m) /\ (m + 2) - m = 2
        /\ \A i \in 1 .. m : i \in 1 .. m + 2 /\ i <= m
    OBVIOUS
  <1> QED
    BY <1>1, <1>2, <1>3, <1>4, <1>5, <1>6 DEF f

\* The device and the wires.
LEMMA DeviceType ==
    TypeOK /\ (DevTakes \/ TunnelEnds \/ \E l \in Links : Serves(l) \/ DevReset(l) \/ DevResends(l))
        => TypeOK'
  <1> USE DEF DevOnly, host, calls, wire, history, device
  <1> SUFFICES ASSUME TypeOK,
                      DevTakes \/ TunnelEnds
                      \/ \E l \in Links : Serves(l) \/ DevReset(l) \/ DevResends(l)
               PROVE  TypeOK'
    OBVIOUS
  <1>0. \A l \in Links : recv_seq[l] \in Nat /\ dev_sent[l] \in Nat /\ dev_sent[l] + 1 \in Nat
    <2> SUFFICES ASSUME NEW l \in Links
                 PROVE  recv_seq[l] \in Nat /\ dev_sent[l] \in Nat /\ dev_sent[l] + 1 \in Nat
      OBVIOUS
    <2>1. PICK b \in Nat : b = use.units
      BY UseFacts
    <2>2. recv_seq \in [Links -> Nat] /\ dev_sent \in [Links -> 0 .. b]
      BY <2>1 DEF TypeOK
    <2> QED
      BY <2>2
  <1>1. ASSUME NEW l \in Links, Arrives(l)
        PROVE  /\ to_dev' \in Seq(HostFrames) /\ Head(to_dev) \in HostFrames
    BY <1>1, HeadTailProperties DEF Arrives, TypeOK
  <1>2. ASSUME NEW l \in Links, DevSyn(l)
        PROVE  TypeOK'
    <2>1. from_dev' \in Seq(Pieces)
      BY <1>2, DevSendsFacts DEF DevSyn
    <2> QED
      BY <1>1, <1>2, <2>1 DEF DevSyn, TypeOK
  <1>3. ASSUME NEW l \in Links, DevNext(l)
        PROVE  TypeOK'
    <2>1. from_dev' \in Seq(Pieces)
      BY <1>0, <1>3, DevSendsFacts DEF DevNext, TypeOK
    <2>2. to_dev' \in Seq(HostFrames) /\ Head(to_dev).n \in Nat
      BY <1>1, <1>3 DEF DevNext, HostFrames
    <2>3. dev_seq' \in [Links -> Nat]
      <3>1. dev_seq[l] + Head(to_dev).n + (IF Head(to_dev).type = "FIN" THEN 1 ELSE 0) \in Nat
        <4>1. dev_seq[l] \in Nat
          BY DEF TypeOK
        <4> QED
          BY <2>2, <4>1
      <3> QED
        BY <1>3, <3>1 DEF DevNext, TypeOK
    <2> QED
      BY <1>3, <2>1, <2>2, <2>3 DEF DevNext, TypeOK
  <1>4. ASSUME NEW l \in Links, DevRefuses(l)
        PROVE  TypeOK'
    <2>1. from_dev' \in Seq(Pieces)
      BY <1>4, DevSendsFacts DEF DevRefuses
    <2> QED
      BY <1>1, <1>4, <2>1 DEF DevRefuses, TypeOK
  <1>5. ASSUME NEW l \in Links, NEW n \in 0 .. use.mss, DevData(l, n)
        PROVE  TypeOK'
    <2>1. n \in Nat
      BY UseFacts
    <2>2. from_dev' \in Seq(Pieces)
      BY <1>0, <1>5, <2>1, DevSendsFacts DEF DevData
    <2>3. dev_sent' \in [Links -> 0 .. use.units]
      <3>1. PICK b \in Nat : b = use.units
        BY UseFacts
      <3>2. dev_sent[l] + n \in 0 .. b
        BY <1>0, <1>5, <2>1, <3>1 DEF DevData
      <3> QED
        BY <1>5, <3>1, <3>2 DEF DevData, TypeOK
    <2> QED
      BY <1>5, <2>2, <2>3 DEF DevData, TypeOK
  <1>6. ASSUME NEW l \in Links, DevReset(l)
        PROVE  TypeOK'
    <2>1. from_dev' \in Seq(Pieces)
      BY <1>6, DevSendsFacts DEF DevReset
    <2> QED
      BY <1>6, <2>1 DEF DevReset, TypeOK
  <1>7. ASSUME NEW l \in Links, DevResends(l)
        PROVE  TypeOK'
    <2>1. dev_sent[l] + 1 - recv_seq[l] \in Nat
      BY <1>0, <1>7 DEF DevResends
    <2>2. from_dev' \in Seq(Pieces)
      BY <1>0, <1>7, <2>1, DevSendsFacts DEF DevResends
    <2>3. resends' \in 0 .. use.resends
      <3>1. PICK b \in Nat : b = use.resends
        BY UseFacts
      <3>2. resends \in 0 .. b /\ resends < b /\ resends' = resends + 1 /\ use' = use
        BY <1>7, <3>1 DEF DevResends, TypeOK
      <3>3. resends' \in 0 .. b
        BY ONLY <3>1, <3>2
      <3> QED
        BY <3>1, <3>2, <3>3
    <2> QED
      BY <1>7, <2>2, <2>3 DEF DevResends, TypeOK
  <1>8. CASE TunnelEnds
    BY <1>8, EmptySeq DEF TunnelEnds, TypeOK
  <1> QED
    BY <1>2, <1>3, <1>4, <1>5, <1>6, <1>7, <1>8 DEF DevTakes, Serves

\* Every step keeps the types.
LEMMA NextType == TypeOK /\ [Next]_vars => TypeOK'
  <1> SUFFICES ASSUME TypeOK, [Next]_vars PROVE TypeOK'
    OBVIOUS
  <1>1. CASE UNCHANGED vars
    BY <1>1 DEF vars, host, calls, wire, history, device, TypeOK
  <1> QED
    BY <1>1, CallType, WriteType, TunnelReadType, TakesPacketType, ReadReturnsType, DeviceType
       DEF Next, Continue

\* The link keeps the types of its fields, whatever the tunnel and the device do.
THEOREM TypesHold == Spec => []TypeOK
  <1> QED
    BY InitType, NextType, PTL DEF Spec
-----------------------------------------------------------------------------
(* The invariant of the calls and of the links.                            *)

\* A call is on a link that may be used, and a link is connecting in its connect.
Calling ==
    /\ op = "connect" => st[cur] = "connecting"
    /\ op \in {"read", "write"} => st[cur] = "open" \/ (st[cur] = "broken" /\ ~use.alone)
    /\ op = "read" => left > 0
    /\ \A l \in Links : st[l] = "connecting" => op = "connect" /\ cur = l

\* Links are made one after the other.
InTurn ==
    \A l \in Links : st[l] # "none" =>
        /\ l <= use.links
        /\ use.alone => \A k \in Links : k < l => st[k] = "over"

\* A link that was not made yet has no traces.
Unmade(l) ==
    /\ send_seq[l] = 0 /\ dev[l] = "none" /\ framer[l] = <<>>
    /\ \A i \in 1 .. Len(to_dev) : to_dev[i].link # l

Made == \A l \in Links : st[l] = "none" => Unmade(l)

\* Nothing is heard on a link that is not connected, and nothing was said.
Silent(l) == recv_seq[l] = 0 /\ incoming[l] = <<>> /\ heard[l] = <<>> /\ ~closed[l] /\ fins[l] = 0

Unconnected == \A l \in Links : st[l] \in {"none", "connecting"} => Silent(l)

Fins == \A l \in Links : fins[l] <= 1 /\ (fins[l] = 1 => closed[l])

\* The SYN comes first, and only it while the link is connecting.
SynFirstOf(l) ==
    /\ dev[l] = "none" => dev_seq[l] = 0 /\ ~dev_fin[l]
    /\ st[l] = "connecting" => send_seq[l] = 1
    /\ \A i \in 1 .. Len(to_dev) : to_dev[i].link = l =>
           /\ to_dev[i].type = "SYN" => /\ dev[l] = "none" /\ to_dev[i].seq = 0 /\ to_dev[i].n = 0
                                        /\ \A j \in 1 .. (i - 1) : to_dev[j].link # l
           /\ st[l] = "connecting" => to_dev[i].type = "SYN"

SynFirst == \A l \in Links : SynFirstOf(l)
-----------------------------------------------------------------------------
(* The segments to the device.                                             *)

End(f) == f.seq + Taken(f.type, f.n)

\* They go on from what the device expects, in order and without a gap.
HostOrderOf(l) ==
    /\ dev_seq[l] <= send_seq[l]
    /\ \A i \in 1 .. Len(to_dev) : to_dev[i].link = l =>
           /\ dev_seq[l] <= to_dev[i].seq /\ End(to_dev[i]) <= send_seq[l]
           /\ \A j \in 1 .. Len(to_dev) :
                  i < j /\ to_dev[j].link = l => End(to_dev[i]) <= to_dev[j].seq

HostOrder == \A l \in Links : dev[l] # "closed" => HostOrderOf(l)

Says(i, l, u) == to_dev[i].link = l /\ to_dev[i].seq <= u /\ u < End(to_dev[i])

HostGaplessOf(l) ==
    \A u \in Nat : dev_seq[l] <= u =>
        /\ tunnel = "up" /\ u < send_seq[l] => \E i \in 1 .. Len(to_dev) : Says(i, l, u)
        /\ \A i \in 1 .. Len(to_dev) : to_dev[i].link = l /\ u < to_dev[i].seq =>
               \E j \in 1 .. (i - 1) : Says(j, l, u)

HostGapless == \A l \in Links : dev[l] # "closed" => HostGaplessOf(l)
-----------------------------------------------------------------------------
(* The packets from the device.                                            *)

\* What link l will read, if no other link does.
Ahead(l) == framer[l] \o from_dev

\* The first piece of a packet that carries data of link l, or its FIN.
Speaks(x, l) == x.part = 1 /\ x.frame.link = l /\ x.frame.type \in {"DATA", "FIN"}

\* The device's side of a link speaks only when the host's side is connected, and
\* what it carries was sent.
DevSpeaksOf(l) ==
    /\ dev_sent[l] > 0 \/ dev_done[l] \/ dev[l] = "open" => st[l] \notin {"none", "connecting"}
    /\ \A i \in 1 .. Len(Ahead(l)) :
           Ahead(l)[i].frame.link = l /\ Ahead(l)[i].frame.type = "SYNACK" =>
               Ahead(l)[i].frame.seq = 0
    /\ \A i \in 1 .. Len(Ahead(l)) : Speaks(Ahead(l)[i], l) =>
           /\ st[l] \notin {"none", "connecting"}
           /\ After(Ahead(l)[i].frame) <= dev_sent[l] + 1
           /\ Ahead(l)[i].frame.type = "FIN" =>
                  dev_done[l] /\ After(Ahead(l)[i].frame) = dev_sent[l] + 1

DevSpeaks == \A l \in Links : DevSpeaksOf(l)

HeardExactOf(l) ==
    \A i \in 1 .. Len(Hears(l)) : Hears(l)[i].link = l /\ Hears(l)[i].at <= dev_sent[l]

HeardExact == \A l \in Links : HeardExactOf(l)

\* What the device sends once comes in the order it was sent.
InOrderOf(l) ==
    /\ \A i \in 1 .. Len(Ahead(l)) : Speaks(Ahead(l)[i], l) =>
           /\ Ahead(l)[i].frame.seq >= 1
           /\ \A j \in 1 .. Len(Ahead(l)) : i < j /\ Speaks(Ahead(l)[j], l) =>
                  After(Ahead(l)[i].frame) <= Ahead(l)[j].frame.seq
           /\ \A k \in 1 .. Len(Hears(l)) : Hears(l)[k].at < Ahead(l)[i].frame.seq
    /\ \A i, j \in 1 .. Len(Hears(l)) : i < j => Hears(l)[i].at < Hears(l)[j].at

InOrder == \A l \in Links : InOrderOf(l)

\* A link that is read as it comes: what it was not told yet is on the way, without
\* a gap, and the ends of the packets rise.
Tells(l, i, u) ==
    /\ Speaks(Ahead(l)[i], l)
    /\ Ahead(l)[i].frame.seq <= u /\ u < After(Ahead(l)[i].frame)

Reads(l) == Undisturbed /\ st[l] = "open" /\ ~closed[l]

DevGaplessOf(l) ==
    /\ recv_seq[l] >= 1 /\ recv_seq[l] <= dev_sent[l] + 1
    /\ \A u \in Nat : recv_seq[l] <= u =>
           /\ u <= dev_sent[l] => \E i \in 1 .. Len(Ahead(l)) : Tells(l, i, u)
           /\ \A i \in 1 .. Len(Ahead(l)) :
                  Speaks(Ahead(l)[i], l) /\ u < Ahead(l)[i].frame.seq =>
                      \E j \in 1 .. (i - 1) : Tells(l, j, u)
    /\ \A i \in 1 .. Len(Ahead(l)) : Speaks(Ahead(l)[i], l) =>
           /\ recv_seq[l] <= After(Ahead(l)[i].frame)
           /\ \A j \in 1 .. Len(Ahead(l)) : i < j /\ Speaks(Ahead(l)[j], l) =>
                  After(Ahead(l)[i].frame) <= After(Ahead(l)[j].frame)

DevGapless == \A l \in Links : Reads(l) => DevGaplessOf(l)

\* All that was acknowledged was heard, and after a FIN all that was sent.
HasHeard(l, n) == \A u \in 1 .. n : \E i \in 1 .. Len(Hears(l)) : Hears(l)[i].at = u

AllHeard ==
    \A l \in Links : Undisturbed /\ st[l] = "open" =>
        IF closed[l] THEN dev_done[l] /\ HasHeard(l, dev_sent[l])
        ELSE HasHeard(l, recv_seq[l] - 1)

\* A link used alone heard the first units, each once, and as many as it acknowledged.
Counted ==
    \A l \in Links :
        /\ \A i \in 1 .. Len(Hears(l)) : Hears(l)[i].at = i
        /\ st[l] = "open" /\ ~closed[l] => Len(Hears(l)) = recv_seq[l] - 1

\* Packets are whole where one link reads from the first on.
Paired(q) ==
    /\ q # <<>> => q[1].part = 1 /\ q[Len(q)].part = 2
    /\ \A i \in 1 .. (Len(q) - 1) : q[i].part # q[i + 1].part

Aligned == \A l \in Links : st[l] # "none" => Paired(Ahead(l))
AlignedFirst == (\A l \in Links : st[l] = "none") => from_dev = <<>>

LInv == Calling /\ InTurn /\ Made /\ Unconnected /\ Fins /\ SynFirst
HInv == HostOrder /\ HostGapless
DInv == DevSpeaks /\ HeardExact /\ (use.resends = 0 => InOrder)
GInv == DevGapless /\ AllHeard /\ (use.alone /\ use.resends = 0 => Counted)
AInv == use.links = 1 => Aligned /\ AlignedFirst
-----------------------------------------------------------------------------
(* The calls and the links.                                                *)

Device == DevTakes \/ TunnelEnds \/ \E l \in Links : Serves(l) \/ DevReset(l) \/ DevResends(l)
Host   == Call \/ Continue \/ ReadFails

\* A step is the host's or the device's, and each leaves the other's state alone.
LEMMA TwoSides ==
    ASSUME [Next]_vars
    PROVE  Host \/ Device \/ UNCHANGED vars
  BY DEF Next, Host, Device

\* The device leaves the host's side alone but for the wires...
LEMMA DeviceLeavesHost ==
    ASSUME Device
    PROVE  UNCHANGED <<use, st, closed, send_seq, recv_seq, incoming, framer, op, cur, left,
                       faults, heard, fins>>
  BY DEF Device, DevTakes, DevSyn, DevNext, DevRefuses, Serves, DevData, DevReset, DevResends,
         TunnelEnds, DevOnly, host, calls, wire, history

\* ... and the host leaves the device's.
LEMMA HostLeavesDevice ==
    ASSUME Host
    PROVE  UNCHANGED <<use, dev, dev_seq, dev_fin, dev_sent, dev_done, resends, tunnel>>
  BY DEF Host, Call, CallSpins, Continue, TakesPacket, Connect, Write, Read, Close, Destroy, WriteChunk,
         WriteFails, Written, TunnelRead, ReadFails, Misframed, ConnectSkips, ConnectRefused,
         Connected, ReadSkips, ReadReset, ReadFin, ReadData, ReadReturns, ReadEnds,
         Sent, SendFails, Trouble, device, host, wire, history, calls

\* What the host does to the states of its links, and to the calls.
StShape ==
    \/ UNCHANGED <<st, op, cur, left>>
    \/ UNCHANGED <<st, cur>> /\ op # "connect" /\ op' = "idle"
    \/ UNCHANGED <<st, op, cur>> /\ op # "read"
    \/ /\ op \notin {"idle", "spins"} /\ op' = "idle" /\ cur' = cur
       /\ \E s \in {"broken", "open", "over"} :
              /\ st' = [st EXCEPT ![cur] = s]
              /\ s = "broken" => op # "connect"
              /\ s = "open" => op = "connect"
    \/ /\ op = "idle"
       /\ \E l \in Links :
              \/ /\ st[l] \in {"open", "broken"} /\ st' = [st EXCEPT ![l] = "over"]
                 /\ UNCHANGED <<op, cur>>
              \/ /\ st[l] = "none" /\ l <= use.links /\ \A k \in 1 .. (l - 1) : st[k] # "none"
                 /\ use.alone => \A k \in 1 .. (l - 1) : st[k] = "over"
                 /\ cur' = l
                 /\ \/ st' = [st EXCEPT ![l] = "connecting"] /\ op' = "connect"
                    \/ st' = [st EXCEPT ![l] = "over"] /\ op' = op
              \/ MayUse(l) /\ UNCHANGED st /\ cur' = l /\ op' \in {"write", "read"} /\ left' > 0
              \/ UNCHANGED st /\ cur' = l /\ op' = "spins"

\* Every step of the host is one of these.
LEMMA HostStShape ==
    ASSUME TypeOK, Host
    PROVE  StShape
  <1> USE DEF host, calls, wire, history, device
  <1>1. ASSUME NEW l \in Links, Connect(l)
        PROVE  StShape
    BY <1>1 DEF Connect, MayOpen, StShape
  <1>2. ASSUME NEW l \in Links, Close(l) \/ Destroy(l)
        PROVE  StShape
    BY <1>2 DEF Close, Destroy, StShape
  <1>3. ASSUME NEW l \in Links, NEW n \in 1 .. use.writes, Write(l, n)
        PROVE  StShape
    BY <1>3 DEF Write, StShape
  <1>4. ASSUME NEW l \in Links, NEW n \in 1 .. use.units, Read(l, n)
        PROVE  StShape
    BY <1>4 DEF Read, StShape
  <1>12. ASSUME NEW l \in Links, CallSpins(l)
        PROVE  StShape
    BY <1>12 DEF CallSpins, StShape
  <1>5. CASE Fail /\ op \notin {"idle", "spins"}
    BY <1>5 DEF Fail, Return, StShape
  <1>6. CASE WriteFails \/ ReadFails \/ Misframed \/ ConnectRefused \/ ReadReset
    BY <1>5, <1>6 DEF WriteFails, ReadFails, Misframed, ConnectRefused, ReadReset, Waits
  <1>7. CASE Written \/ ReadReturns \/ ReadEnds
    BY <1>7 DEF Written, ReadReturns, ReadEnds, Return, StShape
  <1>8. CASE TunnelRead \/ ConnectSkips \/ ReadSkips \/ ReadFin
    BY <1>8 DEF TunnelRead, ConnectSkips, ReadSkips, ReadFin, StShape
  <1>9. CASE WriteChunk
    BY <1>9 DEF WriteChunk, StShape
  <1>10. CASE Connected
    BY <1>5, <1>10 DEF Connected, Return, StShape
  <1>11. CASE ReadData
    BY <1>5, <1>11 DEF ReadData, StShape
  <1> QED
    BY <1>1, <1>2, <1>3, <1>4, <1>6, <1>7, <1>8, <1>9, <1>10, <1>11, <1>12
       DEF Host, Call, Continue, TakesPacket

\* A call stays on the link it was made on, and ends with it.
LEMMA CallingKept == TypeOK /\ Calling /\ [Next]_vars => Calling'
  <1> SUFFICES ASSUME TypeOK, Calling, [Next]_vars PROVE Calling'
    OBVIOUS
  <1>1. CASE UNCHANGED <<use, st, op, cur, left>>
    BY <1>1 DEF Calling
  <1>2. CASE Host
    <2>0. cur \in Links /\ use' = use
      BY <1>2, HostLeavesDevice DEF TypeOK
    <2>1. StShape
      BY <1>2, HostStShape
    <2>2. CASE UNCHANGED <<st, cur>> /\ op # "connect" /\ op' = "idle"
      BY <2>2 DEF Calling
    <2>3. CASE UNCHANGED <<st, op, cur>> /\ op # "read"
      BY <2>0, <2>3 DEF Calling
    <2>4. ASSUME NEW s \in {"broken", "open", "over"}, op \notin {"idle", "spins"}, op' = "idle", cur' = cur,
                 st' = [st EXCEPT ![cur] = s]
          PROVE  Calling'
      BY <2>0, <2>4 DEF Calling, TypeOK
    <2>5. ASSUME op = "idle", NEW l \in Links, st[l] \in {"open", "broken"},
                 st' = [st EXCEPT ![l] = "over"], UNCHANGED <<op, cur>>
          PROVE  Calling'
      BY <2>0, <2>5 DEF Calling, TypeOK
    <2>6. ASSUME op = "idle", NEW l \in Links, cur' = l,
                 \/ st' = [st EXCEPT ![l] = "connecting"] /\ op' = "connect"
                 \/ st' = [st EXCEPT ![l] = "over"] /\ op' = op
          PROVE  Calling'
      BY <2>0, <2>6 DEF Calling, TypeOK
    <2>7. ASSUME op = "idle", NEW l \in Links, MayUse(l), UNCHANGED st, cur' = l,
                 op' \in {"write", "read"}, left' > 0
          PROVE  Calling'
      BY <2>0, <2>7 DEF Calling, MayUse
    <2>8. ASSUME op = "idle", NEW l \in Links, UNCHANGED st, cur' = l, op' = "spins"
          PROVE  Calling'
      BY <2>0, <2>8 DEF Calling
    <2> QED
      BY <1>1, <2>0, <2>1, <2>2, <2>3, <2>4, <2>5, <2>6, <2>7, <2>8 DEF StShape
  <1>3. CASE Device
    BY <1>1, <1>3, DeviceLeavesHost
  <1>4. CASE UNCHANGED vars
    BY <1>1, <1>4 DEF vars, calls
  <1> QED
    BY <1>2, <1>3, <1>4, TwoSides

\* connect uses the next link only, and a lone one when the others are over.
LEMMA InTurnKept == TypeOK /\ Calling /\ InTurn /\ [Next]_vars => InTurn'
  <1> SUFFICES ASSUME TypeOK, Calling, InTurn, [Next]_vars PROVE InTurn'
    OBVIOUS
  <1>1. CASE UNCHANGED <<use, st>>
    BY <1>1 DEF InTurn
  <1>2. ASSUME use' = use, NEW k \in Links, st[k] # "none", st[k] # "over",
               \A l \in Links : l # k => st'[l] = st[l]
        PROVE  InTurn'
    BY <1>2 DEF InTurn, Links
  <1>3. CASE Host
    <2>0. cur \in Links /\ use' = use
      BY <1>3, HostLeavesDevice DEF TypeOK
    <2>1. StShape
      BY <1>3, HostStShape
    <2>2. CASE UNCHANGED st
      BY <1>1, <2>0, <2>2
    <2>3. ASSUME NEW s \in {"broken", "open", "over"}, op \notin {"idle", "spins"}, st' = [st EXCEPT ![cur] = s]
          PROVE  InTurn'
      <3>1. st[cur] # "none" /\ st[cur] # "over"
        BY <2>3 DEF Calling, TypeOK
      <3>2. PICK me \in Links : me = cur
        BY <2>0
      <3> QED
        BY <1>2, <2>0, <2>3, <3>1, <3>2 DEF TypeOK
    <2>4. ASSUME NEW l \in Links, st[l] \in {"open", "broken"}, st' = [st EXCEPT ![l] = "over"]
          PROVE  InTurn'
      BY <1>2, <2>0, <2>4 DEF TypeOK
    <2>5. ASSUME NEW l \in Links, st[l] = "none", l <= use.links,
                 use.alone => \A k \in 1 .. (l - 1) : st[k] = "over",
                 NEW s \in {"connecting", "over"}, st' = [st EXCEPT ![l] = s]
          PROVE  InTurn'
      <3>1. \A k \in Links : k < l => k \in 1 .. (l - 1)
        BY DEF Links
      <3>2. \A k \in Links : k # l => st'[k] = st[k]
        BY <2>5 DEF TypeOK
      <3>3. \A m \in Links : m > l /\ st[m] # "none" => ~use.alone
        BY <2>5 DEF InTurn
      <3> QED
        BY <2>0, <2>5, <3>1, <3>2, <3>3 DEF InTurn, Links
    <2> QED
      BY <2>1, <2>2, <2>3, <2>4, <2>5 DEF StShape
  <1>4. CASE Device
    BY <1>1, <1>4, DeviceLeavesHost
  <1>5. CASE UNCHANGED vars
    BY <1>1, <1>5 DEF vars
  <1> QED
    BY <1>3, <1>4, <1>5, TwoSides

\* A FIN is sent by close and by the answer to a FIN, and both set `closed`.
LEMMA FinsKept == TypeOK /\ Fins /\ [Next]_vars => Fins'
  <1> SUFFICES ASSUME TypeOK, Fins, [Next]_vars PROVE Fins'
    OBVIOUS
  <1> USE DEF host, calls, wire, history, device
  <1>1. CASE UNCHANGED <<closed, fins>>
    BY <1>1 DEF Fins
  <1>2. ASSUME NEW l \in Links, closed' = [closed EXCEPT ![l] = TRUE],
               fins' = fins \/ (~closed[l] /\ fins' = [fins EXCEPT ![l] = @ + 1])
        PROVE  Fins'
    <2>1. \A k \in Links : k # l => closed'[k] = closed[k] /\ fins'[k] = fins[k]
      BY <1>2 DEF TypeOK
    <2>2. closed'[l] /\ (fins'[l] = fins[l] \/ (~closed[l] /\ fins'[l] = fins[l] + 1))
      BY <1>2 DEF TypeOK
    <2>3. fins[l] \in Nat
      BY DEF TypeOK
    <2>4. fins'[l] <= 1
      BY <2>2, <2>3 DEF Fins
    <2> QED
      BY <2>1, <2>2, <2>4 DEF Fins
  <1>3. ASSUME NEW l \in Links, Close(l)
        PROVE  Fins'
    BY <1>2, <1>3 DEF Close, IsClosed
  <1>4. CASE ReadFin
    <2>1. cur \in Links /\ ~closed[cur]
      BY <1>4 DEF TypeOK, ReadFin, Mine, Takes, Waits
    <2> QED
      BY <1>2, <1>4, <2>1 DEF ReadFin
  <1>5. CASE ReadReset
    <2>1. cur \in Links
      BY DEF TypeOK
    <2> QED
      BY <1>2, <1>5, <2>1 DEF ReadReset
  <1>6. CASE Device \/ UNCHANGED vars
    BY <1>1, <1>6, DeviceLeavesHost DEF vars
  <1>7. CASE Host /\ ~ReadFin /\ ~ReadReset /\ ~\E l \in Links : Close(l)
    <2>1. UNCHANGED <<closed, fins>>
      BY <1>7 DEF Host, Call, CallSpins, Continue, TakesPacket, Connect, Write, Read, Destroy, WriteChunk,
         WriteFails, Written, TunnelRead, ReadFails, Misframed, ConnectSkips, ConnectRefused,
         Connected, ReadSkips, ReadData, ReadReturns, ReadEnds
    <2> QED
      BY <1>1, <2>1
  <1> QED
    BY <1>3, <1>4, <1>5, <1>6, <1>7, TwoSides

\* What a link has heard begins after its connect.
LEMMA UnconnectedKept == TypeOK /\ Calling /\ Unconnected /\ [Next]_vars => Unconnected'
  <1> SUFFICES ASSUME TypeOK, Calling, Unconnected, [Next]_vars,
                      NEW l \in Links, st'[l] \in {"none", "connecting"}
               PROVE  Silent(l)'
    BY DEF Unconnected
  <1> USE DEF host, calls, wire, history, device
  <1>1. CASE UNCHANGED <<st, recv_seq, incoming, heard, closed, fins>>
    BY <1>1 DEF Unconnected, Silent
  <1>2. CASE Device \/ UNCHANGED vars
    BY <1>1, <1>2, DeviceLeavesHost DEF vars
  <1>3. CASE Host
    <2>0. cur \in Links
      BY DEF TypeOK
    <2>1. st[l] \in {"none", "connecting"}
      BY <1>3, <2>0, HostStShape DEF StShape, TypeOK
    <2>2. Silent(l)
      BY <2>1 DEF Unconnected
    <2>3. ASSUME NEW k \in Links, Close(k)
          PROVE  Silent(l)'
      <3>1. l # k
        BY <2>1, <2>3 DEF Close
      <3> QED
        BY <2>2, <2>3, <3>1 DEF Close, Silent, TypeOK
    <2>4. CASE Connected
      <3>1. l # cur
        BY <2>0, <2>4 DEF Connected, Fail, TypeOK
      <3> QED
        BY <2>2, <2>4, <3>1 DEF Connected, Silent, TypeOK
    <2>5. CASE ReadReset \/ ReadFin \/ ReadData \/ ReadReturns
      <3>1. l # cur
        BY <2>1, <2>5 DEF ReadReset, ReadFin, ReadData, ReadReturns, Calling
      <3> QED
        BY <2>2, <2>5, <3>1 DEF ReadReset, ReadFin, ReadData, ReadReturns, Silent, TypeOK
    <2>6. CASE ~Connected /\ ~ReadReset /\ ~ReadFin /\ ~ReadData /\ ~ReadReturns
               /\ ~\E k \in Links : Close(k)
      <3>1. UNCHANGED <<recv_seq, incoming, heard, closed, fins>>
        BY <1>3, <2>6 DEF Host, Call, CallSpins, Continue, TakesPacket, Connect, Write, Read, Destroy,
           WriteChunk, WriteFails, Written, TunnelRead, ReadFails, Misframed, ConnectSkips,
           ConnectRefused, ReadSkips, ReadEnds
      <3> QED
        BY <2>2, <3>1 DEF Silent
    <2> QED
      BY <2>3, <2>4, <2>5, <2>6
  <1> QED
    BY <1>2, <1>3, TwoSides
-----------------------------------------------------------------------------
(* The segments to the device.                                             *)

\* What a step of the host sends.
SendShape ==
    \/ UNCHANGED <<to_dev, send_seq>>
    \/ /\ tunnel = "up"
       /\ \E l \in Links, f \in HostFrames :
              /\ f.link = l /\ f.seq = send_seq[l]
              /\ to_dev' = Append(to_dev, f)
              /\ send_seq' = [send_seq EXCEPT ![l] = End(f)]
              /\ \/ f.type = "SYN" /\ f.n = 0 /\ st[l] = "none" /\ st'[l] = "connecting"
                 \/ f.type # "SYN" /\ st[l] # "none" /\ st'[l] \notin {"none", "connecting"}

\* A segment that is sent, or lost to a failed tunnel, has the shape.
LEMMA SentShape ==
    ASSUME TypeOK, NEW l \in Links, NEW type \in {"SYN", "ACK", "DATA", "FIN"}, NEW n \in Nat,
           Sent(l, type, n) \/ SendFails,
           IF type = "SYN" THEN n = 0 /\ st[l] = "none"
           ELSE st[l] # "none",
           Sent(l, type, n) => IF type = "SYN" THEN st'[l] = "connecting"
                               ELSE st'[l] \notin {"none", "connecting"}
    PROVE  SendShape
  <1>1. CASE Sent(l, type, n)
    <2>1. HostFrame(l, type, n) \in HostFrames
      BY DEF TypeOK, HostFrame, HostFrames
    <2>2. PICK f \in HostFrames : f = HostFrame(l, type, n)
      BY <2>1
    <2>3. f.link = l /\ f.type = type /\ f.n = n /\ f.seq = send_seq[l]
      BY <2>2 DEF HostFrame
    <2>4. tunnel = "up" /\ to_dev' = Append(to_dev, f) /\ send_seq' = [send_seq EXCEPT ![l] = End(f)]
      BY <1>1, <2>2, <2>3 DEF Sent, End
    <2> QED
      BY <1>1, <2>3, <2>4 DEF SendShape
  <1>2. CASE SendFails
    BY <1>2 DEF SendFails, SendShape
  <1> QED
    BY <1>1, <1>2

\* Every call and every packet taken sends at most one segment.
LEMMA HostSends ==
    ASSUME TypeOK, Calling, Host
    PROVE  SendShape
  <1> USE DEF host, calls, wire, history, device
  <1>0. cur \in Links
    BY DEF TypeOK
  <1>1. ASSUME NEW l \in Links, Connect(l)
        PROVE  SendShape
    <2>1. 0 \in Nat /\ st[l] = "none" /\ (Sent(l, "SYN", 0) \/ SendFails)
      BY <1>1 DEF Connect, MayOpen
    <2>2. CASE SendFails
      BY <2>2 DEF SendFails, SendShape
    <2>3. CASE ~SendFails
      <3>1. st'[l] = "connecting"
        BY <1>1, <2>3 DEF Connect, TypeOK
      <3> QED
        BY <2>1, <3>1, SentShape
    <2> QED
      BY <2>2, <2>3
  <1>2. ASSUME NEW l \in Links, Close(l)
        PROVE  SendShape
    <2>1. st[l] # "none" /\ st'[l] = "over" /\ 0 \in Nat
      BY <1>2 DEF Close, TypeOK
    <2>2. CASE IsClosed(l)
      BY <1>2, <2>2 DEF Close, SendShape
    <2>3. CASE ~IsClosed(l)
      BY <1>2, <2>1, <2>3, SentShape DEF Close
    <2> QED
      BY <2>2, <2>3
  <1>3. CASE WriteChunk
    <2>1. Chunk \in Nat
      <3>1. PICK m \in Nat : m = use.mss
        BY UseFacts
      <3>2. left \in Nat
        BY DEF TypeOK
      <3> QED
        BY <3>1, <3>2 DEF Chunk, Smaller
    <2>2. st[cur] \in {"open", "broken"} /\ st'[cur] = st[cur]
      BY <1>0, <1>3 DEF WriteChunk, Calling
    <2> QED
      BY <1>0, <1>3, <2>1, <2>2, SentShape DEF WriteChunk
  <1>4. CASE WriteFails
    BY <1>4 DEF WriteFails, SendFails, SendShape
  <1>5. CASE Connected
    <2>1. st[cur] = "connecting" /\ 0 \in Nat
      BY <1>5 DEF Connected, Calling
    <2>2. CASE SendFails
      BY <2>2 DEF SendFails, SendShape
    <2>3. CASE ~SendFails
      <3>1. st'[cur] = "open" /\ Sent(cur, "ACK", 0)
        BY <1>0, <1>5, <2>3 DEF Connected, TypeOK
      <3> QED
        BY <1>0, <2>1, <3>1, SentShape
    <2> QED
      BY <2>2, <2>3
  <1>6. CASE ReadFin
    <2>1. st[cur] \in {"open", "broken"} /\ st'[cur] = st[cur] /\ 0 \in Nat
      BY <1>6 DEF ReadFin, Calling
    <2> QED
      BY <1>0, <1>6, <2>1, SentShape DEF ReadFin
  <1>7. CASE ReadData
    <2>1. st[cur] \in {"open", "broken"} /\ 0 \in Nat
      BY <1>7 DEF ReadData, Calling
    <2>2. CASE SendFails
      BY <2>2 DEF SendFails, SendShape
    <2>3. CASE ~SendFails
      <3>1. st' = st /\ Sent(cur, "ACK", 0)
        BY <1>7, <2>3 DEF ReadData
      <3> QED
        BY <1>0, <2>1, <3>1, SentShape
    <2> QED
      BY <2>2, <2>3
  <1>8. CASE ~WriteChunk /\ ~WriteFails /\ ~Connected /\ ~ReadFin /\ ~ReadData
             /\ ~\E l \in Links : Close(l) \/ Connect(l)
    <2>1. UNCHANGED <<to_dev, send_seq>>
      BY <1>8 DEF Host, Call, CallSpins, Continue, TakesPacket, Write, Read, Destroy, Written, TunnelRead,
         ReadFails, Misframed, ConnectSkips, ConnectRefused, ReadSkips, ReadReset, ReadReturns,
         ReadEnds
    <2> QED
      BY <2>1 DEF SendShape
  <1> QED
    BY <1>1, <1>2, <1>3, <1>4, <1>5, <1>6, <1>7, <1>8

\* What a step of the device takes.
TurnShape ==
    \/ UNCHANGED <<to_dev, tunnel, dev_seq, dev_fin>>
       /\ \A l \in Links : dev'[l] = dev[l] \/ (dev[l] = "open" /\ dev'[l] = "closed")
    \/ to_dev' = <<>> /\ tunnel' = "ended" /\ UNCHANGED <<dev, dev_seq, dev_fin>>
    \/ /\ to_dev # <<>> /\ to_dev' = Tail(to_dev) /\ tunnel' = tunnel
       /\ \E l \in Links, f \in HostFrames :
              /\ f = to_dev[1] /\ f.link = l
              /\ \A k \in Links : k # l => /\ dev'[k] = dev[k] /\ dev_seq'[k] = dev_seq[k]
                                           /\ dev_fin'[k] = dev_fin[k]
              /\ \/ /\ f.type = "SYN" /\ dev'[l] \in {"syn", "closed"} /\ dev_seq'[l] = 1
                    /\ dev_fin'[l] = dev_fin[l]
                 \/ /\ f.type # "SYN" /\ dev[l] \in {"syn", "open"} /\ f.seq = dev_seq[l]
                    /\ ~dev_fin[l]
                    /\ dev'[l] = "open" /\ dev_seq'[l] = End(f)
                    /\ dev_fin'[l] = (f.type = "FIN")
                 \/ /\ f.type # "SYN" /\ dev'[l] = "closed" /\ dev_seq'[l] = dev_seq[l]
                    /\ dev_fin'[l] = dev_fin[l]

\* The device takes segments from the head, and its numbers move with them.
LEMMA DevTurns ==
    ASSUME TypeOK, Device
    PROVE  TurnShape
  <1> USE DEF host, calls, wire, history, device, DevOnly
  <1>1. CASE TunnelEnds
    BY <1>1 DEF TunnelEnds, TurnShape
  <1>2. ASSUME NEW l \in Links, DevReset(l) \/ DevResends(l) \/ Serves(l)
        PROVE  TurnShape
    BY <1>2 DEF DevReset, DevResends, Serves, DevData, TurnShape, TypeOK
  <1>3. ASSUME NEW l \in Links, Arrives(l)
        PROVE  /\ to_dev # <<>> /\ to_dev' = Tail(to_dev) /\ Head(to_dev) \in HostFrames
               /\ Head(to_dev) = to_dev[1] /\ Head(to_dev).link = l
    BY <1>3, HeadTailProperties DEF Arrives, TypeOK
  <1>4. ASSUME NEW l \in Links, DevSyn(l)
        PROVE  TurnShape
    <2>1. PICK f \in HostFrames : f = Head(to_dev)
      BY <1>3, <1>4 DEF DevSyn
    <2>2. f = to_dev[1] /\ f.link = l /\ to_dev # <<>> /\ to_dev' = Tail(to_dev)
      BY <1>3, <1>4, <2>1 DEF DevSyn
    <2>3. /\ f.type = "SYN" /\ dev'[l] \in {"syn", "closed"} /\ dev_seq'[l] = 1
          /\ dev_fin' = dev_fin /\ tunnel' = tunnel
          /\ \A k \in Links : k # l => dev'[k] = dev[k] /\ dev_seq'[k] = dev_seq[k]
      BY <1>4, <2>1 DEF DevSyn, TypeOK
    <2> QED
      BY <2>2, <2>3 DEF TurnShape
  <1>5. ASSUME NEW l \in Links, DevNext(l)
        PROVE  TurnShape
    <2>1. PICK f \in HostFrames : f = Head(to_dev)
      BY <1>3, <1>5 DEF DevNext
    <2>2. f = to_dev[1] /\ f.link = l /\ to_dev # <<>> /\ to_dev' = Tail(to_dev)
      BY <1>3, <1>5, <2>1 DEF DevNext
    <2>3. /\ f.type # "SYN" /\ dev[l] \in {"syn", "open"} /\ f.seq = dev_seq[l] /\ ~dev_fin[l]
          /\ dev'[l] = "open" /\ tunnel' = tunnel
          /\ dev_seq'[l] = dev_seq[l] + f.n + (IF f.type = "FIN" THEN 1 ELSE 0)
          /\ dev_fin'[l] = (f.type = "FIN")
          /\ \A k \in Links : k # l => /\ dev'[k] = dev[k] /\ dev_seq'[k] = dev_seq[k]
                                       /\ dev_fin'[k] = dev_fin[k]
      BY <1>5, <2>1 DEF DevNext, TypeOK
    <2>4. f.n \in Nat /\ f.seq \in Nat
      BY DEF HostFrames
    <2>5. dev_seq'[l] = End(f)
      BY <2>3, <2>4 DEF End, Taken
    <2> QED
      BY <2>2, <2>3, <2>5 DEF TurnShape
  <1>6. ASSUME NEW l \in Links, DevRefuses(l)
        PROVE  TurnShape
    <2>1. PICK f \in HostFrames : f = Head(to_dev)
      BY <1>3, <1>6 DEF DevRefuses
    <2>2. f = to_dev[1] /\ f.link = l /\ to_dev # <<>> /\ to_dev' = Tail(to_dev)
      BY <1>3, <1>6, <2>1 DEF DevRefuses
    <2>3. /\ f.type # "SYN" /\ dev'[l] = "closed" /\ UNCHANGED <<dev_seq, dev_fin, tunnel>>
          /\ \A k \in Links : k # l => dev'[k] = dev[k]
      BY <1>6, <2>1 DEF DevRefuses, TypeOK
    <2> QED
      BY <2>2, <2>3 DEF TurnShape
  <1> QED
    BY <1>1, <1>2, <1>4, <1>5, <1>6 DEF Device, DevTakes

\* The members of a sequence that grew, or lost its first.
LEMMA GrownFacts ==
    ASSUME NEW S, NEW q \in Seq(S), NEW e \in S
    PROVE  /\ Len(Append(q, e)) = Len(q) + 1 /\ Len(q) \in Nat
           /\ \A i \in 1 .. Len(q) : Append(q, e)[i] = q[i]
           /\ Append(q, e)[Len(q) + 1] = e
  BY AppendProperties, LenProperties

\* A sequence without its head.
LEMMA RestFacts ==
    ASSUME NEW S, NEW q \in Seq(S), q # <<>>
    PROVE  /\ Len(Tail(q)) = Len(q) - 1 /\ Len(q) \in Nat /\ Len(q) >= 1
           /\ \A i \in 1 .. (Len(q) - 1) : Tail(q)[i] = q[i + 1]
           /\ 1 \in 1 .. Len(q)
  BY HeadTailProperties, LenProperties, EmptySeq

\* Only connect leaves the first trace of a link.
LEMMA MadeKept == TypeOK /\ Calling /\ Made /\ [Next]_vars => Made'
  <1> SUFFICES ASSUME TypeOK, Calling, Made, [Next]_vars,
                      NEW l \in Links, st'[l] = "none"
               PROVE  Unmade(l)'
    BY DEF Made
  <1>0. to_dev \in Seq(HostFrames) /\ Len(to_dev) \in Nat /\ cur \in Links
    BY LenProperties DEF TypeOK
  <1>1. CASE UNCHANGED vars
    BY <1>1 DEF Made, Unmade, vars, host, device
  <1>2. CASE Host
    <2>1. st[l] = "none"
      BY <1>2, <1>0, HostStShape DEF StShape, TypeOK
    <2>2. Unmade(l)
      BY <2>1 DEF Made
    <2>3. dev' = dev
      BY <1>2, HostLeavesDevice
    <2>4. framer'[l] = framer[l]
      <3>1. CASE TunnelRead \/ TakesPacket
        <4>1. l # cur /\ framer' = [framer EXCEPT ![cur] = framer'[cur]]
          <5>1. l # cur
            BY <2>1, <3>1
               DEF TunnelRead, Waits, TakesPacket, ConnectSkips, ConnectRefused, Connected,
                   ReadSkips,
               ReadReset, ReadFin, ReadData, Calling
          <5> QED
            BY <1>0, <3>1, <5>1
               DEF TunnelRead, TakesPacket, ConnectSkips, ConnectRefused, Connected,
               ReadSkips, ReadReset, ReadFin, ReadData, Mine, Takes, TypeOK
        <4> QED
          BY <1>0, <4>1 DEF TypeOK
      <3>2. CASE ~TunnelRead /\ ~TakesPacket
        BY <1>2, <3>2 DEF Host, Call, CallSpins, Continue, Connect, Write, Read, Close, Destroy, WriteChunk,
           WriteFails, Written, ReadFails, Misframed, ReadReturns, ReadEnds, host
      <3> QED
        BY <3>1, <3>2
    <2>5. CASE UNCHANGED <<to_dev, send_seq>>
      BY <2>2, <2>3, <2>4, <2>5 DEF Unmade
    <2>6. ASSUME NEW k \in Links, NEW f \in HostFrames, f.link = k, to_dev' = Append(to_dev, f),
                 send_seq' = [send_seq EXCEPT ![k] = End(f)], st'[k] # "none"
          PROVE  Unmade(l)'
      <3>1. k # l /\ send_seq'[l] = send_seq[l]
        BY <2>6 DEF TypeOK
      <3>2. \A i \in 1 .. Len(to_dev') : to_dev'[i].link # l
        <4>1. \A i \in 1 .. Len(to_dev') : (i \in 1 .. Len(to_dev) /\ to_dev'[i] = to_dev[i]) \/ to_dev'[i] = f
          BY <1>0, <2>6, GrownFacts
        <4> QED
          BY <2>2, <2>6, <3>1, <4>1 DEF Unmade
      <3> QED
        BY <2>2, <2>3, <2>4, <3>1, <3>2 DEF Unmade
    <2> QED
      BY <1>2, <2>5, <2>6, HostSends DEF SendShape
  <1>3. CASE Device
    <2>1. UNCHANGED <<st, send_seq, framer>>
      BY <1>3, DeviceLeavesHost
    <2>2. Unmade(l)
      BY <2>1 DEF Made
    <2>3. TurnShape
      BY <1>3, DevTurns
    <2>4. \A i \in 1 .. Len(to_dev') : \E j \in 1 .. Len(to_dev) : to_dev'[i] = to_dev[j]
      <3>1. CASE to_dev' = to_dev
        BY <3>1
      <3>2. CASE to_dev' = <<>>
        BY <3>2, EmptySeq
      <3>3. CASE to_dev # <<>> /\ to_dev' = Tail(to_dev)
        BY <1>0, <3>3, RestFacts
      <3> QED
        BY <2>3, <3>1, <3>2, <3>3 DEF TurnShape
    <2>5. dev'[l] = dev[l]
      BY <1>0, <2>2, <2>3, RestFacts DEF TurnShape, Unmade
    <2> QED
      BY <2>1, <2>2, <2>4, <2>5 DEF Unmade
  <1> QED
    BY <1>1, <1>2, <1>3, TwoSides

\* A link sends its SYN first, and nothing else before the answer to it.
LEMMA SynFirstKept == TypeOK /\ Calling /\ Made /\ SynFirst /\ [Next]_vars => SynFirst'
  <1> SUFFICES ASSUME TypeOK, Calling, Made, SynFirst, [Next]_vars, NEW l \in Links
               PROVE  SynFirstOf(l)'
    BY DEF SynFirst
  <1>0. to_dev \in Seq(HostFrames) /\ Len(to_dev) \in Nat /\ cur \in Links
    BY LenProperties DEF TypeOK
  <1>1. CASE UNCHANGED vars
    BY <1>1 DEF SynFirst, SynFirstOf, vars, host, device
  <1>2. CASE Host
    <2>1. UNCHANGED <<dev, dev_seq, dev_fin>>
      BY <1>2, HostLeavesDevice
    <2>2. st'[l] = "connecting" => st[l] \in {"connecting", "none"}
      <3>1. StShape
        BY <1>2, HostStShape
      <3> QED
        BY <1>0, <3>1 DEF StShape, TypeOK
    <2>3. CASE UNCHANGED <<to_dev, send_seq>> /\ (st'[l] = "connecting" => st[l] = "connecting")
      BY <2>1, <2>3 DEF SynFirst, SynFirstOf
    <2>4. CASE st[l] = "none" /\ st'[l] = "connecting"
      <3>1. Connect(l) /\ Sent(l, "SYN", 0)
        <4>1. \E k \in Links : Connect(k)
          BY <1>0, <1>2, <2>4 DEF Host, Call, CallSpins, Continue, TakesPacket, Write, Read, Close, Destroy,
             WriteChunk, WriteFails, Written, TunnelRead, ReadFails, Misframed, ConnectSkips,
             ConnectRefused, Connected, ReadSkips, ReadReset, ReadFin, ReadData, ReadReturns,
             ReadEnds, Fail, host, calls, wire, history, TypeOK
        <4>2. PICK k \in Links : Connect(k)
          BY <4>1
        <4> QED
          BY <2>4, <4>2 DEF Connect, TypeOK
      <3>2. Unmade(l)
        BY <2>4 DEF Made
      <3>3. PICK f \in HostFrames : f = HostFrame(l, "SYN", 0)
        BY DEF HostFrame, HostFrames, TypeOK
      <3>4. f.link = l /\ f.type = "SYN" /\ f.seq = 0 /\ f.n = 0
        BY <3>2, <3>3 DEF HostFrame, Unmade
      <3>5. to_dev' = Append(to_dev, f) /\ send_seq'[l] = 1
        BY <3>1, <3>2, <3>3 DEF Sent, Taken, Unmade, TypeOK
      <3>6. \A i \in 1 .. Len(to_dev) : to_dev'[i] = to_dev[i] /\ to_dev'[i].link # l
        BY <1>0, <3>2, <3>5, GrownFacts DEF Unmade
      <3>7. Len(to_dev') = Len(to_dev) + 1 /\ to_dev'[Len(to_dev) + 1] = f
        BY <1>0, <3>5, GrownFacts
      <3>8. \A i \in 1 .. Len(to_dev') : to_dev'[i].link = l => i = Len(to_dev) + 1
        BY <1>0, <3>6, <3>7
      <3>9. \A j \in 1 .. (Len(to_dev) + 1) - 1 : to_dev'[j].link # l
        BY <1>0, <3>6
      <3> QED
        BY <2>1, <3>2, <3>4, <3>5, <3>7, <3>8, <3>9 DEF SynFirst, SynFirstOf, Unmade
    <2>5. ASSUME ~(st[l] = "none" /\ st'[l] = "connecting"),
                 NEW k \in Links, NEW f \in HostFrames, f.link = k, f.seq = send_seq[k],
                 to_dev' = Append(to_dev, f), send_seq' = [send_seq EXCEPT ![k] = End(f)],
                 \/ f.type = "SYN" /\ f.n = 0 /\ st[k] = "none" /\ st'[k] = "connecting"
                 \/ f.type # "SYN" /\ st[k] # "none" /\ st'[k] \notin {"none", "connecting"}
          PROVE  SynFirstOf(l)'
      <3>1. st'[l] = "connecting" => st[l] = "connecting"
        BY <2>2, <2>5
      <3>2. CASE k # l
        <4>1. send_seq'[l] = send_seq[l]
          BY <2>5, <3>2 DEF TypeOK
        <4>2. \A i \in 1 .. Len(to_dev') : to_dev'[i].link = l => i \in 1 .. Len(to_dev)
          BY <1>0, <2>5, <3>2, GrownFacts
        <4>3. \A i \in 1 .. Len(to_dev) : to_dev'[i] = to_dev[i]
          BY <1>0, <2>5, GrownFacts
        <4> QED
          BY <1>0, <2>1, <3>1, <4>1, <4>2, <4>3 DEF SynFirst, SynFirstOf
      <3>3. CASE k = l
        <4>1. f.type # "SYN" /\ st'[l] # "connecting"
          BY <2>5, <3>3
        <4>2. \A i \in 1 .. Len(to_dev') : i \in 1 .. Len(to_dev) \/ to_dev'[i] = f
          BY <1>0, <2>5, GrownFacts
        <4>3. \A i \in 1 .. Len(to_dev) : to_dev'[i] = to_dev[i]
          BY <1>0, <2>5, GrownFacts
        <4> QED
          BY <1>0, <2>1, <4>1, <4>2, <4>3 DEF SynFirst, SynFirstOf
      <3> QED
        BY <3>2, <3>3
    <2>6. SendShape
      BY <1>2, HostSends
    <2> QED
      BY <2>2, <2>3, <2>4, <2>5, <2>6 DEF SendShape
  <1>3. CASE Device
    <2>1. UNCHANGED <<st, send_seq>>
      BY <1>3, DeviceLeavesHost
    <2>2. TurnShape
      BY <1>3, DevTurns
    <2>3. CASE /\ UNCHANGED <<to_dev, tunnel, dev_seq, dev_fin>>
               /\ \A k \in Links : dev'[k] = dev[k] \/ (dev[k] = "open" /\ dev'[k] = "closed")
      <3>1. dev'[l] = "none" => dev[l] = "none"
        BY <2>3
      <3>2. dev[l] = "none" => dev'[l] = "none"
        BY <2>3
      <3> QED
        BY <2>1, <2>3, <3>1, <3>2 DEF SynFirst, SynFirstOf
    <2>4. CASE to_dev' = <<>> /\ UNCHANGED <<dev, dev_seq, dev_fin>>
      BY <2>1, <2>4, EmptySeq DEF SynFirst, SynFirstOf
    <2>5. ASSUME to_dev # <<>>, to_dev' = Tail(to_dev), NEW k \in Links,
                 to_dev[1].link = k,
                 \A m \in Links : m # k => /\ dev'[m] = dev[m] /\ dev_seq'[m] = dev_seq[m]
                                           /\ dev_fin'[m] = dev_fin[m],
                 dev'[k] # "none"
          PROVE  SynFirstOf(l)'
      <3>1. /\ Len(to_dev') = Len(to_dev) - 1 /\ 1 \in 1 .. Len(to_dev)
            /\ \A i \in 1 .. Len(to_dev') : /\ i + 1 \in 1 .. Len(to_dev)
                                            /\ to_dev'[i] = to_dev[i + 1]
        BY <1>0, <2>5, RestFacts
      <3>2. \A i \in 1 .. Len(to_dev') : \A j \in 1 .. (i - 1) :
                j + 1 \in 1 .. ((i + 1) - 1) /\ to_dev'[j] = to_dev[j + 1]
        BY <1>0, <3>1
      <3>3. CASE l # k
        <4>1. dev'[l] = dev[l] /\ dev_seq'[l] = dev_seq[l] /\ dev_fin'[l] = dev_fin[l]
          BY <2>5, <3>3
        <4>2. ASSUME NEW i \in 1 .. Len(to_dev'), to_dev'[i].link = l
              PROVE  /\ to_dev'[i].type = "SYN" =>
                            /\ dev'[l] = "none" /\ to_dev'[i].seq = 0 /\ to_dev'[i].n = 0
                            /\ \A j \in 1 .. (i - 1) : to_dev'[j].link # l
                     /\ st'[l] = "connecting" => to_dev'[i].type = "SYN"
          <5>1. i + 1 \in 1 .. Len(to_dev) /\ to_dev'[i] = to_dev[i + 1]
            BY <3>1
          <5>2. /\ to_dev[i + 1].type = "SYN" =>
                       /\ dev[l] = "none" /\ to_dev[i + 1].seq = 0 /\ to_dev[i + 1].n = 0
                       /\ \A j \in 1 .. ((i + 1) - 1) : to_dev[j].link # l
                /\ st[l] = "connecting" => to_dev[i + 1].type = "SYN"
            BY <4>2, <5>1 DEF SynFirst, SynFirstOf
          <5> QED
            BY <2>1, <3>2, <4>1, <5>1, <5>2
        <4> QED
          BY <2>1, <4>1, <4>2 DEF SynFirst, SynFirstOf
      <3>4. CASE l = k
        <4>1. ASSUME NEW i \in 1 .. Len(to_dev'), to_dev'[i].link = l
              PROVE  to_dev'[i].type # "SYN" /\ st[l] # "connecting"
          <5>1. i + 1 \in 1 .. Len(to_dev) /\ to_dev'[i] = to_dev[i + 1] /\ 1 \in 1 .. ((i + 1) - 1)
            BY <1>0, <3>1
          <5>2. to_dev[i + 1].type # "SYN"
            BY <2>5, <3>4, <4>1, <5>1 DEF SynFirst, SynFirstOf
          <5> QED
            BY <4>1, <5>1, <5>2 DEF SynFirst, SynFirstOf
        <4> QED
          BY <2>1, <2>5, <3>4, <4>1 DEF SynFirst, SynFirstOf
      <3> QED
        BY <3>3, <3>4
    <2> QED
      BY <2>2, <2>3, <2>4, <2>5 DEF TurnShape
  <1> QED
    BY <1>1, <1>2, <1>3, TwoSides
\* The device takes the first of the segments, and the one it expects is the first
\* on its link.
LEMMA HostFirst ==
    ASSUME TypeOK, Made, SynFirst, HostOrder, HostGapless, TurnShape,
           NEW l \in Links, dev'[l] # "closed"
    PROVE  \/ dev'[l] = dev[l] /\ dev_seq'[l] = dev_seq[l] /\ UNCHANGED <<to_dev, tunnel>>
           \/ dev'[l] = dev[l] /\ dev_seq'[l] = dev_seq[l] /\ to_dev' = <<>> /\ tunnel' = "ended"
           \/ /\ to_dev # <<>> /\ to_dev' = Tail(to_dev) /\ tunnel' = tunnel
              /\ dev[l] # "closed"
              /\ \/ to_dev[1].link # l /\ dev_seq'[l] = dev_seq[l]
                 \/ to_dev[1].link = l /\ to_dev[1].seq = dev_seq[l] /\ dev_seq'[l] = End(to_dev[1])
  <1>1. ASSUME to_dev # <<>>, NEW f \in HostFrames, f = to_dev[1], f.link = l, f.type = "SYN",
               dev_seq'[l] = 1
        PROVE  dev[l] # "closed" /\ f.seq = dev_seq[l] /\ dev_seq'[l] = End(f)
    <2>1. 1 \in 1 .. Len(to_dev)
      BY <1>1, RestFacts DEF TypeOK
    <2>2. dev[l] = "none" /\ f.seq = 0 /\ f.n = 0 /\ dev_seq[l] = 0
      BY <1>1, <2>1 DEF SynFirst, SynFirstOf
    <2> QED
      BY <1>1, <2>2 DEF End, Taken
  <1> QED
    BY <1>1 DEF TurnShape

\* The segments on the way stay in order.
LEMMA HostOrderKept ==
    TypeOK /\ Calling /\ Made /\ SynFirst /\ HostOrder /\ HostGapless /\ [Next]_vars => HostOrder'
  <1> SUFFICES ASSUME TypeOK, Calling, Made, SynFirst, HostOrder, HostGapless, [Next]_vars,
                      NEW l \in Links, dev'[l] # "closed"
               PROVE  HostOrderOf(l)'
    BY DEF HostOrder
  <1>0. /\ to_dev \in Seq(HostFrames) /\ Len(to_dev) \in Nat
        /\ \A i \in 1 .. Len(to_dev) : to_dev[i] \in HostFrames
        /\ send_seq[l] \in Nat /\ dev_seq[l] \in Nat
    BY LenProperties, ElementOfSeq DEF TypeOK
  <1>1. CASE UNCHANGED vars
    BY <1>1 DEF HostOrder, HostOrderOf, vars, host, device
  <1>2. \A f \in HostFrames : f.seq \in Nat /\ End(f) \in Nat /\ f.seq <= End(f)
    BY DEF HostFrames, End, Taken
  <1>3. CASE Host
    <2>1. UNCHANGED <<dev, dev_seq>> /\ HostOrderOf(l)
      BY <1>3, HostLeavesDevice DEF HostOrder
    <2>2. CASE UNCHANGED <<to_dev, send_seq>>
      BY <2>1, <2>2 DEF HostOrderOf
    <2>3. ASSUME NEW k \in Links, NEW f \in HostFrames, f.link = k, f.seq = send_seq[k],
                 to_dev' = Append(to_dev, f), send_seq' = [send_seq EXCEPT ![k] = End(f)]
          PROVE  HostOrderOf(l)'
      <3>1. send_seq'[l] = IF k = l THEN End(f) ELSE send_seq[l]
        BY <2>3 DEF TypeOK
      <3>2. send_seq'[l] \in Nat /\ send_seq[l] <= send_seq'[l]
        BY <1>0, <1>2, <2>3, <3>1
      <3>3. /\ Len(to_dev') = Len(to_dev) + 1 /\ to_dev'[Len(to_dev) + 1] = f
            /\ \A i \in 1 .. Len(to_dev) : to_dev'[i] = to_dev[i]
        BY <1>0, <2>3, GrownFacts
      <3>4. ASSUME NEW i \in 1 .. Len(to_dev'), to_dev'[i].link = l
            PROVE  /\ dev_seq[l] <= to_dev'[i].seq /\ End(to_dev'[i]) <= send_seq'[l]
                   /\ \A j \in 1 .. Len(to_dev') :
                          i < j /\ to_dev'[j].link = l => End(to_dev'[i]) <= to_dev'[j].seq
        <4>1. CASE i \in 1 .. Len(to_dev)
          <5>1. PICK g \in HostFrames : g = to_dev[i] /\ to_dev'[i] = g
            BY <1>0, <3>3, <4>1
          <5>2. /\ dev_seq[l] <= g.seq /\ End(g) <= send_seq[l]
                /\ \A j \in 1 .. Len(to_dev) : i < j /\ to_dev[j].link = l => End(g) <= to_dev[j].seq
            BY <2>1, <3>4, <4>1, <5>1 DEF HostOrderOf
          <5>3. End(g) <= send_seq'[l]
            BY <1>0, <1>2, <3>2, <5>2
          <5>4. ASSUME NEW j \in 1 .. Len(to_dev'), i < j, to_dev'[j].link = l
                PROVE  End(g) <= to_dev'[j].seq
            <6>1. j \in 1 .. Len(to_dev) \/ j = Len(to_dev) + 1
              BY <1>0, <3>3
            <6> QED
              BY <1>0, <2>3, <3>3, <5>2, <5>4, <6>1
          <5> QED
            BY <5>1, <5>2, <5>3, <5>4
        <4>2. CASE i = Len(to_dev) + 1
          <5>1. to_dev'[i] = f /\ k = l
            BY <2>3, <3>3, <3>4, <4>2
          <5>2. \A j \in 1 .. Len(to_dev') : ~(i < j)
            BY <1>0, <3>3, <4>2
          <5>3. dev_seq[l] <= f.seq /\ End(f) <= send_seq'[l]
            BY <1>0, <1>2, <2>1, <2>3, <3>1, <5>1 DEF HostOrderOf
          <5> QED
            BY <5>1, <5>2, <5>3
        <4> QED
          BY <1>0, <3>3, <4>1, <4>2
      <3>5. dev_seq[l] <= send_seq'[l]
        BY <1>0, <2>1, <3>2 DEF HostOrderOf
      <3> QED
        BY <2>1, <3>4, <3>5 DEF HostOrderOf
    <2> QED
      BY <1>3, <2>2, <2>3, HostSends DEF SendShape
  <1>4. CASE Device
    <2>1. send_seq' = send_seq
      BY <1>4, DeviceLeavesHost
    <2>2. TurnShape
      BY <1>4, DevTurns
    <2>3. CASE dev'[l] = dev[l] /\ dev_seq'[l] = dev_seq[l] /\ to_dev' = to_dev
      BY <2>1, <2>3 DEF HostOrder, HostOrderOf
    <2>4. CASE dev'[l] = dev[l] /\ dev_seq'[l] = dev_seq[l] /\ to_dev' = <<>>
      BY <2>1, <2>4, EmptySeq DEF HostOrder, HostOrderOf
    <2>5. CASE /\ to_dev # <<>> /\ to_dev' = Tail(to_dev) /\ dev[l] # "closed"
               /\ \/ to_dev[1].link # l /\ dev_seq'[l] = dev_seq[l]
                  \/ /\ to_dev[1].link = l /\ to_dev[1].seq = dev_seq[l]
                     /\ dev_seq'[l] = End(to_dev[1])
      <3>1. /\ Len(to_dev') = Len(to_dev) - 1 /\ 1 \in 1 .. Len(to_dev)
            /\ \A i \in 1 .. Len(to_dev') : /\ i + 1 \in 1 .. Len(to_dev)
                                            /\ to_dev'[i] = to_dev[i + 1]
        BY <1>0, <2>5, RestFacts
      <3>2. HostOrderOf(l)
        BY <2>5 DEF HostOrder
      <3>3. dev_seq'[l] <= send_seq[l]
        BY <2>5, <3>1, <3>2 DEF HostOrderOf
      <3>4. ASSUME NEW i \in 1 .. Len(to_dev'), to_dev'[i].link = l
            PROVE  dev_seq'[l] <= to_dev'[i].seq /\ End(to_dev'[i]) <= send_seq[l]
        <4>1. i + 1 \in 1 .. Len(to_dev) /\ to_dev'[i] = to_dev[i + 1] /\ 1 < i + 1
          BY <3>1
        <4> QED
          BY <2>5, <3>1, <3>2, <3>4, <4>1 DEF HostOrderOf
      <3>5. ASSUME NEW i \in 1 .. Len(to_dev'), NEW j \in 1 .. Len(to_dev'), i < j,
                   to_dev'[i].link = l, to_dev'[j].link = l
            PROVE  End(to_dev'[i]) <= to_dev'[j].seq
        <4>1. /\ i + 1 \in 1 .. Len(to_dev) /\ to_dev'[i] = to_dev[i + 1]
              /\ j + 1 \in 1 .. Len(to_dev) /\ to_dev'[j] = to_dev[j + 1] /\ i + 1 < j + 1
          BY <3>1, <3>5
        <4> QED
          BY <3>2, <3>5, <4>1 DEF HostOrderOf
      <3> QED
        BY <2>1, <3>3, <3>4, <3>5 DEF HostOrderOf
    <2> QED
      BY <2>2, <2>3, <2>4, <2>5, HostFirst
  <1> QED
    BY <1>1, <1>3, <1>4, TwoSides

\* They stay without a gap, whatever fails to be sent.
LEMMA HostGaplessKept ==
    TypeOK /\ Calling /\ Made /\ SynFirst /\ HostOrder /\ HostGapless /\ [Next]_vars => HostGapless'
  <1> SUFFICES ASSUME TypeOK, Calling, Made, SynFirst, HostOrder, HostGapless, [Next]_vars,
                      NEW l \in Links, dev'[l] # "closed"
               PROVE  HostGaplessOf(l)'
    BY DEF HostGapless
  <1>0. /\ to_dev \in Seq(HostFrames) /\ Len(to_dev) \in Nat
        /\ \A i \in 1 .. Len(to_dev) : to_dev[i] \in HostFrames
        /\ send_seq[l] \in Nat /\ dev_seq[l] \in Nat
    BY LenProperties, ElementOfSeq DEF TypeOK
  <1>1. CASE UNCHANGED vars
    BY <1>1 DEF HostGapless, HostGaplessOf, Says, vars, host, device, wire
  <1>2. \A f \in HostFrames : f.seq \in Nat /\ End(f) \in Nat /\ f.seq <= End(f)
    BY DEF HostFrames, End, Taken
  <1>3. CASE Host
    <2>1. UNCHANGED <<dev, dev_seq, tunnel>> /\ HostGaplessOf(l)
      BY <1>3, HostLeavesDevice DEF HostGapless
    <2>2. CASE UNCHANGED <<to_dev, send_seq>>
      BY <2>1, <2>2 DEF HostGaplessOf, Says
    <2>3. ASSUME NEW k \in Links, NEW f \in HostFrames, f.link = k, f.seq = send_seq[k], tunnel = "up",
                 to_dev' = Append(to_dev, f), send_seq' = [send_seq EXCEPT ![k] = End(f)]
          PROVE  HostGaplessOf(l)'
      <3>1. send_seq'[l] = IF k = l THEN End(f) ELSE send_seq[l]
        BY <2>3 DEF TypeOK
      <3>2. /\ Len(to_dev') = Len(to_dev) + 1 /\ to_dev'[Len(to_dev) + 1] = f
            /\ \A i \in 1 .. Len(to_dev) : to_dev'[i] = to_dev[i]
        BY <1>0, <2>3, GrownFacts
      <3>3. \A i \in 1 .. Len(to_dev), u \in Nat : Says(i, l, u) => i \in 1 .. Len(to_dev') /\ Says(i, l, u)'
        BY <1>0, <3>2 DEF Says
      <3> SUFFICES ASSUME NEW u \in Nat, dev_seq[l] <= u
                   PROVE  /\ u < send_seq'[l] => \E i \in 1 .. Len(to_dev') : Says(i, l, u)'
                          /\ \A i \in 1 .. Len(to_dev') : to_dev'[i].link = l /\ u < to_dev'[i].seq =>
                                 \E j \in 1 .. (i - 1) : Says(j, l, u)'
        BY <2>1 DEF HostGaplessOf
      <3>4. u < send_seq[l] => \E i \in 1 .. Len(to_dev) : Says(i, l, u)
        BY <2>1, <2>3 DEF HostGaplessOf
      <3>5. ASSUME u < send_seq'[l]
            PROVE  \E i \in 1 .. Len(to_dev') : Says(i, l, u)'
        <4>1. CASE u < send_seq[l]
          BY <3>3, <3>4, <4>1
        <4>2. CASE ~(u < send_seq[l])
          <5>1. k = l /\ f.seq <= u /\ u < End(f)
            BY <1>0, <2>3, <3>1, <3>5, <4>2
          <5>2. PICK m \in Nat : m = Len(to_dev) + 1 /\ m \in 1 .. Len(to_dev')
            BY <1>0, <3>2
          <5>3. Says(m, l, u)'
            BY <2>3, <3>2, <5>1, <5>2 DEF Says
          <5> QED
            BY <5>2, <5>3
        <4> QED
          BY <4>1, <4>2
      <3>6. ASSUME NEW i \in 1 .. Len(to_dev'), to_dev'[i].link = l, u < to_dev'[i].seq
            PROVE  \E j \in 1 .. (i - 1) : Says(j, l, u)'
        <4>1. CASE i \in 1 .. Len(to_dev)
          <5>1. \E j \in 1 .. (i - 1) : Says(j, l, u)
            BY <2>1, <3>2, <3>6, <4>1 DEF HostGaplessOf
          <5>2. \A j \in 1 .. (i - 1) : j \in 1 .. Len(to_dev)
            BY <1>0, <4>1
          <5> QED
            BY <3>3, <5>1, <5>2
        <4>2. CASE i = Len(to_dev) + 1
          <5>1. u < send_seq[l]
            BY <2>3, <3>2, <3>6, <4>2
          <5>2. \A j \in 1 .. Len(to_dev) : j \in 1 .. (i - 1)
            BY <1>0, <4>2
          <5> QED
            BY <3>3, <3>4, <5>1, <5>2
        <4> QED
          BY <1>0, <3>2, <4>1, <4>2
      <3> QED
        BY <3>5, <3>6
    <2> QED
      BY <1>3, <2>2, <2>3, HostSends DEF SendShape
  <1>4. CASE Device
    <2>1. send_seq' = send_seq
      BY <1>4, DeviceLeavesHost
    <2>2. TurnShape
      BY <1>4, DevTurns
    <2>3. CASE dev'[l] = dev[l] /\ dev_seq'[l] = dev_seq[l] /\ UNCHANGED <<to_dev, tunnel>>
      BY <2>1, <2>3 DEF HostGapless, HostGaplessOf, Says
    <2>4. CASE to_dev' = <<>> /\ tunnel' = "ended"
      BY <2>4, EmptySeq DEF HostGaplessOf
    <2>5. CASE /\ to_dev # <<>> /\ to_dev' = Tail(to_dev) /\ tunnel' = tunnel /\ dev[l] # "closed"
               /\ \/ to_dev[1].link # l /\ dev_seq'[l] = dev_seq[l]
                  \/ /\ to_dev[1].link = l /\ to_dev[1].seq = dev_seq[l]
                     /\ dev_seq'[l] = End(to_dev[1])
      <3>1. /\ Len(to_dev') = Len(to_dev) - 1 /\ 1 \in 1 .. Len(to_dev)
            /\ \A i \in 1 .. Len(to_dev') : /\ i + 1 \in 1 .. Len(to_dev)
                                            /\ to_dev'[i] = to_dev[i + 1]
        BY <1>0, <2>5, RestFacts
      <3>2. HostGaplessOf(l)
        BY <2>5 DEF HostGapless
      <3> SUFFICES ASSUME NEW u \in Nat, dev_seq'[l] <= u
                   PROVE  /\ tunnel = "up" /\ u < send_seq[l] =>
                                 \E i \in 1 .. Len(to_dev') : Says(i, l, u)'
                          /\ \A i \in 1 .. Len(to_dev') : to_dev'[i].link = l /\ u < to_dev'[i].seq =>
                                 \E j \in 1 .. (i - 1) : Says(j, l, u)'
        BY <2>1, <2>5 DEF HostGaplessOf
      <3>3. dev_seq[l] <= u /\ ~Says(1, l, u)
        BY <1>0, <1>2, <2>5, <3>1 DEF Says
      <3>4. ASSUME NEW m \in 1 .. Len(to_dev), Says(m, l, u)
            PROVE  m - 1 \in 1 .. Len(to_dev') /\ Says(m - 1, l, u)'
        <4>1. m # 1 /\ m - 1 \in 1 .. Len(to_dev')
          BY <1>0, <3>1, <3>3, <3>4
        <4>2. to_dev'[m - 1] = to_dev[m]
          BY <3>1, <4>1
        <4> QED
          BY <3>4, <4>1, <4>2 DEF Says
      <3>5. ASSUME tunnel = "up", u < send_seq[l]
            PROVE  \E i \in 1 .. Len(to_dev') : Says(i, l, u)'
        <4>1. PICK i \in 1 .. Len(to_dev) : Says(i, l, u)
          BY <3>2, <3>3, <3>5 DEF HostGaplessOf
        <4> QED
          BY <3>4, <4>1
      <3>6. ASSUME NEW i \in 1 .. Len(to_dev'), to_dev'[i].link = l, u < to_dev'[i].seq
            PROVE  \E j \in 1 .. (i - 1) : Says(j, l, u)'
        <4>1. i + 1 \in 1 .. Len(to_dev) /\ to_dev'[i] = to_dev[i + 1]
          BY <3>1
        <4>2. PICK j \in 1 .. ((i + 1) - 1) : Says(j, l, u)
          BY <3>2, <3>3, <3>6, <4>1 DEF HostGaplessOf
        <4>3. j \in 1 .. Len(to_dev)
          BY <1>0, <3>1, <4>1
        <4>4. j - 1 \in 1 .. Len(to_dev') /\ Says(j - 1, l, u)'
          BY <3>4, <4>2, <4>3
        <4>5. j - 1 \in 1 .. (i - 1)
          BY <4>2, <4>4
        <4> QED
          BY <4>4, <4>5
      <3> QED
        BY <3>5, <3>6
    <2> QED
      BY <2>2, <2>3, <2>4, <2>5, HostFirst
  <1> QED
    BY <1>1, <1>3, <1>4, TwoSides

\* The order and the want of gaps make the segment at the head the one in sequence.
LEMMA HostInSequence == TypeOK /\ HostOrder /\ HostGapless => SentInSequence
  <1> SUFFICES ASSUME TypeOK, HostOrder, HostGapless, NEW l \in Links,
                      NEW i \in 1 .. Smaller(1, Len(to_dev)),
                      to_dev[i].link = l, dev[l] \in {"syn", "open"}
               PROVE  to_dev[i].seq = dev_seq[l]
    BY DEF SentInSequence
  <1>0. /\ Len(to_dev) \in Nat /\ dev_seq[l] \in Nat
        /\ \A j \in 1 .. Len(to_dev) : to_dev[j] \in HostFrames
    BY LenProperties, ElementOfSeq DEF TypeOK
  <1>1. i = 1 /\ 1 \in 1 .. Len(to_dev)
    BY <1>0 DEF Smaller
  <1>2. PICK f \in HostFrames : f = to_dev[1]
    BY <1>0, <1>1
  <1>3. f.seq \in Nat /\ dev_seq[l] <= f.seq
    BY <1>1, <1>2 DEF HostFrames, HostOrder, HostOrderOf
  <1>4. ~(dev_seq[l] < f.seq)
    <2>1. dev_seq[l] < f.seq => \E j \in 1 .. (1 - 1) : Says(j, l, dev_seq[l])
      BY <1>0, <1>1, <1>2 DEF HostGapless, HostGaplessOf
    <2> QED
      BY <2>1
  <1> QED
    BY <1>0, <1>1, <1>2, <1>3, <1>4
-----------------------------------------------------------------------------
(* What a step does to the packets a link has ahead, and to what it heard. *)

\* k pieces after the first a are gone.
Cut(l, a, k) ==
    /\ Len(Ahead(l)) = Len(Ahead(l)') + k
    /\ \A i \in 1 .. Len(Ahead(l)') : Ahead(l)'[i] = Ahead(l)[IF i <= a THEN i ELSE i + k]

\* A packet has come.
Grown(l, f) ==
    /\ Len(Ahead(l)') = Len(Ahead(l)) + 2
    /\ \A i \in 1 .. Len(Ahead(l)) : Ahead(l)'[i] = Ahead(l)[i]
    /\ Ahead(l)'[Len(Ahead(l)) + 1] = [frame |-> f, part |-> 1]
    /\ Ahead(l)'[Len(Ahead(l)) + 2] = [frame |-> f, part |-> 2]

\* A packet was heard.
Handed(l, f) ==
    /\ Len(Hears(l)') = Len(Hears(l)) + f.n
    /\ \A i \in 1 .. Len(Hears(l)) : Hears(l)'[i] = Hears(l)[i]
    /\ \A i \in 1 .. f.n :
           Hears(l)'[Len(Hears(l)) + i] = [link |-> f.link, at |-> f.seq + i - 1]

\* The pieces ahead of a link, and the units it heard.
LEMMA AheadFacts ==
    ASSUME TypeOK, NEW l \in Links
    PROVE  /\ framer[l] \in Seq(Pieces) /\ from_dev \in Seq(Pieces)
           /\ Len(framer[l]) \in Nat /\ Len(from_dev) \in Nat
           /\ Ahead(l) \in Seq(Pieces) /\ Len(Ahead(l)) \in Nat
           /\ Len(Ahead(l)) = Len(framer[l]) + Len(from_dev)
           /\ \A i \in 1 .. Len(Ahead(l)) :
                  /\ Ahead(l)[i] \in Pieces
                  /\ Ahead(l)[i] = IF i <= Len(framer[l]) THEN framer[l][i]
                                   ELSE from_dev[i - Len(framer[l])]
           /\ Hears(l) \in Seq(Units) /\ Len(Hears(l)) \in Nat
           /\ \A i \in 1 .. Len(Hears(l)) : Hears(l)[i] \in Units
  <1>1. framer[l] \in Seq(Pieces) /\ from_dev \in Seq(Pieces)
        /\ heard[l] \in Seq(Units) /\ incoming[l] \in Seq(Units)
    BY DEF TypeOK
  <1>2. Ahead(l) \in Seq(Pieces) /\ Hears(l) \in Seq(Units)
    BY <1>1, ConcatProperties DEF Ahead, Hears
  <1>3. /\ Len(Ahead(l)) = Len(framer[l]) + Len(from_dev)
        /\ \A i \in 1 .. Len(Ahead(l)) :
               Ahead(l)[i] = IF i <= Len(framer[l]) THEN framer[l][i]
                             ELSE from_dev[i - Len(framer[l])]
    BY <1>1, ConcatProperties DEF Ahead
  <1> QED
    BY <1>1, <1>2, <1>3, LenProperties, ElementOfSeq

\* A packet that is taken is the first of what its link has.
LEMMA PacketTaken ==
    ASSUME TypeOK, TakesPacket, NEW l \in Links, cur = l
    PROVE  /\ Cut(l, 0, 2) /\ Len(Ahead(l)) >= 2
           /\ Ahead(l)[1].part = 1 /\ Ahead(l)[1].frame = Segment /\ Ahead(l)[2].part = 2
           /\ Segment \in DevFrames
  <1>0. Waits /\ Whole /\ framer' = [framer EXCEPT ![cur] = AfterPacket(@)] /\ from_dev' = from_dev
    BY DEF TakesPacket, ConnectSkips, ConnectRefused, Connected, ReadSkips, ReadReset, ReadFin,
           ReadData, Mine, Takes
  <1>1. framer'[l] = AfterPacket(framer[l])
    BY <1>0 DEF TypeOK
  <1>2. PICK a \in Nat : a = Len(framer[l]) /\ a >= 2
    BY <1>0, TakesFacts
  <1>3. PICK n \in Nat : n = Len(from_dev)
    BY AheadFacts
  <1>4. /\ AfterPacket(framer[l]) \in Seq(Pieces) /\ Len(AfterPacket(framer[l])) = a - 2
        /\ \A i \in 1 .. (a - 2) : AfterPacket(framer[l])[i] = framer[l][i + 2]
    BY <1>0, <1>2, TakesFacts
  <1>5. Ahead(l)' = AfterPacket(framer[l]) \o from_dev
    BY <1>0, <1>1 DEF Ahead
  <1>6. /\ Len(Ahead(l)') = (a - 2) + n
        /\ \A i \in 1 .. ((a - 2) + n) :
               Ahead(l)'[i] = IF i <= a - 2 THEN AfterPacket(framer[l])[i]
                              ELSE from_dev[i - (a - 2)]
    <2>0. PICK d \in Nat : d = a - 2
      BY <1>2
    <2>1. PICK p \in Seq(Pieces) : p = AfterPacket(framer[l]) /\ Len(p) = d
      BY <1>4, <2>0
    <2>2. PICK q \in Seq(Pieces) : q = from_dev /\ Len(q) = n
      BY <1>3, AheadFacts
    <2>3. /\ Len(p \o q) = d + n
          /\ \A i \in 1 .. (d + n) : (p \o q)[i] = IF i <= d THEN p[i] ELSE q[i - d]
      <3>1. Len(p) = d /\ Len(q) = n
        BY <2>1, <2>2
      <3>2. /\ Len(p \o q) = Len(p) + Len(q)
            /\ \A i \in 1 .. Len(p) + Len(q) :
                   (p \o q)[i] = IF i <= Len(p) THEN p[i] ELSE q[i - Len(p)]
        BY ConcatProperties
      <3> QED
        BY ONLY <3>1, <3>2
    <2> QED
      BY <1>5, <2>0, <2>1, <2>2, <2>3
  <1>7. \A i \in 1 .. (a + n) : Ahead(l)[i] = IF i <= a THEN framer[l][i] ELSE from_dev[i - a]
    BY <1>2, <1>3, AheadFacts
  <1>8. Len(Ahead(l)) = Len(Ahead(l)') + 2 /\ Len(Ahead(l)) >= 2
    BY <1>2, <1>3, <1>6, AheadFacts
  <1>9. ASSUME NEW i \in 1 .. Len(Ahead(l)')
        PROVE  Ahead(l)'[i] = Ahead(l)[i + 2]
    <2>0. i \in 1 .. ((a - 2) + n) /\ i + 2 \in 1 .. (a + n) /\ i - (a - 2) = (i + 2) - a
      BY <1>2, <1>6
    <2>1. CASE i <= a - 2
      <3>1. i \in 1 .. (a - 2) /\ i + 2 <= a
        BY <2>0, <2>1, <1>2
      <3> QED
        BY <1>4, <1>6, <1>7, <2>0, <3>1
    <2>2. CASE ~(i <= a - 2)
      <3>1. ~(i + 2 <= a)
        BY <2>0, <2>2, <1>2
      <3> QED
        BY <1>6, <1>7, <2>0, <2>2, <3>1
    <2> QED
      BY <2>1, <2>2
  <1>10. Cut(l, 0, 2)
    <2>1. \A i \in 1 .. Len(Ahead(l)') : ~(i <= 0)
      BY <1>6
    <2> QED
      BY <1>8, <1>9, <2>1 DEF Cut
  <1>11. Ahead(l)[1] = framer[l][1] /\ Ahead(l)[2] = framer[l][2]
    BY <1>2, <1>3, <1>7
  <1>12. Ahead(l)[1].part = 1 /\ Ahead(l)[1].frame = Segment /\ Ahead(l)[2].part = 2
    BY <1>0, <1>11, TakesFacts DEF Segment, Buffer, Pieces
  <1> QED
    BY <1>0, <1>8, <1>10, <1>12, TakesFacts

\* A step of the host takes from the tunnel for the link of its call only, and a
\* packet at a time from what that link has.
LEMMA HostReads ==
    ASSUME TypeOK, Host, NEW l \in Links
    PROVE  \/ Cut(l, 0, 0)
           \/ cur # l /\ Waits /\ \E a, k \in Nat : Cut(l, a, k)
           \/ /\ cur = l /\ TakesPacket /\ Cut(l, 0, 2) /\ Len(Ahead(l)) >= 2
              /\ Ahead(l)[1].part = 1 /\ Ahead(l)[1].frame = Segment /\ Ahead(l)[2].part = 2
              /\ Segment \in DevFrames
  <1>0. cur \in Links /\ TypeOK'
    BY NextType DEF TypeOK, Host, Next
  <1>1. CASE framer' = framer /\ from_dev' = from_dev
    <2>1. Ahead(l)' = Ahead(l)
      BY <1>1 DEF Ahead
    <2> QED
      BY <2>1, AheadFacts DEF Cut
  <1>2. CASE TunnelRead
    <2>1. PICK k \in Nat :
              /\ k <= Len(from_dev)
              /\ framer' = [framer EXCEPT ![cur] = framer[cur] \o SubSeq(from_dev, 1, k)]
              /\ from_dev' = SubSeq(from_dev, k + 1, Len(from_dev))
      <3>1. \A k \in ReadSizes : k \in Nat /\ k <= Len(from_dev)
        BY AheadFacts, TunnelTcpAssumption DEF ReadSizes, Smaller
      <3> QED
        BY <1>2, <3>1 DEF TunnelRead
    <2>2. CASE l = cur
      <3>1. /\ SubSeq(from_dev, 1, k) \in Seq(Pieces)
            /\ SubSeq(from_dev, k + 1, Len(from_dev)) \in Seq(Pieces)
        BY <2>1, AheadFacts, CutFacts
      <3>2. SubSeq(from_dev, 1, k) \o SubSeq(from_dev, k + 1, Len(from_dev)) = from_dev
        <4>1. 1 \in 1 .. Len(from_dev) + 1 /\ k \in (1 - 1) .. Len(from_dev)
              /\ Len(from_dev) \in k .. Len(from_dev)
          BY <2>1, AheadFacts
        <4>2. SubSeq(from_dev, 1, Len(from_dev)) = from_dev
          <5>1. Len(from_dev) <= Len(from_dev)
            BY AheadFacts
          <5> QED
            BY <5>1, AheadFacts, CutFacts, SeqEqual
        <4> QED
          BY <4>1, <4>2, AheadFacts, ConcatAdjacentSubSeq
      <3>3. framer'[l] = framer[l] \o SubSeq(from_dev, 1, k)
        BY <1>0, <2>1, <2>2 DEF TypeOK
      <3>4. (framer[l] \o SubSeq(from_dev, 1, k)) \o SubSeq(from_dev, k + 1, Len(from_dev))
                = framer[l] \o (SubSeq(from_dev, 1, k) \o SubSeq(from_dev, k + 1, Len(from_dev)))
        <4>1. PICK p \in Seq(Pieces) : p = framer[l]
          BY AheadFacts
        <4>2. PICK q \in Seq(Pieces) : q = SubSeq(from_dev, 1, k)
          BY <3>1
        <4>3. PICK r \in Seq(Pieces) : r = SubSeq(from_dev, k + 1, Len(from_dev))
          BY <3>1
        <4>4. (p \o q) \o r = p \o (q \o r)
          BY ConcatAssociative
        <4> QED
          BY <4>1, <4>2, <4>3, <4>4
      <3>5. Ahead(l)' = Ahead(l)
        BY <2>1, <3>2, <3>3, <3>4 DEF Ahead
      <3> QED
        BY <3>5, AheadFacts DEF Cut
    <2>3. CASE l # cur
      <3>1. framer'[l] = framer[l]
        BY <1>0, <2>1, <2>3 DEF TypeOK
      <3>2. PICK a \in Nat : a = Len(framer[l])
        BY AheadFacts
      <3>3. PICK n \in Nat : n = Len(from_dev)
        BY AheadFacts
      <3>4. /\ SubSeq(from_dev, k + 1, n) \in Seq(Pieces) /\ Len(SubSeq(from_dev, k + 1, n)) = n - k
            /\ \A i \in 1 .. (n - k) : SubSeq(from_dev, k + 1, n)[i] = from_dev[k + i]
        BY <2>1, <3>3, AheadFacts, CutFacts
      <3>5. Ahead(l)' = framer[l] \o SubSeq(from_dev, k + 1, n)
        BY <2>1, <3>1, <3>3 DEF Ahead
      <3>6. /\ Len(Ahead(l)') = a + (n - k)
            /\ \A i \in 1 .. (a + (n - k)) :
                   Ahead(l)'[i] = IF i <= a THEN framer[l][i]
                                  ELSE SubSeq(from_dev, k + 1, n)[i - a]
        <4>1. PICK p \in Seq(Pieces) : p = framer[l] /\ Len(p) = a
          BY <3>2, AheadFacts
        <4>2. PICK d \in Nat : d = n - k
          <5>1. k <= n
            BY <2>1, <3>3
          <5>2. n - k \in Nat
            BY ONLY <5>1, n \in Nat, k \in Nat
          <5> QED
            BY <5>2
        <4>3. PICK q \in Seq(Pieces) : q = SubSeq(from_dev, k + 1, n) /\ Len(q) = d
          BY <3>4, <4>2
        <4>4. /\ Len(p \o q) = a + d
              /\ \A i \in 1 .. (a + d) : (p \o q)[i] = IF i <= a THEN p[i] ELSE q[i - a]
          <5>1. Len(p) = a /\ Len(q) = d
            BY <4>1, <4>3
          <5>2. /\ Len(p \o q) = Len(p) + Len(q)
                /\ \A i \in 1 .. Len(p) + Len(q) :
                       (p \o q)[i] = IF i <= Len(p) THEN p[i] ELSE q[i - Len(p)]
            BY ConcatProperties
          <5> QED
            BY ONLY <5>1, <5>2
        <4> QED
          BY <3>5, <4>1, <4>2, <4>3, <4>4
      <3>7. \A i \in 1 .. (a + n) : Ahead(l)[i] = IF i <= a THEN framer[l][i] ELSE from_dev[i - a]
        BY <3>2, <3>3, AheadFacts
      <3>8. Len(Ahead(l)) = Len(Ahead(l)') + k
        BY <2>1, <3>2, <3>3, <3>6, AheadFacts
      <3>9. ASSUME NEW i \in 1 .. Len(Ahead(l)')
            PROVE  Ahead(l)'[i] = Ahead(l)[IF i <= a THEN i ELSE i + k]
        <4>0. i \in 1 .. (a + (n - k)) /\ k <= n
          BY <2>1, <3>3, <3>6
        <4>1. CASE i <= a
          <5>1. i \in 1 .. (a + n)
            BY <4>0
          <5> QED
            BY <3>6, <3>7, <4>0, <4>1, <5>1
        <4>2. CASE ~(i <= a)
          <5>1. /\ i + k \in 1 .. (a + n) /\ ~(i + k <= a) /\ (i + k) - a = k + (i - a)
                /\ i - a \in 1 .. (n - k)
            BY <4>0, <4>2
          <5>2. Ahead(l)'[i] = from_dev[k + (i - a)]
            BY <3>4, <3>6, <4>0, <4>2, <5>1
          <5>3. Ahead(l)[i + k] = from_dev[(i + k) - a]
            BY <3>7, <5>1
          <5> QED
            BY <4>2, <5>1, <5>2, <5>3
        <4> QED
          BY <4>1, <4>2
      <3>10. Cut(l, a, k)
        BY <3>8, <3>9 DEF Cut
      <3> QED
        BY <1>2, <2>3, <3>10 DEF TunnelRead
    <2> QED
      BY <2>2, <2>3
  <1>3. CASE TakesPacket
    <2>1. framer' = [framer EXCEPT ![cur] = AfterPacket(@)] /\ from_dev' = from_dev
      BY <1>3 DEF TakesPacket, ConnectSkips, ConnectRefused, Connected, ReadSkips, ReadReset,
         ReadFin, ReadData, Mine, Takes
    <2>2. CASE l # cur
      <3>1. framer'[l] = framer[l]
        BY <1>0, <2>1, <2>2 DEF TypeOK
      <3>2. Ahead(l)' = Ahead(l)
        BY <2>1, <3>1 DEF Ahead
      <3> QED
        BY <3>2, AheadFacts DEF Cut
    <2> QED
      BY <1>3, <2>2, PacketTaken
  <1>4. CASE ~TunnelRead /\ ~TakesPacket
    <2>1. UNCHANGED <<framer, from_dev>>
      BY <1>4 DEF Host, Call, CallSpins, Continue, Connect, Write, Read, Close, Destroy, WriteChunk,
         WriteFails, Written, ReadFails, Misframed, ReadReturns, ReadEnds, host
    <2> QED
      BY <1>1, <2>1
  <1> QED
    BY <1>2, <1>3, <1>4

\* The payload of a packet that a read took is heard next.
LEMMA TakenIsHanded ==
    ASSUME TypeOK, Whole, incoming[cur] = <<>>, heard' = heard,
           incoming' = [incoming EXCEPT ![cur] = Payload(Segment)], NEW l \in Links, cur = l
    PROVE  Handed(l, Segment) /\ Segment \in DevFrames /\ incoming'[l] = Payload(Segment)
  <1>0. heard[l] \in Seq(Units) /\ incoming[l] \in Seq(Units)
    BY DEF TypeOK
  <1>1. PICK f \in DevFrames : f = Segment
    BY TakesFacts
  <1>2. Hears(l) = heard[l] /\ Hears(l)' = heard[l] \o Payload(f) /\ incoming'[l] = Payload(f)
    BY <1>0, <1>1, ConcatEmptySeq DEF Hears, TypeOK
  <1>3. PICK h \in Nat : h = Len(heard[l])
    BY <1>0, LenProperties
  <1>4. PICK n \in Nat : n = f.n
    BY PayloadFacts
  <1>5. /\ Len(heard[l] \o Payload(f)) = h + n
        /\ \A i \in 1 .. (h + n) :
               (heard[l] \o Payload(f))[i] = IF i <= h THEN heard[l][i] ELSE Payload(f)[i - h]
    <2>1. PICK p \in Seq(Units) : p = heard[l] /\ Len(p) = h
      BY <1>0, <1>3
    <2>2. PICK q \in Seq(Units) : q = Payload(f) /\ Len(q) = n
      BY <1>4, PayloadFacts
    <2>3. /\ Len(p \o q) = h + n
          /\ \A i \in 1 .. (h + n) : (p \o q)[i] = IF i <= h THEN p[i] ELSE q[i - h]
      <3>1. Len(p) = h /\ Len(q) = n /\ p \in Seq(Units) /\ q \in Seq(Units)
        BY <2>1, <2>2
      <3> QED
        BY ONLY <3>1, ConcatProperties
    <2> QED
      BY <2>1, <2>2, <2>3
  <1>6. \A i \in 1 .. n : (heard[l] \o Payload(f))[h + i] = Payload(f)[i]
    <2>1. \A i \in 1 .. n : h + i \in 1 .. (h + n) /\ ~(h + i <= h) /\ (h + i) - h = i
      OBVIOUS
    <2> QED
      BY <1>5, <2>1
  <1>7. \A i \in 1 .. h : (heard[l] \o Payload(f))[i] = heard[l][i]
    <2>1. \A i \in 1 .. h : i \in 1 .. (h + n) /\ i <= h
      OBVIOUS
    <2> QED
      BY <1>5, <2>1
  <1>8. Handed(l, f)
    BY <1>2, <1>3, <1>4, <1>5, <1>6, <1>7, PayloadFacts DEF Handed
  <1> QED
    BY <1>1, <1>2, <1>8 DEF Handed

\* What is heard on a link grows by what a read takes; handing it out adds nothing.
LEMMA HostHears ==
    ASSUME TypeOK, Host, NEW l \in Links
    PROVE  \/ Hears(l)' = Hears(l)
           \/ cur = l /\ (ReadFin \/ ReadData) /\ Segment \in DevFrames /\ Handed(l, Segment)
              /\ incoming'[l] = Payload(Segment)
  <1>0. cur \in Links /\ heard[l] \in Seq(Units) /\ incoming[l] \in Seq(Units)
    BY DEF TypeOK
  <1>1. CASE UNCHANGED <<heard, incoming>>
    BY <1>1 DEF Hears
  <1>2. CASE ReadReturns
    <2>1. PICK k \in Nat :
              /\ k <= Len(incoming[cur])
              /\ heard' = [heard EXCEPT ![cur] = heard[cur] \o SubSeq(incoming[cur], 1, k)]
              /\ incoming' = [incoming EXCEPT
                                 ![cur] = SubSeq(incoming[cur], k + 1, Len(incoming[cur]))]
      <3>1. Len(incoming[cur]) \in Nat /\ left \in Nat
        BY LenProperties DEF TypeOK
      <3>2. PICK k \in Nat : k = Smaller(left, Len(incoming[cur])) /\ k <= Len(incoming[cur])
        BY <3>1 DEF Smaller
      <3> QED
        BY <1>2, <3>2 DEF ReadReturns, Rest
    <2>2. CASE l # cur
      BY <2>1, <2>2 DEF Hears, TypeOK
    <2>3. CASE l = cur
      <3>1. /\ heard'[l] = heard[l] \o SubSeq(incoming[l], 1, k)
            /\ incoming'[l] = SubSeq(incoming[l], k + 1, Len(incoming[l]))
        BY <1>0, <2>1, <2>3 DEF TypeOK
      <3>2. /\ SubSeq(incoming[l], 1, k) \in Seq(Units)
            /\ SubSeq(incoming[l], k + 1, Len(incoming[l])) \in Seq(Units)
        BY <1>0, <2>1, <2>3, CutFacts
      <3>3. SubSeq(incoming[l], 1, k) \o SubSeq(incoming[l], k + 1, Len(incoming[l])) = incoming[l]
        <4>0. Len(incoming[l]) \in Nat
          BY <1>0, LenProperties
        <4>1. 1 \in 1 .. Len(incoming[l]) + 1 /\ k \in (1 - 1) .. Len(incoming[l])
              /\ Len(incoming[l]) \in k .. Len(incoming[l])
          BY <2>1, <2>3, <4>0
        <4>2. SubSeq(incoming[l], 1, Len(incoming[l])) = incoming[l]
          <5>1. Len(incoming[l]) <= Len(incoming[l])
            BY <4>0
          <5> QED
            BY <1>0, <4>0, <5>1, CutFacts, SeqEqual
        <4> QED
          BY <1>0, <4>1, <4>2, ConcatAdjacentSubSeq
      <3>4. (heard[l] \o SubSeq(incoming[l], 1, k)) \o SubSeq(incoming[l], k + 1, Len(incoming[l]))
                = heard[l] \o (SubSeq(incoming[l], 1, k) \o SubSeq(incoming[l], k + 1, Len(incoming[l])))
        <4>1. PICK p \in Seq(Units) : p = heard[l]
          BY <1>0
        <4>2. PICK q \in Seq(Units) : q = SubSeq(incoming[l], 1, k)
          BY <3>2
        <4>3. PICK r \in Seq(Units) : r = SubSeq(incoming[l], k + 1, Len(incoming[l]))
          BY <3>2
        <4>4. (p \o q) \o r = p \o (q \o r)
          BY ConcatAssociative
        <4> QED
          BY <4>1, <4>2, <4>3, <4>4
      <3> QED
        BY <3>1, <3>3, <3>4 DEF Hears
    <2> QED
      BY <2>2, <2>3
  <1>3. CASE heard' = heard /\ incoming' = [incoming EXCEPT ![cur] = Payload(Segment)]
             /\ incoming[cur] = <<>> /\ Whole /\ (ReadFin \/ ReadData)
    <2>1. CASE l # cur
      BY <1>3, <2>1 DEF Hears, TypeOK
    <2>2. CASE l = cur
      BY <1>3, <2>2, TakenIsHanded
    <2> QED
      BY <2>1, <2>2
  <1>4. CASE ReadFin
    BY <1>3, <1>4 DEF ReadFin, Mine, Takes, Waits
  <1>5. CASE ReadData
    <2>1. incoming[cur] = <<>> /\ Whole /\ heard' = heard
      BY <1>5 DEF ReadData, Mine, Takes, Waits, history
    <2> QED
      BY <1>1, <1>3, <1>5, <2>1 DEF ReadData
  <1>6. CASE ~ReadReturns /\ ~ReadFin /\ ~ReadData
    <2>1. UNCHANGED <<heard, incoming>>
      BY <1>6 DEF Host, Call, CallSpins, Continue, TakesPacket, Connect, Write, Read, Close, Destroy,
         WriteChunk, WriteFails, Written, TunnelRead, ReadFails, Misframed, ConnectSkips,
         ConnectRefused, Connected, ReadSkips, ReadReset, ReadEnds, host, history
    <2> QED
      BY <1>1, <2>1
  <1> QED
    BY <1>2, <1>4, <1>5, <1>6

\* What a step of the device says.
SpeakShape ==
    \/ UNCHANGED <<from_dev, dev_sent, dev_done, resends>>
    \/ \E l \in Links, f \in DevFrames :
           /\ f.link = l /\ DevSends(f)
           /\ \/ /\ f.type \in {"SYNACK", "ACK", "RST"} /\ (f.type = "SYNACK" => f.seq = 0)
                 /\ UNCHANGED <<dev_sent, dev_done, resends>>
              \/ /\ f.type \in {"DATA", "FIN"} /\ dev[l] = "open" /\ ~dev_done[l]
                 /\ f.seq = dev_sent[l] + 1 /\ UNCHANGED resends
                 /\ dev_sent' = [dev_sent EXCEPT ![l] = @ + f.n]
                 /\ dev_done' = [dev_done EXCEPT ![l] = (f.type = "FIN")]
              \/ /\ f.type = "DATA" /\ dev[l] = "open" /\ resends < use.resends
                 /\ f.seq = recv_seq[l] /\ After(f) = dev_sent[l] + 1
                 /\ UNCHANGED <<dev_sent, dev_done>>

\* Every step of the device is one of these.
LEMMA DevSaid ==
    ASSUME TypeOK, Device
    PROVE  SpeakShape
  <1>0. \A l \in Links : dev_sent[l] \in Nat /\ recv_seq[l] \in Nat
    BY UseFacts DEF TypeOK
  <1>1. CASE TunnelEnds
    BY <1>1 DEF TunnelEnds, device, SpeakShape
  <1>2. ASSUME NEW l \in Links, NEW type \in {"SYNACK", "ACK", "RST"}, NEW seq \in Nat,
               DevSends(DevFrame(l, type, seq, 0)), type = "SYNACK" => seq = 0,
               UNCHANGED <<dev_sent, dev_done, resends>>
        PROVE  SpeakShape
    <2>1. PICK f \in DevFrames : f = DevFrame(l, type, seq, 0)
      BY DEF DevFrame, DevFrames
    <2>2. f.link = l /\ f.type = type /\ f.seq = seq
      BY <2>1 DEF DevFrame
    <2> QED
      BY <1>2, <2>1, <2>2 DEF SpeakShape
  <1>3. ASSUME NEW l \in Links, DevSyn(l)
        PROVE  SpeakShape
    <2>1. 0 \in Nat /\ UNCHANGED <<dev_sent, dev_done, resends>>
          /\ (DevSends(DevFrame(l, "SYNACK", 0, 0)) \/ DevSends(DevFrame(l, "RST", 0, 0)))
      BY <1>3 DEF DevSyn
    <2> QED
      BY <1>2, <2>1
  <1>4. ASSUME NEW l \in Links, DevNext(l)
        PROVE  SpeakShape
    <2>1. UNCHANGED <<dev_sent, dev_done, resends>> /\ dev_sent[l] + 1 \in Nat
          /\ (from_dev' = from_dev \/ DevSends(DevFrame(l, "ACK", dev_sent[l] + 1, 0)))
      BY <1>0, <1>4 DEF DevNext
    <2>2. CASE from_dev' = from_dev
      BY <2>1, <2>2 DEF SpeakShape
    <2> QED
      BY <1>2, <2>1, <2>2
  <1>5. ASSUME NEW l \in Links, DevRefuses(l) \/ DevReset(l)
        PROVE  SpeakShape
    <2>1. UNCHANGED <<dev_sent, dev_done, resends>> /\ DevSends(DevFrame(l, "RST", 0, 0))
      BY <1>5 DEF DevRefuses, DevReset
    <2> QED
      BY <1>2, <2>1
  <1>6. ASSUME NEW l \in Links, NEW n \in 0 .. use.mss, DevData(l, n)
        PROVE  SpeakShape
    <2>0. n \in Nat
      BY UseFacts
    <2>1. PICK type \in {"DATA", "FIN"} :
              /\ DevSends(DevFrame(l, type, dev_sent[l] + 1, n))
              /\ type = "DATA" => UNCHANGED dev_done
              /\ type = "FIN" => dev_done' = [dev_done EXCEPT ![l] = TRUE]
      BY <1>6 DEF DevData
    <2>2. PICK f \in DevFrames : f = DevFrame(l, type, dev_sent[l] + 1, n)
      <3>1. dev_sent[l] + 1 \in Nat /\ type \in {"SYNACK", "ACK", "DATA", "FIN", "RST"}
        BY <1>0
      <3> QED
        BY <2>0, <3>1 DEF DevFrame, DevFrames
    <2>3. f.link = l /\ f.type = type /\ f.seq = dev_sent[l] + 1 /\ f.n = n
      BY <2>2 DEF DevFrame
    <2>4. dev[l] = "open" /\ ~dev_done[l] /\ dev_sent' = [dev_sent EXCEPT ![l] = @ + f.n]
          /\ UNCHANGED resends
      BY <1>6, <2>3 DEF DevData
    <2>5. dev_done' = [dev_done EXCEPT ![l] = (type = "FIN")]
      <3>1. type = "DATA" => dev_done = [dev_done EXCEPT ![l] = FALSE]
        BY <2>4 DEF TypeOK
      <3> QED
        BY <2>1, <3>1
    <2> QED
      BY <2>1, <2>2, <2>3, <2>4, <2>5 DEF SpeakShape
  <1>7. ASSUME NEW l \in Links, DevResends(l)
        PROVE  SpeakShape
    <2>1. dev_sent[l] + 1 - recv_seq[l] \in Nat
      BY <1>0, <1>7 DEF DevResends
    <2>2. PICK f \in DevFrames : f = DevFrame(l, "DATA", recv_seq[l], dev_sent[l] + 1 - recv_seq[l])
      BY <1>0, <2>1 DEF DevFrame, DevFrames
    <2>3. /\ f.link = l /\ f.type = "DATA" /\ f.seq = recv_seq[l]
          /\ f.n = dev_sent[l] + 1 - recv_seq[l]
      BY <2>2 DEF DevFrame
    <2>4. After(f) = dev_sent[l] + 1
      BY <1>0, <2>3 DEF After
    <2> QED
      BY <1>7, <2>2, <2>3, <2>4 DEF DevResends, SpeakShape
  <1> QED
    BY <1>1, <1>3, <1>4, <1>5, <1>6, <1>7 DEF Device, DevTakes, Serves

\* What it says is ahead of every link.
LEMMA DevGrows ==
    ASSUME TypeOK, Device, NEW l \in Links
    PROVE  /\ from_dev' = from_dev => Ahead(l)' = Ahead(l)
           /\ \A f \in DevFrames : DevSends(f) => Grown(l, f)
           /\ Hears(l)' = Hears(l)
  <1>1. UNCHANGED <<framer, heard, incoming>>
    BY DeviceLeavesHost
  <1>2. ASSUME NEW f \in DevFrames, DevSends(f)
        PROVE  Grown(l, f)
    <2>1. PICK x \in Pieces : x = [frame |-> f, part |-> 1]
      BY DEF Pieces
    <2>2. PICK y \in Pieces : y = [frame |-> f, part |-> 2]
      BY DEF Pieces
    <2>3. <<x, y>> \in Seq(Pieces) /\ Len(<<x, y>>) = 2 /\ <<x, y>>[1] = x /\ <<x, y>>[2] = y
      OBVIOUS
    <2>4. from_dev' = from_dev \o <<x, y>>
      BY <1>2, <2>1, <2>2 DEF DevSends
    <2>5. Ahead(l)' = framer[l] \o (from_dev \o <<x, y>>)
      BY <1>1, <2>4 DEF Ahead
    <2>6. Ahead(l)' = Ahead(l) \o <<x, y>>
      <3>1. PICK p \in Seq(Pieces) : p = framer[l]
        BY AheadFacts
      <3>2. PICK q \in Seq(Pieces) : q = from_dev
        BY AheadFacts
      <3>3. (p \o q) \o <<x, y>> = p \o (q \o <<x, y>>)
        BY <2>3, ConcatAssociative
      <3> QED
        BY <2>5, <3>1, <3>2, <3>3 DEF Ahead
    <2>7. PICK n \in Nat : n = Len(Ahead(l))
      BY AheadFacts
    <2>8. /\ Len(Ahead(l)') = n + 2
          /\ \A i \in 1 .. (n + 2) :
                 Ahead(l)'[i] = IF i <= n THEN Ahead(l)[i] ELSE <<x, y>>[i - n]
      BY <2>3, <2>6, <2>7, AheadFacts, ConcatProperties
    <2>9. /\ n + 1 \in 1 .. (n + 2) /\ ~(n + 1 <= n) /\ (n + 1) - n = 1
          /\ n + 2 \in 1 .. (n + 2) /\ ~(n + 2 <= n) /\ (n + 2) - n = 2
      OBVIOUS
    <2>10. Ahead(l)'[n + 1] = x /\ Ahead(l)'[n + 2] = y
      BY <2>3, <2>8, <2>9
    <2>11. \A i \in 1 .. n : Ahead(l)'[i] = Ahead(l)[i]
      BY <2>8
    <2> QED
      BY <2>1, <2>2, <2>7, <2>8, <2>10, <2>11 DEF Grown
  <1> QED
    BY <1>1, <1>2 DEF Ahead, Hears
-----------------------------------------------------------------------------
(* The packets from the device.                                            *)

\* Where a piece was before some were taken.
Before(i, a, k) == IF i <= a THEN i ELSE i + k

\* Where the pieces that are left were before.
LEMMA CutIndex ==
    ASSUME TypeOK, NEW l \in Links, NEW a \in Nat, NEW k \in Nat, Cut(l, a, k)
    PROVE  /\ \A i \in 1 .. Len(Ahead(l)') :
                  /\ Before(i, a, k) \in 1 .. Len(Ahead(l))
                  /\ Ahead(l)'[i] = Ahead(l)[Before(i, a, k)]
           /\ \A i, j \in 1 .. Len(Ahead(l)') : i < j => Before(i, a, k) < Before(j, a, k)
  <1>1. PICK n \in Nat : n = Len(Ahead(l))
    BY AheadFacts
  <1>2. n = Len(Ahead(l)') + k
    BY <1>1 DEF Cut
  <1>3. \A i \in 1 .. Len(Ahead(l)') : Before(i, a, k) \in 1 .. n
    <2>1. ASSUME NEW i \in 1 .. Len(Ahead(l)')
          PROVE  Before(i, a, k) \in 1 .. n
      <3>1. Ahead(l)' = framer'[l] \o from_dev'
        BY DEF Ahead
      <3>2. CASE Len(Ahead(l)') \in Int
        BY <1>2, <3>2 DEF Before
      <3>3. CASE Len(Ahead(l)') \notin Int
        BY <1>2, <3>3 DEF Before
      <3> QED
        BY <3>2, <3>3
    <2> QED
      BY <2>1
  <1> QED
    BY <1>1, <1>3 DEF Cut, Before

\* Where a piece comes from when a packet has come.
LEMMA GrownIndex ==
    ASSUME TypeOK, NEW l \in Links, NEW f \in DevFrames, Grown(l, f)
    PROVE  /\ Len(Ahead(l)) \in Nat /\ Len(Ahead(l)') = Len(Ahead(l)) + 2
           /\ \A i \in 1 .. Len(Ahead(l)') :
                  \/ i \in 1 .. Len(Ahead(l)) /\ Ahead(l)'[i] = Ahead(l)[i]
                  \/ i = Len(Ahead(l)) + 1 /\ Ahead(l)'[i] = [frame |-> f, part |-> 1]
                  \/ i = Len(Ahead(l)) + 2 /\ Ahead(l)'[i] = [frame |-> f, part |-> 2]
           /\ \A i \in 1 .. Len(Ahead(l)) : i \in 1 .. Len(Ahead(l)') /\ Ahead(l)'[i] = Ahead(l)[i]
  <1>1. PICK n \in Nat : n = Len(Ahead(l))
    BY AheadFacts
  <1>2. \A i \in 1 .. (n + 2) : i \in 1 .. n \/ i = n + 1 \/ i = n + 2
    OBVIOUS
  <1> QED
    BY <1>1, <1>2 DEF Grown

\* The numbers of a piece are numbers.
LEMMA PieceFacts ==
    ASSUME NEW x \in Pieces
    PROVE  /\ x.frame \in DevFrames /\ x.part \in {1, 2} /\ x.frame.seq \in Nat /\ x.frame.n \in Nat
           /\ After(x.frame) \in Nat /\ x.frame.seq <= After(x.frame)
  BY DEF Pieces, DevFrames, After

\* A link that was made and connected does not go back.
LEMMA StaysMade ==
    ASSUME TypeOK, Host, NEW l \in Links, st[l] \notin {"none", "connecting"}
    PROVE  st'[l] \notin {"none", "connecting"}
  <1>1. StShape /\ cur \in Links
    BY HostStShape DEF TypeOK
  <1> QED
    BY <1>1 DEF StShape, TypeOK

\* What the device sends is counted, and no more after its FIN.
LEMMA SentGrows ==
    ASSUME TypeOK, Device, NEW l \in Links
    PROVE  /\ dev_sent[l] \in Nat /\ dev_sent'[l] \in Nat /\ dev_sent[l] <= dev_sent'[l]
           /\ dev_done[l] => dev_sent'[l] = dev_sent[l] /\ dev_done'[l]
  <1>1. dev_sent[l] \in Nat
    BY UseFacts DEF TypeOK
  <1>2. \A f \in DevFrames : f.n \in Nat
    BY DEF DevFrames
  <1>3. SpeakShape
    BY DevSaid
  <1>4. CASE UNCHANGED <<dev_sent, dev_done>>
    BY <1>1, <1>4
  <1>5. ASSUME NEW m \in Links, NEW f \in DevFrames, ~dev_done[m],
               dev_sent' = [dev_sent EXCEPT ![m] = @ + f.n],
               dev_done' = [dev_done EXCEPT ![m] = (f.type = "FIN")]
        PROVE  /\ dev_sent'[l] \in Nat /\ dev_sent[l] <= dev_sent'[l]
               /\ dev_done[l] => dev_sent'[l] = dev_sent[l] /\ dev_done'[l]
    <2>1. CASE l = m
      <3>1. dev_sent'[l] = dev_sent[l] + f.n
        BY <1>5, <2>1 DEF TypeOK
      <3> QED
        BY <1>1, <1>2, <1>5, <2>1, <3>1
    <2>2. CASE l # m
      <3>1. dev_sent'[l] = dev_sent[l] /\ dev_done'[l] = dev_done[l]
        BY <1>5, <2>2 DEF TypeOK
      <3> QED
        BY <1>1, <3>1
    <2> QED
      BY <2>1, <2>2
  <1> QED
    BY <1>1, <1>3, <1>4, <1>5 DEF SpeakShape

\* The device's side of a link opens when the host's side is connected.
LEMMA OpenedLate ==
    ASSUME TypeOK, Made, SynFirst, Device, NEW l \in Links, dev'[l] = "open", dev[l] # "open"
    PROVE  st[l] \notin {"none", "connecting"}
  <1>1. TurnShape
    BY DevTurns
  <1>2. to_dev # <<>> /\ to_dev[1].link = l /\ to_dev[1].type # "SYN"
    BY <1>1 DEF TurnShape
  <1>3. 1 \in 1 .. Len(to_dev)
    BY <1>2, RestFacts DEF TypeOK
  <1> QED
    BY <1>2, <1>3 DEF SynFirst, SynFirstOf, Made, Unmade

\* The packets of a link stay those of a connection whose data was sent.
LEMMA DevSpeaksKept ==
    TypeOK /\ Made /\ SynFirst /\ DevSpeaks /\ [Next]_vars => DevSpeaks'
  <1> SUFFICES ASSUME TypeOK, Made, SynFirst, DevSpeaks, [Next]_vars, NEW l \in Links
               PROVE  DevSpeaksOf(l)'
    BY DEF DevSpeaks
  <1>0. DevSpeaksOf(l) /\ dev_sent[l] \in Nat
    BY UseFacts DEF DevSpeaks, TypeOK
  <1>1. CASE UNCHANGED vars
    BY <1>0, <1>1 DEF DevSpeaksOf, Ahead, Speaks, vars, host, device
  <1>2. CASE Host
    <2>1. dev'[l] = dev[l] /\ dev_sent'[l] = dev_sent[l] /\ dev_done'[l] = dev_done[l]
      BY <1>2, HostLeavesDevice
    <2>2. PICK a \in Nat, k \in Nat : Cut(l, a, k)
      BY <1>2, HostReads
    <2>3. st[l] \notin {"none", "connecting"} => st'[l] \notin {"none", "connecting"}
      BY <1>2, StaysMade
    <2>4. \A i \in 1 .. Len(Ahead(l)') : \E j \in 1 .. Len(Ahead(l)) : Ahead(l)'[i] = Ahead(l)[j]
      BY <2>2, CutIndex
    <2>5. \A i \in 1 .. Len(Ahead(l)') :
              Ahead(l)'[i].frame.link = l /\ Ahead(l)'[i].frame.type = "SYNACK" =>
                  Ahead(l)'[i].frame.seq = 0
      BY <1>0, <2>4 DEF DevSpeaksOf
    <2>6. ASSUME NEW i \in 1 .. Len(Ahead(l)'), Speaks(Ahead(l)'[i], l)
          PROVE  /\ st'[l] \notin {"none", "connecting"}
                 /\ After(Ahead(l)'[i].frame) <= dev_sent[l] + 1
                 /\ Ahead(l)'[i].frame.type = "FIN" =>
                        dev_done[l] /\ After(Ahead(l)'[i].frame) = dev_sent[l] + 1
      BY <1>0, <2>3, <2>4, <2>6 DEF DevSpeaksOf
    <2> QED
      BY <1>0, <2>1, <2>3, <2>5, <2>6 DEF DevSpeaksOf
  <1>3. CASE Device
    <2>1. st' = st
      BY <1>3, DeviceLeavesHost
    <2>2. dev'[l] = "open" => st[l] \notin {"none", "connecting"}
      BY <1>0, <1>3, OpenedLate DEF DevSpeaksOf
    <2>3. /\ dev_sent'[l] \in Nat /\ dev_sent[l] <= dev_sent'[l]
          /\ dev_done[l] => dev_sent'[l] = dev_sent[l] /\ dev_done'[l]
      BY <1>3, SentGrows
    <2>4. ASSUME NEW i \in 1 .. Len(Ahead(l))
          PROVE  /\ Ahead(l)[i].frame.link = l /\ Ahead(l)[i].frame.type = "SYNACK" =>
                        Ahead(l)[i].frame.seq = 0
                 /\ Speaks(Ahead(l)[i], l) =>
                        /\ st[l] \notin {"none", "connecting"}
                        /\ After(Ahead(l)[i].frame) <= dev_sent'[l] + 1
                        /\ Ahead(l)[i].frame.type = "FIN" =>
                               dev_done'[l] /\ After(Ahead(l)[i].frame) = dev_sent'[l] + 1
      <3>1. PICK x \in Pieces : x = Ahead(l)[i]
        BY AheadFacts
      <3>2. After(x.frame) \in Nat
        BY PieceFacts
      <3> QED
        BY <1>0, <2>3, <3>1, <3>2 DEF DevSpeaksOf
    <2>5. CASE UNCHANGED <<from_dev, dev_sent, dev_done>>
      <3>1. Ahead(l)' = Ahead(l)
        BY <1>3, <2>5, DevGrows
      <3> QED
        BY <1>0, <2>1, <2>2, <2>4, <2>5, <3>1 DEF DevSpeaksOf
    <2>6. ASSUME NEW m \in Links, NEW f \in DevFrames, f.link = m, DevSends(f),
                 f.type = "SYNACK" => f.seq = 0,
                 f.type \in {"DATA", "FIN"} =>
                     dev[m] = "open" /\ After(f) = dev_sent'[m] + 1 /\ (f.type = "FIN" => dev_done'[m]),
                 m # l \/ f.type \notin {"DATA", "FIN"} =>
                     dev_sent'[l] = dev_sent[l] /\ dev_done'[l] = dev_done[l]
          PROVE  DevSpeaksOf(l)'
      <3>1. Grown(l, f)
        BY <1>3, <2>6, DevGrows
      <3>2. dev_sent'[l] > 0 \/ dev_done'[l] => st[l] \notin {"none", "connecting"}
        BY <1>0, <2>6 DEF DevSpeaksOf
      <3>3. ASSUME NEW i \in 1 .. Len(Ahead(l)')
            PROVE  /\ Ahead(l)'[i].frame.link = l /\ Ahead(l)'[i].frame.type = "SYNACK" =>
                          Ahead(l)'[i].frame.seq = 0
                   /\ Speaks(Ahead(l)'[i], l) =>
                          /\ st[l] \notin {"none", "connecting"}
                          /\ After(Ahead(l)'[i].frame) <= dev_sent'[l] + 1
                          /\ Ahead(l)'[i].frame.type = "FIN" =>
                                 dev_done'[l] /\ After(Ahead(l)'[i].frame) = dev_sent'[l] + 1
        <4>1. CASE i \in 1 .. Len(Ahead(l)) /\ Ahead(l)'[i] = Ahead(l)[i]
          BY <2>4, <4>1
        <4>2. ASSUME NEW p \in {1, 2}, Ahead(l)'[i] = [frame |-> f, part |-> p]
              PROVE  /\ Ahead(l)'[i].frame.link = l /\ Ahead(l)'[i].frame.type = "SYNACK" =>
                            Ahead(l)'[i].frame.seq = 0
                     /\ Speaks(Ahead(l)'[i], l) =>
                            /\ st[l] \notin {"none", "connecting"}
                            /\ After(Ahead(l)'[i].frame) <= dev_sent'[l] + 1
                            /\ Ahead(l)'[i].frame.type = "FIN" =>
                                   dev_done'[l] /\ After(Ahead(l)'[i].frame) = dev_sent'[l] + 1
          BY <1>0, <2>3, <2>6, <4>2 DEF DevSpeaksOf, Speaks
        <4> QED
          BY <3>1, <4>1, <4>2, GrownIndex
      <3> QED
        BY <2>1, <2>2, <3>2, <3>3 DEF DevSpeaksOf
    <2>7. ASSUME NEW m \in Links, NEW f \in DevFrames, f.link = m, DevSends(f),
                 dev[m] = "open", f.seq = dev_sent[m] + 1, f.type \in {"DATA", "FIN"},
                 dev_sent' = [dev_sent EXCEPT ![m] = @ + f.n],
                 dev_done' = [dev_done EXCEPT ![m] = (f.type = "FIN")]
          PROVE  DevSpeaksOf(l)'
      <3>1. f.n \in Nat /\ dev_sent[m] \in Nat
        BY UseFacts DEF DevFrames, TypeOK
      <3>2. dev_sent'[m] = dev_sent[m] + f.n /\ (f.type = "FIN" => dev_done'[m])
        BY <2>7 DEF TypeOK
      <3>3. After(f) = dev_sent'[m] + 1
        BY <2>7, <3>1, <3>2 DEF After
      <3>4. m # l => dev_sent'[l] = dev_sent[l] /\ dev_done'[l] = dev_done[l]
        BY <2>7 DEF TypeOK
      <3> QED
        BY <2>6, <2>7, <3>2, <3>3, <3>4
    <2>8. ASSUME NEW m \in Links, NEW f \in DevFrames, f.link = m, DevSends(f), f.type = "DATA",
                 dev[m] = "open", After(f) = dev_sent[m] + 1, UNCHANGED <<dev_sent, dev_done>>
          PROVE  DevSpeaksOf(l)'
      BY <2>6, <2>8
    <2>9. ASSUME NEW m \in Links, NEW f \in DevFrames, f.link = m, DevSends(f),
                 f.type \in {"SYNACK", "ACK", "RST"}, f.type = "SYNACK" => f.seq = 0,
                 UNCHANGED <<dev_sent, dev_done>>
          PROVE  DevSpeaksOf(l)'
      BY <2>6, <2>9
    <2>10. SpeakShape
      BY <1>3, DevSaid
    <2> QED
      BY <2>5, <2>7, <2>8, <2>9, <2>10 DEF SpeakShape
  <1> QED
    BY <1>1, <1>2, <1>3, TwoSides

\* The packet a read takes is the first ahead.
LEMMA FirstAhead ==
    ASSUME TypeOK, ReadFin \/ ReadData, NEW l \in Links, cur = l
    PROVE  /\ Segment \in DevFrames /\ Segment.link = l /\ Segment.type \in {"DATA", "FIN"}
           /\ 1 \in 1 .. Len(Ahead(l)) /\ Speaks(Ahead(l)[1], l) /\ Ahead(l)[1].frame = Segment
  <1>1. Whole /\ Segment.link = l /\ Segment.type \in {"DATA", "FIN"}
    BY DEF ReadFin, ReadData, Mine, IsMine, Takes
  <1>2. PICK a \in Nat : a = Len(framer[l]) /\ a >= 2
    BY <1>1, TakesFacts
  <1>3. PICK n \in Nat : n = Len(from_dev)
    BY AheadFacts
  <1>4. Len(Ahead(l)) = a + n /\ 1 \in 1 .. (a + n) /\ 1 <= a
    BY <1>2, <1>3, AheadFacts
  <1>5. Ahead(l)[1] = framer[l][1]
    BY <1>2, <1>4, AheadFacts
  <1> QED
    BY <1>1, <1>4, <1>5, TakesFacts DEF Segment, Buffer, Speaks

\* Where a unit that is heard comes from.
LEMMA HandedIndex ==
    ASSUME TypeOK, NEW l \in Links, NEW f \in DevFrames, f.link = l, Handed(l, f)
    PROVE  /\ Len(Hears(l)) \in Nat /\ f.n \in Nat /\ f.seq \in Nat
           /\ Len(Hears(l)') = Len(Hears(l)) + f.n
           /\ \A i \in 1 .. Len(Hears(l)') :
                  \/ i \in 1 .. Len(Hears(l)) /\ Hears(l)'[i] = Hears(l)[i]
                  \/ \E j \in 1 .. f.n : /\ i = Len(Hears(l)) + j
                                         /\ Hears(l)'[i].link = l /\ Hears(l)'[i].at = f.seq + j - 1
  <1>1. PICK n \in Nat : n = Len(Hears(l))
    BY AheadFacts
  <1>2. PICK c \in Nat : c = f.n /\ f.seq \in Nat
    BY DEF DevFrames
  <1>3. /\ Len(Hears(l)') = n + c
        /\ \A i \in 1 .. n : Hears(l)'[i] = Hears(l)[i]
        /\ \A j \in 1 .. c : Hears(l)'[n + j].link = l /\ Hears(l)'[n + j].at = f.seq + j - 1
    <2>1. \A j \in 1 .. c :
              Hears(l)'[n + j] = [link |-> f.link, at |-> f.seq + j - 1]
      BY <1>1, <1>2 DEF Handed
    <2>2. Len(Hears(l)') = n + c /\ \A i \in 1 .. n : Hears(l)'[i] = Hears(l)[i]
      BY <1>1, <1>2 DEF Handed
    <2>3. ASSUME NEW j \in 1 .. c
          PROVE  Hears(l)'[n + j].link = l /\ Hears(l)'[n + j].at = f.seq + j - 1
      <3>1. Hears(l)'[n + j] = [link |-> f.link, at |-> f.seq + j - 1]
        BY <2>1
      <3> QED
        BY ONLY <3>1, f.link = l
    <2> QED
      BY <2>2, <2>3
  <1>4. ASSUME NEW i \in 1 .. (n + c), i \notin 1 .. n
        PROVE  \E j \in 1 .. c : /\ i = n + j
                                 /\ Hears(l)'[i].link = l /\ Hears(l)'[i].at = f.seq + j - 1
    <2>1. PICK j \in 1 .. c : j = i - n /\ i = n + j
      <3>1. i - n \in 1 .. c /\ i = n + (i - n)
        BY <1>4
      <3> QED
        BY <3>1
    <2>2. Hears(l)'[n + j].link = l /\ Hears(l)'[n + j].at = f.seq + j - 1
      BY <1>3
    <2> QED
      BY <2>1, <2>2
  <1> QED
    BY <1>1, <1>2, <1>3, <1>4

\* What is heard was sent on the link.
LEMMA HeardExactKept ==
    TypeOK /\ DevSpeaks /\ HeardExact /\ [Next]_vars => HeardExact'
  <1> SUFFICES ASSUME TypeOK, DevSpeaks, HeardExact, [Next]_vars, NEW l \in Links
               PROVE  HeardExactOf(l)'
    BY DEF HeardExact
  <1>0. HeardExactOf(l) /\ dev_sent[l] \in Nat
    BY UseFacts DEF HeardExact, TypeOK
  <1>1. CASE UNCHANGED vars
    BY <1>0, <1>1 DEF HeardExactOf, Hears, vars, host, device, history
  <1>2. CASE Device
    <2>1. \A i \in 1 .. Len(Hears(l)) : Hears(l)[i].at \in Nat
      BY AheadFacts DEF Units
    <2> QED
      BY <1>0, <1>2, <2>1, SentGrows, DevGrows DEF HeardExactOf
  <1>3. CASE Host
    <2>1. dev_sent' = dev_sent
      BY <1>3, HostLeavesDevice
    <2>2. CASE Hears(l)' = Hears(l)
      BY <1>0, <2>1, <2>2 DEF HeardExactOf
    <2>3. ASSUME cur = l, ReadFin \/ ReadData, Handed(l, Segment)
          PROVE  HeardExactOf(l)'
      <3>1. PICK f \in DevFrames : f = Segment /\ f.link = l
        BY <2>3, FirstAhead
      <3>2. After(f) <= dev_sent[l] + 1
        BY <2>3, <3>1, FirstAhead DEF DevSpeaks, DevSpeaksOf
      <3>3. f.n \in Nat /\ f.seq \in Nat /\ \A j \in 1 .. f.n : f.seq + j - 1 <= dev_sent[l]
        BY <1>0, <3>2 DEF DevFrames, After
      <3>4. \A i \in 1 .. Len(Hears(l)') : Hears(l)'[i].link = l /\ Hears(l)'[i].at <= dev_sent[l]
        <4>1. Handed(l, f)
          BY <2>3, <3>1 DEF Handed
        <4> QED
          BY <1>0, <3>1, <3>3, <4>1, HandedIndex DEF HeardExactOf
      <3> QED
        BY <2>1, <3>4 DEF HeardExactOf
    <2> QED
      BY <1>3, <2>2, <2>3, HostHears
  <1> QED
    BY <1>1, <1>2, <1>3, TwoSides
\* What is sent once is in order, ahead of a link and after it was heard.
LEMMA InOrderKept ==
    TypeOK /\ DevSpeaks /\ HeardExact /\ use.resends = 0 /\ InOrder /\ [Next]_vars => InOrder'
  <1> SUFFICES ASSUME TypeOK, DevSpeaks, HeardExact, use.resends = 0, InOrder, [Next]_vars,
                      NEW l \in Links
               PROVE  InOrderOf(l)'
    BY DEF InOrder
  <1> DEFINE Q == Ahead(l)
             H == Hears(l)
  <1>0. /\ InOrderOf(l) /\ DevSpeaksOf(l) /\ HeardExactOf(l)
        /\ Len(Q) \in Nat /\ Len(H) \in Nat /\ dev_sent[l] \in Nat
        /\ \A i \in 1 .. Len(Q) : Q[i] \in Pieces
        /\ \A i \in 1 .. Len(H) : H[i].at \in Nat
    <2>1. dev_sent[l] \in Nat
      BY UseFacts DEF TypeOK
    <2>2. \A i \in 1 .. Len(H) : H[i].at \in Nat
      BY AheadFacts DEF Units
    <2> QED
      BY <2>1, <2>2, AheadFacts DEF InOrder, DevSpeaks, HeardExact
  <1>1. CASE Q' = Q /\ H' = H
    BY <1>0, <1>1 DEF InOrderOf
  <1>2. ASSUME Host, NEW a \in Nat, NEW k \in Nat, Cut(l, a, k), H' = H
        PROVE  InOrderOf(l)'
    <2>1. /\ \A i \in 1 .. Len(Q') : Before(i, a, k) \in 1 .. Len(Q) /\ Q'[i] = Q[Before(i, a, k)]
          /\ \A i, j \in 1 .. Len(Q') : i < j => Before(i, a, k) < Before(j, a, k)
      BY <1>2, CutIndex
    <2>2. ASSUME NEW i \in 1 .. Len(Q'), Speaks(Q'[i], l)
          PROVE  /\ Q'[i].frame.seq >= 1
                 /\ \A j \in 1 .. Len(Q') : i < j /\ Speaks(Q'[j], l) =>
                        After(Q'[i].frame) <= Q'[j].frame.seq
                 /\ \A m \in 1 .. Len(H) : H[m].at < Q'[i].frame.seq
      <3>1. PICK b \in 1 .. Len(Q) : b = Before(i, a, k) /\ Q'[i] = Q[b]
        BY <2>1
      <3>2. ASSUME NEW j \in 1 .. Len(Q'), i < j, Speaks(Q'[j], l)
            PROVE  After(Q'[i].frame) <= Q'[j].frame.seq
        <4>1. PICK c \in 1 .. Len(Q) : c = Before(j, a, k) /\ Q'[j] = Q[c] /\ b < c
          BY <2>1, <3>1, <3>2
        <4> QED
          BY <1>0, <2>2, <3>1, <3>2, <4>1 DEF InOrderOf
      <3> QED
        BY <1>0, <2>2, <3>1, <3>2 DEF InOrderOf
    <2> QED
      BY <1>0, <1>2, <2>2 DEF InOrderOf
  <1>3. ASSUME Host, cur = l, ReadFin \/ ReadData, Handed(l, Segment), Cut(l, 0, 2)
        PROVE  InOrderOf(l)'
    <2>1. \A i \in 1 .. Len(Q') : /\ i + 2 \in 1 .. Len(Q) /\ Q'[i] = Q[i + 2]
      <3>1. \A i \in 1 .. Len(Q') : Before(i, 0, 2) = i + 2
        BY DEF Before
      <3> QED
        BY <1>3, <3>1, CutIndex
    <2>2. PICK f \in DevFrames : f = Segment /\ f.link = l
      BY <1>3, FirstAhead
    <2>3. 1 \in 1 .. Len(Q) /\ Speaks(Q[1], l) /\ Q[1].frame = f /\ f.seq \in Nat /\ f.n \in Nat
      BY <1>3, <2>2, FirstAhead DEF DevFrames
    <2>4. ASSUME NEW i \in 1 .. Len(Q'), Speaks(Q'[i], l)
          PROVE  /\ Q'[i].frame.seq >= 1 /\ After(f) <= Q'[i].frame.seq
                 /\ \A j \in 1 .. Len(Q') : i < j /\ Speaks(Q'[j], l) =>
                        After(Q'[i].frame) <= Q'[j].frame.seq
                 /\ \A m \in 1 .. Len(H) : H[m].at < Q'[i].frame.seq
      <3>1. PICK b \in 1 .. Len(Q) : b = i + 2 /\ Q'[i] = Q[b] /\ 1 < b
        BY <2>1
      <3>2. ASSUME NEW j \in 1 .. Len(Q'), i < j, Speaks(Q'[j], l)
            PROVE  After(Q'[i].frame) <= Q'[j].frame.seq
        <4>1. PICK c \in 1 .. Len(Q) : c = j + 2 /\ Q'[j] = Q[c] /\ b < c
          BY <2>1, <3>1, <3>2
        <4> QED
          BY <1>0, <2>4, <3>1, <3>2, <4>1 DEF InOrderOf
      <3> QED
        BY <1>0, <2>3, <2>4, <3>1, <3>2 DEF InOrderOf
    <2>5. \A i \in 1 .. Len(H') :
              \/ i \in 1 .. Len(H) /\ H'[i] = H[i]
              \/ \E j \in 1 .. f.n : i = Len(H) + j /\ H'[i].at = f.seq + j - 1
      <3>1. Handed(l, f)
        BY <1>3, <2>2 DEF Handed
      <3>2. \A i \in 1 .. Len(Hears(l)') :
                \/ i \in 1 .. Len(Hears(l)) /\ Hears(l)'[i] = Hears(l)[i]
                \/ \E j \in 1 .. f.n : /\ i = Len(Hears(l)) + j
                                       /\ Hears(l)'[i].link = l /\ Hears(l)'[i].at = f.seq + j - 1
        <4>1. f.link = l
          BY <2>2
        <4> QED
          BY ONLY TypeOK, <3>1, <4>1, HandedIndex
      <3> QED
        BY <3>2
    <2>6. \A m \in 1 .. Len(H) : H[m].at < f.seq
      BY <1>0, <2>3 DEF InOrderOf
    <2>7. ASSUME NEW i \in 1 .. Len(H')
          PROVE  H'[i].at \in Nat /\ H'[i].at < After(f)
      <3>1. CASE i \in 1 .. Len(H) /\ H'[i] = H[i]
        <4>1. H[i].at \in Nat /\ H[i].at < f.seq
          BY <1>0, <2>6, <3>1
        <4> QED
          BY <2>3, <3>1, <4>1 DEF After
      <3>2. ASSUME NEW j \in 1 .. f.n, H'[i].at = f.seq + j - 1
            PROVE  H'[i].at \in Nat /\ H'[i].at < After(f)
        BY <2>3, <3>2 DEF After
      <3> QED
        BY <2>5, <3>1, <3>2
    <2>8. ASSUME NEW i \in 1 .. Len(H'), NEW j \in 1 .. Len(H'), i < j
          PROVE  H'[i].at < H'[j].at
      <3>1. CASE j \in 1 .. Len(H) /\ H'[j] = H[j]
        <4>1. i \in 1 .. Len(H) /\ H'[i] = H[i]
          BY <1>0, <2>5, <2>8, <3>1
        <4> QED
          BY <1>0, <2>8, <3>1, <4>1 DEF InOrderOf
      <3>2. ASSUME NEW d \in 1 .. f.n, j = Len(H) + d, H'[j].at = f.seq + d - 1
            PROVE  H'[i].at < H'[j].at
        <4>1. CASE i \in 1 .. Len(H) /\ H'[i] = H[i]
          <5>1. H[i].at \in Nat /\ H[i].at < f.seq
            BY <1>0, <2>6, <4>1
          <5> QED
            BY <2>3, <3>2, <4>1, <5>1
        <4>2. ASSUME NEW e \in 1 .. f.n, i = Len(H) + e, H'[i].at = f.seq + e - 1
              PROVE  H'[i].at < H'[j].at
          <5>1. e < d
            BY <1>0, <2>3, <2>8, <3>2, <4>2
          <5> QED
            BY <2>3, <3>2, <4>2, <5>1
        <4> QED
          BY <2>5, <4>1, <4>2
      <3> QED
        BY <2>5, <3>1, <3>2
    <2>9. ASSUME NEW i \in 1 .. Len(Q'), Speaks(Q'[i], l), NEW m \in 1 .. Len(H')
          PROVE  H'[m].at < Q'[i].frame.seq
      <3>1. H'[m].at \in Nat /\ H'[m].at < After(f) /\ After(f) <= Q'[i].frame.seq
        BY <2>4, <2>7, <2>9
      <3>2. PICK x \in Pieces : x = Q'[i]
        BY <1>0, <2>1
      <3> QED
        BY <2>3, <3>1, <3>2, PieceFacts, SMTT(30) DEF After
    <2> QED
      BY <2>4, <2>8, <2>9 DEF InOrderOf
  <1>4. ASSUME Device, NEW m \in Links, NEW f \in DevFrames, f.link = m, DevSends(f),
               f.type \in {"DATA", "FIN"} => f.seq = dev_sent[m] + 1
        PROVE  InOrderOf(l)'
    <2>1. Grown(l, f) /\ H' = H
      BY <1>4, DevGrows
    <2>2. \A i \in 1 .. Len(Q') :
              \/ i \in 1 .. Len(Q) /\ Q'[i] = Q[i]
              \/ i = Len(Q) + 1 /\ Q'[i] = [frame |-> f, part |-> 1]
              \/ i = Len(Q) + 2 /\ Q'[i] = [frame |-> f, part |-> 2]
      BY <2>1, GrownIndex
    <2>3. ASSUME NEW i \in 1 .. Len(Q'), Speaks(Q'[i], l)
          PROVE  \/ i \in 1 .. Len(Q) /\ Q'[i] = Q[i]
                 \/ i = Len(Q) + 1 /\ Q'[i].frame = f /\ f.seq = dev_sent[l] + 1
      <3>1. CASE i = Len(Q) + 1 /\ Q'[i] = [frame |-> f, part |-> 1]
        BY <1>4, <2>3, <3>1 DEF Speaks
      <3>2. CASE i = Len(Q) + 2 /\ Q'[i] = [frame |-> f, part |-> 2]
        BY <2>3, <3>2 DEF Speaks
      <3> QED
        BY <2>2, <3>1, <3>2
    <2>4. ASSUME NEW i \in 1 .. Len(Q'), Speaks(Q'[i], l)
          PROVE  /\ Q'[i].frame.seq >= 1
                 /\ \A j \in 1 .. Len(Q') : i < j /\ Speaks(Q'[j], l) =>
                        After(Q'[i].frame) <= Q'[j].frame.seq
                 /\ \A k \in 1 .. Len(H) : H[k].at < Q'[i].frame.seq
      <3>1. CASE i \in 1 .. Len(Q) /\ Q'[i] = Q[i]
        <4>1. ASSUME NEW j \in 1 .. Len(Q'), i < j, Speaks(Q'[j], l)
              PROVE  After(Q'[i].frame) <= Q'[j].frame.seq
          <5>1. CASE j \in 1 .. Len(Q) /\ Q'[j] = Q[j]
            BY <1>0, <2>4, <3>1, <4>1, <5>1 DEF InOrderOf
          <5>2. CASE Q'[j].frame = f /\ f.seq = dev_sent[l] + 1
            BY <1>0, <2>4, <3>1, <5>2 DEF DevSpeaksOf
          <5> QED
            BY <2>3, <4>1, <5>1, <5>2
        <4> QED
          BY <1>0, <2>4, <3>1, <4>1 DEF InOrderOf
      <3>2. CASE i = Len(Q) + 1 /\ Q'[i].frame = f /\ f.seq = dev_sent[l] + 1
        <4>1. \A j \in 1 .. Len(Q') : i < j => ~Speaks(Q'[j], l)
          BY <1>0, <2>3, <3>2
        <4>2. \A k \in 1 .. Len(H) : H[k].at < dev_sent[l] + 1
          BY <1>0 DEF HeardExactOf
        <4> QED
          BY <1>0, <3>2, <4>1, <4>2
      <3> QED
        BY <2>3, <2>4, <3>1, <3>2
    <2> QED
      BY <1>0, <2>1, <2>4 DEF InOrderOf
  <1>5. CASE Host
    <2>1. CASE H' = H
      BY <1>2, <1>5, <2>1, HostReads
    <2>2. CASE cur = l /\ (ReadFin \/ ReadData) /\ Handed(l, Segment)
      <3>1. Cut(l, 0, 2)
        BY <2>2, PacketTaken DEF TakesPacket
      <3> QED
        BY <1>3, <1>5, <2>2, <3>1
    <2> QED
      BY <1>5, <2>1, <2>2, HostHears
  <1>6. CASE Device
    <2>1. ~(resends < use.resends)
      BY UseFacts DEF TypeOK
    <2>2. CASE from_dev' = from_dev
      BY <1>1, <1>6, <2>2, DevGrows
    <2>3. SpeakShape
      BY <1>6, DevSaid
    <2> QED
      BY <1>4, <1>6, <2>1, <2>2, <2>3 DEF SpeakShape
  <1>7. CASE UNCHANGED vars
    BY <1>1, <1>7 DEF Ahead, Hears, vars, host, history
  <1> QED
    BY <1>5, <1>6, <1>7, TwoSides

\* What was heard is in order and of the link, so the caller reads it in order.
LEMMA HandsInOrder == TypeOK /\ HeardExact /\ (use.resends = 0 => InOrder) => DeliveredInOrder
  BY DEF HeardExact, HeardExactOf, InOrder, InOrderOf, DeliveredInOrder
-----------------------------------------------------------------------------
(* A link that is read as it comes.                                        *)

\* A read that takes data keeps its link open when the payload is kept.
LEMMA ReadHands ==
    ASSUME TypeOK, ReadFin \/ (ReadData /\ st'[cur] = "open"), NEW l \in Links, cur = l
    PROVE  Handed(l, Segment)
  <1>1. CASE ReadFin
    BY <1>1, TakenIsHanded DEF ReadFin, Mine, Takes, Waits
  <1>2. CASE ReadData /\ st'[cur] = "open"
    <2>1. ~Fail
      BY <1>2 DEF ReadData, Fail, TypeOK
    <2> QED
      BY <1>2, <2>1, TakenIsHanded DEF ReadData, Mine, Takes, Waits, history
  <1> QED
    BY <1>1, <1>2

\* Undisturbed, the link that is open is the one that is read.
LEMMA OnlyReader ==
    ASSUME TypeOK, Calling, InTurn, Undisturbed, NEW l \in Links, st[l] = "open", op \notin {"idle", "spins"}
    PROVE  cur = l
  <1>1. cur \in Links /\ st[cur] \notin {"none", "over"}
    BY DEF Calling, TypeOK
  <1>2. CASE use.links = 1
    BY <1>1, <1>2 DEF InTurn, Links
  <1>3. CASE use.alone
    BY <1>1, <1>3 DEF InTurn, Links
  <1> QED
    BY <1>2, <1>3 DEF Undisturbed

\* The other steps of the host leave an open link's numbers alone, and take no data.
LEMMA HostQuiet ==
    ASSUME TypeOK, Calling, Host, NEW l \in Links, st'[l] = "open",
           ~(cur = l /\ (ReadFin \/ ReadData \/ Connected))
    PROVE  /\ st[l] = "open" /\ closed'[l] = closed[l]
           /\ recv_seq'[l] = recv_seq[l] /\ Hears(l)' = Hears(l)
           /\ \/ Cut(l, 0, 0)
              \/ cur # l /\ op \notin {"idle", "spins"}
              \/ /\ Cut(l, 0, 2) /\ Len(Ahead(l)) >= 2 /\ ~Speaks(Ahead(l)[1], l)
                 /\ ~Speaks(Ahead(l)[2], l)
  <1> USE DEF host, calls, wire, history, device
  <1>0. cur \in Links
    BY DEF TypeOK
  <1>1. st[l] = "open"
    <2>1. CASE cur # l /\ Connected
      <3>1. st'[l] = st[l]
        BY <1>0, <2>1 DEF Connected, Fail, TypeOK
      <3> QED
        BY <3>1
    <2>2. CASE ~Connected
      BY <1>0, <2>2 DEF Host, Call, CallSpins, Continue, TakesPacket, Connect, Write, Read, Close, Destroy,
         WriteChunk, WriteFails, Written, TunnelRead, ReadFails, Misframed, ConnectSkips,
         ConnectRefused, ReadSkips, ReadReset, ReadFin, ReadData, ReadReturns, ReadEnds, Fail, TypeOK
    <2> QED
      BY <2>1, <2>2
  <1>2. recv_seq'[l] = recv_seq[l]
    <2>1. CASE cur # l /\ (ReadFin \/ ReadData \/ Connected)
      BY <1>0, <2>1 DEF ReadFin, ReadData, Connected, TypeOK
    <2>2. CASE ~ReadFin /\ ~ReadData /\ ~Connected
      BY <2>2 DEF Host, Call, CallSpins, Continue, TakesPacket, Connect, Write, Read, Close, Destroy,
         WriteChunk, WriteFails, Written, TunnelRead, ReadFails, Misframed, ConnectSkips,
         ConnectRefused, ReadSkips, ReadReset, ReadReturns, ReadEnds
    <2> QED
      BY <2>1, <2>2
  <1>3. closed'[l] = closed[l]
    <2>1. CASE ReadFin
      BY <1>0, <2>1 DEF ReadFin, TypeOK
    <2>2. CASE ReadReset
      BY <1>0, <2>2 DEF ReadReset, Fail, TypeOK
    <2>3. ASSUME NEW k \in Links, Close(k)
          PROVE  closed'[l] = closed[l]
      BY <2>3 DEF Close, TypeOK
    <2>4. CASE ~ReadFin /\ ~ReadReset /\ ~\E k \in Links : Close(k)
      BY <2>4 DEF Host, Call, CallSpins, Continue, TakesPacket, Connect, Write, Read, Destroy,
         WriteChunk, WriteFails, Written, TunnelRead, ReadFails, Misframed, ConnectSkips,
         ConnectRefused, Connected, ReadSkips, ReadData, ReadReturns, ReadEnds
    <2> QED
      BY <2>1, <2>2, <2>3, <2>4
  <1>4. Hears(l)' = Hears(l)
    BY HostHears
  <1>5. ASSUME cur = l, TakesPacket
        PROVE  /\ Cut(l, 0, 2) /\ Len(Ahead(l)) >= 2 /\ ~Speaks(Ahead(l)[1], l)
               /\ ~Speaks(Ahead(l)[2], l)
    <2>1. op = "read" /\ st[cur] # "connecting"
      BY <1>0, <1>1, <1>5
         DEF TakesPacket, ConnectSkips, ConnectRefused, ReadSkips, ReadReset, Calling
    <2>2. Segment.link # l \/ Segment.type \notin {"DATA", "FIN"}
      BY <1>5, <2>1 DEF TakesPacket, ConnectSkips, ConnectRefused, ReadSkips, ReadReset, IsMine
    <2> QED
      BY <1>5, <2>2, PacketTaken DEF Speaks
  <1> QED
    BY <1>1, <1>2, <1>3, <1>4, <1>5, HostReads DEF Waits

\* The next packet of data carries what comes next, and no more than was sent.
LEMMA ReadNext ==
    ASSUME TypeOK, DevSpeaks, DevGapless, Undisturbed, ReadFin \/ ReadData,
           NEW l \in Links, cur = l, st[l] = "open"
    PROVE  /\ ~closed[l] /\ Segment.seq \in Nat /\ Segment.n \in Nat /\ recv_seq[l] \in Nat
           /\ Segment.seq <= recv_seq[l] /\ recv_seq[l] <= After(Segment)
           /\ After(Segment) <= dev_sent[l] + 1 /\ dev_sent[l] \in Nat
           /\ Segment.type = "FIN" => dev_done[l] /\ After(Segment) = dev_sent[l] + 1
  <1>1. ~closed[l] /\ Reads(l)
    BY DEF ReadFin, ReadData, Mine, Takes, Waits, Reads
  <1>2. PICK f \in DevFrames : f = Segment /\ f.link = l
    BY FirstAhead
  <1>3. 1 \in 1 .. Len(Ahead(l)) /\ Speaks(Ahead(l)[1], l) /\ Ahead(l)[1].frame = f
    BY <1>2, FirstAhead
  <1>4. recv_seq[l] \in Nat /\ dev_sent[l] \in Nat /\ f.seq \in Nat /\ f.n \in Nat
    BY UseFacts DEF TypeOK, DevFrames
  <1>5. DevGaplessOf(l) /\ DevSpeaksOf(l)
    BY <1>1 DEF DevGapless, DevSpeaks
  <1>6. ~(recv_seq[l] < f.seq)
    <2>1. recv_seq[l] < f.seq => \E j \in 1 .. (1 - 1) : Tells(l, j, recv_seq[l])
      BY <1>3, <1>4, <1>5, SMTT(30) DEF DevGaplessOf
    <2> QED
      BY <2>1
  <1>7. recv_seq[l] <= After(f) /\ After(f) <= dev_sent[l] + 1
    BY <1>3, <1>5 DEF DevGaplessOf, DevSpeaksOf
  <1>8. f.type = "FIN" => dev_done[l] /\ After(f) = dev_sent[l] + 1
    BY <1>3, <1>5 DEF DevSpeaksOf
  <1> QED
    BY <1>1, <1>2, <1>4, <1>6, <1>7, <1>8

\* What is ahead tells the same when only a packet that is not for it is taken, or
\* when what it told was taken note of.
LEMMA GaplessCut ==
    ASSUME TypeOK, NEW l \in Links, NEW k \in {0, 2}, Cut(l, 0, k), DevGaplessOf(l),
           NEW r \in Nat, recv_seq[l] <= r, r <= dev_sent[l] + 1, recv_seq'[l] = r,
           dev_sent'[l] = dev_sent[l],
           \A i \in 1 .. k : /\ i \in 1 .. Len(Ahead(l))
                             /\ Speaks(Ahead(l)[i], l) => After(Ahead(l)[i].frame) = r,
           \A i \in 1 .. k : \A u \in Nat : r <= u => ~Tells(l, i, u),
           k = 0 => r = recv_seq[l],
           k = 2 => r = recv_seq[l] \/ (Speaks(Ahead(l)[1], l) /\ After(Ahead(l)[1].frame) = r)
    PROVE  DevGaplessOf(l)'
  <1> DEFINE Q == Ahead(l)
  <1>0. Len(Q) \in Nat /\ recv_seq[l] \in Nat /\ dev_sent[l] \in Nat /\ k \in Nat
        /\ \A i \in 1 .. Len(Q) : Q[i] \in Pieces
    <2>1. recv_seq[l] \in Nat /\ dev_sent[l] \in Nat
      BY UseFacts DEF TypeOK
    <2> QED
      BY <2>1, AheadFacts
  <1>1. /\ Len(Q) = Len(Q') + k
        /\ \A i \in 1 .. Len(Q') : i + k \in 1 .. Len(Q) /\ Q'[i] = Q[i + k]
    <2>1. \A i \in 1 .. Len(Q') : Before(i, 0, k) = i + k
      BY DEF Before
    <2> QED
      <3>1. \A i \in 1 .. Len(Q') : Before(i, 0, k) \in 1 .. Len(Q) /\ Q'[i] = Q[Before(i, 0, k)]
        <4>1. 0 \in Nat /\ k \in Nat /\ Cut(l, 0, k)
          BY <1>0
        <4> QED
          BY ONLY TypeOK, <4>1, CutIndex
      <3>2. Len(Q) = Len(Q') + k
        BY DEF Cut
      <3> QED
        BY <2>1, <3>1, <3>2
  <1>2. ASSUME NEW m \in 1 .. Len(Q), NEW u \in Nat, r <= u, Tells(l, m, u)
        PROVE  \E j \in 1 .. Len(Q') : j = m - k /\ Tells(l, j, u)'
    <2>1. ~(m \in 1 .. k)
      BY <1>2
    <2>2. PICK j \in Nat : j = m - k /\ j \in 1 .. Len(Q') /\ j + k = m
      <3>1. m - k \in Nat /\ m - k \in 1 .. Len(Q') /\ (m - k) + k = m
        BY <1>0, <1>1, <2>1
      <3> QED
        BY <3>1
    <2>3. Q'[j] = Q[m]
      BY <1>1, <2>2
    <2>4. Tells(l, j, u)'
      BY <1>2, <2>3 DEF Tells, Speaks, After
    <2> QED
      BY <2>2, <2>4
  <1>3. ASSUME NEW u \in Nat, r <= u, u <= dev_sent[l]
        PROVE  \E i \in 1 .. Len(Q') : Tells(l, i, u)'
    <2>1. \E m \in 1 .. Len(Q) : Tells(l, m, u)
      BY <1>0, <1>3, SMTT(30) DEF DevGaplessOf
    <2>2. PICK m \in 1 .. Len(Q) : Tells(l, m, u)
      BY ONLY <2>1
    <2> QED
      BY <1>2, <1>3, <2>2
  <1>4. ASSUME NEW u \in Nat, r <= u, NEW i \in 1 .. Len(Q'), Speaks(Q'[i], l), u < Q'[i].frame.seq
        PROVE  \E j \in 1 .. (i - 1) : Tells(l, j, u)'
    <2>1. i + k \in 1 .. Len(Q) /\ Q'[i] = Q[i + k]
      BY <1>1
    <2>2. PICK m \in 1 .. ((i + k) - 1) : Tells(l, m, u)
      <3>1. recv_seq[l] <= u
        BY <1>0, <1>4
      <3> QED
        BY <1>4, <2>1, <3>1 DEF DevGaplessOf
    <2>3. PICK j \in 1 .. Len(Q') : j = m - k /\ Tells(l, j, u)'
      <3>1. m \in 1 .. Len(Q)
        BY <1>0, <2>1, <2>2
      <3> QED
        BY <1>2, <1>4, <2>2, <3>1
    <2>4. j \in 1 .. (i - 1)
      BY <2>2, <2>3
    <2> QED
      BY <2>3, <2>4
  <1>5. ASSUME NEW i \in 1 .. Len(Q'), Speaks(Q'[i], l)
        PROVE  /\ r <= After(Q'[i].frame)
               /\ \A j \in 1 .. Len(Q') : i < j /\ Speaks(Q'[j], l) =>
                      After(Q'[i].frame) <= After(Q'[j].frame)
    <2>1. PICK b \in 1 .. Len(Q) : b = i + k /\ Q'[i] = Q[b]
      BY <1>1
    <2>2. r <= After(Q[b].frame)
      <3>1. CASE r = recv_seq[l]
        BY <1>5, <2>1, <3>1 DEF DevGaplessOf
      <3>2. CASE k = 2 /\ Speaks(Q[1], l) /\ After(Q[1].frame) = r
        <4>1. 1 \in 1 .. Len(Q) /\ 1 < b
          BY <2>1, <3>2
        <4> QED
          BY <1>5, <2>1, <3>2, <4>1 DEF DevGaplessOf
      <3> QED
        BY <3>1, <3>2
    <2>3. ASSUME NEW j \in 1 .. Len(Q'), i < j, Speaks(Q'[j], l)
          PROVE  After(Q'[i].frame) <= After(Q'[j].frame)
      <3>1. PICK c \in 1 .. Len(Q) : c = j + k /\ Q'[j] = Q[c] /\ b < c
        <4>1. j + k \in 1 .. Len(Q) /\ Q'[j] = Q[j + k] /\ i + k < j + k
          BY <1>0, <1>1, <2>3
        <4> QED
          BY <2>1, <4>1
      <3> QED
        BY <1>5, <2>1, <2>3, <3>1 DEF DevGaplessOf
    <2> QED
      BY <2>1, <2>2, <2>3
  <1>6. r >= 1
    BY <1>0 DEF DevGaplessOf
  <1> QED
    BY <1>3, <1>4, <1>5, <1>6 DEF DevGaplessOf

\* Nothing is missing between what a link was told and what is ahead of it.
LEMMA DevGaplessKept ==
    TypeOK /\ Calling /\ InTurn /\ Unconnected /\ DevSpeaks /\ DevGapless /\ [Next]_vars
        => DevGapless'
  <1> SUFFICES ASSUME TypeOK, Calling, InTurn, Unconnected, DevSpeaks, DevGapless,
                      [Next]_vars, NEW l \in Links, Reads(l)'
               PROVE  DevGaplessOf(l)'
    BY DEF DevGapless
  <1> DEFINE Q == Ahead(l)
  <1>0. /\ Len(Q) \in Nat /\ recv_seq[l] \in Nat /\ dev_sent[l] \in Nat
        /\ \A i \in 1 .. Len(Q) : Q[i] \in Pieces
        /\ cur \in Links
    <2>1. recv_seq[l] \in Nat /\ dev_sent[l] \in Nat /\ cur \in Links
      BY UseFacts DEF TypeOK
    <2> QED
      BY <2>1, AheadFacts
  <1>1. CASE UNCHANGED vars
    <2>1. UNCHANGED <<use, st, closed, recv_seq, framer, from_dev, dev_sent>>
      BY <1>1 DEF vars, host, wire, history, device
    <2>2. Reads(l) /\ DevGaplessOf(l)
      BY <2>1 DEF DevGapless, Reads, Undisturbed
    <2>3. /\ Q' = Q
          /\ \A i \in 1 .. Len(Q), u \in Nat : Tells(l, i, u)' <=> Tells(l, i, u)
      BY <2>1 DEF Tells, Ahead
    <2> QED
      BY <2>1, <2>2, <2>3, SMTT(30) DEF DevGaplessOf
  <1>2. CASE Host
    <2>0. /\ Undisturbed /\ st'[l] = "open" /\ ~closed'[l]
          /\ dev_sent'[l] = dev_sent[l]
      BY <1>2, HostLeavesDevice DEF Reads, Undisturbed
    <2>1. CASE cur = l /\ ReadFin
      BY <1>0, <2>0, <2>1 DEF ReadFin, TypeOK
    <2>2. CASE cur = l /\ ReadData
      <3>1. st[l] = "open"
        BY <1>0, <2>0, <2>2 DEF ReadData, Fail, TypeOK
      <3>2. PICK f \in DevFrames : f = Segment
        BY <2>2, FirstAhead
      <3>3. recv_seq'[l] = After(f)
        BY <1>0, <2>2, <3>2 DEF ReadData, TypeOK
      <3>4. /\ recv_seq[l] <= After(f) /\ After(f) <= dev_sent[l] + 1 /\ ~closed[l]
        BY <2>0, <2>2, <3>1, <3>2, ReadNext
      <3>5. TakesPacket
        BY <2>2 DEF TakesPacket
      <3>6. Cut(l, 0, 2) /\ Len(Q) >= 2 /\ Q[2].part = 2
        BY <2>2, <3>5, PacketTaken
      <3>7. Speaks(Q[1], l) /\ Q[1].frame = f /\ ~Speaks(Q[2], l)
        BY <2>2, <3>2, <3>6, FirstAhead DEF Speaks
      <3>8. DevGaplessOf(l)
        BY <2>0, <3>1, <3>4 DEF DevGapless, Reads
      <3>9. After(f) \in Nat
        BY DEF After, DevFrames
      <3>10. \A i \in 1 .. 2 : /\ i \in 1 .. Len(Q)
                               /\ Speaks(Q[i], l) => After(Q[i].frame) = After(f)
        <4>1. \A i \in 1 .. 2 : i = 1 \/ i = 2
          OBVIOUS
        <4> QED
          BY <1>0, <3>6, <3>7, <4>1
      <3>11. \A i \in 1 .. 2 : \A u \in Nat : After(f) <= u => ~Tells(l, i, u)
        BY <3>9, <3>10 DEF Tells
      <3> QED
        BY <2>0, <3>3, <3>4, <3>6, <3>7, <3>8, <3>9, <3>10, <3>11, GaplessCut
    <2>3. CASE cur = l /\ Connected
      <3>1. st[l] = "connecting" /\ TakesPacket
        BY <2>3 DEF Connected, Calling, TakesPacket
      <3>2. Cut(l, 0, 2) /\ Q[1].frame = Segment /\ Len(Q) >= 2
        BY <2>3, <3>1, PacketTaken
      <3>3. DevSpeaksOf(l) /\ dev_sent[l] = 0
        BY <1>0, <3>1 DEF DevSpeaks, DevSpeaksOf
      <3>4. Segment.seq = 0
        <4>1. 1 \in 1 .. Len(Q) /\ Segment.link = l /\ Segment.type = "SYNACK"
          BY <1>0, <2>3, <3>2 DEF Connected, Mine, IsMine
        <4> QED
          BY <3>2, <3>3, <4>1 DEF DevSpeaksOf
      <3>5. recv_seq'[l] = 1
        BY <1>0, <2>3, <3>4 DEF Connected, TypeOK
      <3>6. \A i \in 1 .. Len(Q') : ~Speaks(Q'[i], l)
        <4>1. \A i \in 1 .. Len(Q') : \E j \in 1 .. Len(Q) : Q'[i] = Q[j]
          BY <3>2, CutIndex
        <4> QED
          BY <3>1, <3>3, <4>1 DEF DevSpeaksOf
      <3> QED
        BY <2>0, <3>3, <3>5, <3>6 DEF DevGaplessOf
    <2>4. CASE ~(cur = l /\ (ReadFin \/ ReadData \/ Connected))
      <3>1. /\ st[l] = "open" /\ ~closed[l] /\ recv_seq'[l] = recv_seq[l]
            /\ \/ Cut(l, 0, 0)
               \/ cur # l /\ op \notin {"idle", "spins"}
               \/ Cut(l, 0, 2) /\ Len(Q) >= 2 /\ ~Speaks(Q[1], l) /\ ~Speaks(Q[2], l)
        BY <1>2, <2>0, <2>4, HostQuiet
      <3>2. DevGaplessOf(l)
        BY <2>0, <3>1 DEF DevGapless, Reads
      <3>3. ~(cur # l /\ op \notin {"idle", "spins"})
        BY <2>0, <3>1, OnlyReader
      <3>4. recv_seq[l] <= recv_seq[l] /\ recv_seq[l] <= dev_sent[l] + 1
        BY <1>0, <3>2 DEF DevGaplessOf
      <3>5. CASE Cut(l, 0, 0)
        <4>1. /\ \A i \in 1 .. 0 : /\ i \in 1 .. Len(Q)
                                   /\ Speaks(Q[i], l) => After(Q[i].frame) = recv_seq[l]
              /\ \A i \in 1 .. 0 : \A u \in Nat : recv_seq[l] <= u => ~Tells(l, i, u)
          OBVIOUS
        <4> QED
          BY <1>0, <2>0, <3>1, <3>2, <3>4, <3>5, <4>1, GaplessCut
      <3>6. CASE Cut(l, 0, 2) /\ Len(Q) >= 2 /\ ~Speaks(Q[1], l) /\ ~Speaks(Q[2], l)
        <4>1. \A i \in 1 .. 2 : i \in 1 .. Len(Q) /\ ~Speaks(Q[i], l)
          <5>1. \A i \in 1 .. 2 : i = 1 \/ i = 2
            OBVIOUS
          <5> QED
            BY <1>0, <3>6, <5>1
        <4>2. \A i \in 1 .. 2 : \A u \in Nat : recv_seq[l] <= u => ~Tells(l, i, u)
          BY <4>1 DEF Tells
        <4> QED
          BY <1>0, <2>0, <3>1, <3>2, <3>4, <3>6, <4>1, <4>2, GaplessCut
      <3> QED
        BY <3>1, <3>3, <3>5, <3>6
    <2> QED
      BY <2>1, <2>2, <2>3, <2>4
  <1>3. CASE Device
    <2>0. UNCHANGED <<use, st, closed, recv_seq>>
      BY <1>3, DeviceLeavesHost
    <2>1. DevGaplessOf(l) /\ DevSpeaksOf(l)
      BY <2>0 DEF DevGapless, DevSpeaks, Reads, Undisturbed
    <2>2. dev_sent'[l] \in Nat /\ dev_sent[l] <= dev_sent'[l]
      BY <1>3, SentGrows
    <2>3. CASE from_dev' = from_dev /\ dev_sent' = dev_sent
      <3>1. Q' = Q
        BY <1>3, <2>3, DevGrows
      <3> QED
        BY <2>0, <2>1, <2>3, <3>1 DEF DevGaplessOf, Tells, Speaks, After
    <2>4. ASSUME NEW f \in DevFrames, DevSends(f),
                 f.link = l /\ f.type \in {"DATA", "FIN"} =>
                     f.seq <= dev_sent[l] + 1 /\ After(f) = dev_sent'[l] + 1,
                 ~(f.link = l /\ f.type \in {"DATA", "FIN"}) => dev_sent'[l] = dev_sent[l]
          PROVE  DevGaplessOf(l)'
      <3>0. Grown(l, f) /\ f.seq \in Nat /\ After(f) \in Nat /\ f.seq <= After(f)
        BY <1>3, <2>4, DevGrows DEF DevFrames, After
      <3>1. /\ Len(Q') = Len(Q) + 2
            /\ \A i \in 1 .. Len(Q') :
                   \/ i \in 1 .. Len(Q) /\ Q'[i] = Q[i]
                   \/ i = Len(Q) + 1 /\ Q'[i] = [frame |-> f, part |-> 1]
                   \/ i = Len(Q) + 2 /\ Q'[i] = [frame |-> f, part |-> 2]
            /\ \A i \in 1 .. Len(Q) : i \in 1 .. Len(Q') /\ Q'[i] = Q[i]
        BY <3>0, GrownIndex
      <3>2. ASSUME NEW i \in 1 .. Len(Q'), Speaks(Q'[i], l)
            PROVE  \/ i \in 1 .. Len(Q) /\ Q'[i] = Q[i]
                   \/ /\ i = Len(Q) + 1 /\ Q'[i].frame = f
                      /\ f.link = l /\ f.type \in {"DATA", "FIN"}
        <4>1. CASE i = Len(Q) + 1 /\ Q'[i] = [frame |-> f, part |-> 1]
          BY <3>2, <4>1 DEF Speaks
        <4>2. CASE i = Len(Q) + 2 /\ Q'[i] = [frame |-> f, part |-> 2]
          BY <3>2, <4>2 DEF Speaks
        <4> QED
          BY <3>1, <4>1, <4>2
      <3>3. ASSUME NEW i \in 1 .. Len(Q), NEW u \in Nat, Tells(l, i, u)
            PROVE  Tells(l, i, u)'
        BY <3>1, <3>3 DEF Tells, Speaks, After
      <3>4. ASSUME NEW u \in Nat, recv_seq[l] <= u, u <= dev_sent[l]
            PROVE  \E i \in 1 .. Len(Q) : Tells(l, i, u)'
        BY <2>1, <3>3, <3>4 DEF DevGaplessOf
      <3>5. ASSUME NEW u \in Nat, recv_seq[l] <= u, u <= dev_sent'[l]
            PROVE  \E i \in 1 .. Len(Q') : Tells(l, i, u)'
        <4>1. CASE u <= dev_sent[l]
          BY <3>1, <3>4, <3>5, <4>1
        <4>2. CASE ~(u <= dev_sent[l])
          <5>1. f.link = l /\ f.type \in {"DATA", "FIN"} /\ f.seq <= u /\ u < After(f)
            BY <1>0, <2>2, <2>4, <3>0, <3>5, <4>2
          <5>2. PICK i \in 1 .. Len(Q') : i = Len(Q) + 1
            BY <1>0, <3>1
          <5>3. Q'[i] = [frame |-> f, part |-> 1]
            BY <1>0, <3>1, <5>2
          <5>4. Tells(l, i, u)'
            BY <5>1, <5>3 DEF Tells, Speaks, After
          <5> QED
            BY <5>4
        <4> QED
          BY <4>1, <4>2
      <3>6. ASSUME NEW u \in Nat, recv_seq[l] <= u, NEW i \in 1 .. Len(Q'), Speaks(Q'[i], l),
                   u < Q'[i].frame.seq
            PROVE  \E j \in 1 .. (i - 1) : Tells(l, j, u)'
        <4>1. CASE i \in 1 .. Len(Q) /\ Q'[i] = Q[i]
          <5>1. PICK j \in 1 .. (i - 1) : Tells(l, j, u)
            BY <2>1, <3>6, <4>1 DEF DevGaplessOf
          <5>2. j \in 1 .. Len(Q)
            BY <1>0, <4>1
          <5> QED
            BY <3>3, <5>1, <5>2
        <4>2. CASE i = Len(Q) + 1 /\ Q'[i].frame = f /\ f.link = l /\ f.type \in {"DATA", "FIN"}
          <5>1. u <= dev_sent[l]
            BY <1>0, <2>4, <3>0, <3>6, <4>2
          <5>2. \A j \in 1 .. Len(Q) : j \in 1 .. (i - 1)
            BY <1>0, <4>2
          <5> QED
            BY <3>4, <3>6, <5>1, <5>2
        <4> QED
          BY <3>2, <3>6, <4>1, <4>2
      <3>7. ASSUME NEW i \in 1 .. Len(Q'), Speaks(Q'[i], l)
            PROVE  /\ recv_seq[l] <= After(Q'[i].frame)
                   /\ \A j \in 1 .. Len(Q') : i < j /\ Speaks(Q'[j], l) =>
                          After(Q'[i].frame) <= After(Q'[j].frame)
        <4>1. CASE i \in 1 .. Len(Q) /\ Q'[i] = Q[i]
          <5>0. PICK x \in Nat : x = After(Q[i].frame)
            BY <1>0, <4>1, PieceFacts
          <5>1. recv_seq[l] <= x /\ x <= dev_sent[l] + 1
            BY <2>1, <3>7, <4>1, <5>0 DEF DevGaplessOf, DevSpeaksOf
          <5>2. ASSUME NEW j \in 1 .. Len(Q'), i < j, Speaks(Q'[j], l)
                PROVE  x <= After(Q'[j].frame)
            <6>1. CASE j \in 1 .. Len(Q) /\ Q'[j] = Q[j]
              BY <2>1, <3>7, <4>1, <5>0, <5>2, <6>1 DEF DevGaplessOf
            <6>2. CASE Q'[j].frame = f /\ f.link = l /\ f.type \in {"DATA", "FIN"}
              <7>1. x <= After(f)
                BY <1>0, <2>2, <2>4, <5>1, <6>2
              <7> QED
                BY <6>2, <7>1
            <6> QED
              BY <3>2, <5>2, <6>1, <6>2
          <5> QED
            BY <4>1, <5>0, <5>1, <5>2
        <4>2. CASE i = Len(Q) + 1 /\ Q'[i].frame = f /\ f.link = l /\ f.type \in {"DATA", "FIN"}
          <5>1. \A j \in 1 .. Len(Q') : i < j => ~Speaks(Q'[j], l)
            BY <1>0, <3>2, <4>2
          <5>2. recv_seq[l] <= dev_sent[l] + 1
            BY <2>1 DEF DevGaplessOf
          <5>3. recv_seq[l] <= After(f)
            BY <1>0, <2>2, <2>4, <4>2, <5>2
          <5> QED
            BY <4>2, <5>1, <5>3
        <4> QED
          BY <3>2, <3>7, <4>1, <4>2
      <3>8. recv_seq[l] >= 1 /\ recv_seq[l] <= dev_sent'[l] + 1
        BY <1>0, <2>1, <2>2 DEF DevGaplessOf
      <3> QED
        BY <2>0, <3>5, <3>6, <3>7, <3>8 DEF DevGaplessOf
    <2>5. ASSUME NEW m \in Links, NEW f \in DevFrames, f.link = m, DevSends(f),
                 f.seq = dev_sent[m] + 1, f.type \in {"DATA", "FIN"},
                 dev_sent' = [dev_sent EXCEPT ![m] = @ + f.n]
          PROVE  DevGaplessOf(l)'
      <3>1. f.n \in Nat
        BY DEF DevFrames
      <3>2. m = l => dev_sent'[l] = dev_sent[l] + f.n
        BY <2>5 DEF TypeOK
      <3>3. m = l => f.seq <= dev_sent[l] + 1 /\ After(f) = dev_sent'[l] + 1
        BY <1>0, <2>5, <3>1, <3>2 DEF After
      <3>4. m # l => dev_sent'[l] = dev_sent[l]
        BY <2>5 DEF TypeOK
      <3> QED
        BY <2>4, <2>5, <3>3, <3>4
    <2>6. ASSUME NEW m \in Links, NEW f \in DevFrames, f.link = m, DevSends(f), f.type = "DATA",
                 f.seq = recv_seq[m], After(f) = dev_sent[m] + 1, dev_sent' = dev_sent
          PROVE  DevGaplessOf(l)'
      <3>1. m = l => f.seq <= dev_sent[l] + 1
        BY <2>1, <2>6 DEF DevGaplessOf
      <3> QED
        BY <2>4, <2>6, <3>1
    <2>7. ASSUME NEW f \in DevFrames, DevSends(f), f.type \in {"SYNACK", "ACK", "RST"},
                 dev_sent' = dev_sent
          PROVE  DevGaplessOf(l)'
      BY <2>4, <2>7
    <2>8. SpeakShape
      BY <1>3, DevSaid
    <2> QED
      BY <2>3, <2>5, <2>6, <2>7, <2>8 DEF SpeakShape
  <1> QED
    BY <1>1, <1>2, <1>3, TwoSides
\* All that was acknowledged was heard.
LEMMA AllHeardKept ==
    TypeOK /\ Calling /\ InTurn /\ Unconnected /\ DevSpeaks /\ DevGapless /\ AllHeard /\ [Next]_vars
        => AllHeard'
  <1> SUFFICES ASSUME TypeOK, Calling, InTurn, Unconnected, DevSpeaks, DevGapless, AllHeard,
                      [Next]_vars, NEW l \in Links, Undisturbed', st'[l] = "open"
               PROVE  IF closed'[l] THEN dev_done'[l] /\ HasHeard(l, dev_sent[l])'
                      ELSE HasHeard(l, recv_seq[l] - 1)'
    BY DEF AllHeard
  <1> DEFINE H == Hears(l)
  <1>0. recv_seq[l] \in Nat /\ dev_sent[l] \in Nat /\ cur \in Links
    BY UseFacts DEF TypeOK
  <1>1. CASE UNCHANGED vars
    <2>1. UNCHANGED <<use, st, closed, recv_seq, incoming, heard, dev_sent, dev_done>>
      BY <1>1 DEF vars, host, wire, history, device
    <2>2. IF closed[l] THEN dev_done[l] /\ HasHeard(l, dev_sent[l])
          ELSE HasHeard(l, recv_seq[l] - 1)
      BY <2>1 DEF AllHeard, Undisturbed
    <2> QED
      BY <2>1, <2>2 DEF HasHeard, Hears
  <1>2. CASE Host
    <2>0. Undisturbed /\ dev_sent'[l] = dev_sent[l] /\ dev_done'[l] = dev_done[l]
      BY <1>2, HostLeavesDevice DEF Undisturbed
    <2>1. CASE cur = l /\ (ReadFin \/ ReadData)
      <3>1. st[l] = "open"
        BY <1>0, <2>1 DEF ReadFin, ReadData, Fail, TypeOK
      <3>2. PICK f \in DevFrames : f = Segment /\ f.link = l
        BY <2>1, FirstAhead
      <3>3. /\ ~closed[l] /\ f.seq \in Nat /\ f.n \in Nat /\ f.seq <= recv_seq[l]
            /\ f.type = "FIN" => dev_done[l] /\ After(f) = dev_sent[l] + 1
        BY <2>0, <2>1, <3>1, <3>2, ReadNext
      <3>4. Handed(l, f)
        <4>1. Handed(l, Segment)
          BY <2>1, ReadHands
        <4> QED
          BY <3>2, <4>1 DEF Handed
      <3>5. PICK n \in Nat : n = Len(H)
        BY AheadFacts
      <3>6. /\ Len(H') = n + f.n /\ \A i \in 1 .. n : H'[i] = H[i]
            /\ \A i \in 1 .. f.n : H'[n + i].at = f.seq + i - 1
        <4>1. /\ Len(H') = n + f.n /\ \A i \in 1 .. n : H'[i] = H[i]
              /\ \A i \in 1 .. f.n : H'[n + i] = [link |-> f.link, at |-> f.seq + i - 1]
          BY <3>4, <3>5 DEF Handed
        <4>2. ASSUME NEW i \in 1 .. f.n
              PROVE  H'[n + i].at = f.seq + i - 1
          <5>1. H'[n + i] = [link |-> f.link, at |-> f.seq + i - 1]
            BY <4>1
          <5> QED
            BY ONLY <5>1
        <4> QED
          BY <4>1, <4>2
      <3>7. \A u \in 1 .. (recv_seq[l] - 1) : \E i \in 1 .. n : H[i].at = u
        BY <2>0, <3>1, <3>3, <3>5 DEF AllHeard, HasHeard
      <3>8. ASSUME NEW u \in Nat, 1 <= u, u < After(f)
            PROVE  \E i \in 1 .. Len(H') : H'[i].at = u
        <4>1. CASE u < recv_seq[l]
          <5>1. u \in 1 .. (recv_seq[l] - 1)
            BY <1>0, <3>8, <4>1
          <5>2. PICK i \in 1 .. n : H[i].at = u
            BY <3>7, <5>1
          <5>3. i \in 1 .. Len(H') /\ H'[i].at = u
            BY <3>3, <3>6, <5>2
          <5> QED
            BY <5>3
        <4>2. CASE ~(u < recv_seq[l])
          <5>1. PICK j \in 1 .. f.n : j = u - f.seq + 1 /\ f.seq + j - 1 = u
            <6>1. u - f.seq + 1 \in 1 .. f.n /\ f.seq + (u - f.seq + 1) - 1 = u
              BY <1>0, <3>3, <3>8, <4>2 DEF After
            <6> QED
              BY <6>1
          <5>2. n + j \in 1 .. (n + f.n)
            BY <3>3
          <5>3. n + j \in 1 .. Len(H') /\ H'[n + j].at = u
            BY <3>6, <5>1, <5>2
          <5> QED
            BY <5>3
        <4> QED
          BY <4>1, <4>2
      <3>9. ASSUME NEW m \in Nat, m + 1 = After(f)
            PROVE  \A u \in 1 .. m : \E i \in 1 .. Len(H') : H'[i].at = u
        BY <3>3, <3>8, <3>9 DEF After
      <3>10. CASE ReadFin
        <4>1. closed'[l] /\ dev_done[l] /\ After(f) = dev_sent[l] + 1
          BY <1>0, <2>1, <3>2, <3>3, <3>10 DEF ReadFin, TypeOK
        <4>2. \A u \in 1 .. dev_sent[l] : \E i \in 1 .. Len(H') : H'[i].at = u
          BY <1>0, <3>9, <4>1
        <4> QED
          BY <2>0, <4>1, <4>2 DEF HasHeard
      <3>11. CASE ReadData
        <4>1. closed'[l] = closed[l] /\ recv_seq'[l] = After(f)
          BY <1>0, <2>1, <3>2, <3>11 DEF ReadData, TypeOK
        <4>2. recv_seq[l] >= 1 /\ recv_seq[l] <= After(f)
          <5>1. Reads(l)
            BY <2>0, <3>1, <3>3 DEF Reads
          <5> QED
            BY <2>0, <2>1, <3>1, <3>2, <5>1, ReadNext DEF DevGapless, DevGaplessOf
        <4>3. After(f) - 1 \in Nat /\ (After(f) - 1) + 1 = After(f)
          BY <1>0, <3>3, <4>2 DEF After
        <4>4. \A u \in 1 .. (After(f) - 1) : \E i \in 1 .. Len(H') : H'[i].at = u
          BY <3>9, <4>3
        <4> QED
          BY <3>3, <4>1, <4>4 DEF HasHeard
      <3> QED
        BY <2>1, <3>10, <3>11
    <2>2. CASE cur = l /\ Connected
      <3>1. st[l] = "connecting" /\ TakesPacket
        BY <2>2 DEF Connected, Calling, TakesPacket
      <3>2. ~closed[l]
        BY <3>1 DEF Unconnected, Silent
      <3>3. Segment.seq = 0
        <4>1. /\ Len(Ahead(l)) >= 2 /\ Ahead(l)[1].frame = Segment
              /\ Segment.link = l /\ Segment.type = "SYNACK"
          BY <2>2, <3>1, PacketTaken DEF Connected, Mine, IsMine
        <4>2. 1 \in 1 .. Len(Ahead(l))
          BY <4>1, AheadFacts
        <4> QED
          BY <4>1, <4>2 DEF DevSpeaks, DevSpeaksOf
      <3>4. recv_seq'[l] = 1 /\ closed' = closed
        BY <1>0, <2>2, <3>3 DEF Connected, TypeOK
      <3>5. \A u \in 1 .. (1 - 1) : \E i \in 1 .. Len(H') : H'[i].at = u
        OBVIOUS
      <3> QED
        BY <3>2, <3>4, <3>5 DEF HasHeard
    <2>3. CASE ~(cur = l /\ (ReadFin \/ ReadData \/ Connected))
      <3>1. /\ st[l] = "open" /\ closed'[l] = closed[l] /\ recv_seq'[l] = recv_seq[l] /\ H' = H
        BY <1>2, <2>3, HostQuiet
      <3> QED
        BY <2>0, <3>1 DEF AllHeard, HasHeard
    <2> QED
      BY <2>1, <2>2, <2>3
  <1>3. CASE Device
    <2>1. UNCHANGED <<use, st, closed, recv_seq>> /\ H' = H
      BY <1>3, DeviceLeavesHost, DevGrows
    <2>2. dev_done[l] => dev_sent'[l] = dev_sent[l] /\ dev_done'[l]
      BY <1>3, SentGrows
    <2> QED
      BY <2>1, <2>2 DEF AllHeard, HasHeard, Undisturbed
  <1> QED
    BY <1>1, <1>2, <1>3, TwoSides

\* A link used alone, of a device that sends nothing twice, hears unit after unit.
LEMMA CountedKept ==
    TypeOK /\ Calling /\ InTurn /\ Unconnected /\ DevSpeaks /\ DevGapless /\ InOrder
           /\ use.alone /\ Counted /\ [Next]_vars
        => Counted'
  <1> SUFFICES ASSUME TypeOK, Calling, InTurn, Unconnected, DevSpeaks, DevGapless, InOrder,
                      use.alone, Counted, [Next]_vars, NEW l \in Links
               PROVE  /\ \A i \in 1 .. Len(Hears(l)') : Hears(l)'[i].at = i
                      /\ st'[l] = "open" /\ ~closed'[l] => Len(Hears(l)') = recv_seq'[l] - 1
    BY DEF Counted
  <1> DEFINE H == Hears(l)
  <1>0. recv_seq[l] \in Nat /\ dev_sent[l] \in Nat /\ cur \in Links
    BY UseFacts DEF TypeOK
  <1>1. CASE UNCHANGED vars
    BY <1>1 DEF Counted, Hears, vars, host, history
  <1>2. CASE Host
    <2>1. CASE cur = l /\ (ReadFin \/ ReadData) /\ Handed(l, Segment)
      <3>1. st[l] = "open"
        BY <2>1 DEF ReadFin, ReadData, Calling
      <3>2. PICK f \in DevFrames : f = Segment /\ f.link = l
        BY <2>1, FirstAhead
      <3>3. ~closed[l] /\ f.seq \in Nat /\ f.n \in Nat /\ f.seq <= recv_seq[l]
        BY <2>1, <3>1, <3>2, ReadNext DEF Undisturbed
      <3>4. Handed(l, f)
        BY <2>1, <3>2 DEF Handed
      <3>5. PICK n \in Nat : n = Len(H)
        BY AheadFacts
      <3>6. /\ Len(H') = n + f.n
            /\ \A i \in 1 .. Len(H') :
                   \/ i \in 1 .. n /\ H'[i] = H[i]
                   \/ \E j \in 1 .. f.n : i = n + j /\ H'[i].at = f.seq + j - 1
        <4>1. /\ Len(Hears(l)') = Len(Hears(l)) + f.n
              /\ \A i \in 1 .. Len(Hears(l)') :
                     \/ i \in 1 .. Len(Hears(l)) /\ Hears(l)'[i] = Hears(l)[i]
                     \/ \E j \in 1 .. f.n : /\ i = Len(Hears(l)) + j
                                            /\ Hears(l)'[i].link = l
                                            /\ Hears(l)'[i].at = f.seq + j - 1
          <5>1. f.link = l
            BY <3>2
          <5> QED
            BY ONLY TypeOK, <3>4, <5>1, HandedIndex
        <4> QED
          BY <3>5, <4>1
      <3>7. n = recv_seq[l] - 1 /\ \A i \in 1 .. n : H[i].at = i
        BY <3>1, <3>3, <3>5 DEF Counted
      <3>8. f.seq >= 1 /\ \A i \in 1 .. n : H[i].at < f.seq
        <4>1. 1 \in 1 .. Len(Ahead(l)) /\ Speaks(Ahead(l)[1], l) /\ Ahead(l)[1].frame = f
          BY <2>1, <3>2, FirstAhead
        <4> QED
          BY <3>5, <4>1 DEF InOrder, InOrderOf
      <3>9. f.seq = n + 1
        <4>1. n > 0 => n \in 1 .. n
          OBVIOUS
        <4>2. n > 0 => n < f.seq
          BY <3>7, <3>8, <4>1
        <4>3. PICK r \in Nat : r = recv_seq[l]
          BY <1>0
        <4>4. PICK s \in Nat : s = f.seq
          BY <3>3
        <4>5. n = r - 1 /\ s <= r /\ s >= 1 /\ (n > 0 => n < s)
          BY <3>3, <3>7, <3>8, <4>2, <4>3, <4>4
        <4>6. s = n + 1
          BY ONLY <4>5, n \in Nat, r \in Nat, s \in Nat
        <4> QED
          BY <4>4, <4>6
      <3>10. ASSUME NEW i \in 1 .. Len(H')
             PROVE  H'[i].at = i
        <4>1. CASE i \in 1 .. n /\ H'[i] = H[i]
          BY <3>7, <4>1
        <4>2. ASSUME NEW j \in 1 .. f.n, i = n + j, H'[i].at = f.seq + j - 1
              PROVE  H'[i].at = i
          <5>1. j \in Nat
            BY <3>3
          <5>2. H'[i].at = (n + 1) + j - 1 /\ (n + 1) + j - 1 = n + j
            BY <3>9, <4>2, <5>1
          <5> QED
            BY ONLY <4>2, <5>2
        <4> QED
          BY <3>6, <4>1, <4>2
      <3>11. ReadData => recv_seq'[l] = After(f)
        BY <1>0, <2>1, <3>2 DEF ReadData, TypeOK
      <3>12. ReadFin => closed'[l]
        BY <1>0, <2>1 DEF ReadFin, TypeOK
      <3>13. After(f) - 1 = n + f.n
        BY <3>3, <3>9 DEF After
      <3> QED
        BY <2>1, <3>6, <3>10, <3>11, <3>12, <3>13
    <2>2. CASE H' = H /\ ~(cur = l /\ (ReadFin \/ ReadData)) /\ st'[l] = "open" /\ ~closed'[l]
      <3>1. CASE cur = l /\ Connected
        <4>1. st[l] = "connecting" /\ TakesPacket
          BY <3>1 DEF Connected, Calling, TakesPacket
        <4>2. H = <<>>
          BY <4>1 DEF Unconnected, Silent, Hears
        <4>3. Segment.seq = 0
          <5>1. /\ Len(Ahead(l)) >= 2 /\ Ahead(l)[1].frame = Segment
                /\ Segment.link = l /\ Segment.type = "SYNACK"
            BY <3>1, <4>1, PacketTaken DEF Connected, Mine, IsMine
          <5>2. 1 \in 1 .. Len(Ahead(l))
            BY <5>1, AheadFacts
          <5> QED
            BY <5>1, <5>2 DEF DevSpeaks, DevSpeaksOf
        <4>4. recv_seq'[l] = 1
          BY <1>0, <3>1, <4>3 DEF Connected, TypeOK
        <4> QED
          BY <2>2, <4>2, <4>4 DEF Counted
      <3>2. CASE ~(cur = l /\ Connected)
        <4>1. st[l] = "open" /\ closed'[l] = closed[l] /\ recv_seq'[l] = recv_seq[l]
          BY <1>2, <2>2, <3>2, HostQuiet
        <4> QED
          BY <2>2, <4>1 DEF Counted
      <3> QED
        BY <3>1, <3>2
    <2>3. CASE H' = H /\ ~(st'[l] = "open" /\ ~closed'[l])
      BY <2>3 DEF Counted
    <2>4. CASE H' = H /\ cur = l /\ (ReadFin \/ ReadData)
      <3>1. ~(st'[l] = "open" /\ ~closed'[l]) \/ Handed(l, Segment)
        BY <1>0, <2>4, ReadHands
      <3> QED
        BY <2>1, <2>3, <2>4, <3>1
    <2> QED
      BY <1>2, <2>1, <2>2, <2>3, <2>4, HostHears
  <1>3. CASE Device
    <2>1. UNCHANGED <<use, st, closed, recv_seq>> /\ H' = H
      BY <1>3, DeviceLeavesHost, DevGrows
    <2> QED
      BY <2>1 DEF Counted
  <1> QED
    BY <1>1, <1>2, <1>3, TwoSides
-----------------------------------------------------------------------------
(* The packets of a tunnel with one link.                                  *)

\* What is ahead of a link stays a sequence of pieces.
LEMMA AheadNext ==
    ASSUME TypeOK, [Next]_vars, NEW l \in Links
    PROVE  Ahead(l)' \in Seq(Pieces) /\ Len(Ahead(l)') \in Nat
  <1>1. TypeOK'
    BY NextType
  <1>2. framer'[l] \in Seq(Pieces) /\ from_dev' \in Seq(Pieces)
    BY <1>1 DEF TypeOK
  <1>3. Ahead(l)' = framer'[l] \o from_dev'
    BY DEF Ahead
  <1> QED
    BY <1>2, <1>3, ConcatProperties, LenProperties

\* What is whole stays whole when the first packet is taken.
LEMMA PairedCut ==
    ASSUME NEW p \in Seq(Pieces), NEW q \in Seq(Pieces), Paired(p), Len(p) = Len(q) + 2,
           \A i \in 1 .. Len(q) : q[i] = p[i + 2]
    PROVE  Paired(q)
  <1>1. PICK n \in Nat : n = Len(q)
    BY LenProperties
  <1>2. Len(p) = n + 2 /\ p # <<>> /\ (q # <<>> => n >= 1)
    BY <1>1, EmptySeq
  <1>3. p[1].part = 1 /\ p[n + 2].part = 2 /\ \A i \in 1 .. (n + 1) : p[i].part # p[i + 1].part
    BY <1>2 DEF Paired
  <1>4. \A i \in 1 .. (n + 2) : p[i].part \in {1, 2}
    <2>1. \A i \in 1 .. (n + 2) : p[i] \in Pieces
      BY <1>2, ElementOfSeq
    <2> QED
      BY <2>1, PieceFacts
  <1>5. ASSUME q # <<>>
        PROVE  q[1].part = 1 /\ q[n].part = 2
    <2>1. n >= 1 /\ 1 \in 1 .. (n + 1) /\ 1 + 1 \in 1 .. (n + 1) /\ (1 + 1) + 1 \in 1 .. (n + 2)
          /\ 1 + 1 \in 1 .. (n + 2)
      BY <1>2, <1>5
    <2>2. p[1 + 1].part # 1 /\ p[(1 + 1) + 1].part # p[1 + 1].part
      BY <1>3, <2>1
    <2>3. p[(1 + 1) + 1].part = 1
      BY <1>4, <2>1, <2>2
    <2>4. q[1] = p[1 + 2] /\ q[n] = p[n + 2] /\ 1 + 2 = (1 + 1) + 1
      BY <1>1, <2>1
    <2> QED
      BY <1>3, <2>3, <2>4
  <1>6. ASSUME NEW i \in 1 .. (n - 1)
        PROVE  q[i].part # q[i + 1].part
    <2>1. i \in 1 .. n /\ i + 1 \in 1 .. n /\ i + 2 \in 1 .. (n + 1) /\ (i + 1) + 2 = (i + 2) + 1
      OBVIOUS
    <2>2. q[i] = p[i + 2] /\ q[i + 1] = p[(i + 2) + 1]
      BY <1>1, <2>1
    <2> QED
      BY <1>3, <2>1, <2>2
  <1> QED
    BY <1>1, <1>5, <1>6 DEF Paired

\* And when a packet comes.
LEMMA PairedGrown ==
    ASSUME NEW p \in Seq(Pieces), NEW q \in Seq(Pieces), Paired(p), Len(q) = Len(p) + 2,
           \A i \in 1 .. Len(p) : q[i] = p[i], q[Len(p) + 1].part = 1, q[Len(p) + 2].part = 2
    PROVE  Paired(q)
  <1>1. PICK n \in Nat : n = Len(p)
    BY LenProperties
  <1>2. /\ Len(q) = n + 2 /\ (p = <<>> <=> n = 0) /\ \A i \in 1 .. n : q[i] = p[i]
        /\ q[n + 1].part = 1 /\ q[n + 2].part = 2
    BY <1>1, EmptySeq
  <1>3. q[1].part = 1
    <2>1. CASE n = 0
      BY <1>2, <2>1
    <2>2. CASE n # 0
      <3>1. 1 \in 1 .. n
        BY <2>2
      <3> QED
        BY <1>2, <2>2, <3>1 DEF Paired
    <2> QED
      BY <2>1, <2>2
  <1>4. ASSUME NEW i \in 1 .. (n + 1)
        PROVE  q[i].part # q[i + 1].part
    <2>1. CASE i = n + 1
      <3>1. q[n + 1].part = 1 /\ q[(n + 1) + 1].part = 2
        <4>1. (n + 1) + 1 = n + 2
          OBVIOUS
        <4> QED
          BY <1>2, <4>1
      <3> QED
        BY <2>1, <3>1
    <2>2. CASE i = n
      <3>1. p[n].part = 2 /\ q[n] = p[n]
        BY <1>1, <1>2, <2>2 DEF Paired
      <3> QED
        BY <1>2, <2>2, <3>1
    <2>3. CASE i < n
      <3>1. i \in 1 .. n /\ i + 1 \in 1 .. n /\ i \in 1 .. (n - 1)
        BY <2>3
      <3>2. p[i].part # p[i + 1].part
        BY <1>1, <3>1 DEF Paired
      <3> QED
        BY <1>2, <3>1, <3>2
    <2> QED
      BY <2>1, <2>2, <2>3
  <1> QED
    <2>1. (n + 2) - 1 = n + 1
      OBVIOUS
    <2> QED
      BY <1>2, <1>3, <1>4, <2>1 DEF Paired

\* Nothing is on the way to the host before the first link is made.
LEMMA AlignedFirstKept ==
    TypeOK /\ Made /\ AlignedFirst /\ [Next]_vars => AlignedFirst'
  <1> SUFFICES ASSUME TypeOK, Made, AlignedFirst, [Next]_vars, \A l \in Links : st'[l] = "none"
               PROVE  from_dev' = <<>>
    BY DEF AlignedFirst
  <1>0. cur \in Links
    BY DEF TypeOK
  <1>1. CASE UNCHANGED vars
    BY <1>1 DEF AlignedFirst, vars
  <1>2. CASE Host
    <2>1. \A l \in Links : st[l] = "none"
      <3>1. StShape
        BY <1>2, HostStShape
      <3> QED
        BY <1>0, <3>1 DEF StShape, TypeOK
    <2>2. ~Waits \/ op \in {"connect", "read"}
      BY DEF Waits
    <2>3. from_dev = <<>>
      BY <2>1 DEF AlignedFirst
    <2>4. CASE TunnelRead
      <3>1. \A k \in ReadSizes : k \in Nat /\ k >= 1 /\ k <= Len(from_dev)
        BY AheadFacts, <1>0, TunnelTcpAssumption DEF ReadSizes, Smaller
      <3> QED
        BY <2>3, <2>4, <3>1, EmptySeq DEF TunnelRead
    <2>5. CASE ~TunnelRead
      <3>1. from_dev' = from_dev
        BY <1>2, <2>5 DEF Host, Call, CallSpins, Continue, TakesPacket, Connect, Write, Read, Close, Destroy,
           WriteChunk, WriteFails, Written, ReadFails, Misframed, ConnectSkips, ConnectRefused,
           Connected, ReadSkips, ReadReset, ReadFin, ReadData, ReadReturns, ReadEnds, Mine, Takes
      <3> QED
        BY <2>3, <3>1
    <2> QED
      BY <2>4, <2>5
  <1>3. CASE Device
    <2>1. st' = st
      BY <1>3, DeviceLeavesHost
    <2>2. \A l \in Links : Unmade(l)
      BY <2>1 DEF Made
    <2>3. to_dev = <<>>
      <3>1. ASSUME to_dev # <<>>
            PROVE  FALSE
        <4>1. 1 \in 1 .. Len(to_dev) /\ to_dev[1] \in HostFrames
          BY <3>1, RestFacts, ElementOfSeq DEF TypeOK
        <4>2. to_dev[1].link \in Links
          BY <4>1 DEF HostFrames
        <4> QED
          BY <2>2, <4>1, <4>2 DEF Unmade
      <3> QED
        BY <3>1
    <2>4. \A l \in Links : dev[l] = "none"
      BY <2>2 DEF Unmade
    <2>5. from_dev' = from_dev
      BY <1>3, <2>3, <2>4 DEF Device, DevTakes, DevSyn, DevNext, DevRefuses, Arrives, Serves,
         DevData, DevReset, DevResends, TunnelEnds
    <2> QED
      BY <2>1, <2>5 DEF AlignedFirst
  <1> QED
    BY <1>1, <1>2, <1>3, TwoSides

\* The packets ahead of the only link are whole.
LEMMA AlignedKept ==
    TypeOK /\ Calling /\ InTurn /\ Made /\ use.links = 1 /\ Aligned /\ AlignedFirst /\ [Next]_vars
        => Aligned'
  <1> SUFFICES ASSUME TypeOK, Calling, InTurn, Made, use.links = 1, Aligned, AlignedFirst,
                      [Next]_vars, NEW l \in Links, st'[l] # "none"
               PROVE  Paired(Ahead(l))'
    BY DEF Aligned
  <1> DEFINE Q == Ahead(l)
  <1>0. /\ Q \in Seq(Pieces) /\ Q' \in Seq(Pieces) /\ Len(Q) \in Nat /\ Len(Q') \in Nat
        /\ cur \in Links
    BY AheadFacts, AheadNext DEF TypeOK
  <1>1. CASE Q' = Q /\ st[l] # "none"
    BY <1>1 DEF Aligned
  <1>2. CASE UNCHANGED vars
    BY <1>1, <1>2 DEF Ahead, vars, host
  <1>3. CASE Host
    <2>1. CASE st[l] = "none"
      <3>1. \E k \in Links : Connect(k)
        <4>1. op = "idle"
          <5>1. StShape
            BY <1>3, HostStShape
          <5> QED
            BY <1>0, <2>1, <5>1 DEF StShape, Calling, TypeOK
        <4>2. Call
          BY <1>3, <4>1
             DEF Host, Continue, TakesPacket, WriteChunk, WriteFails, Written, TunnelRead,
             ReadFails, Misframed, Waits, ConnectSkips, ConnectRefused, Connected, ReadSkips,
             ReadReset, ReadFin, ReadData, ReadReturns, ReadEnds
        <4> QED
          BY <2>1, <4>2 DEF Call, CallSpins, Write, Read, Close, Destroy, TypeOK
      <3>2. UNCHANGED <<framer, from_dev>>
        BY <3>1 DEF Connect
      <3>3. PICK k \in Links : Connect(k)
        BY <3>1
      <3>4. l <= 1
        BY <2>1, <3>3 DEF Connect, MayOpen, TypeOK
      <3>5. \A m \in Links : st[m] = "none"
        BY <2>1, <3>4 DEF InTurn, Links
      <3>6. from_dev = <<>> /\ framer[l] = <<>>
        BY <3>5 DEF AlignedFirst, Made, Unmade
      <3>7. Q' = <<>>
        BY <3>2, <3>6 DEF Ahead
      <3> QED
        BY <3>7 DEF Paired
    <2>2. CASE st[l] # "none"
      <3>1. Paired(Q)
        BY <2>2 DEF Aligned
      <3>2. CASE Cut(l, 0, 0)
        <4>1. Len(Q) = Len(Q') /\ \A i \in 1 .. Len(Q') : Q'[i] = Q[i]
          BY <1>0, <3>2 DEF Cut
        <4>2. Q' = Q
          BY <1>0, <4>1, SeqEqual
        <4> QED
          BY <2>2, <4>2, <1>1
      <3>3. CASE Cut(l, 0, 2)
        <4>1. Len(Q) = Len(Q') + 2 /\ \A i \in 1 .. Len(Q') : Q'[i] = Q[i + 2]
          BY <1>0, <3>3 DEF Cut
        <4> QED
          BY <1>0, <3>1, <4>1, PairedCut
      <3>4. CASE cur # l /\ Waits
        <4>1. st[cur] # "none"
          BY <3>4 DEF Waits, Calling, TypeOK
        <4> QED
          BY <1>0, <2>2, <3>4, <4>1 DEF InTurn, Links
      <3> QED
        BY <1>3, <3>2, <3>3, <3>4, HostReads
    <2> QED
      BY <2>1, <2>2
  <1>4. CASE Device
    <2>1. st' = st
      BY <1>4, DeviceLeavesHost
    <2>2. CASE from_dev' = from_dev
      BY <1>1, <1>4, <2>1, <2>2, DevGrows
    <2>3. ASSUME NEW f \in DevFrames, DevSends(f)
          PROVE  Paired(Q)'
      <3>1. Grown(l, f)
        BY <1>4, <2>3, DevGrows
      <3>2. /\ Len(Q') = Len(Q) + 2 /\ \A i \in 1 .. Len(Q) : Q'[i] = Q[i]
            /\ Q'[Len(Q) + 1].part = 1 /\ Q'[Len(Q) + 2].part = 2
        BY <3>1 DEF Grown
      <3>3. Paired(Q)
        BY <2>1 DEF Aligned
      <3> QED
        BY <1>0, <3>2, <3>3, PairedGrown
    <2>4. SpeakShape
      BY <1>4, DevSaid
    <2> QED
      BY <2>2, <2>3, <2>4 DEF SpeakShape
  <1> QED
    BY <1>2, <1>3, <1>4, TwoSides
-----------------------------------------------------------------------------
(* What is counted on both sides of the wire to the device.                *)

\* A call and a segment stay within what the way of use allows, and only data has a size.
Bounds ==
    /\ op = "write" => left <= use.writes
    /\ op = "read" => left <= use.units
    /\ \A i \in 1 .. Len(to_dev) :
           IF to_dev[i].type = "DATA" THEN to_dev[i].n <= use.writes ELSE to_dev[i].n = 0

\* Nothing is under way on a tunnel that ended.
Gone == tunnel # "up" => to_dev = <<>>

\* The SYN was counted on a link that is in use, by the host and by the device.
Started ==
    \A l \in Links :
        /\ st[l] \in {"connecting", "open", "broken"} => send_seq[l] >= 1
        /\ dev[l] \in {"syn", "open"} => dev_seq[l] >= 1

\* A FIN that was sent has come, or will.
FinComing ==
    \A l \in Links : fins[l] = 1 /\ dev[l] # "closed" /\ ~dev_fin[l] /\ tunnel = "up" =>
        \E i \in 1 .. Len(to_dev) : to_dev[i].link = l /\ to_dev[i].type = "FIN"

SInv == Bounds /\ Gone /\ Started /\ FinComing

\* What a step of the host sends, and counts.
SaysOn(l, f) ==
    /\ f.link = l /\ tunnel = "up"
    /\ to_dev' = Append(to_dev, f)
    /\ send_seq' = [send_seq EXCEPT ![l] = send_seq[l] + Taken(f.type, f.n)]
    /\ f.type = "SYN" => st[l] = "none"
    /\ f.type = "DATA" => op = "write" /\ l = cur /\ f.n <= left /\ st' = st
    /\ f.type # "DATA" => f.n = 0
    /\ fins' = IF f.type = "FIN" THEN [fins EXCEPT ![l] = fins[l] + 1] ELSE fins

SaidShape ==
    \/ UNCHANGED <<to_dev, send_seq, fins>>
    \/ \E l \in Links, f \in HostFrames : SaysOn(l, f)

\* A segment is said as it is sent.
LEMMA SentIsSaid ==
    ASSUME TypeOK, NEW l \in Links, NEW type \in {"SYN", "ACK", "DATA", "FIN"}, NEW n \in Nat,
           Sent(l, type, n),
           type = "SYN" => st[l] = "none",
           type = "DATA" => op = "write" /\ l = cur /\ n <= left /\ st' = st,
           type # "DATA" => n = 0,
           fins' = IF type = "FIN" THEN [fins EXCEPT ![l] = fins[l] + 1] ELSE fins
    PROVE  SaidShape
  <1>1. PICK f \in HostFrames : f = HostFrame(l, type, n)
    BY DEF TypeOK, HostFrame, HostFrames
  <1>2. f.link = l /\ f.type = type /\ f.n = n
    BY <1>1 DEF HostFrame
  <1>3. /\ tunnel = "up" /\ to_dev' = Append(to_dev, f)
        /\ send_seq' = [send_seq EXCEPT ![l] = send_seq[l] + Taken(f.type, f.n)]
    BY <1>1, <1>2 DEF Sent
  <1>4. SaysOn(l, f)
    BY <1>2, <1>3 DEF SaysOn
  <1> QED
    BY <1>4 DEF SaidShape

\* Every step of the host says one segment, or none.
LEMMA HostSays ==
    ASSUME TypeOK, Calling, Host
    PROVE  SaidShape
  <1> USE DEF host, calls, wire, history, device
  <1>0. cur \in Links /\ 0 \in Nat /\ left \in Nat
    BY DEF TypeOK
  <1>1. CASE SendFails /\ fins' = fins
    BY <1>1 DEF SendFails, SaidShape
  <1>2. ASSUME NEW l \in Links, Connect(l)
        PROVE  SaidShape
    <2>1. st[l] = "none" /\ fins' = fins /\ (Sent(l, "SYN", 0) \/ SendFails)
      BY <1>2 DEF Connect, MayOpen
    <2> QED
      BY <1>0, <1>1, <2>1, SentIsSaid
  <1>3. ASSUME NEW l \in Links, Close(l)
        PROVE  SaidShape
    <2>1. CASE IsClosed(l)
      BY <1>3, <2>1 DEF Close, SaidShape
    <2>2. CASE ~IsClosed(l) /\ Sent(l, "FIN", 0) /\ fins' = [fins EXCEPT ![l] = fins[l] + 1]
      BY <1>0, <2>2, SentIsSaid
    <2> QED
      BY <1>1, <1>3, <2>1, <2>2 DEF Close
  <1>4. CASE WriteChunk
    <2>1. PICK m \in Nat : m = use.mss
      BY UseFacts
    <2>2. Chunk \in Nat /\ Chunk <= left
      BY <1>0, <2>1 DEF Chunk, Smaller
    <2> QED
      BY <1>0, <1>4, <2>2, SentIsSaid DEF WriteChunk
  <1>5. CASE WriteFails
    BY <1>1, <1>5 DEF WriteFails
  <1>6. CASE Connected
    BY <1>0, <1>1, <1>6, SentIsSaid DEF Connected
  <1>7. CASE ReadFin
    <2>1. CASE Sent(cur, "FIN", 0) /\ fins' = [fins EXCEPT ![cur] = fins[cur] + 1]
      BY <1>0, <2>1, SentIsSaid
    <2> QED
      BY <1>1, <1>7, <2>1 DEF ReadFin
  <1>8. CASE ReadData
    BY <1>0, <1>1, <1>8, SentIsSaid DEF ReadData
  <1>9. CASE ~WriteChunk /\ ~WriteFails /\ ~Connected /\ ~ReadFin /\ ~ReadData
             /\ ~\E l \in Links : Close(l) \/ Connect(l)
    <2>1. UNCHANGED <<to_dev, send_seq, fins>>
      BY <1>9 DEF Host, Call, CallSpins, Continue, TakesPacket, Write, Read, Destroy, Written, TunnelRead,
         ReadFails, Misframed, ConnectSkips, ConnectRefused, ReadSkips, ReadReset, ReadReturns,
         ReadEnds
    <2> QED
      BY <2>1 DEF SaidShape
  <1> QED
    BY <1>2, <1>3, <1>4, <1>5, <1>6, <1>7, <1>8, <1>9

\* What is left of a call gets less.
LEMMA LeftFalls ==
    ASSUME TypeOK, Host
    PROVE  \/ op' = op /\ left' <= left
           \/ op' \in {"idle", "connect", "spins"}
           \/ op' = "write" /\ left' <= use.writes
           \/ op' = "read" /\ left' <= use.units
  <1> USE DEF host, calls, wire, history, device
  <1>0. left \in Nat /\ left <= left
    BY DEF TypeOK
  <1>1. CASE WriteChunk
    <2>1. PICK m \in Nat : m = use.mss
      BY UseFacts
    <2>2. Chunk \in Nat /\ Chunk <= left
      BY <1>0, <2>1 DEF Chunk, Smaller
    <2>3. op' = op /\ left' = left - Chunk
      BY <1>1 DEF WriteChunk
    <2> QED
      BY <1>0, <2>2, <2>3
  <1>2. ASSUME NEW l \in Links, NEW n \in 1 .. use.writes, Write(l, n)
        PROVE  op' = "write" /\ left' <= use.writes
    BY <1>2, UseFacts DEF Write
  <1>3. ASSUME NEW l \in Links, NEW n \in 1 .. use.units, Read(l, n)
        PROVE  op' = "read" /\ left' <= use.units
    BY <1>3, UseFacts DEF Read
  <1>4. ASSUME NEW l \in Links, Connect(l) \/ Close(l) \/ Destroy(l) \/ CallSpins(l)
        PROVE  (op' = op /\ left' = left) \/ op' \in {"idle", "connect", "spins"}
    BY <1>4 DEF Connect, Close, Destroy, CallSpins
  <1>5. CASE (Continue /\ ~WriteChunk) \/ ReadFails
    <2>1. (op' = op /\ left' = left) \/ op' = "idle"
      BY <1>5 DEF Continue, TakesPacket, WriteFails, Written, TunnelRead, ReadFails, Misframed,
         ConnectSkips, ConnectRefused, Connected, ReadSkips, ReadReset, ReadFin, ReadData,
         ReadReturns, ReadEnds, Fail, Return
    <2> QED
      BY <1>0, <2>1
  <1> QED
    BY <1>0, <1>1, <1>2, <1>3, <1>4, <1>5 DEF Host, Call

\* A segment is as long as the call that sends it allows.
LEMMA BoundsKept == TypeOK /\ Calling /\ Bounds /\ [Next]_vars => Bounds'
  <1> SUFFICES ASSUME TypeOK, Calling, Bounds, [Next]_vars PROVE Bounds'
    OBVIOUS
  <1>0. /\ to_dev \in Seq(HostFrames) /\ Len(to_dev) \in Nat /\ left \in Nat /\ left' \in Nat
        /\ use.writes \in Nat /\ use.units \in Nat
    BY NextType, UseFacts, LenProperties DEF TypeOK
  <1>1. CASE UNCHANGED vars
    BY <1>1 DEF Bounds, vars, calls
  <1>2. CASE Host
    <2>0. use' = use
      BY <1>2, HostLeavesDevice
    <2>1. (op' = "write" => left' <= use.writes) /\ (op' = "read" => left' <= use.units)
      BY <1>0, <1>2, LeftFalls DEF Bounds
    <2>2. ASSUME NEW i \in 1 .. Len(to_dev')
          PROVE  IF to_dev'[i].type = "DATA" THEN to_dev'[i].n <= use.writes ELSE to_dev'[i].n = 0
      <3>1. CASE to_dev' = to_dev
        BY <3>1 DEF Bounds
      <3>2. ASSUME NEW l \in Links, NEW f \in HostFrames, SaysOn(l, f)
            PROVE  IF to_dev'[i].type = "DATA" THEN to_dev'[i].n <= use.writes
                   ELSE to_dev'[i].n = 0
        <4>1. (i \in 1 .. Len(to_dev) /\ to_dev'[i] = to_dev[i]) \/ to_dev'[i] = f
          BY <1>0, <3>2, GrownFacts DEF SaysOn
        <4>2. f.n \in Nat /\ (f.type = "DATA" => f.n <= left /\ left <= use.writes)
              /\ (f.type # "DATA" => f.n = 0)
          BY <3>2 DEF SaysOn, Bounds, HostFrames
        <4>3. f.type = "DATA" => f.n <= use.writes
          BY <1>0, <4>2
        <4> QED
          BY <4>1, <4>2, <4>3 DEF Bounds
      <3> QED
        BY <1>2, <3>1, <3>2, HostSays DEF SaidShape
    <2> QED
      BY <2>0, <2>1, <2>2 DEF Bounds
  <1>3. CASE Device
    <2>1. UNCHANGED <<use, op, left>>
      BY <1>3, DeviceLeavesHost
    <2>2. \A i \in 1 .. Len(to_dev') : \E j \in 1 .. Len(to_dev) : to_dev'[i] = to_dev[j]
      <3>1. CASE to_dev' = to_dev
        BY <3>1
      <3>2. CASE to_dev' = <<>>
        BY <3>2, EmptySeq
      <3>3. CASE to_dev # <<>> /\ to_dev' = Tail(to_dev)
        BY <1>0, <3>3, RestFacts
      <3> QED
        BY <1>3, <3>1, <3>2, <3>3, DevTurns DEF TurnShape
    <2> QED
      BY <2>1, <2>2 DEF Bounds
  <1> QED
    BY <1>1, <1>2, <1>3, TwoSides

\* The tunnel takes what is under way with it.
LEMMA GoneKept == TypeOK /\ Calling /\ Gone /\ [Next]_vars => Gone'
  <1> SUFFICES ASSUME TypeOK, Calling, Gone, [Next]_vars PROVE Gone'
    OBVIOUS
  <1>1. CASE UNCHANGED vars
    BY <1>1 DEF Gone, vars, wire
  <1>2. CASE Host
    <2>1. tunnel' = tunnel
      BY <1>2, HostLeavesDevice
    <2> QED
      BY <1>2, <2>1, HostSays DEF SaidShape, SaysOn, Gone
  <1>3. CASE Device
    BY <1>3, DevTurns DEF TurnShape, Gone
  <1> QED
    BY <1>1, <1>2, <1>3, TwoSides

\* The first number of a link is that of its SYN.
LEMMA StartedKept == TypeOK /\ Calling /\ Started /\ [Next]_vars => Started'
  <1> SUFFICES ASSUME TypeOK, Calling, Started, [Next]_vars, NEW l \in Links
               PROVE  /\ st'[l] \in {"connecting", "open", "broken"} => send_seq'[l] >= 1
                      /\ dev'[l] \in {"syn", "open"} => dev_seq'[l] >= 1
    BY DEF Started
  <1>0. send_seq[l] \in Nat /\ dev_seq[l] \in Nat /\ cur \in Links
    BY DEF TypeOK
  <1>1. CASE UNCHANGED vars
    BY <1>1 DEF Started, vars, host, device
  <1>2. CASE Host
    <2>1. UNCHANGED <<dev, dev_seq>>
      BY <1>2, HostLeavesDevice
    <2>2. CASE Connect(l)
      <3>1. CASE Sent(l, "SYN", 0)
        <4>1. send_seq'[l] = send_seq[l] + 1
          BY <3>1 DEF Sent, Taken, TypeOK
        <4> QED
          BY <1>0, <2>1, <4>1 DEF Started
      <3>2. CASE ~Sent(l, "SYN", 0)
        <4>1. st'[l] = "over"
          BY <2>2, <3>2 DEF Connect, TypeOK
        <4> QED
          BY <2>1, <4>1 DEF Started
      <3> QED
        BY <3>1, <3>2
    <2>3. CASE ~Connect(l)
      <3>1. st'[l] \in {"connecting", "open", "broken"} => st[l] \in {"connecting", "open", "broken"}
        <4>1. st'[l] # st[l] /\ ~Connect(l) =>
                  st'[l] = "over" \/ (l = cur /\ op \in {"connect", "read", "write"})
          BY <1>0, <1>2 DEF Host, Call, CallSpins, Continue, TakesPacket, Connect, Write, Read, Close, Destroy,
             WriteChunk, WriteFails, Written, TunnelRead, ReadFails, Misframed, Waits, ConnectSkips,
             ConnectRefused, Connected, ReadSkips, ReadReset, ReadFin, ReadData, ReadReturns,
             ReadEnds, Fail, host, calls, wire, history, TypeOK
        <4> QED
          BY <2>3, <4>1 DEF Calling
      <3>2. send_seq'[l] >= send_seq[l] /\ send_seq'[l] \in Nat
        <4>1. CASE send_seq' = send_seq
          BY <1>0, <4>1
        <4>2. ASSUME NEW k \in Links, NEW f \in HostFrames, SaysOn(k, f)
              PROVE  send_seq'[l] >= send_seq[l] /\ send_seq'[l] \in Nat
          <5>1. Taken(f.type, f.n) \in Nat
            BY DEF Taken, HostFrames
          <5>2. send_seq'[l] = send_seq[l] \/ send_seq'[l] = send_seq[l] + Taken(f.type, f.n)
            BY <4>2 DEF SaysOn, TypeOK
          <5> QED
            BY <1>0, <5>1, <5>2
        <4> QED
          BY <1>2, <4>1, <4>2, HostSays DEF SaidShape
      <3>3. st'[l] \in {"connecting", "open", "broken"} => send_seq'[l] >= 1
        BY <1>0, <3>1, <3>2 DEF Started
      <3> QED
        BY <2>1, <3>3 DEF Started
    <2> QED
      BY <2>2, <2>3
  <1>3. CASE Device
    <2>1. UNCHANGED <<st, send_seq>>
      BY <1>3, DeviceLeavesHost
    <2>2. dev'[l] \in {"syn", "open"} => dev_seq'[l] >= 1
      <3>1. CASE UNCHANGED dev_seq
                 /\ \A k \in Links : dev'[k] = dev[k] \/ (dev[k] = "open" /\ dev'[k] = "closed")
        BY <3>1 DEF Started
      <3>2. CASE UNCHANGED <<dev, dev_seq>>
        BY <3>2 DEF Started
      <3>3. ASSUME NEW k \in Links, NEW f \in HostFrames,
                   \A m \in Links : m # k => dev'[m] = dev[m] /\ dev_seq'[m] = dev_seq[m],
                   \/ dev_seq'[k] = 1
                   \/ /\ dev[k] \in {"syn", "open"} /\ f.seq = dev_seq[k]
                      /\ dev_seq'[k] = End(f)
                   \/ dev'[k] = "closed"
            PROVE  dev'[l] \in {"syn", "open"} => dev_seq'[l] >= 1
        <4>1. CASE l # k
          BY <3>3, <4>1 DEF Started
        <4>2. CASE l = k
          <5>1. End(f) >= f.seq /\ End(f) \in Nat
            BY DEF End, Taken, HostFrames
          <5>2. dev[l] \in {"syn", "open"} => dev_seq[l] >= 1
            BY DEF Started
          <5>3. CASE dev[l] \in {"syn", "open"} /\ f.seq = dev_seq[l] /\ dev_seq'[l] = End(f)
            BY <1>0, <5>1, <5>2, <5>3
          <5>4. CASE dev_seq'[l] = 1 \/ dev'[l] = "closed"
            BY <5>4
          <5> QED
            BY <3>3, <4>2, <5>3, <5>4
        <4> QED
          BY <4>1, <4>2
      <3> QED
        BY <1>3, <3>1, <3>2, <3>3, DevTurns DEF TurnShape
    <2> QED
      BY <2>1, <2>2 DEF Started
  <1> QED
    BY <1>1, <1>2, <1>3, TwoSides

\* The device takes the FIN before what was sent after it.
LEMMA FinComingKept ==
    TypeOK /\ Calling /\ SynFirst /\ FinComing /\ [Next]_vars => FinComing'
  <1> SUFFICES ASSUME TypeOK, Calling, SynFirst, FinComing, [Next]_vars, NEW l \in Links,
                      fins'[l] = 1, dev'[l] # "closed", ~dev_fin'[l], tunnel' = "up"
               PROVE  \E i \in 1 .. Len(to_dev') : to_dev'[i].link = l /\ to_dev'[i].type = "FIN"
    BY DEF FinComing
  <1>0. to_dev \in Seq(HostFrames) /\ Len(to_dev) \in Nat
    BY LenProperties DEF TypeOK
  <1>1. CASE UNCHANGED vars
    BY <1>1 DEF FinComing, vars, history, wire, device
  <1>2. CASE Host
    <2>0. UNCHANGED <<dev, dev_fin, tunnel>>
      BY <1>2, HostLeavesDevice
    <2>1. CASE UNCHANGED <<to_dev, fins>>
      BY <2>0, <2>1 DEF FinComing
    <2>2. ASSUME NEW k \in Links, NEW f \in HostFrames, SaysOn(k, f)
          PROVE  \E i \in 1 .. Len(to_dev') : to_dev'[i].link = l /\ to_dev'[i].type = "FIN"
      <3>1. /\ Len(to_dev') = Len(to_dev) + 1 /\ to_dev'[Len(to_dev) + 1] = f
            /\ \A i \in 1 .. Len(to_dev) : i \in 1 .. Len(to_dev') /\ to_dev'[i] = to_dev[i]
            /\ Len(to_dev) + 1 \in 1 .. Len(to_dev')
        BY <1>0, <2>2, GrownFacts DEF SaysOn
      <3>2. CASE f.type = "FIN" /\ k = l
        BY <2>2, <3>1, <3>2 DEF SaysOn
      <3>3. CASE ~(f.type = "FIN" /\ k = l)
        <4>1. fins[l] = 1
          BY <2>2, <3>3 DEF SaysOn, TypeOK
        <4>2. PICK i \in 1 .. Len(to_dev) : to_dev[i].link = l /\ to_dev[i].type = "FIN"
          BY <2>0, <4>1 DEF FinComing
        <4> QED
          BY <3>1, <4>2
      <3> QED
        BY <3>2, <3>3
    <2> QED
      BY <1>2, <2>1, <2>2, HostSays DEF SaidShape
  <1>3. CASE Device
    <2>0. fins' = fins /\ TurnShape
      BY <1>3, DeviceLeavesHost, DevTurns
    <2>1. CASE UNCHANGED <<to_dev, tunnel, dev_fin>>
               /\ \A k \in Links : dev'[k] = dev[k] \/ (dev[k] = "open" /\ dev'[k] = "closed")
      BY <2>0, <2>1 DEF FinComing
    <2>2. ASSUME to_dev # <<>>, to_dev' = Tail(to_dev), tunnel' = tunnel, NEW k \in Links,
                 NEW f \in HostFrames, f = to_dev[1], f.link = k,
                 \A m \in Links : m # k => dev'[m] = dev[m] /\ dev_fin'[m] = dev_fin[m],
                 \/ f.type = "SYN" /\ dev_fin'[k] = dev_fin[k]
                 \/ f.type # "SYN" /\ ~dev_fin[k] /\ dev[k] \in {"syn", "open"}
                    /\ dev_fin'[k] = (f.type = "FIN")
                 \/ dev'[k] = "closed"
          PROVE  \E i \in 1 .. Len(to_dev') : to_dev'[i].link = l /\ to_dev'[i].type = "FIN"
      <3>1. /\ Len(to_dev') = Len(to_dev) - 1 /\ 1 \in 1 .. Len(to_dev)
            /\ \A i \in 1 .. Len(to_dev') : to_dev'[i] = to_dev[i + 1]
        BY <1>0, <2>2, RestFacts
      <3>2. /\ dev[l] # "closed" /\ ~dev_fin[l]
            /\ l = k => f.type # "FIN"
        <4>1. CASE l # k
          BY <2>2, <4>1
        <4>2. CASE l = k
          <5>1. f.type = "SYN" => dev[l] = "none"
            BY <2>2, <3>1, <4>2 DEF SynFirst, SynFirstOf
          <5> QED
            BY <2>2, <4>2, <5>1
        <4> QED
          BY <4>1, <4>2
      <3>3. PICK i \in 1 .. Len(to_dev) : to_dev[i].link = l /\ to_dev[i].type = "FIN"
        BY <2>0, <2>2, <3>2 DEF FinComing
      <3>4. i # 1
        BY <2>2, <3>2, <3>3
      <3>5. i - 1 \in 1 .. Len(to_dev') /\ (i - 1) + 1 = i
        BY <1>0, <3>1, <3>4
      <3> QED
        BY <3>1, <3>3, <3>5
    <2> QED
      BY <2>0, <2>1, <2>2 DEF TurnShape
  <1> QED
    BY <1>1, <1>2, <1>3, TwoSides
-----------------------------------------------------------------------------
(* The theorems.                                                           *)

TunnelInv == TypeOK /\ LInv /\ HInv /\ SInv /\ DInv /\ GInv /\ AInv

\* The way of use is chosen once.
LEMMA UseKept == [Next]_vars => use' = use
  <1> SUFFICES ASSUME [Next]_vars PROVE use' = use
    OBVIOUS
  <1>1. CASE UNCHANGED vars
    BY <1>1 DEF vars
  <1> QED
    BY <1>1, TwoSides, HostLeavesDevice, DeviceLeavesHost

\* The invariant holds before the first connect.
LEMMA InitInv == Init => TunnelInv
  <1> SUFFICES ASSUME Init PROVE TunnelInv
    OBVIOUS
  <1>0. TypeOK
    BY InitType
  <1>1. ASSUME NEW l \in Links
        PROVE  /\ st[l] = "none" /\ dev[l] = "none" /\ ~closed[l] /\ fins[l] = 0 /\ ~dev_done[l]
               /\ send_seq[l] = 0 /\ recv_seq[l] = 0 /\ dev_seq[l] = 0 /\ dev_sent[l] = 0
               /\ ~dev_fin[l] /\ framer[l] = <<>> /\ incoming[l] = <<>> /\ heard[l] = <<>>
               /\ Ahead(l) = <<>> /\ Hears(l) = <<>>
    BY DEF Init, Ahead, Hears
  <1>2. to_dev = <<>> /\ from_dev = <<>> /\ op = "idle"
    BY DEF Init
  <1>3. LInv
    BY <1>1, <1>2 DEF LInv, Calling, InTurn, Made, Unmade, Unconnected, Silent, Fins, SynFirst,
       SynFirstOf
  <1>4. HInv
    BY <1>1, <1>2 DEF HInv, HostOrder, HostOrderOf, HostGapless, HostGaplessOf
  <1>8. SInv
    BY <1>1, <1>2 DEF Init, SInv, Bounds, Gone, Started, FinComing
  <1>5. DInv
    BY <1>1, <1>2 DEF DInv, DevSpeaks, DevSpeaksOf, HeardExact, HeardExactOf, InOrder, InOrderOf
  <1>6. GInv
    BY <1>1, <1>2 DEF GInv, DevGapless, Reads, AllHeard, Counted
  <1>7. AInv
    BY <1>1, <1>2 DEF AInv, Aligned, AlignedFirst
  <1> QED
    BY <1>0, <1>3, <1>4, <1>5, <1>6, <1>7, <1>8 DEF TunnelInv

\* Every step of the host and of the device keeps it.
LEMMA NextInv == TunnelInv /\ [Next]_vars => TunnelInv'
  <1> SUFFICES ASSUME TunnelInv, [Next]_vars PROVE TunnelInv'
    OBVIOUS
  <1>0. TypeOK /\ LInv /\ HInv /\ SInv /\ DInv /\ GInv /\ AInv /\ use' = use
    BY UseKept DEF TunnelInv
  <1>1. TypeOK'
    BY <1>0, NextType
  <1>2. LInv'
    BY <1>0, CallingKept, InTurnKept, MadeKept, UnconnectedKept, FinsKept, SynFirstKept DEF LInv
  <1>3. HInv'
    BY <1>0, HostOrderKept, HostGaplessKept DEF LInv, HInv
  <1>7. SInv'
    BY <1>0, BoundsKept, GoneKept, StartedKept, FinComingKept DEF LInv, SInv
  <1>4. DInv'
    BY <1>0, DevSpeaksKept, HeardExactKept, InOrderKept DEF LInv, DInv
  <1>5. GInv'
    BY <1>0, DevGaplessKept, AllHeardKept, CountedKept DEF LInv, DInv, GInv
  <1>6. AInv'
    BY <1>0, AlignedKept, AlignedFirstKept DEF LInv, AInv
  <1> QED
    BY <1>1, <1>2, <1>3, <1>4, <1>5, <1>6, <1>7 DEF TunnelInv

\* The inductive invariant of the links, the tunnel and the device: the calls
\* (TcpLink::open and connect, write, read and close of tcp_link.cpp), the segments they
\* send and what receive_segment makes of the packets that come back.
THEOREM TunnelInvHolds == Spec => []TunnelInv
  <1> QED
    BY InitInv, NextInv, PTL DEF Spec

\* For any number of links, faults and units: the numbers send_segment puts into the
\* TCP header are true. What the device takes next is in sequence, a link sends one
\* FIN, and where no other link reads, what recv_seq acknowledges was heard.
THEOREM NumbersTrue == Spec => []SequencesHonest
  <1>1. TunnelInv => SequencesHonest
    <2> SUFFICES ASSUME TunnelInv PROVE SequencesHonest
      OBVIOUS
    <2>1. SentInSequence
      BY HostInSequence DEF TunnelInv, HInv
    <2>2. FinOnce
      BY DEF TunnelInv, LInv, Fins, FinOnce
    <2>3. AckedIsHeard
      <3>1. ASSUME NEW l \in Links, Undisturbed, st[l] = "open", NEW u \in 1 .. dev_sent[l],
                   u < recv_seq[l]
            PROVE  \E i \in 1 .. Len(Hears(l)) : Hears(l)[i].at = u
        <4>1. recv_seq[l] \in Nat /\ dev_sent[l] \in Nat
          BY UseFacts DEF TunnelInv, TypeOK
        <4>2. u \in 1 .. (recv_seq[l] - 1)
          BY <3>1, <4>1
        <4> QED
          BY <3>1, <4>2 DEF TunnelInv, GInv, AllHeard, HasHeard
      <3> QED
        BY <3>1 DEF AckedIsHeard
    <2> QED
      BY <2>1, <2>2, <2>3 DEF SequencesHonest
  <1> QED
    BY <1>1, TunnelInvHolds, PTL

\* For any number of links, faults and units: what Impl::read hands out was sent on
\* its link in that order, for a link used alone without a gap, and in a tunnel with
\* one link its framer starts on a packet boundary.
THEOREM BytesWhole == Spec => []DeliveredWhole
  <1>1. TunnelInv => DeliveredWhole
    <2> SUFFICES ASSUME TunnelInv PROVE DeliveredWhole
      OBVIOUS
    <2>1. DeliveredInOrder
      BY HandsInOrder DEF TunnelInv, DInv
    <2>2. DeliveredGapless
      BY DEF TunnelInv, GInv, Counted, DeliveredGapless
    <2>3. FramerAligned
      <3>1. ASSUME use.links = 1, NEW l \in Links, framer[l] # <<>>
            PROVE  framer[l][1].part = 1
        <4>1. st[l] # "none"
          BY <3>1 DEF TunnelInv, LInv, Made, Unmade
        <4>2. Paired(Ahead(l)) /\ TypeOK
          BY <3>1, <4>1 DEF TunnelInv, AInv, Aligned
        <4>3. Len(framer[l]) \in Nat /\ Len(framer[l]) >= 1 /\ Len(from_dev) \in Nat
          BY <3>1, <4>2, EmptySeq, AheadFacts
        <4>4. Ahead(l)[1] = framer[l][1] /\ Ahead(l) # <<>>
          BY <4>2, <4>3, AheadFacts, EmptySeq
        <4> QED
          BY <4>2, <4>4 DEF Paired
      <3> QED
        BY <3>1 DEF FramerAligned
    <2> QED
      BY <2>1, <2>2, <2>3 DEF DeliveredWhole
  <1> QED
    BY <1>1, TunnelInvHolds, PTL
-----------------------------------------------------------------------------
(* The byte channel.  First, what it is made of, link by link.             *)

\* What ByteChannel sees of link l, where it is promised.
StOf(l)  == IF st[l] \in {"none", "connecting"} THEN "new"
            ELSE IF st[l] = "open" THEN "open" ELSE "over"
WrOf(l)  == Count(send_seq[l], fins[l])
TkOf(l)  == Count(dev_seq[l], IF dev_fin[l] THEN 1 ELSE 0)
OutOf(l) == [i \in 1 .. Len(heard[l]) |-> heard[l][i].at]

\* What a step leaves alone of it.
SameSt(l)  == StOf(l)' = StOf(l)
SameWr(l)  == WrOf(l)' = WrOf(l)
SameTk(l)  == TkOf(l)' = TkOf(l)
SamePr(l)  == dev_sent'[l] = dev_sent[l]
SameOut(l) == OutOf(l)' = OutOf(l)
Same(l)    == SameSt(l) /\ SameWr(l) /\ SameTk(l) /\ SamePr(l) /\ SameOut(l)

\* What the actions of ByteChannel do to it.
Opens(l) == /\ StOf(l) = "new" /\ StOf(l)' = "open"
            /\ SameWr(l) /\ SameTk(l) /\ SamePr(l) /\ SameOut(l)

Ends(l) == /\ StOf(l) # "over" /\ StOf(l)' = "over"
           /\ SameWr(l) /\ SameTk(l) /\ SamePr(l) /\ SameOut(l)

Wrote(l, n) == /\ StOf(l) = "open" /\ WrOf(l)' = WrOf(l) + n
               /\ SameSt(l) /\ SameTk(l) /\ SamePr(l) /\ SameOut(l)

Took(l, n) == /\ TkOf(l) + n <= WrOf(l) /\ TkOf(l)' = TkOf(l) + n
              /\ SameSt(l) /\ SameWr(l) /\ SamePr(l) /\ SameOut(l)

Produced(l, n) == /\ StOf(l) # "new" /\ dev_sent'[l] = dev_sent[l] + n
                  /\ SameSt(l) /\ SameWr(l) /\ SameTk(l) /\ SameOut(l)

WasRead(l, n) == /\ StOf(l) = "open" /\ Len(OutOf(l)) + n <= dev_sent[l]
                 /\ OutOf(l)' = OutOf(l) \o [k \in 1 .. n |-> Len(OutOf(l)) + k]
                 /\ SameSt(l) /\ SameWr(l) /\ SameTk(l) /\ SamePr(l)

\* Link l moves as the channel does, or stays.
ChannelMove(l) ==
    \/ Same(l) \/ Opens(l) \/ Ends(l)
    \/ \E n \in 1 .. MaxUnits : Wrote(l, n) \/ Took(l, n) \/ Produced(l, n) \/ WasRead(l, n)

\* A function that changes at one place.
LEMMA OnePlace ==
    ASSUME NEW S, NEW f, NEW g, NEW s \in S, NEW v,
           f = [t \in S |-> f[t]], g = [t \in S |-> g[t]],
           g[s] = v, \A t \in S \ {s} : g[t] = f[t]
    PROVE  g = [f EXCEPT ![s] = v]
  OBVIOUS

\* A step that moves one link as the channel does, and no other, is the channel's.
LEMMA ChannelStep ==
    ASSUME Plain, Plain', NEW l \in Links, \A k \in Links \ {l} : Same(k), ChannelMove(l)
    PROVE  [Channel!Next]_(Channel!vars)
  <1> DEFINE s  == [k \in Links |-> StOf(k)]
             wr == [k \in Links |-> WrOf(k)]
             tk == [k \in Links |-> TkOf(k)]
             pr == [k \in Links |-> dev_sent[k]]
             ot == [k \in Links |-> OutOf(k)]
  <1>1. /\ Channel!vars = <<s, wr, tk, pr, ot>>
        /\ Channel!vars' = <<s', wr', tk', pr', ot'>>
    BY DEF Channel!vars, StOf, WrOf, TkOf, OutOf
  <1>2. /\ \A k \in Links : s[k] = StOf(k) /\ s'[k] = StOf(k)'
        /\ \A k \in Links : wr[k] = WrOf(k) /\ wr'[k] = WrOf(k)'
        /\ \A k \in Links : tk[k] = TkOf(k) /\ tk'[k] = TkOf(k)'
        /\ \A k \in Links : pr[k] = dev_sent[k] /\ pr'[k] = dev_sent'[k]
        /\ \A k \in Links : ot[k] = OutOf(k) /\ ot'[k] = OutOf(k)'
    OBVIOUS
  <1>3. /\ s = [k \in Links |-> s[k]] /\ s' = [k \in Links |-> s'[k]]
        /\ wr = [k \in Links |-> wr[k]] /\ wr' = [k \in Links |-> wr'[k]]
        /\ tk = [k \in Links |-> tk[k]] /\ tk' = [k \in Links |-> tk'[k]]
        /\ pr = [k \in Links |-> pr[k]] /\ pr' = [k \in Links |-> pr'[k]]
        /\ ot = [k \in Links |-> ot[k]] /\ ot' = [k \in Links |-> ot'[k]]
    OBVIOUS
  <1>4. /\ \A k \in Links : Channel!Open(k) <=>
               s[k] = "new" /\ s' = [s EXCEPT ![k] = "open"]
               /\ wr' = wr /\ tk' = tk /\ pr' = pr /\ ot' = ot
        /\ \A k \in Links : Channel!End(k) <=>
               s[k] # "over" /\ s' = [s EXCEPT ![k] = "over"]
               /\ wr' = wr /\ tk' = tk /\ pr' = pr /\ ot' = ot
    BY DEF Channel!Open, Channel!End, StOf, WrOf, TkOf, OutOf
  <1>5. \A k \in Links, n \in 1 .. MaxUnits : Channel!Write(k, n) <=>
               s[k] = "open" /\ wr' = [wr EXCEPT ![k] = wr[k] + n]
               /\ s' = s /\ tk' = tk /\ pr' = pr /\ ot' = ot
    BY DEF Channel!Write, StOf, WrOf, TkOf, OutOf
  <1>6. \A k \in Links, n \in 1 .. MaxUnits : Channel!Take(k, n) <=>
               tk[k] + n <= wr[k] /\ tk' = [tk EXCEPT ![k] = tk[k] + n]
               /\ s' = s /\ wr' = wr /\ pr' = pr /\ ot' = ot
    BY DEF Channel!Take, StOf, WrOf, TkOf, OutOf
  <1>7. \A k \in Links, n \in 1 .. MaxUnits : Channel!Produce(k, n) <=>
               s[k] # "new" /\ pr' = [pr EXCEPT ![k] = pr[k] + n]
               /\ s' = s /\ wr' = wr /\ tk' = tk /\ ot' = ot
    BY DEF Channel!Produce, StOf, WrOf, TkOf, OutOf
  <1>8. \A k \in Links, n \in 1 .. MaxUnits : Channel!Read(k, n) <=>
               s[k] = "open" /\ Len(ot[k]) + n <= pr[k]
               /\ ot' = [ot EXCEPT ![k] = ot[k] \o [i \in 1 .. n |-> Len(ot[k]) + i]]
               /\ s' = s /\ wr' = wr /\ tk' = tk /\ pr' = pr
    <2>1. /\ [k \in Links |-> IF Plain THEN [i \in 1 .. Len(heard[k]) |-> heard[k][i].at] ELSE <<>>] = ot
          /\ [k \in Links |-> IF Plain THEN [i \in 1 .. Len(heard[k]) |-> heard[k][i].at] ELSE <<>>]' = ot'
      BY DEF OutOf
    <2>2. /\ [k \in Links |-> IF Plain THEN dev_sent[k] ELSE 0] = pr
          /\ [k \in Links |-> IF Plain THEN dev_sent[k] ELSE 0]' = pr'
      OBVIOUS
    <2>3. /\ [k \in Links |-> IF Plain THEN Count(send_seq[k], fins[k]) ELSE 0] = wr
          /\ [k \in Links |-> IF Plain THEN Count(send_seq[k], fins[k]) ELSE 0]' = wr'
      BY DEF WrOf
    <2>4. /\ [k \in Links |-> IF Plain THEN Count(dev_seq[k], IF dev_fin[k] THEN 1 ELSE 0) ELSE 0] = tk
          /\ [k \in Links |-> IF Plain THEN Count(dev_seq[k], IF dev_fin[k] THEN 1 ELSE 0) ELSE 0]' = tk'
      BY DEF TkOf
    <2>5. /\ [k \in Links |-> IF st[k] \in {"none", "connecting"} \/ ~Plain THEN "new"
                              ELSE IF st[k] = "open" THEN "open" ELSE "over"] = s
          /\ [k \in Links |-> IF st[k] \in {"none", "connecting"} \/ ~Plain THEN "new"
                              ELSE IF st[k] = "open" THEN "open" ELSE "over"]' = s'
      BY DEF StOf
    <2> HIDE DEF s, wr, tk, pr, ot
    <2> SUFFICES ASSUME NEW k \in Links, NEW n \in 1 .. MaxUnits
                 PROVE  Channel!Read(k, n) <=>
                            s[k] = "open" /\ Len(ot[k]) + n <= pr[k]
                            /\ ot' = [ot EXCEPT ![k] = ot[k] \o [i \in 1 .. n |-> Len(ot[k]) + i]]
                            /\ s' = s /\ wr' = wr /\ tk' = tk /\ pr' = pr
      OBVIOUS
    <2>6. Channel!Read(k, n) <=>
              s[k] = "open" /\ Len(ot[k]) + n <= pr[k]
              /\ ot' = [ot EXCEPT ![k] = ot[k] \o
                      [i \in 1 .. n |->
                          Len([j \in Links |-> IF Plain THEN [x \in 1 .. Len(heard[j]) |-> heard[j][x].at]
                                              ELSE <<>>][k]) + i]]
              /\ s' = s /\ wr' = wr /\ tk' = tk /\ pr' = pr
      BY <2>1, <2>2, <2>3, <2>4, <2>5, Zenon DEF Channel!Read
    <2>7. [i \in 1 .. n |->
              Len([j \in Links |-> IF Plain THEN [x \in 1 .. Len(heard[j]) |-> heard[j][x].at]
                                  ELSE <<>>][k]) + i]
              = [i \in 1 .. n |-> Len(ot[k]) + i]
      BY <2>1
    <2> QED
      BY <2>6, <2>7, Zenon
  <1> HIDE DEF s, wr, tk, pr, ot
  <1>9. /\ SameSt(l) => s' = s
        /\ SameWr(l) => wr' = wr
        /\ SameTk(l) => tk' = tk
        /\ SamePr(l) => pr' = pr
        /\ SameOut(l) => ot' = ot
    <2>1. SameSt(l) => s' = s
      BY <1>2, <1>3 DEF Same, SameSt
    <2>2. SameWr(l) => wr' = wr
      BY <1>2, <1>3 DEF Same, SameWr
    <2>3. SameTk(l) => tk' = tk
      BY <1>2, <1>3 DEF Same, SameTk
    <2>4. SamePr(l) => pr' = pr
      BY <1>2, <1>3 DEF Same, SamePr
    <2>5. SameOut(l) => ot' = ot
      BY <1>2, <1>3 DEF Same, SameOut
    <2> QED
      BY <2>1, <2>2, <2>3, <2>4, <2>5
  <1>10. \A k \in Links \ {l} : s'[k] = s[k] /\ wr'[k] = wr[k] /\ tk'[k] = tk[k]
                                /\ pr'[k] = pr[k] /\ ot'[k] = ot[k]
    BY <1>2 DEF Same, SameSt, SameWr, SameTk, SamePr, SameOut
  <1>11. CASE Same(l)
    <2>1. <<s', wr', tk', pr', ot'>> = <<s, wr, tk, pr, ot>>
      BY <1>9, <1>11 DEF Same
    <2> QED
      BY <1>1, <2>1
  <1>12. CASE Opens(l)
    <2>1. s[l] = "new" /\ s'[l] = "open" /\ wr' = wr /\ tk' = tk /\ pr' = pr /\ ot' = ot
      BY <1>2, <1>9, <1>12 DEF Opens
    <2>2. s' = [s EXCEPT ![l] = "open"]
      BY ONLY <1>3, <1>10, <2>1, l \in Links, OnePlace
    <2>3. Channel!Open(l)
      BY <1>4, <2>1, <2>2
    <2> QED
      BY <2>3 DEF Channel!Next
  <1>13. CASE Ends(l)
    <2>1. s[l] # "over" /\ s'[l] = "over" /\ wr' = wr /\ tk' = tk /\ pr' = pr /\ ot' = ot
      BY <1>2, <1>9, <1>13 DEF Ends
    <2>2. s' = [s EXCEPT ![l] = "over"]
      BY ONLY <1>3, <1>10, <2>1, l \in Links, OnePlace
    <2>3. Channel!End(l)
      BY <1>4, <2>1, <2>2
    <2> QED
      BY <2>3 DEF Channel!Next
  <1>14. ASSUME NEW n \in 1 .. MaxUnits, Wrote(l, n)
         PROVE  Channel!Next
    <2>1. s[l] = "open" /\ s' = s /\ tk' = tk /\ pr' = pr /\ ot' = ot /\ wr'[l] = wr[l] + n
      BY <1>2, <1>9, <1>14 DEF Wrote
    <2>2. wr' = [wr EXCEPT ![l] = wr[l] + n]
      BY ONLY <1>3, <1>10, <2>1, l \in Links, OnePlace
    <2>3. Channel!Write(l, n)
      BY <1>5, <2>1, <2>2
    <2> QED
      BY <2>3 DEF Channel!Next
  <1>15. ASSUME NEW n \in 1 .. MaxUnits, Took(l, n)
         PROVE  Channel!Next
    <2>1. tk[l] + n <= wr[l] /\ s' = s /\ wr' = wr /\ pr' = pr /\ ot' = ot /\ tk'[l] = tk[l] + n
      BY <1>2, <1>9, <1>15 DEF Took
    <2>2. tk' = [tk EXCEPT ![l] = tk[l] + n]
      BY ONLY <1>3, <1>10, <2>1, l \in Links, OnePlace
    <2>3. Channel!Take(l, n)
      BY <1>6, <2>1, <2>2
    <2> QED
      BY <2>3 DEF Channel!Next
  <1>16. ASSUME NEW n \in 1 .. MaxUnits, Produced(l, n)
         PROVE  Channel!Next
    <2>1. s[l] # "new" /\ s' = s /\ wr' = wr /\ tk' = tk /\ ot' = ot /\ pr'[l] = pr[l] + n
      BY <1>2, <1>9, <1>16 DEF Produced
    <2>2. pr' = [pr EXCEPT ![l] = pr[l] + n]
      BY ONLY <1>3, <1>10, <2>1, l \in Links, OnePlace
    <2>3. Channel!Produce(l, n)
      BY <1>7, <2>1, <2>2
    <2> QED
      BY <2>3 DEF Channel!Next
  <1>17. ASSUME NEW n \in 1 .. MaxUnits, WasRead(l, n)
         PROVE  Channel!Next
    <2>1. /\ s[l] = "open" /\ Len(ot[l]) + n <= pr[l] /\ s' = s /\ wr' = wr /\ tk' = tk /\ pr' = pr
          /\ ot'[l] = ot[l] \o [i \in 1 .. n |-> Len(ot[l]) + i]
      BY <1>2, <1>9, <1>17 DEF WasRead
    <2>2. ot' = [ot EXCEPT ![l] = ot[l] \o [i \in 1 .. n |-> Len(ot[l]) + i]]
      BY ONLY <1>3, <1>10, <2>1, l \in Links, OnePlace
    <2>3. Channel!Read(l, n)
      BY <1>8, <2>1, <2>2
    <2> QED
      BY <2>3 DEF Channel!Next
  <1> QED
    BY <1>11, <1>12, <1>13, <1>14, <1>15, <1>16, <1>17 DEF ChannelMove
-----------------------------------------------------------------------------
(* Second, what each step does to it.                                      *)

\* What the steps need of the invariant.
Needs == TunnelInv /\ Plain

\* The caller was handed the first units, and no more than were sent.
OutsCount ==
    \A l \in Links : /\ OutOf(l) = [i \in 1 .. Len(heard[l]) |-> i]
                     /\ Len(heard[l]) \in Nat
                     /\ Len(heard[l]) <= dev_sent[l]

\* What was handed out is the first of what was heard.
LEMMA OutIs == Needs => OutsCount
  <1> SUFFICES ASSUME Needs, NEW l \in Links
               PROVE  /\ OutOf(l) = [i \in 1 .. Len(heard[l]) |-> i]
                      /\ Len(heard[l]) \in Nat
                      /\ Len(heard[l]) <= dev_sent[l]
    BY DEF OutsCount
  <1>1. TypeOK /\ Counted /\ HeardExact
    BY DEF Needs, TunnelInv, GInv, DInv, Plain
  <1>2. /\ heard[l] \in Seq(Units) /\ incoming[l] \in Seq(Units)
        /\ Len(heard[l]) \in Nat /\ Len(incoming[l]) \in Nat
    BY <1>1, LenProperties DEF TypeOK
  <1>3. PICK a \in Nat, b \in Nat : a = Len(heard[l]) /\ b = Len(incoming[l])
    BY <1>2
  <1>4. /\ Len(Hears(l)) = a + b
        /\ \A i \in 1 .. (a + b) : i <= a => Hears(l)[i] = heard[l][i]
    BY <1>2, <1>3, ConcatProperties DEF Hears
  <1>5. \A i \in 1 .. a : i \in 1 .. (a + b) /\ i <= a
    OBVIOUS
  <1>6. \A i \in 1 .. a : i \in 1 .. Len(Hears(l)) /\ Hears(l)[i] = heard[l][i]
    BY <1>4, <1>5
  <1>7. \A i \in 1 .. a : heard[l][i].at = i /\ i <= dev_sent[l]
    BY <1>1, <1>6 DEF Counted, HeardExact, HeardExactOf
  <1>8. dev_sent[l] \in Nat
    BY <1>1, UseFacts DEF TypeOK
  <1>9. a <= dev_sent[l]
    <2>1. CASE a = 0
      BY <1>8, <2>1
    <2>2. CASE a # 0
      <3>1. a \in 1 .. a
        BY <2>2
      <3> QED
        BY <1>7, <3>1
    <2> QED
      BY <2>1, <2>2
  <1> QED
    BY <1>3, <1>7, <1>9 DEF OutOf

\* To go on counting.
LEMMA CountOn ==
    ASSUME NEW m \in Nat, NEW n \in Nat
    PROVE  [i \in 1 .. m |-> i] \o [k \in 1 .. n |-> m + k] = [i \in 1 .. m + n |-> i]
  <1> DEFINE a == [i \in 1 .. m |-> i]
             b == [k \in 1 .. n |-> m + k]
             c == [i \in 1 .. m + n |-> i]
  <1>1. /\ a \in Seq(Nat) /\ b \in Seq(Nat) /\ c \in Seq(Nat)
        /\ Len(a) = m /\ Len(b) = n /\ Len(c) = m + n
    OBVIOUS
  <1>2. /\ \A i \in 1 .. m : a[i] = i
        /\ \A k \in 1 .. n : b[k] = m + k
        /\ \A i \in 1 .. m + n : c[i] = i
    OBVIOUS
  <1> HIDE DEF a, b, c
  <1>3. /\ a \o b \in Seq(Nat) /\ Len(a \o b) = m + n
        /\ \A i \in 1 .. m + n : (a \o b)[i] = IF i <= m THEN a[i] ELSE b[i - m]
    BY <1>1, ConcatProperties
  <1>4. \A i \in 1 .. m + n : (a \o b)[i] = c[i]
    <2> SUFFICES ASSUME NEW i \in 1 .. m + n PROVE (a \o b)[i] = c[i]
      OBVIOUS
    <2>1. CASE i <= m
      BY <1>2, <1>3, <2>1
    <2>2. CASE ~(i <= m)
      <3>1. i - m \in 1 .. n /\ m + (i - m) = i
        BY <2>2
      <3> QED
        BY <1>2, <1>3, <2>2, <3>1
    <2> QED
      BY <2>1, <2>2
  <1>5. a \o b = c
    BY <1>1, <1>3, <1>4, SeqEqual
  <1> QED
    BY <1>5 DEF a, b, c

\* A read that returns n units reads them from the channel.
LEMMA HandsOn ==
    ASSUME Needs, OutsCount, OutsCount', ReadReturns
    PROVE  \E l \in Links : ChannelMove(l) /\ \A k \in Links \ {l} : Same(k)
  <1>0. /\ TypeOK /\ Calling /\ Bounds /\ use.alone
        /\ cur \in Links /\ left \in Nat /\ incoming[cur] \in Seq(Units)
        /\ heard[cur] \in Seq(Units) /\ Len(incoming[cur]) \in Nat
    BY LenProperties DEF Needs, TunnelInv, LInv, SInv, Plain, TypeOK
  <1>14. PICK me \in Links : me = cur
    BY <1>0
  <1>1. PICK n \in Nat : n = Smaller(left, Len(incoming[cur]))
    BY <1>0 DEF Smaller
  <1>2. n <= left /\ n <= Len(incoming[cur]) /\ n > 0
    <2>1. left > 0 /\ Len(incoming[cur]) > 0
      BY <1>0, EmptySeq DEF ReadReturns, Calling
    <2> QED
      BY <1>0, <1>1, <2>1 DEF Smaller
  <1>3. n \in 1 .. MaxUnits
    <2>1. left <= use.units /\ use.units <= MaxUnits /\ use.units \in Nat /\ MaxUnits \in Nat
      BY <1>0, UseFacts, TunnelTcpAssumption DEF Bounds, ReadReturns, TypeOK
    <2> QED
      BY <1>0, <1>2, <2>1
  <1>4. heard' = [heard EXCEPT ![cur] = heard[cur] \o SubSeq(incoming[cur], 1, n)]
    BY <1>1 DEF ReadReturns
  <1>5. UNCHANGED <<st, send_seq, fins, dev_seq, dev_fin, dev_sent>>
    BY DEF ReadReturns, device
  <1>6. \A k \in Links : SameSt(k) /\ SameWr(k) /\ SameTk(k) /\ SamePr(k)
    BY <1>5 DEF SameSt, SameWr, SameTk, SamePr, StOf, WrOf, TkOf
  <1>7. \A k \in Links \ {me} : Same(k)
    <2>1. \A k \in Links \ {me} : heard'[k] = heard[k]
      BY <1>0, <1>4, <1>14 DEF ReadReturns, TypeOK
    <2> QED
      BY <1>6, <2>1 DEF Same, SameOut, OutOf
  <1>8. Len(heard'[me]) = Len(heard[me]) + n
    <2>1. heard'[me] = heard[me] \o SubSeq(incoming[me], 1, n)
      BY <1>0, <1>4, <1>14 DEF TypeOK
    <2>2. SubSeq(incoming[me], 1, n) \in Seq(Units) /\ Len(SubSeq(incoming[me], 1, n)) = n
      BY <1>0, <1>2, <1>14, CutFacts
    <2>3. PICK p \in Seq(Units) : p = heard[me]
      BY <1>0, <1>14
    <2>4. PICK q \in Seq(Units) : q = SubSeq(incoming[me], 1, n) /\ Len(q) = n
      BY <2>2
    <2>5. Len(p \o q) = Len(p) + Len(q)
      BY ConcatProperties
    <2> QED
      BY <2>1, <2>3, <2>4, <2>5
  <1>9. /\ OutOf(me) = [i \in 1 .. Len(heard[me]) |-> i] /\ Len(heard[me]) \in Nat
        /\ OutOf(me)' = [i \in 1 .. Len(heard'[me]) |-> i]
        /\ Len(heard'[me]) <= dev_sent'[me]
    BY <1>0 DEF OutsCount
  <1>10. Len(OutOf(me)) = Len(heard[me])
    BY <1>9
  <1>11. OutOf(me)' = OutOf(me) \o [k \in 1 .. n |-> Len(OutOf(me)) + k]
    BY <1>8, <1>9, <1>10, CountOn
  <1>12. StOf(me) = "open"
    BY <1>0, <1>14 DEF ReadReturns, Calling, StOf
  <1>13. WasRead(me, n)
    BY <1>0, <1>5, <1>6, <1>8, <1>9, <1>10, <1>11, <1>12 DEF WasRead
  <1> QED
    BY <1>3, <1>7, <1>13 DEF ChannelMove

\* A FIN is sent on a link that is in use.
LEMMA FinSaid ==
    ASSUME TypeOK, Calling, Host, NEW l \in Links, NEW f \in HostFrames, SaysOn(l, f),
           f.type = "FIN"
    PROVE  st[l] \in {"open", "broken"}
  <1> USE DEF host, calls, wire, history, device
  <1>1. fins'[l] = fins[l] + 1 /\ fins[l] \in Nat /\ fins'[l] # fins[l]
    <2>1. fins' = [fins EXCEPT ![l] = fins[l] + 1]
      BY DEF SaysOn
    <2>2. fins \in [Links -> Nat]
      BY DEF TypeOK
    <2>3. fins[l] \in Nat /\ fins'[l] = fins[l] + 1
      BY <2>1, <2>2
    <2> QED
      BY <2>3
  <1>2. ASSUME NEW k \in Links, Close(k)
        PROVE  st[l] \in {"open", "broken"}
    <2>1. fins' = fins \/ fins' = [fins EXCEPT ![k] = fins[k] + 1]
      BY <1>2 DEF Close
    <2>2. l = k
      BY <1>1, <2>1 DEF TypeOK
    <2> QED
      BY <1>2, <2>2 DEF Close
  <1>3. CASE ReadFin
    <2>1. fins' = fins \/ fins' = [fins EXCEPT ![cur] = fins[cur] + 1]
      BY <1>3 DEF ReadFin
    <2>2. l = cur
      BY <1>1, <2>1 DEF TypeOK
    <2> QED
      BY <1>3, <2>2 DEF ReadFin, Calling
  <1>4. CASE ~ReadFin /\ ~\E k \in Links : Close(k)
    <2>1. fins' = fins
      BY <1>4 DEF Host, Call, CallSpins, Continue, TakesPacket, Connect, Write, Read, Destroy, WriteChunk,
         WriteFails, Written, TunnelRead, ReadFails, Misframed, ConnectSkips, ConnectRefused,
         Connected, ReadSkips, ReadReset, ReadData, ReadReturns, ReadEnds
    <2> QED
      BY <1>1, <2>1
  <1> QED
    BY <1>2, <1>3, <1>4

\* What a link wrote is counted by the data it sends: the SYN, the FIN and the
\* acknowledgements do not count.
LEMMA WritesCount ==
    ASSUME Needs, Host
    PROVE  \/ \A l \in Links : SameWr(l)
           \/ /\ st' = st /\ op = "write"
              /\ \E n \in 0 .. MaxUnits : \A l \in Links :
                     WrOf(l)' = IF l = cur THEN WrOf(l) + n ELSE WrOf(l)
  <1>0. TypeOK /\ Calling /\ Made /\ Unconnected /\ Fins /\ Bounds /\ Started /\ use.alone
        /\ cur \in Links /\ left \in Nat
    BY DEF Needs, TunnelInv, LInv, SInv, Plain, TypeOK
  <1>1. CASE UNCHANGED <<send_seq, fins>>
    BY <1>1 DEF SameWr, WrOf
  <1>2. ASSUME NEW l \in Links, NEW f \in HostFrames, SaysOn(l, f)
        PROVE  \/ \A k \in Links : SameWr(k)
               \/ /\ st' = st /\ op = "write"
                  /\ \E n \in 0 .. MaxUnits : \A k \in Links :
                         WrOf(k)' = IF k = cur THEN WrOf(k) + n ELSE WrOf(k)
    <2>0. send_seq[l] \in Nat /\ fins[l] \in Nat /\ f.n \in Nat
      BY <1>0 DEF TypeOK, HostFrames
    <2>1. /\ send_seq'[l] = send_seq[l] + Taken(f.type, f.n)
          /\ fins'[l] = IF f.type = "FIN" THEN fins[l] + 1 ELSE fins[l]
          /\ \A k \in Links \ {l} : send_seq'[k] = send_seq[k] /\ fins'[k] = fins[k]
      BY <1>0, <1>2 DEF SaysOn, TypeOK
    <2>2. \A k \in Links \ {l} : SameWr(k)
      BY <2>1 DEF SameWr, WrOf
    <2>3. CASE f.type = "SYN"
      <3>1. st[l] = "none" /\ f.n = 0
        BY <1>2, <2>3 DEF SaysOn
      <3>2. send_seq[l] = 0 /\ fins[l] = 0
        BY <1>0, <3>1 DEF Made, Unmade, Unconnected, Silent
      <3>3. send_seq'[l] = 1 /\ fins'[l] = 0
        BY <2>1, <2>3, <3>1, <3>2 DEF Taken
      <3>4. SameWr(l)
        BY <3>2, <3>3 DEF SameWr, WrOf, Count
      <3> QED
        BY <2>2, <3>4
    <2>4. CASE f.type = "ACK"
      <3>1. send_seq'[l] = send_seq[l] /\ fins'[l] = fins[l]
        BY <1>2, <2>0, <2>1, <2>4 DEF SaysOn, Taken
      <3>2. SameWr(l)
        BY <3>1 DEF SameWr, WrOf
      <3> QED
        BY <2>2, <3>2
    <2>5. CASE f.type = "FIN"
      <3>1. st[l] \in {"open", "broken"}
        BY <1>0, <1>2, <2>5, FinSaid
      <3>2. send_seq[l] >= 1
        BY <1>0, <3>1 DEF Started
      <3>3. send_seq'[l] = send_seq[l] + 1 /\ fins'[l] = fins[l] + 1
        BY <1>2, <2>0, <2>1, <2>5 DEF SaysOn, Taken
      <3>4. SameWr(l)
        <4>1. send_seq[l] # 0 /\ send_seq'[l] # 0
          BY <2>0, <3>2, <3>3
        <4>2. (send_seq[l] + 1) - 1 - (fins[l] + 1) = send_seq[l] - 1 - fins[l]
          BY <2>0
        <4> QED
          BY <3>3, <4>1, <4>2 DEF SameWr, WrOf, Count
      <3> QED
        BY <2>2, <3>4
    <2>6. CASE f.type = "DATA"
      <3>1. st' = st /\ op = "write" /\ l = cur /\ f.n <= left
        BY <1>2, <2>6 DEF SaysOn
      <3>2. f.n \in 0 .. MaxUnits
        <4>1. left <= use.writes /\ use.writes <= MaxUnits /\ use.writes \in Nat /\ MaxUnits \in Nat
          BY <1>0, <3>1, UseFacts, TunnelTcpAssumption DEF Bounds, TypeOK
        <4> QED
          BY <1>0, <2>0, <3>1, <4>1
      <3>3. send_seq[l] >= 1
        BY <1>0, <3>1 DEF Started, Calling
      <3>4. send_seq'[l] = send_seq[l] + f.n /\ fins'[l] = fins[l]
        BY <2>0, <2>1, <2>6 DEF Taken
      <3>5. WrOf(l)' = WrOf(l) + f.n
        <4>1. send_seq[l] # 0 /\ send_seq'[l] # 0
          BY <2>0, <3>3, <3>4
        <4>2. (send_seq[l] + f.n) - 1 - fins[l] = (send_seq[l] - 1 - fins[l]) + f.n
          BY <2>0
        <4> QED
          BY <3>4, <4>1, <4>2 DEF WrOf, Count
      <3>6. \A k \in Links : WrOf(k)' = IF k = cur THEN WrOf(k) + f.n ELSE WrOf(k)
        BY <2>2, <3>1, <3>5 DEF SameWr
      <3> QED
        BY <3>1, <3>2, <3>6
    <2> QED
      BY <2>3, <2>4, <2>5, <2>6 DEF HostFrames
  <1> QED
    BY <1>0, <1>1, <1>2, HostSays DEF SaidShape

\* A step of the host moves one link at most.
LEMMA HostMoves ==
    ASSUME Needs, OutsCount, OutsCount', Host
    PROVE  \E l \in Links : ChannelMove(l) /\ \A k \in Links \ {l} : Same(k)
  <1>0. TypeOK /\ Calling /\ use.alone /\ cur \in Links
    BY DEF Needs, TunnelInv, LInv, Plain, TypeOK
  <1>1. \A l \in Links : SameTk(l) /\ SamePr(l)
    BY HostLeavesDevice DEF SameTk, SamePr, TkOf
  <1>2. CASE ReadReturns
    BY <1>2, HandsOn
  <1>3. CASE ~ReadReturns
    <2>1. heard' = heard
      BY <1>3 DEF Host, Call, CallSpins, Continue, TakesPacket, Connect, Write, Read, Close, Destroy,
         WriteChunk, WriteFails, Written, TunnelRead, ReadFails, Misframed, ConnectSkips,
         ConnectRefused, Connected, ReadSkips, ReadReset, ReadFin, ReadData, ReadEnds, history
    <2>2. \A l \in Links : SameOut(l)
      BY <2>1 DEF SameOut, OutOf
    <2>3. CASE /\ st' = st /\ op = "write"
               /\ \E n \in 0 .. MaxUnits : \A l \in Links :
                      WrOf(l)' = IF l = cur THEN WrOf(l) + n ELSE WrOf(l)
      <3>1. PICK n \in 0 .. MaxUnits : \A l \in Links :
                WrOf(l)' = IF l = cur THEN WrOf(l) + n ELSE WrOf(l)
        BY <2>3
      <3>2. PICK me \in Links : me = cur
        BY <1>0
      <3>3. \A l \in Links : SameSt(l)
        BY <2>3 DEF SameSt, StOf
      <3>4. \A l \in Links \ {me} : Same(l)
        BY <1>1, <2>2, <3>1, <3>2, <3>3 DEF Same, SameWr
      <3>5. WrOf(me)' = WrOf(me) + n /\ StOf(me) = "open"
        BY <1>0, <2>3, <3>1, <3>2 DEF Calling, StOf
      <3>6. CASE n = 0
        <4>1. WrOf(me) \in Int
          <5>1. send_seq[me] \in Nat /\ fins[me] \in Nat
            BY <1>0 DEF TypeOK
          <5>2. 0 \in Int /\ send_seq[me] - 1 - fins[me] \in Int
            BY <5>1
          <5> QED
            BY <5>2 DEF WrOf, Count
        <4>2. SameWr(me)
          BY <3>5, <3>6, <4>1 DEF SameWr
        <4> QED
          BY <1>1, <2>2, <3>3, <3>4, <4>2 DEF ChannelMove, Same
      <3>7. CASE n # 0
        <4>1. n \in 1 .. MaxUnits
          BY <3>7, TunnelTcpAssumption
        <4>2. Wrote(me, n)
          BY <1>1, <2>2, <3>3, <3>5 DEF Wrote
        <4> QED
          BY <3>4, <4>1, <4>2 DEF ChannelMove
      <3> QED
        BY <3>6, <3>7
    <2>4. CASE \A l \in Links : SameWr(l)
      <3>1. \A l \in Links : st'[l] = st[l] => Same(l)
        BY <1>1, <2>2, <2>4 DEF Same, SameSt, StOf
      <3>2. ASSUME NEW l \in Links, \A k \in Links \ {l} : st'[k] = st[k],
                   SameSt(l) \/ (StOf(l) = "new" /\ StOf(l)' = "open")
                             \/ (StOf(l) # "over" /\ StOf(l)' = "over")
            PROVE  \E x \in Links : ChannelMove(x) /\ \A k \in Links \ {x} : Same(k)
        <4>1. ChannelMove(l)
          BY <1>1, <2>2, <2>4, <3>2 DEF ChannelMove, Same, Opens, Ends
        <4> QED
          BY <3>1, <3>2, <4>1
      <3>3. PICK me \in Links : me = cur
        BY <1>0
      <3>4. CASE st' = st
        BY <3>2, <3>3, <3>4 DEF SameSt, StOf
      <3>5. ASSUME op \notin {"idle", "spins"}, NEW x \in {"broken", "open", "over"}, st' = [st EXCEPT ![cur] = x],
                   x = "open" => op = "connect"
            PROVE  \E l \in Links : ChannelMove(l) /\ \A k \in Links \ {l} : Same(k)
        <4>1. st'[me] = x /\ \A k \in Links \ {me} : st'[k] = st[k]
          BY <1>0, <3>3, <3>5 DEF TypeOK
        <4>2. st[me] = "connecting" \/ (st[me] = "open" /\ op # "connect")
          BY <1>0, <3>3, <3>5 DEF Calling, TypeOK
        <4> QED
          BY <3>2, <3>5, <4>1, <4>2 DEF StOf
      <3>6. ASSUME NEW l \in Links, st[l] \in {"open", "broken"}, st' = [st EXCEPT ![l] = "over"]
            PROVE  \E x \in Links : ChannelMove(x) /\ \A k \in Links \ {x} : Same(k)
        <4>1. st'[l] = "over" /\ \A k \in Links \ {l} : st'[k] = st[k]
          BY <1>0, <3>6 DEF TypeOK
        <4> QED
          BY <3>2, <3>6, <4>1 DEF StOf, SameSt
      <3>7. ASSUME NEW l \in Links, st[l] = "none",
                   NEW x \in {"connecting", "over"}, st' = [st EXCEPT ![l] = x]
            PROVE  \E y \in Links : ChannelMove(y) /\ \A k \in Links \ {y} : Same(k)
        <4>1. st'[l] = x /\ \A k \in Links \ {l} : st'[k] = st[k]
          BY <1>0, <3>7 DEF TypeOK
        <4> QED
          BY <3>2, <3>7, <4>1 DEF StOf, SameSt
      <3> QED
        BY <1>0, <3>4, <3>5, <3>6, <3>7, HostStShape DEF StShape
    <2> QED
      BY <2>3, <2>4, WritesCount
  <1> QED
    BY <1>2, <1>3

\* What the service was given is counted by the data the device takes, and was written.
LEMMA TakesCount ==
    ASSUME Needs, DevTakes
    PROVE  \E l \in Links : /\ \A k \in Links \ {l} : SameTk(k)
                            /\ SameTk(l) \/ \E n \in 1 .. MaxUnits :
                                   TkOf(l) + n <= WrOf(l) /\ TkOf(l)' = TkOf(l) + n
  <1>0. /\ TypeOK /\ SynFirst /\ Fins /\ HostOrder /\ Bounds /\ Gone /\ Started /\ FinComing
        /\ to_dev \in Seq(HostFrames) /\ Len(to_dev) \in Nat
    BY LenProperties DEF Needs, TunnelInv, LInv, HInv, SInv, TypeOK
  <1>1. TurnShape
    BY <1>0, DevTurns DEF Device
  <1>2. CASE UNCHANGED <<dev_seq, dev_fin>>
    <2>1. \A l \in Links : SameTk(l)
      BY <1>2 DEF SameTk, TkOf
    <2> QED
      BY <1>0, <2>1 DEF TypeOK
  <1>3. ASSUME to_dev # <<>>, NEW l \in Links, NEW f \in HostFrames, f = to_dev[1], f.link = l,
               \A k \in Links : k # l => dev_seq'[k] = dev_seq[k] /\ dev_fin'[k] = dev_fin[k],
               \/ f.type = "SYN" /\ dev_seq'[l] = 1 /\ dev_fin'[l] = dev_fin[l]
               \/ /\ f.type # "SYN" /\ dev[l] \in {"syn", "open"} /\ f.seq = dev_seq[l]
                  /\ ~dev_fin[l] /\ dev_seq'[l] = End(f) /\ dev_fin'[l] = (f.type = "FIN")
               \/ dev_seq'[l] = dev_seq[l] /\ dev_fin'[l] = dev_fin[l]
        PROVE  /\ \A k \in Links \ {l} : SameTk(k)
               /\ SameTk(l) \/ \E n \in 1 .. MaxUnits :
                      TkOf(l) + n <= WrOf(l) /\ TkOf(l)' = TkOf(l) + n
    <2>1. \A k \in Links \ {l} : SameTk(k)
      BY <1>3 DEF SameTk, TkOf
    <2>2. 1 \in 1 .. Len(to_dev) /\ tunnel = "up"
      BY <1>0, <1>3, RestFacts DEF Gone
    <2>3. /\ dev_seq[l] \in Nat /\ send_seq[l] \in Nat /\ fins[l] \in Nat
          /\ f.n \in Nat /\ f.seq \in Nat
      BY <1>0 DEF TypeOK, HostFrames
    <2>4. CASE f.type = "SYN" /\ dev_seq'[l] = 1 /\ dev_fin'[l] = dev_fin[l]
      <3>1. dev_seq[l] = 0 /\ ~dev_fin[l]
        BY <1>0, <1>3, <2>2, <2>4 DEF SynFirst, SynFirstOf
      <3>2. TkOf(l) = 0
        BY <3>1 DEF TkOf, Count
      <3>3. TkOf(l)' = 1 - 1 - 0
        <4>1. ~dev_fin'[l]
          BY <2>4, <3>1, Zenon
        <4>2. dev_seq'[l] = 1 /\ dev_seq'[l] # 0
          BY <2>4
        <4> QED
          BY <4>1, <4>2 DEF TkOf, Count
      <3>4. SameTk(l)
        BY <3>2, <3>3 DEF SameTk
      <3> QED
        BY <2>1, <3>4
    <2>5. CASE dev_seq'[l] = dev_seq[l] /\ dev_fin'[l] = dev_fin[l]
      BY <2>1, <2>5 DEF SameTk, TkOf
    <2>6. CASE /\ f.type # "SYN" /\ dev[l] \in {"syn", "open"} /\ f.seq = dev_seq[l]
               /\ ~dev_fin[l] /\ dev_seq'[l] = End(f) /\ dev_fin'[l] = (f.type = "FIN")
      <3>1. dev_seq[l] >= 1 /\ TkOf(l) = dev_seq[l] - 1 - 0
        <4>1. dev_seq[l] >= 1
          BY <1>0, <2>6 DEF Started
        <4>2. dev_seq[l] # 0
          BY <2>3, <4>1
        <4> QED
          BY <2>6, <4>1, <4>2 DEF TkOf, Count
      <3>2. CASE f.type = "FIN"
        <4>1. f.n = 0
          BY <1>0, <1>3, <2>2, <3>2 DEF Bounds
        <4>2. dev_seq'[l] = dev_seq[l] + 1
          BY <2>3, <2>6, <3>2, <4>1 DEF End, Taken
        <4>3. dev_seq'[l] # 0 /\ (dev_seq[l] + 1) - 1 - 1 = dev_seq[l] - 1 - 0
          BY <2>3, <4>2
        <4>4. TkOf(l)' = dev_seq'[l] - 1 - 1
          BY <2>6, <3>2, <4>3 DEF TkOf, Count
        <4>5. SameTk(l)
          BY <3>1, <4>2, <4>3, <4>4 DEF SameTk
        <4> QED
          BY <2>1, <4>5
      <3>3. CASE f.type # "FIN"
        <4>1. dev_seq'[l] = dev_seq[l] + f.n
          BY <2>3, <2>6, <3>3 DEF End, Taken
        <4>2. TkOf(l)' = dev_seq'[l] - 1 - 0
          <5>1. dev_seq'[l] # 0
            BY <2>3, <3>1, <4>1
          <5> QED
            BY <2>6, <3>3, <5>1 DEF TkOf, Count
        <4>3. TkOf(l)' = TkOf(l) + f.n
          BY <2>3, <3>1, <4>1, <4>2
        <4>4. CASE f.n = 0
          <5>1. SameTk(l)
            BY <2>3, <3>1, <4>3, <4>4 DEF SameTk
          <5> QED
            BY <2>1, <5>1
        <4>5. CASE f.n # 0
          <5>1. f.type = "DATA" /\ f.n <= use.writes
            BY <1>0, <1>3, <2>2, <4>5 DEF Bounds
          <5>2. f.n \in 1 .. MaxUnits
            <6>1. use.writes <= MaxUnits /\ use.writes \in Nat /\ MaxUnits \in Nat
              BY <1>0, UseFacts, TunnelTcpAssumption DEF TypeOK
            <6> QED
              BY <2>3, <4>5, <5>1, <6>1
          <5>3. HostOrderOf(l) /\ dev[l] # "closed"
            BY <1>0, <2>6 DEF HostOrder
          <5>4. End(f) = dev_seq[l] + f.n /\ End(f) <= send_seq[l]
            <6>1. End(f) <= send_seq[l]
              BY <1>3, <2>2, <5>3 DEF HostOrderOf
            <6> QED
              BY <2>6, <4>1, <6>1
          <5>5. dev_seq[l] + f.n + fins[l] <= send_seq[l]
            <6>1. CASE fins[l] = 0
              BY <2>3, <5>4, <6>1
            <6>2. CASE fins[l] # 0
              <7>1. fins[l] = 1
                BY <1>0, <2>3, <6>2 DEF Fins
              <7>2. PICK i \in 1 .. Len(to_dev) : to_dev[i].link = l /\ to_dev[i].type = "FIN"
                BY <1>0, <2>2, <2>6, <5>3, <7>1 DEF FinComing
              <7>3. 1 < i
                BY <1>0, <1>3, <3>3, <7>2
              <7>4. End(f) <= to_dev[i].seq /\ End(to_dev[i]) <= send_seq[l]
                BY <1>3, <2>2, <5>3, <7>2, <7>3 DEF HostOrderOf
              <7>5. to_dev[i] \in HostFrames
                BY <1>0, ElementOfSeq
              <7>6. to_dev[i].seq \in Nat /\ to_dev[i].n \in Nat
                BY <7>5 DEF HostFrames
              <7>7. End(to_dev[i]) = to_dev[i].seq + (to_dev[i].n + 1)
                BY <7>2 DEF End, Taken
              <7>8. PICK a \in Nat, b \in Nat : a = to_dev[i].seq /\ b = to_dev[i].n
                BY <7>6
              <7>9. dev_seq[l] + f.n <= a /\ a + (b + 1) <= send_seq[l]
                BY <5>4, <7>4, <7>7, <7>8
              <7> QED
                BY <2>3, <7>1, <7>9
            <6> QED
              BY <6>1, <6>2
          <5>6. TkOf(l) + f.n <= WrOf(l)
            <6>1. send_seq[l] # 0
              BY <2>3, <3>1, <5>5
            <6>2. WrOf(l) = send_seq[l] - 1 - fins[l]
              BY <6>1 DEF WrOf, Count
            <6> QED
              BY <2>3, <3>1, <5>5, <6>2
          <5> QED
            BY <2>1, <4>3, <5>2, <5>6
        <4> QED
          BY <4>4, <4>5
      <3> QED
        BY <3>2, <3>3
    <2> QED
      BY <1>3, <2>4, <2>5, <2>6
  <1> QED
    BY <1>1, <1>2, <1>3 DEF TurnShape

\* A step of the device moves one link at most.
LEMMA DeviceMoves ==
    ASSUME Needs, TypeOK', Device
    PROVE  \E l \in Links : ChannelMove(l) /\ \A k \in Links \ {l} : Same(k)
  <1>0. /\ TypeOK /\ DevSpeaks
        /\ \A l \in Links : dev_sent[l] \in Nat
    <2>1. TypeOK /\ DevSpeaks
      BY DEF Needs, TunnelInv, DInv
    <2>2. PICK b \in Nat : b = use.units
      BY <2>1, UseFacts
    <2>3. \A l \in Links : dev_sent[l] \in 0 .. b
      BY <2>1, <2>2 DEF TypeOK
    <2> QED
      BY <2>1, <2>3
  <1>1. UNCHANGED <<use, st, send_seq, fins, heard>>
    BY DeviceLeavesHost
  <1>2. \A l \in Links : SameSt(l) /\ SameWr(l) /\ SameOut(l)
    BY <1>1 DEF SameSt, SameWr, SameOut, StOf, WrOf, OutOf
  <1>3. CASE DevTakes
    <2>1. \A l \in Links : SamePr(l)
      BY <1>3 DEF DevTakes, DevSyn, DevNext, DevRefuses, SamePr
    <2>2. PICK l \in Links : /\ \A k \in Links \ {l} : SameTk(k)
                             /\ SameTk(l) \/ \E n \in 1 .. MaxUnits :
                                    TkOf(l) + n <= WrOf(l) /\ TkOf(l)' = TkOf(l) + n
      BY <1>3, TakesCount
    <2>3. \A k \in Links \ {l} : Same(k)
      BY <1>2, <2>1, <2>2 DEF Same
    <2>4. CASE SameTk(l)
      BY <1>2, <2>1, <2>3, <2>4 DEF ChannelMove, Same
    <2>5. ASSUME NEW n \in 1 .. MaxUnits, TkOf(l) + n <= WrOf(l), TkOf(l)' = TkOf(l) + n
          PROVE  \E x \in Links : ChannelMove(x) /\ \A k \in Links \ {x} : Same(k)
      <3>1. Took(l, n)
        BY <1>2, <2>1, <2>5 DEF Took
      <3> QED
        BY <2>3, <3>1 DEF ChannelMove
    <2> QED
      BY <2>2, <2>4, <2>5
  <1>4. ASSUME NEW l \in Links, NEW n \in 0 .. use.mss, DevData(l, n)
        PROVE  \E x \in Links : ChannelMove(x) /\ \A k \in Links \ {x} : Same(k)
    <2>0. n \in Nat
      BY <1>0, UseFacts
    <2>1. \A k \in Links : SameTk(k)
      BY <1>4 DEF DevData, SameTk, TkOf
    <2>2. dev_sent'[l] = dev_sent[l] + n /\ \A k \in Links \ {l} : dev_sent'[k] = dev_sent[k]
      BY <1>0, <1>4 DEF DevData, TypeOK
    <2>3. \A k \in Links \ {l} : Same(k)
      BY <1>2, <2>1, <2>2 DEF Same, SamePr
    <2>4. CASE n = 0
      BY <1>0, <1>2, <2>1, <2>2, <2>3, <2>4 DEF ChannelMove, Same, SamePr
    <2>5. CASE n # 0
      <3>1. n \in 1 .. MaxUnits
        <4>1. use.units <= MaxUnits /\ use.units \in Nat /\ MaxUnits \in Nat
          BY <1>0, UseFacts, TunnelTcpAssumption DEF TypeOK
        <4>2. dev_sent[l] + n <= use.units
          BY <1>4 DEF DevData
        <4>3. dev_sent[l] \in Nat
          BY <1>0
        <4> QED
          BY <2>0, <2>5, <4>1, <4>2, <4>3
      <3>2. StOf(l) # "new"
        BY <1>0, <1>4 DEF DevData, DevSpeaks, DevSpeaksOf, StOf
      <3>3. Produced(l, n)
        BY <1>2, <2>1, <2>2, <3>2 DEF Produced
      <3> QED
        BY <2>3, <3>1, <3>3 DEF ChannelMove
    <2> QED
      BY <2>4, <2>5
  <1>5. CASE TunnelEnds \/ \E l \in Links : DevReset(l) \/ DevResends(l)
    <2>1. UNCHANGED <<dev_seq, dev_fin, dev_sent>>
      BY <1>5 DEF TunnelEnds, DevReset, DevResends, device
    <2>2. \A l \in Links : Same(l)
      BY <1>2, <2>1 DEF Same, SameTk, SamePr, TkOf
    <2> QED
      BY <1>0, <2>2 DEF ChannelMove, TypeOK
  <1> QED
    BY <1>3, <1>4, <1>5 DEF Device, Serves

\* Nothing was written, sent or read.
LEMMA InitChannel == Init => Channel!Init
  <1> SUFFICES ASSUME Init PROVE Channel!Init
    OBVIOUS
  <1>1. \A l \in Links :
            /\ st[l] = "none" /\ send_seq[l] = 0 /\ dev_seq[l] = 0 /\ dev_sent[l] = 0
            /\ heard[l] = <<>>
    BY DEF Init
  <1>2. Len(<<>>) = 0 /\ [i \in 1 .. 0 |-> 0] = <<>>
    OBVIOUS
  <1>3. \A l \in Links : [i \in 1 .. Len(heard[l]) |-> heard[l][i].at] = <<>>
    BY <1>1, <1>2
  <1> QED
    BY <1>1, <1>3 DEF Channel!Init, Count

\* Every step of the links is one of the channel's, or none.
LEMMA NextChannel ==
    ASSUME TunnelInv, TunnelInv', Plain => OutsCount, (Plain => OutsCount)', [Next]_vars
    PROVE  [Channel!Next]_(Channel!vars)
  <1>0. use' = use
    BY UseKept
  <1>1. CASE ~Plain
    <2>1. ~Plain'
      BY <1>0, <1>1 DEF Plain
    <2> QED
      BY <1>1, <2>1 DEF Channel!vars
  <1>2. CASE Plain
    <2>1. Plain' /\ Needs /\ Needs'
      BY <1>0, <1>2 DEF Plain, Needs
    <2>2. OutsCount /\ OutsCount'
      BY <1>2, <2>1
    <2>3. ASSUME NEW l \in Links, ChannelMove(l), \A k \in Links \ {l} : Same(k)
          PROVE  [Channel!Next]_(Channel!vars)
      BY <1>2, <2>1, <2>3, ChannelStep
    <2>4. CASE Host
      <3>1. PICK l \in Links : ChannelMove(l) /\ \A k \in Links \ {l} : Same(k)
        BY <2>1, <2>2, <2>4, HostMoves
      <3> QED
        BY <2>3, <3>1
    <2>5. CASE Device
      <3>1. TypeOK'
        BY DEF TunnelInv
      <3>2. PICK l \in Links : ChannelMove(l) /\ \A k \in Links \ {l} : Same(k)
        BY <2>1, <2>5, <3>1, DeviceMoves
      <3> QED
        BY <2>3, <3>2
    <2>6. CASE UNCHANGED vars
      <3>1. \A l \in Links : Same(l)
        BY <2>6 DEF vars, host, history, device, Same, SameSt, SameWr, SameTk, SamePr, SameOut,
           StOf, WrOf, TkOf, OutOf
      <3>2. cur \in Links
        BY DEF TunnelInv, TypeOK
      <3> QED
        BY <2>3, <3>1, <3>2 DEF ChannelMove
    <2> QED
      BY <2>4, <2>5, <2>6, TwoSides
  <1> QED
    BY <1>1, <1>2

\* For any number of links, units and faults: a link of TcpLink::open, write, read and
\* close that is used alone is a byte channel, whatever the packets are cut into, unless
\* the device sends a segment again: the service is given the units that were written, in
\* order, and the caller is handed exactly the next units the service sent.
THEOREM LinkIsByteChannel == Spec => ImplementsByteChannel
  <1>1. Init => Channel!Init
    BY InitChannel
  <1>2. TunnelInv => (Plain => OutsCount)
    BY OutIs DEF Needs
  <1>3. TunnelInv /\ TunnelInv' /\ (Plain => OutsCount) /\ (Plain => OutsCount)' /\ [Next]_vars
            => [Channel!Next]_(Channel!vars)
    BY NextChannel
  <1> QED
    BY <1>1, <1>2, <1>3, TunnelInvHolds, PTL DEF Spec, ImplementsByteChannel, Channel!Spec
=============================================================================
