------------------------- MODULE MuxChannelProofs -------------------------
(***************************************************************************)
(* The theorems about MuxLink that follow what a stream says and hears:    *)
(* the numbers of the mux header, those of the TCP header, the             *)
(* acknowledgements, and with them the refinement of ByteChannel.  They    *)
(* hold for every value of the constants but for the port counter, which   *)
(* must not come round where a stream is followed across its life.         *)
(***************************************************************************)
EXTENDS MuxLinkProofs
-----------------------------------------------------------------------------
(* The invariant of what the host sends.                                   *)

\* Without a failed send the frames under way are numbered one after the other.
Numbered ==
    faults = 0 =>
        /\ \A i \in 1 .. Len(to_dev) :
               to_dev[i].mux = NextMux(IF i = 1 THEN dev_mux ELSE to_dev[i - 1].mux)
        /\ link = "up" =>
               mux_tx_seq_ = NextMux(IF to_dev = <<>> THEN dev_mux ELSE to_dev[Len(to_dev)].mux)

\* A stream that is not open yet has said and heard nothing.
Unsaid ==
    \A s \in Streams : phase[s] \in {"none", "opening"} =>
        tx_seq_[s] = 1 /\ Heard(s) = <<>> /\ ~failed[s]

\* A connection the device did not accept has no data, and it sends none before
\* the handshake is done.
NoneYet ==
    \A c \in Conns :
        /\ dev_state[c] = "none" => dev_rcvd[c] = 0
        /\ dev_state[c] \in {"none", "synrcvd"} => dev_sent[c] = 0

\* The only stream that is being opened is the one whose open goes on.
OneOpening == \A s \in Streams : phase[s] = "opening" => op = "open" /\ cur = s

\* A stream that was asked for is not in the state it had before.
Begun == \A s \in Streams : s <= opens => phase[s] # "none"

\* A call has something left to do, and no more than it was asked for.
Wanted ==
    /\ op \in {"read", "write"} => want \in 1 .. MaxUnits
    /\ op \in {"read", "read_all"} => incoming_[cur] = <<>>

\* A frame under way is of a stream, and no longer than a write.
OfStreams ==
    \A i \in 1 .. Len(to_dev) :
        /\ to_dev[i].flags = "ACK" => to_dev[i].len <= MaxUnits
        /\ \E s \in Streams : s <= opens /\ to_dev[i].conn = Conn(s)

\* Frame f of connection c starts at unit a, and b is where the next one starts.
IsData(f, c)     == f.conn = c /\ f.flags = "ACK" /\ f.len > 0
Spans(f, c, a, b) == IF IsData(f, c) THEN f.seq = a /\ b = a + f.len ELSE b = a

\* The starts p of the frames to the device, from what it has to what was written.
Rising(p, n) ==
    p \in [0 .. n -> Nat] /\ \A i, j \in 0 .. n : i <= j => p[i] <= p[j]

\* They are the starts of the frames of stream s.
Placed(s, p) ==
    /\ Rising(p, Len(to_dev))
    /\ p[0] = dev_rcvd[Conn(s)] + 1
    /\ \A i \in 1 .. Len(to_dev) : Spans(to_dev[i], Conn(s), p[i - 1], p[i])
    /\ p[Len(to_dev)] <= tx_seq_[s]
    /\ link = "up" => p[Len(to_dev)] = tx_seq_[s]

\* Whatever is under way fits between what the device took and what was written.
HostChain ==
    \A s \in Streams : s <= opens /\ dev_state[Conn(s)] # "reset" => \E p : Placed(s, p)

\* The device took no more than was written.
WrittenFirst == \A s \in Streams : dev_rcvd[Conn(s)] < tx_seq_[s]

\* The conjuncts of the invariant: of the calls, of the numbers, of the data.
Calls == Unsaid /\ OneOpening /\ Begun /\ Wanted
Sends == Numbered /\ NoneYet
Chain == OfStreams /\ HostChain /\ WrittenFirst
SInv  == Calls /\ Sends /\ (NoWrap => Chain)
-----------------------------------------------------------------------------
(* Rising sequences.                                                       *)

\* Without the first of them.
LEMMA Shift ==
    ASSUME NEW n \in Nat \ {0}, NEW p, Rising(p, n)
    PROVE  \E q : /\ Rising(q, n - 1)
                  /\ q[0] = p[1] /\ q[n - 1] = p[n]
                  /\ \A i \in 1 .. (n - 1) : q[i] = p[i + 1] /\ q[i - 1] = p[i]
  <1> DEFINE q == [i \in 0 .. (n - 1) |-> p[i + 1]]
  <1>1. \A i \in 0 .. (n - 1) : i + 1 \in 0 .. n /\ q[i] = p[i + 1]
    OBVIOUS
  <1>2. q \in [0 .. (n - 1) -> Nat]
    BY <1>1 DEF Rising
  <1>3. \A i, j \in 0 .. (n - 1) : i <= j => q[i] <= q[j]
    BY <1>1 DEF Rising
  <1>4. q[0] = p[1] /\ q[n - 1] = p[n]
    BY <1>1
  <1>5. \A i \in 1 .. (n - 1) : q[i] = p[i + 1] /\ q[i - 1] = p[i]
    BY <1>1
  <1> HIDE DEF q
  <1>6. Rising(q, n - 1)
    BY <1>2, <1>3 DEF Rising
  <1> QED
    BY <1>4, <1>5, <1>6

\* With one more behind the last.
LEMMA Extend ==
    ASSUME NEW n \in Nat, NEW p, NEW y \in Nat, Rising(p, n), p[n] <= y
    PROVE  \E q : /\ Rising(q, n + 1)
                  /\ q[0] = p[0] /\ q[n] = p[n] /\ q[n + 1] = y
                  /\ \A i \in 1 .. n : q[i] = p[i] /\ q[i - 1] = p[i - 1]
  <1> DEFINE q == [i \in 0 .. (n + 1) |-> IF i <= n THEN p[i] ELSE y]
  <1>1. \A i \in 0 .. n : p[i] \in Nat /\ p[i] <= p[n] /\ i \in 0 .. (n + 1) /\ q[i] = p[i]
    BY DEF Rising
  <1>2. n \in 0 .. n /\ 0 \in 0 .. n /\ n + 1 \in 0 .. (n + 1) 
    BY DEF Rising
  <1>3. q[n + 1] = y
    BY <1>2
  <1>4. \A i \in 0 .. (n + 1) : i \in 0 .. n \/ i = n + 1
    OBVIOUS
  <1>5. q \in [0 .. (n + 1) -> Nat]
    <2>1. \A i \in 0 .. (n + 1) : q[i] \in Nat
      <3> HIDE DEF q
      <3> QED
        BY <1>1, <1>2, <1>3, <1>4
    <2> QED
      BY <2>1
  <1>6. \A i, j \in 0 .. (n + 1) : i <= j => q[i] <= q[j]
    <2> HIDE DEF q
    <2> SUFFICES ASSUME NEW i \in 0 .. (n + 1), NEW j \in 0 .. (n + 1), i <= j
                 PROVE  q[i] <= q[j]
      OBVIOUS
    <2>1. CASE j \in 0 .. n
      <3>1. i \in 0 .. n
        BY <2>1
      <3> QED
        BY <1>1, <2>1, <3>1 DEF Rising
    <2>2. CASE j = n + 1 /\ i \in 0 .. n
      <3>1. p[i] \in Nat /\ p[n] \in Nat /\ p[i] <= p[n] /\ q[i] = p[i] /\ q[j] = y
        BY <1>1, <1>2, <1>3, <2>2
      <3> QED
        BY <3>1
    <2>3. CASE j = n + 1 /\ i = n + 1
      BY <1>2, <1>3, <2>3
    <2> QED
      BY <1>4, <2>1, <2>2, <2>3
  <1>7. \A i \in 1 .. n : i \in 0 .. n /\ i - 1 \in 0 .. n
    OBVIOUS
  <1> HIDE DEF q
  <1>8. /\ Rising(q, n + 1)
        /\ q[0] = p[0] /\ q[n] = p[n] /\ q[n + 1] = y
        /\ \A i \in 1 .. n : q[i] = p[i] /\ q[i - 1] = p[i - 1]
    BY <1>1, <1>2, <1>3, <1>5, <1>6, <1>7 DEF Rising
  <1> QED
    BY <1>8
-----------------------------------------------------------------------------
(* The number in the mux header.                                           *)

\* What a step does to the frames to the device, their numbers and the counter.
NumberShape ==
    /\ faults' \in Nat /\ faults' >= faults
    /\ \/ faults' > 0
       \/ /\ UNCHANGED <<to_dev, dev_mux>>
          /\ link' # "up" \/ UNCHANGED <<mux_tx_seq_, link>>
       \/ to_dev' = <<>> /\ link' # "up"
       \/ /\ link = "up" /\ UNCHANGED <<dev_mux, link>>
          /\ \E f \in HostFrames : f.mux = mux_tx_seq_ /\ to_dev' = Append(to_dev, f)
          /\ mux_tx_seq_' = NextMux(mux_tx_seq_)
       \/ /\ to_dev # <<>> /\ to_dev' = Tail(to_dev) /\ dev_mux' = to_dev[1].mux
          /\ UNCHANGED <<mux_tx_seq_, link>>

\* Session::send numbers the frame it sends.
LEMMA SentNumbers ==
    ASSUME TypeOK, UNCHANGED dev_mux, NEW c \in Conns, NEW flags \in Flags,
           NEW seq \in Nat, NEW ack \in Nat, NEW len \in Nat,
           Sent(c, flags, seq, ack, len)
    PROVE  NumberShape
  <1>1. HostFrame(c, flags, seq, ack, len, mux_tx_seq_) \in HostFrames
    BY DEF TypeOK, HostFrame, HostFrames
  <1>2. HostFrame(c, flags, seq, ack, len, mux_tx_seq_).mux = mux_tx_seq_
    BY DEF HostFrame
  <1>3. faults \in Nat
    BY MuxLinkAssumption DEF TypeOK
  <1> QED
    BY <1>1, <1>2, <1>3 DEF Sent, NumberShape

\* A send that fails uses a number up, and is counted among the faults.
LEMMA SendFailsNumbers ==
    ASSUME TypeOK, UNCHANGED dev_mux, SendFails
    PROVE  NumberShape
  <1>1. faults \in Nat
    BY MuxLinkAssumption DEF TypeOK
  <1> QED
    BY <1>1 DEF SendFails, NumberShape

\* A receive uses no number.
LEMMA ReceiveFailsNumbers ==
    ASSUME TypeOK, UNCHANGED dev_mux, ReceiveFails
    PROVE  NumberShape
  <1>1. faults \in Nat
    BY MuxLinkAssumption DEF TypeOK
  <1> QED
    BY <1>1 DEF ReceiveFails, NumberShape

\* Every step numbers what it sends, and takes frames from the head.
LEMMA StepNumbers ==
    ASSUME TypeOK, [Next]_vars
    PROVE  NumberShape
  <1> USE DEF vars, session, connection, names, stream, caller, device
  <1>0. faults \in Nat /\ cur \in Streams /\ \A s \in Streams : Conn(s) \in Conns
    BY ConnType, MuxLinkAssumption DEF TypeOK
  <1>1. CASE UNCHANGED <<to_dev, mux_tx_seq_, dev_mux, faults, link>>
    BY <1>0, <1>1 DEF NumberShape
  <1>2. ASSUME NEW svc \in Services, OpenSyn(svc)
        PROVE  NumberShape
    <2>1. <<next_port_, svc>> \in Conns /\ UNCHANGED dev_mux
      BY <1>2 DEF OpenSyn, TypeOK, Conns
    <2> QED
      BY <1>2, <2>1, SentNumbers, SendFailsNumbers DEF OpenSyn, Flags
  <1>3. CASE OpenStep
    <2>1. CASE OpenSkips \/ OpenRefused
      BY <1>1, <2>1 DEF OpenSkips, OpenRefused
    <2>2. CASE OpenTimesOut
      BY <2>2, ReceiveFailsNumbers DEF OpenTimesOut
    <2>3. CASE OpenSucceeds
      <3>1. Frame.seq + 1 \in Nat /\ UNCHANGED dev_mux
        BY <2>3, ReceivedType DEF OpenSucceeds, OpenAnswered, DevFrames
      <3> QED
        BY <1>0, <2>3, <3>1, SentNumbers DEF OpenSucceeds, Flags
    <2>4. CASE OpenAckFails
      BY <1>0, <2>4 DEF OpenAckFails, NumberShape
    <2> QED
      BY <1>3, <2>1, <2>2, <2>3, <2>4 DEF OpenStep
  <1>4. CASE ReadStep
    <2>1. CASE ReadSkips \/ ReadReset
      BY <1>1, <2>1 DEF ReadSkips, ReadReset
    <2>2. CASE ReadTimesOut
      BY <2>2, ReceiveFailsNumbers DEF ReadTimesOut
    <2>3. CASE ReadTakes
      <3>1. AckOf(Frame) \in Nat /\ UNCHANGED dev_mux
        <4>1. Frame \in DevFrames /\ UNCHANGED dev_mux
          BY <2>3, ReceivedType DEF ReadTakes, ReadFrame
        <4> QED
          BY <4>1, LenProperties DEF DevFrames, AckOf
      <3> QED
        BY <1>0, <2>3, <3>1, SentNumbers DEF ReadTakes, Flags, TypeOK
    <2>4. CASE ReadAckFails
      BY <2>4, SendFailsNumbers DEF ReadAckFails, ReadFrame
    <2> QED
      BY <1>4, <2>1, <2>2, <2>3, <2>4 DEF ReadStep
  <1>5. CASE WriteStep
    <2>1. CASE WriteChunk
      <3>1. Smaller(MaxPayload, want) \in Nat /\ UNCHANGED dev_mux
        BY <2>1, MuxLinkAssumption DEF WriteChunk, Smaller, TypeOK
      <3> QED
        BY <1>0, <2>1, <3>1, SentNumbers DEF WriteChunk, Flags, TypeOK
    <2>2. CASE WriteFails
      BY <2>2, SendFailsNumbers DEF WriteFails
    <2> QED
      BY <1>5, <2>1, <2>2 DEF WriteStep
  <1>6. ASSUME NEW s \in Streams, Close(s)
        PROVE  NumberShape
    <2>1. CASE UNCHANGED session
      BY <1>1, <1>6, <2>1 DEF Close
    <2>2. CASE SendFails
      BY <1>6, <2>2, SendFailsNumbers DEF Close
    <2>3. CASE Sent(Conn(s), "RST", tx_seq_[s], tx_ack_[s], 0)
      BY <1>0, <1>6, <2>3, SentNumbers DEF Close, Flags, TypeOK
    <2> QED
      BY <1>6, <2>1, <2>2, <2>3 DEF Close
  <1>7. CASE \E s \in Streams : \/ ReadAll(s)
                              \/ \E n \in 1 .. MaxUnits : ReadExact(s, n) \/ Write(s, n)
    BY <1>1, <1>7 DEF ReadAll, ReadExact, Write
  <1>8. CASE ConnClose \/ Drop
    BY <1>0, <1>8 DEF ConnClose, Drop, NumberShape
  <1>9. CASE DevTurn
    <2>1. DevTakes
      BY <1>9 DEF DevTurn, DevSyn, DevRefuses, DevData, DevEnds
    <2> QED
      BY <1>0, <2>1 DEF DevTakes, NumberShape
  <1>10. CASE DevControl \/ \E c \in Conns : DevReset(c) \/ \E n \in 1 .. MaxUnits : DevSend(c, n)
    BY <1>1, <1>10 DEF DevControl, DevReset, DevSend
  <1> QED
    BY <1>1, <1>2, <1>3, <1>4, <1>5, <1>6, <1>7, <1>8, <1>9, <1>10
       DEF Next, Continue, Call, Device

\* The numbers follow each other in every step.
LEMMA NumberedKept == TypeOK /\ Numbered /\ [Next]_vars => Numbered'
  <1> SUFFICES ASSUME TypeOK, Numbered, NumberShape, faults' = 0 PROVE Numbered'
    BY StepNumbers DEF Numbered
  <1>1. to_dev \in Seq(HostFrames) /\ Len(to_dev) \in Nat /\ faults = 0
    BY LenProperties, MuxLinkAssumption DEF TypeOK, NumberShape
  <1>2. /\ \A i \in 1 .. Len(to_dev) :
               to_dev[i].mux = NextMux(IF i = 1 THEN dev_mux ELSE to_dev[i - 1].mux)
        /\ link = "up" =>
               mux_tx_seq_ = NextMux(IF to_dev = <<>> THEN dev_mux ELSE to_dev[Len(to_dev)].mux)
    BY <1>1 DEF Numbered
  <1>3. CASE UNCHANGED <<to_dev, dev_mux>> /\ (link' # "up" \/ UNCHANGED <<mux_tx_seq_, link>>)
    BY <1>2, <1>3 DEF Numbered
  <1>4. CASE to_dev' = <<>> /\ link' # "up"
    BY <1>4 DEF Numbered
  <1>5. ASSUME link = "up", UNCHANGED dev_mux, NEW f \in HostFrames, f.mux = mux_tx_seq_,
               to_dev' = Append(to_dev, f), mux_tx_seq_' = NextMux(mux_tx_seq_)
        PROVE  Numbered'
    <2>1. /\ Len(to_dev') = Len(to_dev) + 1 /\ to_dev' # <<>> /\ to_dev'[Len(to_dev')] = f
          /\ \A i \in 1 .. Len(to_dev) : to_dev'[i] = to_dev[i]
      BY <1>1, <1>5, AppendFacts
    <2>2. ASSUME NEW i \in 1 .. Len(to_dev')
          PROVE  to_dev'[i].mux = NextMux(IF i = 1 THEN dev_mux' ELSE to_dev'[i - 1].mux)
      <3>1. CASE i \in 1 .. Len(to_dev)
        <4>1. i # 1 => i - 1 \in 1 .. Len(to_dev)
          BY <1>1, <3>1
        <4> QED
          BY <1>2, <1>5, <2>1, <3>1, <4>1
      <3>2. CASE i = Len(to_dev) + 1 /\ to_dev = <<>>
        BY <1>1, <1>2, <1>5, <2>1, <3>2
      <3>3. CASE i = Len(to_dev) + 1 /\ to_dev # <<>>
        <4>1. Len(to_dev) \in 1 .. Len(to_dev) /\ i # 1 /\ i - 1 = Len(to_dev)
          BY <1>1, <3>3, EmptySeq
        <4> QED
          BY <1>2, <1>5, <2>1, <3>3, <4>1
      <3> QED
        BY <1>1, <2>1, <3>1, <3>2, <3>3
    <2> QED
      BY <1>5, <2>1, <2>2 DEF Numbered
  <1>6. CASE /\ to_dev # <<>> /\ to_dev' = Tail(to_dev) /\ dev_mux' = to_dev[1].mux
             /\ UNCHANGED <<mux_tx_seq_, link>>
    <2>1. /\ Len(to_dev') = Len(to_dev) - 1
          /\ \A i \in 1 .. Len(to_dev') : i + 1 \in 1 .. Len(to_dev) /\ to_dev'[i] = to_dev[i + 1]
      BY <1>1, <1>6, TailFacts
    <2>2. ASSUME NEW i \in 1 .. Len(to_dev')
          PROVE  to_dev'[i].mux = NextMux(IF i = 1 THEN dev_mux' ELSE to_dev'[i - 1].mux)
      <3>1. to_dev[i + 1].mux = NextMux(to_dev[i].mux) /\ (i # 1 => to_dev'[i - 1] = to_dev[i])
        <4>1. i + 1 \in 1 .. Len(to_dev) /\ i + 1 # 1 /\ (i + 1) - 1 = i
              /\ (i # 1 => i - 1 \in 1 .. Len(to_dev') /\ (i - 1) + 1 = i)
          BY <1>1, <2>1
        <4> QED
          BY <1>2, <2>1, <4>1
      <3> QED
        BY <1>6, <2>1, <3>1
    <2>3. link' = "up" =>
            mux_tx_seq_' = NextMux(IF to_dev' = <<>> THEN dev_mux' ELSE to_dev'[Len(to_dev')].mux)
      <3>1. CASE to_dev' = <<>>
        <4>1. Len(to_dev) = 1
          BY <1>1, <2>1, <3>1, EmptySeq
        <4> QED
          BY <1>2, <1>6, <3>1, <4>1
      <3>2. CASE to_dev' # <<>>
        <4>1. to_dev' \in Seq(HostFrames)
          BY <1>1, <1>6
        <4>2. Len(to_dev') \in 1 .. Len(to_dev') /\ Len(to_dev') + 1 = Len(to_dev)
          BY <1>1, <2>1, <3>2, <4>1, EmptySeq, LenProperties
        <4> QED
          BY <1>2, <1>6, <2>1, <3>2, <4>2
      <3> QED
        BY <3>1, <3>2
    <2> QED
      BY <2>2, <2>3 DEF Numbered
  <1> QED
    BY <1>3, <1>4, <1>5, <1>6 DEF NumberShape
-----------------------------------------------------------------------------
(* What a call knows.                                                      *)

\* Only a read that takes a frame adds to what a stream heard.
LEMMA HeardKept ==
    ASSUME TypeOK, [Next]_vars, ~ReadTakes
    PROVE  \A s \in Streams : Heard(s)' = Heard(s)
  <1> USE DEF vars, session, connection, names, stream, caller, device
  <1>1. CASE HostCall
    BY <1>1, HostCallHears
  <1>2. CASE Device
    BY <1>2, DeviceLeavesHost DEF Heard
  <1>3. CASE UNCHANGED vars \/ \E svc \in Services : OpenSyn(svc)
    BY <1>3 DEF Heard, OpenSyn
  <1> QED
    BY <1>1, <1>2, <1>3 DEF Next, Call, HostCall

\* A stream says and hears nothing before it is open.
LEMMA UnsaidKept == TypeOK /\ Calling /\ Unsaid /\ [Next]_vars => Unsaid'
  <1> SUFFICES ASSUME TypeOK, Calling, Unsaid, [Next]_vars,
                      NEW s \in Streams, phase'[s] \in {"none", "opening"}
               PROVE  tx_seq_'[s] = 1 /\ Heard(s)' = <<>> /\ ~failed'[s]
    BY DEF Unsaid
  <1> USE DEF vars, session, connection, names, stream, caller, device
  <1>0. cur \in Streams
    BY DEF TypeOK
  <1>1. SUFFICES /\ phase[s] \in {"none", "opening"}
                 /\ tx_seq_'[s] = tx_seq_[s] \/ tx_seq_'[s] = 1
                 /\ Heard(s)' = Heard(s)
                 /\ failed'[s] = failed[s]
    BY DEF Unsaid
  <1>2. CASE UNCHANGED <<phase, tx_seq_, failed>> /\ ~ReadTakes
    BY <1>2, HeardKept
  <1>3. ASSUME NEW svc \in Services, OpenSyn(svc)
        PROVE  <1>1!1
    <2>1. phase[s] \in {"none", "opening"}
      <3>1. CASE s = opens + 1
        BY <3>1 DEF Calling, TypeOK, Streams
      <3>2. CASE s # opens + 1
        BY <1>3, <3>2 DEF OpenSyn, TypeOK
      <3> QED
        BY <3>1, <3>2
    <2>2. UNCHANGED <<tx_seq_, failed, got, incoming_>>
      BY <1>3 DEF OpenSyn
    <2> QED
      BY <2>1, <2>2 DEF Heard
  <1>4. CASE OpenStep
    <2>1. CASE OpenSkips
      BY <1>2, <2>1 DEF OpenSkips, ReadTakes, ReadFrame, Reading
    <2>2. CASE OpenRefused \/ OpenTimesOut \/ OpenAckFails \/ OpenSucceeds
      <3>1. s # cur
        BY <1>0, <2>2
           DEF OpenRefused, OpenTimesOut, OpenAckFails, OpenSucceeds, OpenGivesUp, TypeOK
      <3>2. /\ \E x \in {"failed", "open"} : phase' = [phase EXCEPT ![cur] = x]
            /\ tx_seq_' = tx_seq_ \/ tx_seq_' = [tx_seq_ EXCEPT ![cur] = 1]
            /\ failed' = failed \/ failed' = [failed EXCEPT ![cur] = TRUE]
            /\ op = "open"
        BY <2>2
           DEF OpenRefused, OpenTimesOut, OpenAckFails, OpenSucceeds, OpenGivesUp, OpenAnswered
      <3>3. Heard(s)' = Heard(s)
        BY <3>2, HeardKept DEF ReadTakes, ReadFrame, Reading
      <3> QED
        BY <3>1, <3>2, <3>3 DEF TypeOK
    <2> QED
      BY <1>4, <2>1, <2>2 DEF OpenStep
  <1>5. CASE ReadStep \/ WriteStep
    <2>1. /\ op # "open" /\ op # "idle" /\ phase' = phase
          /\ \E x \in Nat : tx_seq_' = tx_seq_ \/ tx_seq_' = [tx_seq_ EXCEPT ![cur] = x]
          /\ failed' = failed \/ failed' = [failed EXCEPT ![cur] = TRUE]
      <3>1. CASE ReadStep
        BY <3>1
           DEF ReadStep, ReadSkips, ReadReset, ReadTakes, ReadAckFails, ReadTimesOut, ReadFrame,
                    Reading, Fail
      <3>2. CASE WriteStep
        <4>1. tx_seq_[cur] + Smaller(MaxPayload, want) \in Nat
          BY <1>0, MuxLinkAssumption DEF TypeOK, Smaller
        <4> QED
          BY <3>2, <4>1 DEF WriteStep, WriteChunk, WriteFails, Fail, SeqAfter
      <3> QED
        BY <1>5, <3>1, <3>2
    <2>2. s # cur
      BY <2>1 DEF Calling
    <2>3. Heard(s)' = Heard(s)
      <3>1. CASE ReadTakes
        <4>1. got'[s] = got[s] /\ incoming_'[s] = incoming_[s]
          BY <1>0, <2>2, <3>1 DEF ReadTakes, HandOut, TypeOK
        <4> QED
          BY <4>1 DEF Heard
      <3> QED
        BY <3>1, HeardKept
    <2> QED
      BY <2>1, <2>2, <2>3 DEF TypeOK
  <1>6. ASSUME NEW t \in Streams, Close(t)
        PROVE  <1>1!1
    <2>1. s # t /\ phase'[s] = phase[s]
      BY <1>6 DEF Close, TypeOK
    <2> QED
      BY <1>6, <2>1 DEF Close, Heard
  <1>7. CASE \E t \in Streams : \/ ReadAll(t)
                              \/ \E n \in 1 .. MaxUnits : ReadExact(t, n) \/ Write(t, n)
    BY <1>2, <1>7 DEF ReadAll, ReadExact, Write, MayCall, ReadTakes, ReadFrame, Reading
  <1>8. CASE ConnClose \/ Drop \/ Device
    <2>1. UNCHANGED <<phase, tx_seq_, failed, got, incoming_>>
      BY <1>8
         DEF ConnClose, Drop, Device, DevTurn, DevSyn, DevRefuses, DevData, DevEnds, DevTakes,
                  DevSend, DevReset, DevControl
    <2> QED
      BY <2>1 DEF Heard
  <1>9. CASE UNCHANGED vars
    BY <1>9 DEF Heard
  <1> QED
    BY <1>3, <1>4, <1>5, <1>6, <1>7, <1>8, <1>9 DEF Next, Continue, Call

\* One stream at a time is being opened.
LEMMA OneOpeningKept == TypeOK /\ Calling /\ OneOpening /\ [Next]_vars => OneOpening'
  <1> SUFFICES ASSUME TypeOK, Calling, OneOpening, [Next]_vars,
                      NEW s \in Streams, phase'[s] = "opening"
               PROVE  op' = "open" /\ cur' = s
    BY DEF OneOpening
  <1> USE DEF vars, session, connection, names, stream, caller, device
  <1>0. cur \in Streams
    BY DEF TypeOK
  <1>1. ASSUME NEW svc \in Services, OpenSyn(svc)
        PROVE  op' = "open" /\ cur' = s
    <2>1. op = "idle" /\ opens + 1 \in Streams
      BY <1>1, MuxLinkAssumption DEF OpenSyn, TypeOK, Streams
    <2>2. s = opens + 1
      BY <1>1, <2>1 DEF OpenSyn, OneOpening, TypeOK
    <2>3. phase'[s] = "failed" \/ (op' = "open" /\ cur' = s)
      BY <1>1, <2>2 DEF OpenSyn, TypeOK
    <2> QED
      BY <2>3
  <1>2. CASE OpenStep
    <2>1. \/ UNCHANGED <<op, cur, phase>>
          \/ op = "open" /\ \E x \in {"failed", "open"} : phase' = [phase EXCEPT ![cur] = x]
      BY <1>2 DEF OpenStep, OpenSkips, OpenRefused, OpenTimesOut, OpenSucceeds, OpenAckFails,
                  OpenAnswered, OpenGivesUp
    <2> QED
      BY <1>0, <2>1 DEF OneOpening, TypeOK
  <1>3. CASE ReadStep \/ WriteStep
    <2>1. phase' = phase /\ op # "open"
      BY <1>3
         DEF ReadStep, ReadSkips, ReadReset, ReadTakes, ReadAckFails, ReadTimesOut, ReadFrame,
                  Reading, Fail, WriteStep, WriteChunk, WriteFails
    <2> QED
      BY <2>1 DEF OneOpening
  <1>4. CASE \E t \in Streams : \/ ReadAll(t) \/ Close(t)
                                \/ \E n \in 1 .. MaxUnits : ReadExact(t, n) \/ Write(t, n)
    <2>1. op = "idle" /\ phase[s] = "opening"
      BY <1>4 DEF ReadAll, ReadExact, Write, MayCall, Close, TypeOK
    <2> QED
      BY <2>1 DEF OneOpening
  <1>5. CASE ConnClose \/ Drop \/ Device \/ UNCHANGED vars
    <2>1. UNCHANGED <<phase, op, cur>>
      BY <1>5
         DEF ConnClose, Drop, Device, DevTurn, DevSyn, DevRefuses, DevData, DevEnds, DevTakes,
                  DevSend, DevReset, DevControl
    <2> QED
      BY <2>1 DEF OneOpening
  <1> QED
    BY <1>1, <1>2, <1>3, <1>4, <1>5 DEF Next, Continue, Call

\* A stream does not return to the state before its open.
LEMMA BegunKept == TypeOK /\ Begun /\ [Next]_vars => Begun'
  <1> SUFFICES ASSUME TypeOK, Begun, [Next]_vars PROVE Begun'
    OBVIOUS
  <1> USE DEF vars, session, connection, names, stream, caller, device
  <1>0. cur \in Streams /\ opens \in Nat
    BY MuxLinkAssumption DEF TypeOK
  <1>1. ASSUME opens' = opens, \A s \in Streams : phase'[s] = phase[s] \/ phase'[s] # "none"
        PROVE  Begun'
    BY <1>1 DEF Begun
  <1>2. CASE \E svc \in Services : OpenSyn(svc)
    <2>1. PICK new \in Nat : new = opens + 1
      BY <1>0
    <2>2. /\ opens' = new
          /\ \A s \in Streams : IF s = new THEN phase'[s] # "none" ELSE phase'[s] = phase[s]
      BY <1>2, <2>1 DEF OpenSyn, TypeOK
    <2>3. \A s \in Streams : s <= new => s <= opens \/ s = new
      BY <1>0, <2>1 DEF Streams
    <2> QED
      BY <2>2, <2>3 DEF Begun
  <1>3. CASE HostCall
    <2>1. opens' = opens
      BY <1>3 DEF HostCall, Continue, OpenStep, ReadStep, WriteStep, OpenSkips, OpenRefused,
          OpenTimesOut, OpenSucceeds, OpenAckFails, OpenAnswered, ReadExact, ReadAll, ReadSkips,
          ReadReset, ReadTakes, ReadAckFails, ReadTimesOut, ReadFrame, Write, WriteChunk,
          WriteFails, Close, ConnClose, Drop
    <2>2. \A s \in Streams : phase'[s] = phase[s] \/ phase'[s] # "none"
      BY <1>0, <1>3 DEF HostCall, Continue, OpenStep, ReadStep, WriteStep, OpenSkips, OpenRefused,
          OpenTimesOut, OpenSucceeds, OpenAckFails, OpenGivesUp, ReadExact, ReadAll, ReadSkips,
          ReadReset, ReadTakes, ReadAckFails, ReadTimesOut, Fail, Write, WriteChunk,
          WriteFails, Close, ConnClose, Drop, TypeOK
    <2> QED
      BY <1>1, <2>1, <2>2
  <1>4. CASE Device \/ UNCHANGED vars
    BY <1>1, <1>4, DeviceLeavesHost
  <1> QED
    BY <1>2, <1>3, <1>4 DEF Next, Call, HostCall

\* A call is left with part of what it was asked for.
LEMMA WantedKept == TypeOK /\ Wanted /\ [Next]_vars => Wanted'
  <1> SUFFICES ASSUME TypeOK, Wanted, [Next]_vars PROVE Wanted'
    OBVIOUS
  <1> USE DEF vars, session, connection, names, stream, caller, device
  <1>0. cur \in Streams /\ want \in Nat
    BY DEF TypeOK
  <1>1. CASE op' \notin {"read", "read_all", "write"}
    BY <1>1 DEF Wanted
  <1>2. CASE UNCHANGED <<op, cur, want, incoming_>>
    BY <1>2 DEF Wanted
  <1>3. CASE OpenStep \/ \E svc \in Services : OpenSyn(svc)
    BY <1>1, <1>2, <1>3 DEF OpenSyn, OpenStep, OpenSkips, OpenRefused, OpenTimesOut, OpenSucceeds,
        OpenAckFails, OpenAnswered, OpenGivesUp, Return
  <1>4. ASSUME NEW s \in Streams, NEW n \in 1 .. MaxUnits, ReadExact(s, n)
        PROVE  Wanted'
    <2> DEFINE n1 == Smaller(n, Len(incoming_[s]))
    <2>1. incoming_[s] \in Seq(Units) /\ Len(incoming_[s]) \in Nat
      BY LenProperties DEF TypeOK
    <2>2. CASE n1 = n
      <3>1. op = "idle" /\ op' = op
        BY <1>4, <2>2 DEF ReadExact, MayCall
      <3> QED
        BY <1>1, <3>1
    <2>3. CASE n1 # n
      <3>1. op' = "read" /\ cur' = s /\ want' = n - n1 /\ HandOut(s, incoming_[s], n1)
        BY <1>4, <2>3 DEF ReadExact
      <3>2. n1 = Len(incoming_[s]) /\ n1 < n
        BY <2>1, <2>3, MuxLinkAssumption DEF Smaller
      <3>3. want' \in 1 .. MaxUnits
        <4>1. n - n1 \in 1 .. MaxUnits
          BY <2>1, <3>2, MuxLinkAssumption
        <4> QED
          BY <3>1, <4>1
      <3>4. SubSeq(incoming_[s], n1 + 1, Len(incoming_[s])) = <<>>
        BY <2>1, <3>2, SubSeqProperties
      <3>5. incoming_'[s] = <<>>
        BY <3>1, <3>4 DEF HandOut, TypeOK
      <3> QED
        BY <3>1, <3>3, <3>5 DEF Wanted
    <2> QED
      BY <2>2, <2>3
  <1>5. ASSUME NEW s \in Streams, ReadAll(s)
        PROVE  Wanted'
    <2>1. incoming_[s] \in Seq(Units) /\ Len(incoming_[s]) \in Nat
      BY LenProperties DEF TypeOK
    <2>2. SubSeq(incoming_[s], Len(incoming_[s]) + 1, Len(incoming_[s])) = <<>>
      BY <2>1, SubSeqProperties
    <2>3. incoming_'[s] = <<>> /\ op' = "read_all" /\ cur' = s
      BY <1>5, <2>2 DEF ReadAll, HandOut, TypeOK
    <2> QED
      BY <2>3 DEF Wanted
  <1>6. ASSUME NEW s \in Streams, NEW n \in 1 .. MaxUnits, Write(s, n)
        PROVE  Wanted'
    BY <1>6 DEF Write, Wanted
  <1>7. CASE ReadStep
    <2>1. CASE ReadTakes
      <3> DEFINE n == IF op = "read" THEN Smaller(want, Len(Frame.data)) ELSE Len(Frame.data)
      <3>1. Frame.data \in Seq(Units) /\ Len(Frame.data) \in Nat
        BY <2>1, ReceivedType, LenProperties DEF ReadTakes, ReadFrame, DevFrames
      <3>2. CASE op = "read" /\ n = want
        BY <1>1, <2>1, <3>2 DEF ReadTakes, Return
      <3>3. CASE ~(op = "read" /\ n = want)
        <4>1. /\ UNCHANGED <<op, cur>> /\ want' = (IF op = "read" THEN want - n ELSE 0)
              /\ op \in {"read", "read_all"} /\ HandOut(cur, Frame.data, n)
          BY <2>1, <3>3 DEF ReadTakes, ReadFrame, Reading
        <4>2. n = Len(Frame.data) /\ (op = "read" => want - n \in 1 .. MaxUnits)
          BY <1>0, <3>1, <3>3, <4>1, MuxLinkAssumption DEF Smaller, Wanted
        <4>3. SubSeq(Frame.data, n + 1, Len(Frame.data)) = <<>>
          BY <3>1, <4>2, SubSeqProperties
        <4>4. incoming_'[cur] = <<>>
          BY <1>0, <4>1, <4>3 DEF HandOut, TypeOK
        <4> QED
          BY <4>1, <4>2, <4>4 DEF Wanted
      <3> QED
        BY <3>2, <3>3
    <2>2. CASE ReadSkips \/ ReadReset \/ ReadAckFails \/ ReadTimesOut
      BY <1>1, <1>2, <2>2 DEF ReadSkips, ReadReset, ReadAckFails, ReadTimesOut, Fail, Return
    <2> QED
      BY <1>7, <2>1, <2>2 DEF ReadStep
  <1>8. CASE WriteStep
    <2>1. CASE WriteFails
      BY <1>1, <2>1 DEF WriteFails, Fail, Return
    <2>2. CASE WriteChunk
      <3>1. CASE Smaller(MaxPayload, want) = want
        BY <1>1, <2>2, <3>1 DEF WriteChunk, Return
      <3>2. CASE Smaller(MaxPayload, want) # want
        <4>1. op = "write" /\ UNCHANGED <<op, cur>> /\ want' = want - Smaller(MaxPayload, want)
          BY <2>2, <3>2 DEF WriteChunk
        <4>2. want - Smaller(MaxPayload, want) \in 1 .. MaxUnits
          BY <1>0, <3>2, <4>1, MuxLinkAssumption DEF Smaller, Wanted
        <4> QED
          BY <4>1, <4>2 DEF Wanted
      <3> QED
        BY <3>1, <3>2
    <2> QED
      BY <1>8, <2>1, <2>2 DEF WriteStep
  <1>9. CASE ConnClose \/ Drop \/ Device \/ UNCHANGED vars \/ \E s \in Streams : Close(s)
    <2>1. UNCHANGED <<op, cur, want, incoming_>>
      BY <1>9 DEF ConnClose, Close, Drop, Device, DevTurn, DevSyn, DevRefuses, DevData, DevEnds,
                  DevTakes, DevSend, DevReset, DevControl
    <2> QED
      BY <1>2, <2>1
  <1> QED
    BY <1>3, <1>4, <1>5, <1>6, <1>7, <1>8, <1>9 DEF Next, Continue, Call

\* The device sends nothing on a connection before the handshake.
LEMMA NoneYetKept == TypeOK /\ NoneYet /\ [Next]_vars => NoneYet'
  <1> SUFFICES ASSUME TypeOK, NoneYet, [Next]_vars PROVE NoneYet'
    OBVIOUS
  <1> USE DEF vars, session, connection, names, stream, caller, device
  <1>1. CASE UNCHANGED <<dev_state, dev_rcvd, dev_sent>>
    BY <1>1 DEF NoneYet
  <1>2. CASE DevTurn
    <2>1. PICK c \in Conns : c = Head(to_dev).conn
      <3>1. DevTakes
        BY <1>2 DEF DevTurn, DevSyn, DevRefuses, DevData, DevEnds
      <3>2. Head(to_dev) \in HostFrames
        BY <3>1 DEF DevTakes, TypeOK
      <3> QED
        BY <3>2 DEF HostFrames
    <2>2. \A d \in Conns : d # c => /\ dev_state'[d] = dev_state[d]
                                    /\ dev_rcvd'[d] = dev_rcvd[d] /\ dev_sent'[d] = dev_sent[d]
      BY <1>2, <2>1 DEF DevTurn, DevSyn, DevRefuses, DevData, DevEnds, TypeOK
    <2>3. \/ dev_state'[c] \notin {"none", "synrcvd"}
          \/ dev_rcvd'[c] = 0 /\ dev_sent'[c] = 0
          \/ dev_state'[c] = dev_state[c] /\ dev_rcvd'[c] = dev_rcvd[c] /\ dev_sent'[c] = dev_sent[c]
      BY <1>2, <2>1 DEF DevTurn, DevSyn, DevRefuses, DevData, DevEnds, TypeOK
    <2> QED
      BY <2>2, <2>3 DEF NoneYet
  <1>3. ASSUME NEW c \in Conns, DevReset(c) \/ \E n \in 1 .. MaxUnits : DevSend(c, n)
        PROVE  NoneYet'
    <2>1. /\ dev_rcvd' = dev_rcvd /\ dev_state'[c] \in {"est", "reset"}
          /\ \A d \in Conns : d # c => dev_state'[d] = dev_state[d] /\ dev_sent'[d] = dev_sent[d]
      BY <1>3 DEF DevReset, DevSend, TypeOK
    <2> QED
      BY <2>1 DEF NoneYet
  <1>4. CASE Continue \/ Call \/ Drop \/ DevControl \/ UNCHANGED vars
    <2>1. UNCHANGED <<dev_state, dev_rcvd, dev_sent>>
      BY <1>4
         DEF Continue, Call, OpenStep, ReadStep, WriteStep, Drop, DevControl, OpenSyn, OpenSkips,
          OpenRefused, OpenTimesOut, OpenSucceeds, OpenAckFails, OpenAnswered, ReadExact, ReadAll,
          ReadSkips, ReadReset, ReadTakes, ReadAckFails, ReadTimesOut, ReadFrame, Write, WriteChunk,
          WriteFails, Close, ConnClose
    <2> QED
      BY <1>1, <2>1
  <1> QED
    BY <1>2, <1>3, <1>4 DEF Next, Device
-----------------------------------------------------------------------------
(* The sequence numbers of the host.                                       *)

\* What the host sends: frames of its streams, and data where the last data ended.
SendShape ==
    /\ UNCHANGED <<opens, local_port_, remote_port_, dev_state, dev_rcvd>>
    /\ \/ UNCHANGED <<to_dev, tx_seq_>> /\ (link' = link \/ link' # "up")
       \/ to_dev' = <<>> /\ link' # "up" /\ UNCHANGED tx_seq_
       \/ /\ link = "up" /\ link' = link
          /\ \E s \in Streams, f \in HostFrames :
                /\ s <= opens /\ f.conn = Conn(s) /\ f.len <= MaxUnits
                /\ to_dev' = Append(to_dev, f)
                /\ \/ f.len = 0 /\ tx_seq_' = tx_seq_
                   \/ /\ f.flags = "ACK" /\ f.len > 0 /\ f.seq = tx_seq_[s]
                      /\ tx_seq_' = [tx_seq_ EXCEPT ![s] = @ + f.len]

\* A frame without payload leaves the sequence numbers alone.
LEMMA EmptySends ==
    ASSUME TypeOK, NEW s \in Streams, NEW flags \in Flags, NEW seq \in Nat, NEW ack \in Nat,
           s <= opens, tx_seq_' = tx_seq_,
           UNCHANGED <<opens, local_port_, remote_port_, dev_state, dev_rcvd>>,
           SendFails \/ Sent(Conn(s), flags, seq, ack, 0)
    PROVE  SendShape
  <1>1. CASE SendFails
    BY <1>1 DEF SendFails, SendShape
  <1>2. CASE Sent(Conn(s), flags, seq, ack, 0)
    <2> DEFINE f == HostFrame(Conn(s), flags, seq, ack, 0, mux_tx_seq_)
    <2>1. f \in HostFrames /\ f.conn = Conn(s) /\ f.len = 0
      BY ConnType DEF TypeOK, HostFrame, HostFrames
    <2>2. link = "up" /\ link' = link /\ to_dev' = Append(to_dev, f)
      BY <1>2 DEF Sent
    <2>3. 0 <= MaxUnits
      BY MuxLinkAssumption
    <2> HIDE DEF f
    <2> QED
      BY <2>1, <2>2, <2>3 DEF SendShape
  <1> QED
    BY <1>1, <1>2

\* Every call but open has that shape.
LEMMA CallSends ==
    ASSUME TypeOK, Calling, PortsInOrder, Unsaid, Wanted, HostCall
    PROVE  SendShape
  <1> USE DEF vars, session, connection, names, stream, caller, device
  <1>0. cur \in Streams /\ (op # "idle" => cur <= opens)
    BY DEF TypeOK, PortsInOrder
  <1>1. CASE /\ UNCHANGED <<opens, local_port_, remote_port_, dev_state, dev_rcvd, to_dev, tx_seq_>>
             /\ link' = link \/ link' # "up"
    BY <1>1 DEF SendShape
  <1>2. CASE OpenStep
    <2>1. CASE OpenSkips \/ OpenRefused \/ OpenTimesOut
      BY <1>1, <2>1 DEF OpenSkips, OpenRefused, OpenTimesOut, ReceiveFails
    <2>2. ASSUME OpenAnswered
          PROVE  /\ Frame.seq + 1 \in Nat /\ tx_seq_' = tx_seq_ /\ cur <= opens
                 /\ UNCHANGED <<opens, local_port_, remote_port_, dev_state, dev_rcvd>>
      <3>1. op = "open" /\ Frame \in DevFrames /\ tx_seq_' = [tx_seq_ EXCEPT ![cur] = 1]
        BY <2>2, ReceivedType DEF OpenAnswered
      <3>2. tx_seq_[cur] = 1
        BY <1>0, <3>1 DEF Calling, Unsaid
      <3>3. tx_seq_' = tx_seq_
        BY <3>1, <3>2 DEF TypeOK
      <3> QED
        BY <1>0, <2>2, <3>1, <3>3 DEF OpenAnswered, DevFrames
    <2>3. CASE OpenSucceeds
      BY <1>0, <2>2, <2>3, EmptySends DEF OpenSucceeds, Flags
    <2>4. CASE OpenAckFails
      <3> DEFINE f == HostFrame(Conn(cur), "RST", 1, Frame.seq + 1, 0, NextMux(mux_tx_seq_))
      <3>1. /\ Frame.seq + 1 \in Nat /\ tx_seq_' = tx_seq_ /\ cur <= opens /\ link' = link
            /\ UNCHANGED <<opens, local_port_, remote_port_, dev_state, dev_rcvd>>
            /\ to_dev' = to_dev \/ to_dev' = Append(to_dev, f)
            /\ link = "up"
        BY <2>2, <2>4 DEF OpenAckFails, OpenAnswered, Received
      <3>2. f \in HostFrames /\ f.conn = Conn(cur) /\ f.len = 0 /\ f.len <= MaxUnits
        <4>1. NextMux(mux_tx_seq_) \in 0 .. (MuxModulus - 1) /\ Conn(cur) \in Conns
          BY <1>0, ConnType, CounterTypes DEF TypeOK
        <4> QED
          BY <3>1, <4>1, MuxLinkAssumption DEF HostFrame, HostFrames, Flags
      <3> HIDE DEF f
      <3> QED
        BY <1>0, <3>1, <3>2 DEF SendShape
    <2> QED
      BY <1>2, <2>1, <2>3, <2>4 DEF OpenStep
  <1>3. CASE ReadStep
    <2>1. CASE ReadSkips \/ ReadReset \/ ReadTimesOut
      BY <1>1, <2>1 DEF ReadSkips, ReadReset, ReadTimesOut, ReceiveFails
    <2>2. CASE ReadTakes \/ ReadAckFails
      <3>1. ReadFrame
        BY <2>2 DEF ReadTakes, ReadAckFails
      <3>2. Frame \in DevFrames
        BY <3>1, ReceivedType DEF ReadFrame
      <3>3. AckOf(Frame) \in Nat /\ tx_seq_[cur] \in Nat
        BY <1>0, <3>2, LenProperties DEF DevFrames, AckOf, TypeOK
      <3>4. /\ cur <= opens /\ tx_seq_' = tx_seq_
            /\ UNCHANGED <<opens, local_port_, remote_port_, dev_state, dev_rcvd>>
        BY <1>0, <3>1 DEF ReadFrame, Reading
      <3>5. SendFails \/ Sent(Conn(cur), "ACK", tx_seq_[cur], AckOf(Frame), 0)
        BY <2>2 DEF ReadTakes, ReadAckFails
      <3> QED
        BY <1>0, <3>3, <3>4, <3>5, EmptySends DEF Flags
    <2> QED
      BY <1>3, <2>1, <2>2 DEF ReadStep
  <1>4. CASE WriteStep
    <2>1. CASE WriteFails
      BY <1>1, <2>1 DEF WriteFails, SendFails, SendShape
    <2>2. CASE WriteChunk
      <3> DEFINE chunk == Smaller(MaxPayload, want)
                 f == HostFrame(Conn(cur), "ACK", tx_seq_[cur], tx_ack_[cur], chunk, mux_tx_seq_)
      <3>1. op = "write" /\ want \in 1 .. MaxUnits
        BY <2>2 DEF WriteChunk, Wanted
      <3>2. chunk \in Nat /\ chunk > 0 /\ chunk <= MaxUnits
        BY <3>1, MuxLinkAssumption DEF Smaller
      <3>3. /\ f \in HostFrames /\ f.conn = Conn(cur) /\ f.len = chunk
            /\ f.flags = "ACK" /\ f.seq = tx_seq_[cur]
        BY <1>0, <3>2, ConnType DEF TypeOK, HostFrame, HostFrames, Flags
      <3>4. /\ link = "up" /\ link' = link /\ to_dev' = Append(to_dev, f)
            /\ tx_seq_' = [tx_seq_ EXCEPT ![cur] = @ + chunk]
            /\ UNCHANGED <<opens, local_port_, remote_port_, dev_state, dev_rcvd>>
        BY <2>2 DEF WriteChunk, Sent, SeqAfter
      <3> HIDE DEF f, chunk
      <3> QED
        BY <1>0, <3>1, <3>2, <3>3, <3>4 DEF SendShape
    <2> QED
      BY <1>4, <2>1, <2>2 DEF WriteStep
  <1>5. ASSUME NEW s \in Streams, Close(s)
        PROVE  SendShape
    <2>1. CASE UNCHANGED session
      BY <1>1, <1>5, <2>1 DEF Close
    <2>2. CASE SendFails \/ Sent(Conn(s), "RST", tx_seq_[s], tx_ack_[s], 0)
      <3>1. s <= opens
        BY <1>5, UsedWasOpened DEF Close
      <3> QED
        BY <1>5, <2>2, <3>1, EmptySends DEF Close, Flags, TypeOK
    <2> QED
      BY <1>5, <2>1, <2>2 DEF Close
  <1>6. CASE \E s \in Streams : \/ ReadAll(s)
                              \/ \E n \in 1 .. MaxUnits : ReadExact(s, n) \/ Write(s, n)
    BY <1>1, <1>6 DEF ReadAll, ReadExact, Write
  <1>7. CASE ConnClose \/ Drop
    BY <1>7 DEF ConnClose, Drop, SendShape
  <1> QED
    BY <1>2, <1>3, <1>4, <1>5, <1>6, <1>7 DEF HostCall, Continue

\* A frame more, that starts where the next one starts.
LEMMA PlacedAppend ==
    ASSUME TypeOK, NEW s \in Streams, NEW p, Placed(s, p), NEW y \in Nat,
           NEW f \in HostFrames, to_dev' = Append(to_dev, f),
           Conn(s)' = Conn(s), dev_rcvd' = dev_rcvd,
           Spans(f, Conn(s), p[Len(to_dev)], y),
           y = tx_seq_'[s], p[Len(to_dev)] <= y
    PROVE  \E q : Placed(s, q)'
  <1>1. to_dev \in Seq(HostFrames) /\ Len(to_dev) \in Nat
    BY LenProperties DEF TypeOK
  <1>2. PICK n \in Nat : n = Len(to_dev)
    BY <1>1
  <1>3. Rising(p, n) /\ p[n] <= y
    BY <1>2 DEF Placed
  <1>4. PICK q : /\ Rising(q, n + 1)
                 /\ q[0] = p[0] /\ q[n] = p[n] /\ q[n + 1] = y
                 /\ \A i \in 1 .. n : q[i] = p[i] /\ q[i - 1] = p[i - 1]
    <2>1. \E q : /\ Rising(q, n + 1)
                 /\ q[0] = p[0] /\ q[n] = p[n] /\ q[n + 1] = y
                 /\ \A i \in 1 .. n : q[i] = p[i] /\ q[i - 1] = p[i - 1]
      BY ONLY <1>3, n \in Nat, y \in Nat, Extend
    <2> QED
      BY ONLY <2>1
  <1>5. /\ Len(to_dev') = n + 1 /\ to_dev'[n + 1] = f
        /\ \A i \in 1 .. n : to_dev'[i] = to_dev[i]
    BY <1>1, <1>2, AppendFacts
  <1>6. ASSUME NEW i \in 1 .. Len(to_dev')
        PROVE  Spans(to_dev'[i], Conn(s), q[i - 1], q[i])
    <2>1. CASE i \in 1 .. n
      BY <1>2, <1>4, <1>5, <2>1 DEF Placed
    <2>2. CASE i = n + 1
      <3>1. i - 1 = n
        BY <2>2
      <3> QED
        BY <1>2, <1>4, <1>5, <2>2, <3>1
    <2> QED
      BY <1>5, <2>1, <2>2
  <1>7. /\ Rising(q, Len(to_dev')) /\ q[0] = dev_rcvd'[Conn(s)'] + 1
        /\ q[Len(to_dev')] = tx_seq_'[s]
    BY <1>2, <1>4, <1>5 DEF Placed
  <1>8. q[Len(to_dev')] <= tx_seq_'[s]
    BY <1>7
  <1>9. \A i \in 1 .. Len(to_dev') : Spans(to_dev'[i], Conn(s)', q[i - 1], q[i])
    BY <1>6
  <1> QED
    BY <1>7, <1>8, <1>9 DEF Placed, Spans, IsData

\* The first frame is gone.
LEMMA PlacedTail ==
    ASSUME TypeOK, NEW s \in Streams, NEW p, Placed(s, p),
           to_dev # <<>>, to_dev' = Tail(to_dev), UNCHANGED <<tx_seq_, link>>,
           Conn(s)' = Conn(s), dev_rcvd'[Conn(s)] + 1 = p[1]
    PROVE  \E q : Placed(s, q)'
  <1>1. to_dev \in Seq(HostFrames) /\ Len(to_dev) \in Nat
    BY LenProperties DEF TypeOK
  <1>2. PICK n \in Nat \ {0} : n = Len(to_dev)
    BY <1>1, EmptySeq
  <1>3. Rising(p, n)
    BY <1>2 DEF Placed
  <1>4. PICK q : /\ Rising(q, n - 1)
                 /\ q[0] = p[1] /\ q[n - 1] = p[n]
                 /\ \A i \in 1 .. (n - 1) : q[i] = p[i + 1] /\ q[i - 1] = p[i]
    BY <1>3, Shift
  <1>5. /\ Len(to_dev') = n - 1
        /\ \A i \in 1 .. (n - 1) : i + 1 \in 1 .. n /\ to_dev'[i] = to_dev[i + 1]
    BY <1>1, <1>2, TailFacts
  <1>6. \A i \in 1 .. Len(to_dev') : Spans(to_dev'[i], Conn(s)', q[i - 1], q[i])
    <2>1. ASSUME NEW i \in 1 .. (n - 1)
          PROVE  Spans(to_dev[i + 1], Conn(s), p[i], p[i + 1])
      <3>1. i + 1 \in 1 .. n /\ (i + 1) - 1 = i
        OBVIOUS
      <3> QED
        BY <1>2, <3>1 DEF Placed
    <2> QED
      BY <1>4, <1>5, <2>1
  <1>7. /\ Rising(q, Len(to_dev')) /\ q[0] = dev_rcvd'[Conn(s)'] + 1
        /\ q[Len(to_dev')] <= tx_seq_'[s] /\ (link' = "up" => q[Len(to_dev')] = tx_seq_'[s])
    BY <1>2, <1>4, <1>5 DEF Placed
  <1> QED
    BY <1>6, <1>7 DEF Placed, Spans, IsData

\* What was under way is lost, and the link with it.
LEMMA PlacedNone ==
    ASSUME TypeOK, NEW s \in Streams, NEW p, Placed(s, p),
           to_dev' = <<>>, link' # "up", UNCHANGED <<tx_seq_, dev_rcvd>>, Conn(s)' = Conn(s)
    PROVE  \E q : Placed(s, q)'
  <1>1. Len(to_dev) \in Nat /\ dev_rcvd[Conn(s)] \in Nat
    BY ConnType, LenProperties DEF TypeOK
  <1>2. PICK q : q = [i \in 0 .. 0 |-> p[0]]
    OBVIOUS
  <1>3. p[0] \in Nat /\ p[0] <= tx_seq_[s] /\ p[0] = dev_rcvd[Conn(s)] + 1
    <2>1. /\ Rising(p, Len(to_dev)) /\ p[Len(to_dev)] <= tx_seq_[s]
          /\ 0 \in 0 .. Len(to_dev) /\ Len(to_dev) \in 0 .. Len(to_dev)
          /\ p[0] = dev_rcvd[Conn(s)] + 1
      BY <1>1 DEF Placed
    <2>2. p[0] \in Nat /\ p[Len(to_dev)] \in Nat /\ p[0] <= p[Len(to_dev)]
      BY <1>1, <2>1 DEF Rising
    <2> QED
      BY <2>1, <2>2, SMTT(30) DEF TypeOK
  <1>4. Len(to_dev') = 0
    BY EmptySeq
  <1>5. q[0] = p[0] /\ q \in [0 .. 0 -> Nat]
    BY <1>2, <1>3
  <1>6. Rising(q, 0)
    BY <1>3, <1>5 DEF Rising
  <1> QED
    BY <1>3, <1>4, <1>5, <1>6 DEF Placed

\* What Stream::open writes is the SYN of a stream that nobody has used.
NewStream(new, c) ==
    /\ op = "idle" /\ new = opens + 1 /\ opens' = new
    /\ c = Conn(new)' /\ Fresh(c)
    /\ \A s \in Streams : s # new => Conn(s)' = Conn(s) /\ phase'[s] = phase[s]
    /\ phase[new] = "none" /\ phase'[new] \in {"opening", "failed"}
    /\ UNCHANGED <<stream, got, want, failed, link, device, to_host>>
    /\ \/ to_dev' = to_dev /\ UNCHANGED <<op, cur>>
       \/ /\ op' = "open" /\ cur' = new /\ link = "up"
          /\ \E f \in HostFrames : f.conn = c /\ f.flags = "SYN" /\ to_dev' = Append(to_dev, f)

\* OpenSyn makes a stream like that, while the ports last.
LEMMA OpenSynIsNew ==
    ASSUME TypeOK, Calling, PortsInOrder, NoWrap', NEW svc \in Services, OpenSyn(svc)
    PROVE  \E new \in Streams, c \in Conns : NewStream(new, c)
  <1> USE DEF vars, session, connection, names, stream, caller, device
  <1>1. opens + 1 \in Streams /\ opens \in Nat /\ opens' = opens + 1
    BY MuxLinkAssumption DEF OpenSyn, TypeOK, Streams
  <1>2. next_port_ = opens + 1 /\ <<next_port_, svc>> \in Conns
    BY <1>1, MuxLinkAssumption DEF PortsInOrder, NoWrap, TypeOK, Conns
  <1>3. PICK new \in Streams : new = opens + 1
    BY <1>1
  <1>4. PICK c \in Conns : c = <<next_port_, svc>>
    BY <1>2
  <1>5. Conn(new)' = c /\ \A s \in Streams : s # new => Conn(s)' = Conn(s)
    BY <1>3, <1>4 DEF OpenSyn, Conn, TypeOK
  <1>6. Fresh(c)
    BY <1>1, <1>2, <1>4 DEF Fresh
  <1>7. phase[new] = "none"
    BY <1>1, <1>3 DEF OpenSyn, Calling
  <1>8. HostFrame(c, "SYN", 0, 0, 0, mux_tx_seq_) \in HostFrames
        /\ HostFrame(c, "SYN", 0, 0, 0, mux_tx_seq_).conn = c
        /\ HostFrame(c, "SYN", 0, 0, 0, mux_tx_seq_).flags = "SYN"
    BY DEF TypeOK, HostFrame, HostFrames, Flags
  <1>9. /\ op = "idle" /\ \A s \in Streams : s # new => phase'[s] = phase[s]
        /\ phase'[new] \in {"opening", "failed"}
        /\ UNCHANGED <<stream, got, want, failed, link, device, to_host>>
        /\ \/ to_dev' = to_dev /\ UNCHANGED <<op, cur>>
           \/ /\ op' = "open" /\ cur' = new /\ link = "up"
              /\ to_dev' = Append(to_dev, HostFrame(c, "SYN", 0, 0, 0, mux_tx_seq_))
    BY <1>3, <1>4 DEF OpenSyn, Sent, SendFails, TypeOK
  <1> QED
    BY <1>1, <1>3, <1>5, <1>6, <1>7, <1>8, <1>9 DEF NewStream

\* At first there is nothing under way.
LEMMA InitChain == Init => Chain
  <1> SUFFICES ASSUME Init PROVE Chain
    OBVIOUS
  <1>1. \A s \in Streams : Conn(s) \in Conns
    BY InitType, ConnType
  <1>2. WrittenFirst
    BY <1>1 DEF Init, WrittenFirst
  <1> QED
    BY <1>2 DEF Init, Chain, OfStreams, HostChain, Streams

\* What the host sends is of its streams, each frame where the last one ended.
LEMMA CallKeepsChain ==
    ASSUME TypeOK, PortsInOrder, Chain, SendShape
    PROVE  Chain'
  <1>1. /\ to_dev \in Seq(HostFrames) /\ Len(to_dev) \in Nat
        /\ \A t \in Streams : Conn(t)' = Conn(t) /\ Conn(t) \in Conns
        /\ UNCHANGED <<opens, dev_state, dev_rcvd>>
    BY ConnType, LenProperties DEF TypeOK, SendShape, Conn
  <1>2. \A t \in Streams : tx_seq_'[t] \in Nat /\ tx_seq_[t] <= tx_seq_'[t] /\ tx_seq_[t] \in Nat
    <2>1. CASE tx_seq_' = tx_seq_
      BY <2>1 DEF TypeOK
    <2>2. ASSUME NEW s \in Streams, NEW f \in HostFrames, f.len > 0,
                 tx_seq_' = [tx_seq_ EXCEPT ![s] = @ + f.len]
          PROVE  \A t \in Streams : /\ tx_seq_'[t] \in Nat /\ tx_seq_[t] <= tx_seq_'[t]
                                     /\ tx_seq_[t] \in Nat
      <3>1. f.len \in Nat
        BY DEF HostFrames
      <3>2. \A t \in Streams : /\ tx_seq_[t] \in Nat
                               /\ tx_seq_'[t] = IF t = s THEN tx_seq_[t] + f.len ELSE tx_seq_[t]
        BY <2>2 DEF TypeOK
      <3> QED
        BY <3>1, <3>2
    <2> QED
      BY <2>1, <2>2 DEF SendShape
  <1>3. WrittenFirst'
    BY <1>1, <1>2, SMTT(30) DEF Chain, WrittenFirst, TypeOK
  <1>4. CASE UNCHANGED <<to_dev, tx_seq_>> /\ (link' = link \/ link' # "up")
    <2>1. OfStreams'
      BY <1>1, <1>4 DEF Chain, OfStreams
    <2>2. ASSUME NEW s \in Streams, s <= opens', dev_state'[Conn(s)'] # "reset"
          PROVE  \E p : Placed(s, p)'
      <3>1. PICK p : Placed(s, p)
        BY <1>1, <2>2 DEF Chain, HostChain
      <3>2. Placed(s, p)'
        BY <1>1, <1>4, <3>1 DEF Placed, Spans, IsData
      <3> QED
        BY <3>2
    <2> QED
      BY <1>3, <2>1, <2>2 DEF Chain, HostChain
  <1>5. CASE to_dev' = <<>> /\ link' # "up" /\ UNCHANGED tx_seq_
    <2>1. OfStreams'
      BY <1>5 DEF OfStreams
    <2>2. ASSUME NEW s \in Streams, s <= opens', dev_state'[Conn(s)'] # "reset"
          PROVE  \E p : Placed(s, p)'
      <3>1. PICK p : Placed(s, p)
        BY <1>1, <2>2 DEF Chain, HostChain
      <3> QED
        BY <1>1, <1>5, <3>1, PlacedNone
    <2> QED
      BY <1>3, <2>1, <2>2 DEF Chain, HostChain
  <1>6. ASSUME link = "up", link' = link, NEW t \in Streams, NEW f \in HostFrames,
               t <= opens, f.conn = Conn(t), f.len <= MaxUnits, to_dev' = Append(to_dev, f),
               \/ f.len = 0 /\ tx_seq_' = tx_seq_
               \/ /\ f.flags = "ACK" /\ f.len > 0 /\ f.seq = tx_seq_[t]
                  /\ tx_seq_' = [tx_seq_ EXCEPT ![t] = @ + f.len]
        PROVE  Chain'
    <2>1. OfStreams'
      <3>1. ASSUME NEW i \in 1 .. Len(to_dev')
            PROVE  /\ to_dev'[i].flags = "ACK" => to_dev'[i].len <= MaxUnits
                   /\ \E s \in Streams : s <= opens' /\ to_dev'[i].conn = Conn(s)'
        <4>1. \/ i \in 1 .. Len(to_dev) /\ to_dev'[i] = to_dev[i]
              \/ to_dev'[i] = f
          BY <1>1, <1>6, <3>1, AppendIndex
        <4> QED
          BY <1>1, <1>6, <4>1 DEF Chain, OfStreams
      <3> QED
        BY <3>1 DEF OfStreams
    <2>2. ASSUME NEW s \in Streams, s <= opens', dev_state'[Conn(s)'] # "reset"
          PROVE  \E p : Placed(s, p)'
      <3>1. PICK p : Placed(s, p)
        BY <1>1, <2>2 DEF Chain, HostChain
      <3>2. p[Len(to_dev)] = tx_seq_[s]
        BY <1>6, <3>1 DEF Placed
      <3>3. Spans(f, Conn(s), tx_seq_[s], tx_seq_'[s])
        <4>1. CASE s = t
          BY <1>6, <4>1 DEF Spans, IsData, TypeOK
        <4>2. CASE s # t
          <5>1. Conn(s) # Conn(t)
            BY <1>1, <1>6, <2>2, <4>2, OneStream
          <5> QED
            BY <1>6, <4>2, <5>1 DEF Spans, IsData, TypeOK
        <4> QED
          BY <4>1, <4>2
      <3>4. PICK y \in Nat : y = tx_seq_'[s]
        BY <1>2
      <3>5. Spans(f, Conn(s), p[Len(to_dev)], y) /\ p[Len(to_dev)] <= y
        BY <1>2, <3>2, <3>3, <3>4
      <3> QED
        BY <1>1, <1>6, <3>1, <3>4, <3>5, PlacedAppend
    <2> QED
      BY <1>3, <2>1, <2>2 DEF Chain, HostChain
  <1> QED
    BY <1>4, <1>5, <1>6 DEF SendShape

\* A new stream starts at the first unit, on both sides.
LEMMA SynKeepsChain ==
    ASSUME TypeOK, Unsaid, NoneYet, FreshUnused, Chain,
           NEW new \in Streams, NEW c \in Conns, NewStream(new, c)
    PROVE  Chain'
  <1> USE DEF vars, session, connection, names, stream, caller, device
  <1>1. /\ to_dev \in Seq(HostFrames) /\ Len(to_dev) \in Nat /\ opens \in Nat
        /\ \A s \in Streams : Conn(s) \in Conns
    <2>1. opens \in Nat
      BY MuxLinkAssumption DEF TypeOK
    <2> QED
      BY <2>1, ConnType, LenProperties DEF TypeOK
  <1>2. /\ dev_state[c] = "none" /\ dev_rcvd[c] = 0 /\ tx_seq_[new] = 1
        /\ \A i \in 1 .. Len(to_dev) : to_dev[i].conn # c
    BY DEF NewStream, FreshUnused, NoneYet, Unsaid
  <1>3. ASSUME NEW i \in 1 .. Len(to_dev')
        PROVE  \/ i \in 1 .. Len(to_dev) /\ to_dev'[i] = to_dev[i]
               \/ to_dev'[i].conn = c /\ to_dev'[i].flags = "SYN"
    <2>1. CASE to_dev' = to_dev
      BY <2>1
    <2>2. ASSUME NEW f \in HostFrames, f.conn = c, f.flags = "SYN", to_dev' = Append(to_dev, f)
          PROVE  <1>3!2
      BY <1>1, <2>2, AppendIndex
    <2> QED
      BY <2>1, <2>2 DEF NewStream
  <1>4. \A s \in Streams : s # new /\ s <= opens' => s <= opens
    BY <1>1 DEF NewStream, Streams
  <1>5. OfStreams'
    <2>1. ASSUME NEW i \in 1 .. Len(to_dev')
          PROVE  /\ to_dev'[i].flags = "ACK" => to_dev'[i].len <= MaxUnits
                 /\ \E s \in Streams : s <= opens' /\ to_dev'[i].conn = Conn(s)'
      <3>1. CASE i \in 1 .. Len(to_dev) /\ to_dev'[i] = to_dev[i]
        <4>1. PICK s \in Streams : s <= opens /\ to_dev[i].conn = Conn(s)
          BY <3>1 DEF Chain, OfStreams
        <4>2. s # new /\ s <= opens'
          BY <1>1, <4>1 DEF NewStream, Streams
        <4> QED
          BY <3>1, <4>1, <4>2 DEF NewStream, Chain, OfStreams
      <3>2. CASE to_dev'[i].conn = c /\ to_dev'[i].flags = "SYN"
        BY <1>1, <3>2 DEF NewStream
      <3> QED
        BY <1>3, <3>1, <3>2
    <2> QED
      BY <2>1 DEF OfStreams
  <1>6. WrittenFirst'
    BY <1>2 DEF NewStream, Chain, WrittenFirst
  <1>7. ASSUME NEW s \in Streams, s <= opens', dev_state'[Conn(s)'] # "reset"
        PROVE  \E p : Placed(s, p)'
    <2>1. CASE s = new
      <3>1. PICK n \in Nat : n = Len(to_dev')
        <4>1. Len(to_dev') \in Nat
          <5>1. to_dev' \in Seq(HostFrames)
            BY <1>1 DEF NewStream
          <5> QED
            BY <5>1, LenProperties
        <4> QED
          BY <4>1
      <3>2. PICK p : p = [i \in 0 .. n |-> 1]
        OBVIOUS
      <3>3. Rising(p, n) /\ p[0] = 1 /\ p[n] = 1 /\ \A i \in 1 .. n : p[i - 1] = 1 /\ p[i] = 1
        BY <3>2 DEF Rising
      <3>4. \A i \in 1 .. Len(to_dev') : ~IsData(to_dev'[i], c)
        BY <1>2, <1>3 DEF IsData
      <3>5. /\ Conn(s)' = c /\ tx_seq_'[s] = 1 /\ dev_rcvd'[c] = 0
        BY <1>2, <2>1 DEF NewStream
      <3>6. \A i \in 1 .. Len(to_dev') : Spans(to_dev'[i], Conn(s)', p[i - 1], p[i])
        BY <3>1, <3>3, <3>4, <3>5 DEF Spans
      <3> QED
        BY <3>1, <3>3, <3>5, <3>6 DEF Placed, Spans, IsData
    <2>2. CASE s # new
      <3>1. Conn(s)' = Conn(s) /\ s <= opens /\ UNCHANGED <<dev_state, dev_rcvd, tx_seq_, link>>
        BY <1>4, <1>7, <2>2 DEF NewStream
      <3>2. PICK p : Placed(s, p)
        BY <1>7, <3>1 DEF Chain, HostChain
      <3>3. CASE to_dev' = to_dev
        <4>1. Placed(s, p)'
          BY <3>1, <3>2, <3>3 DEF Placed, Spans, IsData
        <4> QED
          BY <4>1
      <3>4. ASSUME link = "up", NEW f \in HostFrames, f.flags = "SYN", to_dev' = Append(to_dev, f)
            PROVE  \E q : Placed(s, q)'
        <4>1. PICK y \in Nat : y = tx_seq_'[s]
          BY <3>1 DEF TypeOK
        <4>2. p[Len(to_dev)] = y
          BY <3>1, <3>2, <3>4, <4>1 DEF Placed
        <4>3. Spans(f, Conn(s), p[Len(to_dev)], y) /\ p[Len(to_dev)] <= y
          BY <3>4, <4>2 DEF Spans, IsData
        <4> QED
          BY <3>1, <3>2, <3>4, <4>1, <4>3, PlacedAppend
      <3> QED
        BY <3>3, <3>4 DEF NewStream
    <2> QED
      BY <2>1, <2>2
  <1> QED
    BY <1>5, <1>6, <1>7 DEF Chain, HostChain

\* The device takes a frame: data where the last data ended, or nothing that counts,
\* or it gives the connection up.
TurnShape ==
    LET f == to_dev[1]
        c == f.conn
    IN  /\ to_dev # <<>> /\ to_dev' = Tail(to_dev)
        /\ UNCHANGED <<opens, local_port_, remote_port_, tx_seq_, link>>
        /\ \A d \in Conns : d # c => dev_state'[d] = dev_state[d] /\ dev_rcvd'[d] = dev_rcvd[d]
        /\ \/ dev_state'[c] = "reset" /\ dev_rcvd'[c] = dev_rcvd[c]
           \/ /\ dev_state[c] # "reset" /\ IsData(f, c)
              /\ f.seq = dev_rcvd[c] + 1 /\ dev_rcvd'[c] = dev_rcvd[c] + f.len
           \/ dev_state[c] # "reset" /\ ~IsData(f, c) /\ dev_rcvd'[c] = dev_rcvd[c]

\* What the device does with the frame at the head has that shape.
LEMMA DevTurnShape ==
    ASSUME TypeOK, SynFirst, NoneYet, DevTurn
    PROVE  TurnShape
  <1> USE DEF vars, session, connection, names, stream, caller, device
  <1>1. DevTakes
    BY DEF DevTurn, DevSyn, DevRefuses, DevData, DevEnds
  <1>2. /\ to_dev # <<>> /\ to_dev' = Tail(to_dev)
        /\ UNCHANGED <<opens, local_port_, remote_port_, tx_seq_, link>>
    BY <1>1 DEF DevTakes
  <1>3. PICK f \in HostFrames : f = to_dev[1] /\ f = Head(to_dev)
    BY <1>2 DEF TypeOK
  <1>4. PICK c \in Conns : c = f.conn
    BY DEF HostFrames
  <1>5. f.len \in Nat /\ dev_rcvd[c] \in Nat
    BY DEF HostFrames, TypeOK
  <1>6. 1 \in 1 .. Len(to_dev)
    BY <1>2, EmptySeq, LenProperties DEF TypeOK
  <1>7. CASE DevSyn
    <2>1. dev_state[c] = "none" /\ f.flags = "SYN"
      BY <1>3, <1>4, <1>6, <1>7 DEF DevSyn, SynFirst
    <2>2. dev_rcvd[c] = 0
      BY <2>1 DEF NoneYet
    <2>3. /\ \A d \in Conns : d # c => dev_state'[d] = dev_state[d] /\ dev_rcvd'[d] = dev_rcvd[d]
          /\ dev_rcvd'[c] = dev_rcvd[c]
      BY <1>3, <1>4, <1>7, <2>2 DEF DevSyn, TypeOK
    <2> QED
      BY <1>2, <1>3, <1>4, <2>1, <2>3 DEF TurnShape, IsData
  <1>8. CASE DevRefuses
    <2>1. /\ \A d \in Conns : d # c => dev_state'[d] = dev_state[d] /\ dev_rcvd'[d] = dev_rcvd[d]
          /\ dev_state'[c] = "reset" /\ dev_rcvd'[c] = dev_rcvd[c]
      BY <1>3, <1>4, <1>8 DEF DevRefuses, TypeOK
    <2> QED
      BY <1>2, <1>3, <1>4, <2>1 DEF TurnShape
  <1>9. CASE DevData
    <2>1. /\ \A d \in Conns : d # c => dev_state'[d] = dev_state[d] /\ dev_rcvd'[d] = dev_rcvd[d]
          /\ dev_state[c] # "reset" /\ f.flags = "ACK" /\ dev_rcvd'[c] = dev_rcvd[c] + f.len
          /\ f.len > 0 => f.seq = dev_rcvd[c] + 1
      BY <1>3, <1>4, <1>9 DEF DevData, Live, TypeOK
    <2>2. CASE f.len > 0
      BY <1>2, <1>3, <1>4, <2>1, <2>2 DEF TurnShape, IsData
    <2>3. CASE ~(f.len > 0)
      <3>1. dev_rcvd'[c] = dev_rcvd[c]
        BY <1>5, <2>1, <2>3
      <3> QED
        BY <1>2, <1>3, <1>4, <2>1, <2>3, <3>1 DEF TurnShape, IsData
    <2> QED
      BY <2>2, <2>3
  <1>10. CASE DevEnds
    <2>1. /\ \A d \in Conns : d # c => dev_state'[d] = dev_state[d] /\ dev_rcvd'[d] = dev_rcvd[d]
          /\ dev_rcvd'[c] = dev_rcvd[c]
          /\ dev_state'[c] = IF Live(c) THEN "reset" ELSE dev_state[c]
          /\ f.flags = "RST" \/ f.len = 0
      BY <1>3, <1>4, <1>10 DEF DevEnds, TypeOK
    <2> QED
      BY <1>2, <1>3, <1>4, <1>5, <2>1 DEF TurnShape, IsData
  <1> QED
    BY <1>7, <1>8, <1>9, <1>10 DEF DevTurn

\* The device takes data where it stands in the chain.
LEMMA DeviceKeepsChain ==
    ASSUME TypeOK, PortsInOrder, FreshUnused, SynFirst, NoneYet, Chain, Device
    PROVE  Chain'
  <1> USE DEF vars, session, connection, names, stream, caller, device
  <1>1. CASE ~DevTurn
    <2>1. /\ UNCHANGED <<opens, local_port_, remote_port_, tx_seq_, link, to_dev, dev_rcvd>>
          /\ \A d \in Conns : dev_state'[d] # "reset" => dev_state[d] # "reset"
      BY <1>1 DEF Device, DevControl, DevReset, DevSend, TypeOK
    <2>2. \A s \in Streams : Conn(s)' = Conn(s) /\ Conn(s) \in Conns
      BY <2>1, ConnType DEF Conn
    <2>3. OfStreams' /\ WrittenFirst'
      BY <2>1, <2>2 DEF Chain, OfStreams, WrittenFirst
    <2>4. ASSUME NEW s \in Streams, s <= opens', dev_state'[Conn(s)'] # "reset"
          PROVE  \E p : Placed(s, p)'
      <3>1. PICK p : Placed(s, p)
        BY <2>1, <2>2, <2>4 DEF Chain, HostChain
      <3>2. Placed(s, p)'
        BY <2>1, <2>2, <3>1 DEF Placed, Spans, IsData
      <3> QED
        BY <3>2
    <2> QED
      BY <2>3, <2>4 DEF Chain, HostChain
  <1>2. CASE DevTurn
    <2>1. TurnShape
      BY <1>2, DevTurnShape
    <2>2. PICK f \in HostFrames : f = to_dev[1]
      BY <2>1 DEF TurnShape, TypeOK
    <2>3. PICK c \in Conns : c = f.conn
      BY DEF HostFrames
    <2>4. /\ to_dev \in Seq(HostFrames) /\ Len(to_dev) \in Nat /\ 1 \in 1 .. Len(to_dev)
          /\ f.len \in Nat
      BY <2>1, EmptySeq, LenProperties DEF TurnShape, TypeOK, HostFrames
    <2>5. /\ to_dev # <<>> /\ to_dev' = Tail(to_dev)
          /\ UNCHANGED <<opens, local_port_, remote_port_, tx_seq_, link>>
          /\ \A d \in Conns : d # c => dev_state'[d] = dev_state[d] /\ dev_rcvd'[d] = dev_rcvd[d]
          /\ \/ dev_state'[c] = "reset" /\ dev_rcvd'[c] = dev_rcvd[c]
             \/ /\ dev_state[c] # "reset" /\ IsData(f, c)
                /\ f.seq = dev_rcvd[c] + 1 /\ dev_rcvd'[c] = dev_rcvd[c] + f.len
             \/ dev_state[c] # "reset" /\ ~IsData(f, c) /\ dev_rcvd'[c] = dev_rcvd[c]
      BY <2>1, <2>2, <2>3 DEF TurnShape
    <2>6. \A s \in Streams : /\ Conn(s)' = Conn(s) /\ Conn(s) \in Conns
                             /\ dev_rcvd[Conn(s)] \in Nat /\ tx_seq_[s] \in Nat
      BY <2>5, ConnType DEF Conn, TypeOK
    <2>7. OfStreams'
      <3>1. \A i \in 1 .. Len(to_dev') : i + 1 \in 1 .. Len(to_dev) /\ to_dev'[i] = to_dev[i + 1]
        BY <2>4, <2>5, TailFacts
      <3> QED
        BY <2>5, <2>6, <3>1 DEF Chain, OfStreams
    \* What is taken is where the chain of its stream begins.
    <2>8. ASSUME NEW s \in Streams, s <= opens, NEW p, Placed(s, p),
                 c = Conn(s) => dev_state[c] # "reset"
          PROVE  dev_state'[Conn(s)] = "reset" \/ dev_rcvd'[Conn(s)] + 1 = p[1]
      <3>1. /\ Spans(f, Conn(s), p[0], p[1]) /\ p[0] = dev_rcvd[Conn(s)] + 1
        <4>1. Spans(to_dev[1], Conn(s), p[1 - 1], p[1])
          BY <2>4, <2>8 DEF Placed
        <4> QED
          BY <2>2, <2>8, <4>1 DEF Placed
      <3>2. CASE Conn(s) # c
        BY <2>3, <2>5, <2>6, <3>1, <3>2 DEF Spans, IsData
      <3>3. CASE Conn(s) = c /\ IsData(f, c) /\ dev_rcvd'[c] = dev_rcvd[c] + f.len
        <4>1. p[1] = p[0] + f.len
          BY <3>1, <3>3 DEF Spans
        <4>2. dev_rcvd[c] \in Nat /\ f.len \in Nat /\ p[0] = dev_rcvd[c] + 1
          BY <2>4, <2>6, <3>1, <3>3
        <4>3. dev_rcvd[c] + f.len + 1 = p[1]
          BY ONLY <4>1, <4>2
        <4> QED
          BY <3>3, <4>3
      <3>4. CASE Conn(s) = c /\ ~IsData(f, c) /\ dev_rcvd'[c] = dev_rcvd[c]
        BY <2>6, <3>1, <3>4 DEF Spans
      <3> QED
        BY <2>5, <3>2, <3>3, <3>4
    <2>9. ASSUME NEW s \in Streams, s <= opens', dev_state'[Conn(s)'] # "reset"
          PROVE  \E p : Placed(s, p)'
      <3>1. dev_state[Conn(s)] # "reset" /\ s <= opens
        BY <2>5, <2>6, <2>9
      <3>2. PICK p : Placed(s, p)
        BY <3>1 DEF Chain, HostChain
      <3>3. dev_rcvd'[Conn(s)] + 1 = p[1]
        BY <2>6, <2>8, <2>9, <3>1, <3>2
      <3> QED
        BY <2>5, <2>6, <3>2, <3>3, PlacedTail
    <2>10. WrittenFirst'
      <3>1. ASSUME NEW s \in Streams
            PROVE  dev_rcvd'[Conn(s)] < tx_seq_[s]
        <4>1. CASE dev_rcvd'[Conn(s)] = dev_rcvd[Conn(s)]
          BY <2>6, <4>1 DEF Chain, WrittenFirst
        <4>2. CASE dev_rcvd'[Conn(s)] # dev_rcvd[Conn(s)]
          <5>1. c = Conn(s) /\ dev_state[c] # "reset" /\ IsData(f, c) /\ f.seq = dev_rcvd[c] + 1
                /\ dev_rcvd'[c] = dev_rcvd[c] + f.len
            BY <2>5, <2>6, <4>2
          <5>2. s <= opens
            <6>1. ~Fresh(c)
              BY <2>2, <2>3, <2>4 DEF FreshUnused
            <6>2. CASE s > opens
              <7>1. c[1] = 0
                BY <5>1, <6>2 DEF PortsInOrder, Conn
              <7> QED
                BY <6>1, <7>1, MuxLinkAssumption DEF Fresh, TypeOK
            <6> QED
              BY <6>2, MuxLinkAssumption DEF TypeOK, Streams
          <5>3. PICK p : Placed(s, p)
            BY <5>1, <5>2 DEF Chain, HostChain
          <5>4. PICK n \in Nat : n = Len(to_dev) /\ n >= 1
            BY <2>4
          <5>5. p[1] = p[0] + f.len /\ p[0] = dev_rcvd[c] + 1
            <6>1. Spans(to_dev[1], Conn(s), p[1 - 1], p[1])
              BY <2>4, <5>3 DEF Placed
            <6> QED
              BY <2>2, <5>1, <5>3, <6>1 DEF Placed, Spans
          <5>6. p[1] <= p[n] /\ p[1] \in Nat /\ p[n] \in Nat /\ p[n] <= tx_seq_[s]
            <6>1. Rising(p, n) /\ p[n] <= tx_seq_[s] /\ 1 \in 0 .. n /\ n \in 0 .. n
              BY <5>3, <5>4 DEF Placed
            <6> QED
              BY <6>1 DEF Rising
          <5>7. dev_rcvd[c] \in Nat /\ tx_seq_[s] \in Nat
            BY <2>6, <5>1
          <5> QED
            BY <2>4, <5>1, <5>5, <5>6, <5>7
        <4> QED
          BY <4>1, <4>2
      <3> QED
        BY <2>5, <2>6, <3>1 DEF WrittenFirst
    <2> QED
      BY <2>7, <2>9, <2>10 DEF Chain, HostChain
  <1> QED
    BY <1>1, <1>2

\* The invariant holds at first.
LEMMA InitSInv == Init => SInv
  <1> SUFFICES ASSUME Init PROVE SInv
    OBVIOUS
  <1>1. \A s \in Streams : Heard(s) = <<>>
    BY ConcatEmptySeq, EmptySeq DEF Init, Heard
  <1>2. Calls
    BY <1>1 DEF Init, Calls, Unsaid, OneOpening, Begun, Wanted, Streams
  <1>3. Sends
    <2>1. 1 = NextMux(0)
      BY MuxLinkAssumption DEF NextMux
    <2> QED
      BY <2>1 DEF Init, Sends, Numbered, NoneYet
  <1> QED
    BY <1>2, <1>3, InitChain DEF SInv

\* SInv is inductive, given the invariants of MuxLinkProofs.
LEMMA NextSInv == TypeOK /\ IInv /\ Calling /\ SInv /\ [Next]_vars => SInv'
  <1> SUFFICES ASSUME TypeOK, IInv, Calling, SInv, [Next]_vars PROVE SInv'
    OBVIOUS
  <1>1. Calls' /\ Sends'
    BY UnsaidKept, OneOpeningKept, BegunKept, WantedKept, NumberedKept, NoneYetKept
       DEF SInv, Calls, Sends
  <1>2. ASSUME NoWrap'
        PROVE  Chain'
    <2>1. NoWrap
      <3>1. opens \in Nat /\ (opens' = opens \/ opens' = opens + 1)
        <4>1. CASE \E svc \in Services : OpenSyn(svc)
          BY <4>1, MuxLinkAssumption DEF OpenSyn, TypeOK
        <4>2. CASE HostCall
          <5>1. UNCHANGED opens
            BY <4>2 DEF HostCall, Continue, OpenStep, ReadStep, WriteStep, OpenSkips, OpenRefused,
                OpenTimesOut, OpenSucceeds, OpenAckFails, OpenAnswered, ReadExact, ReadAll, ReadSkips,
                ReadReset, ReadTakes, ReadAckFails, ReadTimesOut, ReadFrame, Write, WriteChunk,
                WriteFails, Close, ConnClose, Drop, connection
          <5> QED
            BY <5>1, MuxLinkAssumption DEF TypeOK
        <4>3. CASE Device \/ UNCHANGED vars
          <5>1. UNCHANGED opens
            BY <4>3, DeviceLeavesHost DEF vars, connection
          <5> QED
            BY <5>1, MuxLinkAssumption DEF TypeOK
        <4> QED
          BY <4>1, <4>2, <4>3 DEF Next, Call, HostCall
      <3> QED
        BY <1>2, <3>1, MuxLinkAssumption DEF NoWrap
    <2>2. PortsInOrder /\ FreshUnused /\ SynFirst /\ Chain /\ Unsaid /\ Wanted /\ NoneYet
      BY <2>1 DEF IInv, Wires, SInv, Calls, Sends
    <2>3. CASE HostCall
      BY <2>2, <2>3, CallSends, CallKeepsChain
    <2>4. ASSUME NEW svc \in Services, OpenSyn(svc)
          PROVE  Chain'
      BY <1>2, <2>2, <2>4, OpenSynIsNew, SynKeepsChain
    <2>5. CASE Device
      BY <2>2, <2>5, DeviceKeepsChain
    <2>6. CASE UNCHANGED vars
      <3>1. SendShape
        BY <2>6 DEF SendShape, vars, session, connection, names, stream, device
      <3> QED
        BY <2>2, <3>1, CallKeepsChain
    <2> QED
      BY <2>3, <2>4, <2>5, <2>6 DEF Next, Call, HostCall
  <1> QED
    BY <1>1, <1>2 DEF SInv

\* It has the two properties of the numbers.
LEMMA SInvImplies == TypeOK /\ SInv => HostSeqContiguous /\ MuxSeqAdvances
  <1> SUFFICES ASSUME TypeOK, SInv PROVE HostSeqContiguous /\ MuxSeqAdvances
    OBVIOUS
  <1>1. ASSUME to_dev # <<>>
        PROVE  Head(to_dev) = to_dev[1] /\ 1 \in 1 .. Len(to_dev) /\ Len(to_dev) \in Nat
    BY <1>1, EmptySeq, LenProperties DEF TypeOK
  <1>2. MuxSeqAdvances
    BY <1>1 DEF MuxSeqAdvances, SInv, Sends, Numbered
  <1>3. ASSUME NoWrap, to_dev # <<>>, Head(to_dev).flags = "ACK", Head(to_dev).len > 0,
               Live(Head(to_dev).conn)
        PROVE  Head(to_dev).seq = dev_rcvd[Head(to_dev).conn] + 1
    <2>1. PICK s \in Streams : s <= opens /\ to_dev[1].conn = Conn(s)
      BY <1>1, <1>3 DEF SInv, Chain, OfStreams
    <2>2. PICK p : Placed(s, p)
      BY <1>1, <1>3, <2>1 DEF SInv, Chain, HostChain, Live
    <2>3. Spans(to_dev[1], Conn(s), p[1 - 1], p[1])
      BY <1>1, <1>3, <2>2 DEF Placed
    <2> QED
      BY <1>1, <1>3, <2>1, <2>2, <2>3 DEF Placed, Spans, IsData
  <1>4. HostSeqContiguous
    BY <1>3 DEF HostSeqContiguous
  <1> QED
    BY <1>2, <1>4
-----------------------------------------------------------------------------
(* The invariant of the acknowledgements.                                  *)

\* A stream whose caller can still read.
Listening(s) == phase[s] = "open" /\ ~failed[s]

\* On a mux that carries one service at a time a call never finds another stream
\* with an answer owed to it, and a service sends no more than it was asked for.
Discipline ==
    op # "idle" =>
        /\ op # "read_all"
        /\ ~failed[cur]
        /\ \A t \in Streams \ {cur} : phase[t] = "open" => Quiet(t)

\* The device answers with no more than it took.
SentWithin == \A c \in Conns : dev_sent[c] <= dev_rcvd[c]

\* What open waits for is the first frame of its connection, and it is empty.
Answering ==
    op = "open" =>
        /\ dev_state[Conn(cur)] \in {"none", "synrcvd"}
        /\ \A i \in 1 .. Len(to_dev) : to_dev[i].conn = Conn(cur) => to_dev[i].flags = "SYN"
        /\ \A j \in 1 .. Len(to_host) : to_host[j].conn = Conn(cur) =>
               /\ to_host[j].seq = 0 /\ to_host[j].data = <<>>
               /\ \A i \in 1 .. (j - 1) : to_host[i].conn # Conn(cur)

\* The stream of a SYN that is under way is not open yet.
SynPhase ==
    \A i \in 1 .. Len(to_dev) : to_dev[i].flags = "SYN" =>
        \A s \in Streams : s <= opens /\ to_dev[i].conn = Conn(s) =>
            phase[s] \in {"opening", "failed"}

\* Frame f, of connection c or not, starts at unit a, and the next one at b.
Told(f, c, a, b) == IF f.conn = c THEN f.seq = a /\ b = a + Len(f.data) ELSE b = a

\* The starts p of the frames to the host, from what was heard to what was sent.
Owing(s, p) ==
    /\ Rising(p, Len(to_host))
    /\ p[0] = Len(Heard(s)) + 1
    /\ \A i \in 1 .. Len(to_host) : Told(to_host[i], Conn(s), p[i - 1], p[i])
    /\ p[Len(to_host)] = dev_sent[Conn(s)] + 1

\* Whatever a stream is owed is under way.
DevChain ==
    link = "up" => \A s \in Streams : Listening(s) => \E p : Owing(s, p)

\* What is acknowledged has been heard.
AckHeard == \A s \in Streams : Listening(s) => tx_ack_[s] = Len(Heard(s)) + 1

\* A stream heard the first units of its connection, and all of them up to there.
InTurn ==
    \A s \in Streams : \A k \in 1 .. Len(Heard(s)) : Heard(s)[k] = <<Conn(s), k>>

\* The conjuncts of the invariant, and under what each holds.
Asked     == Answering /\ SynPhase
Mannered  == Discipline /\ SentWithin
Attentive == DevChain /\ AckHeard /\ InTurn
OInv ==
    /\ NoWrap => Asked
    /\ OneAtATime => Mannered
    /\ OneAtATime /\ NoWrap => Attentive
-----------------------------------------------------------------------------
(* The manners of the caller and of the device.                            *)

\* A call begins when the other streams are quiet, and disturbs none of them.
LEMMA DisciplineKept ==
    TypeOK /\ Calling /\ Unsaid /\ OneAtATime /\ Discipline /\ [Next]_vars => Discipline'
  <1> SUFFICES ASSUME TypeOK, Calling, Unsaid, OneAtATime, Discipline, [Next]_vars,
                      op' # "idle"
               PROVE  Discipline'
    BY DEF Discipline
  <1> USE DEF vars, session, connection, names, stream, caller, device
  <1>0. cur \in Streams
    BY DEF TypeOK
  \* A call that goes on is that of the same stream.
  <1>1. ASSUME NEW me \in Streams, me = cur, op # "idle", op' = op, cur' = me,
               failed'[me] = failed[me],
               \A t \in Streams \ {me} : /\ phase'[t] = phase[t] /\ failed'[t] = failed[t]
                                         /\ got'[t] = got[t] /\ tx_seq_'[t] = tx_seq_[t]
        PROVE  Discipline'
    <2>1. op # "read_all" /\ ~failed[me] /\ \A t \in Streams \ {me} : phase[t] = "open" => Quiet(t)
      BY <1>1 DEF Discipline
    <2> QED
      BY <1>1, <2>1 DEF Discipline, Quiet
  \* A call that begins found the others quiet.
  <1>2. ASSUME NEW me \in Streams, cur' = me, op' # "read_all", ~failed[me], failed' = failed,
               \A t \in Streams \ {me} : phase[t] = "open" => Quiet(t),
               \A t \in Streams \ {me} : /\ phase'[t] = phase[t]
                                         /\ got'[t] = got[t] /\ tx_seq_'[t] = tx_seq_[t]
        PROVE  Discipline'
    BY <1>2 DEF Discipline, Quiet
  <1>3. CASE UNCHANGED <<op, cur, failed, phase, got, tx_seq_>>
    BY <1>3, <1>0 DEF Discipline, Quiet
  <1>4. CASE \E svc \in Services : OpenSyn(svc)
    <2>1. PICK svc \in Services : OpenSyn(svc)
      BY <1>4
    <2>2. PICK new \in Streams : new = opens + 1
      BY <2>1, MuxLinkAssumption DEF OpenSyn, TypeOK, Streams
    <2>3. phase[new] = "none" /\ ~failed[new]
      <3>1. new > opens
        BY <2>2, MuxLinkAssumption DEF TypeOK
      <3>2. phase[new] = "none"
        BY <3>1 DEF Calling
      <3> QED
        BY <3>2 DEF Unsaid
    <2>4. /\ op' = "open" /\ cur' = new /\ failed' = failed /\ UNCHANGED <<got, tx_seq_>>
          /\ \A t \in Streams \ {new} : phase'[t] = phase[t]
          /\ \A t \in Streams \ {new} : phase[t] = "open" => Quiet(t)
      BY <2>1, <2>2 DEF OpenSyn, MayUse, TypeOK
    <2> QED
      BY <1>2, <2>3, <2>4
  <1>5. ASSUME NEW s \in Streams, NEW n \in 1 .. MaxUnits, ReadExact(s, n)
        PROVE  Discipline'
    <2>1. op = "idle" /\ ~failed[s] /\ \A t \in Streams \ {s} : phase[t] = "open" => Quiet(t)
      BY <1>5 DEF ReadExact, MayCall, MayUse
    <2>2. op' = "read" /\ cur' = s
      BY <1>5, <2>1 DEF ReadExact
    <2>3. UNCHANGED <<phase, failed, tx_seq_>> /\ \A t \in Streams \ {s} : got'[t] = got[t]
      BY <1>5 DEF ReadExact, HandOut, TypeOK
    <2> QED
      BY <1>2, <2>1, <2>2, <2>3
  <1>6. ASSUME NEW s \in Streams, NEW n \in 1 .. MaxUnits, Write(s, n)
        PROVE  Discipline'
    <2>1. ~failed[s] /\ \A t \in Streams \ {s} : phase[t] = "open" => Quiet(t)
      BY <1>6 DEF Write, MayCall, MayUse
    <2>2. op' = "write" /\ cur' = s /\ UNCHANGED <<phase, failed, tx_seq_, got>>
      BY <1>6 DEF Write
    <2> QED
      BY <1>2, <2>1, <2>2
  <1>7. CASE OpenStep
    BY <1>3, <1>7 DEF OpenStep, OpenSkips, OpenRefused, OpenTimesOut, OpenSucceeds, OpenAckFails,
       OpenGivesUp, Return
  <1>8. CASE ReadStep
    <2>1. CASE ReadSkips
      BY <1>3, <2>1 DEF ReadSkips
    <2>2. CASE ReadReset \/ ReadAckFails \/ ReadTimesOut
      BY <2>2 DEF ReadReset, ReadAckFails, ReadTimesOut, Fail, Return
    <2>3. CASE ReadTakes
      <3>1. PICK me \in Streams : me = cur
        BY <1>0
      <3>2. op # "idle" /\ op' = op /\ cur' = me /\ UNCHANGED <<phase, failed, tx_seq_>>
        BY <2>3, <3>1 DEF ReadTakes, ReadFrame, Reading, Return
      <3>3. \A t \in Streams \ {me} : got'[t] = got[t]
        BY <2>3, <3>1 DEF ReadTakes, HandOut, TypeOK
      <3> QED
        BY <1>1, <3>1, <3>2, <3>3
    <2> QED
      BY <1>8, <2>1, <2>2, <2>3 DEF ReadStep
  <1>9. CASE WriteStep
    <2>1. WriteChunk
      BY <1>9 DEF WriteStep, WriteFails, Fail, Return
    <2>2. PICK me \in Streams : me = cur
      BY <1>0
    <2>3. op # "idle" /\ op' = op /\ cur' = me /\ UNCHANGED <<phase, failed, got>>
      BY <2>1, <2>2 DEF WriteChunk, Return
    <2>4. \A t \in Streams \ {me} : tx_seq_'[t] = tx_seq_[t]
      BY <2>1, <2>2 DEF WriteChunk, TypeOK
    <2> QED
      BY <1>1, <2>2, <2>3, <2>4
  <1>10. CASE (\E s \in Streams : ReadAll(s) \/ Close(s)) \/ ConnClose
    BY <1>10 DEF ReadAll, Close, ConnClose
  <1>11. CASE Drop \/ Device \/ UNCHANGED vars
    BY <1>3, <1>11 DEF Drop, Device, DevTurn, DevSyn, DevRefuses, DevData, DevEnds, DevTakes,
       DevSend, DevReset, DevControl
  <1> QED
    BY <1>4, <1>5, <1>6, <1>7, <1>8, <1>9, <1>10, <1>11 DEF Next, Call, Continue

\* A service that only answers sends no more than it took.
LEMMA SentWithinKept == TypeOK /\ OneAtATime /\ SentWithin /\ [Next]_vars => SentWithin'
  <1> SUFFICES ASSUME TypeOK, OneAtATime, SentWithin, [Next]_vars PROVE SentWithin'
    OBVIOUS
  <1> USE DEF vars, session, connection, names, stream, caller, device
  <1>1. CASE UNCHANGED <<dev_rcvd, dev_sent>>
    BY <1>1 DEF SentWithin
  <1>2. CASE DevSyn \/ DevData
    <2>1. to_dev # <<>>
      BY <1>2 DEF DevSyn, DevData, DevTakes
    <2>2. PICK f \in HostFrames : f = Head(to_dev)
      BY <2>1 DEF TypeOK
    <2>3. PICK c \in Conns : c = f.conn
      BY DEF HostFrames
    <2>4. \A d \in Conns : d # c => dev_rcvd'[d] = dev_rcvd[d] /\ dev_sent'[d] = dev_sent[d]
      BY <1>2, <2>2, <2>3 DEF DevSyn, DevData, TypeOK
    <2>5. \/ dev_rcvd'[c] = dev_rcvd[c] /\ dev_sent'[c] = dev_sent[c]
          \/ dev_rcvd'[c] = 0 /\ dev_sent'[c] = 0
          \/ dev_rcvd'[c] = dev_rcvd[c] + f.len /\ dev_sent'[c] = dev_sent[c]
      BY <1>2, <2>2, <2>3 DEF DevSyn, DevData, TypeOK
    <2>6. f.len \in Nat /\ dev_rcvd[c] \in Nat /\ dev_sent[c] \in Nat
      BY DEF HostFrames, TypeOK
    <2>7. dev_sent'[c] <= dev_rcvd'[c]
      BY <2>5, <2>6 DEF SentWithin
    <2> QED
      BY <2>4, <2>7 DEF SentWithin
  <1>3. ASSUME NEW c \in Conns, NEW n \in 1 .. MaxUnits, DevSend(c, n)
        PROVE  SentWithin'
    <2>1. dev_sent'[c] <= dev_rcvd[c] /\ dev_rcvd' = dev_rcvd
      BY <1>3 DEF DevSend, TypeOK
    <2>2. \A d \in Conns : d # c => dev_sent'[d] = dev_sent[d]
      BY <1>3 DEF DevSend, TypeOK
    <2> QED
      BY <2>1, <2>2 DEF SentWithin
  <1>4. CASE Continue \/ Call \/ Drop \/ UNCHANGED vars
    <2>1. UNCHANGED <<dev_rcvd, dev_sent>>
      BY <1>4 DEF Continue, Call, OpenStep, ReadStep, WriteStep, Drop, OpenSyn, OpenSkips,
          OpenRefused, OpenTimesOut, OpenSucceeds, OpenAckFails, OpenAnswered, ReadExact, ReadAll,
          ReadSkips, ReadReset, ReadTakes, ReadAckFails, ReadTimesOut, ReadFrame, Write, WriteChunk,
          WriteFails, Close, ConnClose
    <2> QED
      BY <1>1, <2>1
  <1>5. CASE DevRefuses \/ DevEnds \/ DevControl \/ \E c \in Conns : DevReset(c)
    BY <1>1, <1>5 DEF DevRefuses, DevEnds, DevControl, DevReset
  <1> QED
    BY <1>2, <1>3, <1>4, <1>5 DEF Next, Device, DevTurn
-----------------------------------------------------------------------------
(* What open waits for.                                                    *)

\* What the device does is about one connection: it answers a SYN, or it speaks
\* with the next number of a connection that is past that.
SynTurn(c) ==
    /\ to_dev # <<>> /\ to_dev' = Tail(to_dev)
    /\ to_dev[1].conn = c /\ to_dev[1].flags = "SYN"
    /\ dev_state[c] = "none" /\ dev_state'[c] \in {"none", "synrcvd"}
    /\ \A d \in Conns : d # c => dev_state'[d] = dev_state[d]
    /\ dev_sent' = dev_sent
    /\ \/ to_host' = to_host
       \/ \E f \in DevFrames :
              f.conn = c /\ f.seq = 0 /\ f.data = <<>> /\ to_host' = Append(to_host, f)

\* A frame or an answer of a connection past its SYN.
LateTurn(c) ==
    /\ \/ to_dev' = to_dev /\ (c \in Conns => dev_state[c] = "est")
       \/ to_dev # <<>> /\ to_dev' = Tail(to_dev)
          /\ to_dev[1].conn = c /\ to_dev[1].flags # "SYN"
    /\ \A d \in Conns : d # c => dev_state'[d] = dev_state[d] /\ dev_sent'[d] = dev_sent[d]
    /\ \/ to_host' = to_host /\ dev_sent' = dev_sent
       \/ \E f \in DevFrames :
              /\ f.conn = c /\ to_host' = Append(to_host, f)
              /\ c \in Conns => /\ f.seq = dev_sent[c] + 1
                                /\ dev_sent'[c] = dev_sent[c] + Len(f.data)

\* An answer without payload is a frame of the device.
LEMMA EmptyAnswer ==
    ASSUME NEW c \in Conns \cup {NoConn}, NEW flags \in Flags, NEW seq \in Nat
    PROVE  /\ DevFrame(c, flags, seq, <<>>) \in DevFrames
           /\ DevFrame(c, flags, seq, <<>>).conn = c
           /\ DevFrame(c, flags, seq, <<>>).seq = seq
           /\ DevFrame(c, flags, seq, <<>>).data = <<>>
  <1>1. <<>> \in Seq(Units)
    BY EmptySeq
  <1> QED
    BY <1>1 DEF DevFrame, DevFrames

\* Every step of the device is one of the two.
LEMMA DeviceTurns ==
    ASSUME TypeOK, SynFirst, NoneYet, Device
    PROVE  (\E c \in Conns : SynTurn(c)) \/ (\E c \in Conns \cup {NoConn} : LateTurn(c))
  <1> USE DEF vars, session, connection, names, stream, caller, device
  <1>0. \A d \in Conns : /\ dev_sent[d] \in Nat /\ dev_sent[d] + 1 \in Nat
                         /\ dev_sent[d] + 0 = dev_sent[d]
    BY DEF TypeOK
  <1>1. ASSUME NEW c \in Conns, to_dev # <<>>, c = to_dev[1].conn, Head(to_dev) = to_dev[1],
               DevTurn
        PROVE  SynTurn(c) \/ LateTurn(c)
    <2>1. 1 \in 1 .. Len(to_dev) /\ to_dev' = Tail(to_dev)
      BY <1>1, EmptySeq, LenProperties, SMTT(30)
         DEF TypeOK, DevTurn, DevSyn, DevRefuses, DevData, DevEnds, DevTakes
    <2>2. CASE DevSyn
      <3>1. dev_state[c] = "none" /\ to_dev[1].flags = "SYN"
        BY <1>1, <2>1, <2>2 DEF DevSyn, SynFirst
      <3>2. dev_sent[c] = 0
        BY <3>1 DEF NoneYet
      <3>3. dev_sent' = dev_sent
        BY <1>1, <2>2, <3>2 DEF DevSyn, TypeOK
      <3>4. /\ dev_state'[c] \in {"none", "synrcvd"}
            /\ \A d \in Conns : d # c => dev_state'[d] = dev_state[d]
        BY <1>1, <2>2, <3>1 DEF DevSyn, TypeOK
      <3>5. \E flags \in Flags : Answers(DevFrame(c, flags, 0, <<>>))
        BY <1>1, <2>2 DEF DevSyn, Flags
      <3>6. \/ to_host' = to_host
            \/ \E f \in DevFrames :
                   f.conn = c /\ f.seq = 0 /\ f.data = <<>> /\ to_host' = Append(to_host, f)
        BY <3>5, EmptyAnswer DEF Answers
      <3> QED
        BY <1>1, <2>1, <3>1, <3>3, <3>4, <3>6 DEF SynTurn
    <2>3. CASE DevRefuses \/ DevData \/ DevEnds
      <3>1. to_dev[1].flags # "SYN"
        <4>1. to_dev[1].flags = "SYN" => ~Live(c)
          BY <1>1, <2>1 DEF SynFirst, Live
        <4> QED
          BY <1>1, <2>3, <4>1 DEF DevRefuses, DevData, DevEnds
      <3>2. /\ dev_sent' = dev_sent
            /\ \A d \in Conns : d # c => dev_state'[d] = dev_state[d]
        BY <1>1, <2>3 DEF DevRefuses, DevData, DevEnds, TypeOK
      <3>3. to_host' = to_host \/ \E flags \in Flags : Answers(DevFrame(c, flags, dev_sent[c] + 1, <<>>))
        BY <1>1, <2>3 DEF DevRefuses, DevData, DevEnds, Flags
      <3>4. \/ to_host' = to_host
            \/ \E f \in DevFrames : /\ f.conn = c /\ f.seq = dev_sent[c] + 1 /\ f.data = <<>>
                                    /\ to_host' = Append(to_host, f)
        BY <1>0, <3>3, EmptyAnswer DEF Answers
      <3>5. dev_sent'[c] = dev_sent[c] + Len(<<>>)
        BY <1>0, <3>2, EmptySeq
      <3> QED
        BY <1>1, <2>1, <3>1, <3>2, <3>4, <3>5 DEF LateTurn
    <2> QED
      BY <1>1, <2>2, <2>3 DEF DevTurn
  <1>2. CASE DevTurn
    <2>1. to_dev # <<>>
      BY <1>2 DEF DevTurn, DevSyn, DevRefuses, DevData, DevEnds, DevTakes
    <2>2. Head(to_dev) = to_dev[1] /\ to_dev[1] \in HostFrames
      BY <2>1 DEF TypeOK
    <2>3. to_dev[1].conn \in Conns
      BY <2>2 DEF HostFrames
    <2> QED
      BY <1>1, <1>2, <2>1, <2>2, <2>3
  <1>3. ASSUME NEW c \in Conns, DevReset(c)
        PROVE  LateTurn(c)
    <2>1. /\ to_dev' = to_dev /\ dev_state[c] = "est" /\ dev_sent' = dev_sent
          /\ \A d \in Conns : d # c => dev_state'[d] = dev_state[d]
          /\ to_host' = Append(to_host, DevFrame(c, "RST", dev_sent[c] + 1, <<>>))
      BY <1>3 DEF DevReset, TypeOK
    <2>2. dev_sent'[c] = dev_sent[c] + Len(<<>>)
      BY <1>0, <2>1, EmptySeq
    <2>3. \E f \in DevFrames : /\ f.conn = c /\ f.seq = dev_sent[c] + 1 /\ f.data = <<>>
                               /\ to_host' = Append(to_host, f)
      BY <1>0, <2>1, EmptyAnswer DEF Flags
    <2> QED
      BY <2>1, <2>2, <2>3 DEF LateTurn
  <1>4. ASSUME NEW c \in Conns, NEW n \in 1 .. MaxUnits, DevSend(c, n)
        PROVE  LateTurn(c)
    <2> DEFINE data == [k \in 1 .. n |-> <<c, dev_sent[c] + k>>]
               f == DevFrame(c, "ACK", dev_sent[c] + 1, data)
    <2>1. n \in Nat /\ dev_sent[c] \in Nat
      BY <1>0, MuxLinkAssumption
    <2>2. data \in [1 .. n -> Units]
      BY <2>1 DEF Units
    <2>3. data \in Seq(Units) /\ Len(data) = n
      BY <2>1, <2>2
    <2>4. /\ to_dev' = to_dev /\ dev_state[c] = "est" /\ dev_state' = dev_state
          /\ dev_sent' = [dev_sent EXCEPT ![c] = @ + n]
          /\ to_host' = Append(to_host, f)
      BY <1>4 DEF DevSend
    <2>5. dev_sent'[c] = dev_sent[c] + n /\ \A d \in Conns : d # c => dev_sent'[d] = dev_sent[d]
      BY <2>4 DEF TypeOK
    <2> HIDE DEF data
    <2>6. f \in DevFrames /\ f.conn = c /\ f.seq = dev_sent[c] + 1 /\ f.data = data
      BY <1>0, <2>3 DEF DevFrame, DevFrames, Flags
    <2> HIDE DEF f
    <2> QED
      BY <2>3, <2>4, <2>5, <2>6 DEF LateTurn
  <1>5. CASE DevControl
    <2>1. \E f \in DevFrames : f.conn = NoConn /\ to_host' = Append(to_host, f)
      BY <1>5, EmptyAnswer DEF DevControl, Flags
    <2>2. LateTurn(NoConn)
      BY <1>5, <2>1, NoConnIsNone DEF DevControl, LateTurn
    <2> QED
      BY <2>2
  <1> QED
    BY <1>2, <1>3, <1>4, <1>5 DEF Device

\* What a step leaves under way to the device was under way, or is new.
LEMMA CallKeepsAnswering ==
    ASSUME TypeOK, Answering, HostCall, HostTakes,
           UNCHANGED <<local_port_, remote_port_, dev_state>>
    PROVE  Answering'
  <1> SUFFICES ASSUME op' = "open" PROVE Answering'
    BY DEF Answering
  <1> USE DEF vars, session, connection, names, stream, caller, device
  <1>1. op = "open" /\ cur' = cur /\ (to_dev' = to_dev \/ to_dev' = <<>>)
    BY DEF HostCall, Continue, OpenStep, ReadStep, WriteStep, OpenSkips, OpenRefused,
       OpenTimesOut, OpenSucceeds, OpenAckFails, OpenGivesUp, Return, ReadExact, ReadAll, ReadSkips,
       ReadReset, ReadTakes, ReadAckFails, ReadTimesOut, ReadFrame, Reading, Fail, Write, WriteChunk,
       WriteFails, Close, ConnClose, Drop
  <1>2. PICK d \in {0, 1} : \A j \in 1 .. Len(to_host') :
                j + d \in 1 .. Len(to_host) /\ to_host'[j] = to_host[j + d]
    BY Taken
  <1>3. PICK c \in Conns : c = Conn(cur) /\ c = Conn(cur)'
    BY <1>1, ConnType DEF TypeOK, Conn
  <1>4. /\ dev_state[c] \in {"none", "synrcvd"}
        /\ \A i \in 1 .. Len(to_dev) : to_dev[i].conn = c => to_dev[i].flags = "SYN"
        /\ \A j \in 1 .. Len(to_host) : to_host[j].conn = c =>
               /\ to_host[j].seq = 0 /\ to_host[j].data = <<>>
               /\ \A i \in 1 .. (j - 1) : to_host[i].conn # c
    BY <1>1, <1>3 DEF Answering
  <1>5. dev_state'[c] \in {"none", "synrcvd"}
    BY <1>4
  <1>6. \A i \in 1 .. Len(to_dev') : to_dev'[i].conn = c => to_dev'[i].flags = "SYN"
    BY <1>1, <1>4
  <1>7. ASSUME NEW j \in 1 .. Len(to_host'), to_host'[j].conn = c
        PROVE  /\ to_host'[j].seq = 0 /\ to_host'[j].data = <<>>
               /\ \A i \in 1 .. (j - 1) : to_host'[i].conn # c
    <2>1. j + d \in 1 .. Len(to_host) /\ to_host'[j] = to_host[j + d]
      BY <1>2
    <2>2. ASSUME NEW i \in 1 .. (j - 1)
          PROVE  to_host'[i].conn # c
      <3>1. i \in 1 .. Len(to_host') /\ i + d \in 1 .. ((j + d) - 1)
        BY <1>7, <2>1
      <3>2. to_host'[i] = to_host[i + d]
        BY <1>2, <3>1
      <3> QED
        BY <1>4, <1>7, <2>1, <3>1, <3>2
    <2> QED
      BY <1>4, <1>7, <2>1, <2>2
  <1> QED
    BY <1>3, <1>5, <1>6, <1>7 DEF Answering

\* OpenSyn waits for an answer that is not on its way yet.
LEMMA SynKeepsAnswering ==
    ASSUME TypeOK, FreshUnused, Answering, NEW new \in Streams, NEW c \in Conns, NewStream(new, c)
    PROVE  Answering'
  <1> USE DEF vars, session, connection, names, stream, caller, device
  <1>0. to_dev \in Seq(HostFrames)
    BY DEF TypeOK
  <1>1. CASE to_dev' = to_dev /\ UNCHANGED <<op, cur>>
    BY <1>1 DEF NewStream, Answering
  <1>2. ASSUME op' = "open", cur' = new, NEW f \in HostFrames, f.conn = c, f.flags = "SYN",
               to_dev' = Append(to_dev, f)
        PROVE  Answering'
    <2>1. /\ dev_state'[c] = "none"
          /\ \A i \in 1 .. Len(to_dev) : to_dev[i].conn # c
          /\ \A i \in 1 .. Len(to_host') : to_host'[i].conn # c
      BY DEF NewStream, FreshUnused
    <2>2. \A i \in 1 .. Len(to_dev') : to_dev'[i].conn = c => to_dev'[i].flags = "SYN"
      BY <1>0, <1>2, <2>1, AppendIndex
    <2>3. Conn(cur)' = c
      BY <1>2 DEF NewStream, Conn
    <2> QED
      BY <2>1, <2>2, <2>3 DEF Answering
  <1> QED
    BY <1>1, <1>2 DEF NewStream

\* The device answers the SYN once, and says nothing else of its connection.
LEMMA DeviceKeepsAnswering ==
    ASSUME TypeOK, SynFirst, SynUnanswered, NoneYet, Answering, Device
    PROVE  Answering'
  <1> SUFFICES ASSUME op' = "open" PROVE Answering'
    BY DEF Answering
  <1>0. /\ to_dev \in Seq(HostFrames) /\ to_host \in Seq(DevFrames)
        /\ Len(to_dev) \in Nat /\ Len(to_host) \in Nat
    BY LenProperties DEF TypeOK
  <1>1. op = "open" /\ cur' = cur /\ Conn(cur)' = Conn(cur)
    BY DeviceLeavesHost DEF Conn
  <1>2. PICK c \in Conns : c = Conn(cur) /\ c = Conn(cur)'
    BY <1>1, ConnType DEF TypeOK
  <1>3. /\ dev_state[c] \in {"none", "synrcvd"}
        /\ \A i \in 1 .. Len(to_dev) : to_dev[i].conn = c => to_dev[i].flags = "SYN"
        /\ \A j \in 1 .. Len(to_host) : to_host[j].conn = c =>
               /\ to_host[j].seq = 0 /\ to_host[j].data = <<>>
               /\ \A i \in 1 .. (j - 1) : to_host[i].conn # c
    BY <1>1, <1>2 DEF Answering
  <1>4. ASSUME NEW d, SynTurn(d) \/ LateTurn(d)
        PROVE  \A i \in 1 .. Len(to_dev') : to_dev'[i].conn = c => to_dev'[i].flags = "SYN"
    <2>1. CASE to_dev' = to_dev
      BY <1>3, <2>1
    <2>2. CASE to_dev # <<>> /\ to_dev' = Tail(to_dev)
      BY <1>0, <1>3, <2>2, TailFacts
    <2> QED
      BY <1>4, <2>1, <2>2 DEF SynTurn, LateTurn
  \* A frame more, of another connection, or where none of this one is.
  <1>5. ASSUME NEW f \in DevFrames, to_host' = Append(to_host, f),
               \/ f.conn # c
               \/ /\ f.seq = 0 /\ f.data = <<>>
                  /\ \A j \in 1 .. Len(to_host) : to_host[j].conn # c
        PROVE  \A j \in 1 .. Len(to_host') : to_host'[j].conn = c =>
                   /\ to_host'[j].seq = 0 /\ to_host'[j].data = <<>>
                   /\ \A i \in 1 .. (j - 1) : to_host'[i].conn # c
    <2> SUFFICES ASSUME NEW j \in 1 .. Len(to_host'), to_host'[j].conn = c
                 PROVE  /\ to_host'[j].seq = 0 /\ to_host'[j].data = <<>>
                        /\ \A i \in 1 .. (j - 1) : to_host'[i].conn # c
      OBVIOUS
    <2>1. /\ Len(to_host') = Len(to_host) + 1 /\ to_host'[Len(to_host) + 1] = f
          /\ \A i \in 1 .. Len(to_host) : to_host'[i] = to_host[i]
      BY <1>0, <1>5, AppendFacts
    <2>2. CASE j \in 1 .. Len(to_host)
      <3>1. \A i \in 1 .. (j - 1) : i \in 1 .. Len(to_host)
        BY <1>0, <2>2
      <3> QED
        BY <1>3, <2>1, <2>2, <3>1
    <2>3. CASE j = Len(to_host) + 1
      <3>1. \A i \in 1 .. (j - 1) : i \in 1 .. Len(to_host)
        BY <1>0, <2>3
      <3> QED
        BY <1>5, <2>1, <2>3, <3>1
    <2> QED
      BY <1>0, <2>1, <2>2, <2>3
  <1>6. CASE \E d \in Conns : SynTurn(d)
    <2>1. PICK d \in Conns : SynTurn(d)
      BY <1>6
    <2>2. 1 \in 1 .. Len(to_dev)
      BY <1>0, <2>1, EmptySeq DEF SynTurn
    <2>3. \A j \in 1 .. Len(to_host) : to_host[j].conn # d
      BY <2>1, <2>2 DEF SynTurn, SynUnanswered
    <2>4. dev_state'[c] \in {"none", "synrcvd"}
      BY <1>3, <2>1 DEF SynTurn
    <2>5. \A j \in 1 .. Len(to_host') : to_host'[j].conn = c =>
              /\ to_host'[j].seq = 0 /\ to_host'[j].data = <<>>
              /\ \A i \in 1 .. (j - 1) : to_host'[i].conn # c
      BY <1>3, <1>5, <2>1, <2>3 DEF SynTurn
    <2> QED
      BY <1>2, <1>4, <2>1, <2>4, <2>5 DEF Answering
  <1>7. CASE \E d \in Conns \cup {NoConn} : LateTurn(d)
    <2>1. PICK d \in Conns \cup {NoConn} : LateTurn(d)
      BY <1>7
    <2>2. d # c
      <3>1. CASE to_dev' = to_dev /\ (d \in Conns => dev_state[d] = "est")
        BY <1>3, <3>1
      <3>2. CASE to_dev # <<>> /\ to_dev[1].conn = d /\ to_dev[1].flags # "SYN"
        <4>1. 1 \in 1 .. Len(to_dev)
          BY <1>0, <3>2, EmptySeq
        <4> QED
          BY <1>3, <3>2, <4>1
      <3> QED
        BY <2>1, <3>1, <3>2 DEF LateTurn
    <2>3. dev_state'[c] \in {"none", "synrcvd"}
      BY <1>3, <2>1, <2>2 DEF LateTurn
    <2>4. \A j \in 1 .. Len(to_host') : to_host'[j].conn = c =>
              /\ to_host'[j].seq = 0 /\ to_host'[j].data = <<>>
              /\ \A i \in 1 .. (j - 1) : to_host'[i].conn # c
      BY <1>3, <1>5, <2>1, <2>2 DEF LateTurn
    <2> QED
      BY <1>2, <1>4, <2>1, <2>3, <2>4 DEF Answering
  <1> QED
    BY <1>6, <1>7, DeviceTurns

\* A stream opens once the answer to its SYN is there.
LEMMA SynPhaseKept ==
    ASSUME TypeOK, Calling, PortsInOrder, NoWrap', FreshUnused, SynFirst, SynUnanswered, NoneYet,
           SynPhase, [Next]_vars
    PROVE  SynPhase'
  <1> USE DEF vars, session, connection, names, stream, caller, device
  <1>0. to_dev \in Seq(HostFrames) /\ Len(to_dev) \in Nat /\ opens \in Nat
    <2>1. opens \in Nat
      BY MuxLinkAssumption DEF TypeOK
    <2> QED
      BY <2>1, LenProperties DEF TypeOK
  <1>1. ASSUME UNCHANGED <<opens, local_port_, remote_port_>>,
               \A i \in 1 .. Len(to_dev') : to_dev'[i].flags = "SYN" =>
                   \E k \in 1 .. Len(to_dev) : to_dev[k] = to_dev'[i],
               \A s \in Streams : s <= opens /\ phase[s] \in {"opening", "failed"} =>
                   \/ phase'[s] \in {"opening", "failed"}
                   \/ \A i \in 1 .. Len(to_dev) : to_dev[i].flags = "SYN" => to_dev[i].conn # Conn(s)
        PROVE  SynPhase'
    <2> SUFFICES ASSUME NEW i \in 1 .. Len(to_dev'), to_dev'[i].flags = "SYN",
                        NEW s \in Streams, s <= opens, to_dev'[i].conn = Conn(s)
                 PROVE  phase'[s] \in {"opening", "failed"}
      BY <1>1 DEF SynPhase, Conn
    <2>1. PICK k \in 1 .. Len(to_dev) : to_dev[k] = to_dev'[i]
      BY <1>1
    <2>2. phase[s] \in {"opening", "failed"}
      BY <2>1 DEF SynPhase
    <2> QED
      BY <1>1, <2>1, <2>2
  <1>2. CASE HostCall
    <2>1. UNCHANGED <<opens, local_port_, remote_port_>> /\ HostWrites
      BY <1>2, HostCallShape DEF HostShape
    <2>2. \A i \in 1 .. Len(to_dev') : to_dev'[i].flags = "SYN" =>
              \E k \in 1 .. Len(to_dev) : to_dev[k] = to_dev'[i]
      BY <2>1, Written
    <2>3. ASSUME NEW s \in Streams, s <= opens, phase[s] \in {"opening", "failed"}
          PROVE  \/ phase'[s] \in {"opening", "failed"}
                 \/ \A i \in 1 .. Len(to_dev) : to_dev[i].flags = "SYN" => to_dev[i].conn # Conn(s)
      <3>1. CASE OpenSucceeds /\ s = cur
        <4>1. to_host # <<>> /\ Head(to_host).conn = Conn(s)
          BY <3>1 DEF OpenSucceeds, OpenAnswered, Received, IsFor, Frame
        <4>2. 1 \in 1 .. Len(to_host) /\ Head(to_host) = to_host[1]
          BY <4>1, EmptySeq, LenProperties DEF TypeOK
        <4> QED
          BY <4>1, <4>2 DEF SynUnanswered
      <3>2. CASE ~(OpenSucceeds /\ s = cur)
        <4>1. phase'[s] = phase[s] \/ phase'[s] = "failed"
          BY <1>2, <2>3, <3>2 DEF HostCall, Continue, OpenStep, ReadStep, WriteStep, OpenSkips,
             OpenRefused, OpenTimesOut, OpenSucceeds, OpenAckFails, OpenGivesUp, ReadExact, ReadAll,
             ReadSkips, ReadReset, ReadTakes, ReadAckFails, ReadTimesOut, Fail, Write, WriteChunk,
             WriteFails, Close, ConnClose, Drop, TypeOK
        <4> QED
          BY <2>3, <4>1
      <3> QED
        BY <3>1, <3>2
    <2> QED
      BY <1>1, <2>1, <2>2, <2>3
  <1>3. CASE Device
    <2>1. UNCHANGED <<opens, local_port_, remote_port_, phase>>
      BY <1>3, DeviceLeavesHost
    <2>2. to_dev' = to_dev \/ (to_dev # <<>> /\ to_dev' = Tail(to_dev))
      BY <1>3, DeviceTurns DEF SynTurn, LateTurn
    <2>3. \A i \in 1 .. Len(to_dev') : \E k \in 1 .. Len(to_dev) : to_dev[k] = to_dev'[i]
      BY <1>0, <2>2, TailFacts
    <2> QED
      BY <1>1, <2>1, <2>3
  <1>4. CASE UNCHANGED vars
    BY <1>4 DEF SynPhase, Conn
  <1>5. ASSUME NEW new \in Streams, NEW c \in Conns, NewStream(new, c),
               phase'[new] \in {"opening", "failed"}
        PROVE  SynPhase'
    <2> SUFFICES ASSUME NEW i \in 1 .. Len(to_dev'), to_dev'[i].flags = "SYN",
                        NEW s \in Streams, s <= opens', to_dev'[i].conn = Conn(s)'
                 PROVE  phase'[s] \in {"opening", "failed"}
      BY DEF SynPhase
    <2>1. CASE s = new
      BY <1>5, <2>1
    <2>2. CASE s # new
      <3>1. s <= opens /\ Conn(s)' = Conn(s) /\ phase'[s] = phase[s]
        BY <1>0, <1>5, <2>2 DEF NewStream, Streams
      <3>2. Conn(s) # c
        BY <1>5, <3>1, OpenedNotFresh DEF NewStream
      <3>3. i \in 1 .. Len(to_dev) /\ to_dev'[i] = to_dev[i]
        <4>1. CASE to_dev' = to_dev
          BY <4>1
        <4>2. ASSUME NEW f \in HostFrames, f.conn = c, to_dev' = Append(to_dev, f)
              PROVE  <3>3!1
          BY <1>0, <3>1, <3>2, <4>2, AppendIndex
        <4> QED
          BY <1>5, <4>1, <4>2 DEF NewStream
      <3> QED
        BY <3>1, <3>3 DEF SynPhase
    <2> QED
      BY <2>1, <2>2
  <1>6. ASSUME NEW svc \in Services, OpenSyn(svc)
        PROVE  SynPhase'
    <2>1. PICK new \in Streams, c \in Conns : NewStream(new, c)
      BY <1>6, OpenSynIsNew
    <2> QED
      BY <1>5, <2>1 DEF NewStream
  <1> QED
    BY <1>2, <1>3, <1>4, <1>6 DEF Next, Call, HostCall
-----------------------------------------------------------------------------
(* What is under way to a stream that listens.                             *)

\* A frame more, that starts where the next one starts.
LEMMA OwingAppend ==
    ASSUME TypeOK, NEW s \in Streams, NEW p, Owing(s, p), NEW y \in Nat,
           NEW f \in DevFrames, to_host' = Append(to_host, f),
           Conn(s)' = Conn(s), Heard(s)' = Heard(s),
           Told(f, Conn(s), p[Len(to_host)], y),
           y = dev_sent'[Conn(s)] + 1, p[Len(to_host)] <= y
    PROVE  \E q : Owing(s, q)'
  <1>1. to_host \in Seq(DevFrames) /\ Len(to_host) \in Nat
    BY LenProperties DEF TypeOK
  <1>2. PICK n \in Nat : n = Len(to_host)
    BY <1>1
  <1>3. Rising(p, n) /\ p[n] <= y
    BY <1>2 DEF Owing
  <1>4. PICK q : /\ Rising(q, n + 1)
                 /\ q[0] = p[0] /\ q[n] = p[n] /\ q[n + 1] = y
                 /\ \A i \in 1 .. n : q[i] = p[i] /\ q[i - 1] = p[i - 1]
    <2>1. \E q : /\ Rising(q, n + 1)
                 /\ q[0] = p[0] /\ q[n] = p[n] /\ q[n + 1] = y
                 /\ \A i \in 1 .. n : q[i] = p[i] /\ q[i - 1] = p[i - 1]
      BY ONLY <1>3, n \in Nat, y \in Nat, Extend
    <2> QED
      BY ONLY <2>1
  <1>5. /\ Len(to_host') = n + 1 /\ to_host'[n + 1] = f
        /\ \A i \in 1 .. n : to_host'[i] = to_host[i]
    BY <1>1, <1>2, AppendFacts
  <1>6. ASSUME NEW i \in 1 .. Len(to_host')
        PROVE  Told(to_host'[i], Conn(s), q[i - 1], q[i])
    <2>1. CASE i \in 1 .. n
      BY <1>2, <1>4, <1>5, <2>1 DEF Owing
    <2>2. CASE i = n + 1
      <3>1. i - 1 = n
        BY <2>2
      <3> QED
        BY <1>2, <1>4, <1>5, <2>2, <3>1
    <2> QED
      BY <1>5, <2>1, <2>2
  <1>7. /\ Rising(q, Len(to_host')) /\ q[0] = Len(Heard(s)') + 1
        /\ q[Len(to_host')] = dev_sent'[Conn(s)'] + 1
    BY <1>2, <1>4, <1>5 DEF Owing
  <1>8. \A i \in 1 .. Len(to_host') : Told(to_host'[i], Conn(s)', q[i - 1], q[i])
    BY <1>6
  <1> QED
    BY <1>7, <1>8 DEF Owing, Told

\* The first frame is gone, heard or not.
LEMMA OwingTail ==
    ASSUME TypeOK, NEW s \in Streams, NEW p, Owing(s, p),
           to_host # <<>>, to_host' = Tail(to_host), dev_sent' = dev_sent,
           Conn(s)' = Conn(s), Len(Heard(s)') + 1 = p[1]
    PROVE  \E q : Owing(s, q)'
  <1>1. to_host \in Seq(DevFrames) /\ Len(to_host) \in Nat
    BY LenProperties DEF TypeOK
  <1>2. PICK n \in Nat \ {0} : n = Len(to_host)
    BY <1>1, EmptySeq
  <1>3. Rising(p, n)
    BY <1>2 DEF Owing
  <1>4. PICK q : /\ Rising(q, n - 1)
                 /\ q[0] = p[1] /\ q[n - 1] = p[n]
                 /\ \A i \in 1 .. (n - 1) : q[i] = p[i + 1] /\ q[i - 1] = p[i]
    BY <1>3, Shift
  <1>5. /\ Len(to_host') = n - 1
        /\ \A i \in 1 .. (n - 1) : i + 1 \in 1 .. n /\ to_host'[i] = to_host[i + 1]
    BY <1>1, <1>2, TailFacts
  <1>6. \A i \in 1 .. Len(to_host') : Told(to_host'[i], Conn(s)', q[i - 1], q[i])
    <2>1. ASSUME NEW i \in 1 .. (n - 1)
          PROVE  Told(to_host[i + 1], Conn(s), p[i], p[i + 1])
      <3>1. i + 1 \in 1 .. n /\ (i + 1) - 1 = i
        OBVIOUS
      <3> QED
        BY <1>2, <3>1 DEF Owing
    <2> QED
      BY <1>4, <1>5, <2>1
  <1>7. /\ Rising(q, Len(to_host')) /\ q[0] = Len(Heard(s)') + 1
        /\ q[Len(to_host')] = dev_sent'[Conn(s)'] + 1
    BY <1>2, <1>4, <1>5 DEF Owing
  <1> QED
    BY <1>6, <1>7 DEF Owing, Told

\* What a quiet stream has under way is empty: it heard all that it may be sent.
LEMMA NothingOwed ==
    ASSUME TypeOK, WrittenFirst, SentWithin, NEW s \in Streams, NEW p, Owing(s, p),
           to_host # <<>>, to_host[1].conn # Conn(s) \/ Quiet(s)
    PROVE  p[1] = Len(Heard(s)) + 1
  <1>1. PICK n \in Nat \ {0} : n = Len(to_host)
    BY EmptySeq, LenProperties DEF TypeOK
  <1>2. /\ Rising(p, n) /\ p[0] = Len(Heard(s)) + 1 /\ p[n] = dev_sent[Conn(s)] + 1
        /\ Told(to_host[1], Conn(s), p[1 - 1], p[1])
    BY <1>1 DEF Owing
  <1>3. CASE to_host[1].conn # Conn(s)
    BY <1>2, <1>3 DEF Told
  <1>4. CASE Quiet(s)
    <2>1. /\ Len(Heard(s)) = Len(got[s]) + Len(incoming_[s])
          /\ Len(got[s]) \in Nat /\ Len(incoming_[s]) \in Nat
      BY HeardType, ConcatProperties, LenProperties DEF Heard
    <2>2. /\ dev_sent[Conn(s)] \in Nat /\ dev_rcvd[Conn(s)] \in Nat /\ tx_seq_[s] \in Nat
          /\ dev_sent[Conn(s)] <= dev_rcvd[Conn(s)] /\ dev_rcvd[Conn(s)] < tx_seq_[s]
          /\ Len(got[s]) = tx_seq_[s] - 1
      BY <1>4, ConnType DEF TypeOK, SentWithin, WrittenFirst, Quiet
    <2>3. p[n] <= p[0]
      <3>1. dev_sent[Conn(s)] <= Len(Heard(s))
        BY ONLY <2>1, <2>2
      <3> QED
        BY <1>2, <2>1, <2>2, <3>1
    <2>4. /\ p[0] \in Nat /\ p[1] \in Nat /\ p[n] \in Nat
          /\ p[0] <= p[1] /\ p[1] <= p[n]
      <3>1. 0 \in 0 .. n /\ 1 \in 0 .. n /\ n \in 0 .. n
        OBVIOUS
      <3> QED
        BY <1>2, <3>1 DEF Rising
    <2> QED
      BY <1>2, <2>3, <2>4
  <1> QED
    BY <1>3, <1>4

\* What a stream that goes on listening keeps.
Keeps(s) == /\ Listening(s)
            /\ Heard(s)' = Heard(s) /\ tx_ack_'[s] = tx_ack_[s] /\ Conn(s)' = Conn(s)

\* The steps of a call that are not an answer to a stream that listens after it: the
\* frame they take is for another one, or the stream is owed nothing.
LEMMA DeafCall ==
    ASSUME TypeOK, Calling, OneAtATime, Discipline, HostCall,
           NEW s \in Streams, Listening(s)',
           ~(ReadTakes /\ s = cur), ~(OpenSucceeds /\ s = cur)
    PROVE  /\ Keeps(s) /\ dev_sent' = dev_sent
           /\ \/ link' # "up"
              \/ link' = link /\ to_host' = to_host
              \/ /\ link' = link /\ to_host # <<>> /\ to_host' = Tail(to_host)
                 /\ to_host[1].conn # Conn(s) \/ Quiet(s)
  <1> USE DEF vars, session, connection, names, stream, caller, device
  <1>0. PICK me \in Streams : me = cur
    BY DEF TypeOK
  <1>1. Received => to_host # <<>> /\ Frame = to_host[1]
    BY DEF Received, Frame, TypeOK
  <1>2. op \notin {"idle"} /\ s # cur /\ phase[s] = "open" => Quiet(s)
    BY DEF Discipline
  <1>3. CASE OpenStep
    <2>1. /\ s # me /\ phase'[s] = phase[s] /\ failed'[s] = failed[s] /\ tx_ack_'[s] = tx_ack_[s]
          /\ UNCHANGED <<got, incoming_, local_port_, remote_port_, dev_sent>> /\ op = "open"
          /\ link' = link
          /\ to_host' = to_host \/ (Received /\ to_host' = Tail(to_host))
      <3>1. phase[me] = "opening"
        BY <1>0, <1>3 DEF Calling, OpenStep, OpenSkips, OpenRefused, OpenTimesOut, OpenSucceeds,
           OpenAckFails, OpenAnswered
      <3>2. s # me
        BY <1>0, <1>3, <3>1
           DEF Listening, OpenStep, OpenSkips, OpenRefused, OpenTimesOut, OpenSucceeds,
           OpenAckFails, OpenGivesUp, TypeOK
      <3> QED
        BY <1>0, <1>3, <3>2 DEF OpenStep, OpenSkips, OpenRefused, OpenTimesOut, OpenSucceeds,
           OpenAckFails, OpenAnswered, OpenGivesUp, Sent, Received, ReceiveFails, TypeOK
    <2>2. Keeps(s)
      BY <2>1 DEF Keeps, Listening, Heard, Conn
    <2> QED
      BY <1>0, <1>1, <1>2, <2>1, <2>2 DEF Keeps, Listening
  <1>4. CASE ReadStep
    <2>1. /\ phase' = phase /\ op # "idle" /\ dev_sent' = dev_sent /\ link' = link
          /\ UNCHANGED <<local_port_, remote_port_>>
          /\ to_host' = to_host \/ (Received /\ to_host' = Tail(to_host))
      BY <1>4
         DEF ReadStep, ReadSkips, ReadReset, ReadTakes, ReadAckFails, ReadTimesOut, ReadFrame,
         Reading, Fail, Sent, SendFails, Received, ReceiveFails
    <2>2. CASE ReadSkips
      <3>1. UNCHANGED <<failed, tx_ack_, got, incoming_>> /\ Received /\ Frame.conn # Conn(cur)
        BY <2>2 DEF ReadSkips, IsFor
      <3>2. Keeps(s)
        BY <2>1, <3>1 DEF Keeps, Listening, Heard, Conn
      <3> QED
        BY <1>1, <1>2, <2>1, <3>1, <3>2 DEF Keeps, Listening
    <2>3. CASE ReadReset \/ ReadAckFails \/ ReadTimesOut
      <3>1. s # me /\ failed'[s] = failed[s]
        <4>1. failed' = [failed EXCEPT ![me] = TRUE]
          BY <1>0, <2>3 DEF ReadReset, ReadAckFails, ReadTimesOut, Fail, Discipline, Reading
        <4> QED
          BY <4>1 DEF Listening, TypeOK
      <3>2. tx_ack_'[s] = tx_ack_[s] /\ UNCHANGED <<got, incoming_>>
        BY <1>0, <2>3, <3>1 DEF ReadReset, ReadAckFails, ReadTimesOut, ReadFrame, Fail, TypeOK
      <3>3. Keeps(s)
        BY <2>1, <3>1, <3>2 DEF Keeps, Listening, Heard, Conn
      <3> QED
        BY <1>0, <1>1, <1>2, <2>1, <3>1, <3>3 DEF Keeps, Listening
    <2>4. CASE ReadTakes
      <3>1. s # me /\ failed' = failed
        BY <1>0, <2>4 DEF ReadTakes
      <3>2. tx_ack_'[s] = tx_ack_[s] /\ got'[s] = got[s] /\ incoming_'[s] = incoming_[s]
        BY <1>0, <2>4, <3>1 DEF ReadTakes, ReadFrame, HandOut, TypeOK
      <3>3. Keeps(s)
        BY <2>1, <3>1, <3>2 DEF Keeps, Listening, Heard, Conn
      <3> QED
        BY <1>0, <1>1, <1>2, <2>1, <3>1, <3>3 DEF Keeps, Listening
    <2> QED
      BY <1>4, <2>2, <2>3, <2>4 DEF ReadStep
  <1>5. CASE ~OpenStep /\ ~ReadStep
    <2>1. Heard(s)' = Heard(s)
      BY <1>5, HostCallHears DEF ReadStep
    <2>2. /\ phase'[s] = "open" => phase[s] = "open"
          /\ failed[s] => failed'[s]
          /\ UNCHANGED <<tx_ack_, local_port_, remote_port_, dev_sent>>
          /\ link' # "up" \/ (link' = link /\ to_host' = to_host)
      BY <1>0, <1>5
         DEF HostCall, Continue, WriteStep, ReadExact, ReadAll, Write, WriteChunk, WriteFails,
         Fail, Close, Sent, SendFails, ConnClose, Drop, TypeOK
    <2>3. Keeps(s)
      BY <2>1, <2>2 DEF Keeps, Listening, Conn
    <2> QED
      BY <2>2, <2>3
  <1> QED
    BY <1>3, <1>4, <1>5

\* Stream::receive_more hears the frame that comes next, and acknowledges its end.
LEMMA TakesInTurn ==
    ASSUME TypeOK, Wanted, FramesExact, Attentive, NEW s \in Streams, s = cur, Listening(s),
           ReadTakes
    PROVE  /\ tx_ack_'[s] = Len(Heard(s)') + 1
           /\ \A k \in 1 .. Len(Heard(s)') : Heard(s)'[k] = <<Conn(s), k>>
           /\ \E p : Owing(s, p)'
  <1> USE DEF vars, session, connection, names, stream, caller, device
  <1>1. /\ link = "up" /\ to_host # <<>> /\ to_host' = Tail(to_host)
        /\ dev_sent' = dev_sent /\ Conn(s)' = Conn(s)
    BY DEF ReadTakes, ReadFrame, Received, Conn
  <1>2. PICK f \in DevFrames : f = to_host[1] /\ f = Frame
    BY <1>1 DEF Frame, TypeOK
  <1>3. f.conn = Conn(s) /\ f.data \in Seq(Units) /\ Len(f.data) \in Nat /\ f.seq \in Nat
    BY <1>2, LenProperties DEF ReadTakes, ReadFrame, IsFor, DevFrames
  <1>4. PICK p : Owing(s, p)
    BY <1>1 DEF Attentive, DevChain
  <1>5. 1 \in 1 .. Len(to_host)
    BY <1>1, EmptySeq, LenProperties DEF TypeOK
  <1>6. PICK h \in Seq(Units) : h = Heard(s)
    BY HeardType
  <1>7. Len(h) \in Nat
    BY LenProperties
  <1>8. f.seq = Len(h) + 1 /\ p[1] = f.seq + Len(f.data)
    <2>1. Told(to_host[1], Conn(s), p[1 - 1], p[1]) /\ p[0] = Len(h) + 1
      BY <1>4, <1>5, <1>6 DEF Owing
    <2> QED
      BY <1>2, <1>3, <2>1 DEF Told
  <1>9. Heard(s)' = h \o f.data
    <2>1. got[s] \in Seq(Units) /\ incoming_[s] = <<>> /\ h = got[s]
      <3>1. got[s] \in Seq(Units) /\ incoming_[s] = <<>>
        BY HeardType DEF Wanted, ReadTakes, ReadFrame, Reading
      <3> QED
        BY <1>6, <3>1, ConcatEmptySeq DEF Heard
    <2>2. PICK n \in 0 .. Len(f.data) : HandOut(s, f.data, n)
      <3>1. want \in Nat
        BY DEF TypeOK
      <3>2. Smaller(want, Len(f.data)) \in 0 .. Len(f.data) /\ Len(f.data) \in 0 .. Len(f.data)
        BY <1>3, <3>1 DEF Smaller
      <3> QED
        BY <1>2, <3>2 DEF ReadTakes
    <2> QED
      BY <1>3, <2>1, <2>2, HandOutHeard
  <1>10. /\ Len(Heard(s)') = Len(h) + Len(f.data)
         /\ \A k \in 1 .. Len(h) : Heard(s)'[k] = h[k]
         /\ \A k \in Len(h) + 1 .. Len(h) + Len(f.data) : Heard(s)'[k] = f.data[k - Len(h)]
    BY <1>3, <1>7, <1>9, ConcatProperties
  <1>11. tx_ack_'[s] = Len(Heard(s)') + 1
    <2>1. tx_ack_'[s] = f.seq + Len(f.data)
      BY <1>2 DEF ReadTakes, ReadFrame, AckOf, TypeOK
    <2>2. Len(Heard(s)') = Len(h) + Len(f.data) /\ Len(f.data) \in Nat
      BY <1>3, <1>10
    <2>3. PICK a \in Nat, b \in Nat, m \in Nat :
               a = Len(h) /\ b = Len(f.data) /\ m = Len(Heard(s)')
      BY <1>7, <2>2
    <2>4. tx_ack_'[s] = (a + 1) + b /\ m = a + b
      BY <1>8, <2>1, <2>2, <2>3
    <2>5. tx_ack_'[s] = m + 1
      BY ONLY <2>4, a \in Nat, b \in Nat
    <2> QED
      BY <2>3, <2>5
  <1>12. ASSUME NEW k \in 1 .. Len(Heard(s)')
         PROVE  Heard(s)'[k] = <<Conn(s), k>>
    <2>1. CASE k \in 1 .. Len(h)
      BY <1>6, <1>10, <2>1 DEF Attentive, InTurn
    <2>2. CASE k \in Len(h) + 1 .. Len(h) + Len(f.data)
      <3>1. k - Len(h) \in 1 .. Len(f.data) /\ f.data # <<>>
        BY <1>3, <1>7, <2>2, EmptySeq
      <3>2. f.data[k - Len(h)] = <<Conn(s), (f.seq - 1) + (k - Len(h))>>
        BY <1>2, <1>3, <1>5, <3>1 DEF FramesExact
      <3>3. (f.seq - 1) + (k - Len(h)) = k
        BY <1>7, <1>8, <2>2
      <3> QED
        BY <1>10, <2>2, <3>2, <3>3
    <2> QED
      BY <1>3, <1>7, <1>10, <2>1, <2>2
  <1>13. Len(Heard(s)') + 1 = p[1]
    <2>1. Len(Heard(s)') = Len(h) + Len(f.data) /\ Len(f.data) \in Nat
      BY <1>3, <1>10
    <2>2. PICK a \in Nat, b \in Nat, m \in Nat :
               a = Len(h) /\ b = Len(f.data) /\ m = Len(Heard(s)')
      BY <1>7, <2>1
    <2>3. p[1] = (a + 1) + b /\ m = a + b
      BY <1>8, <2>1, <2>2
    <2>4. m + 1 = p[1]
      BY ONLY <2>3, a \in Nat, b \in Nat
    <2> QED
      BY <2>2, <2>4
  <1> QED
    BY <1>1, <1>4, <1>11, <1>12, <1>13, OwingTail

\* A stream that opens has heard nothing, and nothing more is under way to it.
LEMMA OpensInTurn ==
    ASSUME TypeOK, Unsaid, Calling, NoneYet, Answering, NEW s \in Streams, s = cur, OpenSucceeds
    PROVE  /\ tx_ack_'[s] = Len(Heard(s)') + 1
           /\ \E p : Owing(s, p)'
  <1> USE DEF vars, session, connection, names, stream, caller, device
  <1>1. /\ to_host # <<>> /\ to_host' = Tail(to_host) /\ op = "open"
        /\ dev_sent' = dev_sent /\ Conn(s)' = Conn(s) /\ Heard(s)' = Heard(s)
    BY DEF OpenSucceeds, OpenAnswered, Received, Conn, Heard
  <1>2. PICK f \in DevFrames : f = to_host[1] /\ f = Frame
    BY <1>1 DEF Frame, TypeOK
  <1>3. /\ to_host \in Seq(DevFrames) /\ 1 \in 1 .. Len(to_host) /\ Len(to_host) \in Nat
        /\ f.conn = Conn(s)
    BY <1>1, <1>2, EmptySeq, LenProperties DEF OpenSucceeds, OpenAnswered, IsFor, TypeOK
  <1>4. PICK c \in Conns : c = Conn(s)
    BY ConnType
  <1>5. /\ f.seq = 0 /\ dev_sent[c] = 0
        /\ \A j \in 1 .. Len(to_host) : j # 1 => to_host[j].conn # c
    <2>1. /\ dev_state[c] \in {"none", "synrcvd"}
          /\ \A j \in 1 .. Len(to_host) : to_host[j].conn = c =>
                /\ to_host[j].seq = 0
                /\ \A i \in 1 .. (j - 1) : to_host[i].conn # c
      BY <1>1, <1>4 DEF Answering
    <2>2. ASSUME NEW j \in 1 .. Len(to_host), j # 1 PROVE to_host[j].conn # c
      <3>1. 1 \in 1 .. (j - 1)
        BY <1>3, <2>2
      <3> QED
        BY <1>2, <1>3, <1>4, <2>1, <3>1
    <2> QED
      BY <1>2, <1>3, <1>4, <2>1, <2>2 DEF NoneYet
  <1>6. Heard(s) = <<>> /\ Len(Heard(s)) = 0
    <2>1. phase[s] = "opening"
      BY <1>1 DEF Calling
    <2> QED
      BY <2>1, EmptySeq DEF Unsaid
  <1>7. tx_ack_'[s] = Len(Heard(s)') + 1
    <2>1. tx_ack_'[s] = f.seq + 1
      BY <1>2 DEF OpenSucceeds, OpenAnswered, TypeOK
    <2> QED
      BY <1>1, <1>5, <1>6, <2>1
  <1>8. /\ Len(to_host') \in Nat
        /\ \A i \in 1 .. Len(to_host') : i + 1 \in 1 .. Len(to_host) /\ i + 1 # 1
                                         /\ to_host'[i] = to_host[i + 1]
    BY <1>1, <1>3, TailFacts
  <1>9. PICK n \in Nat : n = Len(to_host')
    BY <1>8
  <1>10. PICK p : p = [i \in 0 .. n |-> 1]
    OBVIOUS
  <1>11. Rising(p, n) /\ p[0] = 1 /\ p[n] = 1 /\ \A i \in 1 .. n : p[i - 1] = 1 /\ p[i] = 1
    BY <1>10 DEF Rising
  <1>12. \A i \in 1 .. Len(to_host') : to_host'[i].conn # c
    BY <1>5, <1>8
  <1>13. \A i \in 1 .. Len(to_host') : Told(to_host'[i], Conn(s)', p[i - 1], p[i])
    BY <1>1, <1>4, <1>9, <1>11, <1>12 DEF Told
  <1>14. p[0] = Len(Heard(s)') + 1 /\ p[Len(to_host')] = dev_sent'[Conn(s)'] + 1
    BY <1>1, <1>4, <1>5, <1>6, <1>9, <1>11
  <1>15. \E p_1 : Owing(s, p_1)'
    BY <1>9, <1>11, <1>13, <1>14 DEF Owing, Told
  <1> QED
    BY <1>7, <1>15

\* A call acknowledges what it hears.
LEMMA CallKeepsAttentive ==
    ASSUME TypeOK, IInv, Calling, SInv, OInv, OneAtATime, NoWrap, HostCall
    PROVE  Attentive'
  <1> USE DEF vars, session, connection, names, stream, caller, device
  <1>1. /\ Discipline /\ SentWithin /\ Attentive /\ Answering /\ Wanted /\ Unsaid /\ NoneYet
        /\ WrittenFirst /\ FramesExact /\ PortsInOrder
    BY DEF IInv, Wires, SInv, Calls, Sends, Chain, OInv, Mannered, Asked
  <1>2. UNCHANGED <<local_port_, remote_port_>> /\ \A s \in Streams : Conn(s)' = Conn(s)
    BY <1>1, HostCallShape DEF HostShape, Conn
  <1>3. ASSUME NEW s \in Streams, Listening(s)'
        PROVE  /\ tx_ack_'[s] = Len(Heard(s)') + 1
               /\ link' = "up" => \E p : Owing(s, p)'
    <2>1. CASE ReadTakes /\ s = cur
      <3>1. Listening(s)
        BY <1>3, <2>1 DEF ReadTakes, Listening
      <3> QED
        BY <1>1, <2>1, <3>1, TakesInTurn
    <2>2. CASE OpenSucceeds /\ s = cur
      BY <1>1, <2>2, OpensInTurn
    <2>3. CASE ~(ReadTakes /\ s = cur) /\ ~(OpenSucceeds /\ s = cur)
      <3>1. /\ Keeps(s) /\ dev_sent' = dev_sent
            /\ \/ link' # "up"
               \/ link' = link /\ to_host' = to_host
               \/ /\ link' = link /\ to_host # <<>> /\ to_host' = Tail(to_host)
                  /\ to_host[1].conn # Conn(s) \/ Quiet(s)
        BY <1>1, <1>3, <2>3, DeafCall
      <3>2. tx_ack_'[s] = Len(Heard(s)') + 1
        BY <1>1, <3>1 DEF Keeps, Attentive, AckHeard
      <3>3. ASSUME link' = "up"
            PROVE  \E p : Owing(s, p)'
        <4>1. PICK p : Owing(s, p)
          BY <1>1, <3>1, <3>3 DEF Keeps, Attentive, DevChain
        <4>2. CASE to_host' = to_host
          <5>1. Owing(s, p)'
            BY <3>1, <4>1, <4>2 DEF Keeps, Owing, Told
          <5> QED
            BY <5>1
        <4>3. CASE /\ to_host # <<>> /\ to_host' = Tail(to_host)
                   /\ to_host[1].conn # Conn(s) \/ Quiet(s)
          <5>1. p[1] = Len(Heard(s)) + 1
            BY <1>1, <4>1, <4>3, NothingOwed
          <5> QED
            BY <3>1, <4>1, <4>3, <5>1, OwingTail DEF Keeps
        <4> QED
          BY <3>1, <3>3, <4>2, <4>3
      <3> QED
        BY <3>2, <3>3
    <2> QED
      BY <2>1, <2>2, <2>3
  <1>4. ASSUME NEW s \in Streams, NEW k \in 1 .. Len(Heard(s)')
        PROVE  Heard(s)'[k] = <<Conn(s)', k>>
    <2>1. CASE ReadTakes /\ s = cur
      <3>1. Listening(s)
        BY <1>1, <2>1 DEF ReadTakes, ReadFrame, Reading, Listening, Calling, Discipline
      <3>2. \A i \in 1 .. Len(Heard(s)') : Heard(s)'[i] = <<Conn(s), i>>
        BY <1>1, <2>1, <3>1, TakesInTurn
      <3> QED
        BY <1>2, <3>2
    <2>2. CASE ~(ReadTakes /\ s = cur)
      <3>1. Heard(s)' = Heard(s)
        <4>1. CASE ReadTakes
          <5>1. got'[s] = got[s] /\ incoming_'[s] = incoming_[s]
            BY <2>2, <4>1 DEF ReadTakes, HandOut, TypeOK
          <5> QED
            BY <5>1 DEF Heard
        <4> QED
          BY <4>1, HostCallHears
      <3> QED
        BY <1>1, <1>2, <3>1 DEF Attentive, InTurn
    <2> QED
      BY <2>1, <2>2
  <1> QED
    BY <1>3, <1>4 DEF Attentive, DevChain, AckHeard, InTurn

\* A new stream hears nothing, and the others are not disturbed.
LEMMA SynKeepsAttentive ==
    ASSUME TypeOK, Unsaid, Attentive, NEW new \in Streams, NEW c \in Conns, NewStream(new, c)
    PROVE  Attentive'
  <1> USE DEF vars, session, connection, names, stream, caller, device
  <1>1. /\ \A s \in Streams : Heard(s)' = Heard(s)
        /\ UNCHANGED <<link, to_host, tx_ack_, dev_sent, failed>>
        /\ \A s \in Streams : s # new => Conn(s)' = Conn(s) /\ phase'[s] = phase[s]
        /\ phase'[new] # "open" /\ Heard(new) = <<>>
    BY DEF NewStream, Heard, Unsaid
  <1>2. DevChain'
    <2> SUFFICES ASSUME link = "up", NEW s \in Streams, Listening(s)'
                 PROVE  \E p : Owing(s, p)'
      BY <1>1 DEF DevChain
    <2>1. s # new /\ Listening(s) /\ Conn(s)' = Conn(s)
      BY <1>1 DEF Listening
    <2>2. PICK p : Owing(s, p)
      BY <2>1 DEF Attentive, DevChain
    <2>3. Owing(s, p)'
      BY <1>1, <2>1, <2>2 DEF Owing, Told
    <2> QED
      BY <2>3
  <1>3. AckHeard'
    BY <1>1 DEF Attentive, AckHeard, Listening
  <1>4. InTurn'
    <2> SUFFICES ASSUME NEW s \in Streams, NEW k \in 1 .. Len(Heard(s)')
                 PROVE  Heard(s)'[k] = <<Conn(s)', k>>
      BY DEF InTurn
    <2>1. CASE s = new
      BY <1>1, <2>1, EmptySeq
    <2>2. CASE s # new
      BY <1>1, <2>2 DEF Attentive, InTurn
    <2> QED
      BY <2>1, <2>2
  <1> QED
    BY <1>2, <1>3, <1>4 DEF Attentive

\* What the device sends follows what it sent, and a SYN is not of a stream that
\* listens.
LEMMA DeviceKeepsAttentive ==
    ASSUME TypeOK, PortsInOrder, SynFirst, NoneYet, SynPhase, Attentive, Device
    PROVE  Attentive'
  <1> USE DEF vars, session, connection, names, stream, caller, device
  <1>1. UNCHANGED <<link, tx_ack_, failed, phase, got, incoming_, local_port_, remote_port_>>
    BY DEF Device, DevTurn, DevSyn, DevRefuses, DevData, DevEnds, DevTakes, DevSend, DevReset,
           DevControl
  <1>2. \A s \in Streams : Heard(s)' = Heard(s) /\ Conn(s)' = Conn(s)
    BY <1>1 DEF Heard, Conn
  <1>3. AckHeard' /\ InTurn'
    BY <1>1, <1>2 DEF Attentive, AckHeard, InTurn, Listening
  <1>4. DevChain'
    <2> SUFFICES ASSUME link = "up", NEW s \in Streams, Listening(s)
                 PROVE  \E p : Owing(s, p)'
      BY <1>1 DEF DevChain, Listening
    <2>1. PICK p : Owing(s, p)
      BY DEF Attentive, DevChain
    <2>2. PICK c \in Conns : c = Conn(s)
      BY ConnType
    <2>3. PICK n \in Nat : n = Len(to_host)
      BY LenProperties DEF TypeOK
    <2>4. p[n] \in Nat /\ p[n] = dev_sent[c] + 1 /\ dev_sent[c] \in Nat
      <3>1. Rising(p, n) /\ n \in 0 .. n /\ p[n] = dev_sent[c] + 1
        BY <2>1, <2>2, <2>3 DEF Owing
      <3> QED
        BY <3>1 DEF Rising, TypeOK
    <2>5. CASE to_host' = to_host /\ dev_sent'[c] = dev_sent[c]
      <3>1. Owing(s, p)'
        BY <1>2, <2>1, <2>2, <2>5 DEF Owing, Told
      <3> QED
        BY <3>1
    <2>6. ASSUME NEW f \in DevFrames, to_host' = Append(to_host, f), f.conn # c,
                 dev_sent'[c] = dev_sent[c]
          PROVE  \E q : Owing(s, q)'
      <3>1. PICK y \in Nat : y = p[n]
        BY <2>4
      <3>2. Told(f, c, p[Len(to_host)], y) /\ y = dev_sent'[c] + 1 /\ p[Len(to_host)] <= y
        BY <2>3, <2>4, <2>6, <3>1 DEF Told
      <3> QED
        BY <1>2, <2>1, <2>2, <2>6, <3>2, OwingAppend
    <2>7. ASSUME NEW f \in DevFrames, to_host' = Append(to_host, f), f.conn = c,
                 f.seq = dev_sent[c] + 1, dev_sent'[c] = dev_sent[c] + Len(f.data)
          PROVE  \E q : Owing(s, q)'
      <3>0. Len(f.data) \in Nat
        BY LenProperties DEF DevFrames
      <3>1. PICK y \in Nat : y = p[n] + Len(f.data)
        BY <2>4, <3>0
      <3>2. Told(f, c, p[Len(to_host)], y)
        BY <2>3, <2>4, <2>7, <3>1 DEF Told
      <3>3. y = dev_sent'[c] + 1 /\ p[Len(to_host)] <= y
        BY <2>3, <2>4, <2>7, <3>0, <3>1
      <3> QED
        BY <1>2, <2>1, <2>2, <2>7, <3>2, <3>3, OwingAppend
    <2>8. ASSUME NEW d \in Conns, SynTurn(d)
          PROVE  d # c
      <3>1. 1 \in 1 .. Len(to_dev) /\ to_dev[1].flags = "SYN" /\ to_dev[1].conn = d
        BY <2>8, EmptySeq, LenProperties DEF SynTurn, TypeOK
      <3>2. s <= opens /\ phase[s] = "open"
        BY UsedWasOpened DEF Listening
      <3> QED
        BY <2>2, <3>1, <3>2 DEF SynPhase
    <2>9. CASE \E d \in Conns : SynTurn(d)
      BY <2>5, <2>6, <2>8, <2>9 DEF SynTurn
    <2>10. ASSUME NEW d \in Conns \cup {NoConn}, LateTurn(d)
           PROVE  \E q : Owing(s, q)'
      <3>1. CASE to_host' = to_host /\ dev_sent' = dev_sent
        BY <2>5, <3>1
      <3>2. ASSUME NEW f \in DevFrames, f.conn = d, to_host' = Append(to_host, f),
                   d \in Conns => /\ f.seq = dev_sent[d] + 1
                                  /\ dev_sent'[d] = dev_sent[d] + Len(f.data)
            PROVE  \E q : Owing(s, q)'
        <4>1. CASE d = c
          BY <2>7, <3>2, <4>1
        <4>2. CASE d # c
          BY <2>6, <2>10, <3>2, <4>2 DEF LateTurn
        <4> QED
          BY <4>1, <4>2
      <3> QED
        BY <2>10, <3>1, <3>2 DEF LateTurn
    <2> QED
      BY <2>9, <2>10, DeviceTurns
  <1> QED
    BY <1>3, <1>4 DEF Attentive
-----------------------------------------------------------------------------
(* Together.                                                               *)

\* The invariant holds at first.
LEMMA InitOInv == Init => OInv
  <1> SUFFICES ASSUME Init PROVE OInv
    OBVIOUS
  <1>1. \A s \in Streams : Heard(s) = <<>>
    BY ConcatEmptySeq, EmptySeq DEF Init, Heard
  <1>2. Asked
    BY DEF Init, Asked, Answering, SynPhase
  <1>3. Mannered
    BY DEF Init, Mannered, Discipline, SentWithin
  <1>4. Attentive
    BY <1>1, EmptySeq DEF Init, Attentive, DevChain, AckHeard, InTurn, Listening
  <1> QED
    BY <1>2, <1>3, <1>4 DEF OInv

\* The port counter does not go back.
LEMMA WrapIsLate == TypeOK /\ [Next]_vars /\ NoWrap' => NoWrap
  <1> SUFFICES ASSUME TypeOK, [Next]_vars, NoWrap' PROVE NoWrap
    OBVIOUS
  <1>1. CASE \E svc \in Services : OpenSyn(svc)
    BY <1>1, MuxLinkAssumption DEF OpenSyn, TypeOK, NoWrap
  <1>2. CASE HostCall
    <2>1. UNCHANGED opens
      BY <1>2 DEF HostCall, Continue, OpenStep, ReadStep, WriteStep, OpenSkips, OpenRefused,
          OpenTimesOut, OpenSucceeds, OpenAckFails, OpenAnswered, ReadExact, ReadAll, ReadSkips,
          ReadReset, ReadTakes, ReadAckFails, ReadTimesOut, ReadFrame, Write, WriteChunk,
          WriteFails, Close, ConnClose, Drop, connection
    <2> QED
      BY <2>1 DEF NoWrap
  <1>3. CASE Device \/ UNCHANGED vars
    BY <1>3, DeviceLeavesHost DEF vars, connection, NoWrap
  <1> QED
    BY <1>1, <1>2, <1>3 DEF Next, Call, HostCall

\* OInv is inductive, given the invariants before it.
LEMMA NextOInv == TypeOK /\ IInv /\ CInv /\ SInv /\ OInv /\ [Next]_vars => OInv'
  <1> SUFFICES ASSUME TypeOK, IInv, CInv, SInv, OInv, [Next]_vars PROVE OInv'
    OBVIOUS
  <1> USE DEF vars, session, connection, names, stream, caller, device
  <1>1. Calling /\ Unsaid /\ Wanted /\ NoneYet
    BY DEF CInv, SInv, Calls, Sends
  <1>2. OneAtATime => Mannered'
    BY <1>1, DisciplineKept, SentWithinKept DEF OInv, Mannered
  <1>3. ASSUME NoWrap'
        PROVE  /\ NoWrap /\ PortsInOrder /\ FreshUnused /\ SynFirst /\ SynUnanswered
               /\ Answering /\ SynPhase
    <2>1. NoWrap
      BY <1>3, WrapIsLate
    <2> QED
      BY <2>1 DEF IInv, Wires, CInv, Closes, OInv, Asked
  <1>4. ASSUME NoWrap', NEW svc \in Services, OpenSyn(svc)
        PROVE  \E new \in Streams, c \in Conns : NewStream(new, c)
    BY <1>1, <1>3, <1>4, OpenSynIsNew
  <1>5. ASSUME NoWrap'
        PROVE  Asked'
    <2>1. SynPhase'
      BY <1>1, <1>3, <1>5, SynPhaseKept
    <2>2. CASE HostCall
      <3>1. HostTakes /\ UNCHANGED <<local_port_, remote_port_, dev_state>>
        BY <1>3, <1>5, <2>2, HostCallShape DEF HostShape
      <3> QED
        BY <1>3, <1>5, <2>1, <2>2, <3>1, CallKeepsAnswering DEF Asked
    <2>3. CASE \E svc \in Services : OpenSyn(svc)
      BY <1>3, <1>4, <1>5, <2>1, <2>3, SynKeepsAnswering DEF Asked
    <2>4. CASE Device
      BY <1>1, <1>3, <1>5, <2>1, <2>4, DeviceKeepsAnswering DEF Asked
    <2>5. CASE UNCHANGED vars
      <3>1. Answering'
        BY <1>3, <1>5, <2>5 DEF Answering, Conn
      <3> QED
        BY <2>1, <3>1 DEF Asked
    <2> QED
      BY <2>2, <2>3, <2>4, <2>5 DEF Next, Call, HostCall
  <1>6. ASSUME OneAtATime, NoWrap'
        PROVE  Attentive'
    <2>1. Attentive
      BY <1>3, <1>6 DEF OInv
    <2>2. CASE HostCall
      BY <1>1, <1>3, <1>6, <2>2, CallKeepsAttentive
    <2>3. CASE \E svc \in Services : OpenSyn(svc)
      BY <1>1, <1>4, <1>6, <2>1, <2>3, SynKeepsAttentive
    <2>4. CASE Device
      BY <1>1, <1>3, <1>6, <2>1, <2>4, DeviceKeepsAttentive
    <2>5. CASE UNCHANGED vars
      BY <2>1, <2>5 DEF Attentive, DevChain, AckHeard, InTurn, Owing, Told, Listening, Heard, Conn
    <2> QED
      BY <2>2, <2>3, <2>4, <2>5 DEF Next, Call, HostCall
  <1> QED
    BY <1>2, <1>5, <1>6 DEF OInv

\* Everything MuxLink keeps.
LinkInv == TypeOK /\ IInv /\ CInv /\ SInv /\ OInv

\* It holds in every state.
LEMMA LinkInvHolds == Spec => []LinkInv
  <1>1. Init => LinkInv
    BY InitType, InitIInv, InitCInv, InitSInv, InitOInv DEF LinkInv
  <1>2. LinkInv /\ [Next]_vars => LinkInv'
    BY NextType, NextIInv, NextCInv, NextSInv, NextOInv DEF LinkInv, CInv
  <1> QED
    BY <1>1, <1>2, PTL DEF Spec

\* The numbers of the two headers are true: Stream::write numbers the data it sends
\* after what the device took, Session::send leaves out no frame number and repeats
\* none while no send fails, and, on a mux that is used one exchange at a time, all
\* that receive_more told the device to forget has reached the buffer.
THEOREM NumbersTrue == Spec => []SequencesHonest
  <1>1. LinkInv => SequencesHonest
    <2> SUFFICES ASSUME LinkInv PROVE SequencesHonest
      OBVIOUS
    <2>1. HostSeqContiguous /\ MuxSeqAdvances
      BY SInvImplies DEF LinkInv
    <2>2. AckedIsDelivered
      BY DEF LinkInv, OInv, Attentive, AckHeard, Listening, AckedIsDelivered
    <2> QED
      BY <2>1, <2>2 DEF SequencesHonest
  <1> QED
    BY <1>1, LinkInvHolds, PTL
-----------------------------------------------------------------------------
(* The byte channel.  First, what it is made of, stream by stream.         *)

\* What ByteChannel sees of stream s.
StOf(s) == IF phase[s] \in {"none", "opening"} THEN "new"
           ELSE IF phase[s] = "open" THEN "open" ELSE "over"
OutOf(s) == [i \in 1 .. Len(got[s]) |-> IF got[s][i][1] = Conn(s) THEN got[s][i][2] ELSE 0]

\* What a step leaves alone of it.
SameSt(s)  == StOf(s)' = StOf(s)
SameWr(s)  == tx_seq_'[s] = tx_seq_[s]
SameTk(s)  == dev_rcvd'[Conn(s)'] = dev_rcvd[Conn(s)]
SamePr(s)  == dev_sent'[Conn(s)'] = dev_sent[Conn(s)]
SameOut(s) == OutOf(s)' = OutOf(s)
Same(s)    == SameSt(s) /\ SameWr(s) /\ SameTk(s) /\ SamePr(s) /\ SameOut(s)

\* What the actions of ByteChannel do to it.
Opens(s) == /\ StOf(s) = "new" /\ StOf(s)' = "open"
            /\ SameWr(s) /\ SameTk(s) /\ SamePr(s) /\ SameOut(s)

Ends(s) == /\ StOf(s) # "over" /\ StOf(s)' = "over"
           /\ SameWr(s) /\ SameTk(s) /\ SamePr(s) /\ SameOut(s)

Wrote(s, n) == /\ StOf(s) = "open" /\ tx_seq_'[s] = tx_seq_[s] + n
               /\ SameSt(s) /\ SameTk(s) /\ SamePr(s) /\ SameOut(s)

Took(s, n) == /\ dev_rcvd[Conn(s)] + n <= tx_seq_[s] - 1
              /\ dev_rcvd'[Conn(s)'] = dev_rcvd[Conn(s)] + n
              /\ SameSt(s) /\ SameWr(s) /\ SamePr(s) /\ SameOut(s)

Produced(s, n) == /\ StOf(s) # "new" /\ dev_sent'[Conn(s)'] = dev_sent[Conn(s)] + n
                  /\ SameSt(s) /\ SameWr(s) /\ SameTk(s) /\ SameOut(s)

WasRead(s, n) == /\ StOf(s) = "open" /\ Len(OutOf(s)) + n <= dev_sent[Conn(s)]
                 /\ OutOf(s)' = OutOf(s) \o [k \in 1 .. n |-> Len(OutOf(s)) + k]
                 /\ SameSt(s) /\ SameWr(s) /\ SameTk(s) /\ SamePr(s)

\* Stream s moves as the channel does, or stays.
ChannelMove(s) ==
    \/ Same(s) \/ Opens(s) \/ Ends(s)
    \/ \E n \in 1 .. MaxUnits : Wrote(s, n) \/ Took(s, n) \/ Produced(s, n) \/ WasRead(s, n)

\* A function that changes at one place.
LEMMA OnePlace ==
    ASSUME NEW S, NEW f, NEW g, NEW s \in S, NEW v,
           f = [t \in S |-> f[t]], g = [t \in S |-> g[t]],
           g[s] = v, \A t \in S \ {s} : g[t] = f[t]
    PROVE  g = [f EXCEPT ![s] = v]
  OBVIOUS

\* A step that moves one stream as the channel does, and no other, is the channel's.
LEMMA ChannelStep ==
    ASSUME TypeOK, NEW s \in Streams, \A t \in Streams \ {s} : Same(t), ChannelMove(s)
    PROVE  [Channel!Next]_(Channel!vars)
  <1> DEFINE st == [t \in Streams |-> StOf(t)]
             wr == [t \in Streams |-> tx_seq_[t] - 1]
             tk == [t \in Streams |-> dev_rcvd[Conn(t)]]
             pr == [t \in Streams |-> dev_sent[Conn(t)]]
             ot == [t \in Streams |-> OutOf(t)]
  <1>1. /\ Channel!vars = <<st, wr, tk, pr, ot>>
        /\ Channel!vars' = <<st', wr', tk', pr', ot'>>
    BY DEF Channel!vars, StOf, OutOf
  <1>2. /\ \A t \in Streams : st[t] = StOf(t) /\ st'[t] = StOf(t)'
        /\ \A t \in Streams : wr[t] = tx_seq_[t] - 1 /\ wr'[t] = tx_seq_'[t] - 1
        /\ \A t \in Streams : tk[t] = dev_rcvd[Conn(t)] /\ tk'[t] = dev_rcvd'[Conn(t)']
        /\ \A t \in Streams : pr[t] = dev_sent[Conn(t)] /\ pr'[t] = dev_sent'[Conn(t)']
        /\ \A t \in Streams : ot[t] = OutOf(t) /\ ot'[t] = OutOf(t)'
    OBVIOUS
  <1>3. /\ st = [t \in Streams |-> st[t]] /\ st' = [t \in Streams |-> st'[t]]
        /\ wr = [t \in Streams |-> wr[t]] /\ wr' = [t \in Streams |-> wr'[t]]
        /\ tk = [t \in Streams |-> tk[t]] /\ tk' = [t \in Streams |-> tk'[t]]
        /\ pr = [t \in Streams |-> pr[t]] /\ pr' = [t \in Streams |-> pr'[t]]
        /\ ot = [t \in Streams |-> ot[t]] /\ ot' = [t \in Streams |-> ot'[t]]
    OBVIOUS
  <1>4. /\ \A t \in Streams : Channel!Open(t) <=>
               st[t] = "new" /\ st' = [st EXCEPT ![t] = "open"]
               /\ wr' = wr /\ tk' = tk /\ pr' = pr /\ ot' = ot
        /\ \A t \in Streams : Channel!End(t) <=>
               st[t] # "over" /\ st' = [st EXCEPT ![t] = "over"]
               /\ wr' = wr /\ tk' = tk /\ pr' = pr /\ ot' = ot
    BY DEF Channel!Open, Channel!End, StOf, OutOf
  <1>5. \A t \in Streams, n \in 1 .. MaxUnits : Channel!Write(t, n) <=>
               st[t] = "open" /\ wr' = [wr EXCEPT ![t] = wr[t] + n]
               /\ st' = st /\ tk' = tk /\ pr' = pr /\ ot' = ot
    BY DEF Channel!Write, StOf, OutOf
  <1>6. \A t \in Streams, n \in 1 .. MaxUnits : Channel!Take(t, n) <=>
               tk[t] + n <= wr[t] /\ tk' = [tk EXCEPT ![t] = tk[t] + n]
               /\ st' = st /\ wr' = wr /\ pr' = pr /\ ot' = ot
    BY DEF Channel!Take, StOf, OutOf
  <1>7. \A t \in Streams, n \in 1 .. MaxUnits : Channel!Produce(t, n) <=>
               st[t] # "new" /\ pr' = [pr EXCEPT ![t] = pr[t] + n]
               /\ st' = st /\ wr' = wr /\ tk' = tk /\ ot' = ot
    BY DEF Channel!Produce, StOf, OutOf
  <1>8. \A t \in Streams, n \in 1 .. MaxUnits : Channel!Read(t, n) <=>
               st[t] = "open" /\ Len(ot[t]) + n <= pr[t]
               /\ ot' = [ot EXCEPT ![t] = ot[t] \o [k \in 1 .. n |-> Len(ot[t]) + k]]
               /\ st' = st /\ wr' = wr /\ tk' = tk /\ pr' = pr
    BY DEF Channel!Read, StOf, OutOf
  <1> HIDE DEF st, wr, tk, pr, ot
  <1>9. /\ SameSt(s) => st' = st
        /\ SameWr(s) => wr' = wr
        /\ SameTk(s) => tk' = tk
        /\ SamePr(s) => pr' = pr
        /\ SameOut(s) => ot' = ot
    <2>1. SameSt(s) => st' = st
      BY <1>2, <1>3 DEF Same, SameSt
    <2>2. SameWr(s) => wr' = wr
      BY <1>2, <1>3 DEF Same, SameWr
    <2>3. SameTk(s) => tk' = tk
      BY <1>2, <1>3 DEF Same, SameTk
    <2>4. SamePr(s) => pr' = pr
      BY <1>2, <1>3 DEF Same, SamePr
    <2>5. SameOut(s) => ot' = ot
      BY <1>2, <1>3 DEF Same, SameOut
    <2> QED
      BY <2>1, <2>2, <2>3, <2>4, <2>5
  <1>10. /\ \A t \in Streams \ {s} : st'[t] = st[t] /\ wr'[t] = wr[t] /\ tk'[t] = tk[t]
                                    /\ pr'[t] = pr[t] /\ ot'[t] = ot[t]
    BY <1>2 DEF Same, SameSt, SameWr, SameTk, SamePr, SameOut
  <1>11. CASE Same(s)
    <2>1. <<st', wr', tk', pr', ot'>> = <<st, wr, tk, pr, ot>>
      BY <1>9, <1>11 DEF Same
    <2> QED
      BY <1>1, <2>1
  <1>12. CASE Opens(s)
    <2>1. st[s] = "new" /\ st'[s] = "open" /\ wr' = wr /\ tk' = tk /\ pr' = pr /\ ot' = ot
      BY <1>2, <1>9, <1>12 DEF Opens
    <2>2. st' = [st EXCEPT ![s] = "open"]
      BY ONLY <1>3, <1>10, <2>1, s \in Streams, OnePlace
    <2>3. Channel!Open(s)
      BY <1>4, <2>1, <2>2
    <2> QED
      BY <2>3 DEF Channel!Next
  <1>13. CASE Ends(s)
    <2>1. st[s] # "over" /\ st'[s] = "over" /\ wr' = wr /\ tk' = tk /\ pr' = pr /\ ot' = ot
      BY <1>2, <1>9, <1>13 DEF Ends
    <2>2. st' = [st EXCEPT ![s] = "over"]
      BY ONLY <1>3, <1>10, <2>1, s \in Streams, OnePlace
    <2>3. Channel!End(s)
      BY <1>4, <2>1, <2>2
    <2> QED
      BY <2>3 DEF Channel!Next
  <1>14. ASSUME NEW n \in 1 .. MaxUnits, Wrote(s, n)
         PROVE  Channel!Next
    <2>1. st[s] = "open" /\ st' = st /\ tk' = tk /\ pr' = pr /\ ot' = ot
      BY <1>2, <1>9, <1>14 DEF Wrote
    <2>2. wr'[s] = wr[s] + n
      <3>1. tx_seq_[s] \in Nat /\ n \in Nat /\ tx_seq_'[s] = tx_seq_[s] + n
        BY <1>14, MuxLinkAssumption DEF Wrote, TypeOK
      <3> QED
        BY <1>2, <3>1
    <2>3. wr' = [wr EXCEPT ![s] = wr[s] + n]
      BY ONLY <1>3, <1>10, <2>2, s \in Streams, OnePlace
    <2>4. Channel!Write(s, n)
      BY <1>5, <2>1, <2>3
    <2> QED
      BY <2>4 DEF Channel!Next
  <1>15. ASSUME NEW n \in 1 .. MaxUnits, Took(s, n)
         PROVE  Channel!Next
    <2>1. tk[s] + n <= wr[s] /\ st' = st /\ wr' = wr /\ pr' = pr /\ ot' = ot
      BY <1>2, <1>9, <1>15 DEF Took
    <2>2. tk'[s] = tk[s] + n
      BY <1>2, <1>15 DEF Took
    <2>3. tk' = [tk EXCEPT ![s] = tk[s] + n]
      BY ONLY <1>3, <1>10, <2>2, s \in Streams, OnePlace
    <2>4. Channel!Take(s, n)
      BY <1>6, <2>1, <2>3
    <2> QED
      BY <2>4 DEF Channel!Next
  <1>16. ASSUME NEW n \in 1 .. MaxUnits, Produced(s, n)
         PROVE  Channel!Next
    <2>1. st[s] # "new" /\ st' = st /\ wr' = wr /\ tk' = tk /\ ot' = ot
      BY <1>2, <1>9, <1>16 DEF Produced
    <2>2. pr'[s] = pr[s] + n
      BY <1>2, <1>16 DEF Produced
    <2>3. pr' = [pr EXCEPT ![s] = pr[s] + n]
      BY ONLY <1>3, <1>10, <2>2, s \in Streams, OnePlace
    <2>4. Channel!Produce(s, n)
      BY <1>7, <2>1, <2>3
    <2> QED
      BY <2>4 DEF Channel!Next
  <1>17. ASSUME NEW n \in 1 .. MaxUnits, WasRead(s, n)
         PROVE  Channel!Next
    <2>1. st[s] = "open" /\ Len(ot[s]) + n <= pr[s] /\ st' = st /\ wr' = wr /\ tk' = tk /\ pr' = pr
      BY <1>2, <1>9, <1>17 DEF WasRead
    <2>2. ot'[s] = ot[s] \o [k \in 1 .. n |-> Len(ot[s]) + k]
      BY <1>2, <1>17 DEF WasRead
    <2>3. ot' = [ot EXCEPT ![s] = ot[s] \o [k \in 1 .. n |-> Len(ot[s]) + k]]
      BY ONLY <1>3, <1>10, <2>2, s \in Streams, OnePlace
    <2>4. Channel!Read(s, n)
      BY <1>8, <2>1, <2>3
    <2> QED
      BY <2>4 DEF Channel!Next
  <1> QED
    BY <1>11, <1>12, <1>13, <1>14, <1>15, <1>16, <1>17 DEF ChannelMove
-----------------------------------------------------------------------------
(* Second, what each step of the link does to it.                          *)

\* No step brings the port counter round.
Bounded == OneAtATime /\ MaxOpens < PortModulus

\* As many ports as opens are enough.
LEMMA NeverWraps == TypeOK /\ Bounded => NoWrap
  BY MuxLinkAssumption DEF TypeOK, Bounded, NoWrap

\* The caller was handed the first units, and no more than were sent.
OutsCount ==
    \A s \in Streams : /\ OutOf(s) = [i \in 1 .. Len(got[s]) |-> i]
                       /\ Len(got[s]) \in Nat
                       /\ Len(got[s]) <= dev_sent[Conn(s)]

\* What the caller was handed counts from one, and was sent.
LEMMA OutIs == LinkInv /\ Bounded => OutsCount
  <1> SUFFICES ASSUME LinkInv, Bounded, NEW s \in Streams
               PROVE  /\ OutOf(s) = [i \in 1 .. Len(got[s]) |-> i]
                      /\ Len(got[s]) \in Nat
                      /\ Len(got[s]) <= dev_sent[Conn(s)]
    BY DEF OutsCount
  <1>1. NoWrap /\ TypeOK /\ Attentive /\ HeardExact
    BY NeverWraps DEF LinkInv, Bounded, OInv, IInv, Ears
  <1>2. /\ got[s] \in Seq(Units) /\ incoming_[s] \in Seq(Units)
        /\ Len(got[s]) \in Nat /\ Len(incoming_[s]) \in Nat
        /\ Len(Heard(s)) = Len(got[s]) + Len(incoming_[s])
    BY <1>1, HeardType, ConcatProperties, LenProperties DEF Heard
  <1>3. \A i \in 1 .. Len(got[s]) : i \in 1 .. Len(Heard(s)) /\ Heard(s)[i] = got[s][i]
    <2> SUFFICES ASSUME NEW i \in 1 .. Len(got[s])
                 PROVE  i \in 1 .. Len(Heard(s)) /\ Heard(s)[i] = got[s][i]
      OBVIOUS
    <2>1. i \in 1 .. Len(got[s]) + Len(incoming_[s]) /\ i <= Len(got[s])
      <3>1. PICK a \in Nat, b \in Nat : a = Len(got[s]) /\ b = Len(incoming_[s])
        BY ONLY <1>2
      <3>2. i \in 1 .. a
        BY <3>1
      <3>3. i \in 1 .. a + b /\ i <= a
        BY ONLY <3>2, a \in Nat, b \in Nat
      <3> QED
        BY <3>1, <3>3
    <2>2. (got[s] \o incoming_[s])[i] = got[s][i]
      BY <1>2, <2>1, ConcatProperties
    <2> QED
      BY <1>2, <2>1, <2>2 DEF Heard
  <1>4. \A i \in 1 .. Len(got[s]) :
            /\ got[s][i] = <<Conn(s), i>>
            /\ got[s][i][2] <= dev_sent[Conn(s)]
    BY <1>1, <1>3 DEF Attentive, InTurn, HeardExact
  <1>5. OutOf(s) = [i \in 1 .. Len(got[s]) |-> i]
    BY <1>4 DEF OutOf
  <1>6. Len(got[s]) <= dev_sent[Conn(s)]
    <2>1. CASE Len(got[s]) = 0
      BY <1>1, <2>1, ConnType, SMTT(30) DEF TypeOK
    <2>2. CASE Len(got[s]) # 0
      <3>1. Len(got[s]) \in 1 .. Len(got[s])
        BY <1>2, <2>2
      <3> QED
        BY <1>4, <3>1
    <2> QED
      BY <2>1, <2>2
  <1> QED
    BY <1>2, <1>5, <1>6

\* To go on counting.
LEMMA CountOn ==
    ASSUME NEW m \in Nat, NEW n \in Nat
    PROVE  [i \in 1 .. m |-> i] \o [k \in 1 .. n |-> m + k] = [i \in 1 .. m + n |-> i]
  <1> DEFINE a == [i \in 1 .. m |-> i]
             b == [k \in 1 .. n |-> m + k]
             c == [i \in 1 .. m + n |-> i]
  <1>1. /\ a \in Seq(Nat) /\ b \in Seq(Nat) /\ c \in Seq(Nat)
        /\ Len(a) = m /\ Len(b) = n /\ Len(c) = m + n
    OBVIOUS
  <1>2. /\ \A i \in 1 .. m : a[i] = i
        /\ \A k \in 1 .. n : b[k] = m + k
        /\ \A i \in 1 .. m + n : c[i] = i
    OBVIOUS
  <1> HIDE DEF a, b, c
  <1>3. /\ a \o b \in Seq(Nat) /\ Len(a \o b) = m + n
        /\ \A i \in 1 .. m + n : (a \o b)[i] = IF i <= m THEN a[i] ELSE b[i - m]
    BY <1>1, ConcatProperties
  <1>4. \A i \in 1 .. m + n : (a \o b)[i] = c[i]
    <2> SUFFICES ASSUME NEW i \in 1 .. m + n PROVE (a \o b)[i] = c[i]
      OBVIOUS
    <2>1. CASE i <= m
      BY <1>2, <1>3, <2>1
    <2>2. CASE ~(i <= m)
      <3>1. i - m \in 1 .. n /\ m + (i - m) = i
        BY <2>2
      <3> QED
        BY <1>2, <1>3, <2>2, <3>1
    <2> QED
      BY <2>1, <2>2
  <1>5. a \o b = c
    BY <1>1, <1>3, <1>4, SeqEqual
  <1> QED
    BY <1>5 DEF a, b, c

\* A call that hands out n more units reads them from the channel.
LEMMA HandsOn ==
    ASSUME OutsCount, OutsCount', NEW s \in Streams, phase[s] = "open",
           NEW n \in 0 .. MaxUnits, Len(got'[s]) = Len(got[s]) + n,
           SameSt(s), SameWr(s), SameTk(s), SamePr(s)
    PROVE  ChannelMove(s)
  <1>1. /\ OutOf(s) = [i \in 1 .. Len(got[s]) |-> i] /\ Len(got[s]) \in Nat
        /\ OutOf(s)' = [i \in 1 .. Len(got'[s]) |-> i]
        /\ Len(got'[s]) <= dev_sent'[Conn(s)']
    BY DEF OutsCount
  <1>2. n \in Nat /\ Len(OutOf(s)) = Len(got[s])
    BY <1>1, MuxLinkAssumption
  <1>3. CASE n = 0
    <2>1. SameOut(s)
      BY <1>1, <1>3 DEF SameOut
    <2> QED
      BY <2>1 DEF ChannelMove, Same
  <1>4. CASE n # 0
    <2>1. OutOf(s)' = OutOf(s) \o [k \in 1 .. n |-> Len(OutOf(s)) + k]
      BY <1>1, <1>2, CountOn
    <2>2. n \in 1 .. MaxUnits
      BY <1>2, <1>4
    <2>3. Len(OutOf(s)) + n <= dev_sent[Conn(s)]
      BY <1>1, <1>2 DEF SamePr
    <2>4. StOf(s) = "open"
      BY DEF StOf
    <2> QED
      BY <2>1, <2>2, <2>3, <2>4 DEF ChannelMove, WasRead
  <1> QED
    BY <1>3, <1>4

\* OpenSyn gives a stream a connection on which nothing was sent yet.
LEMMA SynMoves ==
    ASSUME TypeOK, PortsInOrder, Unsaid, FreshUnused, NoneYet, OutsCount,
           NEW new \in Streams, NEW c \in Conns, NewStream(new, c)
    PROVE  ChannelMove(new) /\ \A t \in Streams \ {new} : Same(t)
  <1> USE DEF vars, session, connection, names, stream, caller, device
  <1>1. ASSUME NEW t \in Streams \ {new}
        PROVE  Same(t)
    <2>1. /\ phase'[t] = phase[t] /\ Conn(t)' = Conn(t)
          /\ UNCHANGED <<tx_seq_, got, dev_rcvd, dev_sent>>
      BY DEF NewStream
    <2> QED
      BY <2>1 DEF Same, SameSt, SameWr, SameTk, SamePr, SameOut, StOf, OutOf
  <1>2. opens \in Nat /\ new = opens + 1 /\ Conn(new) \in Conns
    <2>1. opens \in Nat
      BY MuxLinkAssumption DEF TypeOK
    <2>2. new = opens + 1
      BY DEF NewStream
    <2>3. Conn(new) \in Conns
      BY ConnType
    <2> QED
      BY <2>1, <2>2, <2>3
  <1>3. Fresh(Conn(new))
    <2>1. Conn(new)[1] = 0
      BY <1>2 DEF PortsInOrder, Conn
    <2> QED
      BY <1>2, <2>1 DEF Fresh
  <1>4. \A d \in Conns : Fresh(d) => dev_rcvd[d] = 0 /\ dev_sent[d] = 0
    BY DEF FreshUnused, NoneYet
  <1>5. SameTk(new) /\ SamePr(new) /\ SameWr(new)
    <2>1. Conn(new)' = c /\ Fresh(c) /\ UNCHANGED <<tx_seq_, dev_rcvd, dev_sent>>
      BY DEF NewStream
    <2> QED
      BY <1>2, <1>3, <1>4, <2>1 DEF SameTk, SamePr, SameWr
  <1>6. SameOut(new)
    <2>1. got' = got /\ phase[new] = "none"
      BY DEF NewStream
    <2>2. Heard(new) = <<>>
      BY <2>1 DEF Unsaid
    <2>3. Len(got[new]) = 0
      <3>1. got[new] \in Seq(Units) /\ incoming_[new] \in Seq(Units)
        BY HeardType
      <3>2. /\ Len(got[new]) + Len(incoming_[new]) = 0
            /\ Len(got[new]) \in Nat /\ Len(incoming_[new]) \in Nat
        BY <2>2, <3>1, ConcatProperties, LenProperties, EmptySeq DEF Heard
      <3>3. PICK a \in Nat, b \in Nat : a = Len(got[new]) /\ b = Len(incoming_[new])
        BY ONLY <3>2
      <3>4. a + b = 0
        BY <3>2, <3>3
      <3>5. a = 0
        BY ONLY <3>4, a \in Nat, b \in Nat
      <3> QED
        BY <3>3, <3>5
    <2> QED
      BY <2>1, <2>3 DEF SameOut, OutOf
  <1>7. Same(new) \/ Ends(new)
    <2>1. phase[new] = "none" /\ phase'[new] \in {"opening", "failed"}
      BY DEF NewStream
    <2> QED
      BY <1>5, <1>6, <2>1 DEF Same, Ends, SameSt, StOf
  <1> QED
    BY <1>1, <1>7 DEF ChannelMove

\* A step of the host moves at most the stream it is for.
HostKeeps(t) == phase'[t] = phase[t] /\ tx_seq_'[t] = tx_seq_[t] /\ got'[t] = got[t]

\* A step of a call moves one stream at most.
LEMMA HostMoves ==
    ASSUME LinkInv, Bounded, OutsCount, OutsCount', HostCall
    PROVE  \E s \in Streams : ChannelMove(s) /\ \A t \in Streams \ {s} : Same(t)
  <1> USE DEF vars, session, connection, names, stream, caller, device
  <1>0. TypeOK /\ Calling /\ Unsaid /\ Wanted /\ Discipline /\ PortsInOrder /\ OneAtATime
    BY NeverWraps DEF LinkInv, IInv, CInv, SInv, Calls, OInv, Mannered, Bounded
  <1>1. /\ \A t \in Streams : Conn(t)' = Conn(t)
        /\ dev_sent' = dev_sent /\ dev_rcvd' = dev_rcvd
    <2>1. UNCHANGED <<local_port_, remote_port_, dev_sent>>
      BY <1>0, HostCallShape DEF HostShape
    <2>2. UNCHANGED dev_rcvd
      BY DEF HostCall, Continue, OpenStep, ReadStep, WriteStep, OpenSkips,
          OpenRefused, OpenTimesOut, OpenSucceeds, OpenAckFails, OpenAnswered, ReadExact, ReadAll,
          ReadSkips, ReadReset, ReadTakes, ReadAckFails, ReadTimesOut, ReadFrame, Write, WriteChunk,
          WriteFails, Close, ConnClose, Drop
    <2> QED
      BY <2>1, <2>2 DEF Conn
  <1>2. \A t \in Streams : SameTk(t) /\ SamePr(t)
    BY <1>1 DEF SameTk, SamePr
  <1>3. \A t \in Streams : got'[t] = got[t] => SameOut(t)
    BY <1>1 DEF SameOut, OutOf
  <1>4. \A t \in Streams : HostKeeps(t) => Same(t)
    BY <1>2, <1>3 DEF HostKeeps, Same, SameSt, SameWr, StOf
  <1>5. PICK me \in Streams : me = cur
    BY <1>0 DEF TypeOK
  <1>6. CASE \A t \in Streams : HostKeeps(t)
    BY <1>4, <1>5, <1>6 DEF ChannelMove
  <1>7. ASSUME NEW s \in Streams, \A t \in Streams \ {s} : HostKeeps(t), ChannelMove(s)
        PROVE  \E x \in Streams : ChannelMove(x) /\ \A t \in Streams \ {x} : Same(t)
    BY <1>4, <1>7
  <1>8. CASE OpenStep
    <2>1. CASE OpenSkips
      BY <1>6, <2>1 DEF OpenSkips, HostKeeps
    <2>2. CASE ~OpenSkips
      <3>1. op = "open" /\ phase[me] = "opening" /\ tx_seq_[me] = 1
        BY <1>0, <1>5, <1>8 DEF Calling, Unsaid, OpenStep, OpenSkips, OpenRefused, OpenTimesOut,
           OpenSucceeds, OpenAckFails, OpenAnswered
      <3>2. /\ got' = got /\ tx_seq_'[me] = 1 /\ phase'[me] \in {"open", "failed"}
            /\ \A t \in Streams \ {me} : HostKeeps(t)
        BY <1>0, <1>5, <1>8, <2>2, <3>1 DEF OpenStep, OpenRefused, OpenTimesOut, OpenSucceeds,
           OpenAckFails, OpenAnswered, OpenGivesUp, HostKeeps, TypeOK
      <3>3. SameWr(me) /\ SameOut(me) /\ SameTk(me) /\ SamePr(me)
        BY <1>2, <1>3, <3>1, <3>2 DEF SameWr
      <3>4. Opens(me) \/ Ends(me)
        BY <3>1, <3>2, <3>3 DEF Opens, Ends, StOf
      <3> QED
        BY <1>7, <3>2, <3>4 DEF ChannelMove
    <2> QED
      BY <2>1, <2>2
  <1>9. ASSUME NEW s \in Streams, NEW data \in Seq(Units), NEW n \in 0 .. MaxUnits,
               n <= Len(data), HandOut(s, data, n), UNCHANGED <<phase, tx_seq_>>, phase[s] = "open"
        PROVE  \E x \in Streams : ChannelMove(x) /\ \A t \in Streams \ {x} : Same(t)
    <2>1. got'[s] = got[s] \o SubSeq(data, 1, n) /\ \A t \in Streams \ {s} : HostKeeps(t)
      BY <1>0, <1>9 DEF HandOut, HostKeeps, TypeOK
    <2>2. got[s] \in Seq(Units) /\ Len(data) \in Nat /\ n \in Nat
      BY <1>0, HeardType, LenProperties, MuxLinkAssumption
    <2>3. SubSeq(data, 1, n) \in Seq(Units) /\ Len(SubSeq(data, 1, n)) = n
      BY <1>9, <2>2, SubSeqProperties
    <2>4. Len(got'[s]) = Len(got[s]) + n
      <3>1. PICK q \in Seq(Units) : q = SubSeq(data, 1, n)
        BY <2>3
      <3>2. PICK p \in Seq(Units) : p = got[s]
        BY <2>2
      <3>3. Len(p \o q) = Len(p) + Len(q)
        BY ONLY p \in Seq(Units), q \in Seq(Units), ConcatProperties
      <3> QED
        BY <2>1, <2>3, <3>1, <3>2, <3>3
    <2>5. SameSt(s) /\ SameWr(s) /\ SameTk(s) /\ SamePr(s)
      BY <1>2, <1>9 DEF SameSt, SameWr, StOf
    <2>6. ChannelMove(s)
      BY <1>9, <2>4, <2>5, HandsOn
    <2> QED
      BY <1>7, <2>1, <2>6
  <1>10. CASE ReadStep
    <2>1. CASE ~ReadTakes
      BY <1>6, <1>10, <2>1
         DEF ReadStep, ReadSkips, ReadReset, ReadAckFails, ReadTimesOut, ReadFrame,
         Fail, HostKeeps
    <2>2. CASE ReadTakes
      <3>1. op = "read" /\ want \in 1 .. MaxUnits /\ phase[me] = "open"
        BY <1>0, <1>5, <2>2 DEF ReadTakes, ReadFrame, Reading, Discipline, Wanted, Calling
      <3>2. Frame \in DevFrames
        BY <1>0, <2>2, ReceivedType DEF ReadTakes, ReadFrame
      <3>3. Frame.data \in Seq(Units) /\ Len(Frame.data) \in Nat
        BY <3>2, LenProperties DEF DevFrames
      <3>4. PICK n \in 0 .. MaxUnits : n = Smaller(want, Len(Frame.data)) /\ n <= Len(Frame.data)
        BY <3>1, <3>3, MuxLinkAssumption DEF Smaller
      <3>5. HandOut(me, Frame.data, n) /\ UNCHANGED <<phase, tx_seq_>>
        BY <1>5, <2>2, <3>1, <3>4 DEF ReadTakes, ReadFrame
      <3> QED
        BY <1>9, <3>1, <3>3, <3>4, <3>5
    <2> QED
      BY <2>1, <2>2
  <1>11. ASSUME NEW s \in Streams, NEW m \in 1 .. MaxUnits, ReadExact(s, m)
         PROVE  \E x \in Streams : ChannelMove(x) /\ \A t \in Streams \ {x} : Same(t)
    <2>1. incoming_[s] \in Seq(Units) /\ Len(incoming_[s]) \in Nat
      BY <1>0, HeardType, LenProperties
    <2>2. PICK n \in 0 .. MaxUnits : n = Smaller(m, Len(incoming_[s])) /\ n <= Len(incoming_[s])
      BY <2>1, MuxLinkAssumption DEF Smaller
    <2>3. HandOut(s, incoming_[s], n) /\ UNCHANGED <<phase, tx_seq_>> /\ phase[s] = "open"
      BY <1>11, <2>2 DEF ReadExact, MayCall
    <2> QED
      BY <1>9, <2>1, <2>2, <2>3
  <1>12. CASE WriteStep
    <2>1. CASE WriteFails
      BY <1>6, <2>1 DEF WriteFails, Fail, HostKeeps
    <2>2. CASE WriteChunk
      <3>1. op = "write" /\ want \in 1 .. MaxUnits /\ phase[me] = "open"
        BY <1>0, <1>5, <2>2 DEF WriteChunk, Wanted, Calling
      <3>2. PICK n \in 1 .. MaxUnits : n = Smaller(MaxPayload, want)
        BY <3>1, MuxLinkAssumption DEF Smaller
      <3>3. /\ tx_seq_'[me] = tx_seq_[me] + n /\ UNCHANGED <<phase, got>>
            /\ \A t \in Streams \ {me} : HostKeeps(t)
        BY <1>0, <1>5, <2>2, <3>2 DEF WriteChunk, SeqAfter, HostKeeps, TypeOK
      <3>4. Wrote(me, n)
        BY <1>2, <1>3, <3>1, <3>3 DEF Wrote, SameSt, StOf
      <3> QED
        BY <1>7, <3>3, <3>4 DEF ChannelMove
    <2> QED
      BY <1>12, <2>1, <2>2 DEF WriteStep
  <1>13. ASSUME NEW s \in Streams, Close(s)
         PROVE  \E x \in Streams : ChannelMove(x) /\ \A t \in Streams \ {x} : Same(t)
    <2>1. /\ phase[s] \in {"open", "closed"} /\ phase'[s] = "closed" /\ UNCHANGED <<tx_seq_, got>>
          /\ \A t \in Streams \ {s} : HostKeeps(t)
      BY <1>0, <1>13 DEF Close, HostKeeps, TypeOK
    <2>2. Same(s) \/ Ends(s)
      BY <1>2, <1>3, <2>1 DEF Same, Ends, SameSt, SameWr, StOf
    <2> QED
      BY <1>7, <2>1, <2>2 DEF ChannelMove
  <1>14. CASE ConnClose \/ Drop \/ \E s \in Streams, n \in 1 .. MaxUnits : Write(s, n)
    BY <1>6, <1>14 DEF ConnClose, Drop, Write, HostKeeps
  <1>15. ~\E s \in Streams : ReadAll(s)
    BY <1>0 DEF ReadAll
  <1> QED
    BY <1>8, <1>10, <1>11, <1>12, <1>13, <1>14, <1>15 DEF HostCall, Continue

\* A step of the device moves at most the stream whose connection it is about.
LEMMA ConnectionMoves ==
    ASSUME TypeOK, PortsInOrder, FreshUnused, NEW c \in Conns, dev_state[c] # "none",
           UNCHANGED <<phase, tx_seq_, got, local_port_, remote_port_>>,
           \A d \in Conns \ {c} : dev_rcvd'[d] = dev_rcvd[d] /\ dev_sent'[d] = dev_sent[d],
           \A s \in Streams : s <= opens /\ Conn(s) = c => ChannelMove(s)
    PROVE  \E s \in Streams : ChannelMove(s) /\ \A t \in Streams \ {s} : Same(t)
  <1>1. \A s \in Streams : Conn(s) \in Conns /\ Conn(s)' = Conn(s)
    BY ConnType DEF Conn
  <1>2. \A s \in Streams : Conn(s) # c => Same(s)
    BY <1>1 DEF Same, SameSt, SameWr, SameTk, SamePr, SameOut, StOf, OutOf
  <1>3. \A s \in Streams : Conn(s) = c => s <= opens
    <2> SUFFICES ASSUME NEW s \in Streams, Conn(s) = c, ~(s <= opens) PROVE FALSE
      OBVIOUS
    <2>1. opens \in Nat /\ s \in Nat
      BY MuxLinkAssumption DEF TypeOK, Streams
    <2>2. c[1] = 0
      BY <2>1 DEF PortsInOrder, Conn
    <2>3. Fresh(c)
      BY <2>1, <2>2 DEF Fresh
    <2> QED
      BY <2>3 DEF FreshUnused
  <1>4. CASE \E s \in Streams : Conn(s) = c
    <2>1. PICK s \in Streams : Conn(s) = c
      BY <1>4
    <2>2. ChannelMove(s)
      BY <1>3, <2>1
    <2>3. \A t \in Streams \ {s} : Conn(t) # c
      <3> SUFFICES ASSUME NEW t \in Streams, Conn(t) = c PROVE t = s
        OBVIOUS
      <3> QED
        BY <1>3, <2>1 DEF PortsInOrder, Conn
    <2> QED
      BY <1>2, <2>2, <2>3
  <1>5. CASE \A s \in Streams : Conn(s) # c
    <2>1. cur \in Streams
      BY DEF TypeOK
    <2> QED
      BY <1>2, <1>5, <2>1 DEF ChannelMove
  <1> QED
    BY <1>4, <1>5

\* Where the numbers of the device stand still, so does every stream.
LEMMA NothingMoves ==
    ASSUME TypeOK,
           UNCHANGED <<phase, tx_seq_, got, local_port_, remote_port_, dev_rcvd, dev_sent>>
    PROVE  \E s \in Streams : ChannelMove(s) /\ \A t \in Streams \ {s} : Same(t)
  <1>1. \A s \in Streams : Same(s)
    BY DEF Same, SameSt, SameWr, SameTk, SamePr, SameOut, StOf, OutOf, Conn
  <1>2. cur \in Streams
    BY DEF TypeOK
  <1> QED
    BY <1>1, <1>2 DEF ChannelMove

\* So does every step of the device.
LEMMA DeviceMoves ==
    ASSUME LinkInv, LinkInv', Bounded, Device
    PROVE  \E s \in Streams : ChannelMove(s) /\ \A t \in Streams \ {s} : Same(t)
  <1> USE DEF vars, session, connection, names, stream, caller, device
  <1>1. /\ TypeOK /\ PortsInOrder /\ FreshUnused /\ SynFirst /\ NoneYet /\ OfStreams
        /\ Begun /\ OneOpening /\ Answering
    BY NeverWraps DEF LinkInv, IInv, Wires, SInv, Calls, Sends, Chain, OInv, Asked
  <1>2. WrittenFirst'
    <2>1. TypeOK' /\ SInv'
      BY DEF LinkInv
    <2>2. NoWrap'
      BY <2>1, MuxLinkAssumption DEF TypeOK, Bounded, NoWrap
    <2> QED
      BY <2>1, <2>2 DEF SInv, Chain
  <1>3. UNCHANGED <<phase, tx_seq_, got, local_port_, remote_port_>>
    BY DEF Device, DevTurn, DevSyn, DevRefuses, DevData, DevEnds, DevTakes, DevSend, DevReset,
           DevControl
  <1>4. CASE UNCHANGED <<dev_rcvd, dev_sent>>
    BY <1>1, <1>3, <1>4, NothingMoves
  <1>5. CASE DevRefuses \/ DevEnds \/ DevControl \/ \E c \in Conns : DevReset(c)
    BY <1>4, <1>5 DEF DevRefuses, DevEnds, DevControl, DevReset
  <1>6. CASE DevSyn
    <2>1. to_dev # <<>>
      BY <1>6 DEF DevSyn, DevTakes
    <2>2. 1 \in 1 .. Len(to_dev) /\ Head(to_dev) = to_dev[1] /\ to_dev[1] \in HostFrames
      BY <1>1, <2>1, EmptySeq, LenProperties DEF TypeOK
    <2>3. PICK c \in Conns : c = to_dev[1].conn
      BY <2>2 DEF HostFrames
    <2>4. dev_state[c] = "none"
      BY <1>1, <1>6, <2>2, <2>3 DEF DevSyn, SynFirst
    <2>5. dev_rcvd[c] = 0 /\ dev_sent[c] = 0
      BY <1>1, <2>4 DEF NoneYet
    <2>6. UNCHANGED <<dev_rcvd, dev_sent>>
      BY <1>1, <1>6, <2>2, <2>3, <2>5, SMTT(30) DEF DevSyn, TypeOK
    <2> QED
      BY <1>4, <2>6
  <1>7. CASE DevData
    <2>1. to_dev # <<>>
      BY <1>7 DEF DevData, DevTakes
    <2>2. 1 \in 1 .. Len(to_dev) /\ Head(to_dev) = to_dev[1] /\ to_dev[1] \in HostFrames
      BY <1>1, <2>1, EmptySeq, LenProperties DEF TypeOK
    <2>3. PICK f \in HostFrames : f = to_dev[1]
      BY <2>2
    <2>4. PICK c \in Conns, n \in Nat : c = f.conn /\ n = f.len
      BY DEF HostFrames
    <2>5. /\ f.flags = "ACK" /\ Live(c) /\ dev_sent' = dev_sent
          /\ dev_rcvd' = [dev_rcvd EXCEPT ![c] = @ + n]
      BY <1>7, <2>2, <2>3, <2>4 DEF DevData
    <2>6. dev_rcvd \in [Conns -> Nat]
      BY <1>1 DEF TypeOK
    <2>7. CASE n = 0
      <3>1. dev_rcvd[c] \in Nat /\ dev_rcvd[c] + n = dev_rcvd[c]
        BY <2>6, <2>7
      <3>2. dev_rcvd' = dev_rcvd
        BY <2>5, <2>6, <3>1
      <3> QED
        BY <1>4, <2>5, <3>2
    <2>8. CASE n # 0
      <3>1. n \in 1 .. MaxUnits
        BY <1>1, <2>2, <2>3, <2>4, <2>5, <2>8, MuxLinkAssumption DEF OfStreams
      <3>2. \A d \in Conns \ {c} : dev_rcvd'[d] = dev_rcvd[d] /\ dev_sent'[d] = dev_sent[d]
        BY <2>5, <2>6
      <3>3. ASSUME NEW s \in Streams, s <= opens, Conn(s) = c
            PROVE  ChannelMove(s)
        <4>1. Conn(s)' = c /\ dev_rcvd'[Conn(s)'] = dev_rcvd[Conn(s)] + n
          BY <1>3, <2>5, <2>6, <3>3 DEF Conn
        <4>2. PICK a \in Nat, b \in Nat : a = dev_rcvd[Conn(s)] /\ b = tx_seq_[s]
          BY <1>1, <2>6, <3>3 DEF TypeOK
        <4>3. a + n < b
          BY <1>2, <1>3, <4>1, <4>2 DEF WrittenFirst
        <4>4. a + n <= b - 1
          BY ONLY <4>3, a \in Nat, b \in Nat, n \in Nat
        <4>5. SameSt(s) /\ SameWr(s) /\ SamePr(s) /\ SameOut(s)
          BY <1>3, <2>5, <3>3, <4>1 DEF SameSt, SameWr, SamePr, SameOut, StOf, OutOf
        <4>6. Took(s, n)
          BY <4>1, <4>2, <4>4, <4>5 DEF Took
        <4> QED
          BY <3>1, <4>6 DEF ChannelMove
      <3>4. dev_state[c] # "none"
        BY <2>5 DEF Live
      <3> QED
        BY <1>1, <1>3, <3>2, <3>3, <3>4, ConnectionMoves
    <2> QED
      BY <2>7, <2>8
  <1>8. ASSUME NEW c \in Conns, NEW n \in 1 .. MaxUnits, DevSend(c, n)
        PROVE  \E s \in Streams : ChannelMove(s) /\ \A t \in Streams \ {s} : Same(t)
    <2>1. /\ dev_state[c] = "est" /\ dev_rcvd' = dev_rcvd
          /\ dev_sent' = [dev_sent EXCEPT ![c] = @ + n]
      BY <1>8 DEF DevSend
    <2>2. dev_sent \in [Conns -> Nat]
      BY <1>1 DEF TypeOK
    <2>3. \A d \in Conns \ {c} : dev_rcvd'[d] = dev_rcvd[d] /\ dev_sent'[d] = dev_sent[d]
      BY <2>1, <2>2
    <2>4. ASSUME NEW s \in Streams, s <= opens, Conn(s) = c
          PROVE  ChannelMove(s)
      <3>1. Conn(s)' = c /\ dev_sent'[Conn(s)'] = dev_sent[Conn(s)] + n
        BY <1>3, <2>1, <2>2, <2>4 DEF Conn
      <3>2. phase[s] # "none"
        BY <1>1, <2>4 DEF Begun
      <3>3. phase[s] # "opening"
        <4> SUFFICES ASSUME phase[s] = "opening" PROVE FALSE
          OBVIOUS
        <4>1. op = "open" /\ cur = s
          BY <1>1 DEF OneOpening
        <4>2. dev_state[Conn(s)] \in {"none", "synrcvd"}
          BY <1>1, <4>1 DEF Answering
        <4> QED
          BY <2>1, <2>4, <4>2
      <3>4. StOf(s) # "new"
        BY <3>2, <3>3 DEF StOf
      <3>5. SameSt(s) /\ SameWr(s) /\ SameTk(s) /\ SameOut(s)
        BY <1>3, <2>1, <2>4, <3>1 DEF SameSt, SameWr, SameTk, SameOut, StOf, OutOf
      <3>6. Produced(s, n)
        BY <3>1, <3>4, <3>5 DEF Produced
      <3> QED
        BY <3>6 DEF ChannelMove
    <2> QED
      BY <1>1, <1>3, <2>1, <2>3, <2>4, ConnectionMoves
  <1> QED
    BY <1>5, <1>6, <1>7, <1>8 DEF Device, DevTurn
-----------------------------------------------------------------------------
(* The refinement.                                                         *)

\* Before the first open, every channel is new and empty.
LEMMA InitChannel == Init => Channel!Init
  <1> SUFFICES ASSUME Init PROVE Channel!Init
    OBVIOUS
  <1>1. \A s \in Streams : /\ phase[s] = "none" /\ tx_seq_[s] = 1 /\ got[s] = <<>>
                           /\ Conn(s) \in Conns
                           /\ dev_rcvd[Conn(s)] = 0 /\ dev_sent[Conn(s)] = 0
    <2>1. TypeOK
      BY InitType
    <2>2. \A s \in Streams : Conn(s) \in Conns
      BY <2>1, ConnType
    <2> QED
      BY <2>2 DEF Init
  <1>2. Len(<<>>) = 0 /\ [i \in 1 .. 0 |-> i] = <<>>
    OBVIOUS
  <1>3. \A s \in Streams :
            [i \in 1 .. Len(got[s]) |-> IF got[s][i][1] = Conn(s) THEN got[s][i][2] ELSE 0] = <<>>
    BY <1>1, <1>2
  <1> QED
    BY <1>1, <1>3 DEF Channel!Init

\* Every step of the link is one of the channel's, or none.
LEMMA NextChannel ==
    ASSUME LinkInv, LinkInv', OutsCount, OutsCount', Bounded, [Next]_vars
    PROVE  [Channel!Next]_(Channel!vars)
  <1>0. TypeOK /\ Calling /\ PortsInOrder /\ Unsaid /\ FreshUnused /\ NoneYet
    BY NeverWraps DEF LinkInv, IInv, Wires, CInv, SInv, Calls, Sends
  <1>1. NoWrap'
    <2>1. TypeOK'
      BY DEF LinkInv
    <2> QED
      BY <2>1, MuxLinkAssumption DEF TypeOK, Bounded, NoWrap
  <1>2. ASSUME NEW s \in Streams, ChannelMove(s), \A t \in Streams \ {s} : Same(t)
        PROVE  [Channel!Next]_(Channel!vars)
    BY <1>0, <1>2, ChannelStep
  <1>3. CASE HostCall
    <2>1. PICK s \in Streams : ChannelMove(s) /\ \A t \in Streams \ {s} : Same(t)
      BY <1>3, HostMoves
    <2> QED
      BY <1>2, <2>1
  <1>4. ASSUME NEW svc \in Services, OpenSyn(svc)
        PROVE  [Channel!Next]_(Channel!vars)
    <2>1. PICK new \in Streams, c \in Conns : NewStream(new, c)
      BY <1>0, <1>1, <1>4, OpenSynIsNew
    <2>2. ChannelMove(new) /\ \A t \in Streams \ {new} : Same(t)
      BY <1>0, <2>1, SynMoves
    <2> QED
      BY <1>2, <2>2
  <1>5. CASE Device
    <2>1. PICK s \in Streams : ChannelMove(s) /\ \A t \in Streams \ {s} : Same(t)
      BY <1>5, DeviceMoves
    <2> QED
      BY <1>2, <2>1
  <1>6. CASE UNCHANGED vars
    <2>1. UNCHANGED <<phase, tx_seq_, got, local_port_, remote_port_, dev_rcvd, dev_sent>>
      BY <1>6 DEF vars, session, connection, names, stream, caller, device
    <2>2. PICK s \in Streams : ChannelMove(s) /\ \A t \in Streams \ {s} : Same(t)
      BY <1>0, <2>1, NothingMoves
    <2> QED
      BY <1>2, <2>2
  <1> QED
    BY <1>3, <1>4, <1>5, <1>6 DEF Next, Call, HostCall

\* On a mux that carries one service at a time, and while the sixteen bits of the port
\* counter last, the streams of Stream::open, read_exact, write and close are byte
\* channels: the service is given the units that were written, in order, and the caller
\* is handed exactly the next units the service sent, on whatever link.
THEOREM LinkIsByteChannel ==
    ASSUME OneAtATime, MaxOpens < PortModulus
    PROVE  Spec => ImplementsByteChannel
  <1>0. Bounded
    BY DEF Bounded
  <1>1. Init => Channel!Init
    BY InitChannel
  <1>2. LinkInv => OutsCount
    BY <1>0, OutIs
  <1>3. LinkInv /\ LinkInv' /\ OutsCount /\ OutsCount' /\ [Next]_vars
            => [Channel!Next]_(Channel!vars)
    BY <1>0, NextChannel
  <1> QED
    BY <1>1, <1>2, <1>3, LinkInvHolds, PTL DEF Spec, ImplementsByteChannel, Channel!Spec
=============================================================================
