------------------------- MODULE DeviceSessionProofs -------------------------
(***************************************************************************)
(* Theorems about DeviceSession for every value of its constants: any      *)
(* attempts, deadline, key chains, services and faults, over a direct link *)
(* or usbmuxd.  Most of them only hold of a stream on which no request was *)
(* given up (~strayed): what comes after that may answer something else.   *)
(***************************************************************************)
EXTENDS DeviceSession, SequenceTheorems, TLAPS

USE DEF call, memory, disk, service, wires, cable, device, ends

-----------------------------------------------------------------------------
(* The inductive invariant.                                                *)

Early   == {"load", "idle", "open", "mux", "stream"}          \* there is no stream yet
Talking == {"type", "version", "connected", "service", "port"}
Renewed == {"idle", "open", "mux", "stream", "udid", "session", "tls", "type", "version"}

\* What is under way in one direction.
Parts(q) == {q[i] : i \in DOMAIN q}

\* Without a stream there is nothing of it, and on a dead one nothing goes to the
\* device; TLS is only spoken in a session.
Shape ==
    /\ pc \in Early <=> stream = "none"
    /\ pc \in Early => /\ toDev = <<>> /\ toHost = <<>> /\ ~strayed /\ aligned
                       /\ session = "none"
    /\ pc \in {"load", "idle", "open"} <=> link = "none"
    /\ wait # "send" => pc \in Requests
    /\ link = "down" => stream # "open"
    /\ stream = "reset" => toDev = <<>>
    /\ ~aligned /\ ~strayed => stream = "reset"
    /\ tls => pc \in Talking

\* A chain is made when there is none, and when it is saved the device has it.
Records ==
    /\ pc \in {"load", "key"} => chain = 0
    /\ pc \notin {"load", "idle"} =>
           chain # 0 \/ (pc \in {"open", "mux", "stream", "udid", "key"} /\ gen < MaxGens)
    /\ file.kind = "whole" <=> file.chain # 0
    /\ pc \in {"save", "write"} /\ chain \notin doubtful => chain \in accepted
    /\ pc \notin Pairing /\ chain # 0 /\ chain \notin doubtful
           => file = [kind |-> "whole", chain |-> chain]
    /\ SavedIsAccepted

\* A request is of the host as it is, an answer is of that request.
Asks(m) ==
    /\ m.step = pc
    /\ m.step = "service" => m.arg = asked
    /\ m.step = "tls" => m.arg = chain
    /\ m.tls <=> session = "tls"

Meets(r) ==
    /\ r.step = pc
    /\ r.result = "ok" =>
         /\ pc = "pair" => chain \in accepted
         /\ pc = "service" => r.arg = asked
         /\ pc = "session" /\ stream = "open" => session = (IF r.arg = 1 THEN "tls" ELSE "plain")

Underway ==
    /\ \A m \in Parts(toDev) : m.step = "pair" => m.arg = chain /\ chain # 0
    /\ ~strayed =>
         /\ toDev = <<>> \/ toHost = <<>>
         /\ Len(toDev) <= 1 /\ Len(toHost) <= 1
         /\ toDev # <<>> \/ toHost # <<>> => wait # "send"
         /\ \A m \in Parts(toDev) : Asks(m)
         /\ \A r \in Parts(toHost) : Meets(r)

\* The device is where the host takes it to be.
InStep ==
    /\ ~strayed /\ pc = "port" => port = asked
    /\ ~strayed /\ stream = "open" =>
         /\ pc \in Talking => session = (IF tls THEN "tls" ELSE "plain")
         /\ pc = "tls" => session = "tls"
         /\ pc \notin Talking \cup {"session", "tls"} => session = "none"
         /\ pc = "session" /\ toHost = <<>> => session = "none"

\* With a record the device trusts, an attempt goes wrong for want of a device, or for
\* a fault of its own: a request was given up, a write failed, or the cable was pulled.
Retry ==
    good =>
      /\ chain = trusted /\ chain # 0 /\ pc \in Renewed
      /\ pc = "idle" => faults + missed >= since + Attempts
      /\ pc # "idle" => attempt >= 1 /\ faults + missed + 1 >= since + attempt
      /\ strayed \/ link = "down" => faults + missed >= since + attempt
      /\ \A m \in Parts(toDev) : m.step # "pair"
      /\ ~strayed /\ link # "down" => stream # "reset" /\ \A r \in Parts(toHost) : r.result = "ok"

IInv == Shape /\ Records /\ Underway /\ InStep /\ Retry
-----------------------------------------------------------------------------
(* Lemmas about sequences.                                                 *)

\* An empty wire has no parts.
LEMMA NoParts == Parts(<<>>) = {} /\ Len(<<>>) = 0
  BY DEF Parts

\* What is on a wire is of the type of the wire.
LEMMA PartsType ==
    ASSUME NEW S, NEW q \in Seq(S)
    PROVE  /\ Parts(q) \subseteq S
           /\ Len(q) \in Nat
           /\ q = <<>> <=> Len(q) = 0
  BY EmptySeq, LenProperties DEF Parts

\* Both wires may be empty.
LEMMA EmptyWires == <<>> \in Seq(Messages) /\ <<>> \in Seq(Replies)
  BY EmptySeq

\* A frame put on a wire is its only new part.
LEMMA AppendFacts ==
    ASSUME NEW S, NEW q \in Seq(S), NEW e \in S
    PROVE  /\ Append(q, e) \in Seq(S)
           /\ Append(q, e) # <<>>
           /\ Len(Append(q, e)) = Len(q) + 1
           /\ Parts(Append(q, e)) = Parts(q) \cup {e}
  <1>1. /\ Append(q, e) \in Seq(S) /\ Append(q, e) # <<>>
        /\ Len(Append(q, e)) = Len(q) + 1
        /\ \A i \in 1 .. Len(q) : Append(q, e)[i] = q[i]
        /\ Append(q, e)[Len(q) + 1] = e
    BY AppendProperties
  <1>2. /\ Len(q) \in Nat /\ DOMAIN q = 1 .. Len(q)
        /\ DOMAIN Append(q, e) = 1 .. (Len(q) + 1)
    BY <1>1, LenProperties
  <1>3. Parts(Append(q, e)) \subseteq Parts(q) \cup {e}
    BY <1>1, <1>2 DEF Parts
  <1>4. Parts(q) \subseteq Parts(Append(q, e)) /\ e \in Parts(Append(q, e))
    BY <1>1, <1>2 DEF Parts
  <1> QED
    BY <1>1, <1>3, <1>4

\* The rest of a wire has no part the wire had not.
LEMMA TailFacts ==
    ASSUME NEW S, NEW q \in Seq(S), q # <<>>
    PROVE  /\ Head(q) \in S /\ Head(q) \in Parts(q)
           /\ Tail(q) \in Seq(S)
           /\ Len(q) \in Nat \ {0}
           /\ Len(Tail(q)) = Len(q) - 1
           /\ Parts(Tail(q)) \subseteq Parts(q)
  <1>1. /\ Head(q) \in S /\ Head(q) = q[1] /\ Tail(q) \in Seq(S)
        /\ Len(q) \in Nat \ {0} /\ Len(Tail(q)) = Len(q) - 1
        /\ \A i \in 1 .. Len(Tail(q)) : Tail(q)[i] = q[i + 1]
    BY HeadTailProperties
  <1>2. DOMAIN q = 1 .. Len(q) /\ DOMAIN Tail(q) = 1 .. (Len(q) - 1)
    BY <1>1, LenProperties
  <1> QED
    BY <1>1, <1>2 DEF Parts

\* A stream on which no request was given up has one message under way at most.
LEMMA OneAtATime ==
    ASSUME TypeOK, Underway, ~strayed
    PROVE  /\ toHost # <<>> => /\ toDev = <<>> /\ Tail(toHost) = <<>>
                               /\ Head(toHost) \in Replies /\ Meets(Head(toHost))
           /\ toDev # <<>> => /\ toHost = <<>> /\ Tail(toDev) = <<>>
                              /\ Head(toDev) \in Messages /\ Asks(Head(toDev))
  <1>1. toDev \in Seq(Messages) /\ toHost \in Seq(Replies)
    BY DEF TypeOK
  <1>2. CASE toHost # <<>>
    <2>1. Len(Tail(toHost)) = 0 /\ Tail(toHost) \in Seq(Replies)
      <3>1. Len(toHost) \in Nat \ {0} /\ Len(toHost) <= 1
        BY <1>1, <1>2, TailFacts DEF Underway
      <3>2. Len(Tail(toHost)) = Len(toHost) - 1 /\ Tail(toHost) \in Seq(Replies)
        BY <1>1, <1>2, TailFacts
      <3> QED
        BY <3>1, <3>2
    <2>2. Tail(toHost) = <<>>
      BY <2>1, PartsType
    <2> QED
      BY <1>1, <1>2, <2>2, TailFacts DEF Underway
  <1>3. CASE toDev # <<>>
    <2>1. Len(Tail(toDev)) = 0 /\ Tail(toDev) \in Seq(Messages)
      <3>1. Len(toDev) \in Nat \ {0} /\ Len(toDev) <= 1
        BY <1>1, <1>3, TailFacts DEF Underway
      <3>2. Len(Tail(toDev)) = Len(toDev) - 1 /\ Tail(toDev) \in Seq(Messages)
        BY <1>1, <1>3, TailFacts
      <3> QED
        BY <3>1, <3>2
    <2>2. Tail(toDev) = <<>>
      BY <2>1, PartsType
    <2> QED
      BY <1>1, <1>3, <2>2, TailFacts DEF Underway
  <1> QED
    BY <1>2, <1>3
-----------------------------------------------------------------------------
(* The host.                                                               *)

\* The sum of the faults and the attempts that found no device keeps up with the attempts.
LEMMA KeepsUp ==
    ASSUME NEW f \in Nat, NEW g \in Nat, NEW m \in Nat, NEW n \in Nat, NEW s \in Nat, NEW a \in Nat,
           f + m + 1 >= s + a
    PROVE  /\ g = f + 1 /\ n >= m => g + n >= s + a
           /\ g = f /\ n = m + 1 => g + n >= s + a
           /\ f + m >= s + a /\ g >= f /\ n >= m => g + n >= s + a
           /\ g + n >= s + a => g + n + 1 >= s + a /\ g + n + 1 >= s + (a + 1)
  OBVIOUS

\* The common end of a failed attempt, and what comes before the transport is opened.
LEMMA FailKeeps ==
    ASSUME TypeOK, IInv, Fail, faults' \in 0 .. MaxFaults,
           file' = file \/ (pc = "write" /\ file' = [kind |-> "torn", chain |-> 0]),
           pc \notin {"load", "idle", "connected"},
           good => \/ faults' = faults + 1
                   \/ faults' = faults /\ (strayed \/ link = "down" \/ pc \in {"open", "mux"})
    PROVE  TypeOK' /\ IInv'
  <1>1. TypeOK'
    <2>1. strayed' \in BOOLEAN /\ tls' \in BOOLEAN /\ aligned' \in BOOLEAN
      BY DEF TypeOK, Fail, Hangup
    <2> QED
      BY <2>1, DeviceSessionAssumption DEF TypeOK, Chains, Fail, Hangup, Misses
  <1>2. Shape'
    BY DEF Shape, Early, Fail, Hangup
  <1>3. Records'
    BY DEF IInv, Records, SavedIsAccepted, Pairing, Fail, Hangup
  <1>4. Underway'
    BY NoParts DEF Underway, Fail, Hangup
  <1>5. InStep'
    BY DEF InStep, Fail, Hangup
  <1>6. Retry'
    <2> SUFFICES ASSUME good PROVE Retry'
      BY DEF Retry, Fail
    <2>1. /\ faults \in Nat /\ faults' \in Nat /\ missed \in Nat /\ missed' \in Nat
          /\ since \in Nat /\ attempt \in Nat /\ Attempts \in Nat /\ attempt <= Attempts
      BY DeviceSessionAssumption DEF TypeOK, Fail, Misses
    <2>2. /\ chain = trusted /\ chain # 0 /\ attempt >= 1
          /\ faults + missed + 1 >= since + attempt
          /\ strayed \/ link = "down" => faults + missed >= since + attempt
      BY DEF IInv, Retry
    <2>3. faults' + missed' >= since + attempt
      <3>1. CASE faults' = faults + 1
        <4>1. missed' >= missed
          BY <2>1 DEF Fail, Misses
        <4> QED
          BY ONLY <2>1, <2>2, <3>1, <4>1, KeepsUp
      <3>2. CASE faults' = faults /\ (strayed \/ link = "down")
        <4>1. missed' >= missed
          BY <2>1 DEF Fail, Misses
        <4>2. faults' >= faults /\ faults + missed >= since + attempt
          BY <2>1, <2>2, <3>2
        <4> QED
          BY ONLY <2>1, <2>2, <4>1, <4>2, KeepsUp
      <3>3. CASE faults' = faults /\ pc \in {"open", "mux"} /\ link # "down"
        <4>1. missed' = missed + 1
          BY <3>3 DEF Fail, Misses
        <4> QED
          BY ONLY <2>1, <2>2, <3>3, <4>1, KeepsUp
      <3> QED
        BY <3>1, <3>2, <3>3
    <2>4. /\ chain' = chain /\ trusted' = trusted /\ since' = since /\ link' = "none"
          /\ ~strayed' /\ stream' = "none" /\ toDev' = <<>> /\ toHost' = <<>>
      BY DEF Fail, Hangup
    <2>5. CASE attempt < Attempts
      <3>1. pc' = "open" /\ attempt' = attempt + 1
        BY <2>5 DEF Fail
      <3>2. attempt + 1 >= 1 /\ faults' + missed' + 1 >= since + (attempt + 1)
        <4>1. \A x, b \in Nat : x >= b => x + 1 >= b + 1
          OBVIOUS
        <4>2. since + attempt \in Nat /\ faults' + missed' \in Nat /\ (since + attempt) + 1 = since + (attempt + 1)
          <5>1. \A x, y \in Nat : x + y \in Nat /\ (x + y) + 1 = x + (y + 1)
            OBVIOUS
          <5> QED
            BY ONLY <2>1, <5>1
        <4>3. attempt + 1 >= 1
          BY ONLY <2>1
        <4> QED
          BY ONLY <2>3, <4>1, <4>2, <4>3
      <3> QED
        BY <2>2, <2>4, <3>1, <3>2, NoParts DEF Retry, Renewed
    <2>6. CASE ~(attempt < Attempts)
      <3>1. pc' = "idle" /\ attempt = Attempts
        BY <2>1, <2>6 DEF Fail
      <3> QED
        BY <2>2, <2>3, <2>4, <3>1, NoParts DEF Retry, Renewed
    <2> QED
      BY <2>5, <2>6
  <1> QED
    BY <1>1, <1>2, <1>3, <1>4, <1>5, <1>6 DEF IInv

LEMMA LoadKeeps ==
    ASSUME TypeOK, IInv, Load
    PROVE  TypeOK' /\ IInv'
  <1>1. TypeOK'
    BY DEF TypeOK, Load
  <1>2. Shape'
    BY DEF IInv, Shape, Early, Talking, Requests, Ignored, Load
  <1>3. Records'
    BY DEF IInv, TypeOK, Records, SavedIsAccepted, Load
  <1>4. Underway'
    BY NoParts DEF IInv, Shape, Early, Underway, Load
  <1>5. InStep'
    BY DEF IInv, Talking, InStep, Load
  <1>6. Retry'
    BY DEF IInv, Retry, Renewed, Load
  <1> QED
    BY <1>1, <1>2, <1>3, <1>4, <1>5, <1>6 DEF IInv

LEMMA DeleteKeeps ==
    ASSUME TypeOK, IInv, Delete
    PROVE  TypeOK' /\ IInv'
  <1>1. TypeOK'
    BY DeviceSessionAssumption DEF TypeOK, Chains, Delete, NoFile
  <1>2. Shape'
    BY DEF IInv, Shape, Delete
  <1>3. Records'
    BY DEF IInv, Records, SavedIsAccepted, Delete, NoFile
  <1>4. Underway'
    BY DEF IInv, Underway, Asks, Meets, Delete
  <1>5. InStep'
    BY DEF IInv, InStep, Delete
  <1>6. Retry'
    BY DEF IInv, Retry, Delete
  <1> QED
    BY <1>1, <1>2, <1>3, <1>4, <1>5, <1>6 DEF IInv

LEMMA ConnectKeeps ==
    ASSUME TypeOK, IInv, Connect
    PROVE  TypeOK' /\ IInv'
  <1>1. TypeOK'
    BY DeviceSessionAssumption DEF TypeOK, Connect
  <1>2. Shape'
    BY DEF IInv, Shape, Early, Talking, Requests, Ignored, Connect
  <1>3. Records'
    BY DEF IInv, Records, SavedIsAccepted, Pairing, Connect
  <1>4. Underway'
    BY NoParts DEF IInv, Shape, Requests, Ignored, Underway, Connect
  <1>5. InStep'
    BY DEF IInv, Talking, InStep, Connect
  <1>6. Retry'
    BY NoParts DEF IInv, TypeOK, Shape, Early, Retry, Renewed, Connect
  <1> QED
    BY <1>1, <1>2, <1>3, <1>4, <1>5, <1>6 DEF IInv

LEMMA DisconnectKeeps ==
    ASSUME TypeOK, IInv, Disconnect
    PROVE  TypeOK' /\ IInv'
  <1>1. TypeOK'
    BY EmptyWires DEF TypeOK, Disconnect, Hangup
  <1>2. Shape'
    BY DEF IInv, Shape, Early, Requests, Ignored, Disconnect, Hangup
  <1>3. Records'
    BY DEF IInv, Records, SavedIsAccepted, Pairing, Disconnect, Hangup
  <1>4. Underway'
    BY NoParts DEF Underway, Disconnect, Hangup
  <1>5. InStep'
    BY DEF InStep, Disconnect, Hangup
  <1>6. Retry'
    BY DEF IInv, Retry, Renewed, Disconnect
  <1> QED
    BY <1>1, <1>2, <1>3, <1>4, <1>5, <1>6 DEF IInv

\* The process ends: what was in memory is gone, and with it the stream.
LEMMA CrashKeeps ==
    ASSUME TypeOK, IInv, Crash
    PROVE  TypeOK' /\ IInv'
  <1>1. TypeOK'
    <2>1. strayed' \in BOOLEAN /\ tls' \in BOOLEAN /\ aligned' \in BOOLEAN /\ good' \in BOOLEAN
      BY DEF TypeOK, Crash, Hangup
    <2> QED
      BY <2>1, DeviceSessionAssumption DEF TypeOK, Chains, Crash, Hangup
  <1>2. Shape'
    BY DEF Shape, Early, Crash, Hangup
  <1>3. Records'
    BY DEF IInv, Records, SavedIsAccepted, Crash, Hangup
  <1>4. Underway'
    BY NoParts DEF Underway, Crash, Hangup
  <1>5. InStep'
    BY DEF InStep, Crash, Hangup
  <1>6. Retry'
    BY DEF Retry, Crash
  <1> QED
    BY <1>1, <1>2, <1>3, <1>4, <1>5, <1>6 DEF IInv

LEMMA ReadLengthKeeps ==
    ASSUME TypeOK, IInv, ReadLength
    PROVE  TypeOK' /\ IInv'
  <1>1. TypeOK'
    BY DEF TypeOK, ReadLength
  <1>2. Shape'
    BY DEF IInv, Shape, ReadLength
  <1>3. Records'
    BY DEF IInv, Records, SavedIsAccepted, ReadLength
  <1>4. Underway'
    BY DEF IInv, Underway, Asks, Meets, ReadLength
  <1>5. InStep'
    BY DEF IInv, InStep, ReadLength
  <1>6. Retry'
    BY DEF IInv, Retry, ReadLength
  <1> QED
    BY <1>1, <1>2, <1>3, <1>4, <1>5, <1>6 DEF IInv

\* Pairing::save writes the record in two steps; a crash may come between them.
LEMMA TruncateKeeps ==
    ASSUME TypeOK, IInv, Truncate
    PROVE  TypeOK' /\ IInv'
  <1>1. TypeOK'
    BY DeviceSessionAssumption DEF TypeOK, Chains, Truncate, Goes
  <1>2. Shape'
    BY DEF IInv, Shape, Early, Talking, Truncate, Goes
  <1>3. Records'
    BY DEF IInv, Records, SavedIsAccepted, Pairing, Truncate, Goes
  <1>4. Underway'
    BY NoParts DEF IInv, Shape, Requests, Ignored, Underway, Truncate
  <1>5. InStep'
    BY DEF IInv, Talking, InStep, Truncate, Goes
  <1>6. Retry'
    BY DEF IInv, Retry, Renewed, Truncate, Goes
  <1> QED
    BY <1>1, <1>2, <1>3, <1>4, <1>5, <1>6 DEF IInv

LEMMA WriteRecordKeeps ==
    ASSUME TypeOK, IInv, WriteRecord
    PROVE  TypeOK' /\ IInv'
  <1>1. TypeOK'
    BY DeviceSessionAssumption DEF TypeOK, Requests, WriteRecord, Goes
  <1>2. Shape'
    BY DEF IInv, Shape, Early, Talking, WriteRecord, Goes
  <1>3. Records'
    BY DEF IInv, Records, SavedIsAccepted, WriteRecord, Goes
  <1>4. Underway'
    BY NoParts DEF IInv, Shape, Requests, Ignored, Underway, WriteRecord
  <1>5. InStep'
    BY DEF IInv, Talking, InStep, WriteRecord, Goes
  <1>6. Retry'
    BY DEF IInv, Retry, Renewed, WriteRecord, Goes
  <1> QED
    BY <1>1, <1>2, <1>3, <1>4, <1>5, <1>6 DEF IInv

LEMMA ForgetKeeps ==
    ASSUME TypeOK, IInv, Forget
    PROVE  TypeOK' /\ IInv'
  <1>1. TypeOK'
    <2>1. good' \in BOOLEAN
      BY DEF TypeOK, Forget
    <2> QED
      BY <2>1, DeviceSessionAssumption DEF TypeOK, Chains, Forget
  <1>2. Shape'
    BY DEF IInv, Shape, Forget
  <1>3. Records'
    BY DEF IInv, Records, SavedIsAccepted, Forget
  <1>4. Underway'
    BY DEF IInv, Underway, Asks, Meets, Forget
  <1>5. InStep'
    BY DEF IInv, InStep, Forget
  <1>6. Retry'
    BY DEF Retry, Forget
  <1> QED
    BY <1>1, <1>2, <1>3, <1>4, <1>5, <1>6 DEF IInv

\* The cable.
LEMMA UnplugKeeps ==
    ASSUME TypeOK, IInv, Unplug
    PROVE  TypeOK' /\ IInv'
  <1>1. TypeOK'
    <2>1. good' \in BOOLEAN /\ plugged' \in BOOLEAN
      BY DEF TypeOK, Unplug
    <2> QED
      BY <2>1, DeviceSessionAssumption DEF TypeOK, Unplug
  <1>2. Shape'
    BY DEF IInv, Shape, Unplug
  <1>3. Records'
    BY DEF IInv, Records, SavedIsAccepted, Unplug
  <1>4. Underway'
    BY NoParts DEF Underway, Unplug
  <1>5. InStep'
    BY DEF IInv, InStep, Unplug
  <1>6. Retry'
    <2> SUFFICES ASSUME good PROVE Retry'
      BY DEF Retry, Unplug
    <2>1. /\ faults \in Nat /\ missed \in Nat /\ since \in Nat /\ attempt \in Nat
          /\ Attempts \in Nat
      BY DeviceSessionAssumption DEF TypeOK
    <2>2. /\ chain = trusted /\ chain # 0 /\ pc \in Renewed
          /\ pc = "idle" => faults + missed >= since + Attempts
          /\ pc # "idle" => attempt >= 1 /\ faults + missed + 1 >= since + attempt
          /\ strayed \/ link = "down" => faults + missed >= since + attempt
      BY DEF IInv, Retry
    <2>3. faults' = faults + 1 /\ UNCHANGED <<pc, call, chain, trusted, strayed>> /\ toDev' = <<>> /\ toHost' = <<>>
      BY DEF Unplug
    <2>4. link' = "down" \/ (link' = link /\ stream' = stream /\ stream = "none")
      BY DEF Unplug, IInv, Shape, Early
    <2>5. pc = "idle" => faults' + missed >= since + Attempts
      BY <2>1, <2>2, <2>3
    <2>6. pc # "idle" => faults' + missed >= since + attempt /\ faults' + missed + 1 >= since + attempt
      BY <2>1, <2>2, <2>3
    <2>7. pc = "idle" => link' # "down" /\ ~strayed
      BY DEF IInv, Shape, Early, Unplug
    <2> QED
      BY <2>2, <2>3, <2>4, <2>5, <2>6, <2>7, NoParts DEF Retry
  <1> QED
    BY <1>1, <1>2, <1>3, <1>4, <1>5, <1>6 DEF IInv

LEMMA ReplugKeeps ==
    ASSUME TypeOK, IInv, Replug
    PROVE  TypeOK' /\ IInv'
  <1>1. TypeOK'
    BY DEF TypeOK, Replug
  <1>2. Shape'
    BY DEF IInv, Shape, Replug
  <1>3. Records'
    BY DEF IInv, Records, SavedIsAccepted, Replug
  <1>4. Underway'
    BY DEF IInv, Underway, Asks, Meets, Replug
  <1>5. InStep'
    BY DEF IInv, InStep, Replug
  <1>6. Retry'
    BY DEF IInv, Retry, Replug
  <1> QED
    BY <1>1, <1>2, <1>3, <1>4, <1>5, <1>6 DEF IInv

\* A call of start_service and the stream it ends with; the person at the device.
LEMMA OpenServiceStreamKeeps ==
    ASSUME TypeOK, IInv, OpenServiceStream
    PROVE  TypeOK' /\ IInv'
  <1>1. TypeOK'
    <2>1. good' \in BOOLEAN
      BY DEF TypeOK, OpenServiceStream, Goes
    <2> QED
      BY <2>1, DeviceSessionAssumption DEF TypeOK, OpenServiceStream, Goes
  <1>2. Shape'
    BY DEF IInv, Shape, Early, Talking, OpenServiceStream, Goes
  <1>3. Records'
    BY DEF IInv, Records, SavedIsAccepted, Pairing, OpenServiceStream, Goes
  <1>4. Underway'
    BY NoParts DEF IInv, Shape, Requests, Ignored, Underway, OpenServiceStream
  <1>5. InStep'
    BY DEF IInv, Talking, InStep, OpenServiceStream, Goes
  <1>6. Retry'
    BY DEF Retry, OpenServiceStream, Goes
  <1> QED
    BY <1>1, <1>2, <1>3, <1>4, <1>5, <1>6 DEF IInv

LEMMA StartServiceKeeps ==
    ASSUME TypeOK, IInv, NEW s \in Services, StartService(s)
    PROVE  TypeOK' /\ IInv'
  <1>1. TypeOK'
    BY DEF TypeOK, Requests, StartService
  <1>2. Shape'
    BY DEF IInv, Shape, Early, Talking, Requests, StartService
  <1>3. Records'
    BY DEF IInv, Records, SavedIsAccepted, Pairing, StartService
  <1>4. Underway'
    BY NoParts DEF IInv, Shape, Requests, Ignored, Underway, StartService
  <1>5. InStep'
    BY DEF IInv, Talking, InStep, StartService
  <1>6. Retry'
    BY DEF IInv, Retry, Renewed, StartService
  <1> QED
    BY <1>1, <1>2, <1>3, <1>4, <1>5, <1>6 DEF IInv

LEMMA TapKeeps ==
    ASSUME TypeOK, IInv, NEW answer \in {"trust", "refuse"}, Tap(answer)
    PROVE  TypeOK' /\ IInv'
  <1>1. TypeOK'
    BY DEF TypeOK, Tap
  <1>2. Shape'
    BY DEF IInv, Shape, Tap
  <1>3. Records'
    BY DEF IInv, Records, SavedIsAccepted, Tap
  <1>4. Underway'
    BY DEF IInv, Underway, Asks, Meets, Tap
  <1>5. InStep'
    BY DEF IInv, InStep, Tap
  <1>6. Retry'
    BY DEF IInv, Retry, Tap
  <1> QED
    BY <1>1, <1>2, <1>3, <1>4, <1>5, <1>6 DEF IInv

\* What a step of the host sets besides.
LEMMA GoesType ==
    ASSUME TypeOK, NEW next, Goes(next), next = "pair" /\ pc = "pair" => tries + 1 < MaxTries
    PROVE  /\ pc' = next /\ wait' = "send"
           /\ tries' \in 0 .. MaxTries /\ attempt' \in 0 .. Attempts /\ since' \in 0 .. MaxFaults
           /\ good' \in BOOLEAN /\ missed' \in Nat /\ asked' \in Services \cup {0} /\ port' \in Nat
  <1>1. pc' = next /\ wait' = "send"
    BY DEF Goes
  <1>2. tries' \in 0 .. MaxTries
    BY DeviceSessionAssumption DEF TypeOK, Goes
  <1>3. CASE next = "connected"
    <2>1. good' \in BOOLEAN
      BY <1>3 DEF Goes
    <2> QED
      BY <1>1, <1>2, <1>3, <2>1, DeviceSessionAssumption DEF Goes
  <1>4. CASE next # "connected"
    BY <1>1, <1>2, <1>4 DEF TypeOK, Goes
  <1> QED
    BY <1>3, <1>4

\* Where a step of the connection leads.
LEMMA FollowingIs ==
    ASSUME pc \in Ignored \cup {"service"}
    PROVE  /\ pc = "udid" => Following = IF chain = 0 THEN "key" ELSE "session"
           /\ pc = "wifi" => Following = "pair"
           /\ pc = "type" => Following = "version"
           /\ pc \in {"version", "service"} => Following = "connected"
  BY DEF Following, Ignored

\* A new transport, connection and stream: nothing of the last one is under way.
LEMMA OpenTransportKeeps ==
    ASSUME TypeOK, IInv, OpenTransport
    PROVE  TypeOK' /\ IInv'
  <1>1. CASE plugged \/ via = "usbmuxd"
    <2>1. TypeOK'
      <3>1. Goes("mux")
        BY <1>1 DEF OpenTransport
      <3>2. "mux" = "pair" /\ pc = "pair" => tries + 1 < MaxTries
        BY <1>1 DEF OpenTransport
      <3>3. link' = "up" /\ UNCHANGED <<chain, doubtful, disk, wires, via, plugged, device, ends, faults>>
        BY <1>1 DEF OpenTransport
      <3>4. /\ pc' = "mux" /\ wait' = "send"
            /\ tries' \in 0 .. MaxTries /\ attempt' \in 0 .. Attempts /\ since' \in 0 .. MaxFaults
            /\ good' \in BOOLEAN /\ missed' \in Nat /\ asked' \in Services \cup {0} /\ port' \in Nat
        BY <3>1, <3>2, GoesType
      <3> QED
        BY <3>3, <3>4 DEF TypeOK
    <2>2. Shape'
      BY <1>1 DEF IInv, Shape, Early, Talking, OpenTransport, Goes
    <2>3. Records'
      BY <1>1 DEF IInv, Records, SavedIsAccepted, Pairing, OpenTransport, Goes
    <2>4. Underway'
      BY <1>1, NoParts DEF IInv, Shape, Requests, Ignored, Underway, OpenTransport
    <2>5. InStep'
      BY <1>1 DEF IInv, Talking, InStep, OpenTransport, Goes
    <2>6. Retry'
      BY <1>1 DEF IInv, Shape, Early, Retry, Renewed, OpenTransport, Goes
    <2> QED
      BY <2>1, <2>2, <2>3, <2>4, <2>5, <2>6 DEF IInv
  <1>2. CASE ~(plugged \/ via = "usbmuxd")
    <2>1. Fail /\ file' = file /\ faults' = faults /\ faults' \in 0 .. MaxFaults
      BY <1>2 DEF TypeOK, OpenTransport
    <2>2. pc = "open"
      BY <1>2 DEF OpenTransport
    <2> QED
      BY <2>1, <2>2, FailKeeps
  <1> QED
    BY <1>1, <1>2

LEMMA OpenConnectionKeeps ==
    ASSUME TypeOK, IInv, OpenConnection
    PROVE  TypeOK' /\ IInv'
  <1>1. CASE link = "up" /\ (via = "usbmuxd" => DeviceListed)
    <2>1. TypeOK'
      <3>1. Goes("stream")
        BY <1>1 DEF OpenConnection
      <3>2. "stream" = "pair" /\ pc = "pair" => tries + 1 < MaxTries
        BY <1>1 DEF OpenConnection
      <3>3. UNCHANGED <<chain, doubtful, disk, wires, cable, device, ends, faults>>
        BY <1>1 DEF OpenConnection
      <3>4. /\ pc' = "stream" /\ wait' = "send"
            /\ tries' \in 0 .. MaxTries /\ attempt' \in 0 .. Attempts /\ since' \in 0 .. MaxFaults
            /\ good' \in BOOLEAN /\ missed' \in Nat /\ asked' \in Services \cup {0} /\ port' \in Nat
        BY <3>1, <3>2, GoesType
      <3> QED
        BY <3>3, <3>4 DEF TypeOK
    <2>2. Shape'
      BY <1>1 DEF IInv, Shape, Early, Talking, OpenConnection, Goes
    <2>3. Records'
      BY <1>1 DEF IInv, Records, SavedIsAccepted, Pairing, OpenConnection, Goes
    <2>4. Underway'
      BY <1>1, NoParts DEF IInv, Shape, Requests, Ignored, Underway, OpenConnection
    <2>5. InStep'
      BY <1>1 DEF IInv, Talking, InStep, OpenConnection, Goes
    <2>6. Retry'
      BY <1>1 DEF IInv, Retry, Renewed, OpenConnection, Goes
    <2> QED
      BY <2>1, <2>2, <2>3, <2>4, <2>5, <2>6 DEF IInv
  <1>2. CASE ~(link = "up" /\ (via = "usbmuxd" => DeviceListed))
    <2>1. Fail /\ file' = file /\ faults' = faults /\ faults' \in 0 .. MaxFaults
      BY <1>2 DEF TypeOK, OpenConnection
    <2>2. pc = "mux"
      BY <1>2 DEF OpenConnection
    <2> QED
      BY <2>1, <2>2, FailKeeps
  <1> QED
    BY <1>1, <1>2

LEMMA OpenStreamKeeps ==
    ASSUME TypeOK, IInv, OpenStream
    PROVE  TypeOK' /\ IInv'
  <1>1. CASE link = "up"
    <2>1. TypeOK'
      <3>1. Goes("udid")
        BY <1>1 DEF OpenStream
      <3>2. "udid" = "pair" /\ pc = "pair" => tries + 1 < MaxTries
        BY <1>1 DEF OpenStream
      <3> QED
        BY <1>1, <3>1, <3>2, GoesType, EmptyWires, DeviceSessionAssumption
           DEF TypeOK, Chains, Requests, Ignored, OpenStream
    <2>2. Shape'
      BY <1>1 DEF IInv, Shape, Early, Talking, OpenStream, Goes
    <2>3. Records'
      BY <1>1 DEF IInv, Records, SavedIsAccepted, Pairing, OpenStream, Goes
    <2>4. Underway'
      BY <1>1, NoParts DEF IInv, Shape, Requests, Ignored, Underway, OpenStream
    <2>5. InStep'
      BY <1>1 DEF IInv, Shape, Early, Talking, InStep, OpenStream, Goes
    <2>6. Retry'
      BY <1>1 DEF IInv, Retry, Renewed, OpenStream, Goes
    <2> QED
      BY <2>1, <2>2, <2>3, <2>4, <2>5, <2>6 DEF IInv
  <1>2. CASE link # "up"
    <2>1. Fail /\ file' = file /\ faults' = faults /\ faults' \in 0 .. MaxFaults
      BY <1>2 DEF TypeOK, OpenStream
    <2>2. pc = "stream" /\ link = "down"
      BY <1>2 DEF OpenStream, TypeOK, IInv, Shape
    <2> QED
      BY <2>1, <2>2, FailKeeps
  <1> QED
    BY <1>1, <1>2

LEMMA DiskFailsKeeps ==
    ASSUME TypeOK, IInv, DiskFails
    PROVE  TypeOK' /\ IInv'
  <1>1. /\ pc \in {"save", "write"} /\ ~good
        /\ faults' \in 0 .. MaxFaults
        /\ file' = file \/ (pc = "write" /\ file' = [kind |-> "torn", chain |-> 0])
    BY DeviceSessionAssumption DEF TypeOK, DiskFails, IInv, Retry, Renewed
  <1>2. CASE Fail
    BY <1>1, <1>2, FailKeeps
  <1>3. CASE ~Fail
    <2>1. TypeOK'
      <3>1. Goes("session")
        BY <1>1, <1>3 DEF DiskFails
      <3>2. "session" = "pair" /\ pc = "pair" => tries + 1 < MaxTries
        BY <1>1, <1>3 DEF DiskFails
      <3> QED
        <4>1. /\ UNCHANGED <<chain, gen, wires, cable, device, ends>>
              /\ doubtful' = doubtful \cup {chain} /\ file' = [kind |-> "torn", chain |-> 0]
          BY <1>1, <1>3 DEF DiskFails
        <4>2. /\ doubtful' \subseteq Chains
              /\ file' \in [kind : {"absent", "empty", "torn", "whole"}, chain : Chains]
          BY <4>1, DeviceSessionAssumption DEF TypeOK, Chains
        <4> QED
          BY <1>1, <3>1, <3>2, <4>1, <4>2, GoesType DEF TypeOK, Requests
    <2>2. Shape'
      BY <1>1, <1>3 DEF IInv, Shape, Early, Talking, DiskFails, Goes
    <2>3. Records'
      BY <1>1, <1>3 DEF IInv, Records, SavedIsAccepted, DiskFails, Goes
    <2>4. Underway'
      BY <1>1, <1>3, NoParts DEF IInv, Shape, Requests, Ignored, Underway, DiskFails
    <2>5. InStep'
      BY <1>1, <1>3 DEF IInv, Talking, InStep, DiskFails, Goes
    <2>6. Retry'
      BY <1>1, <1>3 DEF Retry, DiskFails, Goes
    <2> QED
      BY <2>1, <2>2, <2>3, <2>4, <2>5, <2>6 DEF IInv
  <1> QED
    BY <1>2, <1>3

\* An error passed over, of a request given up or on a stream that is dead.
LEMMA UnansweredKeeps ==
    ASSUME TypeOK, IInv, NEW whole \in BOOLEAN, NEW given_up \in BOOLEAN,
           Unanswered(whole, given_up), pc \in Requests,
           faults' = faults \/ faults' = faults + 1, faults' \in 0 .. MaxFaults,
           strayed => given_up,
           ~given_up => toDev = <<>> /\ (whole => toHost = <<>>) /\ (whole \/ stream = "reset"),
           good => strayed \/ link = "down" \/ faults' = faults + 1
    PROVE  TypeOK' /\ IInv'
  <1>1. CASE pc \in Ignored \cup {"service"}
    <2>1. TypeOK'
      <3>1. Goes(Following)
        BY <1>1, FollowingIs DEF Unanswered
      <3>2. Following = "pair" /\ pc = "pair" => tries + 1 < MaxTries
        BY <1>1, FollowingIs DEF Unanswered, Ignored
      <3> QED
        <4>1. aligned' \in BOOLEAN /\ strayed' \in BOOLEAN
          BY <1>1 DEF Unanswered
        <4>2. toDev' \in Seq(Messages) /\ toHost' \in Seq(Replies)
          BY <1>1, EmptyWires DEF TypeOK, Unanswered
        <4>3. pc' \in Requests \cup {"connected"}
          BY <1>1, <3>1, <3>2, GoesType, FollowingIs DEF Requests, Ignored
        <4>4. UNCHANGED <<chain, doubtful, disk, cable, device, ends>>
          BY <1>1 DEF Unanswered
        <4> QED
          BY <3>1, <3>2, <4>1, <4>2, <4>3, <4>4, GoesType DEF TypeOK
    <2>2. Shape'
      BY <1>1, FollowingIs DEF IInv, Shape, Early, Talking, Ignored, Unanswered, Goes
    <2>3. Records'
      BY <1>1, FollowingIs DEF IInv, Records, SavedIsAccepted, Pairing, Unanswered, Goes, Ignored
    <2>4. Underway'
      BY <1>1, NoParts DEF IInv, Shape, Underway, Unanswered
    <2>5. InStep'
      BY <1>1, FollowingIs DEF Ignored, IInv, InStep, Talking, Unanswered, Goes
    <2>6. Retry'
      <3>1. ~good => ~good'
        BY <1>1, FollowingIs DEF Unanswered, Goes
      <3>2. CASE good
        <4>1. pc \in {"udid", "type", "version"} /\ chain # 0
          BY <1>1, <3>2 DEF IInv, Retry, Renewed, Ignored
        <4>2. pc' \in {"session", "version"} \/ ~good'
          BY <1>1, <4>1, FollowingIs DEF Unanswered, Goes
        <4>3. /\ strayed' = given_up /\ chain' = chain /\ trusted' = trusted /\ link' = link
              /\ toDev' = toDev /\ stream' = stream
              /\ good' => attempt' = attempt /\ since' = since /\ missed' = missed
              /\ toHost' = (IF whole THEN toHost ELSE <<>>)
          BY <1>1, <3>2 DEF Unanswered, Goes
        <4>4. /\ attempt \in Nat /\ since \in Nat /\ faults \in Nat /\ faults' \in Nat /\ missed \in Nat
              /\ faults' >= faults
          BY DeviceSessionAssumption DEF TypeOK
        <4>5. /\ pc # "idle" /\ attempt >= 1 /\ faults + missed + 1 >= since + attempt
              /\ strayed \/ link = "down" => faults + missed >= since + attempt
          BY <3>2, <4>1 DEF IInv, Retry
        <4>6. faults' + missed >= since + attempt
          <5>1. CASE strayed \/ link = "down"
            <6>1. faults + missed >= since + attempt /\ missed >= missed
              BY <4>4, <4>5, <5>1
            <6> QED
              BY ONLY <4>4, <4>5, <6>1, KeepsUp
          <5>2. CASE faults' = faults + 1
            <6>1. missed >= missed
              BY <4>4
            <6> QED
              BY ONLY <4>4, <4>5, <5>2, <6>1, KeepsUp
          <5> QED
            BY <3>2, <5>1, <5>2
        <4>7. faults' + missed + 1 >= since + attempt
          BY ONLY <4>4, <4>5, <4>6, KeepsUp
        <4>8. /\ chain = trusted
              /\ \A m \in Parts(toDev) : m.step # "pair"
          BY <3>2 DEF IInv, Retry
        <4>9. ~strayed' /\ link' # "down" => /\ stream' # "reset"
                                            /\ \A r \in Parts(toHost') : r.result = "ok"
          BY <3>2, <4>3, NoParts DEF IInv, Retry
        <4> QED
          BY <4>1, <4>2, <4>3, <4>5, <4>6, <4>7, <4>8, <4>9 DEF Retry, Renewed
      <3> QED
        BY <3>1, <3>2 DEF Retry
    <2> QED
      BY <2>1, <2>2, <2>3, <2>4, <2>5, <2>6 DEF IInv
  <1>2. CASE pc \notin Ignored \cup {"service"}
    <2>1. Fail /\ file' = file
      BY <1>2 DEF Unanswered
    <2>2. pc \notin {"load", "idle", "connected"}
      BY DEF Requests, Ignored
    <2>3. good => faults' = faults + 1 \/ (faults' = faults /\ (strayed \/ link = "down"))
      OBVIOUS
    <2> QED
      BY <2>1, <2>2, <2>3, FailKeeps
  <1> QED
    BY <1>1, <1>2

\* A fault ends the attempt, and a read given up leaves the stream out of step.
LEMMA SendFailsKeeps ==
    ASSUME TypeOK, IInv, SendFails
    PROVE  TypeOK' /\ IInv'
  <1>1. pc \in Requests /\ wait = "send" /\ Unanswered(aligned, strayed)
    BY DEF SendFails
  <1>2. aligned \in BOOLEAN /\ strayed \in BOOLEAN /\ (~strayed => toHost = <<>>)
    BY <1>1 DEF TypeOK, IInv, Underway
  <1>3. CASE ~Writable /\ faults' = faults
    <2>1. stream # "none" /\ link # "none"
      BY <1>1 DEF IInv, Shape, Early, Requests, Ignored
    <2>2. stream = "reset"
      BY <1>3, <2>1 DEF Writable, TypeOK, IInv, Shape
    <2>3. toDev = <<>> /\ (good => strayed \/ link = "down")
      BY <2>2 DEF IInv, Shape, Retry
    <2> QED
      BY <1>1, <1>2, <1>3, <2>2, <2>3, UnansweredKeeps DEF TypeOK
  <1>4. CASE faults < MaxFaults /\ faults' = faults + 1
    <2>1. faults' \in 0 .. MaxFaults
      BY <1>4, DeviceSessionAssumption DEF TypeOK
    <2>2. ~strayed => toDev = <<>> /\ (aligned \/ stream = "reset")
      BY <1>1 DEF IInv, Underway, Shape
    <2> QED
      BY <1>1, <1>2, <1>4, <2>1, <2>2, UnansweredKeeps
  <1> QED
    BY <1>3, <1>4 DEF SendFails

LEMMA ReadFailsKeeps ==
    ASSUME TypeOK, IInv, ReadFails
    PROVE  TypeOK' /\ IInv'
  <1>1. pc \in Requests
    BY DEF ReadFails, TypeOK, IInv, Shape
  <1>2. ~strayed => stream = "reset"
    BY <1>1 DEF ReadFails, TypeOK, IInv, Shape, Early, Requests, Ignored
  <1>3. /\ good => strayed \/ link = "down"
        /\ ~strayed => (aligned /\ wait = "length" => toHost = <<>>) /\ toDev = <<>>
    BY <1>2 DEF ReadFails, IInv, Retry, Shape
  <1>4. (aligned /\ wait = "length") \in BOOLEAN /\ strayed \in BOOLEAN /\ faults' \in 0 .. MaxFaults
    BY DEF TypeOK, ReadFails
  <1>5. Unanswered(aligned /\ wait = "length", strayed) /\ faults' = faults
    BY DEF ReadFails
  <1> QED
    BY <1>1, <1>2, <1>3, <1>4, <1>5, UnansweredKeeps

LEMMA GiveUpKeeps ==
    ASSUME TypeOK, IInv, GiveUp
    PROVE  TypeOK' /\ IInv'
  <1>1. pc \in Requests
    BY DEF GiveUp, TypeOK, IInv, Shape
  <1>2. (wait = "length") \in BOOLEAN /\ faults' = faults + 1 /\ faults' \in 0 .. MaxFaults
    BY DeviceSessionAssumption DEF TypeOK, GiveUp
  <1>3. Unanswered(wait = "length", TRUE)
    BY DEF GiveUp
  <1> QED
    BY <1>1, <1>2, <1>3, UnansweredKeeps

\* A request is the only thing under way, and is of the host as it is.
LEMMA SendKeeps ==
    ASSUME TypeOK, IInv, Send
    PROVE  TypeOK' /\ IInv'
  <1>1. /\ toDev \in Seq(Messages) /\ Request \in Messages
        /\ pc \in Requests /\ wait = "send" /\ wait' = "length"
        /\ UNCHANGED <<pc, call, memory, disk, service, toHost, aligned, strayed, cable, device, ends, faults>>
    <2>1. (tls \/ pc = "tls") \in BOOLEAN
      OBVIOUS
    <2>2. Request.arg \in Nat
      BY DeviceSessionAssumption DEF TypeOK, Request, Chains
    <2> QED
      BY <2>1, <2>2 DEF TypeOK, Send, Request, Messages
  <1>2. Request.step = pc /\ (Request.tls <=> tls \/ pc = "tls")
        /\ (pc \in {"pair", "tls"} => Request.arg = chain) /\ (pc = "service" => Request.arg = asked)
    BY DEF Request
  <1>3. CASE stream = "open"
    <2>1. /\ toDev' = Append(toDev, Request) /\ toDev' \in Seq(Messages)
          /\ Len(toDev') = Len(toDev) + 1
          /\ Parts(toDev') = Parts(toDev) \cup {Request}
      BY <1>1, <1>3, AppendFacts DEF Send
    <2>2. TypeOK'
      BY <1>1, <2>1 DEF TypeOK
    <2>3. Shape'
      BY <1>1, <1>3 DEF IInv, Shape
    <2>4. Records'
      BY <1>1 DEF IInv, Records, SavedIsAccepted
    <2>5. Underway'
      <3>1. \A m \in Parts(toDev') : m.step = "pair" => m.arg = chain /\ chain # 0
        BY <1>1, <1>2, <2>1 DEF IInv, Underway, Records
      <3>2. CASE ~strayed
        <4>1. toDev = <<>> /\ toHost = <<>> /\ Parts(toDev') = {Request} /\ Len(toDev') = 1
          BY <1>1, <2>1, <3>2, NoParts DEF IInv, Underway
        <4>2. Request.tls <=> session = "tls"
          BY <1>1, <1>2, <1>3, <3>2, <4>1 DEF IInv, Shape, InStep
        <4>3. \A m \in Parts(toDev') : Asks(m)'
          BY <1>1, <1>2, <4>1, <4>2 DEF Asks
        <4> QED
          BY <1>1, <3>1, <4>1, <4>3, NoParts DEF Underway
      <3> QED
        BY <1>1, <3>1, <3>2 DEF Underway
    <2>6. InStep'
      BY <1>1 DEF IInv, InStep
    <2>7. Retry'
      BY <1>1, <1>2, <2>1 DEF IInv, Retry, Renewed
    <2> QED
      BY <2>2, <2>3, <2>4, <2>5, <2>6, <2>7 DEF IInv
  <1>4. CASE stream # "open"
    <2>1. toDev' = toDev
      BY <1>4 DEF Send
    <2>2. TypeOK'
      BY <1>1, <2>1 DEF TypeOK
    <2>3. Shape' /\ Records' /\ InStep' /\ Retry'
      BY <1>1, <2>1 DEF IInv, Shape, Records, SavedIsAccepted, InStep, Retry
    <2>4. Underway'
      BY <1>1, <2>1 DEF IInv, Underway, Asks, Meets
    <2> QED
      BY <2>2, <2>3, <2>4 DEF IInv
  <1> QED
    BY <1>3, <1>4

\* An answer that is taken leaves nothing under way.
LEMMA TakesKeeps ==
    ASSUME TypeOK, IInv, NEW next \in Requests \cup {"save", "connected"}, Takes(next),
           pc \in Requests, toHost # <<>>,
           next = "pair" /\ pc = "pair" => tries + 1 < MaxTries,
           good => next \in {"session", "tls", "type", "version", "connected"},
           chain' = chain, doubtful' \subseteq Chains,
           tls' \in BOOLEAN, tls' => next \in Talking,
           Records', InStep'
    PROVE  TypeOK' /\ IInv'
  <1>1. /\ pc' = next /\ wait' = "send"
        /\ tries' \in 0 .. MaxTries /\ attempt' \in 0 .. Attempts /\ since' \in 0 .. MaxFaults
        /\ good' \in BOOLEAN /\ missed' \in Nat /\ asked' \in Services \cup {0} /\ port' \in Nat
    BY GoesType DEF Takes
  <1>2. /\ toHost' = Tail(toHost)
        /\ UNCHANGED <<disk, toDev, aligned, strayed, cable, device, stream, faults>>
    BY DEF Takes
  <1>3. toHost' \in Seq(Replies) /\ Parts(toHost') \subseteq Parts(toHost)
    BY <1>2, TailFacts DEF TypeOK
  <1>4. TypeOK'
    BY <1>1, <1>2, <1>3 DEF TypeOK
  <1>5. Shape'
    BY <1>1, <1>2 DEF IInv, Shape, Early, Requests, Ignored
  <1>6. Underway'
    <2>1. ~strayed => toDev' = <<>> /\ toHost' = <<>>
      BY <1>2, OneAtATime DEF IInv
    <2> QED
      BY <1>2, <2>1, NoParts DEF IInv, Underway
  <1>7. Retry'
    <2>1. good' => /\ good /\ next # "connected" /\ attempt' = attempt /\ since' = since
                   /\ missed' = missed
      BY DEF Takes, Goes
    <2> QED
      BY <1>1, <1>2, <1>3, <2>1 DEF IInv, Retry, Renewed, Requests, Ignored
  <1> QED
    BY <1>4, <1>5, <1>6, <1>7 DEF IInv

\* Each answer is read for the request it answers: the state it sets is the device's.
LEMMA ReadIgnoredKeeps ==
    ASSUME TypeOK, IInv, ReadIgnored
    PROVE  TypeOK' /\ IInv'
  <1>1. /\ pc \in Ignored /\ pc \in Requests /\ toHost # <<>> /\ Takes(Following)
        /\ UNCHANGED <<chain, doubtful, tls>>
    BY DEF ReadIgnored, Reads, Readable, Requests
  <1>2. pc' = Following /\ UNCHANGED <<disk, strayed, session, accepted, stream>>
    BY <1>1 DEF Takes, Goes
  <1>3. /\ Following \in Requests \cup {"save", "connected"} /\ (Following = "pair" => pc # "pair")
        /\ good => Following \in {"session", "tls", "type", "version", "connected"}
        /\ tls => Following \in Talking
    BY <1>1, FollowingIs DEF Ignored, Requests, IInv, Retry, Renewed, Shape, Talking
  <1>4. Records'
    BY <1>1, <1>2, FollowingIs DEF IInv, Records, SavedIsAccepted, Ignored, Pairing
  <1>5. InStep'
    BY <1>1, <1>2, FollowingIs DEF IInv, InStep, Ignored, Talking
  <1>6. doubtful' \subseteq Chains /\ tls' \in BOOLEAN
    BY <1>1 DEF TypeOK
  <1> QED
    BY <1>1, <1>3, <1>4, <1>5, <1>6, TakesKeeps

LEMMA ReadPairKeeps ==
    ASSUME TypeOK, IInv, ReadPair
    PROVE  TypeOK' /\ IInv'
  <1>1. /\ pc = "pair" /\ pc \in Requests /\ toHost # <<>> /\ ~good /\ ~tls
    BY DEF ReadPair, Reads, Readable, IInv, Retry, Renewed, Shape, Talking
  <1>2. CASE /\ Takes("save") /\ Answer.result = "ok" /\ UNCHANGED <<chain, tls>>
             /\ doubtful' = IF strayed THEN doubtful \cup {chain} ELSE doubtful
    <2>1. pc' = "save" /\ UNCHANGED <<disk, strayed, session, accepted, stream>>
      BY <1>2 DEF Takes, Goes
    <2>2. ~strayed => chain \in accepted
      BY <1>1, <1>2, OneAtATime DEF IInv, Meets, Answer
    <2>3. Records'
      BY <1>1, <1>2, <2>1, <2>2 DEF IInv, Records, SavedIsAccepted, Pairing
    <2>4. InStep'
      BY <1>1, <2>1 DEF IInv, InStep, Talking
    <2>5. doubtful' \subseteq Chains /\ tls' \in BOOLEAN
      BY <1>2 DEF TypeOK
    <2> QED
      BY <1>1, <1>2, <2>3, <2>4, <2>5, TakesKeeps
  <1>3. CASE Takes("pair") /\ tries + 1 < MaxTries /\ UNCHANGED <<chain, doubtful, tls>>
    <2>1. pc' = "pair" /\ UNCHANGED <<disk, strayed, session, accepted, stream>>
      BY <1>3 DEF Takes, Goes
    <2>2. Records'
      BY <1>1, <1>3, <2>1 DEF IInv, Records, SavedIsAccepted
    <2>3. InStep'
      BY <1>1, <2>1 DEF IInv, InStep, Talking
    <2>4. doubtful' \subseteq Chains /\ tls' \in BOOLEAN
      BY <1>3 DEF TypeOK
    <2> QED
      BY <1>1, <1>3, <2>2, <2>3, <2>4, TakesKeeps
  <1>4. CASE Refused
    BY <1>1, <1>4, FailKeeps DEF Refused, TypeOK
  <1> QED
    BY <1>2, <1>3, <1>4 DEF ReadPair

LEMMA ReadSessionKeeps ==
    ASSUME TypeOK, IInv, ReadSession
    PROVE  TypeOK' /\ IInv'
  <1>1. pc = "session" /\ pc \in Requests /\ toHost # <<>> /\ ~tls
    BY DEF ReadSession, Reads, Readable, IInv, Shape, Talking
  <1>2. CASE Answer.result = "ok"
    <2> DEFINE next == IF Answer.step = "session" /\ Answer.arg = 1 THEN "tls" ELSE "type"
    <2>1. Takes(next) /\ UNCHANGED <<chain, doubtful, tls>>
      BY <1>2 DEF ReadSession
    <2>2. pc' = next /\ UNCHANGED <<disk, strayed, session, accepted, stream>>
      BY <2>1 DEF Takes, Goes
    <2>3. next \in {"tls", "type"}
      OBVIOUS
    <2>4. ~strayed /\ stream = "open" => session = (IF next = "tls" THEN "tls" ELSE "plain")
      BY <1>1, <1>2, OneAtATime DEF IInv, Meets, Answer
    <2>5. Records'
      BY <1>1, <2>1, <2>2, <2>3 DEF IInv, Records, SavedIsAccepted, Pairing
    <2>6. InStep'
      BY <1>1, <2>1, <2>2, <2>3, <2>4 DEF InStep, Talking
    <2>7. next \in Requests /\ doubtful' \subseteq Chains /\ tls' \in BOOLEAN /\ ~tls'
      BY <1>1, <2>1, <2>3 DEF TypeOK, Requests, Ignored
    <2> HIDE DEF next
    <2> QED
      BY <1>1, <2>1, <2>3, <2>5, <2>6, <2>7, TakesKeeps
  <1>3. CASE Answer.result # "ok"
    <2>1. Refused /\ (good => strayed \/ link = "down")
      BY <1>1, <1>3, TailFacts DEF ReadSession, Answer, IInv, Retry, TypeOK
    <2> QED
      BY <1>1, <2>1, FailKeeps DEF Refused, TypeOK
  <1> QED
    BY <1>2, <1>3

LEMMA ReadHandshakeKeeps ==
    ASSUME TypeOK, IInv, ReadHandshake
    PROVE  TypeOK' /\ IInv'
  <1>1. pc = "tls" /\ pc \in Requests /\ toHost # <<>> /\ ~tls
    BY DEF ReadHandshake, Reads, Readable, IInv, Shape, Talking
  <1>2. CASE Answer.step = "tls" /\ Answer.result = "ok"
    <2>1. Takes("type") /\ tls' = TRUE /\ UNCHANGED <<chain, doubtful>>
      BY <1>2 DEF ReadHandshake
    <2>2. pc' = "type" /\ UNCHANGED <<disk, strayed, session, accepted, stream>>
      BY <2>1 DEF Takes, Goes
    <2>3. Records'
      BY <1>1, <2>1, <2>2 DEF IInv, Records, SavedIsAccepted, Pairing
    <2>4. InStep'
      BY <1>1, <2>1, <2>2 DEF IInv, InStep, Talking
    <2>5. doubtful' \subseteq Chains /\ tls' \in BOOLEAN /\ "type" \in Requests /\ "type" \in Talking
      BY <2>1 DEF TypeOK, Requests, Ignored, Talking
    <2> QED
      BY <1>1, <2>1, <2>3, <2>4, <2>5, TakesKeeps
  <1>3. CASE ~(Answer.step = "tls" /\ Answer.result = "ok")
    <2>1. Refused
      BY <1>3 DEF ReadHandshake
    <2>2. ~strayed => Answer.step = "tls"
      BY <1>1, OneAtATime DEF IInv, Meets, Answer
    <2>3. good => strayed \/ link = "down"
      BY <1>1, <1>3, <2>2, TailFacts DEF Answer, IInv, Retry, TypeOK
    <2> QED
      BY <1>1, <2>1, <2>3, FailKeeps DEF Refused, TypeOK
  <1> QED
    BY <1>2, <1>3

LEMMA ReadKeyKeeps ==
    ASSUME TypeOK, IInv, ReadKey
    PROVE  TypeOK' /\ IInv'
  <1>1. pc = "key" /\ toHost # <<>> /\ ~good /\ chain = 0 /\ gen < MaxGens
    BY DEF ReadKey, Reads, Readable, IInv, Retry, Records
  <1>2. CASE ~Refused
    <2>1. /\ Goes("wifi") /\ pc' = "wifi" /\ wait' = "send" /\ good' = good
          /\ gen' = gen + 1 /\ chain' = gen + 1 /\ toHost' = Tail(toHost)
          /\ UNCHANGED <<doubtful, file, toDev, aligned, strayed, cable, device, ends, faults>>
      BY <1>2 DEF ReadKey, Goes, NewChain
    <2>2. toHost' \in Seq(Replies)
      BY <1>1, <2>1, TailFacts DEF TypeOK
    <2>3. chain' \in Chains /\ gen' \in Chains /\ chain' # 0
      BY <1>1, <2>1, DeviceSessionAssumption DEF TypeOK, Chains
    <2>4. TypeOK'
      BY <2>1, <2>2, <2>3, GoesType DEF TypeOK, Requests, Ignored
    <2>5. Shape'
      BY <1>1, <2>1 DEF IInv, Shape, Early, Talking
    <2>6. Records'
      BY <1>1, <2>1, <2>3 DEF IInv, Records, SavedIsAccepted, Pairing
    <2>7. Underway'
      <3>1. \A m \in Parts(toDev) : m.step # "pair"
        BY <1>1 DEF IInv, Underway
      <3>2. ~strayed => toDev' = <<>> /\ toHost' = <<>>
        BY <1>1, <2>1, OneAtATime DEF IInv
      <3> QED
        BY <2>1, <3>1, <3>2, NoParts DEF IInv, Underway
    <2>8. InStep'
      BY <1>1, <2>1 DEF IInv, InStep, Talking
    <2>9. Retry'
      BY <1>1, <2>1 DEF Retry
    <2> QED
      BY <2>4, <2>5, <2>6, <2>7, <2>8, <2>9 DEF IInv
  <1>3. CASE Refused
    BY <1>1, <1>3, FailKeeps DEF Refused, TypeOK
  <1> QED
    BY <1>2, <1>3

LEMMA ReadServiceKeeps ==
    ASSUME TypeOK, IInv, ReadService
    PROVE  TypeOK' /\ IInv'
  <1>1. pc = "service" /\ pc \in Requests /\ toHost # <<>> /\ ~good
    BY DEF ReadService, Reads, Readable, Requests, IInv, Retry, Renewed
  <1>2. CASE Answer.step = "service" /\ Answer.result = "ok"
    <2>1. /\ pc' = "port" /\ wait' = "send" /\ port' = Answer.arg % PortValues /\ toHost' = Tail(toHost)
          /\ UNCHANGED <<call, memory, disk, asked, toDev, aligned, strayed, cable, device, ends, faults>>
      BY <1>2 DEF ReadService
    <2>2. toHost' \in Seq(Replies) /\ Answer \in Replies
      BY <1>1, <2>1, TailFacts DEF TypeOK, Answer
    <2>3. TypeOK'
      <3>1. port' \in Nat
        BY <2>1, <2>2 DEF Replies, PortValues
      <3> QED
        BY <2>1, <2>2, <3>1 DEF TypeOK
    <2>4. Shape'
      BY <1>1, <2>1 DEF IInv, Shape, Early, Talking
    <2>5. Records'
      BY <1>1, <2>1 DEF IInv, Records, SavedIsAccepted, Pairing
    <2>6. Underway'
      <3>1. ~strayed => toDev' = <<>> /\ toHost' = <<>>
        BY <1>1, <2>1, OneAtATime DEF IInv
      <3> QED
        BY <2>1, <3>1, NoParts DEF IInv, Underway
    <2>7. InStep'
      <3>1. ~strayed => Answer.arg = asked
        BY <1>1, <1>2, OneAtATime DEF IInv, Meets, Answer
      <3>2. asked \in Nat /\ asked < PortValues
        BY DeviceSessionAssumption DEF TypeOK, PortValues
      <3>3. asked % PortValues = asked
        BY <3>2 DEF PortValues
      <3>4. ~strayed => port' = asked'
        BY <2>1, <3>1, <3>3
      <3> QED
        BY <1>1, <2>1, <3>4 DEF IInv, InStep, Talking
    <2>8. Retry'
      BY <1>1, <2>1 DEF Retry
    <2> QED
      BY <2>3, <2>4, <2>5, <2>6, <2>7, <2>8 DEF IInv
  <1>3. CASE ~(Answer.step = "service" /\ Answer.result = "ok")
    <2>1. Takes("connected") /\ UNCHANGED <<chain, doubtful, tls>>
      BY <1>3 DEF ReadService
    <2>2. pc' = "connected" /\ UNCHANGED <<disk, strayed, session, accepted, stream>>
      BY <2>1 DEF Takes, Goes
    <2>3. Records'
      BY <1>1, <2>1, <2>2 DEF IInv, Records, SavedIsAccepted, Pairing
    <2>4. InStep'
      BY <1>1, <2>1, <2>2 DEF IInv, InStep, Talking
    <2>5. doubtful' \subseteq Chains /\ tls' \in BOOLEAN /\ "connected" \in Talking
      BY <2>1 DEF TypeOK, Talking
    <2> QED
      BY <1>1, <2>1, <2>3, <2>4, <2>5, TakesKeeps
  <1> QED
    BY <1>2, <1>3

-----------------------------------------------------------------------------
(* The device.                                                             *)

\* A device that cannot read a message resets the stream, and with it the session.
LEMMA DeviceResetsKeeps ==
    ASSUME TypeOK, IInv, DeviceResets
    PROVE  TypeOK' /\ IInv'
  <1>1. /\ stream' = "reset" /\ session' = "none" /\ toDev' = <<>> /\ stream = "open" /\ toDev # <<>>
        /\ UNCHANGED <<pc, wait, call, memory, disk, service, toHost, aligned, strayed, cable, tls,
                       trusted, dialog, accepted, faults>>
    BY DEF DeviceResets
  <1>2. TypeOK'
    BY <1>1, EmptyWires DEF TypeOK
  <1>3. Shape'
    BY <1>1 DEF IInv, Shape
  <1>4. Records'
    BY <1>1 DEF IInv, Records, SavedIsAccepted
  <1>5. ~strayed => toHost = <<>>
    BY <1>1, OneAtATime DEF IInv
  <1>6. Underway'
    BY <1>1, <1>5, NoParts DEF IInv, Underway
  <1>7. InStep'
    BY <1>1 DEF IInv, InStep
  <1>8. Retry'
    <2>1. good => strayed
      <3>1. ~strayed => Asks(Head(toDev))
        BY <1>1, OneAtATime DEF IInv
      <3>2. CASE Head(toDev).tls # (session = "tls")
        BY <1>1, <3>1, <3>2, OneAtATime DEF Asks, IInv, Messages
      <3>3. CASE Head(toDev).step = "tls" /\ Head(toDev).arg # trusted
        BY <3>1, <3>3 DEF Asks, IInv, Retry
      <3> QED
        BY <3>2, <3>3 DEF DeviceResets
    <2> QED
      BY <1>1, <2>1, NoParts DEF IInv, Retry
  <1> QED
    BY <1>2, <1>3, <1>4, <1>6, <1>7, <1>8 DEF IInv

\* A reply takes the place of its request, and holds what the request asked for.
LEMMA ReplyKeeps ==
    ASSUME TypeOK, IInv, NEW step \in Requests, NEW outcome \in Results, NEW arg \in Nat,
           DeviceReplies(step, outcome, arg),
           trusted' \in Chains, dialog' \in {"none", "shown", "trust", "refuse"},
           session' \in {"none", "plain", "tls"}, accepted \subseteq accepted', accepted' \subseteq Chains,
           step # "session" => session' = session,
           outcome = "ok" => /\ step = "pair" => Head(toDev).arg \in accepted'
                             /\ step = "service" => arg = Head(toDev).arg
                             /\ step = "session" => session' = (IF arg = 1 THEN "tls" ELSE "plain"),
           good => trusted' = trusted /\ (~strayed => outcome = "ok")
    PROVE  TypeOK' /\ IInv'
  <1> DEFINE r == [step |-> step, result |-> outcome, arg |-> arg]
  <1>1. /\ toDev # <<>> /\ link = "up" /\ stream = "open" /\ Head(toDev).step = step
        /\ toDev' = Tail(toDev) /\ toHost' = Append(toHost, r)
        /\ UNCHANGED <<pc, wait, call, memory, disk, service, aligned, strayed, cable, ends, faults>>
    BY DEF DeviceReplies
  <1>2. r \in Replies /\ toDev \in Seq(Messages) /\ toHost \in Seq(Replies)
    BY DEF Replies, TypeOK
  <1>3. toDev' \in Seq(Messages) /\ Parts(toDev') \subseteq Parts(toDev)
    BY <1>1, <1>2, TailFacts
  <1>4. /\ toHost' \in Seq(Replies) /\ Len(toHost') = Len(toHost) + 1 /\ toHost' # <<>>
        /\ Parts(toHost') = Parts(toHost) \cup {r}
    BY <1>1, <1>2, AppendFacts
  <1>5. ~strayed => /\ toHost = <<>> /\ toDev' = <<>> /\ Asks(Head(toDev))
                    /\ Parts(toHost') = {r} /\ Len(toHost') = 1
    BY <1>1, <1>4, OneAtATime, NoParts DEF IInv
  <1>6. TypeOK'
    BY <1>1, <1>3, <1>4 DEF TypeOK
  <1>7. Shape'
    <2>1. stream # "reset" /\ stream # "none"
      BY <1>1
    <2> QED
      BY <1>1, <2>1 DEF IInv, Shape
  <1>8. Records'
    BY <1>1 DEF IInv, Records, SavedIsAccepted
  <1>9. Underway'
    <2>1. \A m \in Parts(toDev') : m.step = "pair" => m.arg = chain' /\ chain' # 0
      BY <1>1, <1>3 DEF IInv, Underway
    <2>2. CASE ~strayed
      <3>1. Head(toDev).step = pc /\ Head(toDev) \in Parts(toDev) /\ wait # "send"
        BY <1>1, <1>2, <1>5, <2>2, TailFacts DEF Asks, IInv, Underway
      <3>2. /\ pc = "pair" => Head(toDev).arg = chain
            /\ pc = "service" => Head(toDev).arg = asked
        BY <1>5, <2>2, <3>1 DEF Asks, IInv, Underway
      <3>3. \A q \in Parts(toHost') : Meets(q)'
        BY <1>1, <1>5, <2>2, <3>1, <3>2 DEF Meets
      <3>4. Parts(toDev') = {} /\ Len(toDev') = 0 /\ wait' # "send"
        BY <1>1, <1>5, <2>2, <3>1, NoParts
      <3>5. toDev' = <<>> /\ Len(toHost') = 1
        BY <1>5, <2>2
      <3>6. Len(toHost') <= 1
        BY <3>5
      <3> QED
        BY <2>1, <3>3, <3>4, <3>5, <3>6 DEF Underway
    <2> QED
      BY <1>1, <2>1, <2>2 DEF Underway
  <1>10. InStep'
    <2>1. ~strayed => pc = step
      BY <1>1, <1>5 DEF Asks
    <2> QED
      BY <1>1, <1>4, <2>1 DEF IInv, InStep, Talking
  <1>11. Retry'
    BY <1>1, <1>3, <1>5 DEF IInv, Retry
  <1> QED
    BY <1>6, <1>7, <1>8, <1>9, <1>10, <1>11 DEF IInv

\* Each answer of the device, by the request it answers.
LEMMA DeviceTellsKeeps ==
    ASSUME TypeOK, IInv, DeviceTells
    PROVE  TypeOK' /\ IInv'
  <1>1. PICK step \in Ignored \cup {"key"} : DeviceReplies(step, "ok", 0)
    BY DEF DeviceTells
  <1>2. step \in Requests /\ step \notin {"pair", "service", "session"}
    BY DEF Requests, Ignored
  <1>3. UNCHANGED device
    BY DEF DeviceTells
  <1>4. /\ trusted' \in Chains /\ dialog' \in {"none", "shown", "trust", "refuse"}
        /\ session' \in {"none", "plain", "tls"} /\ accepted' \subseteq Chains
    BY <1>3 DEF TypeOK
  <1> QED
    BY <1>1, <1>2, <1>3, <1>4, ReplyKeeps DEF Results

LEMMA DevicePairsKeeps ==
    ASSUME TypeOK, IInv, DevicePairs
    PROVE  TypeOK' /\ IInv'
  <1>1. /\ toDev # <<>> /\ Head(toDev).step = "pair" /\ Head(toDev) \in Messages
        /\ Head(toDev) \in Parts(toDev)
    BY TailFacts DEF DevicePairs, DeviceReplies, TypeOK
  <1>2. ~good /\ Head(toDev).arg \in Chains
    BY <1>1 DEF IInv, Retry, Underway, TypeOK
  <1>3. /\ trusted' \in Chains /\ dialog' \in {"none", "shown", "trust", "refuse"}
        /\ session' = session /\ accepted \subseteq accepted' /\ accepted' \subseteq Chains
    BY <1>2 DEF DevicePairs, TypeOK
  <1>4. CASE DeviceReplies("pair", "pending", 0) \/ DeviceReplies("pair", "refused", 0)
    BY <1>2, <1>3, <1>4, ReplyKeeps DEF Results, Requests, TypeOK
  <1>5. CASE DeviceReplies("pair", "ok", Head(toDev).arg) /\ Head(toDev).arg \in accepted'
    BY <1>1, <1>2, <1>3, <1>5, ReplyKeeps DEF Results, TypeOK, Messages
  <1> QED
    BY <1>4, <1>5 DEF DevicePairs

LEMMA DeviceStartsSessionKeeps ==
    ASSUME TypeOK, IInv, DeviceStartsSession
    PROVE  TypeOK' /\ IInv'
  <1>1. UNCHANGED <<trusted, dialog, accepted>>
    BY DEF DeviceStartsSession
  <1>2. CASE trusted = 0
    <2>1. DeviceReplies("session", "refused", 0) /\ session' = session /\ ~good
      BY <1>2 DEF DeviceStartsSession, IInv, Retry
    <2> QED
      BY <1>1, <2>1, ReplyKeeps DEF Results, Requests, TypeOK
  <1>3. CASE trusted # 0
    <2>1. PICK ssl \in {"plain", "tls"} :
             DeviceReplies("session", "ok", IF ssl = "tls" THEN 1 ELSE 0) /\ session' = ssl
      BY <1>3 DEF DeviceStartsSession
    <2>2. /\ (IF ssl = "tls" THEN 1 ELSE 0) \in Nat
          /\ session' = IF (IF ssl = "tls" THEN 1 ELSE 0) = 1 THEN "tls" ELSE "plain"
      BY <2>1
    <2> QED
      BY <1>1, <2>1, <2>2, ReplyKeeps DEF Results, Requests, TypeOK
  <1> QED
    BY <1>2, <1>3

LEMMA DeviceShakesHandsKeeps ==
    ASSUME TypeOK, IInv, DeviceShakesHands
    PROVE  TypeOK' /\ IInv'
  <1>1. DeviceReplies("tls", "ok", 0) /\ UNCHANGED device
    BY DEF DeviceShakesHands
  <1> QED
    BY <1>1, ReplyKeeps DEF Results, Requests, TypeOK

LEMMA DeviceStartsServiceKeeps ==
    ASSUME TypeOK, IInv, DeviceStartsService
    PROVE  TypeOK' /\ IInv'
  <1>1. /\ toDev # <<>> /\ Head(toDev).step = "service" /\ Head(toDev) \in Messages
        /\ UNCHANGED device
    BY TailFacts DEF DeviceStartsService, DeviceReplies, TypeOK
  <1>2. PICK outcome \in {"refused", "ok"} : DeviceReplies("service", outcome, Head(toDev).arg)
    BY DEF DeviceStartsService
  <1>3. ~good \/ strayed
    <2>1. ~strayed => pc = "service"
      BY <1>1, OneAtATime DEF IInv, Asks
    <2> QED
      BY <2>1 DEF IInv, Retry, Renewed
  <1>4. Head(toDev).arg \in Nat /\ "service" \in Requests /\ outcome \in Results
    BY <1>1 DEF Messages, Requests, Results
  <1>5. /\ trusted' \in Chains /\ dialog' \in {"none", "shown", "trust", "refuse"}
        /\ session' \in {"none", "plain", "tls"} /\ accepted' \subseteq Chains
    BY <1>1 DEF TypeOK
  <1> QED
    BY <1>1, <1>2, <1>3, <1>4, <1>5, ReplyKeeps

-----------------------------------------------------------------------------
(* Every step keeps the invariant.                                         *)

\* The host starts without a record, the device without trust.
LEMMA InitInv == Init => TypeOK /\ IInv
  <1> SUFFICES ASSUME Init PROVE TypeOK /\ IInv
    OBVIOUS
  <1>1. TypeOK
    <2>1. /\ tls \in BOOLEAN /\ aligned \in BOOLEAN /\ strayed \in BOOLEAN
          /\ plugged \in BOOLEAN /\ good \in BOOLEAN
      BY DEF Init
    <2> QED
      BY <2>1, DeviceSessionAssumption DEF Init, TypeOK, Chains, NoFile
  <1>2. IInv
    BY NoParts
       DEF Init, IInv, Shape, Records, SavedIsAccepted, Underway, InStep, Retry, Early, NoFile
  <1> QED
    BY <1>1, <1>2

\* One step for each action.
LEMMA NextInv ==
    ASSUME TypeOK, IInv, [Next]_vars
    PROVE  TypeOK' /\ IInv'
  <1>1. CASE UNCHANGED vars
    <2>1. TypeOK'
      BY <1>1 DEF vars, TypeOK
    <2>2. Shape' /\ Records'
      BY <1>1 DEF vars, IInv, Shape, Records, SavedIsAccepted
    <2>3. Underway' /\ InStep' /\ Retry'
      BY <1>1 DEF vars, IInv, Underway, Asks, Meets, InStep, Retry
    <2> QED
      BY <2>1, <2>2, <2>3 DEF IInv
  <1>2. CASE HostNext
    BY <1>2, LoadKeeps, OpenTransportKeeps, OpenConnectionKeeps, OpenStreamKeeps,
       OpenServiceStreamKeeps, SendKeeps, SendFailsKeeps, ReadLengthKeeps, ReadFailsKeeps,
       ReadIgnoredKeeps, ReadKeyKeeps, ReadPairKeeps, ReadSessionKeeps, ReadHandshakeKeeps,
       ReadServiceKeeps, TruncateKeeps, WriteRecordKeeps DEF HostNext
  <1>3. CASE DeviceNext
    BY <1>3, DeviceResetsKeeps, DeviceTellsKeeps, DevicePairsKeeps, DeviceStartsSessionKeeps,
       DeviceShakesHandsKeeps, DeviceStartsServiceKeeps DEF DeviceNext
  <1>4. CASE CallerNext
    BY <1>4, ConnectKeeps, DisconnectKeeps, DeleteKeeps, StartServiceKeeps DEF CallerNext
  <1>5. CASE FaultNext
    BY <1>5, GiveUpKeeps, DiskFailsKeeps, CrashKeeps, ForgetKeeps, UnplugKeeps DEF FaultNext
  <1>6. CASE \E answer \in {"trust", "refuse"} : Tap(answer)
    BY <1>6, TapKeeps
  <1>7. CASE Replug
    BY <1>7, ReplugKeeps
  <1> QED
    BY <1>1, <1>2, <1>3, <1>4, <1>5, <1>6, <1>7 DEF Next

\* The invariant holds of every behaviour, over refusals, requests given up, crashes
\* and cables pulled (lockdown.cpp, pairing.cpp, device.cpp, device.hpp).
THEOREM Inductive == Spec => [](TypeOK /\ IInv)
  <1>1. Init => TypeOK /\ IInv
    BY InitInv
  <1>2. TypeOK /\ IInv /\ [Next]_vars => TypeOK' /\ IInv'
    BY NextInv
  <1> QED
    BY <1>1, <1>2, PTL DEF Spec

-----------------------------------------------------------------------------
(* The theorems.                                                           *)

\* Every variable keeps its type: no chain, attempt or Pair request beyond its bound.
THEOREM TypeCorrect == Spec => []TypeOK
  BY Inductive, PTL

\* The record on disk is one the device accepted and the record of every session,
\* through crashes between truncation and write, full disks and late answers, except
\* where the pairing was itself cut short (Pairing::save, Device::connect).
THEOREM RecordsAreAccepted == Spec => []RecordsHold
  <1>1. TypeOK /\ IInv => RecordsHold
    BY DEF IInv, Records, RecordsHold, ConnectedIsSaved, InSession, Pairing
  <1> QED
    BY <1>1, Inductive, PTL

\* Until a request is given up each answer is read for the request it answers, TLS is
\* spoken by both or neither, and a service is reached at its own port
\* (Lockdown::request, which looks at no number).
THEOREM SessionInStep == Spec => []SessionAgrees
  <1>1. TypeOK /\ IInv => SessionAgrees
    <2> SUFFICES ASSUME TypeOK, IInv PROVE SessionAgrees
      OBVIOUS
    <2>1. AnswersMatch
      <3> SUFFICES ASSUME ~strayed PROVE AnswersMatch
        BY DEF AnswersMatch
      <3>1. toDev \in Seq(Messages) /\ toHost \in Seq(Replies)
        BY DEF TypeOK
      <3>2. Len(toDev) + Len(toHost) <= 1
        BY <3>1, PartsType DEF IInv, Underway
      <3>3. toDev \o toHost # <<>> => wait # "send"
        BY <3>1, ConcatEmptySeq DEF IInv, Underway
      <3>4. /\ \A i \in DOMAIN toDev : toDev[i].step = pc
            /\ \A i \in DOMAIN toHost : toHost[i].step = pc
        BY DEF IInv, Underway, Parts, Asks, Meets
      <3> QED
        BY <3>2, <3>3, <3>4 DEF AnswersMatch
    <2>2. TlsAgrees
      BY DEF IInv, InStep, Talking, TlsAgrees
    <2>3. PortIsForService
      BY DEF IInv, InStep, PortIsForService
    <2> QED
      BY <2>1, <2>2, <2>3 DEF SessionAgrees
  <1> QED
    BY <1>1, Inductive, PTL

\* With a record the device trusts connect_with_retry fails only if each of its
\* attempts met a fault of its own or found no device, however many there are (device.hpp).
THEOREM RetryOutlasts == Spec => []RetryOutlastsFaults
  <1>1. TypeOK /\ IInv => RetryOutlastsFaults
    <2> SUFFICES ASSUME TypeOK, IInv, pc = "idle", good PROVE (faults - since) + missed >= Attempts
      BY DEF RetryOutlastsFaults
    <2>1. faults + missed >= since + Attempts
      BY DEF IInv, Retry
    <2> QED
      BY <2>1, DeviceSessionAssumption DEF TypeOK
  <1> QED
    BY <1>1, Inductive, PTL
-----------------------------------------------------------------------------
(* The question is asked once: the invariant of the Pair requests.         *)

\* The requests up to the one for trust.
Asking == {"udid", "key", "wifi", "pair"}

NoPair(q)  == \A m \in Parts(q) : m.step # "pair"
OnePair(q) == \A i, j \in DOMAIN q : q[i].step = "pair" /\ q[j].step = "pair" => i = j

\* What comes next is not the answer to a Pair request.
Ahead ==
    /\ toHost # <<>> => Head(toHost).step # "pair"
    /\ toHost = <<>> /\ toDev # <<>> => Head(toDev).step # "pair"

\* What was asked and not read is still under way.
Owed ==
    stream = "open" /\ aligned =>
        /\ wait # "send" \/ strayed => Len(toDev) + Len(toHost) >= 1
        /\ wait # "send" /\ strayed => Len(toDev) + Len(toHost) >= 2

\* The chains there are, and the one in the file.
Kept ==
    /\ pc # "load" => file.chain \in {0, chain}
    /\ chain <= gen /\ file.chain <= gen /\ \A c \in accepted : c <= gen
    /\ trusted \in accepted \cup {0}

\* A Pair request the device has not taken is the only one, for a chain it has yet to accept.
Alone == OnePair(toDev) /\ (NoPair(toDev) \/ chain \notin accepted)

\* Another is sent only when the answer to the one before, and it alone, was "pending".
Asked ==
    /\ pc \in Asking =>
        /\ \A m \in Parts(toDev) : m.step \in Asking
        /\ \A r \in Parts(toHost) : r.step \in Asking /\ (r.step # "pair" => r.result = "ok")
    /\ pc \in {"udid", "key", "wifi"} \/ (pc = "pair" /\ wait = "send") => NoPair(toDev) /\ NoPair(toHost)
    /\ pc = "wifi" \/ (pc = "pair" /\ wait = "send") => chain \notin accepted
    /\ pc = "pair" /\ wait # "send" /\ strayed /\ aligned => Ahead
    /\ pc = "pair" /\ ~strayed => \A r \in Parts(toHost) : r.result = "pending" => chain \notin accepted

Once == Owed /\ Kept /\ Alone /\ Asked

LEMMA NoneOnce == NoPair(<<>>) /\ OnePair(<<>>)
  BY NoParts DEF NoPair, OnePair

LEMMA TailOnce ==
    ASSUME NEW q \in Seq(Messages), q # <<>>, OnePair(q)
    PROVE  OnePair(Tail(q)) /\ (Head(q).step = "pair" => NoPair(Tail(q)))
  <1>1. /\ Head(q) = q[1] /\ Len(q) \in Nat \ {0} /\ Len(Tail(q)) = Len(q) - 1
        /\ \A i \in 1 .. Len(Tail(q)) : Tail(q)[i] = q[i + 1]
    BY HeadTailProperties
  <1>2. DOMAIN q = 1 .. Len(q) /\ DOMAIN Tail(q) = 1 .. (Len(q) - 1)
    BY <1>1, LenProperties, HeadTailProperties
  <1>3. \A i \in DOMAIN Tail(q) : i \in Nat /\ i + 1 \in DOMAIN q /\ i + 1 # 1 /\ Tail(q)[i] = q[i + 1]
    BY <1>1, <1>2
  <1>4. OnePair(Tail(q))
    <2> SUFFICES ASSUME NEW i \in DOMAIN Tail(q), NEW j \in DOMAIN Tail(q),
                        Tail(q)[i].step = "pair", Tail(q)[j].step = "pair"
                 PROVE  i = j
      BY DEF OnePair
    <2>1. i + 1 = j + 1
      BY <1>3 DEF OnePair
    <2> QED
      BY <1>3, <2>1
  <1>5. 1 \in DOMAIN q
    BY <1>1, <1>2
  <1>6. Head(q).step = "pair" => NoPair(Tail(q))
    BY <1>1, <1>3, <1>5 DEF NoPair, OnePair, Parts
  <1> QED
    BY <1>4, <1>6

LEMMA AppendOnce ==
    ASSUME NEW q \in Seq(Messages), NEW e \in Messages, NoPair(q) \/ (OnePair(q) /\ e.step # "pair")
    PROVE  /\ OnePair(Append(q, e))
           /\ NoPair(q) /\ e.step # "pair" => NoPair(Append(q, e))
  <1>1. /\ Append(q, e) \in Seq(Messages) /\ Len(q) \in Nat
        /\ DOMAIN q = 1 .. Len(q) /\ DOMAIN Append(q, e) = 1 .. (Len(q) + 1)
        /\ \A i \in 1 .. Len(q) : Append(q, e)[i] = q[i]
        /\ Append(q, e)[Len(q) + 1] = e
    BY AppendProperties, LenProperties
  <1>2. \A i \in DOMAIN Append(q, e) : i = Len(q) + 1 \/ (i \in DOMAIN q /\ Append(q, e)[i] = q[i])
    BY <1>1
  <1>3. OnePair(Append(q, e))
    BY <1>1, <1>2 DEF OnePair, NoPair, Parts
  <1> QED
    BY <1>3, AppendFacts DEF NoPair

\* The lengths of the wires.
LEMMA WireLengths ==
    ASSUME TypeOK
    PROVE  /\ toDev \in Seq(Messages) /\ toHost \in Seq(Replies)
           /\ Len(toDev) \in Nat /\ Len(toHost) \in Nat
           /\ toDev # <<>> => Len(toDev) >= 1 /\ Len(Tail(toDev)) = Len(toDev) - 1
           /\ toHost # <<>> => Len(toHost) >= 1 /\ Len(Tail(toHost)) = Len(toHost) - 1
           /\ toDev = <<>> => Len(toDev) = 0
           /\ toHost = <<>> => Len(toHost) = 0
  <1>1. toDev \in Seq(Messages) /\ toHost \in Seq(Replies)
    BY DEF TypeOK
  <1>2. Len(toDev) \in Nat /\ Len(toHost) \in Nat
    BY <1>1, LenProperties
  <1>3. /\ toDev # <<>> => Len(toDev) \in Nat \ {0} /\ Len(Tail(toDev)) = Len(toDev) - 1
        /\ toHost # <<>> => Len(toHost) \in Nat \ {0} /\ Len(Tail(toHost)) = Len(toHost) - 1
    BY <1>1, TailFacts
  <1> QED
    BY <1>1, <1>2, <1>3, NoParts

\* Nothing is under way.
LEMMA ClearedOnce ==
    ASSUME Once, toDev' = <<>>, toHost' = <<>>, Kept',
           stream' = "open" /\ aligned' => wait' = "send" /\ ~strayed',
           pc' \notin {"wifi", "pair"} \/ UNCHANGED <<pc, wait, chain, accepted>>
    PROVE  Once'
  <1>1. Owed' /\ Alone'
    BY NoneOnce DEF Owed, Alone
  <1>2. Asked'
    BY NoneOnce, NoParts DEF Once, Asked, Ahead
  <1> QED
    BY <1>1, <1>2 DEF Once

LEMMA FailOnce ==
    ASSUME TypeOK, Once, Fail, file' = file \/ file' = [kind |-> "torn", chain |-> 0], pc # "load"
    PROVE  Once'
  <1>1. pc' \in {"open", "idle"} /\ chain' = chain /\ UNCHANGED <<gen, accepted, trusted>>
    BY DEF Fail, Hangup
  <1>2. Kept'
    BY <1>1 DEF Once, Kept, TypeOK, Chains
  <1> QED
    BY <1>1, <1>2, ClearedOnce DEF Fail, Hangup

\* Past the question, what the host does to what is under way does not matter.
LEMMA LaterOnce ==
    ASSUME Once, pc' \notin Asking, toDev' = toDev, UNCHANGED <<chain, accepted>>, Kept', Owed'
    PROVE  Once'
  BY DEF Once, Alone, Asked, Asking

\* An answer is taken.
LEMMA TakesOnce ==
    ASSUME TypeOK, IInv, Once, wait = "body", Readable, wait' = "send",
           toHost' = Tail(toHost), UNCHANGED <<toDev, aligned, strayed, stream, chain, accepted, trusted, gen, file>>,
           pc # "load", pc' \notin {"load", "udid", "wifi"}, pc' = "key" => pc = "udid",
           pc' = "pair" => pc = "wifi" \/ (pc = "pair" /\ Head(toHost).result = "pending")
    PROVE  Once'
  <1>1. toHost # <<>> /\ aligned /\ toHost \in Seq(Replies)
    BY DEF Readable, TypeOK
  <1>2. Parts(Tail(toHost)) \subseteq Parts(toHost) /\ Head(toHost) \in Parts(toHost)
    BY <1>1, TailFacts
  <1>3. Owed'
    <2> SUFFICES ASSUME stream = "open", strayed PROVE Len(toDev) + Len(Tail(toHost)) >= 1
      BY DEF Owed
    <2>1. Len(toDev) + Len(toHost) >= 2
      BY <1>1 DEF Once, Owed
    <2> QED
      BY <1>1, <2>1, WireLengths
  <1>4. Kept' /\ Alone'
    BY DEF Once, Kept, Alone
  <1>5. CASE pc' = "pair" /\ pc = "pair"
    <2>1. ~strayed
      <3> SUFFICES ASSUME strayed PROVE FALSE
        OBVIOUS
      <3>1. Head(toHost).step # "pair"
        BY <1>1, <1>5 DEF Once, Asked, Ahead
      <3> QED
        BY <1>2, <1>5, <3>1 DEF Once, Asked, Asking
    <2>2. toDev = <<>> /\ Tail(toHost) = <<>>
      BY <1>1, <2>1, OneAtATime DEF IInv
    <2>3. chain \notin accepted
      BY <1>2, <1>5, <2>1 DEF Once, Asked
    <2>4. Asked'
      BY <1>5, <2>2, <2>3, NoneOnce, NoParts DEF Asked
    <2> QED
      BY <1>3, <1>4, <2>4 DEF Once
  <1>6. CASE pc' # "pair" \/ pc # "pair"
    <2>1. NoPair(toHost) => NoPair(Tail(toHost))
      BY <1>2 DEF NoPair
    <2>2. Asked'
      BY <1>2, <1>6, <2>1 DEF Once, Asked, Asking
    <2> QED
      BY <1>3, <1>4, <2>2 DEF Once
  <1> QED
    BY <1>5, <1>6

LEMMA UnansweredOnce ==
    ASSUME TypeOK, IInv, Once, NEW whole \in BOOLEAN, NEW given_up \in BOOLEAN,
           Unanswered(whole, given_up), pc \in Requests,
           stream = "open" /\ whole /\ given_up => aligned /\ (wait # "send" \/ strayed)
    PROVE  Once'
  <1>0. pc # "load"
    BY DEF Requests, Ignored
  <1>1. CASE pc \in Ignored \cup {"service"}
    <2>1. /\ Goes(Following) /\ aligned' = whole /\ strayed' = given_up
          /\ toHost' = IF whole THEN toHost ELSE <<>>
          /\ UNCHANGED <<chain, gen, file, toDev, trusted, accepted, stream>>
      BY <1>1 DEF Unanswered
    <2>2. /\ wait' = "send" /\ pc' = Following
          /\ pc' \notin {"load", "udid", "wifi"} /\ (pc' = "key" => pc = "udid") /\ (pc' = "pair" => pc = "wifi")
      BY <1>1, <2>1, FollowingIs DEF Goes, Ignored
    <2>3. Owed'
      BY <2>1, <2>2 DEF Once, Owed
    <2>4. Kept' /\ Alone'
      BY <1>0, <2>1, <2>2 DEF Once, Kept, Alone
    <2>5. /\ NoPair(toHost) => NoPair(toHost')
          /\ \A r \in Parts(toHost') : r \in Parts(toHost)
      BY <2>1, NoneOnce, NoParts
    <2>6. Asked'
      BY <2>1, <2>2, <2>5 DEF Once, Asked, Asking
    <2> QED
      BY <2>3, <2>4, <2>6 DEF Once
  <1>2. CASE pc \notin Ignored \cup {"service"}
    BY <1>0, <1>2, FailOnce DEF Unanswered
  <1> QED
    BY <1>1, <1>2

LEMMA SendOnce ==
    ASSUME TypeOK, IInv, Once, Send
    PROVE  Once'
  <1>1. /\ pc \in Requests /\ wait = "send" /\ wait' = "length"
        /\ UNCHANGED <<pc, chain, gen, file, toHost, aligned, strayed, stream, trusted, accepted>>
    BY DEF Send
  <1>2. Kept'
    BY <1>1 DEF Once, Kept
  <1>3. pc = "pair" => NoPair(toDev) /\ NoPair(toHost) /\ chain \notin accepted
    BY <1>1 DEF Once, Asked
  <1>4. toDev \in Seq(Messages) /\ toHost \in Seq(Replies)
    BY DEF TypeOK
  <1>5. /\ pc = "pair" /\ toHost # <<>> => Head(toHost).step # "pair"
        /\ pc = "pair" /\ toDev # <<>> => Head(toDev).step # "pair"
    BY <1>3, <1>4, TailFacts DEF NoPair
  <1>6. CASE stream # "open"
    <2>1. toDev' = toDev
      BY <1>6 DEF Send
    <2>2. Owed' /\ Alone'
      BY <1>1, <1>6, <2>1 DEF Once, Owed, Alone
    <2>3. Asked'
      BY <1>1, <1>5, <2>1 DEF Once, Asked, Ahead
    <2> QED
      BY <1>2, <2>2, <2>3 DEF Once
  <1>7. CASE stream = "open"
    <2>1. toDev' = Append(toDev, Request)
      BY <1>7 DEF Send
    <2>2. Request \in Messages /\ Request.step = pc
      <3>1. chain \in Nat /\ asked \in Nat /\ tls \in BOOLEAN
        BY DeviceSessionAssumption DEF TypeOK, Chains
      <3> QED
        BY <1>1, <3>1 DEF Request, Messages
    <2>3. /\ Len(toDev') = Len(toDev) + 1 /\ Parts(toDev') = Parts(toDev) \cup {Request} /\ toDev' # <<>>
      BY <1>4, <2>1, <2>2, AppendFacts
    <2>4. Owed'
      <3>1. strayed /\ aligned => Len(toDev) + Len(toHost) >= 1
        BY <1>7 DEF Once, Owed
      <3> QED
        BY <1>1, <2>3, <3>1, WireLengths DEF Owed
    <2>5. OnePair(toDev') /\ (pc # "pair" /\ NoPair(toDev) => NoPair(toDev'))
      BY <1>3, <1>4, <2>1, <2>2, AppendOnce DEF Once, Alone
    <2>6. Alone'
      BY <1>1, <1>3, <2>5 DEF Once, Alone
    <2>7. pc = "pair" /\ strayed /\ aligned => Ahead'
      <3> SUFFICES ASSUME pc = "pair", strayed, aligned, toHost = <<>> PROVE Head(toDev').step # "pair"
        BY <1>1, <1>5 DEF Ahead
      <3>1. toDev # <<>>
        BY <1>7, WireLengths DEF Once, Owed
      <3>2. Head(toDev') = Head(toDev)
        BY <1>4, <2>1, <2>2, <3>1, AppendProperties, HeadTailProperties, LenProperties
      <3> QED
        BY <1>5, <3>1, <3>2
    <2>8. Asked'
      BY <1>1, <2>2, <2>3, <2>5, <2>7 DEF Once, Asked, Asking
    <2> QED
      BY <1>2, <2>4, <2>6, <2>8 DEF Once
  <1> QED
    BY <1>6, <1>7

LEMMA ReadKeyOnce ==
    ASSUME TypeOK, IInv, Once, ReadKey
    PROVE  Once'
  <1>1. pc = "key" /\ wait = "body" /\ aligned /\ toHost # <<>>
    BY DEF ReadKey, Reads, Readable
  <1>2. CASE Refused
    BY <1>1, <1>2, FailOnce DEF Refused
  <1>3. CASE ~Refused
    <2>1. /\ pc' = "wifi" /\ wait' = "send" /\ gen' = gen + 1 /\ chain' = gen + 1 /\ toHost' = Tail(toHost)
          /\ UNCHANGED <<file, toDev, aligned, strayed, stream, trusted, accepted>>
      BY <1>3 DEF ReadKey, Goes, NewChain
    <2>2. toHost \in Seq(Replies) /\ gen \in Nat /\ accepted \subseteq Nat
      BY DeviceSessionAssumption DEF TypeOK, Chains
    <2>3. Parts(Tail(toHost)) \subseteq Parts(toHost)
      BY <1>1, <2>2, TailFacts
    <2>4. gen + 1 \notin accepted
      BY <2>2 DEF Once, Kept
    <2>5. chain = 0 /\ file.chain = 0
      BY <1>1 DEF IInv, Records, Once, Kept
    <2>6. Kept'
      <3>1. \A c \in Nat : c <= gen => c <= gen + 1
        BY <2>2
      <3> QED
        BY <2>1, <2>2, <2>5, <3>1 DEF Once, Kept
    <2>7. Owed'
      <3> SUFFICES ASSUME stream = "open", strayed PROVE Len(toDev) + Len(Tail(toHost)) >= 1
        BY <2>1 DEF Owed
      <3>1. Len(toDev) + Len(toHost) >= 2
        BY <1>1 DEF Once, Owed
      <3> QED
        BY <1>1, <3>1, WireLengths
    <2>8. NoPair(toDev) /\ NoPair(Tail(toHost))
      BY <1>1, <2>3 DEF Once, Asked, NoPair
    <2>9. Alone'
      BY <2>1, <2>8 DEF Once, Alone
    <2>10. Asked'
      BY <1>1, <2>1, <2>3, <2>4, <2>8 DEF Once, Asked, Asking
    <2> QED
      BY <2>6, <2>7, <2>9, <2>10 DEF Once
  <1> QED
    BY <1>2, <1>3

LEMMA ReadsOnce ==
    ASSUME TypeOK, IInv, Once, ReadIgnored \/ ReadPair \/ ReadSession \/ ReadHandshake \/ ReadService
    PROVE  Once'
  <1>1. wait = "body" /\ Readable /\ pc \in Requests /\ pc # "load"
    BY DEF ReadIgnored, ReadPair, ReadSession, ReadHandshake, ReadService, Reads, Requests, Ignored
  <1>2. CASE Refused
    BY <1>1, <1>2, FailOnce DEF Refused
  <1>3. CASE ReadIgnored
    <2>1. /\ pc' = Following /\ wait' = "send" /\ toHost' = Tail(toHost)
          /\ UNCHANGED <<toDev, aligned, strayed, stream, chain, accepted, trusted, gen, file>>
      BY <1>3 DEF ReadIgnored, Takes, Goes
    <2>2. /\ pc' \notin {"load", "udid", "wifi"} /\ (pc' = "key" => pc = "udid") /\ (pc' = "pair" => pc = "wifi")
      BY <1>3, <2>1, FollowingIs DEF ReadIgnored, Ignored
    <2> QED
      BY <1>1, <2>1, <2>2, TakesOnce
  <1>4. CASE ReadPair /\ ~Refused
    <2>1. /\ wait' = "send" /\ toHost' = Tail(toHost)
          /\ UNCHANGED <<toDev, aligned, strayed, stream, chain, accepted, trusted, gen, file>>
          /\ pc' = "save" \/ (pc' = "pair" /\ pc = "pair" /\ Head(toHost).result = "pending")
      BY <1>4 DEF ReadPair, Reads, Takes, Goes, Answer
    <2> QED
      BY <1>1, <2>1, TakesOnce
  <1>5. CASE (ReadSession \/ ReadHandshake \/ ReadService) /\ ~Refused
    <2>1. /\ wait' = "send" /\ toHost' = Tail(toHost)
          /\ UNCHANGED <<toDev, aligned, strayed, stream, chain, accepted, trusted, gen, file>>
          /\ pc' \in {"tls", "type", "port", "connected"}
      BY <1>5 DEF ReadSession, ReadHandshake, ReadService, Takes, Goes
    <2> QED
      BY <1>1, <2>1, TakesOnce
  <1> QED
    BY <1>2, <1>3, <1>4, <1>5

\* What a reply leaves of the requests, whatever it says.
LEMMA RepliesOnce ==
    ASSUME TypeOK, IInv, Once, NEW step \in Requests, NEW outcome \in Results, NEW arg \in Nat,
           DeviceReplies(step, outcome, arg), step \in Ignored \cup {"key"} => outcome = "ok"
    PROVE  /\ Owed' /\ OnePair(toDev') /\ (step = "pair" \/ NoPair(toDev) => NoPair(toDev'))
           /\ pc \in Asking =>
               /\ \A m \in Parts(toDev') : m.step \in Asking
               /\ \A r \in Parts(toHost') : r.step \in Asking /\ (r.step # "pair" => r.result = "ok")
           /\ NoPair(toDev) /\ NoPair(toHost) => step # "pair" /\ NoPair(toDev') /\ NoPair(toHost')
           /\ Ahead => Ahead'
           /\ toHost' \in Seq(Replies)
           /\ Parts(toHost') = Parts(toHost) \cup {[step |-> step, result |-> outcome, arg |-> arg]}
           /\ UNCHANGED <<pc, wait, chain, gen, file, aligned, strayed, stream>>
  <1> DEFINE r == [step |-> step, result |-> outcome, arg |-> arg]
  <1>1. /\ toDev # <<>> /\ Head(toDev).step = step
        /\ toDev' = Tail(toDev) /\ toHost' = Append(toHost, r)
        /\ UNCHANGED <<pc, wait, chain, gen, file, aligned, strayed, stream>>
    BY DEF DeviceReplies
  <1>2. toDev \in Seq(Messages) /\ toHost \in Seq(Replies) /\ r \in Replies
    BY DEF TypeOK, Replies
  <1>3. /\ Head(toDev) \in Parts(toDev) /\ Parts(toDev') \subseteq Parts(toDev)
        /\ toHost' \in Seq(Replies) /\ Len(toHost') = Len(toHost) + 1
        /\ Parts(toHost') = Parts(toHost) \cup {r} /\ toHost' # <<>>
    BY <1>1, <1>2, TailFacts, AppendFacts
  <1>4. OnePair(toDev') /\ (step = "pair" => NoPair(toDev'))
    BY <1>1, <1>2, TailOnce DEF Once, Alone
  <1>5. NoPair(toDev) => step # "pair" /\ NoPair(toDev')
    BY <1>1, <1>3 DEF NoPair
  <1>6. Owed'
    <2>1. Len(toDev') + Len(toHost') = Len(toDev) + Len(toHost)
      BY <1>1, <1>3, WireLengths
    <2> QED
      BY <1>1, <2>1 DEF Once, Owed
  <1>7. pc \in Asking =>
               /\ \A m \in Parts(toDev') : m.step \in Asking
               /\ \A a \in Parts(toHost') : a.step \in Asking /\ (a.step # "pair" => a.result = "ok")
    BY <1>1, <1>3 DEF Once, Asked, Asking, Ignored
  <1>8. Ahead => Ahead'
    <2>1. toHost # <<>> => Head(toHost') = Head(toHost)
      BY <1>1, <1>2, <1>3, AppendProperties, HeadTailProperties, LenProperties
    <2>2. toHost = <<>> => Head(toHost') = r
      BY <1>1, <1>2, <1>3, AppendProperties, HeadTailProperties, NoParts
    <2> QED
      BY <1>1, <1>3, <2>1, <2>2 DEF Ahead
  <1>9. NoPair(toHost) /\ step # "pair" => NoPair(toHost')
    BY <1>3 DEF NoPair
  <1> HIDE DEF r
  <1> QED
    BY <1>1, <1>3, <1>4, <1>5, <1>6, <1>7, <1>8, <1>9 DEF r

LEMMA TellsOnce ==
    ASSUME TypeOK, IInv, Once, DeviceTells \/ DeviceStartsSession \/ DeviceShakesHands \/ DeviceStartsService
    PROVE  Once'
  <1>1. \E step \in Requests \ {"pair"}, outcome \in {"ok", "refused"}, arg \in Nat :
            /\ DeviceReplies(step, outcome, arg)
            /\ step \in Ignored \cup {"key"} => outcome = "ok"
    <2>1. toDev # <<>> => Head(toDev) \in Messages
      BY WireLengths, TailFacts
    <2>2. toDev # <<>> => Head(toDev).arg \in Nat
      BY <2>1 DEF Messages
    <2>3. CASE DeviceTells
      BY <2>3 DEF DeviceTells, Requests, Ignored
    <2>4. CASE DeviceStartsSession
      BY <2>4 DEF DeviceStartsSession, Requests, Ignored
    <2>5. CASE DeviceShakesHands
      BY <2>5 DEF DeviceShakesHands, Requests, Ignored
    <2>6. CASE DeviceStartsService
      BY <2>2, <2>6 DEF DeviceStartsService, DeviceReplies, Requests, Ignored
    <2> QED
      BY <2>3, <2>4, <2>5, <2>6
  <1>2. UNCHANGED <<trusted, accepted>>
    BY DEF DeviceTells, DeviceStartsSession, DeviceShakesHands, DeviceStartsService
  <1>3. PICK step \in Requests \ {"pair"}, outcome \in {"ok", "refused"}, arg \in Nat :
            /\ DeviceReplies(step, outcome, arg)
            /\ step \in Ignored \cup {"key"} => outcome = "ok"
    BY <1>1
  <1>4. outcome \in Results
    BY DEF Results
  <1>5. /\ Owed' /\ OnePair(toDev') /\ (NoPair(toDev) => NoPair(toDev'))
        /\ pc \in Asking =>
               /\ \A m \in Parts(toDev') : m.step \in Asking
               /\ \A r \in Parts(toHost') : r.step \in Asking /\ (r.step # "pair" => r.result = "ok")
        /\ NoPair(toDev) /\ NoPair(toHost) => NoPair(toDev') /\ NoPair(toHost')
        /\ Ahead => Ahead'
        /\ Parts(toHost') = Parts(toHost) \cup {[step |-> step, result |-> outcome, arg |-> arg]}
        /\ UNCHANGED <<pc, wait, chain, gen, file, aligned, strayed, stream>>
    BY <1>3, <1>4, RepliesOnce
  <1>6. Kept' /\ Alone'
    BY <1>2, <1>5 DEF Once, Kept, Alone
  <1>7. \A r \in Parts(toHost') : r.result = "pending" => r \in Parts(toHost)
    BY <1>5
  <1>8. Asked'
    BY <1>2, <1>5, <1>7 DEF Once, Asked
  <1> QED
    BY <1>5, <1>6, <1>8 DEF Once

LEMMA PairsOnce ==
    ASSUME TypeOK, IInv, Once, DevicePairs
    PROVE  Once' /\ chain \notin accepted
  <1>1. toDev # <<>> /\ Head(toDev).step = "pair"
    BY DEF DevicePairs, DeviceReplies
  <1>2. Head(toDev) \in Parts(toDev) /\ Head(toDev) \in Messages
    BY <1>1, WireLengths, TailFacts
  <1>3. Head(toDev).arg = chain /\ chain \in Nat
    BY <1>1, <1>2 DEF IInv, Underway, Messages
  <1>4. chain \notin accepted /\ ~NoPair(toDev)
    BY <1>1, <1>2 DEF Once, Alone, NoPair
  <1>5. \/ /\ \E outcome \in {"pending", "refused"} : DeviceReplies("pair", outcome, 0)
           /\ UNCHANGED <<trusted, accepted>>
        \/ /\ DeviceReplies("pair", "ok", chain)
           /\ trusted' = chain /\ accepted' = accepted \cup {chain}
    BY <1>3 DEF DevicePairs
  <1>6. \E outcome \in Results, arg \in Nat :
            /\ DeviceReplies("pair", outcome, arg)
            /\ \/ UNCHANGED <<trusted, accepted>>
               \/ outcome = "ok" /\ trusted' = chain /\ accepted' = accepted \cup {chain}
    BY <1>3, <1>5 DEF Results
  <1>7. PICK outcome \in Results, arg \in Nat :
            /\ DeviceReplies("pair", outcome, arg)
            /\ \/ UNCHANGED <<trusted, accepted>>
               \/ outcome = "ok" /\ trusted' = chain /\ accepted' = accepted \cup {chain}
    BY <1>6
  <1>8. /\ Owed' /\ OnePair(toDev') /\ NoPair(toDev')
        /\ pc \in Asking =>
               /\ \A m \in Parts(toDev') : m.step \in Asking
               /\ \A r \in Parts(toHost') : r.step \in Asking /\ (r.step # "pair" => r.result = "ok")
        /\ Ahead => Ahead'
        /\ Parts(toHost') = Parts(toHost) \cup {[step |-> "pair", result |-> outcome, arg |-> arg]}
        /\ UNCHANGED <<pc, wait, chain, gen, file, aligned, strayed, stream>>
    <2>1. "pair" \in Requests /\ "pair" \notin Ignored \cup {"key"}
      BY DEF Requests, Ignored
    <2> QED
      BY <1>7, <2>1, RepliesOnce
  <1>9. Kept' /\ Alone'
    BY <1>7, <1>8 DEF Once, Kept, Alone
  <1>10. ~(pc \in {"udid", "key", "wifi"} \/ (pc = "pair" /\ wait = "send"))
    BY <1>4 DEF Once, Asked
  <1>11. ~strayed => toHost = <<>>
    BY <1>1, OneAtATime DEF IInv
  <1>12. pc = "pair" /\ ~strayed => \A r \in Parts(toHost') : r.result = "pending" => chain \notin accepted'
    BY <1>4, <1>7, <1>8, <1>11, NoParts
  <1>13. Asked'
    BY <1>8, <1>10, <1>12 DEF Once, Asked
  <1> QED
    BY <1>4, <1>8, <1>9, <1>13 DEF Once

\* The host, before it has a stream, on its disk, and after a session.
LEMMA OutsideOnce ==
    ASSUME TypeOK, IInv, Once,
           \/ Load \/ Delete \/ Connect \/ Disconnect \/ Crash \/ OpenTransport \/ OpenConnection \/ OpenStream
    PROVE  Once'
  <1>1. pc \in Early => toDev = <<>> /\ toHost = <<>> /\ ~strayed
    BY DEF IInv, Shape
  <1>0. 0 <= gen
    BY DeviceSessionAssumption DEF TypeOK, Chains
  <1>2. wait = "send" \/ pc \in Requests
    BY DEF IInv, Shape
  <1>3. CASE Load \/ Delete \/ Connect
    <2>1. Kept'
      <3>1. /\ file' = file \/ file'.chain = 0
            /\ chain' = chain \/ (chain' = file.chain /\ file' = file)
            /\ UNCHANGED <<gen, trusted, accepted>>
            /\ pc' = pc \/ chain' = file'.chain \/ (pc # "load" /\ chain' = chain /\ file' = file)
        BY <1>3 DEF Load, Delete, Connect, NoFile
      <3> QED
        BY <1>0, <1>3, <3>1 DEF Once, Kept, Load, Delete, Connect
    <2>2. /\ toDev' = <<>> /\ toHost' = <<>> /\ ~strayed' /\ wait' = "send"
          /\ pc' \notin {"wifi", "pair"}
      BY <1>1, <1>2, <1>3 DEF Load, Delete, Connect, Early, Requests, Ignored
    <2> QED
      BY <2>1, <2>2, ClearedOnce
  <1>4. CASE Disconnect \/ Crash
    <2>1. Kept'
      <3>1. /\ file' = file \/ file' = [kind |-> "torn", chain |-> 0]
            /\ UNCHANGED <<gen, trusted, accepted>>
            /\ (pc' = "load" /\ chain' = 0) \/ (pc # "load" /\ chain' = chain)
        BY <1>4 DEF Disconnect, Crash, Hangup
      <3>2. file' = file \/ file'.chain = 0
        BY <3>1
      <3> QED
        BY <1>0, <3>1, <3>2 DEF Once, Kept
    <2>2. /\ toDev' = <<>> /\ toHost' = <<>> /\ stream' = "none" /\ pc' \notin {"wifi", "pair"}
      BY <1>4 DEF Disconnect, Crash, Hangup
    <2> QED
      BY <2>1, <2>2, ClearedOnce
  <1>5. CASE OpenTransport \/ OpenConnection \/ OpenStream
    <2>1. pc # "load" /\ pc \in Early
      BY <1>5 DEF OpenTransport, OpenConnection, OpenStream, Early
    <2>2. CASE Fail /\ UNCHANGED file
      BY <2>1, <2>2, FailOnce
    <2>3. CASE ~(Fail /\ UNCHANGED file)
      <3>1. /\ toDev' = <<>> /\ toHost' = <<>> /\ ~strayed' /\ wait' = "send" /\ pc' \in {"mux", "stream", "udid"}
            /\ UNCHANGED <<chain, gen, file, trusted, accepted>>
        BY <1>1, <1>5, <2>1, <2>3 DEF OpenTransport, OpenConnection, OpenStream, Goes
      <3>2. Kept'
        BY <2>1, <3>1 DEF Once, Kept
      <3> QED
        BY <3>1, <3>2, ClearedOnce
    <2> QED
      BY <2>2, <2>3
  <1> QED
    BY <1>3, <1>4, <1>5

LEMMA DiskOnce ==
    ASSUME TypeOK, IInv, Once,
           Truncate \/ WriteRecord \/ DiskFails \/ OpenServiceStream \/ \E s \in Services : StartService(s)
    PROVE  Once'
  <1>1. CASE Fail
    <2>1. pc # "load" /\ (file' = file \/ file' = [kind |-> "torn", chain |-> 0])
      BY <1>1 DEF Truncate, WriteRecord, DiskFails, OpenServiceStream, StartService, Fail, Goes
    <2> QED
      BY <1>1, <2>1, FailOnce
  <1>2. CASE ~Fail
    <2>1. /\ pc' \in {"write", "session", "connected", "service"} /\ wait' = "send"
          /\ UNCHANGED <<chain, gen, toDev, toHost, aligned, strayed, stream, trusted, accepted>>
          /\ pc # "load" /\ (file' = file \/ file'.chain \in {0, chain})
      BY <1>2 DEF Truncate, WriteRecord, DiskFails, OpenServiceStream, StartService, Goes, IInv, Shape, Requests, Ignored
    <2>2. Kept'
      BY <2>1 DEF Once, Kept, TypeOK, Chains
    <2>3. Owed'
      BY <2>1 DEF Once, Owed
    <2> QED
      BY <2>1, <2>2, <2>3, LaterOnce DEF Asking
  <1> QED
    BY <1>1, <1>2

\* The device's owner, the cable and a stream that is reset.
LEMMA AroundOnce ==
    ASSUME TypeOK, IInv, Once,
           \/ DeviceResets \/ Unplug \/ Replug \/ Forget \/ ReadLength
           \/ (\E answer \in {"trust", "refuse"} : Tap(answer)) \/ UNCHANGED vars
    PROVE  Once'
  <1>1. CASE DeviceResets
    <2>1. /\ toDev' = <<>> /\ stream' = "reset"
          /\ UNCHANGED <<pc, wait, chain, gen, file, toHost, aligned, strayed, trusted, accepted>>
      BY <1>1 DEF DeviceResets
    <2>2. Owed' /\ Kept' /\ Alone'
      BY <2>1, NoneOnce DEF Once, Owed, Kept, Alone
    <2>3. Asked'
      BY <2>1, NoneOnce, NoParts DEF Once, Asked, Ahead
    <2> QED
      BY <2>2, <2>3 DEF Once
  <1>2. CASE Unplug
    <2>1. /\ toDev' = <<>> /\ toHost' = <<>> /\ stream' # "open"
          /\ UNCHANGED <<pc, wait, chain, gen, file, trusted, accepted>>
      BY <1>2 DEF Unplug
    <2>2. Kept'
      BY <2>1 DEF Once, Kept
    <2> QED
      BY <2>1, <2>2, ClearedOnce
  <1>3. CASE Replug \/ Forget \/ (\E answer \in {"trust", "refuse"} : Tap(answer)) \/ UNCHANGED vars
    <2>1. /\ UNCHANGED <<pc, wait, chain, gen, file, toDev, toHost, aligned, strayed, stream, accepted>>
          /\ trusted' \in {trusted, 0}
      BY <1>3 DEF Replug, Forget, Tap, vars
    <2>2. Owed' /\ Kept' /\ Alone'
      BY <2>1 DEF Once, Owed, Kept, Alone
    <2>3. Asked'
      BY <2>1 DEF Once, Asked, Ahead
    <2> QED
      BY <2>2, <2>3 DEF Once
  <1>4. CASE ReadLength
    <2>1. /\ wait = "length" /\ wait' = "body"
          /\ UNCHANGED <<pc, chain, gen, file, toDev, toHost, aligned, strayed, stream, trusted, accepted>>
      BY <1>4 DEF ReadLength
    <2>2. Owed' /\ Kept' /\ Alone'
      BY <2>1 DEF Once, Owed, Kept, Alone
    <2>3. Asked'
      BY <2>1 DEF Once, Asked, Ahead
    <2> QED
      BY <2>2, <2>3 DEF Once
  <1> QED
    BY <1>1, <1>2, <1>3, <1>4

\* A write that fails, a read that fails, and one that is given up.
LEMMA FaultsOnce ==
    ASSUME TypeOK, IInv, Once, SendFails \/ ReadFails \/ GiveUp
    PROVE  Once'
  <1>1. aligned \in BOOLEAN /\ strayed \in BOOLEAN /\ (link = "down" => stream # "open")
    BY DEF TypeOK, IInv, Shape
  <1>2. wait # "send" => pc \in Requests
    BY DEF IInv, Shape
  <1>3. CASE SendFails
    <2>1. pc \in Requests /\ Unanswered(aligned, strayed)
      BY <1>3 DEF SendFails
    <2> QED
      BY <1>1, <2>1, UnansweredOnce
  <1>4. CASE ReadFails
    <2>1. aligned => stream # "open"
      BY <1>1, <1>4 DEF ReadFails
    <2>2. (aligned /\ wait = "length") \in BOOLEAN /\ pc \in Requests
      BY <1>2, <1>4 DEF ReadFails
    <2> DEFINE whole == aligned /\ wait = "length"
    <2>3. whole \in BOOLEAN /\ Unanswered(whole, strayed) /\ (whole => stream # "open")
      BY <1>4, <2>1, <2>2 DEF ReadFails
    <2> HIDE DEF whole
    <2> QED
      BY <1>1, <2>2, <2>3, UnansweredOnce
  <1>5. CASE GiveUp
    <2>1. (wait = "length") \in BOOLEAN /\ pc \in Requests
      BY <1>2, <1>5 DEF GiveUp
    <2> QED
      BY <1>5, <2>1, UnansweredOnce DEF GiveUp
  <1> QED
    BY <1>3, <1>4, <1>5

LEMMA NextOnce ==
    ASSUME TypeOK, IInv, Once, [Next]_vars
    PROVE  Once'
  <1>1. CASE HostNext
    BY <1>1, OutsideOnce, DiskOnce, SendOnce, FaultsOnce, AroundOnce, ReadKeyOnce, ReadsOnce DEF HostNext
  <1>2. CASE DeviceNext
    BY <1>2, AroundOnce, TellsOnce, PairsOnce DEF DeviceNext
  <1>3. CASE CallerNext \/ FaultNext
    BY <1>3, OutsideOnce, DiskOnce, FaultsOnce, AroundOnce DEF CallerNext, FaultNext
  <1> QED
    BY <1>1, <1>2, <1>3, AroundOnce DEF Next

LEMMA OnceHolds == Spec => [](TypeOK /\ IInv /\ Once)
  <1>1. Init => Once
    BY NoneOnce, NoParts, DeviceSessionAssumption
       DEF Init, NoFile, Once, Owed, Kept, Alone, Asked, Asking
  <1>2. TypeOK /\ IInv /\ Once /\ [Next]_vars => Once'
    BY NextOnce
  <1> QED
    BY <1>1, <1>2, Inductive, PTL DEF Spec

\* While the record on disk is the one the device trusts, the device asks nothing new:
\* what is on the wire was asked before it was saved, and the device has not accepted it
\* (Device::connect, Pairing::load, pair).
THEOREM AsksOnce == Spec => NoSecondDialog
  <1>1. TypeOK /\ IInv /\ Once /\ [Next]_vars =>
           [file.kind = "whole" /\ file.chain = trusted /\ dialog = "none" => dialog' # "shown"]_vars
    <2> SUFFICES ASSUME TypeOK, IInv, Once, [Next]_vars,
                        file.kind = "whole", file.chain = trusted, dialog = "none", dialog' = "shown"
                 PROVE  FALSE
      OBVIOUS
    <2>1. DevicePairs
      BY DEF Next, HostNext, DeviceNext, CallerNext, FaultNext, vars, Load, OpenTransport, OpenConnection,
             OpenStream, OpenServiceStream, Send, SendFails, ReadLength, ReadFails, ReadIgnored, ReadKey,
             ReadPair, ReadSession, ReadHandshake, ReadService, Truncate, WriteRecord, DeviceResets,
             DeviceTells, DeviceStartsSession, DeviceShakesHands, DeviceStartsService, Connect, Disconnect,
             Delete, StartService, GiveUp, DiskFails, Crash, Forget, Unplug, Tap, Replug,
             Unanswered, Refused, Takes, Fail, Hangup
    <2>2. chain \notin accepted
      BY <2>1, PairsOnce
    <2>3. pc # "load"
      BY <2>1 DEF DevicePairs, DeviceReplies, IInv, Shape
    <2>4. trusted # 0 /\ trusted = chain
      BY <2>3 DEF IInv, Records, Once, Kept
    <2> QED
      BY <2>2, <2>4 DEF Once, Kept
  <1> QED
    BY <1>1, OnceHolds, PTL DEF Spec, NoSecondDialog
=============================================================================
