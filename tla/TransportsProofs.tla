---------------------------- MODULE TransportsProofs ----------------------------
(***************************************************************************)
(* The theorems about Transports: what passes a transport is neither cut,  *)
(* repeated nor left out, and what is opened is what was asked for.  They  *)
(* hold for every set of devices and selectors, every size of the buffers  *)
(* and budgets, and any number of stale frames, frames and faults.         *)
(***************************************************************************)
EXTENDS Transports, SequenceTheorems, WellFoundedInduction, TLAPS
-----------------------------------------------------------------------------
(* The invariant.                                                          *)

\* What a call holds while it waits.
CallInv ==
    /\ call = "idle" => left = <<>> /\ frame = <<>> /\ tries = 0
    /\ call = "write" => /\ frame = <<>> /\ left # <<>> /\ tx_seq # 0
                         /\ phase \in {"request", "setup", "ready"}
    /\ call \in {"header", "payload"} => left = <<>> /\ phase \in {"answer", "ready"}
    /\ call = "header" => Len(frame) <= Header(version)
    /\ call = "payload" => /\ Header(version) <= Len(frame) /\ Len(frame) <= frame[1].length
                           /\ frame[1].length <= BufUnits
    /\ tries < MaxTries

\* How far the handshake is, and what cannot have happened by then.
PhaseInv ==
    /\ phase = "closed" => /\ call = "idle" /\ chosen = 0 /\ version = 0 /\ ~spoilt /\ ~torn
                           /\ incoming = <<>> /\ wire = <<>> /\ heard = <<>>
                           /\ taken = <<>> /\ written = <<>> /\ out = <<>>
    /\ phase \in Handshake => ~spoilt /\ ~torn /\ taken = <<>>
    /\ phase \in {"request", "answer"} => version = 0
    /\ phase = "request" => told = stale /\ written = <<>> /\ attempt = 0
    /\ phase = "answer" => told \in {stale, stale + 1} /\ Len(written) = 1
    /\ phase \in {"setup", "ready"} => /\ told >= stale + 1 /\ peer # 3
                                       /\ version = IF link = "usb" THEN peer ELSE 0
    /\ phase = "setup" => version = 2
    /\ link = "tcp" => peer # 2 /\ incoming = <<>> /\ chosen = 0

\* A unit of a frame of the device, up to the last one: of those, old were left over from
\* the run before, the next one is its answer, and those behind it are no shorter than a
\* header.
Proto(n, old) == IF n = old + 1 THEN "answer" ELSE "tcp"

Proper(u, last, old, least) ==
    /\ u.length \in 1 .. 3 /\ u.index \in 1 .. u.length /\ u.frame <= last
    /\ u.proto = Proto(u.frame, old)
    /\ u.frame > old + 1 => u.length >= least

\* What comes behind it.
Follows(u, v) ==
    IF u.index < u.length
      THEN v.frame = u.frame /\ v.index = u.index + 1 /\ v.length = u.length
      ELSE v.frame = u.frame + 1 /\ v.index = 1

\* The units of the frames from n to last.
Comes(q, n, last, old, least) ==
    /\ \A i \in 1 .. Len(q) : Proper(q[i], last, old, least)
    /\ \A i \in 1 .. Len(q) - 1 : Follows(q[i], q[i + 1])
    /\ IF Len(q) = 0 THEN n = last + 1
       ELSE /\ q[1].frame = n /\ q[1].index = 1
            /\ q[Len(q)].frame = last /\ q[Len(q)].index = q[Len(q)].length

\* The frame being read, and what the host has of it.
Current == IF phase \in {"setup", "ready"} THEN stale + 2 + Len(taken) ELSE attempt + 1
Begun   == frame \o incoming

\* What the host has, with what is on the way, are the frames of the device from the
\* one being read on.
StreamInv ==
    ~spoilt /\ phase # "closed" => Comes(Begun \o wire, Current, told, stale, Header(version))

TakenInv ==
    ~spoilt => \A k \in 1 .. Len(taken) :
        taken[k] = Units(stale + 1 + k, "tcp", taken[k][1].length)

\* What the device heard, with what is still to be sent, is what was to be written.
WriteInv ==
    ~torn => heard \o left = out \o (IF call = "write" THEN HostFrame(tx_seq - 1) ELSE <<>>)

NumberInv ==
    version = 2 /\ ~torn =>
        /\ Len(written) + (IF call = "write" THEN 1 ELSE 0) = tx_seq + 1
        /\ \A k \in 2 .. Len(written) : written[k][1].frame = k - 2

\* The devices keep what tells them apart, and the one in use is claimed.
BusInv ==
    /\ \A n \in DOMAIN bus : bus[n].model # 0 /\ bus[n].active \in 0 .. Len(bus[n].configs)
    /\ \A m, n \in DOMAIN bus :
           bus[n].serial # 0 /\ bus[m].serial = bus[n].serial /\ bus[m].model = bus[n].model => m = n
    /\ link = "usb" /\ phase # "closed" => chosen # 0
    /\ ClaimedIsChosen

IInv == CallInv /\ PhaseInv /\ StreamInv /\ TakenInv /\ WriteInv /\ NumberInv /\ BusInv

Base == TypeOK /\ CallInv /\ PhaseInv
-----------------------------------------------------------------------------
(* Lemmas about the operators of the model.                                *)

Protos == {"request", "setup", "answer", "tcp", "zero"}

LEMMA UnitsFacts ==
    ASSUME NEW n \in Nat, NEW proto \in Protos, NEW length \in Nat \ {0}
    PROVE  /\ Units(n, proto, length) \in Seq(Unit)
           /\ Len(Units(n, proto, length)) = length
           /\ Units(n, proto, length) # <<>>
           /\ \A i \in 1 .. length :
                  Units(n, proto, length)[i] =
                      [frame |-> n, index |-> i, length |-> length, proto |-> proto]
           /\ \A i \in 1 .. length : /\ Units(n, proto, length)[i].frame = n
                                   /\ Units(n, proto, length)[i].index = i
                                   /\ Units(n, proto, length)[i].length = length
                                   /\ Units(n, proto, length)[i].proto = proto
  <1>1. Units(n, proto, length) \in [1 .. length -> Unit]
    BY DEF Units, Unit, Protos
  <1>2. Units(n, proto, length) \in Seq(Unit) /\ Len(Units(n, proto, length)) = length
    BY <1>1, SeqDef, LenProperties
  <1>3. Units(n, proto, length) # <<>>
    BY <1>2, EmptySeq
  <1>4. \A i \in 1 .. length : Units(n, proto, length)[i] =
                      [frame |-> n, index |-> i, length |-> length, proto |-> proto]
    BY DEF Units
  <1>5. \A i \in 1 .. length : /\ Units(n, proto, length)[i].frame = n
                             /\ Units(n, proto, length)[i].index = i
                             /\ Units(n, proto, length)[i].length = length
                             /\ Units(n, proto, length)[i].proto = proto
    <2> TAKE i \in 1 .. length
    <2>1. Units(n, proto, length)[i] =
              [frame |-> n, index |-> i, length |-> length, proto |-> proto]
      BY <1>4
    <2> QED
      BY ONLY <2>1
  <1> QED
    BY <1>2, <1>3, <1>4, <1>5

LEMMA HeaderFacts ==
    ASSUME NEW v \in Nat
    PROVE  Header(v) \in 1 .. 2 /\ Header(v) \in Nat \ {0} /\ (v < 2 => Header(v) = 1)
  BY DEF Header

\* A frame of the host is of a number, and not empty.
LEMMA HostFrameFacts ==
    ASSUME TypeOK, NEW n \in Nat
    PROVE  HostFrame(n) \in Seq(Unit) /\ HostFrame(n) # <<>> /\ HostFrame(n)[1].frame = n
  <1>1. version \in Nat
    BY DEF TypeOK
  <1>2. Header(version) \in Nat /\ Header(version) + 1 \in Nat \ {0} /\ 3 \in Nat \ {0}
    BY <1>1, HeaderFacts
  <1>3. PICK proto \in Protos, length \in Nat \ {0} : HostFrame(n) = Units(n, proto, length)
    BY <1>2 DEF HostFrame, Protos
  <1>4. /\ Units(n, proto, length) \in Seq(Unit) /\ Units(n, proto, length) # <<>>
        /\ \A i \in 1 .. length : Units(n, proto, length)[i].frame = n
    BY UnitsFacts
  <1>5. 1 \in 1 .. length
    OBVIOUS
  <1> QED
    BY <1>3, <1>4, <1>5

\* A sequence that is cut after its first k members.
LEMMA CutFacts ==
    ASSUME NEW S, NEW q \in Seq(S), NEW k \in Nat, k <= Len(q)
    PROVE  /\ SubSeq(q, 1, k) \in Seq(S) /\ Len(SubSeq(q, 1, k)) = k
           /\ \A i \in 1 .. k : SubSeq(q, 1, k)[i] = q[i]
           /\ SubSeq(q, k + 1, Len(q)) \in Seq(S)
           /\ Len(SubSeq(q, k + 1, Len(q))) = Len(q) - k
           /\ \A i \in 1 .. (Len(q) - k) : SubSeq(q, k + 1, Len(q))[i] = q[k + i]
  <1>1. Len(q) \in Nat
    BY LenProperties
  <1>2. CASE k = 0
    BY <1>1, <1>2, SubSeqProperties
  <1> QED
    BY <1>1, <1>2, SubSeqProperties

\* The two parts make the whole, also behind something else.
LEMMA Rejoined ==
    ASSUME NEW S, NEW p \in Seq(S), NEW q \in Seq(S), NEW k \in Nat, k <= Len(q)
    PROVE  (p \o SubSeq(q, 1, k)) \o SubSeq(q, k + 1, Len(q)) = p \o q
  <1> DEFINE a == SubSeq(q, 1, k)
             b == SubSeq(q, k + 1, Len(q))
  <1>1. /\ a \in Seq(S) /\ Len(a) = k /\ \A i \in 1 .. k : a[i] = q[i]
        /\ b \in Seq(S) /\ Len(b) = Len(q) - k /\ \A i \in 1 .. (Len(q) - k) : b[i] = q[k + i]
    BY CutFacts
  <1>2. Len(q) \in Nat
    BY LenProperties
  <1> HIDE DEF a, b
  <1>3. /\ a \o b \in Seq(S) /\ Len(a \o b) = Len(a) + Len(b)
        /\ \A i \in 1 .. Len(a) + Len(b) : (a \o b)[i] = IF i <= Len(a) THEN a[i] ELSE b[i - Len(a)]
    BY <1>1, ConcatProperties
  <1>4. Len(a \o b) = Len(q)
    BY <1>1, <1>2, <1>3
  <1>5. \A i \in 1 .. Len(a \o b) : (a \o b)[i] = q[i]
    BY <1>1, <1>2, <1>3, <1>4
  <1>6. a \o b = q
    BY <1>3, <1>4, <1>5, SeqEqual
  <1>7. (p \o a) \o b = p \o (a \o b)
    <2>1. a \in Seq(S) /\ b \in Seq(S)
      BY <1>1
    <2> QED
      BY ONLY <2>1, p \in Seq(S), ConcatAssociative
  <1> QED
    BY <1>6, <1>7 DEF a, b

\* What is left of the units on their way when k of them have arrived.
LEMMA RestFacts ==
    ASSUME TypeOK, NEW k \in 0 .. Len(wire)
    PROVE  /\ Rest(k) \in Seq(Unit) /\ Len(wire) \in Nat /\ wire \in Seq(Unit)
           /\ SubSeq(wire, 1, k) \in Seq(Unit) /\ Len(SubSeq(wire, 1, k)) = k
  <1>1. wire \in Seq(Unit) /\ Len(wire) \in Nat
    BY LenProperties DEF TypeOK
  <1>2. k \in Nat /\ k <= Len(wire)
    BY <1>1
  <1> QED
    BY <1>1, <1>2, CutFacts DEF Rest

\* What was left over from the run before is of n frames of one length.
LEMMA StaleFacts ==
    ASSUME NEW n \in Nat, NEW length \in 2 .. 3
    PROVE  /\ Stale(n, length) \in Seq(Unit) /\ Len(Stale(n, length)) = n * length /\ n * length \in Nat
           /\ \A i \in 1 .. n * length :
                  /\ Stale(n, length)[i].frame = ((i - 1) \div length) + 1
                  /\ Stale(n, length)[i].index = ((i - 1) % length) + 1
                  /\ Stale(n, length)[i].length = length /\ Stale(n, length)[i].proto = "tcp"
  <1>1. n * length \in Nat
    BY n \in Nat, length = 2 \/ length = 3
  <1> DEFINE u(i) == [frame |-> ((i - 1) \div length) + 1, index |-> ((i - 1) % length) + 1,
                      length |-> length, proto |-> "tcp"]
  <1>2. ASSUME NEW i \in 1 .. n * length PROVE u(i) \in Unit
    <2>1. i - 1 \in Nat /\ length \in Nat
      BY <1>1
    <2>2. ((i - 1) \div length) + 1 \in Nat /\ ((i - 1) % length) + 1 \in Nat
      BY <2>1, length = 2 \/ length = 3
    <2> QED
      BY <2>1, <2>2 DEF Unit
  <1>3. Stale(n, length) = [i \in 1 .. n * length |-> u(i)]
    BY DEF Stale
  <1>4. \A i \in 1 .. n * length :
          /\ u(i).frame = ((i - 1) \div length) + 1 /\ u(i).index = ((i - 1) % length) + 1
          /\ u(i).length = length /\ u(i).proto = "tcp"
    OBVIOUS
  <1> HIDE DEF u
  <1>5. Stale(n, length) \in [1 .. n * length -> Unit]
    BY <1>2, <1>3
  <1>6. Stale(n, length) \in Seq(Unit) /\ Len(Stale(n, length)) = n * length
    BY <1>1, <1>5, SeqDef, LenProperties
  <1>7. \A i \in 1 .. n * length : Stale(n, length)[i] = u(i)
    BY <1>3
  <1> QED
    BY <1>1, <1>4, <1>6, <1>7

\* A call needs no more than the buffer holds.
LEMMA NeedFacts ==
    ASSUME Base, Reading
    PROVE  /\ Need \in Nat \ {0} /\ Len(frame) \in Nat
           /\ Len(frame) + Need <= BufUnits
           /\ call = "header" => Need = Header(version) - Len(frame)
           /\ call = "payload" => Need = frame[1].length - Len(frame)
  <1>1. /\ frame \in Seq(Unit) /\ Len(frame) \in Nat /\ version \in Nat /\ BufUnits >= 3
        /\ BufUnits \in Nat
    BY TransportsAssumption, LenProperties DEF Base, TypeOK
  <1>2. Header(version) \in 1 .. 2
    BY <1>1, HeaderFacts
  <1>3. CASE call = "header"
    BY <1>1, <1>2, <1>3 DEF Base, CallInv, Need, Reading
  <1>4. CASE call = "payload"
    <2>1. 1 \in 1 .. Len(frame)
      BY <1>1, <1>2, <1>4 DEF Base, CallInv
    <2>2. frame[1] \in Unit
      BY <1>1, <2>1, ElementOfSeq
    <2>3. frame[1].length \in Nat
      BY <2>2 DEF Unit
    <2> QED
      BY <1>1, <1>2, <1>4, <2>3 DEF Base, CallInv, Need, Reading
  <1> QED
    BY <1>3, <1>4 DEF Reading

\* The least and the greatest of some positions.
LEMMA MinFacts ==
    ASSUME NEW T, T \subseteq Nat, T # {}
    PROVE  Min(T) \in T /\ \A y \in T : Min(T) <= y
  <1> DEFINE R == {ss \in Nat \X Nat : ss[1] < ss[2]}
  <1>1. IsWellFoundedOn(R, Nat)
    BY NatLessThanWellFounded, Zenon DEF OpToRel
  <1>2. \A x, y \in Nat : y < x => <<y, x>> \in R
    OBVIOUS
  <1> HIDE DEF R
  <1>3. \E x \in T : \A y \in T : ~(<<y, x>> \in R)
    BY <1>1, WFMin
  <1>4. PICK x \in T : \A y \in T : ~(<<y, x>> \in R)
    BY <1>3
  <1>5. \A y \in T : x <= y
    <2> TAKE y \in T
    <2>1. ~(y < x) /\ x \in Nat /\ y \in Nat
      BY <1>2, <1>4
    <2> QED
      BY <2>1
  <1> QED
    BY <1>5 DEF Min

LEMMA MaxFacts ==
    ASSUME NEW b \in Nat, NEW T, T \subseteq 1 .. b, T # {}
    PROVE  Max(T) \in T
  <1> DEFINE U == {b - x : x \in T}
  <1>1. U \subseteq Nat /\ U # {}
    <2>1. \A x \in T : b - x \in Nat
      OBVIOUS
    <2> QED
      BY <2>1
  <1>2. Min(U) \in U /\ \A y \in U : Min(U) <= y
    BY <1>1, MinFacts
  <1>3. PICK x \in T : Min(U) = b - x
    BY <1>2
  <1>4. \A y \in T : x >= y
    <2> SUFFICES ASSUME NEW y \in T PROVE x >= y
      OBVIOUS
    <2>1. b - y \in U
      OBVIOUS
    <2>2. b - x <= b - y
      BY <1>2, <1>3, <2>1
    <2>3. x \in Nat /\ y \in Nat
      OBVIOUS
    <2> QED
      BY <2>2, <2>3
  <1> QED
    BY <1>4 DEF Max

\* What find_device and find_mux_interface find is there.
LEMMA FindFacts ==
    ASSUME NEW b \in Seq(UsbDevice), NEW i, FindDevice(b, i) # 0
    PROVE  /\ FindDevice(b, i) \in 1 .. Len(b) /\ FindDevice(b, i) \in DOMAIN b
           /\ Matches(b[FindDevice(b, i)], i)
  <1> DEFINE found == {n \in DOMAIN b : Matches(b[n], i)}
  <1>1. DOMAIN b = 1 .. Len(b) /\ Len(b) \in Nat
    BY LenProperties
  <1>2. found # {} /\ FindDevice(b, i) = Min(found)
    BY DEF FindDevice
  <1>3. found \subseteq Nat
    BY <1>1
  <1>4. Min(found) \in found
    BY <1>2, <1>3, MinFacts
  <1> QED
    BY <1>1, <1>2, <1>4

LEMMA AbleFacts ==
    ASSUME NEW d \in UsbDevice
    PROVE  /\ Able(d) \subseteq 1 .. Len(d.configs) /\ Len(d.configs) \in Nat
           /\ Able(d) \subseteq Nat /\ \A c \in Able(d) : d.configs[c] = "mux"
  <1>1. d.configs \in Seq({"mux", "other"})
    BY DEF UsbDevice
  <1>2. DOMAIN d.configs = 1 .. Len(d.configs) /\ Len(d.configs) \in Nat
    BY <1>1, LenProperties
  <1> QED
    BY <1>2 DEF Able

-----------------------------------------------------------------------------
(* Types, the calls and the handshake.                                     *)

LEMMA ConstFacts ==
    /\ Attempts \in Nat \ {0} /\ MaxTries \in Nat \ {0} /\ BufUnits \in Nat /\ BufUnits >= 3
    /\ MaxStale \in Nat /\ MaxFrames \in Nat /\ MaxSends \in Nat /\ MaxFaults \in Nat
  BY TransportsAssumption

LEMMA TypeFacts ==
    ASSUME TypeOK
    PROVE  /\ left \in Seq(Unit) /\ frame \in Seq(Unit) /\ incoming \in Seq(Unit)
           /\ heard \in Seq(Unit) /\ out \in Seq(Unit) /\ wire \in Seq(Unit)
           /\ taken \in Seq(Seq(Unit)) /\ written \in Seq(Seq(Unit))
           /\ tx_seq \in Nat /\ told \in Nat /\ stale \in Nat /\ version \in Nat
           /\ Header(version) \in 1 .. 2
           /\ Len(left) \in Nat /\ Len(frame) \in Nat /\ Len(incoming) \in Nat
           /\ Len(heard) \in Nat /\ Len(out) \in Nat /\ Len(wire) \in Nat
           /\ Len(taken) \in Nat /\ Len(written) \in Nat
  <1>1. /\ left \in Seq(Unit) /\ frame \in Seq(Unit) /\ incoming \in Seq(Unit)
        /\ heard \in Seq(Unit) /\ out \in Seq(Unit) /\ wire \in Seq(Unit)
        /\ taken \in Seq(Seq(Unit)) /\ written \in Seq(Seq(Unit))
        /\ tx_seq \in Nat /\ told \in Nat /\ stale \in Nat /\ version \in Nat
    BY DEF TypeOK
  <1>2. Header(version) \in 1 .. 2
    BY <1>1, HeaderFacts
  <1> QED
    BY <1>1, <1>2, LenProperties

\* The parts of TypeOK.
Kinds  == /\ link \in Links /\ bus \in Seq(UsbDevice) /\ resets \in Nat
          /\ id \in Ids \cup {AnyId} /\ chosen \in 0 .. Len(bus)
States == /\ phase \in {"closed", "ready"} \cup Handshake
          /\ call \in {"idle", "write", "header", "payload"}
          /\ version \in 0 .. 2 /\ peer \in 1 .. 3
Data   == /\ tx_seq \in Nat /\ told \in Nat /\ stale \in Nat
          /\ left \in Seq(Unit) /\ frame \in Seq(Unit) /\ incoming \in Seq(Unit)
          /\ heard \in Seq(Unit) /\ out \in Seq(Unit) /\ wire \in Seq(Unit)
          /\ taken \in Seq(Seq(Unit)) /\ written \in Seq(Seq(Unit))
Sizes  == /\ Len(frame) <= BufUnits /\ Len(incoming) <= BufUnits /\ size \in 0 .. BufUnits
          /\ tries \in 0 .. MaxTries /\ attempt \in 0 .. Attempts
Flags  == spoilt \in BOOLEAN /\ torn \in BOOLEAN /\ faults \in 0 .. MaxFaults

LEMMA TypeParts == TypeOK <=> Kinds /\ States /\ Data /\ Sizes /\ Flags
  BY DEF TypeOK, Kinds, States, Data, Sizes, Flags

LEMMA TypePartsNext == TypeOK' <=> Kinds' /\ States' /\ Data' /\ Sizes' /\ Flags'
  BY DEF TypeOK, Kinds, States, Data, Sizes, Flags

LEMMA InitBase == Init => Base
  <1> SUFFICES ASSUME Init PROVE Base
    OBVIOUS
  <1>1. <<>> \in Seq(Unit) /\ <<>> \in Seq(Seq(Unit)) /\ <<>> \in Seq(UsbDevice) /\ Len(<<>>) = 0
    BY EmptySeq
  <1>2. bus \in Seq(UsbDevice)
    BY <1>1, TransportsAssumption DEF Init, Pluggable
  <1>3. Len(bus) \in Nat
    BY <1>2, LenProperties
  <1>4. TypeOK
    <2>1. Kinds
      BY <1>2, <1>3 DEF Init, Kinds
    <2>2. States
      BY DEF Init, States
    <2>3. Data
      BY <1>1 DEF Init, Data
    <2>4. Sizes
      BY <1>1, ConstFacts DEF Init, Sizes
    <2>5. Flags
      <3>1. faults \in 0 .. MaxFaults
        BY ConstFacts DEF Init
      <3> QED
        BY <3>1 DEF Init, Flags
    <2> QED
      BY <2>1, <2>2, <2>3, <2>4, <2>5, TypeParts
  <1>5. CallInv /\ PhaseInv
    BY ConstFacts DEF Init, CallInv, PhaseInv, Handshake
  <1> QED
    BY <1>4, <1>5 DEF Base

\* A device that is claimed, released or configured is still one.
LEMMA BusFacts ==
    ASSUME NEW b \in Seq(UsbDevice), NEW n \in 1 .. Len(b), NEW d \in UsbDevice
    PROVE  /\ [b EXCEPT ![n] = d] \in Seq(UsbDevice) /\ Len([b EXCEPT ![n] = d]) = Len(b)
           /\ DOMAIN [b EXCEPT ![n] = d] = DOMAIN b /\ DOMAIN b = 1 .. Len(b)
           /\ \A m \in 1 .. Len(b) : [b EXCEPT ![n] = d][m] = IF m = n THEN d ELSE b[m]
  <1>1. /\ [b EXCEPT ![n] = d] \in Seq(UsbDevice) /\ Len([b EXCEPT ![n] = d]) = Len(b)
        /\ \A m \in 1 .. Len(b) : [b EXCEPT ![n] = d][m] = IF m = n THEN d ELSE b[m]
    BY ExceptSeq
  <1> QED
    BY <1>1, LenProperties

\* What the bus is once the transport is closed.
LEMMA ReleasedFacts ==
    ASSUME TypeOK, Closes
    PROVE  /\ bus' \in Seq(UsbDevice) /\ Len(bus') = Len(bus) /\ DOMAIN bus' = DOMAIN bus
           /\ Len(bus) \in Nat /\ DOMAIN bus = 1 .. Len(bus)
           /\ \A m \in 1 .. Len(bus) :
                  bus'[m] = IF m = chosen THEN [bus[m] EXCEPT !.claimed = "none"] ELSE bus[m]
  <1>1. bus \in Seq(UsbDevice) /\ Len(bus) \in Nat /\ DOMAIN bus = 1 .. Len(bus) /\ chosen \in 0 .. Len(bus)
    BY LenProperties DEF TypeOK
  <1>2. CASE chosen = 0
    BY <1>1, <1>2 DEF Closes
  <1>3. CASE chosen # 0
    <2> DEFINE d == [bus[chosen] EXCEPT !.claimed = "none"]
    <2>1. chosen \in 1 .. Len(bus)
      BY <1>1, <1>3
    <2>2. bus[chosen] \in UsbDevice
      BY <1>1, <2>1, ElementOfSeq
    <2>3. d \in UsbDevice
      BY <2>2 DEF UsbDevice
    <2>4. bus' = [bus EXCEPT ![chosen] = d]
      BY <1>3 DEF Closes
    <2> HIDE DEF d
    <2>5. /\ bus' \in Seq(UsbDevice) /\ Len(bus') = Len(bus) /\ DOMAIN bus' = DOMAIN bus
          /\ \A m \in 1 .. Len(bus) : bus'[m] = IF m = chosen THEN d ELSE bus[m]
      BY <1>1, <2>1, <2>3, <2>4, BusFacts
    <2> QED
      BY <1>1, <2>5 DEF d
  <1> QED
    BY <1>2, <1>3

LEMMA ClosesBase ==
    ASSUME Base, Closes, faults' \in 0 .. MaxFaults
    PROVE  Base'
  <1>1. <<>> \in Seq(Unit) /\ <<>> \in Seq(Seq(Unit)) /\ Len(<<>>) = 0
    BY EmptySeq
  <1>2. bus' \in Seq(UsbDevice) /\ Len(bus') \in Nat
    BY ReleasedFacts, LenProperties DEF Base
  <1>3. link' \in Links /\ link' = link
    BY DEF Closes, Base, TypeOK
  <1>4. TypeOK'
    <2>1. Kinds'
      BY <1>2, <1>3 DEF Closes, Kinds, Base, TypeOK
    <2>2. States'
      BY DEF Closes, States
    <2>3. Data'
      BY <1>1 DEF Closes, Data
    <2>4. Sizes'
      BY <1>1, ConstFacts DEF Closes, Sizes
    <2>5. Flags'
      BY DEF Closes, Flags
    <2> QED
      BY <2>1, <2>2, <2>3, <2>4, <2>5, TypePartsNext
  <1>5. CallInv' /\ PhaseInv'
    BY <1>3, ConstFacts DEF Closes, CallInv, PhaseInv, Handshake
  <1> QED
    BY <1>4, <1>5 DEF Base

LEMMA OpenedBase ==
    ASSUME Base, NEW n \in Nat, NEW v \in 1 .. 3, Opened(n, v), phase = "closed",
           link = "tcp" => v # 2 /\ chosen' = 0,
           bus' \in Seq(UsbDevice), chosen' \in 0 .. Len(bus'), id' \in Ids \cup {AnyId},
           resets' \in Nat, faults' \in 0 .. MaxFaults
    PROVE  Base'
  <1>0. v \in Nat
    OBVIOUS
  <1>1. Header(v) + 1 \in 2 .. 3
    <2>1. Header(v) \in 1 .. 2
      BY <1>0, HeaderFacts
    <2> QED
      BY <2>1
  <1>4. wire' \in Seq(Unit)
    BY <1>1, StaleFacts DEF Opened
  <1>5. TypeOK'
    <2>0. Kinds /\ States /\ Data /\ Sizes /\ Flags
      BY TypeParts DEF Base
    <2>1. Kinds'
      BY <2>0 DEF Opened, Kinds
    <2>2. States'
      BY <2>0 DEF Opened, States, Handshake
    <2>3. Data'
      BY <1>4, <2>0 DEF Opened, Data
    <2>4. Sizes'
      BY <2>0, ConstFacts DEF Opened, Sizes
    <2>5. Flags'
      BY <2>0 DEF Opened, Flags
    <2> QED
      BY <2>1, <2>2, <2>3, <2>4, <2>5, TypePartsNext
  <1>6. CallInv'
    BY ConstFacts DEF Opened, Base, CallInv, PhaseInv
  <1>7. PhaseInv'
    BY DEF Opened, Base, PhaseInv, Handshake
  <1> QED
    BY <1>5, <1>6, <1>7 DEF Base

\* The device that UsbTransport::open finds, and what it makes of it.
LEMMA FoundFacts ==
    ASSUME TypeOK, NEW i, NEW n, n = FindDevice(bus, i), n # 0, NEW c \in Able(bus[n])
    PROVE  /\ n \in 1 .. Len(bus) /\ Len(bus) \in Nat /\ DOMAIN bus = 1 .. Len(bus)
           /\ Matches(bus[n], i) /\ bus[n] \in UsbDevice
           /\ LET b == [bus EXCEPT ![n].active = c, ![n].claimed = "host"]
              IN  /\ b \in Seq(UsbDevice) /\ Len(b) = Len(bus) /\ DOMAIN b = DOMAIN bus
                  /\ \A m \in 1 .. Len(bus) :
                         b[m] = IF m = n THEN [bus[n] EXCEPT !.active = c, !.claimed = "host"] ELSE bus[m]
           /\ LET b == [bus EXCEPT ![n].active = c]
              IN  /\ b \in Seq(UsbDevice) /\ Len(b) = Len(bus) /\ DOMAIN b = DOMAIN bus
                  /\ \A m \in 1 .. Len(bus) :
                         b[m] = IF m = n THEN [bus[n] EXCEPT !.active = c] ELSE bus[m]
  <1>1. bus \in Seq(UsbDevice) /\ Len(bus) \in Nat /\ DOMAIN bus = 1 .. Len(bus)
    BY LenProperties DEF TypeOK
  <1>2. n \in 1 .. Len(bus) /\ Matches(bus[n], i)
    BY <1>1, FindFacts
  <1>3. bus[n] \in UsbDevice
    BY <1>1, <1>2, ElementOfSeq
  <1>4. c \in Nat
    BY <1>3, AbleFacts
  <1> DEFINE d == [bus[n] EXCEPT !.active = c]
             e == [bus[n] EXCEPT !.active = c, !.claimed = "host"]
  <1>5. d \in UsbDevice /\ e \in UsbDevice
    BY <1>3, <1>4 DEF UsbDevice
  <1>6. /\ [bus EXCEPT ![n].active = c] = [bus EXCEPT ![n] = d]
        /\ [bus EXCEPT ![n].active = c, ![n].claimed = "host"] = [bus EXCEPT ![n] = e]
    BY <1>1, <1>2
  <1> HIDE DEF d, e
  <1>7. /\ [bus EXCEPT ![n] = d] \in Seq(UsbDevice) /\ Len([bus EXCEPT ![n] = d]) = Len(bus)
        /\ DOMAIN [bus EXCEPT ![n] = d] = DOMAIN bus
        /\ \A m \in 1 .. Len(bus) : [bus EXCEPT ![n] = d][m] = IF m = n THEN d ELSE bus[m]
    BY <1>1, <1>2, <1>5, BusFacts
  <1>8. /\ [bus EXCEPT ![n] = e] \in Seq(UsbDevice) /\ Len([bus EXCEPT ![n] = e]) = Len(bus)
        /\ DOMAIN [bus EXCEPT ![n] = e] = DOMAIN bus
        /\ \A m \in 1 .. Len(bus) : [bus EXCEPT ![n] = e][m] = IF m = n THEN e ELSE bus[m]
    BY <1>1, <1>2, <1>5, BusFacts
  <1> QED
    BY <1>1, <1>2, <1>3, <1>6, <1>7, <1>8 DEF d, e

\* A fault, or none.
LEMMA FaultFacts ==
    ASSUME TypeOK, faults' = faults \/ (faults < MaxFaults /\ faults' = faults + 1)
    PROVE  faults' \in 0 .. MaxFaults
  BY ConstFacts DEF TypeOK

\* A configuration is counted when it is set.
LEMMA SetsFacts ==
    ASSUME TypeOK, NEW d, NEW set, Sets(d, set)
    PROVE  resets' \in Nat
  BY DEF TypeOK, Sets

LEMMA ConfiguresFacts ==
    ASSUME TypeOK, NEW d, NEW c, Configures(d, c)
    PROVE  resets' \in Nat /\ faults' \in 0 .. MaxFaults
  <1>1. PICK set : Sets(d, set)
    BY DEF Configures
  <1>2. faults' = faults \/ (faults < MaxFaults /\ faults' = faults + 1)
    BY DEF Configures
  <1> QED
    BY <1>1, <1>2, SetsFacts, FaultFacts

LEMMA OpensBase ==
    ASSUME Base, Opening
    PROVE  Base'
  <1>0. TypeOK
    BY DEF Base
  <1>1. CASE OpenTcp
    <2>1. PICK v \in {1, 3} : Opened(0, v)
      BY <1>1 DEF OpenTcp
    <2>2. /\ bus' \in Seq(UsbDevice) /\ chosen' \in 0 .. Len(bus') /\ id' \in Ids \cup {AnyId}
          /\ chosen' = 0 /\ resets' \in Nat /\ faults' \in 0 .. MaxFaults
      BY <1>1 DEF OpenTcp, usb, Base, TypeOK, PhaseInv
    <2>3. 0 \in Nat /\ v \in 1 .. 3 /\ v # 2 /\ phase = "closed"
      BY <1>1 DEF OpenTcp
    <2> QED
      BY <2>1, <2>2, <2>3, OpenedBase
  <1>2. ASSUME NEW i \in Ids, OpenUsb(i) PROVE Base'
    <2> DEFINE n == FindDevice(bus, i)
    <2>1. PICK c \in Able(bus[n]) :
             Configures(bus[n], c) /\ bus' = [bus EXCEPT ![n].active = c, ![n].claimed = "host"]
      BY <1>2 DEF OpenUsb
    <2>2. n # 0 /\ chosen' = n /\ id' = i /\ phase = "closed" /\ link = "usb"
      BY <1>2 DEF OpenUsb
    <2>3. PICK k \in 0 .. MaxStale, v \in 1 .. 3 : Opened(k, v)
      BY <1>2 DEF OpenUsb
    <2>4. resets' \in Nat /\ faults' \in 0 .. MaxFaults
      BY <1>0, <2>1, ConfiguresFacts
    <2> HIDE DEF n
    <2>5. bus' \in Seq(UsbDevice) /\ Len(bus') = Len(bus) /\ Len(bus) \in Nat /\ n \in 1 .. Len(bus)
      BY <1>0, <2>1, <2>2, FoundFacts DEF n
    <2>6. chosen' \in 0 .. Len(bus') /\ k \in Nat
      BY <2>2, <2>5, ConstFacts
    <2> QED
      BY <2>2, <2>3, <2>4, <2>5, <2>6, OpenedBase
  <1>3. ASSUME NEW i \in Ids, OpenUsbFails(i) PROVE Base'
    <2> DEFINE n == FindDevice(bus, i)
    <2>1. /\ n # 0
          /\ \/ UNCHANGED <<bus, resets>>
             \/ \E c \in Able(bus[n]) : Sets(bus[n], TRUE) /\ bus' = [bus EXCEPT ![n].active = c]
      BY <1>3 DEF OpenUsbFails
    <2>2. bus' \in Seq(UsbDevice) /\ Len(bus') = Len(bus) /\ resets' \in Nat
      <3>1. CASE UNCHANGED <<bus, resets>>
        BY <1>0, <3>1 DEF TypeOK
      <3>2. ASSUME NEW c \in Able(bus[n]), Sets(bus[n], TRUE), bus' = [bus EXCEPT ![n].active = c]
            PROVE  bus' \in Seq(UsbDevice) /\ Len(bus') = Len(bus) /\ resets' \in Nat
        <4>1. resets' \in Nat
          BY <1>0, <3>2, SetsFacts
        <4> HIDE DEF n
        <4>2. bus' \in Seq(UsbDevice) /\ Len(bus') = Len(bus)
          BY <1>0, <2>1, <3>2, FoundFacts DEF n
        <4> QED
          BY <4>1, <4>2
      <3> QED
        BY <2>1, <3>1, <3>2
    <2>4. TypeOK'
      <3>0. Kinds /\ States /\ Data /\ Sizes /\ Flags
        BY TypeParts DEF Base
      <3>1. Kinds'
        BY <1>3, <2>2, <3>0 DEF OpenUsbFails, Kinds
      <3>2. States' /\ Data' /\ Sizes'
        BY <1>3, <3>0 DEF OpenUsbFails, States, Data, Sizes, mux, input, device, past
      <3>3. Flags'
        BY <1>3, <3>0, ConstFacts DEF OpenUsbFails, Flags, past
      <3> QED
        BY <3>1, <3>2, <3>3, TypePartsNext
    <2>5. CallInv' /\ PhaseInv'
      BY <1>3 DEF OpenUsbFails, Base, CallInv, PhaseInv, mux, input, device, past, Header, Handshake
    <2> QED
      BY <2>4, <2>5 DEF Base
  <1> QED
    BY <1>1, <1>2, <1>3 DEF Opening

\* What is written: a frame begins, goes out in parts, is retried, or fails.
LEMMA SendBase ==
    ASSUME Base, Send
    PROVE  Base'
  <1>1. Kinds /\ States /\ Data /\ Sizes /\ Flags /\ TypeOK
    BY TypeParts DEF Base
  <1>2. HostFrame(tx_seq) \in Seq(Unit) /\ HostFrame(tx_seq) # <<>>
    BY <1>1, HostFrameFacts DEF Data
  <1>3. Kinds' /\ States'
    BY <1>1 DEF Send, Kinds, States, usb, device
  <1>4. Data'
    BY <1>1, <1>2 DEF Send, Data, input, device, past
  <1>5. Sizes' /\ Flags'
    BY <1>1, ConstFacts DEF Send, Sizes, Flags, input, past
  <1>6. CallInv'
    <2>1. tx_seq' # 0
      BY <1>1 DEF Send, Data
    <2>2. phase' = phase /\ phase \in {"request", "setup", "ready"}
      BY DEF Send
    <2>3. frame' = <<>>
      BY DEF Send, Base, CallInv
    <2> QED
      BY <1>2, <2>1, <2>2, <2>3, ConstFacts DEF Send, CallInv
  <1>7. PhaseInv'
    BY DEF Send, Base, PhaseInv, Handshake, usb, input, device, past
  <1> QED
    BY <1>3, <1>4, <1>5, <1>6, <1>7, TypePartsNext DEF Base

LEMMA MovesBase ==
    ASSUME Base, NEW k \in 1 .. Len(left), Moves(k)
    PROVE  Base'
  <1>1. Kinds /\ States /\ Data /\ Sizes /\ Flags /\ TypeOK
    BY TypeParts DEF Base
  <1>2. tx_seq # 0 /\ tx_seq - 1 \in Nat /\ phase \in {"request", "setup", "ready"} /\ frame = <<>>
    BY <1>1 DEF Moves, Data, Base, CallInv
  <1>3. HostFrame(tx_seq - 1) \in Seq(Unit)
    BY <1>1, <1>2, HostFrameFacts
  <1>4. /\ left \in Seq(Unit) /\ heard \in Seq(Unit) /\ out \in Seq(Unit)
        /\ written \in Seq(Seq(Unit)) /\ Len(left) \in Nat /\ Len(written) \in Nat
    BY <1>1, TypeFacts
  <1>5. /\ SubSeq(left, 1, k) \in Seq(Unit) /\ SubSeq(left, k + 1, Len(left)) \in Seq(Unit)
        /\ Len(SubSeq(left, k + 1, Len(left))) = Len(left) - k
    <2>1. k \in Nat /\ k <= Len(left) /\ left \in Seq(Unit)
      BY <1>4
    <2> QED
      BY ONLY <2>1, CutFacts
  <1>6. heard \o SubSeq(left, 1, k) \in Seq(Unit)
    BY <1>4, <1>5, ConcatProperties
  <1>7. out \o HostFrame(tx_seq - 1) \in Seq(Unit)
    BY <1>3, <1>4, ConcatProperties
  <1>8. /\ Append(written, HostFrame(tx_seq - 1)) \in Seq(Seq(Unit))
        /\ Len(Append(written, HostFrame(tx_seq - 1))) = Len(written) + 1
    BY <1>3, <1>4, AppendProperties
  <1>9. CASE k = Len(left)
    <2>1. /\ Sent /\ written' = Append(written, HostFrame(tx_seq - 1))
          /\ out' = out \o HostFrame(tx_seq - 1)
      BY <1>9 DEF Moves
    <2>2. Kinds' /\ States'
      BY <1>1, <2>1 DEF Moves, Sent, Kinds, States, usb, Handshake
    <2>3. Data'
      BY <1>1, <1>6, <1>7, <1>8, <2>1, EmptySeq DEF Moves, Sent, Data, input
    <2>4. Sizes' /\ Flags'
      BY <1>1, <2>1, ConstFacts DEF Moves, Sent, Sizes, Flags, input
    <2>5. CallInv'
      BY <1>2, <2>1, ConstFacts DEF Moves, Sent, CallInv
    <2>6. PhaseInv'
      <3>1. phase = "request" => written = <<>>
        BY DEF Base, PhaseInv
      <3>2. phase = "request" => Len(written') = 1
        BY <1>8, <2>1, <3>1
      <3> QED
        BY <1>2, <2>1, <3>2 DEF Moves, Sent, Base, PhaseInv, Handshake, usb, input
    <2> QED
      BY <2>2, <2>3, <2>4, <2>5, <2>6, TypePartsNext DEF Base
  <1>10. CASE k # Len(left)
    <2>1. /\ left' = SubSeq(left, k + 1, Len(left))
          /\ UNCHANGED <<phase, call, tries, written, out>>
      BY <1>10 DEF Moves
    <2>2. left' # <<>>
      <3>1. Len(left') # 0 /\ Len(<<>>) = 0
        BY <1>4, <1>5, <1>10, <2>1
      <3> QED
        BY <3>1
    <2>3. Kinds' /\ States'
      BY <1>1, <2>1 DEF Moves, Kinds, States, usb
    <2>4. Data'
      BY <1>1, <1>5, <1>6, <2>1 DEF Moves, Data, input
    <2>5. Sizes' /\ Flags'
      BY <1>1, <2>1 DEF Moves, Sizes, Flags, input
    <2>6. CallInv'
      BY <2>1, <2>2 DEF Moves, Base, CallInv
    <2>7. PhaseInv'
      BY <1>2, <2>1 DEF Moves, Base, PhaseInv, Handshake, usb, input
    <2> QED
      BY <2>3, <2>4, <2>5, <2>6, <2>7, TypePartsNext DEF Base
  <1> QED
    BY <1>9, <1>10

LEMMA RetryBase ==
    ASSUME Base, Retry
    PROVE  Base'
  <1>1. Kinds /\ States /\ Data /\ Sizes /\ Flags
    BY TypeParts DEF Base
  <1>2. Kinds' /\ States' /\ Data' /\ Flags'
    BY <1>1 DEF Retry, Kinds, States, Data, Flags, usb, mux, input, device, past
  <1>3. tries' \in 0 .. MaxTries /\ tries' < MaxTries
    BY <1>1, ConstFacts DEF Retry, Sizes
  <1>4. Sizes'
    BY <1>1, <1>3 DEF Retry, Sizes, mux, input
  <1>5. CallInv'
    BY <1>3 DEF Retry, Base, CallInv, mux, input, device, past
  <1>6. PhaseInv'
    BY DEF Retry, Base, PhaseInv, Handshake, usb, mux, input, device, past
  <1> QED
    BY <1>2, <1>4, <1>5, <1>6, TypePartsNext DEF Base

LEMMA WriteFailsBase ==
    ASSUME Base, WriteFails
    PROVE  Base'
  <1>1. Kinds /\ States /\ Data /\ Sizes /\ Flags /\ TypeOK
    BY TypeParts DEF Base
  <1>2. call = "write" /\ faults' \in 0 .. MaxFaults
    BY <1>1, FaultFacts DEF WriteFails
  <1>3. left \in Seq(Unit) /\ heard \in Seq(Unit) /\ Len(left) \in Nat /\ left # <<>> /\ Len(left) # 0
    BY <1>1, <1>2, TypeFacts, EmptySeq DEF Base, CallInv
  <1>4. PICK k \in 0 .. Len(left) - 1 : WriteEnds(k)
    <2>1. 0 \in 0 .. Len(left) - 1
      BY <1>3
    <2> QED
      BY <2>1 DEF WriteFails
  <1>5. CASE phase \in Handshake
    BY <1>2, <1>4, <1>5, ClosesBase DEF WriteEnds
  <1>6. CASE phase \notin Handshake
    <2>1. phase = "ready"
      BY <1>2, <1>6 DEF Base, CallInv, Handshake
    <2>2. /\ call' = "idle" /\ left' = <<>> /\ tries' = 0 /\ torn' = TRUE
          /\ heard' = heard \o SubSeq(left, 1, k)
          /\ UNCHANGED <<link, usb, mux, frame, input, peer, told, stale, taken, written, out, spoilt>>
      BY <1>4, <1>6 DEF WriteEnds
    <2>3. SubSeq(left, 1, k) \in Seq(Unit)
      BY <1>3, CutFacts
    <2>4. heard \o SubSeq(left, 1, k) \in Seq(Unit)
      BY <1>3, <2>3, ConcatProperties
    <2>5. Kinds' /\ States'
      BY <1>1, <2>2 DEF Kinds, States, usb, mux
    <2>6. Data'
      BY <1>1, <2>2, <2>4, EmptySeq DEF Data, mux, input
    <2>7. Sizes'
      BY <1>1, <2>2, ConstFacts DEF Sizes, mux, input
    <2>8. Flags'
      BY <1>1, <1>2, <2>2 DEF Flags
    <2>9. frame' = <<>>
      BY <1>2, <2>2 DEF Base, CallInv
    <2>10. CallInv'
      BY <2>2, <2>9, ConstFacts DEF CallInv
    <2>11. PhaseInv'
      BY <2>1, <2>2 DEF Base, PhaseInv, Handshake, usb, mux, input
    <2> QED
      BY <2>5, <2>6, <2>7, <2>8, <2>10, <2>11, TypePartsNext DEF Base
  <1> QED
    BY <1>5, <1>6

\* What is read: a frame begins, its bytes come in, its header is looked at.
LEMMA ReceiveBase ==
    ASSUME Base, Receive
    PROVE  Base'
  <1>1. Kinds /\ States /\ Data /\ Sizes /\ Flags
    BY TypeParts DEF Base
  <1>2. Kinds' /\ States' /\ Flags'
    BY <1>1 DEF Receive, Receives, Kinds, States, Flags, usb, mux, device, past
  <1>3. Data'
    BY <1>1, EmptySeq DEF Receive, Receives, Data, mux, input, device, past
  <1>4. Len(frame') = 0 /\ frame' = <<>>
    BY DEF Receive, Receives
  <1>5. Sizes'
    BY <1>1, <1>4, ConstFacts DEF Receive, Receives, Sizes, mux, input
  <1>6. version' \in Nat
    BY <1>1 DEF Receive, mux, States
  <1>7. Header(version') \in 1 .. 2
    BY <1>6, HeaderFacts
  <1>8. CallInv'
    BY <1>4, <1>7, ConstFacts DEF Receive, Receives, Base, CallInv, mux
  <1>9. PhaseInv'
    BY DEF Receive, Receives, Base, PhaseInv, Handshake, usb, mux, input, device, past
  <1> QED
    BY <1>2, <1>3, <1>5, <1>8, <1>9, TypePartsNext DEF Base

LEMMA ReadsBase ==
    ASSUME Base, Reading, frame' \in Seq(Unit), Len(frame) <= Len(frame'),
           Len(frame') <= Len(frame) + Need, Len(frame) >= 1 => frame'[1] = frame[1],
           tries' \in {0, tries}, incoming' \in Seq(Unit), Len(incoming') <= BufUnits,
           link = "tcp" => incoming' = <<>>, size' \in 0 .. BufUnits, wire' \in Seq(Unit),
           UNCHANGED <<link, usb, mux, call, left, device, past, faults>>
    PROVE  Base'
  <1>1. Kinds /\ States /\ Data /\ Sizes /\ Flags /\ TypeOK
    BY TypeParts DEF Base
  <1>2. Kinds' /\ States' /\ Flags'
    BY <1>1 DEF Kinds, States, Flags, usb, mux, device, past
  <1>3. Data'
    BY <1>1 DEF Data, mux, device, past
  <1>4. Need \in Nat \ {0} /\ Len(frame) \in Nat /\ Len(frame) + Need <= BufUnits
    BY NeedFacts
  <1>5. Len(frame') \in Nat
    BY LenProperties
  <1>6. tries' \in 0 .. MaxTries /\ tries' < MaxTries
    BY <1>1, ConstFacts DEF Base, CallInv, Sizes
  <1>7. Sizes'
    <2>1. Len(frame') <= BufUnits
      BY <1>4, <1>5, ConstFacts
    <2> QED
      BY <1>1, <1>6, <2>1 DEF Sizes, mux
  <1>8. CallInv'
    <2>1. call' = call /\ left' = left /\ phase' = phase /\ version' = version /\ Header(version') = Header(version)
      BY DEF mux, Header
    <2>2. call \in {"header", "payload"} /\ left = <<>> /\ phase \in {"answer", "ready"}
      BY DEF Reading, Base, CallInv
    <2>3. call = "header" => Len(frame') <= Header(version)
      <3>1. call = "header" => Need = Header(version) - Len(frame)
        BY NeedFacts
      <3>2. Header(version) \in 1 .. 2
        BY <1>1, TypeFacts
      <3> QED
        BY <1>4, <1>5, <3>1, <3>2
    <2>4. call = "payload" => /\ Header(version) <= Len(frame') /\ Len(frame') <= frame'[1].length
                              /\ frame'[1].length <= BufUnits
      <3> SUFFICES ASSUME call = "payload"
                   PROVE  /\ Header(version) <= Len(frame') /\ Len(frame') <= frame'[1].length
                          /\ frame'[1].length <= BufUnits
        OBVIOUS
      <3>1. Need = frame[1].length - Len(frame)
        BY NeedFacts
      <3>2. Header(version) \in 1 .. 2
        BY <1>1, TypeFacts
      <3>3. Header(version) <= Len(frame) /\ frame[1].length <= BufUnits
        BY DEF Base, CallInv
      <3>4. frame'[1] = frame[1] /\ 1 \in 1 .. Len(frame)
        BY <1>4, <3>2, <3>3
      <3>5. frame[1].length \in Nat
        <4>1. frame[1] \in Unit
          BY <1>1, <3>4, ElementOfSeq DEF Data
        <4> QED
          BY <4>1 DEF Unit
      <3> QED
        BY <1>4, <1>5, <3>1, <3>2, <3>3, <3>4, <3>5
    <2> QED
      BY <1>6, <2>1, <2>2, <2>3, <2>4 DEF CallInv
  <1>9. PhaseInv'
    BY DEF Reading, Base, CallInv, PhaseInv, Handshake, usb, mux, device, past
  <1> QED
    BY <1>2, <1>3, <1>7, <1>8, <1>9, TypePartsNext DEF Base

\* What the frame is once more units have come.
LEMMA LongerFacts ==
    ASSUME TypeOK, NEW q \in Seq(Unit)
    PROVE  /\ frame \o q \in Seq(Unit) /\ Len(frame \o q) = Len(frame) + Len(q)
           /\ Len(frame) \in Nat /\ Len(q) \in Nat
           /\ Len(frame) >= 1 => (frame \o q)[1] = frame[1]
  <1>1. frame \in Seq(Unit) /\ Len(frame) \in Nat /\ Len(q) \in Nat
    BY TypeFacts, LenProperties
  <1>2. /\ frame \o q \in Seq(Unit) /\ Len(frame \o q) = Len(frame) + Len(q)
        /\ \A i \in 1 .. Len(frame) + Len(q) :
               (frame \o q)[i] = IF i <= Len(frame) THEN frame[i] ELSE q[i - Len(frame)]
    BY <1>1, ConcatProperties
  <1>3. Len(frame) >= 1 => 1 \in 1 .. Len(frame) + Len(q)
    BY <1>1
  <1> QED
    BY <1>1, <1>2, <1>3

\* The three ways a unit comes in.
LEMMA BufferedFacts ==
    ASSUME Base, ReadBuffered
    PROVE  \E k \in 1 .. Len(incoming) :
               /\ k <= Need /\ Len(incoming) \in Nat /\ incoming \in Seq(Unit)
               /\ frame' = frame \o SubSeq(incoming, 1, k)
               /\ incoming' = SubSeq(incoming, k + 1, Len(incoming))
               /\ Reading
  <1>1. Need \in Nat \ {0}
    BY NeedFacts DEF ReadBuffered
  <1>2. incoming \in Seq(Unit) /\ Len(incoming) \in Nat /\ incoming # <<>> /\ Len(incoming) # 0
    BY TypeFacts, EmptySeq DEF Base, ReadBuffered
  <1>3. /\ Least(Need, Len(incoming)) \in 1 .. Len(incoming)
        /\ Least(Need, Len(incoming)) <= Need
    BY <1>1, <1>2 DEF Least
  <1> QED
    BY <1>2, <1>3 DEF ReadBuffered

LEMMA BufferedBase ==
    ASSUME Base, ReadBuffered
    PROVE  Base'
  <1>1. PICK k \in 1 .. Len(incoming) :
               /\ k <= Need /\ Len(incoming) \in Nat /\ incoming \in Seq(Unit)
               /\ frame' = frame \o SubSeq(incoming, 1, k)
               /\ incoming' = SubSeq(incoming, k + 1, Len(incoming))
               /\ Reading
    BY BufferedFacts
  <1>2. /\ SubSeq(incoming, 1, k) \in Seq(Unit) /\ Len(SubSeq(incoming, 1, k)) = k
        /\ incoming' \in Seq(Unit) /\ Len(incoming') = Len(incoming) - k
    BY <1>1, CutFacts
  <1>3. /\ frame' \in Seq(Unit) /\ Len(frame') = Len(frame) + k /\ Len(frame) \in Nat
        /\ Len(frame) >= 1 => frame'[1] = frame[1]
    BY <1>1, <1>2, LongerFacts DEF Base
  <1>4. Need \in Nat /\ Len(incoming) <= BufUnits /\ size \in 0 .. BufUnits
    BY <1>1, NeedFacts DEF Base, TypeOK
  <1>5. Len(frame) <= Len(frame') /\ Len(frame') <= Len(frame) + Need /\ Len(incoming') <= BufUnits
    BY <1>1, <1>2, <1>3, <1>4, ConstFacts
  <1>6. link # "tcp"
    BY DEF ReadBuffered, Base, PhaseInv
  <1>7. tries' \in {0, tries} /\ size' \in 0 .. BufUnits /\ wire' \in Seq(Unit)
    BY <1>4, TypeFacts DEF ReadBuffered, Base
  <1>8. UNCHANGED <<link, usb, mux, call, left, device, past, faults>>
    BY DEF ReadBuffered
  <1> QED
    BY <1>1, <1>2, <1>3, <1>5, <1>6, <1>7, <1>8, ReadsBase

LEMMA TransferFacts ==
    ASSUME Base, ReadTransfer
    PROVE  \E k \in 1 .. Len(wire) :
               /\ k <= BufUnits /\ Len(wire) \in Nat
               /\ incoming' = SubSeq(wire, 1, k) /\ size' = k /\ wire' = Rest(k)
               /\ Reading /\ incoming = <<>> /\ frame' = frame
  <1>1. Len(wire) \in Nat
    BY TypeFacts DEF Base
  <1>2. PICK k \in 1 .. Least(BufUnits, Len(wire)) :
           incoming' = SubSeq(wire, 1, k) /\ size' = k /\ wire' = Rest(k)
    BY DEF ReadTransfer
  <1>3. k \in 1 .. Len(wire) /\ k <= BufUnits
    BY <1>1, <1>2, ConstFacts DEF Least
  <1> QED
    BY <1>1, <1>2, <1>3 DEF ReadTransfer

LEMMA TransferBase ==
    ASSUME Base, ReadTransfer
    PROVE  Base'
  <1>1. PICK k \in 1 .. Len(wire) :
               /\ k <= BufUnits /\ Len(wire) \in Nat
               /\ incoming' = SubSeq(wire, 1, k) /\ size' = k /\ wire' = Rest(k)
               /\ Reading /\ incoming = <<>> /\ frame' = frame
    BY TransferFacts
  <1>2. k \in 0 .. Len(wire)
    BY <1>1
  <1>3. wire' \in Seq(Unit) /\ incoming' \in Seq(Unit) /\ Len(incoming') = k
    BY <1>1, <1>2, RestFacts DEF Base
  <1>4. /\ frame' \in Seq(Unit) /\ Len(frame) \in Nat /\ Need \in Nat
    BY <1>1, TypeFacts, NeedFacts DEF Base
  <1>5. Len(frame) <= Len(frame') /\ Len(frame') <= Len(frame) + Need /\ size' \in 0 .. BufUnits
    BY <1>1, <1>4, ConstFacts
  <1>6. link # "tcp" /\ tries' \in {0, tries}
    BY DEF ReadTransfer
  <1>7. UNCHANGED <<link, usb, mux, call, left, device, past, faults>>
    BY DEF ReadTransfer
  <1> QED
    BY <1>1, <1>3, <1>4, <1>5, <1>6, <1>7, ReadsBase

LEMMA SocketFacts ==
    ASSUME Base, ReadSocket
    PROVE  \E k \in 1 .. Len(wire) :
               /\ k <= Need /\ Len(wire) \in Nat
               /\ frame' = frame \o SubSeq(wire, 1, k) /\ wire' = Rest(k)
               /\ Reading /\ incoming = <<>> /\ incoming' = <<>>
  <1>1. Len(wire) \in Nat /\ Need \in Nat \ {0}
    BY TypeFacts, NeedFacts DEF Base, ReadSocket
  <1>2. PICK k \in 1 .. Least(Need, Len(wire)) :
           frame' = frame \o SubSeq(wire, 1, k) /\ wire' = Rest(k)
    BY DEF ReadSocket
  <1>3. k \in 1 .. Len(wire) /\ k <= Need
    BY <1>1, <1>2 DEF Least
  <1>4. Reading /\ incoming = <<>> /\ incoming' = <<>>
    BY DEF ReadSocket, Base, PhaseInv
  <1> QED
    BY <1>1, <1>2, <1>3, <1>4

LEMMA SocketBase ==
    ASSUME Base, ReadSocket
    PROVE  Base'
  <1>1. PICK k \in 1 .. Len(wire) :
               /\ k <= Need /\ Len(wire) \in Nat
               /\ frame' = frame \o SubSeq(wire, 1, k) /\ wire' = Rest(k)
               /\ Reading /\ incoming = <<>> /\ incoming' = <<>>
    BY SocketFacts
  <1>0. k \in 0 .. Len(wire)
    BY <1>1
  <1>2. wire' \in Seq(Unit) /\ SubSeq(wire, 1, k) \in Seq(Unit) /\ Len(SubSeq(wire, 1, k)) = k
    BY <1>0, <1>1, RestFacts DEF Base
  <1>3. /\ frame' \in Seq(Unit) /\ Len(frame') = Len(frame) + k /\ Len(frame) \in Nat
        /\ Len(frame) >= 1 => frame'[1] = frame[1]
    BY <1>1, <1>2, LongerFacts DEF Base
  <1>4. Need \in Nat /\ size' \in 0 .. BufUnits
    BY <1>1, NeedFacts DEF Base, TypeOK, ReadSocket
  <1>5. Len(frame) <= Len(frame') /\ Len(frame') <= Len(frame) + Need
    BY <1>1, <1>3, <1>4
  <1>6. incoming' \in Seq(Unit) /\ Len(incoming') <= BufUnits
    BY <1>1, EmptySeq, ConstFacts
  <1>7. tries' \in {0, tries} /\ UNCHANGED <<link, usb, mux, call, left, device, past, faults>>
    BY DEF ReadSocket
  <1> QED
    BY <1>1, <1>2, <1>3, <1>4, <1>5, <1>6, <1>7, ReadsBase

LEMMA ReadEndsBase ==
    ASSUME Base, ReadEnds, call \in {"header", "payload"}, faults' \in 0 .. MaxFaults,
           phase \notin Handshake =>
               /\ incoming' \in Seq(Unit) /\ Len(incoming') <= BufUnits
               /\ link = "tcp" => incoming' = <<>>
               /\ size' \in 0 .. BufUnits /\ wire' \in Seq(Unit)
    PROVE  Base'
  <1>1. CASE phase \in Handshake
    BY <1>1, ClosesBase DEF ReadEnds
  <1>2. CASE phase \notin Handshake
    <2>1. Kinds /\ States /\ Data /\ Sizes /\ Flags
      BY TypeParts DEF Base
    <2>2. /\ call' = "idle" /\ frame' = <<>> /\ tries' = 0 /\ spoilt' = TRUE
          /\ UNCHANGED <<link, usb, mux, left, device, stale, taken, written, out, torn>>
      BY <1>2 DEF ReadEnds
    <2>3. phase = "ready" /\ left = <<>>
      BY <1>2 DEF Base, CallInv, Handshake
    <2>4. Kinds' /\ States' /\ Flags'
      BY <2>1, <2>2 DEF Kinds, States, Flags, usb, mux, device
    <2>5. Data'
      BY <1>2, <2>1, <2>2, EmptySeq DEF Data, mux, device
    <2>6. Len(frame') = 0
      BY <2>2
    <2>7. Sizes'
      BY <1>2, <2>1, <2>2, <2>6, ConstFacts DEF Sizes, mux
    <2>8. CallInv'
      BY <2>2, <2>3, ConstFacts DEF CallInv
    <2>9. PhaseInv'
      BY <1>2, <2>2, <2>3 DEF Base, PhaseInv, Handshake, usb, mux, device
    <2> QED
      BY <2>4, <2>5, <2>7, <2>8, <2>9, TypePartsNext DEF Base
  <1> QED
    BY <1>1, <1>2

LEMMA ReadFailsBase ==
    ASSUME Base, ReadFails
    PROVE  Base'
  <1>1. call \in {"header", "payload"} /\ incoming = <<>> /\ ReadEnds
    BY DEF ReadFails, Reading
  <1>2. faults' \in 0 .. MaxFaults
    BY FaultFacts DEF Base, ReadFails
  <1>3. ASSUME phase \notin Handshake
        PROVE  /\ incoming' \in Seq(Unit) /\ Len(incoming') <= BufUnits
               /\ link = "tcp" => incoming' = <<>>
               /\ size' \in 0 .. BufUnits /\ wire' \in Seq(Unit)
    <2>1. /\ wire \in Seq(Unit) /\ size \in 0 .. BufUnits /\ BufUnits \in Nat
          /\ Len(<<>>) = 0 /\ <<>> \in Seq(Unit)
      BY TypeFacts, ConstFacts, EmptySeq DEF Base, TypeOK
    <2>2. Len(wire) \in Nat
      BY TypeFacts DEF Base
    <2>3. ASSUME NEW k \in 0 .. Least(BufUnits, Len(wire))
          PROVE  Leftover(k) \in Seq(Unit) /\ Len(Leftover(k)) <= BufUnits /\ Rest(k) \in Seq(Unit)
      <3>0. k \in 0 .. Len(wire)
        BY <2>1, <2>2 DEF Least
      <3>1. BufUnits - size \in Nat
        BY <2>1
      <3>2. Zero \in Unit
        BY DEF Zero, Unit
      <3>3. \A i \in 1 .. (BufUnits - size) : size + i <= k => wire[size + i] \in Unit
        <4> SUFFICES ASSUME NEW i \in 1 .. (BufUnits - size), size + i <= k PROVE wire[size + i] \in Unit
          OBVIOUS
        <4>1. size + i \in 1 .. Len(wire)
          BY <2>1, <2>2, <3>0
        <4> QED
          BY <2>1, <4>1, ElementOfSeq
      <3>4. Leftover(k) \in [1 .. (BufUnits - size) -> Unit]
        BY <3>2, <3>3 DEF Leftover
      <3>5. Leftover(k) \in Seq(Unit) /\ Len(Leftover(k)) = BufUnits - size
        BY <3>1, <3>4, SeqDef, LenProperties
      <3>6. Rest(k) \in Seq(Unit)
        BY <3>0, RestFacts DEF Base
      <3> QED
        BY <2>1, <3>5, <3>6
    <2>4. CASE link = "tcp" /\ UNCHANGED input
      BY <1>1, <2>1, <2>4 DEF input
    <2>5. CASE /\ link = "usb" /\ UNCHANGED size
               /\ \E k \in 0 .. Least(BufUnits, Len(wire)) : incoming' = Leftover(k) /\ wire' = Rest(k)
      BY <2>1, <2>3, <2>5
    <2>6. CASE link = "usb" /\ size' = 0 /\ UNCHANGED <<incoming, wire>>
      BY <1>1, <2>1, <2>6
    <2> QED
      BY <1>3, <2>4, <2>5, <2>6 DEF ReadFails
  <1> QED
    BY <1>1, <1>2, <1>3, ReadEndsBase

\* The header, when it is complete.
LEMMA HeadFacts ==
    ASSUME Base, call = "header", Need = 0
    PROVE  /\ frame \in Seq(Unit) /\ Len(frame) = Header(version) /\ Header(version) \in 1 .. 2
           /\ 1 \in 1 .. Len(frame) /\ frame[1] \in Unit /\ frame[1].length \in Nat
  <1>1. frame \in Seq(Unit) /\ Len(frame) \in Nat /\ Header(version) \in 1 .. 2
    BY TypeFacts DEF Base
  <1>2. Len(frame) = Header(version)
    BY <1>1 DEF Need
  <1>3. 1 \in 1 .. Len(frame)
    BY <1>1, <1>2
  <1>4. frame[1] \in Unit
    BY <1>1, <1>3, ElementOfSeq
  <1> QED
    BY <1>1, <1>2, <1>3, <1>4 DEF Unit

LEMMA DecodeBase ==
    ASSUME Base, Decode
    PROVE  Base'
  <1>1. Kinds /\ States /\ Data /\ Sizes /\ Flags /\ TypeOK
    BY TypeParts DEF Base
  <1>2. call = "header" /\ Need = 0 /\ faults' = faults
    BY DEF Decode
  <1>3. /\ frame \in Seq(Unit) /\ Len(frame) = Header(version) /\ Header(version) \in 1 .. 2
        /\ 1 \in 1 .. Len(frame) /\ frame[1] \in Unit /\ frame[1].length \in Nat
    BY <1>2, HeadFacts
  <1>4. PICK length \in Lengths :
         IF length < Header(version) \/ length > BufUnits
           THEN ReadEnds /\ (phase \notin Handshake => UNCHANGED input)
           ELSE /\ frame' = [frame EXCEPT ![1].length = length]
                /\ call' = "payload" /\ tries' = 0
                /\ UNCHANGED <<link, usb, mux, left, input, device, past>>
    BY DEF Decode
  <1>5. length \in Nat
    <2>1. Lengths \subseteq Nat
      BY <1>3, ConstFacts DEF Lengths
    <2> QED
      BY <2>1
  <1>6. CASE length < Header(version) \/ length > BufUnits
    <2>1. ReadEnds /\ (phase \notin Handshake => UNCHANGED input)
      BY <1>4, <1>6
    <2>2. faults' \in 0 .. MaxFaults /\ incoming \in Seq(Unit) /\ Len(incoming) <= BufUnits
      BY <1>1, <1>2 DEF Data, Sizes, Flags
    <2>3. (link = "tcp" => incoming = <<>>) /\ size \in 0 .. BufUnits /\ wire \in Seq(Unit)
      BY <1>1 DEF Base, PhaseInv, Data, Sizes
    <2> QED
      BY <1>2, <2>1, <2>2, <2>3, ReadEndsBase DEF input
  <1>7. CASE ~(length < Header(version) \/ length > BufUnits)
    <2>1. /\ frame' = [frame EXCEPT ![1].length = length]
          /\ call' = "payload" /\ tries' = 0
          /\ UNCHANGED <<link, usb, mux, left, input, device, past>>
      BY <1>4, <1>7
    <2> DEFINE e == [frame[1] EXCEPT !.length = length]
    <2>2. e \in Unit /\ e.length = length
      BY <1>3, <1>5 DEF Unit
    <2>3. frame' = [frame EXCEPT ![1] = e]
      BY <2>1
    <2> HIDE DEF e
    <2>4. /\ frame' \in Seq(Unit) /\ Len(frame') = Len(frame) /\ frame'[1] = e
      BY <1>3, <2>2, <2>3, ExceptSeq
    <2>5. Kinds' /\ States' /\ Flags'
      BY <1>1, <1>2, <2>1 DEF Kinds, States, Flags, usb, mux, device, past
    <2>6. Data'
      BY <1>1, <2>1, <2>4 DEF Data, mux, input, device, past
    <2>7. Sizes'
      BY <1>1, <2>1, <2>4, ConstFacts DEF Sizes, mux, input
    <2>8. CallInv'
      <3>1. Header(version') = Header(version) /\ phase' = phase /\ left' = left
        BY <2>1 DEF mux, Header
      <3>2. frame'[1].length = length /\ Header(version) <= length /\ length <= BufUnits
        BY <1>3, <1>5, <1>7, <2>2, <2>4, ConstFacts
      <3>3. left = <<>> /\ phase \in {"answer", "ready"}
        BY <1>2 DEF Base, CallInv
      <3>4. Header(version) <= Len(frame') /\ Len(frame') <= frame'[1].length
        BY <1>3, <2>4, <3>2
      <3> QED
        BY <2>1, <3>1, <3>2, <3>3, <3>4, ConstFacts DEF CallInv
    <2>9. PhaseInv'
      BY <1>2, <2>1 DEF Base, PhaseInv, Handshake, usb, mux, input, device, past
    <2> QED
      BY <2>5, <2>6, <2>7, <2>8, <2>9, TypePartsNext DEF Base
  <1> QED
    BY <1>6, <1>7

\* The frame is complete.
LEMMA SkipBase ==
    ASSUME Base, Skip
    PROVE  Base'
  <1>1. Kinds /\ States /\ Data /\ Sizes /\ Flags
    BY TypeParts DEF Base
  <1>2. Kinds' /\ States' /\ Flags'
    BY <1>1 DEF Skip, Receives, Kinds, States, Flags, usb, device, past
  <1>3. Data'
    BY <1>1, EmptySeq DEF Skip, Receives, Data, input, device, past
  <1>4. Len(frame') = 0 /\ frame' = <<>> /\ attempt' \in 0 .. Attempts
    BY <1>1, ConstFacts DEF Skip, Receives, Sizes
  <1>5. Sizes'
    BY <1>1, <1>4, ConstFacts DEF Skip, Receives, Sizes, input
  <1>6. version' \in Nat
    BY <1>1 DEF Skip, States
  <1>7. Header(version') \in 1 .. 2
    BY <1>6, HeaderFacts
  <1>8. CallInv'
    BY <1>4, <1>7, ConstFacts DEF Skip, Receives, Base, CallInv
  <1>9. PhaseInv'
    BY DEF Skip, Receives, Base, PhaseInv, Handshake, usb, input, device, past
  <1> QED
    BY <1>2, <1>3, <1>5, <1>8, <1>9, TypePartsNext DEF Base

LEMMA ReceivedBase ==
    ASSUME Base, Received
    PROVE  Base'
  <1>1. Kinds /\ States /\ Data /\ Sizes /\ Flags
    BY TypeParts DEF Base
  <1>2. Kinds' /\ States' /\ Flags'
    BY <1>1 DEF Received, Kinds, States, Flags, usb, mux, device
  <1>3. Append(taken, frame) \in Seq(Seq(Unit))
    BY <1>1, AppendProperties DEF Data
  <1>4. Data'
    BY <1>1, <1>3, EmptySeq DEF Received, Data, mux, input, device
  <1>5. Len(frame') = 0 /\ frame' = <<>>
    BY DEF Received
  <1>6. Sizes'
    BY <1>1, <1>5, ConstFacts DEF Received, Sizes, mux, input
  <1>7. CallInv'
    BY <1>5, ConstFacts DEF Received, Base, CallInv
  <1>8. PhaseInv'
    BY DEF Received, Base, PhaseInv, Handshake, usb, mux, input, device
  <1> QED
    BY <1>2, <1>4, <1>6, <1>7, <1>8, TypePartsNext DEF Base

\* What the first frame is, once it is complete, is in the frame the device sent.
AnswerTold == call = "payload" /\ Need = 0 /\ phase = "answer" /\ IsAnswer => told = stale + 1

LEMMA SettlesBase ==
    ASSUME Base, Settles, phase = "answer", call = "payload", peer \in {1, 2}, told = stale + 1,
           faults' = faults
    PROVE  Base'
  <1>1. Kinds /\ States /\ Data /\ Sizes /\ Flags
    BY TypeParts DEF Base
  <1>2. /\ version' = IF link = "usb" THEN peer ELSE 0
        /\ phase' = IF peer = 2 THEN "setup" ELSE "ready"
        /\ tx_seq' = IF peer = 2 THEN 0 ELSE tx_seq
        /\ call' = "idle" /\ frame' = <<>> /\ tries' = 0
        /\ UNCHANGED <<link, usb, attempt, left, input, device, past>>
    BY DEF Settles
  <1>3. Kinds'
    BY <1>1, <1>2 DEF Kinds, usb
  <1>4. States'
    BY <1>1, <1>2 DEF States, Handshake, device
  <1>5. Data'
    BY <1>1, <1>2, EmptySeq DEF Data, input, device, past
  <1>6. Len(frame') = 0
    BY <1>2
  <1>7. Sizes'
    BY <1>1, <1>2, <1>6, ConstFacts DEF Sizes, input
  <1>8. Flags'
    BY <1>1, <1>2 DEF Flags, past
  <1>9. CallInv'
    BY <1>2, ConstFacts DEF Base, CallInv
  <1>10. PhaseInv'
    <2>1. ~spoilt /\ ~torn /\ taken = <<>> /\ (link = "tcp" => peer # 2 /\ incoming = <<>> /\ chosen = 0)
      BY DEF Base, PhaseInv, Handshake
    <2>2. told \in Nat /\ stale \in Nat /\ told >= stale + 1 /\ peer # 3 /\ peer \in 1 .. 3
      BY <1>1 DEF Data, States
    <2>3. /\ spoilt' = spoilt /\ torn' = torn /\ taken' = taken /\ link' = link /\ peer' = peer
          /\ incoming' = incoming /\ chosen' = chosen /\ told' = told /\ stale' = stale
      BY <1>2 DEF usb, input, device, past
    <2>4. phase' \in {"setup", "ready"} /\ (phase' = "setup" => peer = 2)
      BY <1>2
    <2>5. phase' = "setup" => version' = 2
      BY <1>1, <1>2, <2>1, <2>4, TransportsAssumption DEF Kinds
    <2> QED
      BY <1>2, <2>1, <2>2, <2>3, <2>4, <2>5 DEF PhaseInv, Handshake
  <1> QED
    BY <1>3, <1>4, <1>5, <1>7, <1>8, <1>9, <1>10, TypePartsNext DEF Base

LEMMA AnsweredBase ==
    ASSUME Base, Answered, AnswerTold
    PROVE  Base'
  <1>1. faults' = faults /\ faults' \in 0 .. MaxFaults
    BY FaultFacts DEF Base, Answered
  <1>2. CASE IsAnswer /\ peer \in {1, 2}
    BY <1>1, <1>2, SettlesBase DEF Answered, AnswerTold
  <1>3. CASE ~(IsAnswer /\ peer \in {1, 2})
    BY <1>1, <1>3, ClosesBase DEF Answered
  <1> QED
    BY <1>2, <1>3

\* The device, and what is plugged in.
LEMMA TellsBase ==
    ASSUME Base, NEW proto \in {"answer", "tcp"}, NEW length \in Nat \ {0}, Tells(proto, length),
           \/ phase = "ready"
           \/ phase = "answer" /\ told = stale
    PROVE  Base'
  <1>1. Kinds /\ States /\ Data /\ Sizes /\ Flags /\ TypeOK
    BY TypeParts DEF Base
  <1>2. Kinds' /\ States' /\ Sizes' /\ Flags'
    BY <1>1 DEF Tells, Kinds, States, Sizes, Flags, usb, mux, past
  <1>3. told + 1 \in Nat /\ proto \in Protos
    BY <1>1 DEF Data, Protos
  <1>4. Units(told + 1, proto, length) \in Seq(Unit)
    BY <1>3, UnitsFacts
  <1>5. wire \o Units(told + 1, proto, length) \in Seq(Unit)
    BY <1>1, <1>4, ConcatProperties DEF Data
  <1>6. Data'
    BY <1>1, <1>3, <1>5 DEF Tells, Data, mux, past
  <1>7. CallInv'
    BY DEF Tells, Base, CallInv, Header, mux
  <1>8. PhaseInv'
    <2>1. told \in Nat /\ stale \in Nat /\ told' = told + 1
      BY <1>1 DEF Tells, Data
    <2>2. phase' = phase /\ stale' = stale /\ phase \in {"answer", "ready"}
      BY DEF Tells, mux, past
    <2>3. phase = "answer" => told' \in {stale', stale' + 1}
      BY <2>1, <2>2
    <2>4. phase = "ready" => told' >= stale' + 1
      BY <2>1, <2>2 DEF Base, PhaseInv
    <2> QED
      BY <2>2, <2>3, <2>4 DEF Tells, Base, PhaseInv, Handshake, usb, mux, past
  <1> QED
    BY <1>2, <1>6, <1>7, <1>8, TypePartsNext DEF Base

LEMMA DeviceBase ==
    ASSUME Base, DeviceAnswers \/ DeviceSends \/ Plug
    PROVE  Base'
  <1>1. CASE DeviceAnswers
    <2>1. 3 \in Nat \ {0}
      OBVIOUS
    <2> QED
      BY <1>1, <2>1, TellsBase DEF DeviceAnswers
  <1>2. CASE DeviceSends
    <2>1. PICK n \in 0 .. 1 : Tells("tcp", Header(version) + n)
      BY <1>2 DEF DeviceSends
    <2>2. Header(version) \in 1 .. 2
      BY TypeFacts DEF Base
    <2>3. Header(version) + n \in Nat \ {0}
      BY <2>2
    <2> QED
      BY <1>2, <2>1, <2>3, TellsBase DEF DeviceSends
  <1>3. CASE Plug
    <2>1. Kinds /\ States /\ Data /\ Sizes /\ Flags
      BY TypeParts DEF Base
    <2>2. bus' \in Seq(UsbDevice)
      BY <1>3, TransportsAssumption DEF Plug, Pluggable
    <2>3. Len(bus') \in Nat /\ chosen' = 0
      BY <1>3, <2>2, LenProperties DEF Plug, Base, PhaseInv
    <2>4. Kinds'
      BY <1>3, <2>1, <2>2, <2>3 DEF Plug, Kinds
    <2>5. States' /\ Data' /\ Sizes' /\ Flags'
      BY <1>3, <2>1 DEF Plug, States, Data, Sizes, Flags, mux, input, device, past
    <2>6. CallInv'
      BY <1>3 DEF Plug, Base, CallInv, Header, mux, input, device, past
    <2>7. PhaseInv'
      BY <1>3 DEF Plug, Base, PhaseInv, Handshake, mux, input, device, past
    <2> QED
      BY <2>4, <2>5, <2>6, <2>7, TypePartsNext DEF Base
  <1> QED
    BY <1>1, <1>2, <1>3

LEMMA NextBase ==
    ASSUME Base, AnswerTold, [Next]_vars
    PROVE  Base'
  <1>1. CASE Opening
    BY <1>1, OpensBase
  <1>2. CASE Runs \/ (phase = "ready" /\ (Send \/ Receive))
    <2>1. CASE \E k \in 1 .. Len(left) : Moves(k)
      BY <2>1, MovesBase
    <2>2. CASE Retry \/ WriteFails \/ Send \/ Receive
      BY <2>2, RetryBase, WriteFailsBase, SendBase, ReceiveBase
    <2>3. CASE ReadBuffered \/ ReadTransfer \/ ReadSocket \/ ReadFails \/ Decode
      BY <2>3, BufferedBase, TransferBase, SocketBase, ReadFailsBase, DecodeBase
    <2>4. CASE Skip \/ Answered \/ Received
      BY <2>4, SkipBase, AnsweredBase, ReceivedBase
    <2> QED
      BY <1>2, <2>1, <2>2, <2>3, <2>4 DEF Runs
  <1>3. CASE Close
    BY <1>3, ClosesBase, FaultFacts DEF Close, Base
  <1>4. CASE DeviceAnswers \/ DeviceSends \/ Plug
    BY <1>4, DeviceBase
  <1>5. CASE UNCHANGED vars
    <2>1. TypeOK' /\ CallInv' /\ PhaseInv'
      BY <1>5 DEF vars, usb, mux, input, device, past, Base, TypeOK, CallInv, PhaseInv, Header
    <2> QED
      BY <2>1 DEF Base
  <1> QED
    BY <1>1, <1>2, <1>3, <1>4, <1>5 DEF Next
-----------------------------------------------------------------------------
(* The frames of the device.                                               *)

\* What comes behind the first part of a sequence is the second.
LEMMA Joined ==
    ASSUME NEW S, NEW p \in Seq(S), NEW q \in Seq(S)
    PROVE  /\ p \o q \in Seq(S) /\ Len(p \o q) = Len(p) + Len(q) /\ Len(p) \in Nat /\ Len(q) \in Nat
           /\ \A i \in 1 .. Len(p) : (p \o q)[i] = p[i]
           /\ \A i \in 1 .. Len(q) : (p \o q)[Len(p) + i] = q[i]
           /\ SubSeq(p \o q, Len(p) + 1, Len(p \o q)) = q
  <1> DEFINE w == p \o q
             m == Len(p)
             r == SubSeq(w, m + 1, Len(w))
  <1>1. m \in Nat /\ Len(q) \in Nat
    BY LenProperties
  <1>2. /\ w \in Seq(S) /\ Len(w) = m + Len(q)
        /\ \A i \in 1 .. m + Len(q) : w[i] = IF i <= m THEN p[i] ELSE q[i - m]
    BY ConcatProperties
  <1> HIDE DEF w, m
  <1>3. m <= Len(w)
    BY <1>1, <1>2
  <1>4. \A i \in 1 .. m : w[i] = p[i]
    BY <1>1, <1>2
  <1>5. \A i \in 1 .. Len(q) : w[m + i] = q[i]
    <2> TAKE i \in 1 .. Len(q)
    <2>1. m + i \in 1 .. m + Len(q) /\ ~(m + i <= m) /\ (m + i) - m = i
      BY <1>1
    <2> QED
      BY <1>2, <2>1
  <1>6. /\ r \in Seq(S) /\ Len(r) = Len(w) - m
        /\ \A i \in 1 .. (Len(w) - m) : r[i] = w[m + i]
    BY <1>1, <1>2, <1>3, CutFacts
  <1> HIDE DEF r
  <1>7. Len(r) = Len(q) /\ \A i \in 1 .. Len(r) : r[i] = q[i]
    BY <1>1, <1>2, <1>5, <1>6
  <1>8. r = q
    BY <1>6, <1>7, SeqEqual
  <1> QED
    BY <1>1, <1>2, <1>4, <1>5, <1>8 DEF w, m, r

\* The first frame of those that come, and what comes behind it.
LEMMA HeadFrame ==
    ASSUME NEW q \in Seq(Unit), Len(q) >= 1, NEW n \in Nat, NEW last \in Nat, NEW old \in Nat,
           NEW least \in Nat, Comes(q, n, last, old, least)
    PROVE  \E length \in 1 .. 3 :
               /\ q[1].length = length /\ q[1].index = 1 /\ q[1].proto = Proto(n, old)
               /\ n > old + 1 => length >= least
               /\ n <= last /\ length <= Len(q)
               /\ \A i \in 1 .. length : /\ q[i].frame = n /\ q[i].index = i
                                         /\ q[i].length = length /\ q[i].proto = Proto(n, old)
               /\ Comes(SubSeq(q, length + 1, Len(q)), n + 1, last, old, least)
  <1> DEFINE length == q[1].length
             m      == Len(q)
             e      == SubSeq(q, length + 1, m)
  <1>1. m \in Nat /\ 1 \in 1 .. m
    BY LenProperties
  <1>2. /\ \A i \in 1 .. m : Proper(q[i], last, old, least)
        /\ \A i \in 1 .. m - 1 : Follows(q[i], q[i + 1])
        /\ q[1].frame = n /\ q[1].index = 1
        /\ q[m].frame = last /\ q[m].index = q[m].length
    BY <1>1 DEF Comes
  <1>3. /\ length \in 1 .. 3 /\ n <= last /\ q[1].proto = Proto(n, old)
        /\ n > old + 1 => length >= least
    BY <1>1, <1>2 DEF Proper
  <1> HIDE DEF length, m, e
  <1>4. ASSUME length >= 2
        PROVE  m >= 2 /\ q[2].frame = n /\ q[2].index = 2 /\ q[2].length = length
    <2>1. m # 1
      BY <1>2, <1>4 DEF length
    <2>2. m >= 2 /\ 1 \in 1 .. m - 1 /\ 1 + 1 = 2
      BY <1>1, <2>1
    <2>3. Follows(q[1], q[2])
      BY <1>2, <2>2
    <2>4. q[1].length = length /\ 1 < length
      BY <1>3, <1>4 DEF length
    <2> QED
      BY <1>2, <2>2, <2>3, <2>4 DEF Follows
  <1>5. ASSUME length = 3
        PROVE  m >= 3 /\ q[3].frame = n /\ q[3].index = 3 /\ q[3].length = length
    <2>1. m >= 2 /\ q[2].frame = n /\ q[2].index = 2 /\ q[2].length = 3
      BY <1>4, <1>5
    <2>2. m # 2
      BY <1>2, <2>1
    <2>3. m >= 3 /\ 2 \in 1 .. m - 1 /\ 2 + 1 = 3
      BY <1>1, <2>1, <2>2
    <2>4. Follows(q[2], q[3])
      BY <1>2, <2>3
    <2> QED
      BY <1>5, <2>1, <2>3, <2>4 DEF Follows
  <1>6. length <= m
    BY <1>1, <1>3, <1>4, <1>5
  <1>7. ASSUME NEW i \in 1 .. length
        PROVE  q[i].frame = n /\ q[i].index = i /\ q[i].length = length /\ q[i].proto = Proto(n, old)
    <2>1. q[i].frame = n /\ q[i].index = i /\ q[i].length = length
      <3>1. CASE i = 1
        BY <1>2, <3>1 DEF length
      <3>2. CASE i = 2
        BY <1>3, <1>4, <3>2
      <3>3. CASE i = 3
        BY <1>3, <1>5, <3>3
      <3> QED
        BY <1>3, <3>1, <3>2, <3>3
    <2>2. i \in 1 .. m
      BY <1>1, <1>3, <1>6
    <2>3. q[i].proto = Proto(q[i].frame, old)
      BY <1>2, <2>2 DEF Proper
    <2> QED
      BY <2>1, <2>3
  <1>8. Comes(e, n + 1, last, old, least)
    <2>1. length \in Nat /\ length <= Len(q) /\ m = Len(q)
      BY <1>3, <1>6 DEF m
    <2>2. /\ e \in Seq(Unit) /\ Len(e) = m - length
          /\ \A i \in 1 .. m - length : e[i] = q[length + i]
      BY <2>1, CutFacts DEF e
    <2>3. \A i \in 1 .. Len(e) : Proper(e[i], last, old, least)
      <3> TAKE i \in 1 .. Len(e)
      <3>1. i \in 1 .. m - length /\ length + i \in 1 .. m
        BY <1>1, <2>1, <2>2
      <3> QED
        BY <1>2, <2>2, <3>1
    <2>4. \A i \in 1 .. Len(e) - 1 : Follows(e[i], e[i + 1])
      <3> TAKE i \in 1 .. Len(e) - 1
      <3>1. /\ i \in 1 .. m - length /\ i + 1 \in 1 .. m - length
            /\ length + i \in 1 .. m - 1 /\ length + (i + 1) = (length + i) + 1
        BY <1>1, <2>1, <2>2
      <3>2. e[i] = q[length + i] /\ e[i + 1] = q[(length + i) + 1]
        BY <2>2, <3>1
      <3>3. Follows(q[length + i], q[(length + i) + 1])
        BY <1>2, <3>1
      <3> QED
        BY <3>2, <3>3
    <2>5. q[length].frame = n /\ q[length].index = length /\ q[length].length = length
      BY <1>3, <1>7
    <2>6. CASE m = length
      <3>1. last = n /\ Len(e) = 0
        BY <1>1, <1>2, <2>2, <2>5, <2>6
      <3> QED
        BY <2>3, <2>4, <3>1 DEF Comes
    <2>7. CASE m # length
      <3>1. /\ Len(e) # 0 /\ 1 \in 1 .. m - length /\ m - length \in 1 .. m - length
            /\ length \in 1 .. m - 1 /\ length + (m - length) = m
        BY <1>1, <1>3, <1>6, <2>2, <2>7
      <3>2. e[1] = q[length + 1] /\ e[Len(e)] = q[m]
        BY <2>2, <3>1
      <3>3. Follows(q[length], q[length + 1])
        BY <1>2, <3>1
      <3>4. e[1].frame = n + 1 /\ e[1].index = 1
        BY <2>1, <2>5, <3>2, <3>3 DEF Follows
      <3> QED
        BY <1>2, <2>3, <2>4, <3>1, <3>2, <3>4 DEF Comes
    <2> QED
      BY <2>6, <2>7
  <1> QED
    BY <1>2, <1>3, <1>6, <1>7, <1>8 DEF length, m, e

\* The device sends one more frame.
LEMMA ComesMore ==
    ASSUME NEW q \in Seq(Unit), NEW n \in Nat, NEW last \in Nat, NEW old \in Nat, NEW least \in Nat,
           NEW length \in 1 .. 3, last + 1 > old + 1 => length >= least,
           Comes(q, n, last, old, least)
    PROVE  Comes(q \o Units(last + 1, Proto(last + 1, old), length), n, last + 1, old, least)
  <1> DEFINE p == Proto(last + 1, old)
             k == last + 1
             u == Units(k, p, length)
             w == q \o u
             m == Len(q)
  <1>1. k \in Nat /\ p \in Protos /\ length \in Nat \ {0}
    BY DEF Proto, Protos
  <1> HIDE DEF p, k
  <1>2. u \in Seq(Unit) /\ Len(u) = length
    BY <1>1, UnitsFacts
  <1>3. \A i \in 1 .. length : /\ u[i].frame = last + 1 /\ u[i].index = i /\ u[i].length = length
                               /\ u[i].proto = Proto(last + 1, old)
    <2>1. \A i \in 1 .. length : /\ u[i].frame = k /\ u[i].index = i /\ u[i].length = length
                                 /\ u[i].proto = p
      BY <1>1, UnitsFacts
    <2> QED
      BY <2>1 DEF k, p
  <1> HIDE DEF u
  <1>4. /\ w \in Seq(Unit) /\ Len(w) = m + length /\ m \in Nat
        /\ \A i \in 1 .. m : w[i] = q[i]
        /\ \A i \in 1 .. length : w[m + i] = u[i]
    BY <1>2, Joined
  <1>5. /\ \A i \in 1 .. m : Proper(q[i], last, old, least)
        /\ \A i \in 1 .. m - 1 : Follows(q[i], q[i + 1])
        /\ IF m = 0 THEN n = last + 1
           ELSE /\ q[1].frame = n /\ q[1].index = 1
                /\ q[m].frame = last /\ q[m].index = q[m].length
    BY DEF Comes
  <1>6. \A i \in 1 .. m : q[i] \in Unit
    BY ElementOfSeq
  <1> HIDE DEF w, m
  <1>7. \A i \in 1 .. Len(w) : Proper(w[i], last + 1, old, least)
    <2> TAKE i \in 1 .. Len(w)
    <2>1. CASE i \in 1 .. m
      <3>1. q[i].frame \in Nat /\ w[i] = q[i] /\ Proper(q[i], last, old, least)
        BY <1>4, <1>5, <1>6, <2>1 DEF Unit
      <3>2. q[i].frame <= last => q[i].frame <= last + 1
        BY <3>1
      <3> QED
        BY <3>1, <3>2 DEF Proper
    <2>2. CASE i \notin 1 .. m
      <3>1. i - m \in 1 .. length /\ i = m + (i - m)
        BY <1>1, <1>4, <2>2
      <3>2. w[i] = u[i - m]
        BY <1>4, <3>1
      <3>3. /\ u[i - m].frame = last + 1 /\ u[i - m].index = i - m /\ u[i - m].length = length
            /\ u[i - m].proto = Proto(last + 1, old)
        BY <1>3, <3>1
      <3>4. last + 1 <= last + 1
        BY <1>1
      <3> QED
        BY <3>1, <3>2, <3>3, <3>4 DEF Proper
    <2> QED
      BY <2>1, <2>2
  <1>8. \A i \in 1 .. Len(w) - 1 : Follows(w[i], w[i + 1])
    <2> TAKE i \in 1 .. Len(w) - 1
    <2>1. CASE i < m
      <3>1. i \in 1 .. m /\ i + 1 \in 1 .. m /\ i \in 1 .. m - 1
        BY <1>4, <2>1
      <3> QED
        BY <1>4, <1>5, <3>1
    <2>2. CASE i = m
      <3>1. i \in 1 .. m /\ m # 0 /\ 1 \in 1 .. length /\ m + 1 = i + 1
        BY <1>1, <1>4, <2>2
      <3>2. w[i] = q[m] /\ w[i + 1] = u[1]
        BY <1>4, <2>2, <3>1
      <3>3. q[m].frame = last /\ q[m].index = q[m].length /\ q[m].length \in 1 .. 3
        BY <1>5, <2>2, <3>1 DEF Proper
      <3>4. ~(q[m].index < q[m].length)
        BY <3>3
      <3> QED
        BY <1>3, <3>1, <3>2, <3>3, <3>4 DEF Follows
    <2>3. CASE i > m
      <3>1. /\ i - m \in 1 .. length /\ i = m + (i - m) /\ (i - m) + 1 \in 1 .. length
            /\ i + 1 = m + ((i - m) + 1) /\ i - m < length
        <4>1. Len(w) = m + length /\ m \in Nat /\ length \in Nat
          BY <1>1, <1>4
        <4> QED
          BY ONLY <2>3, <4>1, i \in 1 .. Len(w) - 1
      <3>2. w[m + (i - m)] = u[i - m] /\ w[m + ((i - m) + 1)] = u[(i - m) + 1]
        BY <1>4, <3>1
      <3> QED
        BY <1>3, <3>1, <3>2 DEF Follows
    <2> QED
      BY <1>4, <2>1, <2>2, <2>3
  <1>9. /\ Len(w) # 0 /\ w[1].frame = n /\ w[1].index = 1
        /\ w[Len(w)].frame = last + 1 /\ w[Len(w)].index = w[Len(w)].length
    <2>1. Len(w) # 0 /\ length \in 1 .. length /\ 1 \in 1 .. length
      BY <1>1, <1>4
    <2>2. w[Len(w)] = u[length]
      BY <1>4, <2>1
    <2>3. w[1].frame = n /\ w[1].index = 1
      <3>1. CASE m = 0
        <4>1. w[1] = u[1]
          BY <1>4, <2>1, <3>1
        <4> QED
          BY <1>3, <1>5, <2>1, <3>1, <4>1
      <3>2. CASE m # 0
        <4>1. 1 \in 1 .. m
          BY <1>4, <3>2
        <4> QED
          BY <1>4, <1>5, <3>2, <4>1
      <3> QED
        BY <3>1, <3>2
    <2> QED
      BY <1>3, <2>1, <2>2, <2>3
  <1>10. Comes(w, n, last + 1, old, least)
    BY <1>7, <1>8, <1>9 DEF Comes
  <1> QED
    BY <1>10 DEF w, u, k, p

\* How long the frames behind the answer are does not matter to those up to it.
LEMMA ComesAny ==
    ASSUME NEW q \in Seq(Unit), NEW n \in Nat, NEW last \in Nat, NEW old \in Nat,
           NEW least, NEW other, last <= old + 1, Comes(q, n, last, old, least)
    PROVE  Comes(q, n, last, old, other)
  <1>1. \A i \in 1 .. Len(q) : Proper(q[i], last, old, other)
    <2> TAKE i \in 1 .. Len(q)
    <2>1. Proper(q[i], last, old, least)
      BY DEF Comes
    <2>2. q[i].frame \in Nat
      <3>1. q[i] \in Unit
        BY ElementOfSeq
      <3> QED
        BY <3>1 DEF Unit
    <2>3. ~(q[i].frame > old + 1)
      BY <2>1, <2>2 DEF Proper
    <2> QED
      BY <2>1, <2>3 DEF Proper
  <1> QED
    BY <1>1 DEF Comes

\* Where a unit is in frames of two units, and of three.
LEMMA Halves ==
    ASSUME NEW n \in Nat, NEW i \in 1 .. 2 * n
    PROVE  /\ ((i - 1) \div 2) + 1 \in Nat /\ ((i - 1) \div 2) + 1 <= n
           /\ ((i - 1) % 2) + 1 \in 1 .. 2
           /\ 2 * ((((i - 1) \div 2) + 1) - 1) + (((i - 1) % 2) + 1) = i
  <1>1. i - 1 \in Nat
    OBVIOUS
  <1>2. /\ (i - 1) \div 2 \in Nat /\ (i - 1) % 2 \in 0 .. 1
        /\ 2 * ((i - 1) \div 2) + ((i - 1) % 2) = i - 1
    BY <1>1
  <1> QED
    BY <1>1, <1>2

LEMMA Thirds ==
    ASSUME NEW n \in Nat, NEW i \in 1 .. 3 * n
    PROVE  /\ ((i - 1) \div 3) + 1 \in Nat /\ ((i - 1) \div 3) + 1 <= n
           /\ ((i - 1) % 3) + 1 \in 1 .. 3
           /\ 3 * ((((i - 1) \div 3) + 1) - 1) + (((i - 1) % 3) + 1) = i
  <1>1. i - 1 \in Nat
    OBVIOUS
  <1>2. /\ (i - 1) \div 3 \in Nat /\ (i - 1) % 3 \in 0 .. 2
        /\ 3 * ((i - 1) \div 3) + ((i - 1) % 3) = i - 1
    BY <1>1
  <1> QED
    BY <1>1, <1>2

LEMMA HalvesEnd ==
    ASSUME NEW f \in Nat, NEW k \in 1 .. 2, NEW n \in Nat
    PROVE  /\ 2 * (f - 1) + k = 2 * n => f = n /\ k = 2
           /\ 2 * (f - 1) + k = 1 => f = 1 /\ k = 1
  OBVIOUS

LEMMA ThirdsEnd ==
    ASSUME NEW f \in Nat, NEW k \in 1 .. 3, NEW n \in Nat
    PROVE  /\ 3 * (f - 1) + k = 3 * n => f = n /\ k = 3
           /\ 3 * (f - 1) + k = 1 => f = 1 /\ k = 1
  OBVIOUS

LEMMA HalvesStep ==
    ASSUME NEW i \in Nat, NEW f \in Nat, NEW k \in 1 .. 2, NEW g \in Nat, NEW l \in 1 .. 2,
           2 * (f - 1) + k = i, 2 * (g - 1) + l = i + 1
    PROVE  IF k < 2 THEN g = f /\ l = k + 1 ELSE g = f + 1 /\ l = 1
  OBVIOUS

LEMMA ThirdsStep ==
    ASSUME NEW i \in Nat, NEW f \in Nat, NEW k \in 1 .. 3, NEW g \in Nat, NEW l \in 1 .. 3,
           3 * (f - 1) + k = i, 3 * (g - 1) + l = i + 1
    PROVE  IF k < 3 THEN g = f /\ l = k + 1 ELSE g = f + 1 /\ l = 1
  OBVIOUS

\* What was left over from the run before is of the frames up to n.
LEMMA ComesStale ==
    ASSUME NEW n \in Nat, NEW length \in 2 .. 3
    PROVE  Comes(Stale(n, length), 1, n, n, 1)
  <1> DEFINE q == Stale(n, length)
             m == n * length
  <1>1. /\ Len(q) = m /\ m \in Nat
        /\ \A i \in 1 .. m : /\ q[i].frame = ((i - 1) \div length) + 1
                             /\ q[i].index = ((i - 1) % length) + 1
                             /\ q[i].length = length /\ q[i].proto = "tcp"
    BY StaleFacts
  <1>2. CASE length = 2
    <2>1. m = 2 * n
      BY <1>2
    <2> HIDE DEF q, m
    <2>2. ASSUME NEW i \in 1 .. m
          PROVE  /\ q[i].frame \in Nat /\ q[i].frame <= n
                 /\ q[i].index \in 1 .. 2 /\ q[i].length = 2 /\ q[i].proto = "tcp"
                 /\ 2 * (q[i].frame - 1) + q[i].index = i
      <3>1. i \in 1 .. 2 * n
        BY <2>1
      <3>2. /\ q[i].frame = ((i - 1) \div 2) + 1 /\ q[i].index = ((i - 1) % 2) + 1
            /\ q[i].length = 2 /\ q[i].proto = "tcp"
        BY <1>1, <1>2
      <3>3. /\ q[i].frame \in Nat /\ q[i].frame <= n
            /\ q[i].index \in 1 .. 2 /\ 2 * (q[i].frame - 1) + q[i].index = i
        BY ONLY <3>1, <3>2, n \in Nat, Halves
      <3> QED
        BY <3>2, <3>3
    <2>3. \A i \in 1 .. m : Proper(q[i], n, n, 1)
      <3> TAKE i \in 1 .. m
      <3>1. /\ q[i].frame \in Nat /\ q[i].frame <= n
            /\ q[i].index \in 1 .. 2 /\ q[i].length = 2 /\ q[i].proto = "tcp"
        BY <2>2
      <3>2. q[i].frame # n + 1 /\ ~(q[i].frame > n + 1)
        BY <3>1
      <3> QED
        BY <3>1, <3>2 DEF Proper, Proto
    <2>4. \A i \in 1 .. m - 1 : Follows(q[i], q[i + 1])
      <3> TAKE i \in 1 .. m - 1
      <3>0. i \in 1 .. m /\ i + 1 \in 1 .. m
        BY <1>1
      <3>1. /\ q[i].frame \in Nat /\ q[i].index \in 1 .. 2 /\ q[i].length = 2
            /\ 2 * (q[i].frame - 1) + q[i].index = i
        BY <2>2, <3>0
      <3>2. /\ q[i + 1].frame \in Nat /\ q[i + 1].index \in 1 .. 2 /\ q[i + 1].length = 2
            /\ 2 * (q[i + 1].frame - 1) + q[i + 1].index = i + 1
        BY <2>2, <3>0
      <3>3. i \in Nat
        OBVIOUS
      <3>4. IF q[i].index < 2 THEN q[i + 1].frame = q[i].frame /\ q[i + 1].index = q[i].index + 1
            ELSE q[i + 1].frame = q[i].frame + 1 /\ q[i + 1].index = 1
        <4> DEFINE f == q[i].frame
                   k == q[i].index
                   g == q[i + 1].frame
                   l == q[i + 1].index
        <4>1. f \in Nat /\ k \in 1 .. 2 /\ g \in Nat /\ l \in 1 .. 2
          BY <3>1, <3>2
        <4>2. 2 * (f - 1) + k = i /\ 2 * (g - 1) + l = i + 1
          BY <3>1, <3>2
        <4> HIDE DEF f, k, g, l
        <4>3. IF k < 2 THEN g = f /\ l = k + 1 ELSE g = f + 1 /\ l = 1
          BY ONLY <3>3, <4>1, <4>2, HalvesStep
        <4> QED
          BY ONLY <4>3 DEF f, k, g, l
      <3> QED
        BY <3>1, <3>2, <3>4 DEF Follows
    <2>5. m # 0 => /\ q[1].frame = 1 /\ q[1].index = 1
                   /\ q[m].frame = n /\ q[m].index = q[m].length
      <3> SUFFICES ASSUME m # 0
                   PROVE  /\ q[1].frame = 1 /\ q[1].index = 1
                          /\ q[m].frame = n /\ q[m].index = q[m].length
        OBVIOUS
      <3>0. 1 \in 1 .. m /\ m \in 1 .. m
        BY <1>1
      <3>1. /\ q[1].frame \in Nat /\ q[1].index \in 1 .. 2
            /\ 2 * (q[1].frame - 1) + q[1].index = 1
        BY <2>2, <3>0
      <3>2. /\ q[m].frame \in Nat /\ q[m].index \in 1 .. 2 /\ q[m].length = 2
            /\ 2 * (q[m].frame - 1) + q[m].index = 2 * n
        BY <2>1, <2>2, <3>0
      <3>3. q[1].frame = 1 /\ q[1].index = 1
        BY ONLY <3>1, n \in Nat, HalvesEnd
      <3>4. q[m].frame = n /\ q[m].index = 2
        BY ONLY <3>2, n \in Nat, HalvesEnd
      <3> QED
        BY <3>2, <3>3, <3>4
    <2>6. m = 0 => 1 = n + 1
      BY <2>1
    <2> QED
      BY <1>1, <2>3, <2>4, <2>5, <2>6 DEF Comes, q
  <1>3. CASE length = 3
    <2>1. m = 3 * n
      BY <1>3
    <2> HIDE DEF q, m
    <2>2. ASSUME NEW i \in 1 .. m
          PROVE  /\ q[i].frame \in Nat /\ q[i].frame <= n
                 /\ q[i].index \in 1 .. 3 /\ q[i].length = 3 /\ q[i].proto = "tcp"
                 /\ 3 * (q[i].frame - 1) + q[i].index = i
      <3>1. i \in 1 .. 3 * n
        BY <2>1
      <3>2. /\ q[i].frame = ((i - 1) \div 3) + 1 /\ q[i].index = ((i - 1) % 3) + 1
            /\ q[i].length = 3 /\ q[i].proto = "tcp"
        BY <1>1, <1>3
      <3>3. /\ q[i].frame \in Nat /\ q[i].frame <= n
            /\ q[i].index \in 1 .. 3 /\ 3 * (q[i].frame - 1) + q[i].index = i
        BY ONLY <3>1, <3>2, n \in Nat, Thirds
      <3> QED
        BY <3>2, <3>3
    <2>3. \A i \in 1 .. m : Proper(q[i], n, n, 1)
      <3> TAKE i \in 1 .. m
      <3>1. /\ q[i].frame \in Nat /\ q[i].frame <= n
            /\ q[i].index \in 1 .. 3 /\ q[i].length = 3 /\ q[i].proto = "tcp"
        BY <2>2
      <3>2. q[i].frame # n + 1 /\ ~(q[i].frame > n + 1)
        BY <3>1
      <3> QED
        BY <3>1, <3>2 DEF Proper, Proto
    <2>4. \A i \in 1 .. m - 1 : Follows(q[i], q[i + 1])
      <3> TAKE i \in 1 .. m - 1
      <3>0. i \in 1 .. m /\ i + 1 \in 1 .. m
        BY <1>1
      <3>1. /\ q[i].frame \in Nat /\ q[i].index \in 1 .. 3 /\ q[i].length = 3
            /\ 3 * (q[i].frame - 1) + q[i].index = i
        BY <2>2, <3>0
      <3>2. /\ q[i + 1].frame \in Nat /\ q[i + 1].index \in 1 .. 3 /\ q[i + 1].length = 3
            /\ 3 * (q[i + 1].frame - 1) + q[i + 1].index = i + 1
        BY <2>2, <3>0
      <3>3. i \in Nat
        OBVIOUS
      <3>4. IF q[i].index < 3 THEN q[i + 1].frame = q[i].frame /\ q[i + 1].index = q[i].index + 1
            ELSE q[i + 1].frame = q[i].frame + 1 /\ q[i + 1].index = 1
        <4> DEFINE f == q[i].frame
                   k == q[i].index
                   g == q[i + 1].frame
                   l == q[i + 1].index
        <4>1. f \in Nat /\ k \in 1 .. 3 /\ g \in Nat /\ l \in 1 .. 3
          BY <3>1, <3>2
        <4>2. 3 * (f - 1) + k = i /\ 3 * (g - 1) + l = i + 1
          BY <3>1, <3>2
        <4> HIDE DEF f, k, g, l
        <4>3. IF k < 3 THEN g = f /\ l = k + 1 ELSE g = f + 1 /\ l = 1
          BY ONLY <3>3, <4>1, <4>2, ThirdsStep
        <4> QED
          BY ONLY <4>3 DEF f, k, g, l
      <3> QED
        BY <3>1, <3>2, <3>4 DEF Follows
    <2>5. m # 0 => /\ q[1].frame = 1 /\ q[1].index = 1
                   /\ q[m].frame = n /\ q[m].index = q[m].length
      <3> SUFFICES ASSUME m # 0
                   PROVE  /\ q[1].frame = 1 /\ q[1].index = 1
                          /\ q[m].frame = n /\ q[m].index = q[m].length
        OBVIOUS
      <3>0. 1 \in 1 .. m /\ m \in 1 .. m
        BY <1>1
      <3>1. /\ q[1].frame \in Nat /\ q[1].index \in 1 .. 3
            /\ 3 * (q[1].frame - 1) + q[1].index = 1
        BY <2>2, <3>0
      <3>2. /\ q[m].frame \in Nat /\ q[m].index \in 1 .. 3 /\ q[m].length = 3
            /\ 3 * (q[m].frame - 1) + q[m].index = 3 * n
        BY <2>1, <2>2, <3>0
      <3>3. q[1].frame = 1 /\ q[1].index = 1
        BY ONLY <3>1, n \in Nat, ThirdsEnd
      <3>4. q[m].frame = n /\ q[m].index = 3
        BY ONLY <3>2, n \in Nat, ThirdsEnd
      <3> QED
        BY <3>2, <3>3, <3>4
    <2>6. m = 0 => 1 = n + 1
      BY <2>1
    <2> QED
      BY <1>1, <2>3, <2>4, <2>5, <2>6 DEF Comes, q
  <1> QED
    BY <1>2, <1>3

\* Where the host is in them.
LEMMA BegunFacts ==
    ASSUME Base
    PROVE  /\ Current \in Nat /\ told \in Nat /\ stale \in Nat /\ Header(version) \in 1 .. 2
           /\ Begun \in Seq(Unit) /\ Len(Begun) = Len(frame) + Len(incoming)
           /\ Len(frame) \in Nat /\ Len(incoming) \in Nat
           /\ Len(frame) >= 1 => Begun[1] = frame[1]
           /\ incoming = <<>> => Begun = frame
           /\ phase = "ready" => Current > stale + 1
           /\ phase = "answer" => Header(version) = 1
  <1>1. /\ frame \in Seq(Unit) /\ incoming \in Seq(Unit) /\ Len(frame) \in Nat /\ Len(incoming) \in Nat
        /\ told \in Nat /\ stale \in Nat /\ Len(taken) \in Nat /\ attempt \in Nat
        /\ Header(version) \in 1 .. 2
    BY TypeFacts, ConstFacts DEF Base, TypeOK
  <1>2. Current \in Nat /\ (phase = "ready" => Current > stale + 1)
    BY <1>1 DEF Current
  <1>3. /\ Begun \in Seq(Unit) /\ Len(Begun) = Len(frame) + Len(incoming)
        /\ \A i \in 1 .. Len(frame) + Len(incoming) :
               Begun[i] = IF i <= Len(frame) THEN frame[i] ELSE incoming[i - Len(frame)]
    BY <1>1, ConcatProperties DEF Begun
  <1>4. Len(frame) >= 1 => 1 \in 1 .. Len(frame) + Len(incoming)
    BY <1>1
  <1>5. incoming = <<>> => Begun = frame
    BY <1>1, ConcatEmptySeq DEF Begun
  <1>6. phase = "answer" => Header(version) = 1
    BY DEF Base, PhaseInv, Header
  <1> QED
    BY <1>1, <1>2, <1>3, <1>4, <1>5, <1>6

LEMMA StreamFacts ==
    ASSUME Base
    PROVE  /\ incoming \o wire \in Seq(Unit) /\ Begun \o wire \in Seq(Unit)
           /\ Len(Begun \o wire) \in Nat /\ Len(Begun \o wire) >= Len(frame)
           /\ \A i \in 1 .. Len(frame) : (Begun \o wire)[i] = frame[i]
           /\ SubSeq(Begun \o wire, Len(frame) + 1, Len(Begun \o wire)) = incoming \o wire
  <1>1. frame \in Seq(Unit) /\ incoming \in Seq(Unit) /\ wire \in Seq(Unit)
    BY TypeFacts DEF Base
  <1> DEFINE q == incoming \o wire
  <1>2. q \in Seq(Unit)
    BY <1>1, ConcatProperties
  <1>3. Begun \o wire = frame \o q
    BY <1>1, ConcatAssociative DEF Begun
  <1> HIDE DEF q
  <1>4. /\ frame \o q \in Seq(Unit) /\ Len(frame \o q) = Len(frame) + Len(q)
        /\ Len(frame) \in Nat /\ Len(q) \in Nat
        /\ \A i \in 1 .. Len(frame) : (frame \o q)[i] = frame[i]
        /\ SubSeq(frame \o q, Len(frame) + 1, Len(frame \o q)) = q
    BY <1>1, <1>2, Joined
  <1> QED
    BY <1>2, <1>3, <1>4 DEF q

\* What Session::receive reads is the head of the frame that comes.
LEMMA FrameComes ==
    ASSUME Base, StreamInv, ~spoilt, call \in {"header", "payload"}, Len(frame) >= 1
    PROVE  \E length \in 1 .. 3 :
               /\ Header(version) <= length /\ Current <= told
               /\ frame[1].index = 1 /\ frame[1].length = length
               /\ frame[1].proto = Proto(Current, stale)
               /\ Len(frame) = length =>
                      /\ frame = Units(Current, Proto(Current, stale), length)
                      /\ Comes(incoming \o wire, Current + 1, told, stale, Header(version))
  <1> DEFINE q     == Begun \o wire
             least == Header(version)
             proto == Proto(Current, stale)
  <1>1. /\ q \in Seq(Unit) /\ Len(q) \in Nat /\ Len(q) >= Len(frame) /\ Len(frame) \in Nat
        /\ \A i \in 1 .. Len(frame) : q[i] = frame[i]
        /\ SubSeq(q, Len(frame) + 1, Len(q)) = incoming \o wire
    BY StreamFacts, BegunFacts
  <1>2. /\ Current \in Nat /\ told \in Nat /\ stale \in Nat /\ least \in 1 .. 2 /\ least \in Nat
        /\ phase = "ready" => Current > stale + 1
        /\ phase = "answer" => least = 1
    BY BegunFacts
  <1>3. Comes(q, Current, told, stale, least) /\ phase \in {"answer", "ready"}
    BY DEF StreamInv, Base, PhaseInv, CallInv
  <1> HIDE DEF q, least
  <1>4. Len(q) >= 1 /\ 1 \in 1 .. Len(frame)
    BY <1>1
  <1>5. PICK length \in 1 .. 3 :
               /\ q[1].length = length /\ q[1].index = 1 /\ q[1].proto = proto
               /\ Current > stale + 1 => length >= least
               /\ Current <= told
               /\ \A i \in 1 .. length : /\ q[i].frame = Current /\ q[i].index = i
                                         /\ q[i].length = length /\ q[i].proto = proto
               /\ Comes(SubSeq(q, length + 1, Len(q)), Current + 1, told, stale, least)
    BY <1>1, <1>2, <1>3, <1>4, HeadFrame
  <1>6. least <= length
    BY <1>2, <1>3, <1>5
  <1>7. ASSUME Len(frame) = length
        PROVE  /\ frame = Units(Current, proto, length)
               /\ Comes(incoming \o wire, Current + 1, told, stale, least)
    <2>1. proto \in Protos /\ length \in Nat \ {0}
      BY DEF Proto, Protos
    <2> HIDE DEF proto
    <2>2. /\ Units(Current, proto, length) \in Seq(Unit)
          /\ Len(Units(Current, proto, length)) = length
          /\ \A i \in 1 .. length :
                 Units(Current, proto, length)[i] =
                     [frame |-> Current, index |-> i, length |-> length, proto |-> proto]
      BY <1>2, <2>1, UnitsFacts
    <2>3. \A i \in 1 .. length :
             frame[i] = [frame |-> Current, index |-> i, length |-> length, proto |-> proto]
      <3> TAKE i \in 1 .. length
      <3>1. frame \in Seq(Unit) /\ frame[i] = q[i]
        BY <1>1, <1>7, TypeFacts DEF Base
      <3>2. frame[i] \in Unit
        BY <1>7, <3>1, ElementOfSeq
      <3>3. /\ frame[i].frame = Current /\ frame[i].index = i
            /\ frame[i].length = length /\ frame[i].proto = proto
        BY <1>5, <3>1
      <3> QED
        BY ONLY <3>2, <3>3 DEF Unit
    <2>4. frame = Units(Current, proto, length)
      <3>1. frame \in Seq(Unit)
        BY TypeFacts DEF Base
      <3>2. \A i \in 1 .. Len(frame) : frame[i] = Units(Current, proto, length)[i]
        BY <1>7, <2>2, <2>3
      <3> QED
        BY <1>7, <2>2, <3>1, <3>2, SeqEqual
    <2> QED
      BY <1>1, <1>5, <1>7, <2>4
  <1> QED
    BY <1>1, <1>4, <1>5, <1>6, <1>7 DEF least
-----------------------------------------------------------------------------
(* What comes in is what the device sent.                                  *)

\* A frame that is read to its end is one that the device sent.
LEMMA WholeFrame ==
    ASSUME Base, StreamInv, ~spoilt, call = "payload", Need = 0
    PROVE  \E length \in 1 .. 3 :
               /\ Header(version) <= length /\ Current <= told
               /\ frame = Units(Current, Proto(Current, stale), length)
               /\ frame[1].length = length /\ frame[1].proto = Proto(Current, stale)
               /\ Comes(incoming \o wire, Current + 1, told, stale, Header(version))
  <1>1. /\ Len(frame) \in Nat /\ Header(version) \in 1 .. 2 /\ Header(version) <= Len(frame)
        /\ Len(frame) <= frame[1].length
    BY TypeFacts DEF Base, CallInv
  <1>2. Len(frame) >= 1
    BY <1>1
  <1>3. PICK length \in 1 .. 3 :
               /\ Header(version) <= length /\ Current <= told
               /\ frame[1].index = 1 /\ frame[1].length = length
               /\ frame[1].proto = Proto(Current, stale)
               /\ Len(frame) = length =>
                      /\ frame = Units(Current, Proto(Current, stale), length)
                      /\ Comes(incoming \o wire, Current + 1, told, stale, Header(version))
    BY <1>2, FrameComes
  <1>4. frame[1].length - Len(frame) = 0 /\ frame[1].length = length
    BY <1>3 DEF Need
  <1>5. Len(frame) = length
    BY <1>1, <1>4
  <1> QED
    BY <1>3, <1>5

\* The answer is waited for only until the device has sent it.
LEMMA AnswerIsTold == Base /\ StreamInv => AnswerTold
  <1> SUFFICES ASSUME Base, StreamInv, call = "payload", Need = 0, phase = "answer", IsAnswer
               PROVE  told = stale + 1
    BY DEF AnswerTold
  <1>1. ~spoilt /\ told \in {stale, stale + 1}
    BY DEF Base, PhaseInv, Handshake
  <1>2. frame[1].proto = Proto(Current, stale) /\ Current <= told
    BY <1>1, WholeFrame
  <1>3. Current = stale + 1
    BY <1>2 DEF IsAnswer, Proto
  <1>4. told \in Nat /\ stale \in Nat
    BY TypeFacts DEF Base
  <1> QED
    BY <1>1, <1>2, <1>3, <1>4

LEMMA ClosesStream ==
    ASSUME Closes
    PROVE  StreamInv' /\ TakenInv'
  <1>1. phase' = "closed" /\ taken' = <<>> /\ Len(taken') = 0
    BY DEF Closes
  <1> QED
    BY <1>1 DEF StreamInv, TakenInv

\* What was left over from the run before comes first.
LEMMA OpenedStream ==
    ASSUME Base, NEW n \in Nat, NEW v \in 1 .. 3, Opened(n, v), phase = "closed"
    PROVE  StreamInv' /\ TakenInv'
  <1>1. /\ phase' = "request" /\ version' = 0 /\ attempt' = 0 /\ told' = n /\ stale' = n
        /\ wire' = Stale(n, Header(v) + 1)
        /\ frame' = <<>> /\ incoming' = <<>> /\ taken' = <<>>
    BY DEF Opened, Base, PhaseInv, CallInv
  <1>2. Current' = 1 /\ Header(version') = 1 /\ Len(taken') = 0
    BY <1>1 DEF Current, Header
  <1>3. Header(v) + 1 \in 2 .. 3
    <2>1. Header(v) \in 1 .. 2
      BY HeaderFacts
    <2> QED
      BY <2>1
  <1>4. Stale(n, Header(v) + 1) \in Seq(Unit)
    BY <1>3, StaleFacts
  <1>5. Begun' \o wire' = Stale(n, Header(v) + 1)
    BY <1>1, <1>4, EmptySeq, ConcatEmptySeq DEF Begun
  <1>6. Comes(Stale(n, Header(v) + 1), 1, n, n, 1)
    BY <1>3, ComesStale
  <1>7. StreamInv'
    BY <1>1, <1>2, <1>5, <1>6 DEF StreamInv
  <1> QED
    BY <1>2, <1>7 DEF TakenInv

\* A step that reads nothing; the handshake may go on by it.
LEMMA QuietStream ==
    ASSUME StreamInv, TakenInv, phase # "closed",
           \/ phase' = phase
           \/ phase = "request" /\ phase' = "answer"
           \/ phase = "setup" /\ phase' = "ready",
           Begun' = Begun, UNCHANGED <<version, attempt, wire, told, stale, taken, spoilt>>
    PROVE  StreamInv' /\ TakenInv'
  <1>1. Current' = Current
    BY DEF Current
  <1>2. Header(version') = Header(version)
    BY DEF Header
  <1>3. StreamInv'
    BY <1>1, <1>2 DEF StreamInv
  <1>4. TakenInv'
    BY DEF TakenInv
  <1> QED
    BY <1>3, <1>4

LEMMA WritesStream ==
    ASSUME Base, StreamInv, TakenInv,
           Send \/ (\E k \in 1 .. Len(left) : Moves(k)) \/ Retry \/ WriteFails \/ Receive
    PROVE  StreamInv' /\ TakenInv'
  <1>0. phase = "closed" => call = "idle"
    BY DEF Base, PhaseInv
  <1>1. CASE Send
    <2>1. phase # "closed" /\ phase' = phase
      BY <1>1 DEF Send
    <2>2. Begun' = Begun /\ UNCHANGED <<version, attempt, wire, told, stale, taken, spoilt>>
      BY <1>1 DEF Send, Begun, input, device, past
    <2> QED
      BY <2>1, <2>2, QuietStream
  <1>2. CASE \E k \in 1 .. Len(left) : Moves(k)
    <2>1. PICK k \in 1 .. Len(left) : Moves(k)
      BY <1>2
    <2>2. phase # "closed"
      BY <1>0, <2>1 DEF Moves
    <2>3. \/ phase' = phase
          \/ phase = "request" /\ phase' = "answer"
          \/ phase = "setup" /\ phase' = "ready"
      BY <2>1 DEF Moves, Sent
    <2>4. Begun' = Begun /\ UNCHANGED <<version, attempt, wire, told, stale, taken, spoilt>>
      BY <2>1 DEF Moves, Begun, input
    <2> QED
      BY <2>2, <2>3, <2>4, QuietStream
  <1>3. CASE Retry
    <2>1. phase # "closed" /\ phase' = phase
      BY <1>0, <1>3 DEF Retry, mux
    <2>2. Begun' = Begun /\ UNCHANGED <<version, attempt, wire, told, stale, taken, spoilt>>
      BY <1>3 DEF Retry, Begun, mux, input, device, past
    <2> QED
      BY <2>1, <2>2, QuietStream
  <1>4. CASE WriteFails
    <2>1. PICK k : WriteEnds(k)
      BY <1>4 DEF WriteFails
    <2>2. CASE phase \in Handshake
      BY <2>1, <2>2, ClosesStream DEF WriteEnds
    <2>3. CASE phase \notin Handshake
      <3>1. phase # "closed" /\ phase' = phase
        BY <1>0, <1>4, <2>1, <2>3 DEF WriteFails, WriteEnds, mux
      <3>2. Begun' = Begun /\ UNCHANGED <<version, attempt, wire, told, stale, taken, spoilt>>
        BY <2>1, <2>3 DEF WriteEnds, Begun, mux, input
      <3> QED
        BY <3>1, <3>2, QuietStream
    <2> QED
      BY <2>2, <2>3
  <1>5. CASE Receive
    <2>1. phase # "closed" /\ phase' = phase /\ frame = <<>> /\ frame' = <<>>
      BY <1>5 DEF Receive, Receives, mux, Base, CallInv
    <2>2. Begun' = Begun /\ UNCHANGED <<version, attempt, wire, told, stale, taken, spoilt>>
      BY <1>5, <2>1 DEF Receive, Begun, mux, input, device, past
    <2> QED
      BY <2>1, <2>2, QuietStream
  <1> QED
    BY <1>1, <1>2, <1>3, <1>4, <1>5

\* More of the frame is there, and of what the host has and what is on its way nothing
\* is lost.
LEMMA ReadsStream ==
    ASSUME Base, StreamInv, TakenInv, ReadBuffered \/ ReadTransfer \/ ReadSocket
    PROVE  StreamInv' /\ TakenInv'
  <1>1. phase # "closed" /\ UNCHANGED <<phase, version, attempt, told, stale, taken, spoilt>>
    BY DEF ReadBuffered, ReadTransfer, ReadSocket, Reading, mux, device, past, Base, PhaseInv
  <1>2. frame \in Seq(Unit) /\ incoming \in Seq(Unit) /\ wire \in Seq(Unit)
    BY TypeFacts DEF Base
  <1>3. Begun' \o wire' = Begun \o wire
    <2>1. CASE ReadBuffered
      <3>1. PICK k \in 1 .. Len(incoming) :
               /\ k <= Need /\ Len(incoming) \in Nat /\ incoming \in Seq(Unit)
               /\ frame' = frame \o SubSeq(incoming, 1, k)
               /\ incoming' = SubSeq(incoming, k + 1, Len(incoming))
               /\ Reading
        BY <2>1, BufferedFacts
      <3>2. k \in Nat /\ k <= Len(incoming)
        BY <3>1
      <3>3. (frame \o SubSeq(incoming, 1, k)) \o SubSeq(incoming, k + 1, Len(incoming)) = frame \o incoming
        BY <1>2, <3>2, Rejoined
      <3> QED
        BY <2>1, <3>1, <3>3 DEF Begun, ReadBuffered
    <2>2. CASE ReadTransfer
      <3>1. PICK k \in 1 .. Len(wire) :
               /\ k <= BufUnits /\ Len(wire) \in Nat
               /\ incoming' = SubSeq(wire, 1, k) /\ size' = k /\ wire' = Rest(k)
               /\ Reading /\ incoming = <<>> /\ frame' = frame
        BY <2>2, TransferFacts
      <3>2. k \in Nat /\ k <= Len(wire)
        BY <3>1
      <3>3. (frame \o SubSeq(wire, 1, k)) \o SubSeq(wire, k + 1, Len(wire)) = frame \o wire
        BY <1>2, <3>2, Rejoined
      <3>4. Begun = frame
        BY <3>1, BegunFacts
      <3> QED
        BY <3>1, <3>3, <3>4 DEF Begun, Rest
    <2>3. CASE ReadSocket
      <3>1. PICK k \in 1 .. Len(wire) :
               /\ k <= Need /\ Len(wire) \in Nat
               /\ frame' = frame \o SubSeq(wire, 1, k) /\ wire' = Rest(k)
               /\ Reading /\ incoming = <<>> /\ incoming' = <<>>
        BY <2>3, SocketFacts
      <3>2. k \in Nat /\ k <= Len(wire)
        BY <3>1
      <3>3. (frame \o SubSeq(wire, 1, k)) \o SubSeq(wire, k + 1, Len(wire)) = frame \o wire
        BY <1>2, <3>2, Rejoined
      <3>4. Begun = frame
        BY <3>1, BegunFacts
      <3>5. SubSeq(wire, 1, k) \in Seq(Unit)
        BY <1>2, <3>2, CutFacts
      <3>6. frame' \in Seq(Unit)
        BY <1>2, <3>1, <3>5, LongerFacts DEF Base
      <3>7. Begun' = frame'
        BY <3>1, <3>6, ConcatEmptySeq DEF Begun
      <3> QED
        BY <3>1, <3>3, <3>4, <3>7 DEF Rest
    <2> QED
      BY <2>1, <2>2, <2>3
  <1>4. Current' = Current /\ Header(version') = Header(version)
    BY <1>1 DEF Current, Header
  <1>5. StreamInv'
    BY <1>1, <1>3, <1>4 DEF StreamInv
  <1>6. TakenInv'
    BY <1>1 DEF TakenInv
  <1> QED
    BY <1>5, <1>6

\* A read that fails ends the handshake, or spoils the link.
LEMMA ReadEndsStream ==
    ASSUME ReadEnds, TakenInv
    PROVE  StreamInv' /\ TakenInv'
  <1>1. CASE phase \in Handshake
    BY <1>1, ClosesStream DEF ReadEnds
  <1>2. CASE phase \notin Handshake
    <2>1. spoilt'
      BY <1>2 DEF ReadEnds
    <2> QED
      BY <2>1 DEF StreamInv, TakenInv
  <1> QED
    BY <1>1, <1>2

\* A frame that was sent keeps the length it was sent with.
LEMMA DecodeStream ==
    ASSUME Base, StreamInv, TakenInv, Decode
    PROVE  StreamInv' /\ TakenInv'
  <1>1. /\ call = "header" /\ Need = 0 /\ phase # "closed"
        /\ frame \in Seq(Unit) /\ Len(frame) = Header(version) /\ Header(version) \in 1 .. 2
        /\ 1 \in 1 .. Len(frame) /\ frame[1] \in Unit
    BY HeadFacts DEF Decode, Base, PhaseInv
  <1>2. PICK length \in Lengths :
         IF length < Header(version) \/ length > BufUnits
           THEN ReadEnds /\ (phase \notin Handshake => UNCHANGED input)
           ELSE /\ frame' = [frame EXCEPT ![1].length = length]
                /\ call' = "payload" /\ tries' = 0
                /\ UNCHANGED <<link, usb, mux, left, input, device, past>>
    BY DEF Decode
  <1>3. CASE length < Header(version) \/ length > BufUnits
    BY <1>2, <1>3, ReadEndsStream
  <1>4. CASE ~(length < Header(version) \/ length > BufUnits)
    <2>1. /\ frame' = [frame EXCEPT ![1].length = length]
          /\ UNCHANGED <<mux, input, device, past>>
      BY <1>2, <1>4
    <2>2. UNCHANGED <<phase, version, attempt, told, stale, taken, spoilt, incoming, wire>>
      BY <2>1 DEF mux, input, device, past
    <2>3. ASSUME ~spoilt PROVE Begun' = Begun
      <3>1. Len(frame) >= 1
        BY <1>1
      <3>2. PICK sent \in 1 .. 3 : frame[1].index = 1 /\ frame[1].length = sent
        BY <1>1, <2>3, <3>1, FrameComes
      <3>3. length = frame[1].length
        BY <3>2 DEF Lengths
      <3>4. [frame[1] EXCEPT !.length = length] = frame[1]
        BY <1>1, <3>3 DEF Unit
      <3>5. frame' = frame
        BY <1>1, <2>1, <3>4
      <3> QED
        BY <2>2, <3>5 DEF Begun
    <2>4. Current' = Current /\ Header(version') = Header(version)
      BY <2>2 DEF Current, Header
    <2>5. StreamInv'
      BY <2>2, <2>3, <2>4 DEF StreamInv
    <2>6. TakenInv'
      BY <2>2 DEF TakenInv
    <2> QED
      BY <2>5, <2>6
  <1> QED
    BY <1>3, <1>4

\* The next frame is waited for.
LEMMA SkipStream ==
    ASSUME Base, StreamInv, TakenInv, Skip
    PROVE  StreamInv' /\ TakenInv'
  <1>1. call = "payload" /\ Need = 0 /\ phase = "answer" /\ ~spoilt
    BY DEF Skip, Base, PhaseInv, Handshake
  <1>2. Comes(incoming \o wire, Current + 1, told, stale, Header(version))
    BY <1>1, WholeFrame
  <1>3. /\ attempt' = attempt + 1 /\ frame' = <<>>
        /\ UNCHANGED <<phase, version, told, stale, taken, spoilt, incoming, wire>>
    BY DEF Skip, Receives, input, device, past
  <1>4. Current' = Current + 1 /\ Header(version') = Header(version)
    BY <1>1, <1>3 DEF Current, Header
  <1>5. Begun' = incoming
    BY <1>3, TypeFacts, ConcatEmptySeq DEF Begun, Base
  <1>7. StreamInv'
    BY <1>2, <1>3, <1>4, <1>5 DEF StreamInv
  <1>8. TakenInv'
    BY <1>3 DEF TakenInv
  <1> QED
    BY <1>7, <1>8

\* The handshake ends with the answer, whose successors have the header of its version.
LEMMA AnsweredStream ==
    ASSUME Base, StreamInv, TakenInv, Answered
    PROVE  StreamInv' /\ TakenInv'
  <1>1. call = "payload" /\ Need = 0 /\ phase = "answer" /\ ~spoilt /\ taken = <<>>
    BY DEF Answered, Base, PhaseInv, Handshake
  <1>2. CASE ~(IsAnswer /\ peer \in {1, 2})
    BY <1>2, ClosesStream DEF Answered
  <1>3. CASE IsAnswer /\ peer \in {1, 2}
    <2>1. /\ phase' \in {"setup", "ready"} /\ frame' = <<>>
          /\ UNCHANGED <<told, stale, taken, spoilt, incoming, wire>>
      BY <1>3 DEF Answered, Settles, input, device, past
    <2>2. told = stale + 1
      BY <1>1, <1>3, AnswerIsTold DEF AnswerTold
    <2>3. /\ Comes(incoming \o wire, Current + 1, told, stale, Header(version))
          /\ frame[1].proto = Proto(Current, stale)
      BY <1>1, WholeFrame
    <2>4. Current = stale + 1 /\ Len(<<>>) = 0
      BY <1>3, <2>3 DEF IsAnswer, Proto
    <2>5. Current' = Current + 1 /\ Begun' = incoming
      BY <1>1, <2>1, <2>4, ConcatEmptySeq, TypeFacts DEF Current, Begun, Base
    <2>6. Current + 1 \in Nat /\ told \in Nat /\ stale \in Nat /\ incoming \o wire \in Seq(Unit)
      BY <2>4, TypeFacts, StreamFacts DEF Base
    <2>7. told <= stale + 1
      BY <2>2, <2>6
    <2>8. Comes(incoming \o wire, Current + 1, told, stale, Header(version'))
      BY <2>3, <2>6, <2>7, ComesAny
    <2>10. StreamInv'
      BY <2>1, <2>5, <2>8 DEF StreamInv
    <2>11. TakenInv'
      BY <2>1 DEF TakenInv
    <2> QED
      BY <2>10, <2>11
  <1> QED
    BY <1>2, <1>3

\* What receive returns is the next frame of the device.
LEMMA ReceivedStream ==
    ASSUME Base, StreamInv, TakenInv, Received
    PROVE  StreamInv' /\ TakenInv'
  <1>1. call = "payload" /\ Need = 0 /\ phase = "ready"
    BY DEF Received
  <1>2. /\ taken' = Append(taken, frame) /\ frame' = <<>>
        /\ UNCHANGED <<phase, version, attempt, told, stale, spoilt, incoming, wire>>
    BY DEF Received, mux, input, device
  <1>3. /\ taken \in Seq(Seq(Unit)) /\ frame \in Seq(Unit) /\ Len(taken) \in Nat
        /\ stale \in Nat /\ told \in Nat
    BY TypeFacts DEF Base
  <1>4. /\ Len(taken') = Len(taken) + 1
        /\ \A i \in 1 .. Len(taken) : taken'[i] = taken[i]
        /\ taken'[Len(taken) + 1] = frame
    BY <1>2, <1>3, AppendProperties
  <1>5. Current = stale + 2 + Len(taken) /\ Current' = stale + 2 + Len(taken')
    BY <1>1, <1>2 DEF Current
  <1>6. Current' = Current + 1 /\ Current # stale + 1 /\ Current = stale + 1 + (Len(taken) + 1)
    BY <1>3, <1>4, <1>5
  <1>7. ASSUME ~spoilt
        PROVE  /\ Comes(incoming \o wire, Current + 1, told, stale, Header(version))
               /\ frame = Units(Current, "tcp", frame[1].length)
    <2>1. PICK length \in 1 .. 3 :
               /\ frame = Units(Current, Proto(Current, stale), length)
               /\ frame[1].length = length
               /\ Comes(incoming \o wire, Current + 1, told, stale, Header(version))
      BY <1>1, <1>7, WholeFrame
    <2> QED
      BY <1>6, <2>1 DEF Proto
  <1>8. StreamInv'
    <2>1. Begun' = incoming
      BY <1>2, ConcatEmptySeq, TypeFacts DEF Begun, Base
    <2> QED
      BY <1>2, <1>6, <1>7, <2>1 DEF StreamInv
  <1>9. TakenInv'
    <2> SUFFICES ASSUME ~spoilt, NEW k \in 1 .. Len(taken')
                 PROVE  taken'[k] = Units(stale + 1 + k, "tcp", taken'[k][1].length)
      BY <1>2 DEF TakenInv
    <2>1. k \in 1 .. Len(taken) \/ k = Len(taken) + 1
      BY <1>3, <1>4
    <2>2. CASE k \in 1 .. Len(taken)
      BY <1>4, <2>2 DEF TakenInv
    <2>3. CASE k = Len(taken) + 1
      BY <1>4, <1>6, <1>7, <2>3
    <2> QED
      BY <2>1, <2>2, <2>3
  <1> QED
    BY <1>8, <1>9

\* The device sends its answer, or a frame behind it.
LEMMA TellsStream ==
    ASSUME Base, StreamInv, TakenInv, DeviceAnswers \/ DeviceSends
    PROVE  StreamInv' /\ TakenInv'
  <1>1. phase \in {"answer", "ready"}
    BY DEF DeviceAnswers, DeviceSends
  <1>2. PICK length \in 1 .. 3, proto \in {"answer", "tcp"} :
           /\ Tells(proto, length)
           /\ proto = Proto(told + 1, stale)
           /\ told + 1 > stale + 1 => length >= Header(version)
    <2>0. told \in Nat /\ stale \in Nat /\ Header(version) \in 1 .. 2
      BY TypeFacts DEF Base
    <2>1. CASE DeviceAnswers
      <3>1. 3 \in 1 .. 3 /\ Tells("answer", 3) /\ told = stale
        BY <2>1 DEF DeviceAnswers
      <3> QED
        BY <2>0, <3>1 DEF Proto
    <2>2. CASE DeviceSends
      <3>1. PICK m \in 0 .. 1 : Tells("tcp", Header(version) + m)
        BY <2>2 DEF DeviceSends
      <3>2. Header(version) + m \in 1 .. 3 /\ Header(version) + m >= Header(version)
        BY <2>0
      <3>3. told >= stale + 1
        BY <2>2 DEF DeviceSends, Base, PhaseInv
      <3>4. told + 1 # stale + 1
        BY <2>0, <3>3
      <3> QED
        BY <3>1, <3>2, <3>4 DEF Proto
    <2> QED
      BY <2>1, <2>2
  <1>3. /\ told' = told + 1 /\ wire' = wire \o Units(told + 1, proto, length)
        /\ UNCHANGED <<phase, version, attempt, frame, incoming, stale, taken, spoilt>>
    BY <1>2 DEF Tells, mux, past
  <1>4. Current' = Current /\ Begun' = Begun /\ Header(version') = Header(version)
    BY <1>3 DEF Current, Begun, Header
  <1>5. /\ told \in Nat /\ stale \in Nat /\ wire \in Seq(Unit) /\ Current \in Nat
        /\ Header(version) \in Nat /\ Begun \in Seq(Unit) /\ Begun \o wire \in Seq(Unit)
    BY TypeFacts, BegunFacts, StreamFacts DEF Base
  <1>6. Units(told + 1, proto, length) \in Seq(Unit)
    <2>1. told + 1 \in Nat /\ proto \in Protos /\ length \in Nat \ {0}
      BY <1>5 DEF Protos
    <2> QED
      BY <2>1, UnitsFacts
  <1>7. Begun \o wire' = (Begun \o wire) \o Units(told + 1, proto, length)
    <2>1. Begun \o (wire \o Units(told + 1, proto, length)) =
              (Begun \o wire) \o Units(told + 1, proto, length)
      <3> DEFINE next == Units(told + 1, proto, length)
      <3>1. Begun \in Seq(Unit) /\ wire \in Seq(Unit) /\ next \in Seq(Unit)
        BY <1>5, <1>6
      <3> HIDE DEF next
      <3>2. Begun \o (wire \o next) = (Begun \o wire) \o next
        BY ONLY <3>1, ConcatAssociative
      <3> QED
        BY ONLY <3>2 DEF next
    <2> QED
      BY <1>3, <2>1
  <1>8. ASSUME ~spoilt
        PROVE  Comes(Begun \o wire', Current, told', stale, Header(version))
    <2>1. Comes(Begun \o wire, Current, told, stale, Header(version))
      BY <1>1, <1>8 DEF StreamInv
    <2>2. Comes((Begun \o wire) \o Units(told + 1, Proto(told + 1, stale), length),
                Current, told + 1, stale, Header(version))
      BY <1>2, <1>5, <2>1, ComesMore
    <2> QED
      BY <1>2, <1>3, <1>7, <2>2
  <1>9. StreamInv'
    BY <1>3, <1>4, <1>8 DEF StreamInv
  <1>10. TakenInv'
    BY <1>3 DEF TakenInv
  <1> QED
    BY <1>9, <1>10

LEMMA OpeningStream ==
    ASSUME Base, StreamInv, TakenInv, Opening \/ Plug
    PROVE  StreamInv' /\ TakenInv'
  <1>0. MaxStale \in Nat
    BY ConstFacts
  <1>1. ASSUME NEW i \in Ids, OpenUsb(i) PROVE StreamInv' /\ TakenInv'
    <2>1. PICK n \in 0 .. MaxStale, v \in 1 .. 3 : Opened(n, v)
      BY <1>1 DEF OpenUsb
    <2>2. n \in Nat /\ phase = "closed"
      BY <1>0, <1>1 DEF OpenUsb
    <2> QED
      BY <2>1, <2>2, OpenedStream
  <1>2. CASE OpenTcp
    <2>1. PICK v \in {1, 3} : Opened(0, v)
      BY <1>2 DEF OpenTcp
    <2>2. v \in 1 .. 3 /\ 0 \in Nat /\ phase = "closed"
      BY <1>2 DEF OpenTcp
    <2> QED
      BY <2>1, <2>2, OpenedStream
  <1>3. CASE Plug \/ \E i \in Ids : OpenUsbFails(i)
    <2>1. phase' = "closed" /\ UNCHANGED <<stale, taken, spoilt>>
      BY <1>3 DEF Plug, OpenUsbFails, mux, past
    <2> QED
      BY <2>1 DEF StreamInv, TakenInv
  <1> QED
    BY <1>1, <1>2, <1>3 DEF Opening

LEMMA NextStream ==
    ASSUME Base, StreamInv, TakenInv, [Next]_vars
    PROVE  StreamInv' /\ TakenInv'
  <1>1. CASE Opening \/ Plug
    BY <1>1, OpeningStream
  <1>2. CASE Runs \/ (phase = "ready" /\ (Send \/ Receive))
    <2>1. CASE Send \/ (\E k \in 1 .. Len(left) : Moves(k)) \/ Retry \/ WriteFails \/ Receive
      BY <2>1, WritesStream
    <2>2. CASE ReadBuffered \/ ReadTransfer \/ ReadSocket
      BY <2>2, ReadsStream
    <2>3. CASE ReadFails
      BY <2>3, ReadEndsStream DEF ReadFails
    <2>4. CASE Decode \/ Skip \/ Answered \/ Received
      BY <2>4, DecodeStream, SkipStream, AnsweredStream, ReceivedStream
    <2> QED
      BY <1>2, <2>1, <2>2, <2>3, <2>4 DEF Runs
  <1>3. CASE Close
    BY <1>3, ClosesStream DEF Close
  <1>4. CASE DeviceAnswers \/ DeviceSends
    BY <1>4, TellsStream
  <1>5. CASE UNCHANGED vars
    BY <1>5 DEF vars, mux, input, device, past, StreamInv, TakenInv, Current, Begun, Header
  <1> QED
    BY <1>1, <1>2, <1>3, <1>4, <1>5 DEF Next
-----------------------------------------------------------------------------
(* What goes out is what was written, and how it is numbered.              *)

\* A step outside of a write, or one that moves nothing of it.
LEMMA SilentWrites ==
    ASSUME WriteInv, UNCHANGED <<heard, left, out, torn>>,
           \/ call # "write" /\ call' # "write"
           \/ UNCHANGED <<call, phase, version, tx_seq>>
    PROVE  WriteInv'
  <1>1. CASE call # "write" /\ call' # "write"
    BY <1>1 DEF WriteInv
  <1>2. CASE UNCHANGED <<call, phase, version, tx_seq>>
    <2>1. HostFrame(tx_seq - 1)' = HostFrame(tx_seq - 1)
      BY <1>2 DEF HostFrame, Header
    <2> QED
      BY <1>2, <2>1 DEF WriteInv
  <1> QED
    BY <1>1, <1>2

LEMMA SilentNumbers ==
    ASSUME NumberInv, UNCHANGED <<version, tx_seq, written, torn>>,
           call = "write" <=> call' = "write"
    PROVE  NumberInv'
  BY DEF NumberInv

LEMMA ClosesWrites ==
    ASSUME Closes
    PROVE  WriteInv' /\ NumberInv'
  <1>1. /\ heard' = <<>> /\ left' = <<>> /\ out' = <<>> /\ call' = "idle" /\ version' = 0
    BY DEF Closes
  <1> QED
    BY <1>1 DEF WriteInv, NumberInv

LEMMA SendWrites ==
    ASSUME Base, WriteInv, NumberInv, Send
    PROVE  WriteInv' /\ NumberInv'
  <1>1. /\ call = "idle" /\ call' = "write" /\ left' = HostFrame(tx_seq) /\ tx_seq' = tx_seq + 1
        /\ left = <<>> /\ UNCHANGED <<phase, version, heard, out, written, torn>>
    BY DEF Send, device, past, Base, CallInv
  <1>2. /\ tx_seq \in Nat /\ heard \in Seq(Unit) /\ out \in Seq(Unit) /\ Len(written) \in Nat
    BY TypeFacts DEF Base
  <1>3. tx_seq' - 1 = tx_seq
    BY <1>1, <1>2
  <1>4. HostFrame(tx_seq - 1)' = HostFrame(tx_seq)
    BY <1>1, <1>3 DEF HostFrame, Header
  <1>5. ~torn => heard = out
    BY <1>1, <1>2, ConcatEmptySeq DEF WriteInv
  <1>6. WriteInv'
    BY <1>1, <1>4, <1>5 DEF WriteInv
  <1>7. NumberInv'
    <2>1. version = 2 /\ ~torn => Len(written) + 1 = tx_seq + 1 + 1
      BY <1>1, <1>2 DEF NumberInv
    <2> QED
      BY <1>1, <2>1 DEF NumberInv
  <1> QED
    BY <1>6, <1>7

LEMMA MovesWrites ==
    ASSUME Base, WriteInv, NumberInv, NEW k \in 1 .. Len(left), Moves(k)
    PROVE  WriteInv' /\ NumberInv'
  <1>1. /\ heard \in Seq(Unit) /\ left \in Seq(Unit) /\ out \in Seq(Unit) /\ Len(left) \in Nat
        /\ tx_seq \in Nat /\ tx_seq # 0 /\ written \in Seq(Seq(Unit)) /\ Len(written) \in Nat
        /\ version \in Nat
    BY TypeFacts DEF Moves, Base, CallInv
  <1>2. /\ call = "write" /\ heard' = heard \o SubSeq(left, 1, k)
        /\ UNCHANGED <<version, tx_seq, torn>>
    BY DEF Moves
  <1>3. k \in Nat /\ k <= Len(left) /\ tx_seq - 1 \in Nat
    BY <1>1
  <1>4. CASE k # Len(left)
    <2>1. /\ left' = SubSeq(left, k + 1, Len(left))
          /\ UNCHANGED <<phase, call, written, out>>
      BY <1>4 DEF Moves
    <2>2. heard' \o left' = heard \o left
      BY <1>1, <1>2, <1>3, <2>1, Rejoined
    <2>3. HostFrame(tx_seq - 1)' = HostFrame(tx_seq - 1)
      BY <1>2, <2>1 DEF HostFrame, Header
    <2>4. WriteInv'
      BY <1>2, <2>1, <2>2, <2>3 DEF WriteInv
    <2> QED
      BY <1>2, <2>1, <2>4, SilentNumbers
  <1>5. CASE k = Len(left)
    <2> DEFINE q == HostFrame(tx_seq - 1)
    <2>1. /\ call' = "idle" /\ left' = <<>>
          /\ written' = Append(written, q) /\ out' = out \o q
      BY <1>5 DEF Moves, Sent
    <2>2. q \in Seq(Unit) /\ q[1].frame = tx_seq - 1
      BY <1>3, HostFrameFacts DEF Base
    <2>3. ~torn => heard \o left = out \o q
      BY <1>2 DEF WriteInv
    <2> HIDE DEF q
    <2>4. SubSeq(left, 1, k) = left
      <3>1. /\ SubSeq(left, 1, k) \in Seq(Unit) /\ Len(SubSeq(left, 1, k)) = k
            /\ \A i \in 1 .. k : SubSeq(left, 1, k)[i] = left[i]
        BY <1>1, <1>3, CutFacts
      <3> QED
        BY <1>1, <1>5, <3>1, SeqEqual
    <2>5. heard \o left \in Seq(Unit) /\ out \o q \in Seq(Unit)
      BY <1>1, <2>2, ConcatProperties
    <2>6. heard' \o left' = heard \o left /\ out' \o <<>> = out \o q
      BY <1>2, <2>1, <2>4, <2>5, ConcatEmptySeq
    <2>7. WriteInv'
      BY <1>2, <2>1, <2>3, <2>6 DEF WriteInv
    <2>8. /\ Len(written') = Len(written) + 1
          /\ \A i \in 1 .. Len(written) : written'[i] = written[i]
          /\ written'[Len(written) + 1] = q
      BY <1>1, <2>1, <2>2, AppendProperties
    <2>9. NumberInv'
      <3> SUFFICES ASSUME version = 2, ~torn
                   PROVE  /\ Len(written') + 0 = tx_seq + 1
                          /\ \A i \in 2 .. Len(written') : written'[i][1].frame = i - 2
        BY <1>2, <2>1 DEF NumberInv
      <3>1. Len(written) + 1 = tx_seq + 1 /\ \A i \in 2 .. Len(written) : written[i][1].frame = i - 2
        BY <1>2 DEF NumberInv
      <3>2. Len(written') = tx_seq + 1
        BY <2>8, <3>1
      <3>3. ASSUME NEW i \in 2 .. Len(written') PROVE written'[i][1].frame = i - 2
        <4>1. i \in 2 .. Len(written) \/ i = Len(written) + 1
          BY <1>1, <2>8
        <4>2. CASE i \in 2 .. Len(written)
          <5>1. i \in 1 .. Len(written)
            BY <4>2
          <5> QED
            BY <2>8, <3>1, <4>2, <5>1
        <4>3. CASE i = Len(written) + 1
          <5>1. i - 2 = tx_seq - 1
            BY <1>1, <3>1, <4>3
          <5> QED
            BY <2>2, <2>8, <4>3, <5>1
        <4> QED
          BY <4>1, <4>2, <4>3
      <3> QED
        BY <1>1, <3>2, <3>3
    <2> QED
      BY <2>7, <2>9
  <1> QED
    BY <1>4, <1>5

LEMMA WriteFailsWrites ==
    ASSUME WriteFails
    PROVE  WriteInv' /\ NumberInv'
  <1>1. PICK k : WriteEnds(k)
    BY DEF WriteFails
  <1>2. CASE phase \in Handshake
    BY <1>1, <1>2, ClosesWrites DEF WriteEnds
  <1>3. CASE phase \notin Handshake
    BY <1>1, <1>3 DEF WriteEnds, WriteInv, NumberInv
  <1> QED
    BY <1>2, <1>3

LEMMA ReadEndsWrites ==
    ASSUME WriteInv, NumberInv, ReadEnds, call \in {"header", "payload"}
    PROVE  WriteInv' /\ NumberInv'
  <1>1. CASE phase \in Handshake
    BY <1>1, ClosesWrites DEF ReadEnds
  <1>2. CASE phase \notin Handshake
    <2>1. call' = "idle" /\ UNCHANGED <<version, tx_seq, left, heard, written, out, torn>>
      BY <1>2 DEF ReadEnds, mux, device
    <2> QED
      BY <2>1, SilentWrites, SilentNumbers
  <1> QED
    BY <1>1, <1>2

\* The version is settled when one frame was written, and the numbers begin anew.
LEMMA AnsweredWrites ==
    ASSUME Base, WriteInv, NumberInv, Answered
    PROVE  WriteInv' /\ NumberInv'
  <1>1. CASE ~(IsAnswer /\ peer \in {1, 2})
    BY <1>1, ClosesWrites DEF Answered
  <1>2. CASE IsAnswer /\ peer \in {1, 2}
    <2>1. /\ call' = "idle" /\ UNCHANGED <<left, heard, written, out, torn>>
          /\ version' = (IF link = "usb" THEN peer ELSE 0)
          /\ peer = 2 => tx_seq' = 0
      BY <1>2 DEF Answered, Settles, device, past
    <2>2. call = "payload" /\ Len(written) = 1
      BY DEF Answered, Base, PhaseInv
    <2>3. WriteInv'
      BY <2>1, <2>2, SilentWrites
    <2>4. version' = 2 => tx_seq' = 0
      BY <2>1
    <2>5. NumberInv'
      BY <2>1, <2>2, <2>4 DEF NumberInv
    <2> QED
      BY <2>3, <2>5
  <1> QED
    BY <1>1, <1>2

LEMMA ReadsWrites ==
    ASSUME WriteInv, NumberInv,
           Receive \/ ReadBuffered \/ ReadTransfer \/ ReadSocket \/ ReadFails \/ Decode \/ Skip \/ Received
    PROVE  WriteInv' /\ NumberInv'
  <1>1. CASE Receive \/ ReadBuffered \/ ReadTransfer \/ ReadSocket \/ Skip \/ Received
    <2>1. call # "write" /\ call' # "write"
      BY <1>1 DEF Receive, Receives, ReadBuffered, ReadTransfer, ReadSocket, Reading, Skip, Received
    <2>2. UNCHANGED <<version, tx_seq, left, heard, written, out, torn>>
      BY <1>1 DEF Receive, ReadBuffered, ReadTransfer, ReadSocket, Skip, Received, mux, device, past
    <2> QED
      BY <2>1, <2>2, SilentWrites, SilentNumbers
  <1>2. CASE ReadFails
    BY <1>2, ReadEndsWrites DEF ReadFails, Reading
  <1>3. CASE Decode
    <2>1. call = "header"
      BY <1>3 DEF Decode
    <2>2. CASE ReadEnds
      BY <2>1, <2>2, ReadEndsWrites
    <2>3. CASE call' = "payload" /\ UNCHANGED <<link, usb, mux, left, input, device, past>>
      <3>1. UNCHANGED <<version, tx_seq, left, heard, written, out, torn>>
        BY <2>3 DEF mux, device, past
      <3> QED
        BY <2>1, <2>3, <3>1, SilentWrites, SilentNumbers
    <2> QED
      BY <1>3, <2>2, <2>3 DEF Decode
  <1> QED
    BY <1>1, <1>2, <1>3

LEMMA OutsideWrites ==
    ASSUME Base, WriteInv, NumberInv, Opening \/ Retry \/ DeviceAnswers \/ DeviceSends \/ Plug
    PROVE  WriteInv' /\ NumberInv'
  <1>1. CASE OpenTcp \/ \E i \in Ids : OpenUsb(i)
    <2>1. phase = "closed" /\ \E n, v : Opened(n, v)
      BY <1>1 DEF OpenTcp, OpenUsb
    <2>2. /\ version' = 0 /\ call = "idle" /\ call' = "idle"
          /\ UNCHANGED <<heard, left, out, torn>>
      BY <2>1 DEF Opened, Base, PhaseInv
    <2>3. WriteInv'
      BY <2>2, SilentWrites
    <2> QED
      BY <2>2, <2>3 DEF NumberInv
  <1>2. CASE Retry \/ DeviceAnswers \/ DeviceSends \/ Plug \/ \E i \in Ids : OpenUsbFails(i)
    <2>1. UNCHANGED <<call, phase, version, tx_seq, left, heard, written, out, torn>>
      BY <1>2 DEF Retry, DeviceAnswers, DeviceSends, Tells, Plug, OpenUsbFails, mux, device, past
    <2> QED
      BY <2>1, SilentWrites, SilentNumbers
  <1> QED
    BY <1>1, <1>2 DEF Opening

LEMMA NextWrites ==
    ASSUME Base, WriteInv, NumberInv, [Next]_vars
    PROVE  WriteInv' /\ NumberInv'
  <1>1. CASE Opening \/ Retry \/ DeviceAnswers \/ DeviceSends \/ Plug
    BY <1>1, OutsideWrites
  <1>2. CASE Send \/ WriteFails \/ \E k \in 1 .. Len(left) : Moves(k)
    BY <1>2, SendWrites, WriteFailsWrites, MovesWrites
  <1>3. CASE Receive \/ ReadBuffered \/ ReadTransfer \/ ReadSocket \/ ReadFails \/ Decode \/ Skip \/ Received
    BY <1>3, ReadsWrites
  <1>4. CASE Answered
    BY <1>4, AnsweredWrites
  <1>5. CASE Close
    BY <1>5, ClosesWrites DEF Close
  <1>6. CASE UNCHANGED vars
    <2>1. UNCHANGED <<call, phase, version, tx_seq, left, heard, written, out, torn>>
      BY <1>6 DEF vars, mux, device, past
    <2> QED
      BY <2>1, SilentWrites, SilentNumbers
  <1> QED
    BY <1>1, <1>2, <1>3, <1>4, <1>5, <1>6 DEF Next, Runs
-----------------------------------------------------------------------------
(* The devices.                                                            *)

\* The devices keep what tells them apart, and as many as there were.
LEMMA DeviceFacts ==
    ASSUME TypeOK, BusInv
    PROVE  /\ DOMAIN bus = 1 .. Len(bus) /\ Len(bus) \in Nat /\ chosen \in 0 .. Len(bus)
           /\ \A n \in 1 .. Len(bus) : /\ bus[n].model # 0 /\ bus[n].active \in 0 .. Len(bus[n].configs)
                                       /\ bus[n] \in UsbDevice
           /\ \A n \in 1 .. Len(bus) : bus[n].claimed = "host" <=> phase # "closed" /\ n = chosen
           /\ \A m, n \in 1 .. Len(bus) :
                  bus[n].serial # 0 /\ bus[m].serial = bus[n].serial /\ bus[m].model = bus[n].model => m = n
  <1>1. bus \in Seq(UsbDevice) /\ DOMAIN bus = 1 .. Len(bus) /\ Len(bus) \in Nat /\ chosen \in 0 .. Len(bus)
    BY LenProperties DEF TypeOK
  <1>2. \A n \in 1 .. Len(bus) : bus[n] \in UsbDevice
    BY <1>1, ElementOfSeq
  <1> QED
    BY <1>1, <1>2 DEF BusInv, ClaimedIsChosen

\* A bus of the same devices, each with its active configuration and its owner.
LEMMA SameDevices ==
    ASSUME TypeOK, BusInv, NEW b, DOMAIN b = DOMAIN bus,
           \A n \in 1 .. Len(bus) :
               /\ b[n].model = bus[n].model /\ b[n].serial = bus[n].serial
               /\ b[n].active \in 0 .. Len(b[n].configs)
    PROVE  /\ \A n \in DOMAIN b : b[n].model # 0 /\ b[n].active \in 0 .. Len(b[n].configs)
           /\ \A m, n \in DOMAIN b :
                  b[n].serial # 0 /\ b[m].serial = b[n].serial /\ b[m].model = b[n].model => m = n
  BY DeviceFacts

LEMMA InitBus == Init => BusInv
  <1> SUFFICES ASSUME Init PROVE BusInv
    OBVIOUS
  <1>1. phase = "closed" /\ chosen = 0
    BY DEF Init
  <1>2. CASE bus \in Buses
    <2>1. Pluggable(bus)
      BY <1>2, TransportsAssumption
    <2> QED
      BY <1>1, <2>1 DEF Pluggable, BusInv, ClaimedIsChosen
  <1>3. CASE bus = <<>>
    <2>1. DOMAIN bus = {}
      BY <1>3
    <2> QED
      BY <1>1, <2>1 DEF BusInv, ClaimedIsChosen
  <1> QED
    BY <1>2, <1>3 DEF Init

\* Nothing is done to a device.
LEMMA QuietBus ==
    ASSUME BusInv, UNCHANGED <<link, usb>>, phase = "closed" <=> phase' = "closed"
    PROVE  BusInv'
  <1>1. UNCHANGED <<bus, id, chosen>>
    BY DEF usb
  <1>2. ClaimedIsChosen'
    BY <1>1 DEF BusInv, ClaimedIsChosen, Matches
  <1> QED
    BY <1>1, <1>2 DEF BusInv

LEMMA ClosesBus ==
    ASSUME Base, BusInv, Closes
    PROVE  BusInv'
  <1>1. phase' = "closed" /\ chosen' = 0
    BY DEF Closes
  <1>2. /\ DOMAIN bus' = DOMAIN bus /\ DOMAIN bus = 1 .. Len(bus)
        /\ \A m \in 1 .. Len(bus) :
               bus'[m] = IF m = chosen THEN [bus[m] EXCEPT !.claimed = "none"] ELSE bus[m]
    BY ReleasedFacts DEF Base
  <1>3. \A n \in 1 .. Len(bus) : /\ bus[n].active \in 0 .. Len(bus[n].configs) /\ bus[n] \in UsbDevice
                                 /\ bus[n].claimed = "host" <=> phase # "closed" /\ n = chosen
    BY DeviceFacts DEF Base
  <1>4. ASSUME NEW n \in 1 .. Len(bus)
        PROVE  /\ bus'[n].model = bus[n].model /\ bus'[n].serial = bus[n].serial
               /\ bus'[n].active \in 0 .. Len(bus'[n].configs) /\ bus'[n].claimed # "host"
    <2>1. CASE n = chosen
      <3>1. bus'[n] = [bus[n] EXCEPT !.claimed = "none"]
        BY <1>2, <2>1
      <3>2. /\ bus'[n].model = bus[n].model /\ bus'[n].serial = bus[n].serial
            /\ bus'[n].configs = bus[n].configs /\ bus'[n].active = bus[n].active
            /\ bus'[n].claimed = "none"
        BY <1>3, <3>1 DEF UsbDevice
      <3> QED
        BY <1>3, <3>2
    <2>2. CASE n # chosen
      BY <1>2, <1>3, <2>2
    <2> QED
      BY <2>1, <2>2
  <1>5. /\ \A n \in DOMAIN bus' : bus'[n].model # 0 /\ bus'[n].active \in 0 .. Len(bus'[n].configs)
        /\ \A m, n \in DOMAIN bus' :
               bus'[n].serial # 0 /\ bus'[m].serial = bus'[n].serial /\ bus'[m].model = bus'[n].model => m = n
    BY <1>2, <1>4, SameDevices DEF Base
  <1>6. ClaimedIsChosen'
    BY <1>1, <1>2, <1>4 DEF ClaimedIsChosen
  <1> QED
    BY <1>1, <1>5, <1>6 DEF BusInv

\* The device that is found is claimed, in a configuration with the interface.
LEMMA OpenUsbBus ==
    ASSUME Base, BusInv, NEW i, OpenUsb(i)
    PROVE  BusInv'
  <1> DEFINE n == FindDevice(bus, i)
  <1>0. PICK c \in Able(bus[n]) : bus' = [bus EXCEPT ![n].active = c, ![n].claimed = "host"]
    BY DEF OpenUsb
  <1>1. phase = "closed" /\ n # 0 /\ id' = i /\ chosen' = n
    BY DEF OpenUsb
  <1>2. phase' = "request"
    BY DEF OpenUsb, Opened
  <1>3. /\ n \in 1 .. Len(bus) /\ DOMAIN bus = 1 .. Len(bus) /\ Len(bus) \in Nat
        /\ Matches(bus[n], i) /\ bus[n] \in UsbDevice
        /\ DOMAIN bus' = DOMAIN bus
        /\ \A m \in 1 .. Len(bus) :
               bus'[m] = IF m = n THEN [bus[n] EXCEPT !.active = c, !.claimed = "host"] ELSE bus[m]
    BY <1>0, <1>1, FoundFacts DEF Base
  <1>4. c \in Nat /\ c \in 1 .. Len(bus[n].configs) /\ bus[n].configs[c] = "mux"
    BY <1>3, AbleFacts
  <1> HIDE DEF n
  <1>5. /\ bus'[n].model = bus[n].model /\ bus'[n].serial = bus[n].serial
        /\ bus'[n].configs = bus[n].configs
        /\ bus'[n].active = c /\ bus'[n].claimed = "host"
    <2>1. bus'[n] = [bus[n] EXCEPT !.active = c, !.claimed = "host"]
      BY <1>3
    <2> QED
      BY <1>3, <2>1 DEF UsbDevice
  <1>6. \A m \in 1 .. Len(bus) : /\ bus[m].active \in 0 .. Len(bus[m].configs)
                                 /\ bus[m].claimed # "host"
    BY <1>1, DeviceFacts DEF Base
  <1>7. ASSUME NEW m \in 1 .. Len(bus)
        PROVE  /\ bus'[m].model = bus[m].model /\ bus'[m].serial = bus[m].serial
               /\ bus'[m].active \in 0 .. Len(bus'[m].configs)
               /\ bus'[m].claimed = "host" <=> m = n
    <2>1. CASE m = n
      <3>1. bus'[n].active \in 0 .. Len(bus'[n].configs)
        BY <1>4, <1>5
      <3> QED
        BY <1>5, <2>1, <3>1
    <2>2. CASE m # n
      BY <1>3, <1>6, <2>2
    <2> QED
      BY <2>1, <2>2
  <1>8. /\ \A m \in DOMAIN bus' : bus'[m].model # 0 /\ bus'[m].active \in 0 .. Len(bus'[m].configs)
        /\ \A m, k \in DOMAIN bus' :
               bus'[k].serial # 0 /\ bus'[m].serial = bus'[k].serial /\ bus'[m].model = bus'[k].model => m = k
    BY <1>3, <1>7, SameDevices DEF Base
  <1>9. Matches(bus'[chosen'], id') /\ bus'[chosen'].configs[bus'[chosen'].active] = "mux"
    BY <1>1, <1>3, <1>4, <1>5 DEF Matches
  <1>10. ClaimedIsChosen'
    BY <1>1, <1>2, <1>3, <1>7, <1>9 DEF ClaimedIsChosen
  <1> QED
    BY <1>1, <1>8, <1>10 DEF BusInv

LEMMA OpenUsbFailsBus ==
    ASSUME Base, BusInv, NEW i, OpenUsbFails(i)
    PROVE  BusInv'
  <1> DEFINE n == FindDevice(bus, i)
  <1>0. UNCHANGED bus \/ \E c \in Able(bus[n]) : bus' = [bus EXCEPT ![n].active = c]
    BY DEF OpenUsbFails
  <1>1. phase = "closed" /\ n # 0 /\ phase' = phase /\ chosen' = chosen /\ chosen = 0
    BY DEF OpenUsbFails, mux, Base, PhaseInv
  <1>2. CASE UNCHANGED bus
    <2>1. ClaimedIsChosen'
      BY <1>1, <1>2 DEF BusInv, ClaimedIsChosen
    <2> QED
      BY <1>1, <1>2, <2>1 DEF BusInv
  <1>3. ASSUME NEW c \in Able(bus[n]), bus' = [bus EXCEPT ![n].active = c]
        PROVE  BusInv'
    <2>1. /\ n \in 1 .. Len(bus) /\ DOMAIN bus = 1 .. Len(bus) /\ bus[n] \in UsbDevice
          /\ DOMAIN bus' = DOMAIN bus
          /\ \A m \in 1 .. Len(bus) :
                 bus'[m] = IF m = n THEN [bus[n] EXCEPT !.active = c] ELSE bus[m]
      BY <1>1, <1>3, FoundFacts DEF Base
    <2>2. c \in Nat /\ c \in 1 .. Len(bus[n].configs)
      BY <1>3, <2>1, AbleFacts
    <2> HIDE DEF n
    <2>3. \A m \in 1 .. Len(bus) : /\ bus[m].active \in 0 .. Len(bus[m].configs)
                                   /\ bus[m].claimed # "host"
      BY <1>1, DeviceFacts DEF Base
    <2>4. /\ bus'[n].model = bus[n].model /\ bus'[n].serial = bus[n].serial
          /\ bus'[n].configs = bus[n].configs
          /\ bus'[n].active = c /\ bus'[n].claimed = bus[n].claimed
      <3>1. bus'[n] = [bus[n] EXCEPT !.active = c]
        BY <2>1
      <3> QED
        BY <2>1, <3>1 DEF UsbDevice
    <2>5. ASSUME NEW m \in 1 .. Len(bus)
          PROVE  /\ bus'[m].model = bus[m].model /\ bus'[m].serial = bus[m].serial
                 /\ bus'[m].active \in 0 .. Len(bus'[m].configs) /\ bus'[m].claimed # "host"
      <3>1. CASE m = n
        <4>1. bus'[n].active \in 0 .. Len(bus'[n].configs)
          BY <2>2, <2>4
        <4> QED
          BY <2>1, <2>3, <2>4, <3>1, <4>1
      <3>2. CASE m # n
        BY <2>1, <2>3, <3>2
      <3> QED
        BY <3>1, <3>2
    <2>6. /\ \A m \in DOMAIN bus' : bus'[m].model # 0 /\ bus'[m].active \in 0 .. Len(bus'[m].configs)
          /\ \A m, k \in DOMAIN bus' :
                 bus'[k].serial # 0 /\ bus'[m].serial = bus'[k].serial /\ bus'[m].model = bus'[k].model => m = k
      BY <2>1, <2>5, SameDevices DEF Base
    <2>7. ClaimedIsChosen'
      BY <1>1, <2>1, <2>5 DEF ClaimedIsChosen
    <2> QED
      BY <1>1, <2>6, <2>7 DEF BusInv
  <1> QED
    BY <1>0, <1>2, <1>3

LEMMA PlugBus ==
    ASSUME Base, Plug
    PROVE  BusInv'
  <1>1. Pluggable(bus') /\ phase' = "closed" /\ chosen' = 0
    BY TransportsAssumption DEF Plug, mux, Base, PhaseInv
  <1> QED
    BY <1>1 DEF Pluggable, BusInv, ClaimedIsChosen

LEMMA OpenTcpBus ==
    ASSUME Base, BusInv, OpenTcp
    PROVE  BusInv'
  <1>1. /\ link' = link /\ link = "tcp" /\ phase = "closed" /\ chosen = 0
        /\ UNCHANGED <<bus, id, chosen>>
    BY DEF OpenTcp, Opened, usb, Base, PhaseInv
  <1>2. \A n \in DOMAIN bus : bus[n].claimed # "host" /\ n # 0
    BY <1>1, DeviceFacts DEF Base
  <1>3. ClaimedIsChosen'
    BY <1>1, <1>2 DEF ClaimedIsChosen
  <1> QED
    BY <1>1, <1>3 DEF BusInv

LEMMA ReadEndsBus ==
    ASSUME Base, BusInv, ReadEnds, phase # "closed"
    PROVE  BusInv'
  <1>1. CASE phase \in Handshake
    BY <1>1, ClosesBus DEF ReadEnds
  <1>2. CASE phase \notin Handshake
    <2>1. UNCHANGED <<link, usb, phase>>
      BY <1>2 DEF ReadEnds, mux
    <2> QED
      BY <2>1, QuietBus
  <1> QED
    BY <1>1, <1>2

LEMMA RunsBus ==
    ASSUME Base, BusInv, Runs \/ Send \/ Receive
    PROVE  BusInv'
  <1>0. call # "idle" => phase # "closed"
    BY DEF Base, PhaseInv
  <1>1. CASE Send \/ Receive \/ Retry \/ \E k \in 1 .. Len(left) : Moves(k)
    <2>1. UNCHANGED <<link, usb>>
      BY <1>1 DEF Send, Receive, Retry, Moves
    <2>2. phase # "closed" /\ phase' # "closed"
      BY <1>0, <1>1 DEF Send, Receive, Retry, Moves, Sent, mux, Handshake
    <2> QED
      BY <2>1, <2>2, QuietBus
  <1>2. CASE WriteFails
    <2>1. PICK k : WriteEnds(k)
      BY <1>2 DEF WriteFails
    <2>2. CASE phase \in Handshake
      BY <2>1, <2>2, ClosesBus DEF WriteEnds
    <2>3. CASE phase \notin Handshake
      <3>1. UNCHANGED <<link, usb, phase>>
        BY <2>1, <2>3 DEF WriteEnds, mux
      <3> QED
        BY <3>1, QuietBus
    <2> QED
      BY <2>2, <2>3
  <1>3. CASE ReadBuffered \/ ReadTransfer \/ ReadSocket \/ Skip \/ Received
    <2>1. UNCHANGED <<link, usb, phase>>
      BY <1>3 DEF ReadBuffered, ReadTransfer, ReadSocket, Skip, Received, mux
    <2> QED
      BY <2>1, QuietBus
  <1>4. CASE ReadFails
    BY <1>0, <1>4, ReadEndsBus DEF ReadFails, Reading
  <1>5. CASE Decode
    <2>1. phase # "closed"
      BY <1>0, <1>5 DEF Decode
    <2>2. CASE ReadEnds
      BY <2>1, <2>2, ReadEndsBus
    <2>3. CASE UNCHANGED <<link, usb, mux, left, input, device, past>>
      <3>1. UNCHANGED <<link, usb, phase>>
        BY <2>3 DEF mux
      <3> QED
        BY <3>1, QuietBus
    <2> QED
      BY <1>5, <2>2, <2>3 DEF Decode
  <1>6. CASE Answered
    <2>1. CASE Closes
      BY <2>1, ClosesBus
    <2>2. CASE Settles
      <3>1. UNCHANGED <<link, usb>> /\ phase' # "closed" /\ phase # "closed"
        BY <1>6, <2>2 DEF Answered, Settles
      <3> QED
        BY <3>1, QuietBus
    <2> QED
      BY <1>6, <2>1, <2>2 DEF Answered
  <1> QED
    BY <1>1, <1>2, <1>3, <1>4, <1>5, <1>6 DEF Runs

LEMMA NextBus ==
    ASSUME Base, BusInv, [Next]_vars
    PROVE  BusInv'
  <1>1. CASE Opening
    BY <1>1, OpenUsbBus, OpenUsbFailsBus, OpenTcpBus DEF Opening
  <1>2. CASE Runs \/ Send \/ Receive
    BY <1>2, RunsBus
  <1>3. CASE Close
    BY <1>3, ClosesBus DEF Close
  <1>4. CASE Plug
    BY <1>4, PlugBus
  <1>5. CASE DeviceAnswers \/ DeviceSends \/ UNCHANGED vars
    <2>1. UNCHANGED <<link, usb, phase>>
      BY <1>5 DEF DeviceAnswers, DeviceSends, Tells, vars, mux
    <2> QED
      BY <2>1, QuietBus
  <1> QED
    BY <1>1, <1>2, <1>3, <1>4, <1>5 DEF Next
-----------------------------------------------------------------------------
(* The invariant holds.                                                    *)

LEMMA InitInv == Init => TypeOK /\ IInv
  <1> SUFFICES ASSUME Init PROVE TypeOK /\ IInv
    OBVIOUS
  <1>1. Base
    BY InitBase
  <1>2. BusInv
    BY InitBus
  <1>3. phase = "closed" /\ taken = <<>> /\ Len(<<>>) = 0
    BY DEF Init
  <1>4. StreamInv /\ TakenInv
    BY <1>3 DEF StreamInv, TakenInv
  <1>5. WriteInv /\ NumberInv
    BY DEF Init, WriteInv, NumberInv
  <1> QED
    BY <1>1, <1>2, <1>4, <1>5 DEF IInv, Base

LEMMA NextInv == TypeOK /\ IInv /\ [Next]_vars => TypeOK' /\ IInv'
  <1> SUFFICES ASSUME TypeOK, IInv, [Next]_vars PROVE TypeOK' /\ IInv'
    OBVIOUS
  <1>1. Base /\ StreamInv /\ TakenInv /\ WriteInv /\ NumberInv /\ BusInv
    BY DEF IInv, Base
  <1>2. AnswerTold
    BY <1>1, AnswerIsTold
  <1>3. Base'
    BY <1>1, <1>2, NextBase
  <1>4. StreamInv' /\ TakenInv'
    BY <1>1, NextStream
  <1>5. WriteInv' /\ NumberInv'
    BY <1>1, NextWrites
  <1>6. BusInv'
    BY <1>1, NextBus
  <1> QED
    BY <1>3, <1>4, <1>5, <1>6 DEF IInv, Base

LEMMA Invariance == Spec => [](TypeOK /\ IInv)
  BY InitInv, NextInv, PTL DEF Spec

(* Whatever the transports do, the state stays what the code declares it to *)
(* be, and no frame or buffer outgrows kMaxFrameSize (Session::receive,    *)
(* UsbTransport::read).                                                    *)
THEOREM TypeCorrect == Spec => []TypeOK
  BY Invariance, PTL

-----------------------------------------------------------------------------
(* What passes a transport.                                                *)

LEMMA InvIntact == TypeOK /\ IInv => BytesIntact
  <1> SUFFICES ASSUME TypeOK, IInv PROVE BytesIntact
    OBVIOUS
  <1>1. FramesAsSent
    <2> SUFFICES ASSUME ~spoilt
                 PROVE  taken = [k \in DOMAIN taken |-> Units(stale + 1 + k, "tcp", taken[k][1].length)]
      BY DEF FramesAsSent
    <2>1. taken \in Seq(Seq(Unit)) /\ DOMAIN taken = 1 .. Len(taken)
      BY TypeFacts, LenProperties
    <2>2. taken = [k \in DOMAIN taken |-> taken[k]]
      BY <2>1
    <2>3. \A k \in DOMAIN taken : taken[k] = Units(stale + 1 + k, "tcp", taken[k][1].length)
      BY <2>1 DEF IInv, TakenInv
    <2> QED
      BY <2>2, <2>3
  <1>2. WrittenWhole
    <2> SUFFICES ASSUME ~torn, call # "write" PROVE heard = out
      BY DEF WrittenWhole
    <2>1. left = <<>>
      BY DEF IInv, CallInv, TypeOK
    <2>2. heard \in Seq(Unit) /\ out \in Seq(Unit)
      BY TypeFacts
    <2> QED
      BY <2>1, <2>2, ConcatEmptySeq DEF IInv, WriteInv
  <1> QED
    BY <1>1, <1>2 DEF BytesIntact

(* However a transport cuts the bytes, receive returns the frames of the   *)
(* device whole, once and in order, and the device hears what was written, *)
(* until a read or a write fails (UsbTransport::read, write,               *)
(* TcpTransport::read, write, Session::send, receive).                     *)
THEOREM BytesArrive == Spec => []BytesIntact
  BY Invariance, InvIntact, PTL

-----------------------------------------------------------------------------
(* What is opened.                                                         *)

LEMMA InvSettled == TypeOK /\ IInv => ReadyIsSettled
  BY DEF IInv, PhaseInv, NumberInv, ReadyIsSettled

\* A name that list gives is of one device.
LEMMA InvSelectable == TypeOK /\ IInv => ListedIsSelectable
  <1> SUFFICES ASSUME TypeOK, IInv, NEW n \in Listed(bus)
               PROVE  FindDevice(bus, IdOf(bus[n])) = n
    BY DEF ListedIsSelectable
  <1> DEFINE i     == IdOf(bus[n])
             found == {m \in DOMAIN bus : Matches(bus[m], i)}
  <1>1. BusInv
    BY DEF IInv
  <1>2. n \in DOMAIN bus /\ bus[n].serial # 0 /\ bus[n].model # 0
    BY <1>1 DEF Listed, BusInv
  <1>3. i.model = bus[n].model /\ i.serial = bus[n].serial
    BY DEF IdOf
  <1>4. n \in found
    BY <1>2, <1>3 DEF Matches
  <1>5. \A m \in found : m = n
    BY <1>1, <1>2, <1>3 DEF Matches, BusInv
  <1>6. found \subseteq Nat
    BY DeviceFacts, <1>1
  <1>7. Min(found) = n
    BY <1>4, <1>5, <1>6, MinFacts
  <1> QED
    BY <1>4, <1>7 DEF FindDevice

\* A frame of the device has a length that the buffer has room for.
LEMMA DecodeSucceeds ==
    ASSUME Base, StreamInv, ~spoilt, phase # "closed", Decode
    PROVE  phase' = phase
  <1>1. /\ call = "header" /\ Len(frame) = Header(version) /\ Header(version) \in 1 .. 2
    BY HeadFacts DEF Decode
  <1>2. Len(frame) >= 1
    BY <1>1
  <1>3. PICK sent \in 1 .. 3 :
           frame[1].index = 1 /\ frame[1].length = sent /\ Header(version) <= sent
    BY <1>1, <1>2, FrameComes
  <1>4. Lengths = {sent}
    BY <1>3 DEF Lengths
  <1>5. ~(sent < Header(version) \/ sent > BufUnits)
    BY <1>1, <1>3, ConstFacts
  <1>6. UNCHANGED <<link, usb, mux, left, input, device, past>>
    BY <1>4, <1>5 DEF Decode
  <1> QED
    BY <1>6 DEF mux

LEMMA InvOutlasts ==
    ASSUME TypeOK, IInv, Next, phase = "answer", phase' = "closed"
    PROVE  tries + 1 = MaxTries \/ faults' > faults \/ peer = 3 \/ stale >= Attempts
  <1>1. Base /\ StreamInv /\ ~spoilt /\ call # "write" /\ faults \in Nat
    BY DEF IInv, Base, PhaseInv, CallInv, Handshake, TypeOK
  <1>2. ReadFails \/ Answered
    <2>1. ~Opening /\ ~Plug /\ ~Close /\ ~DeviceSends
      BY DEF Opening, OpenTcp, OpenUsb, OpenUsbFails, Plug, Close, DeviceSends
    <2>2. ~DeviceAnswers
      BY DEF DeviceAnswers, Tells, mux
    <2>3. ~(Send \/ Receive \/ Retry \/ WriteFails \/ \E k \in 1 .. Len(left) : Moves(k))
      BY <1>1 DEF Send, Receive, Retry, WriteFails, Moves, mux
    <2>4. ~(ReadBuffered \/ ReadTransfer \/ ReadSocket \/ Skip \/ Received)
      BY DEF ReadBuffered, ReadTransfer, ReadSocket, Skip, Received, mux
    <2>5. ~Decode
      BY <1>1, DecodeSucceeds
    <2> QED
      BY <2>1, <2>2, <2>3, <2>4, <2>5 DEF Next, Runs
  <1>3. CASE ReadFails
    BY <1>1, <1>3 DEF ReadFails
  <1>4. CASE Answered
    <2>1. ~(IsAnswer /\ peer \in {1, 2})
      BY <1>4 DEF Answered, Settles
    <2>2. CASE IsAnswer
      BY <2>1, <2>2 DEF TypeOK
    <2>3. CASE ~IsAnswer
      <3>1. call = "payload" /\ Need = 0 /\ attempt + 1 = Attempts
        BY <1>4, <2>3 DEF Answered
      <3>2. frame[1].proto = Proto(Current, stale) /\ Current <= told
        BY <1>1, <3>1, WholeFrame
      <3>3. Current # stale + 1 /\ Current = Attempts
        BY <2>3, <3>1, <3>2 DEF IsAnswer, Current, Proto
      <3>4. told \in {stale, stale + 1}
        BY <1>1 DEF Base, PhaseInv
      <3>5. stale \in Nat /\ Attempts \in Nat
        BY TypeFacts, ConstFacts
      <3> QED
        BY <3>2, <3>3, <3>4, <3>5
    <2> QED
      BY <2>2, <2>3
  <1> QED
    BY <1>2, <1>3, <1>4

\* Only opening sets a configuration, on a device in a right one only by a fault.
LEMMA InvLeftAlone ==
    ASSUME TypeOK, IInv, Next, resets' # resets
    PROVE  faults' > faults
  <1>1. resets \in Nat /\ faults \in Nat
    BY DEF TypeOK
  <1>2. ASSUME NEW i \in Ids, OpenUsb(i) PROVE faults' > faults
    <2>1. PICK d, c : Configures(d, c)
      BY <1>2 DEF OpenUsb
    <2>2. ~(c = FindMux(d) /\ Sets(d, c # d.active))
      <3> SUFFICES ASSUME c = FindMux(d), Sets(d, c # d.active) PROVE FALSE
        OBVIOUS
      <3>1. CASE d.active \in Able(d)
        <4>1. c = d.active
          BY <3>1 DEF FindMux
        <4> QED
          BY <1>1, <4>1 DEF Sets
      <3>2. CASE d.active \notin Able(d)
        BY <1>1, <3>2 DEF Sets
      <3> QED
        BY <3>1, <3>2
    <2> QED
      BY <1>1, <2>1, <2>2 DEF Configures
  <1>3. ASSUME NEW i \in Ids, OpenUsbFails(i) PROVE faults' > faults
    BY <1>1, <1>3 DEF OpenUsbFails
  <1>4. UNCHANGED resets \/ \E i \in Ids : OpenUsb(i) \/ OpenUsbFails(i)
    <2>1. CASE Opening
      BY <2>1 DEF Opening, OpenTcp, usb
    <2>2. CASE Plug \/ Close
      BY <2>2 DEF Plug, Close, Closes
    <2>4. CASE Send \/ Receive \/ Retry \/ WriteFails \/ \E k \in 1 .. Len(left) : Moves(k)
      BY <2>4 DEF Send, Receive, Retry, WriteFails, WriteEnds, Closes, Moves, usb
    <2>5. CASE ReadBuffered \/ ReadTransfer \/ ReadSocket \/ ReadFails \/ Skip \/ Received
      BY <2>5 DEF ReadBuffered, ReadTransfer, ReadSocket, ReadFails, ReadEnds, Closes, Skip, Received, usb
    <2>6. CASE Decode \/ Answered
      BY <2>6 DEF Decode, ReadEnds, Closes, Answered, Settles, usb
    <2>7. CASE DeviceAnswers \/ DeviceSends
      BY <2>7 DEF DeviceAnswers, DeviceSends, Tells, usb
    <2> QED
      BY <2>1, <2>2, <2>4, <2>5, <2>6, <2>7 DEF Next, Runs
  <1> QED
    BY <1>2, <1>3, <1>4

(* What is opened is the device that was asked for, in a version both      *)
(* speak; the handshake fails only for a reason and outlasts the frames    *)
(* left over from the run before, and no configuration is set on a device  *)
(* in a right one unless libusb fails (UsbTransport::open, list,           *)
(* find_mux_interface, Connection::open).                                  *)
THEOREM OpensTrue == Spec => OpensAsAsked
  <1>1. TypeOK /\ IInv => ReadyIsSettled /\ ClaimedIsChosen /\ ListedIsSelectable
    BY InvSettled, InvSelectable DEF IInv, BusInv
  <1>2. TypeOK /\ IInv /\ [Next]_vars =>
          [phase = "answer" /\ phase' = "closed" =>
             \/ tries + 1 = MaxTries \/ faults' > faults
             \/ peer = 3 \/ stale >= Attempts]_vars
    BY InvOutlasts
  <1>3. TypeOK /\ IInv /\ [Next]_vars =>
          [resets' # resets => faults' > faults]_vars
    BY InvLeftAlone
  <1>4. Spec => [](ReadyIsSettled /\ ClaimedIsChosen /\ ListedIsSelectable)
    BY <1>1, Invariance, PTL
  <1>5. Spec => HandshakeOutlastsStale
    BY <1>2, Invariance, PTL DEF Spec, HandshakeOutlastsStale
  <1>6. Spec => LeftAlone
    BY <1>3, Invariance, PTL DEF Spec, LeftAlone
  <1> QED
    BY <1>4, <1>5, <1>6 DEF OpensAsAsked
=============================================================================
