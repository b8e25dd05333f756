----------------------------- MODULE Transports ----------------------------
(***************************************************************************)
(* What is under the mux link: the USB and TCP transports                  *)
(* (src/src/usb/usb_transport.cpp, src/src/tcp/tcp_transport.cpp), the      *)
(* frames that Session cuts their bytes into, and the handshake that        *)
(* Connection::open begins with: the mux version of a direct link, a plist  *)
(* request to usbmuxd over TCP.                                             *)
(*                                                                         *)
(* A unit is eight bytes of a frame: a header is one unit, or two from mux *)
(* version 2 on; the length prefix of a plist is one too.  A frame goes out *)
(* as one write, on USB in one transfer.  What comes in is a stream that is *)
(* cut anywhere: a transfer "may hold several partial or whole mux frames"  *)
(* (usb_transport.cpp:33).                                                  *)
(***************************************************************************)
EXTENDS Naturals, Sequences, FiniteSetsExt

CONSTANTS
    Links,         \* the kinds of transport: a subset of {"usb", "tcp"}
    Buses,         \* what may be plugged in: sequences of devices
    Ids,           \* the selectors a caller may give
    Attempts,      \* kVersionRetryAttempts
    BufUnits,      \* kReadBufferSize and kMaxFrameSize, in units
    MaxTries,      \* bound: transfers a budget has room for
    MaxStale,      \* bound: frames left over from the run before
    MaxFrames,     \* bound: frames the device sends behind its answer
    MaxSends,      \* bound: frames the host sends behind the handshake
    MaxFaults      \* bound: errors of the transport

\* A device: its configurations, the active one by its position or 0, and who has
\* claimed the mux interface.
UsbDevice == [model : Nat, serial : Nat, configs : Seq({"mux", "other"}), active : Nat,
              claimed : {"none", "host", "usbmuxd"}]

\* What may be plugged in while the host has no transport: a model is a product id,
\* which is not 0, the active configuration is one of the device's own, and a serial
\* that can be read is of one device of its model.
Pluggable(b) ==
    /\ b \in Seq(UsbDevice)
    /\ \A n \in DOMAIN b : /\ b[n].model # 0 /\ b[n].claimed # "host"
                           /\ b[n].active \in 0 .. Len(b[n].configs)
    /\ \A m, n \in DOMAIN b :
           b[n].serial # 0 /\ b[m].serial = b[n].serial /\ b[m].model = b[n].model => m = n

ASSUME TransportsAssumption ==
    /\ Links \subseteq {"usb", "tcp"}
    /\ \A b \in Buses : Pluggable(b)
    /\ Ids \subseteq [model : Nat, serial : Nat]
    /\ {Attempts, BufUnits, MaxTries} \subseteq Nat \ {0} /\ BufUnits >= 3
    /\ {MaxStale, MaxFrames, MaxSends, MaxFaults} \subseteq Nat

VARIABLES
    link,          \* the kind of the transport
    bus,           \* the devices plugged in
    id, chosen,    \* the selector of the transport, and the position of its device
    resets,        \* history: times a configuration was set where a right one was active
    phase,         \* "closed", then the handshake: "request", "answer", "setup", then "ready"
    version,       \* Session::version_
    tx_seq,        \* Session::tx_seq_
    attempt,       \* frames skipped while the version answer is waited for
    call,          \* the call in progress: "idle", "write", "header", "payload"
    left,          \* write: the units not sent yet
    frame,         \* header, payload: the units of the frame read so far
    tries,         \* transfers of this call that moved nothing
    incoming,      \* UsbTransport::Impl::incoming, from incoming_offset on
    size,          \* how much of it the last transfer filled
    wire,          \* device to host: the units on their way
    heard,         \* device: the units it received on this link
    peer,          \* device: its mux version, or 1 for usbmuxd; 3 if it will not do
    told,          \* device: frames it sent, stale ones included
    stale,         \* history: frames left over when the link was opened
    taken,         \* history: the frames received behind the handshake
    written,       \* history: the frames whose write reported success
    out,           \* history: their units
    spoilt, torn,  \* history: a read, a write of this link failed
    faults

usb    == <<bus, id, chosen, resets>>
mux    == <<phase, version, tx_seq, attempt>>
input  == <<incoming, size, wire>>
device == <<heard, peer, told>>
past   == <<stale, taken, written, out, spoilt, torn>>
vars   == <<link, usb, mux, call, left, frame, tries, input, device, past, faults>>

Handshake == {"request", "answer", "setup"}

\* The selector without a model and a serial.
AnyId == [model |-> 0, serial |-> 0]

\* A unit says which frame it is of, and where in it.
Unit == [frame : Nat, index : Nat, length : Nat,
         proto : {"request", "setup", "answer", "tcp", "zero"}]

TypeOK ==
    /\ link \in Links /\ bus \in Seq(UsbDevice)
    /\ id \in Ids \cup {AnyId} /\ chosen \in 0 .. Len(bus) /\ resets \in Nat
    /\ phase \in {"closed", "ready"} \cup Handshake
    /\ call \in {"idle", "write", "header", "payload"}
    /\ version \in 0 .. 2 /\ peer \in 1 .. 3
    /\ tx_seq \in Nat /\ told \in Nat /\ stale \in Nat
    /\ left \in Seq(Unit) /\ frame \in Seq(Unit) /\ incoming \in Seq(Unit)
    /\ heard \in Seq(Unit) /\ out \in Seq(Unit) /\ wire \in Seq(Unit)
    /\ taken \in Seq(Seq(Unit)) /\ written \in Seq(Seq(Unit))
    /\ Len(frame) <= BufUnits /\ Len(incoming) <= BufUnits /\ size \in 0 .. BufUnits
    /\ tries \in 0 .. MaxTries /\ attempt \in 0 .. Attempts
    /\ spoilt \in BOOLEAN /\ torn \in BOOLEAN /\ faults \in 0 .. MaxFaults

-----------------------------------------------------------------------------
(* Finding a device.  A configuration is "mux", or "other" when it lacks the *)
(* interface or one of its endpoints; a zero model or serial matches any.    *)

Matches(d, i) == (i.model = 0 \/ d.model = i.model) /\ (i.serial = 0 \/ d.serial = i.serial)

FindDevice(b, i) ==
    LET found == {n \in DOMAIN b : Matches(b[n], i)}
    IN  IF found = {} THEN 0 ELSE Min(found)

\* The active configuration if it has the interface, else the last that has.
Able(d) == {c \in DOMAIN d.configs : d.configs[c] = "mux"}

FindMux(d) ==
    IF d.active \in Able(d) THEN d.active ELSE IF Able(d) = {} THEN 0 ELSE Max(Able(d))

IdOf(d) == [model |-> d.model, serial |-> d.serial]

\* list() leaves out what has no mux interface, or a serial it cannot read.
Listed(b) == {n \in DOMAIN b : FindMux(b[n]) # 0 /\ b[n].serial # 0}

Init ==
    /\ link \in Links /\ bus \in (IF link = "usb" THEN Buses ELSE {<<>>})
    /\ id = AnyId /\ chosen = 0 /\ resets = 0
    /\ phase = "closed" /\ version = 0 /\ tx_seq = 0 /\ attempt = 0
    /\ call = "idle" /\ left = <<>> /\ frame = <<>> /\ tries = 0
    /\ incoming = <<>> /\ size = 0 /\ wire = <<>>
    /\ heard = <<>> /\ peer = 1 /\ told = 0
    /\ stale = 0 /\ taken = <<>> /\ written = <<>> /\ out = <<>> /\ spoilt = FALSE /\ torn = FALSE
    /\ faults = 0

-----------------------------------------------------------------------------
(* Opening and closing.                                                     *)

Header(v) == IF v >= 2 THEN 2 ELSE 1

Units(n, proto, length) ==
    [i \in 1 .. length |-> [frame |-> n, index |-> i, length |-> length, proto |-> proto]]
Zero == [frame |-> 0, index |-> 0, length |-> 0, proto |-> "zero"]

\* n frames of one length, one behind the other.
Stale(n, length) ==
    [i \in 1 .. n * length |->
        [frame |-> ((i - 1) \div length) + 1, index |-> ((i - 1) % length) + 1, length |-> length, proto |-> "tcp"]]

\* A new transport, with what the device still had for the last one on its way.
Opened(n, v) ==
    /\ phase' = "request" /\ version' = 0 /\ tx_seq' = 0 /\ attempt' = 0
    /\ wire' = Stale(n, Header(v) + 1)
    /\ told' = n /\ stale' = n /\ peer' = v
    /\ UNCHANGED <<link, call, left, frame, tries, incoming, size, heard, taken, written, out, spoilt, torn>>

\* Whether a configuration is set on device d.
Sets(d, set) == resets' = resets + (IF set /\ d.active \in Able(d) THEN 1 ELSE 0)

\* The one that is found is set unless it is active.  When a descriptor cannot be read,
\* another may be found; when the active configuration cannot, it is set anyway.
Configures(d, c) ==
    \/ c = FindMux(d) /\ Sets(d, c # d.active) /\ UNCHANGED faults
    \/ /\ faults < MaxFaults /\ faults' = faults + 1
       /\ \E set \in BOOLEAN : (c # d.active => set) /\ Sets(d, set)

OpenUsb(i) ==
    /\ phase = "closed" /\ link = "usb"
    /\ LET n == FindDevice(bus, i)
       IN  /\ n # 0 /\ bus[n].claimed = "none" /\ id' = i /\ chosen' = n
           /\ \E c \in Able(bus[n]) :
                Configures(bus[n], c) /\ bus' = [bus EXCEPT ![n].active = c, ![n].claimed = "host"]
    /\ \E k \in 0 .. MaxStale, v \in 1 .. 3 : Opened(k, v)

\* libusb fails on the way; a configuration may have been set by then.
OpenUsbFails(i) ==
    /\ phase = "closed" /\ link = "usb" /\ faults < MaxFaults /\ faults' = faults + 1
    /\ LET n == FindDevice(bus, i)
       IN  /\ n # 0 /\ bus[n].claimed = "none"
           /\ \/ UNCHANGED <<bus, resets>>
              \/ \E c \in Able(bus[n]) : Sets(bus[n], TRUE) /\ bus' = [bus EXCEPT ![n].active = c]
    /\ UNCHANGED <<link, id, chosen, mux, call, left, frame, tries, input, device, past>>

\* The first of the endpoint's addresses that answers in time; a new socket has
\* nothing of an old one.
OpenTcp ==
    /\ phase = "closed" /\ link = "tcp"
    /\ \E v \in {1, 3} : Opened(0, v)
    /\ UNCHANGED <<usb, faults>>

\* close, or the destructor of a transport that Connection::open gave up.
Closes ==
    /\ phase' = "closed" /\ version' = 0 /\ tx_seq' = 0 /\ attempt' = 0 /\ chosen' = 0
    /\ bus' = IF chosen = 0 THEN bus ELSE [bus EXCEPT ![chosen].claimed = "none"]
    /\ call' = "idle" /\ left' = <<>> /\ frame' = <<>> /\ tries' = 0
    /\ incoming' = <<>> /\ size' = 0 /\ wire' = <<>>
    /\ heard' = <<>> /\ peer' = 1 /\ told' = 0
    /\ stale' = 0 /\ taken' = <<>> /\ written' = <<>> /\ out' = <<>> /\ spoilt' = FALSE /\ torn' = FALSE
    /\ id' = AnyId /\ UNCHANGED <<link, resets>>

Close == phase = "ready" /\ call = "idle" /\ Closes /\ UNCHANGED faults

-----------------------------------------------------------------------------
(* Writing a frame.                                                         *)

HostFrame(n) == CASE phase = "request" -> Units(n, "request", 3)
                  [] phase = "setup"   -> Units(n, "setup", Header(version) + 1)
                  [] OTHER             -> Units(n, "tcp", Header(version) + 1)

Send ==
    /\ call = "idle"
    /\ phase \in {"request", "setup"} \/ (phase = "ready" /\ tx_seq <= MaxSends)
    /\ call' = "write" /\ left' = HostFrame(tx_seq) /\ tries' = 0 /\ tx_seq' = tx_seq + 1
    /\ UNCHANGED <<link, usb, phase, version, attempt, frame, input, device, past, faults>>

\* The frame is sent: the handshake goes on to its next step.
Sent ==
    /\ call' = "idle" /\ left' = <<>> /\ tries' = 0
    /\ phase' = CASE phase = "request" -> "answer" [] phase = "setup" -> "ready" [] OTHER -> phase

\* Mutant: a transfer that moved a part is tried again.
MovesAgain(k) ==
    /\ call = "write"
    /\ heard' = heard \o SubSeq(left, 1, k)
    /\ IF k = Len(left)
         THEN /\ Sent
              /\ written' = Append(written, HostFrame(tx_seq - 1))
              /\ out' = out \o HostFrame(tx_seq - 1)
         ELSE /\ Len(heard) < 2 * BufUnits
              /\ UNCHANGED <<phase, call, left, tries, written, out>>
    /\ UNCHANGED <<link, usb, version, tx_seq, attempt, frame, input, peer, told, stale, taken, spoilt, torn, faults>>

\* USB moves a frame in one transfer, TCP in as many sends as it takes.
Moves(k) ==
    /\ call = "write"
    /\ link = "usb" => k = Len(left)
    /\ heard' = heard \o SubSeq(left, 1, k)
    /\ IF k = Len(left)
         THEN /\ Sent
              /\ written' = Append(written, HostFrame(tx_seq - 1))
              /\ out' = out \o HostFrame(tx_seq - 1)
         ELSE /\ left' = SubSeq(left, k + 1, Len(left))
              /\ UNCHANGED <<phase, call, tries, written, out>>
    /\ UNCHANGED <<link, usb, version, tx_seq, attempt, frame, input, peer, told, stale, taken, spoilt, torn, faults>>

\* Mutant: the budget is not looked at.
RetryPast ==
    /\ call # "idle"
    /\ call = "write" \/ (incoming = <<>> /\ wire = <<>>)
    /\ tries' = tries + 1
    /\ UNCHANGED <<link, usb, mux, call, left, frame, input, device, past, faults>>

\* Mutant: every attempt has the budget anew.
RetryForEver == call # "idle" /\ UNCHANGED vars

\* Nothing was moved; within the budget the transfer is tried again.
Retry ==
    /\ call # "idle" /\ tries + 1 < MaxTries
    /\ call = "write" \/ (incoming = <<>> /\ wire = <<>>)
    /\ tries' = tries + 1
    /\ UNCHANGED <<link, usb, mux, call, left, frame, input, device, past, faults>>

\* What a failed call does: Connection::open ends, another returns.
WriteEnds(k) ==
    IF phase \in Handshake THEN Closes
    ELSE /\ call' = "idle" /\ left' = <<>> /\ tries' = 0 /\ torn' = TRUE
         /\ heard' = heard \o SubSeq(left, 1, k)
         /\ UNCHANGED <<link, usb, mux, frame, input, peer, told, stale, taken, written, out, spoilt>>

\* The budget is used up, or the transfer failed with a part of it moved.
WriteFails ==
    /\ call = "write"
    /\ \/ tries + 1 = MaxTries /\ WriteEnds(0) /\ UNCHANGED faults
       \/ /\ faults < MaxFaults /\ faults' = faults + 1
          /\ \E k \in 0 .. Len(left) - 1 : WriteEnds(k)

-----------------------------------------------------------------------------
(* Reading a frame.                                                         *)

Receives == call' = "header" /\ frame' = <<>> /\ tries' = 0

Receive ==
    /\ call = "idle" /\ phase \in {"answer", "ready"}
    /\ Receives
    /\ UNCHANGED <<link, usb, mux, left, input, device, past, faults>>

Need == (IF call = "header" THEN Header(version) ELSE frame[1].length) - Len(frame)

Reading == call \in {"header", "payload"} /\ Need > 0

Least(a, b) == IF a < b THEN a ELSE b

\* UsbTransport::read hands out what it has buffered,
ReadBuffered ==
    /\ Reading /\ incoming # <<>>
    /\ LET k == Least(Need, Len(incoming))
       IN  frame' = frame \o SubSeq(incoming, 1, k) /\ incoming' = SubSeq(incoming, k + 1, Len(incoming))
    /\ tries' = 0
    /\ UNCHANGED <<link, usb, mux, call, left, size, wire, device, past, faults>>

\* and fills its buffer by one transfer, of which a timeout may leave a part behind.
Rest(k) == SubSeq(wire, k + 1, Len(wire))

ReadTransfer ==
    /\ Reading /\ link = "usb" /\ incoming = <<>> /\ wire # <<>>
    /\ \E k \in 1 .. Least(BufUnits, Len(wire)) :
         incoming' = SubSeq(wire, 1, k) /\ size' = k /\ wire' = Rest(k)
    /\ UNCHANGED <<link, usb, mux, call, left, frame, tries, device, past, faults>>

\* recv has whatever arrived, up to what was asked for.
ReadSocket ==
    /\ Reading /\ link = "tcp" /\ wire # <<>>
    /\ \E k \in 1 .. Least(Need, Len(wire)) :
         frame' = frame \o SubSeq(wire, 1, k) /\ wire' = Rest(k)
    /\ tries' = 0
    /\ UNCHANGED <<link, usb, mux, call, left, incoming, size, device, past, faults>>

ReadEnds ==
    IF phase \in Handshake THEN Closes
    ELSE /\ call' = "idle" /\ frame' = <<>> /\ tries' = 0 /\ spoilt' = TRUE
         /\ UNCHANGED <<link, usb, mux, left, device, stale, taken, written, out, torn>>

\* A failed transfer leaves the buffer as long as it was made for it: from where the
\* last one ended, what units of its own there are, and zeros behind them.
Leftover(k) == [i \in 1 .. BufUnits - size |-> IF size + i <= k THEN wire[size + i] ELSE Zero]

\* A zero-length transfer empties the buffer.
ReadFails ==
    /\ Reading /\ incoming = <<>>
    /\ \/ wire = <<>> /\ tries + 1 = MaxTries /\ UNCHANGED faults
       \/ faults < MaxFaults /\ faults' = faults + 1
    /\ ReadEnds
    /\ phase \notin Handshake =>
         \/ link = "tcp" /\ UNCHANGED input
         \/ link = "usb" /\ UNCHANGED size
              /\ \E k \in 0 .. Least(BufUnits, Len(wire)) : incoming' = Leftover(k) /\ wire' = Rest(k)
         \/ link = "usb" /\ faults' # faults /\ size' = 0 /\ UNCHANGED <<incoming, wire>>

\* The header is read: what is no header has any length.
Lengths == IF frame[1].index = 1 \/ frame[1] = Zero THEN {frame[1].length} ELSE 0 .. BufUnits

Decode ==
    /\ call = "header" /\ Need = 0
    /\ \E length \in Lengths :
         IF length < Header(version) \/ length > BufUnits
           THEN ReadEnds /\ (phase \notin Handshake => UNCHANGED input)
           ELSE /\ frame' = [frame EXCEPT ![1].length = length]
                /\ call' = "payload" /\ tries' = 0
                /\ UNCHANGED <<link, usb, mux, left, input, device, past>>
    /\ UNCHANGED faults

-----------------------------------------------------------------------------
(* What the frame is.                                                       *)

IsAnswer == frame[1].proto = "answer"

\* Mutant: the first frame has to be the answer.
SkipNot ==
    /\ call = "payload" /\ Need = 0 /\ phase = "answer" /\ ~IsAnswer
    /\ Closes /\ UNCHANGED faults

\* Frames left over from the run before are skipped, so many of them at most.
Skip ==
    /\ call = "payload" /\ Need = 0 /\ phase = "answer" /\ ~IsAnswer /\ attempt + 1 < Attempts
    /\ attempt' = attempt + 1 /\ Receives
    /\ UNCHANGED <<link, usb, phase, version, tx_seq, left, input, device, past, faults>>

\* The device's answer settles the version; from 2 on the numbers begin anew with
\* the setup packet.
Settles ==
    /\ version' = IF link = "usb" THEN peer ELSE 0
    /\ IF peer = 2 THEN phase' = "setup" /\ tx_seq' = 0 ELSE phase' = "ready" /\ UNCHANGED tx_seq
    /\ call' = "idle" /\ frame' = <<>> /\ tries' = 0
    /\ UNCHANGED <<link, usb, attempt, left, input, device, past>>

Answered ==
    /\ call = "payload" /\ Need = 0 /\ phase = "answer"
    /\ IsAnswer \/ attempt + 1 = Attempts
    /\ IF IsAnswer /\ peer \in {1, 2} THEN Settles ELSE Closes
    /\ UNCHANGED faults

Received ==
    /\ call = "payload" /\ Need = 0 /\ phase = "ready"
    /\ taken' = Append(taken, frame)
    /\ call' = "idle" /\ frame' = <<>> /\ tries' = 0
    /\ UNCHANGED <<link, usb, mux, left, input, device, stale, written, out, spoilt, torn, faults>>

-----------------------------------------------------------------------------
(* The device, or usbmuxd.                                                  *)

Tells(proto, length) ==
    /\ told' = told + 1
    /\ wire' = wire \o Units(told + 1, proto, length)
    /\ UNCHANGED <<link, usb, mux, call, left, frame, tries, incoming, size, heard, peer, past, faults>>

DeviceAnswers == phase = "answer" /\ told = stale /\ Tells("answer", 3)

DeviceSends ==
    /\ phase = "ready" /\ told - stale <= MaxFrames
    /\ \E n \in 0 .. 1 : Tells("tcp", Header(version) + n)

Plug ==
    /\ phase = "closed" /\ link = "usb"
    /\ bus' \in Buses
    /\ UNCHANGED <<link, id, chosen, resets, mux, call, left, frame, tries, input, device, past, faults>>

-----------------------------------------------------------------------------
Opening == OpenTcp \/ \E i \in Ids : OpenUsb(i) \/ OpenUsbFails(i)

Runs == \/ \E k \in 1 .. Len(left) : Moves(k)
        \/ Retry \/ WriteFails \/ ReadBuffered \/ ReadTransfer \/ ReadSocket \/ ReadFails \/ Decode
        \/ Skip \/ Answered \/ Received
        \/ phase \in Handshake /\ (Send \/ Receive)

Next == \/ Opening \/ Runs \/ Close
        \/ phase = "ready" /\ (Send \/ Receive)
        \/ DeviceAnswers \/ DeviceSends \/ Plug

Spec == Init /\ [][Next]_vars

\* A call goes on as long as it can; of the device nothing is asked.
FairSpec == Spec /\ WF_vars(Runs)

-----------------------------------------------------------------------------
(* What receive returns behind the handshake is what the device sent behind  *)
(* its answer, frame by frame, each whole and once, however the bytes were   *)
(* cut, as long as no read failed (Session::receive, UsbTransport::read).    *)
FramesAsSent ==
    ~spoilt => taken = [k \in DOMAIN taken |-> Units(stale + 1 + k, "tcp", taken[k][1].length)]

(* What the device heard is what was written, nothing of it twice or left    *)
(* out, as long as no write failed (bulk_transfer, TcpTransport::write).     *)
WrittenWhole == ~torn /\ call # "write" => heard = out

(* A link that is ready has the version of its device, and on version 2 the  *)
(* frames are numbered from the setup packet on (Connection::open).          *)
ReadyIsSettled ==
    phase = "ready" /\ link = "usb" =>
      /\ version = peer
      /\ version = 2 /\ ~torn => \A k \in 2 .. Len(written) : written[k][1].frame = k - 2

(* The handshake fails only for a reason: a transfer that failed, a device   *)
(* that will not do, or more stale frames than it skips (Connection::open).  *)
HandshakeOutlastsStale ==
    [][phase = "answer" /\ phase' = "closed" =>
         \/ tries + 1 = MaxTries \/ faults' > faults
         \/ peer = 3 \/ stale >= Attempts]_vars

(* The device in use is one the selector matches, is claimed, and is in a    *)
(* configuration with the mux interface; no other one is claimed, and none   *)
(* is between two transports (UsbTransport::open, close).                    *)
ClaimedIsChosen ==
    /\ \A n \in DOMAIN bus : bus[n].claimed = "host" <=> phase # "closed" /\ n = chosen
    /\ chosen # 0 => Matches(bus[chosen], id) /\ bus[chosen].configs[bus[chosen].active] = "mux"

(* No configuration is set on a device whose active one has the interface, so *)
(* "an already-correct device is left alone" (usb_transport.cpp:171), as long *)
(* as its descriptors and configuration can be read (find_mux_interface).    *)
LeftAlone == [][resets' # resets => faults' > faults]_vars

(* What list() names is what its name opens (UsbTransport::list).            *)
ListedIsSelectable == \A n \in Listed(bus) : FindDevice(bus, IdOf(bus[n])) = n

(* What passes a transport is neither cut, repeated nor left out, however    *)
(* the transfers split it, in either direction.                             *)
BytesIntact == FramesAsSent /\ WrittenWhole

(* What is opened is what was asked for, in a version both speak, and opening *)
(* is gentle: the handshake fails for a reason only, and no configuration is *)
(* set on a device in a right one unless libusb fails.                      *)
OpensAsAsked ==
    /\ [](ReadyIsSettled /\ ClaimedIsChosen /\ ListedIsSelectable)
    /\ HandshakeOutlastsStale /\ LeftAlone

(* Every call returns and every handshake ends, whatever the device does.    *)
CallsReturn == phase \in Handshake \/ call # "idle" ~> phase \notin Handshake /\ call = "idle"

(* What a read hands out was received: "the remainder is buffered and handed *)
(* out by later reads" (usb_transport.cpp:523).                              *)
HandsOutReceived == Zero \notin {frame[k] : k \in DOMAIN frame}

=============================================================================
