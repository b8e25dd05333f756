-------------------------------- MODULE Rsd --------------------------------
(***************************************************************************)
(* The CoreDevice path to a service: Tunnel::open (src/src/tunnel.cpp,      *)
(* protocol/cdtunnel.cpp) on a stream of the device, Rsd::connect with its  *)
(* RemoteXPC handshake on a first link through the tunnel, and              *)
(* Rsd::start_service with its check-in on one more (src/src/rsd.cpp).      *)
(* The links are reliable streams of messages here (see TunnelTcp, Http2).  *)
(***************************************************************************)
EXTENDS Naturals, Sequences

CONSTANTS
    Services,      \* the names of the services
    Shims,         \* those that end in kShimSuffix
    MaxNoise       \* bound: messages the device sends before its handshake

ASSUME RsdAssumption == Shims \subseteq Services /\ MaxNoise \in Nat

VARIABLES
    tunnel,        \* Tunnel::open: "none", "header", "body", then "up"
    rsd,           \* Rsd::connect: "none", "setup", "answer", then "up"
    setup,         \* device: the setup frames it received
    replies,       \* to the host: the tunnel's answer, the messages of the RSD
    shaken,        \* device: it sent the answer it owes
    noise,         \* device: messages sent before its handshake
    advertised,    \* device: the services it said it has
    services,      \* Rsd::Impl::services
    service,       \* the stream of the service in use: "none", "open", "down"
    checkin,       \* start_service: "none", "send", "answer", "start", then "done"
    checked,       \* device: the service was checked in to
    answers        \* the service's property lists on their way to the host

route   == <<tunnel, rsd, setup, replies, shaken, noise, advertised, services>>
plists  == <<service, checkin, checked, answers>>
rsdVars == <<route, plists>>

\* What a device sends on the RSD's connection before it answers.
Noise == {"bodyless", "empty", "other"}

Frames == {"headers1", "init1", "headers3", "term1", "handshake3", "request1"}

RsdTypeOK ==
    /\ tunnel \in {"none", "header", "body", "up"} /\ rsd \in {"none", "setup", "answer", "up"}
    /\ setup \in Seq(Frames) /\ shaken \in BOOLEAN /\ noise \in 0 .. MaxNoise
    /\ replies \in Seq({"length", "parameters", "handshake"} \cup Noise)
    /\ advertised \subseteq Services /\ services \subseteq Services
    /\ service \in {"none", "open", "down"} /\ checked \in BOOLEAN
    /\ checkin \in {"none", "send", "answer", "start", "done"}

RsdInit ==
    /\ tunnel = "none" /\ rsd = "none" /\ setup = <<>> /\ replies = <<>> /\ shaken = FALSE
    /\ noise = 0 /\ advertised = {} /\ services = {}
    /\ service = "none" /\ checkin = "none" /\ checked = FALSE /\ answers = <<>>

Connecting == tunnel \in {"header", "body"} \/ rsd \in {"setup", "answer"}

-----------------------------------------------------------------------------
(* The tunnel, and the RSD's own connection.                                *)

\* The request is written; the answer is read by its length.
OpenTunnel ==
    /\ tunnel = "none" /\ tunnel' = "header"
    /\ UNCHANGED <<rsd, setup, replies, shaken, noise, advertised, services, plists>>

ReadTunnel ==
    /\ replies # <<>>
    /\ \/ tunnel = "header" /\ Head(replies) = "length" /\ tunnel' = "body" /\ UNCHANGED shaken
       \/ tunnel = "body" /\ Head(replies) = "parameters" /\ tunnel' = "up" /\ shaken' = FALSE
    /\ replies' = Tail(replies)
    /\ UNCHANGED <<rsd, setup, noise, advertised, services, plists>>

ConnectRsd ==
    /\ tunnel = "up" /\ rsd = "none" /\ rsd' = "setup"
    /\ UNCHANGED <<tunnel, setup, replies, shaken, noise, advertised, services, plists>>

\* The frames in the order the host sends them.
Setup == <<"headers1", "init1", "headers3", "term1", "handshake3", "request1">>

SendSetup ==
    /\ rsd = "setup"
    /\ setup' = Append(setup, Setup[Len(setup) + 1])
    /\ rsd' = IF setup' = Setup THEN "answer" ELSE rsd
    /\ UNCHANGED <<tunnel, replies, shaken, noise, advertised, services, plists>>

\* A message without a body, with an empty object, or of another type is no answer.
Skipped == Noise

ReadHandshake ==
    /\ rsd = "answer" /\ replies # <<>>
    /\ replies' = Tail(replies)
    /\ IF Head(replies) \in Skipped
         THEN UNCHANGED <<rsd, services>>
         ELSE /\ rsd' = "up"
              /\ services' = IF Head(replies) = "handshake" THEN advertised ELSE {}
    /\ UNCHANGED <<tunnel, setup, shaken, noise, advertised, plists>>

\* Rsd::close and Tunnel::close, or the destructors of what could not be opened.
RsdDown ==
    /\ tunnel # "none"
    /\ tunnel' = "none" /\ rsd' = "none" /\ setup' = <<>> /\ replies' = <<>> /\ shaken' = FALSE
    /\ noise' = 0 /\ advertised' = {} /\ services' = {}
    /\ UNCHANGED plists

-----------------------------------------------------------------------------
(* A service's link.                                                        *)

Connects(name) ==
    /\ rsd = "up" /\ service = "none" /\ name \in services
    /\ service' = "open" /\ checked' = FALSE
    /\ checkin' = IF name \in Shims THEN "send" ELSE "done"
    /\ UNCHANGED <<route, answers>>

SendCheckin ==
    /\ service = "open" /\ checkin = "send" /\ checkin' = "answer"
    /\ UNCHANGED <<route, service, checked, answers>>

\* Mutant: the answer to the check-in is all that is read.
ReadCheckinOnce ==
    /\ answers # <<>> /\ checkin = "answer" /\ Head(answers) = "checkin" /\ checkin' = "done"
    /\ answers' = Tail(answers)
    /\ UNCHANGED <<route, service, checked>>

\* Two answers are read: that to the check-in, then how the service started.
ReadCheckin ==
    /\ answers # <<>>
    /\ \/ checkin = "answer" /\ Head(answers) = "checkin" /\ checkin' = "start"
       \/ checkin = "start" /\ Head(answers) = "started" /\ checkin' = "done"
    /\ answers' = Tail(answers)
    /\ UNCHANGED <<route, service, checked>>

CheckinRefused == checkin = "start" /\ answers # <<>> /\ Head(answers) = "denied"

-----------------------------------------------------------------------------
(* The device.                                                              *)

\* The order of the setup frames it validates.
Validated == <<"headers1", "init1", "headers3", "term1", "handshake3", "request1">>

DeviceTunnels ==
    /\ tunnel = "header" /\ ~shaken /\ shaken' = TRUE
    /\ replies' = <<"length", "parameters">>
    /\ UNCHANGED <<tunnel, rsd, setup, noise, advertised, services, plists>>

DeviceSays(what) ==
    /\ rsd \in {"setup", "answer"} /\ Len(setup) > 1 /\ ~shaken /\ noise < MaxNoise
    /\ noise' = noise + 1 /\ replies' = Append(replies, what)
    /\ UNCHANGED <<tunnel, rsd, setup, shaken, advertised, services, plists>>

\* What only developers use may be missing.
DeviceShakes ==
    /\ rsd = "answer" /\ ~shaken /\ setup = Validated
    /\ shaken' = TRUE /\ replies' = Append(replies, "handshake")
    /\ advertised' \in {Services, Shims} /\ noise' = 0
    /\ UNCHANGED <<tunnel, rsd, setup, services, plists>>

DeviceChecksIn(how) ==
    /\ service = "open" /\ checkin = "answer" /\ ~checked
    /\ checked' = TRUE /\ answers' = <<"checkin", how>>
    /\ UNCHANGED <<route, service, checkin>>

HostConnects == ReadTunnel \/ SendSetup \/ ReadHandshake

DeviceConnects == DeviceTunnels \/ DeviceShakes

-----------------------------------------------------------------------------
(* A connected RSD has the services of the device's handshake, whatever came *)
(* before it on the connection (Rsd::Impl::handshake).                       *)
ServicesAreAdvertised == rsd = "up" => services = advertised
=============================================================================
