----------------------------- MODULE AppsProofs -----------------------------
(***************************************************************************)
(* The theorems about Apps and its AFC client: what a job leaves behind,   *)
(* and that what it reports is true.  They hold for any paths, lengths of  *)
(* files, services and jobs, any number of calls and of faults, and for    *)
(* any caller of a house arrest.                                           *)
(***************************************************************************)
EXTENDS Apps, SequenceTheorems, TLAPS
-----------------------------------------------------------------------------
(* The invariant of the AFC client.                                        *)

\* A transaction of this call is under way, or was never cut short: pull and push
\* after the open, as long as nothing failed.
Steady == op \in {"pull", "push"} /\ step \in {"body", "close"} /\ status

\* The host and the device are at the same packet.
InStep == Steady \/ ~spoilt

Asking == wait \in {"header", "payload"}
Refusal(a) == a.kind = "status" /\ a.code = 1

\* Before a stream is opened, and after it is closed, there is nothing of it.
Clean ==
    stream = "closed" =>
        /\ op = "idle" /\ packet_num = 0 /\ credited = 0
        /\ toDev = <<>> /\ toHost = <<>> /\ aligned /\ handles = {} /\ done = {}
        /\ ~spoilt /\ ~leaked

\* What a call is waiting for.
Waiting ==
    /\ op = "idle" => wait = "send"
    /\ op \in Simple => step = "open"
    /\ op = "push" /\ step = "open" => left = source /\ source \in Files
    /\ wait = "payload" => /\ aligned /\ toDev = <<>> /\ Len(toHost) = 1
                           /\ toHost[1].part = "payload"
                           /\ toHost[1].answer.num = packet_num

\* Packets are numbered in the order they are sent, and answered in that order.
Numbered ==
    /\ \A i \in 1 .. Len(toDev) : toDev[i].num <= packet_num
    /\ \A i, j \in 1 .. Len(toDev) : i < j => toDev[i].num < toDev[j].num
    /\ \A i \in 1 .. Len(toHost) :
           /\ toHost[i].answer.num <= packet_num
           /\ toHost[i].answer.num = packet_num => toDev = <<>>
           /\ toHost[i].answer.num = packet_num /\ toHost[i].part # "header" => i = Len(toHost)
           /\ toHost[i].answer.num = packet_num /\ toHost[i].part = "header" => i = Len(toHost) - 1
           /\ toHost[i].part = "header" =>
                  /\ i < Len(toHost)
                  /\ toHost[i + 1] = [part |-> "payload", answer |-> toHost[i].answer]

\* A handle is the number of a packet that is no longer under way.
Held ==
    /\ stream # "open" => handles = {}
    /\ \A h \in handles : h.handle <= packet_num
    /\ \A h \in handles : \A i \in 1 .. Len(toDev) : h.handle < toDev[i].num
    /\ \A h, g \in handles : h.handle = g.handle => h = g

\* What is answered other than with a refusal was carried out.
Carried ==
    /\ \A i \in 1 .. Len(toHost) : ~Refusal(toHost[i].answer) => toHost[i].answer.num \in done
    /\ credited \in done \cup {0}

\* The packet under way is what the call asks for.
Asks(p) == p.op = PacketOp /\ p.path = path /\ p.to = to /\ p.handle = handle

\* An answer to it is of its kind, and is still true.
Fits(a) ==
    CASE PacketOp \in {"open_r", "open_w"} ->
            /\ a.kind = "open" /\ a.data = <<packet_num>>
            /\ files[path] # Absent /\ (PacketOp = "open_w" => files[path] = <<>>)
            /\ stream = "open" => [handle |-> packet_num, path |-> path, pos |-> 0] \in handles
      [] PacketOp = "read" -> a.kind = "status" \/ (a.kind = "data" /\ a.data \in Files)
      [] OTHER -> a.kind \in {"status", "data"}

Asked ==
    /\ \A i \in 1 .. Len(toDev) : toDev[i].op = "write" => toDev[i].chunk \in Chunks
    /\ Asking =>
        /\ \A i \in 1 .. Len(toDev) : toDev[i].num = packet_num => Asks(toDev[i])
        /\ \A i \in 1 .. Len(toHost) :
               toHost[i].answer.num = packet_num =>
                   Refusal(toHost[i].answer) \/ Fits(toHost[i].answer)

\* In step there is one packet under way, or its answer, and only while it is asked for.
Lockstep ==
    InStep =>
        /\ aligned
        /\ wait = "send" => toDev = <<>> /\ toHost = <<>>
        /\ wait = "header" =>
              \/ Len(toDev) = 1 /\ toDev[1].num = packet_num /\ toHost = <<>>
              \/ toDev = <<>> /\ Len(toHost) = 2 /\ toHost[1].part = "header"
                              /\ toHost[1].answer.num = packet_num
              \/ stream = "down" /\ toDev = <<>> /\ toHost = <<>>

\* The packet of the call was carried out, or refused.
Served == Asking /\ toDev = <<>>

\* The handles there are, unless a transaction was cut short.
OnlyOwn ==
    stream = "open" /\ ~spoilt /\ ~leaked =>
        \A h \in handles :
            /\ op \in {"pull", "push"}
            /\ step = "open"  => h.handle = packet_num /\ Served /\ ~Refusal(toHost[1].answer)
            /\ step = "body"  => h.handle = handle
            /\ step = "close" => h.handle = handle /\ ~Served

\* What a pull has so far, and where the device is in the file.
Pulling ==
    Steady /\ op = "pull" =>
        /\ source = files[path] /\ source # Absent
        /\ step = "close" /\ ~cut => target = source
        /\ step = "body" =>
            /\ Len(target) <= Len(source) /\ target = SubSeq(source, 1, Len(target))
            /\ \A h \in handles : h.handle = handle =>
                   /\ h.path = path
                   /\ h.pos = IF toHost # <<>> /\ toHost[1].answer.kind = "data"
                              THEN Len(target) + 1 ELSE Len(target)
            /\ toHost # <<>> /\ ~Refusal(toHost[1].answer) =>
                   IF toHost[1].answer.kind = "data"
                   THEN /\ Len(target) < Len(source)
                        /\ toHost[1].answer.data = <<source[Len(target) + 1]>>
                   ELSE target = source

\* What a push has left, and what the device has.
Pushing ==
    Steady /\ op = "push" =>
        /\ files[path] # Absent
        /\ \A h \in handles : h.handle = handle => h.path = path
        /\ step = "close" /\ ~cut => files[path] = source
        /\ step = "body" =>
            /\ wait = "send" => files[path] \o left = source
            /\ toDev # <<>> => (files[path] \o <<toDev[1].chunk>>) \o left = source
            /\ toHost # <<>> /\ ~Refusal(toHost[1].answer) => files[path] \o left = source

AfcInv == /\ Clean /\ Waiting /\ Numbered /\ Held /\ Carried /\ Asked /\ Lockstep /\ OnlyOwn
          /\ Pulling /\ Pushing
-----------------------------------------------------------------------------
(* The invariant of the connection to the RSD.                             *)

Route ==
    /\ rsd # "none" => tunnel = "up"
    /\ tunnel = "none" => setup = <<>> /\ replies = <<>> /\ ~shaken
    /\ tunnel = "header" => replies = IF shaken THEN <<"length", "parameters">> ELSE <<>>
    /\ tunnel = "body" => replies = <<"parameters">>
    /\ tunnel = "up" => \A i \in 1 .. Len(replies) : replies[i] \in Noise \cup {"handshake"}
    /\ rsd = "none" => setup = <<>>
    /\ rsd = "setup" => Len(setup) < 6 /\ setup = SubSeq(Setup, 1, Len(setup))
    /\ ServicesAreAdvertised
-----------------------------------------------------------------------------
(* The invariant of the jobs.                                              *)

FileStages == {"mkdir", "push", "pushing", "files"}

\* Which streams there are at each stage of a job.
Stages ==
    /\ job = "none" => stage = "start" /\ via = "device" /\ service = "none" /\ ~checked
    /\ job # "none" => outcome = "none"
    /\ stage \in {"afc", "mkdir", "push", "pushing"} => job = "install"
    /\ stage = "files" => job = "house"
    /\ stage \in FileStages => stream # "closed" /\ service = "none"
    /\ stage \notin FileStages => stream = "closed"
    /\ stage \in {"send", "read"} => job # "none" /\ service # "none"
    /\ Starting /\ checkin = "none" => service = "none"

\* How far the check-in to a service is, and what is on its stream.
Checkin ==
    /\ service = "none" => checkin = "none" /\ answers = <<>>
    /\ via = "device" => ~checked /\ checkin = "none"
    /\ checkin # "none" => Starting /\ via = "rsd"
    /\ checkin \in {"send", "answer", "start"} => ServiceName \in Shims
    /\ checkin = "send" => ~checked /\ answers = <<>>
    /\ checkin = "answer" =>
           IF checked THEN answers \in {<<"checkin", "started">>, <<"checkin", "denied">>}
                      ELSE answers = <<>>
    /\ checkin = "start" => checked /\ answers \in {<<"started">>, <<"denied">>}
    /\ checkin = "done" => answers = <<>> /\ (checked <=> ServiceName \in Shims)
    /\ ServiceIsClean

\* What a last answer says of the device.
IsTrue(what) ==
    /\ what = "complete" => /\ job \notin {"launch", "kill", "running"}
                            /\ job = "install" /\ ~cut => app = Ipa
                            /\ job = "uninstall" => app = None
    /\ what = "pid" => job # "kill" /\ running
    /\ what = "zero" => job # "launch" /\ ~running

\* The device answers the job's own command, once, and has nothing to do after that.
Replied ==
    stage = "read" =>
        /\ command \in {job, "none"}
        /\ command = job => \A i \in 1 .. Len(answers) : answers[i] = "progress"
        /\ \A i \in 1 .. Len(answers) :
               answers[i] # "progress" => i = Len(answers) /\ IsTrue(answers[i])

\* What is staged is what is installed.
Staging ==
    /\ stage = "pushing" =>
        /\ op \in {"push", "idle"}
        /\ op = "push" => path = Package /\ source = Ipa
        /\ op = "idle" /\ result = "ok" /\ ~cut =>
               /\ files[Package] = Ipa
               /\ \A i \in 1 .. Len(toDev) : toDev[i].op = "close"
    /\ job = "install" /\ stage \in {"start", "send", "read"} /\ ~cut => files[Package] = Ipa

JobInv == Stages /\ Checkin /\ Replied /\ Staging

\* What the host dropped, as long as there is a connection to the RSD.
Dangling ==
    /\ dangling \in Seq([handles : SUBSET Handles, excused : BOOLEAN])
    /\ via = "rsd" => rsd = "up"
    /\ DroppedHoldNothing
-----------------------------------------------------------------------------
(* The steps of a job, seen from the AFC client.                           *)

\* A step of the client, its caller, its stream or its device.
AfcAction == Start \/ Close \/ Calling \/ Client \/ DeviceServes \/ StreamDrops

\* A step of something else, which may be a fault.
AfcQuiet ==
    /\ UNCHANGED <<stream, client, file_io, wires, afcd, past, calls>>
    /\ faults' = faults \/ (faults < MaxFaults /\ faults' = faults + 1)

\* What an install asks of the client is a call like any other.
LEMMA InstallCalls ==
    /\ Call("mkdir", Package, Package) => Calling
    /\ Push(Package, Ipa) \/ PushFails => Calling
  <1>1. Package \in Paths /\ "mkdir" \in Simple \ {"rename"}
    BY AppsAssumption DEF Simple
  <1>2. Ipa \in Locals
    BY DEF Ipa, Locals
  <1> QED
    BY <1>1, <1>2 DEF Calling

LEMMA AppsAfc ==
    ASSUME [AppsNext]_allVars
    PROVE  AfcAction \/ AfcQuiet
  <1> USE DEF AfcAction
  <1>1. AfcIdle => AfcQuiet
    BY DEF AfcIdle, afcVars, AfcQuiet
  <1>2. Faulty => AfcQuiet
    BY DEF Faulty, AfcQuiet
  <1>3. CASE UNCHANGED allVars
    BY <1>1, <1>3 DEF allVars, AfcIdle
  <1>4. CASE JobRuns
    <2>1. RunInstaller => AfcIdle
      BY DEF RunInstaller, StartService, SendCommand, ReadStatus, Reads
    <2>2. ASSUME NEW v \in {"device", "rsd"}, Install(v)
          PROVE  AfcAction \/ AfcQuiet
      <3>1. CASE Begins("install", v, "afc")
        BY <1>1, <3>1 DEF Begins, AfcIdle
      <3>2. CASE StartAfc \/ Staged
        BY <3>2 DEF StartAfc, Staged
      <3>3. CASE MakeStaging \/ PushPackage
        BY <3>3, InstallCalls DEF MakeStaging, PushPackage
      <3> QED
        BY <1>1, <2>1, <2>2, <3>1, <3>2, <3>3 DEF Install
    <2>3. ASSUME NEW v \in {"device", "rsd"}, Uninstall(v)
          PROVE  AfcQuiet
      BY <1>1, <2>1, <2>3 DEF Uninstall, Begins, AfcIdle
    <2>4. ASSUME NEW v \in {"device", "rsd"}, HouseArrest(v)
          PROVE  AfcAction \/ AfcQuiet
      BY <1>1, <2>4 DEF HouseArrest, Begins, AfcIdle, StartService, SendCommand, Vended, Reads
    <2>5. ASSUME NEW v \in {"device", "rsd"}, NEW what \in {"launch", "kill", "running"}, Control(what, v)
          PROVE  AfcQuiet
      BY <1>1, <2>5 DEF Control, Begins, AfcIdle, StartService, SendCommand, ReadReply, Reads
    <2>6. CASE ConnectService \/ CheckIn \/ NotAdvertised \/ Denied
      BY <1>1, <2>6 DEF ConnectService, CheckIn, NotAdvertised, Denied
    <2>7. CASE HouseArrestClose
      BY <2>7 DEF HouseArrestClose
    <2> QED
      BY <1>4, <2>2, <2>3, <2>4, <2>5, <2>6, <2>7
      DEF JobRuns, InstallOverMux, InstallOverRsd, UninstallOverMux, UninstallOverRsd,
          HouseArrestOverMux, HouseArrestOverRsd, LaunchOverMux, LaunchOverRsd, CloseOverMux,
          CloseOverRsd, IsRunningOverMux, IsRunningOverRsd
  <1>5. CASE HouseArrestFiles
    BY <1>5 DEF HouseArrestFiles
  <1>6. CASE NoService \/ GivesUp
    BY <1>1, <1>2, <1>6 DEF NoService, GivesUp
  <1>7. CASE AfcRuns
    BY <1>7 DEF AfcRuns
  <1>8. CASE RsdConnects \/ RsdRuns \/ RsdEnds
    BY <1>1, <1>2, <1>8 DEF RsdConnects, RsdRuns, RsdEnds
  <1>9. CASE DeviceActs
    BY <1>9 DEF DeviceActs, AfcQuiet
  <1>10. CASE DeviceReports \/ DeviceChecks \/ ServiceDrops
    BY <1>1, <1>2, <1>10 DEF DeviceReports, DeviceChecks, ServiceDrops
  <1> QED
    BY <1>3, <1>4, <1>5, <1>6, <1>7, <1>8, <1>9, <1>10 DEF AppsNext
-----------------------------------------------------------------------------
(* Lemmas about sequences and the operators of the model.                  *)

LEMMA FirstOf ==
    ASSUME NEW S, NEW q \in Seq(S), q # <<>>
    PROVE  /\ Head(q) = q[1] /\ q[1] \in S
           /\ Len(q) \in Nat /\ Len(q) > 0
           /\ Tail(q) \in Seq(S) /\ Len(Tail(q)) = Len(q) - 1
           /\ \A i \in 1 .. Len(Tail(q)) : i + 1 \in 1 .. Len(q) /\ Tail(q)[i] = q[i + 1]
  <1>1. Len(q) \in Nat /\ Len(q) > 0
    BY EmptySeq, LenProperties
  <1> QED
    BY <1>1, HeadTailProperties, ElementOfSeq

LEMMA OnlyOne ==
    ASSUME NEW S, NEW q \in Seq(S), Len(q) = 1
    PROVE  q # <<>> /\ Tail(q) = <<>>
  <1>1. q # <<>>
    BY EmptySeq
  <1>2. Tail(q) \in Seq(S) /\ Len(Tail(q)) = 0
    BY <1>1, FirstOf
  <1> QED
    BY <1>1, <1>2, EmptySeq

\* The two units of an answer behind what is under way.
LEMMA TwoMore ==
    ASSUME NEW S, NEW q \in Seq(S), NEW a \in S, NEW b \in S
    PROVE  /\ q \o <<a, b>> \in Seq(S)
           /\ Len(q) \in Nat /\ Len(q \o <<a, b>>) = Len(q) + 2
           /\ \A i \in 1 .. Len(q) : (q \o <<a, b>>)[i] = q[i]
           /\ (q \o <<a, b>>)[Len(q) + 1] = a /\ (q \o <<a, b>>)[Len(q) + 2] = b
  <1>1. <<a, b>> \in Seq(S) /\ Len(<<a, b>>) = 2 /\ <<a, b>>[1] = a /\ <<a, b>>[2] = b
    OBVIOUS
  <1>2. Len(q) \in Nat
    BY LenProperties
  <1> QED
    BY <1>1, <1>2, ConcatProperties

LEMMA PacketOps ==
    ASSUME TypeOK, op # "idle"
    PROVE  /\ PacketOp \in Ops
           /\ op \in Simple => PacketOp = op
           /\ PacketOp = "open_r" <=> op = "pull" /\ step = "open"
           /\ PacketOp = "open_w" <=> op = "push" /\ step = "open"
           /\ PacketOp = "read"   <=> op = "pull" /\ step = "body"
           /\ PacketOp = "write"  <=> op = "push" /\ step = "body"
           /\ PacketOp = "close"  <=> op \in {"pull", "push"} /\ step = "close"
  BY DEF TypeOK, PacketOp, Ops, Simple

\* What is under way, one by one.
LEMMA UnderWay ==
    ASSUME TypeOK
    PROVE  /\ packet_num \in Nat /\ Len(toDev) \in Nat /\ Len(toHost) \in Nat
           /\ \A i \in 1 .. Len(toDev) : toDev[i] \in Packets /\ toDev[i].num \in Nat
           /\ \A i \in 1 .. Len(toHost) :
                  toHost[i] \in Units /\ toHost[i].answer \in Answers /\ toHost[i].answer.num \in Nat
  <1>1. packet_num \in Nat /\ toDev \in Seq(Packets) /\ toHost \in Seq(Units)
    BY DEF TypeOK
  <1>2. ASSUME NEW i \in 1 .. Len(toDev)
        PROVE  toDev[i] \in Packets /\ toDev[i].num \in Nat
    <2>1. toDev[i] \in Packets
      BY <1>1, ElementOfSeq
    <2> QED
      BY <2>1 DEF Packets
  <1>3. ASSUME NEW i \in 1 .. Len(toHost)
        PROVE  toHost[i] \in Units /\ toHost[i].answer \in Answers /\ toHost[i].answer.num \in Nat
    <2>1. toHost[i] \in Units
      BY <1>1, ElementOfSeq
    <2>2. toHost[i].answer \in Answers
      BY <2>1 DEF Units
    <2> QED
      BY <2>1, <2>2 DEF Answers
  <1> QED
    BY <1>1, <1>2, <1>3, LenProperties

LEMMA AbsentIsNoFile == Absent \notin Files /\ <<>> \in Files /\ Absent # <<>>
  <1>1. Absent \in Files => FALSE
    <2> SUFFICES ASSUME Absent \in Seq(Chunks)
                 PROVE  FALSE
      BY DEF Files
    <2>1. Len(Absent) = 1 /\ Absent[1] = 0
      BY DEF Absent
    <2>2. Absent[1] \in Chunks
      BY <2>1, ElementOfSeq
    <2> QED
      BY <2>1, <2>2, AfcAssumption DEF Chunks
  <1> QED
    BY <1>1, EmptySeq DEF Files, Absent

LEMMA LocalsAreFiles == Locals \subseteq Files /\ Remote \in Files /\ Ipa \in Files
  <1>1. MaxChunks \in Nat
    BY AfcAssumption
  <1>2. \A n \in {0, MaxChunks} : [i \in 1 .. n |-> i] \in Seq(Chunks)
    BY <1>1 DEF Chunks
  <1>3. Remote \in Seq(Chunks)
    BY <1>1 DEF Remote, Chunks
  <1> QED
    BY <1>2, <1>3 DEF Locals, Ipa, Files

LEMMA FirstPathIs == FirstPath \in Paths
  BY AfcAssumption DEF FirstPath

AfcAll == TypeOK /\ AfcInv

LEMMA InitAfc == AfcInit => AfcAll
  <1> SUFFICES ASSUME AfcInit PROVE AfcAll
    OBVIOUS
  <1>1. TypeOK
    <2>1. Remote \in Files /\ <<>> \in Files /\ FirstPath \in Paths
      BY LocalsAreFiles, AbsentIsNoFile, FirstPathIs
    <2>2. MaxFaults \in Nat /\ MaxCalls \in Nat
      BY AfcAssumption
    <2>3. files \in [Paths -> Files \cup {Absent}]
      BY <2>1 DEF AfcInit
    <2>4. {aligned, status, spoilt, leaked, cut} \subseteq BOOLEAN
      BY DEF AfcInit
    <2>5. toDev \in Seq(Packets) /\ toHost \in Seq(Units)
      BY EmptySeq DEF AfcInit
    <2> QED
      BY <2>1, <2>2, <2>3, <2>4, <2>5 DEF AfcInit, TypeOK
  <1>2. Clean /\ Waiting /\ Numbered /\ Held
    BY DEF AfcInit, Clean, Waiting, Numbered, Held, Simple
  <1>3. Carried /\ Asked /\ Lockstep /\ OnlyOwn
    BY DEF AfcInit, Carried, Asked, Asking, Lockstep, OnlyOwn
  <1>4. Pulling /\ Pushing
    BY DEF AfcInit, Pulling, Pushing, Steady
  <1> QED
    BY <1>1, <1>2, <1>3, <1>4 DEF AfcAll, AfcInv
-----------------------------------------------------------------------------
(* The steps that ask nothing of the device.                               *)

LEMMA QuietKeeps ==
    ASSUME AfcAll, AfcQuiet
    PROVE  AfcAll'
  <1> USE DEF AfcQuiet, client, file_io, wires, afcd, past
  <1>1. TypeOK'
    BY AfcAssumption DEF AfcAll, TypeOK
  <1>2. Clean' /\ Waiting' /\ Numbered' /\ Held' /\ Carried'
    BY DEF AfcAll, AfcInv, Clean, Waiting, Numbered, Held, Carried, Refusal
  <1>3. Asked'
    BY DEF AfcAll, AfcInv, Asked, Asking, Asks, Fits, PacketOp, Refusal
  <1>4. Lockstep' /\ OnlyOwn'
    BY DEF AfcAll, AfcInv, Lockstep, OnlyOwn, InStep, Steady, Served, Asking, Refusal
  <1>5. Pulling' /\ Pushing'
    BY DEF AfcAll, AfcInv, Pulling, Pushing, Steady, Refusal
  <1> QED
    BY <1>1, <1>2, <1>3, <1>4, <1>5 DEF AfcAll, AfcInv

LEMMA StartKeeps ==
    ASSUME AfcAll, Start
    PROVE  AfcAll'
  <1> USE DEF Start, client, file_io, wires, afcd
  <1>1. TypeOK'
    BY DEF AfcAll, TypeOK
  <1>2. Clean' /\ Waiting' /\ Numbered' /\ Held' /\ Carried'
    BY DEF AfcAll, AfcInv, Clean, Waiting, Numbered, Held, Carried, Refusal
  <1>3. op = "idle" /\ wait = "send" /\ handles = {} /\ toDev = <<>> /\ toHost = <<>> /\ aligned
    BY DEF AfcAll, AfcInv, Clean, Waiting
  <1>4. Asked' /\ Lockstep' /\ OnlyOwn'
    BY <1>3 DEF Asked, Asking, Lockstep, OnlyOwn
  <1>5. Pulling' /\ Pushing'
    BY <1>3 DEF Pulling, Pushing, Steady
  <1> QED
    BY <1>1, <1>2, <1>4, <1>5 DEF AfcAll, AfcInv

LEMMA CloseKeeps ==
    ASSUME AfcAll, Close
    PROVE  AfcAll'
  <1> USE DEF Close
  <1>1. TypeOK'
    <2>1. FirstPath \in Paths /\ <<>> \in Files /\ MaxCalls \in Nat
      BY FirstPathIs, AbsentIsNoFile, AfcAssumption
    <2>2. toDev' \in Seq(Packets) /\ toHost' \in Seq(Units)
      BY EmptySeq
    <2>3. {aligned', status', spoilt', leaked', cut'} \subseteq BOOLEAN
      BY DEF AfcAll, TypeOK
    <2> QED
      BY <2>1, <2>2, <2>3 DEF AfcAll, TypeOK
  <1>2. op' = "idle" /\ wait' = "send" /\ Len(toDev') = 0 /\ Len(toHost') = 0
    BY DEF AfcAll, AfcInv, Waiting
  <1>3. Clean' /\ Waiting' /\ Numbered' /\ Held' /\ Carried'
    BY <1>2 DEF Clean, Waiting, Numbered, Held, Carried, Simple
  <1>4. Asked' /\ Lockstep' /\ OnlyOwn'
    BY <1>2 DEF Asked, Asking, Lockstep, OnlyOwn
  <1>5. Pulling' /\ Pushing'
    BY <1>2 DEF Pulling, Pushing, Steady
  <1> QED
    BY <1>1, <1>3, <1>4, <1>5 DEF AfcAll, AfcInv

\* What a call is, when it begins.
Called ==
    /\ op = "idle" /\ stream # "closed" /\ calls < MaxCalls /\ calls' = calls + 1
    /\ op' \in {"pull", "push"} \cup Simple /\ path' \in Paths /\ to' \in Paths
    /\ step' = "open" /\ wait' = "send" /\ status' = TRUE /\ result' = "none"
    /\ handle' = 0 /\ target' = <<>> /\ cut' \in BOOLEAN
    /\ source' \in Files /\ left' = source'
    /\ UNCHANGED <<stream, packet_num, wires, afcd, credited, spoilt, leaked, faults>>

LEMMA CallingIsCalled == ASSUME TypeOK, Calling PROVE Called \/ PushFails
  <1>1. ASSUME NEW what \in {"pull"} \cup Simple, NEW p \in Paths, NEW q \in Paths, Call(what, p, q)
        PROVE  Called
    BY <1>1, AbsentIsNoFile DEF TypeOK, Called, Call, Calls, past
  <1>2. ASSUME NEW p \in Paths, NEW local \in Locals, Push(p, local)
        PROVE  Called
    BY <1>2, LocalsAreFiles DEF Called, Push, Calls
  <1>3. "rename" \in Simple
    BY DEF Simple
  <1> QED
    BY <1>1, <1>2, <1>3 DEF Calling, Pull

LEMMA PushFailsKeeps ==
    ASSUME AfcAll, PushFails
    PROVE  AfcAll'
  <1> USE DEF PushFails, file_io, wires, afcd, past
  <1>1. TypeOK'
    BY AfcAssumption DEF AfcAll, TypeOK
  <1>2. Clean' /\ Waiting' /\ Numbered' /\ Held' /\ Carried'
    BY DEF AfcAll, AfcInv, Clean, Waiting, Numbered, Held, Carried, Refusal
  <1>3. Asked' /\ Lockstep' /\ OnlyOwn'
    BY DEF AfcAll, AfcInv, Waiting, Asked, Asking, Lockstep, InStep, Steady, OnlyOwn, Served, Refusal
  <1>4. Pulling' /\ Pushing'
    BY DEF Pulling, Pushing, Steady
  <1> QED
    BY <1>1, <1>2, <1>3, <1>4 DEF AfcAll, AfcInv

LEMMA CallingKeeps ==
    ASSUME AfcAll, Calling
    PROVE  AfcAll'
  <1> USE DEF wires, afcd
  <1> SUFFICES ASSUME Called
               PROVE  AfcAll'
    BY CallingIsCalled, PushFailsKeeps DEF AfcAll
  <1>1. Called /\ TypeOK
    BY DEF AfcAll
  <1>2. TypeOK'
    BY <1>1, AfcAssumption, AbsentIsNoFile DEF Called, TypeOK
  <1>3. op' # "idle" /\ ~Steady' /\ ~Asking' /\ ~Steady
    BY <1>1 DEF Called, Simple, Steady, Asking
  <1>4. Clean' /\ Waiting'
    BY <1>1, <1>3 DEF AfcAll, AfcInv, Called, Clean, Waiting
  <1>5. Numbered' /\ Held' /\ Carried'
    BY <1>1 DEF AfcAll, AfcInv, Called, Numbered, Held, Carried, Refusal
  <1>6. Asked' /\ Lockstep'
    BY <1>1, <1>3 DEF AfcAll, AfcInv, Called, Asked, Lockstep, InStep, Waiting
  <1>7. OnlyOwn' /\ Pulling' /\ Pushing'
    BY <1>1, <1>3 DEF AfcAll, AfcInv, Called, OnlyOwn, Pulling, Pushing
  <1> QED
    BY <1>2, <1>4, <1>5, <1>6, <1>7 DEF AfcAll, AfcInv

LEMMA DropKeeps ==
    ASSUME AfcAll, StreamDrops
    PROVE  AfcAll'
  <1> USE DEF StreamDrops, client, file_io, past
  <1>1. TypeOK'
    BY AfcAssumption, EmptySeq DEF AfcAll, TypeOK
  <1>2. Clean' /\ Waiting'
    BY DEF AfcAll, AfcInv, Clean, Waiting
  <1>3. Numbered'
    BY EmptySeq DEF AfcAll, AfcInv, Numbered
  <1>9. Held' /\ Carried'
    BY DEF AfcAll, AfcInv, Held, Carried, Refusal
  <1>4. Asked'
    BY DEF AfcAll, AfcInv, Asked, Asking, Asks, Fits, PacketOp, Refusal
  <1>5. Lockstep' /\ OnlyOwn'
    BY EmptySeq DEF AfcAll, AfcInv, Lockstep, OnlyOwn, InStep, Steady
  <1>6. Pulling' /\ Pushing'
    BY DEF AfcAll, AfcInv, Pulling, Pushing, Steady, Refusal
  <1> QED
    BY <1>1, <1>2, <1>3, <1>4, <1>5, <1>6, <1>9 DEF AfcAll, AfcInv
-----------------------------------------------------------------------------
(* The steps in which a transaction fails.                                 *)

\* After an error the call is over, or goes on to its close with nothing to report.
LEMMA ErrShape ==
    ASSUME NEW b, Errs(b), TypeOK, op # "idle"
    PROVE  /\ wait' = "send" /\ ~Asking' /\ ~Steady'
           /\ op' \in {op, "idle"} /\ result' \in {"none", "ok", "error"} /\ status' \in BOOLEAN
           /\ op' # "idle" => op \in {"pull", "push"} /\ step = "body" /\ step' = "close"
           /\ op' = "idle" => step' = step /\ status' = status
           /\ op' = "idle" /\ op \in {"pull", "push"} =>
                  result' = IF step = "close" /\ status THEN "ok" ELSE "error"
  BY DEF Errs, Return, GoesOn, TypeOK, Asking, Steady, Simple

LEMMA SendFailsKeeps ==
    ASSUME AfcAll, SendFails
    PROVE  AfcAll'
  <1> USE DEF SendFails, wires, afcd, past
  <1>1. op # "idle" /\ wait = "send" /\ stream # "closed"
    BY DEF MaySend
  <1>2. /\ wait' = "send" /\ ~Asking' /\ ~Steady'
        /\ op' \in {op, "idle"} /\ result' \in {"none", "ok", "error"} /\ status' \in BOOLEAN
        /\ op' # "idle" => op \in {"pull", "push"} /\ step = "body" /\ step' = "close"
        /\ op' = "idle" => step' = step
    BY <1>1, ErrShape DEF AfcAll
  <1>3. TypeOK'
    <2>1. {aligned', status', spoilt', leaked', cut'} \subseteq BOOLEAN
      <3>1. {aligned, status, spoilt, leaked, cut} \subseteq BOOLEAN
        BY DEF AfcAll, TypeOK
      <3>2. leaked' \in BOOLEAN
        BY <3>1
      <3> QED
        BY <1>2, <3>1, <3>2
    <2> QED
      BY <1>2, <2>1, AfcAssumption DEF AfcAll, TypeOK
  <1>4. Clean' /\ Waiting'
    BY <1>1, <1>2 DEF AfcAll, AfcInv, Clean, Waiting, Simple
  <1>5. Numbered'
    <2>1. TypeOK /\ Numbered /\ packet_num \in Nat
      BY DEF AfcAll, AfcInv, TypeOK
    <2>2. /\ \A i \in 1 .. Len(toDev) : toDev[i].num \in Nat
          /\ \A i \in 1 .. Len(toHost) : toHost[i].answer.num \in Nat
      BY <2>1, UnderWay
    <2> QED
      BY <2>1, <2>2 DEF Numbered
  <1>6. Held' /\ Carried'
    BY DEF AfcAll, AfcInv, TypeOK, Handles, Held, Carried, Refusal
  <1>7. Asked' /\ Lockstep'
    BY <1>1, <1>2 DEF AfcAll, AfcInv, Asked, Lockstep, InStep
  <1>9. OnlyOwn'
    <2> SUFFICES ASSUME stream = "open", ~spoilt, ~leaked', NEW h \in handles
                 PROVE  /\ op' \in {"pull", "push"} /\ step' = "close"
                        /\ h.handle = handle /\ ~Served'
      BY DEF OnlyOwn
    <2>1. /\ ~leaked /\ PacketOp # "close" /\ ~Served /\ ~Served'
      BY <1>1, <1>2 DEF Served, Asking
    <2>2. op \in {"pull", "push"} /\ step # "open" /\ (step = "body" => h.handle = handle)
      BY <2>1 DEF AfcAll, AfcInv, OnlyOwn
    <2>3. step = "body"
      BY <2>1, <2>2 DEF AfcAll, TypeOK, PacketOp, Simple
    <2> QED
      BY <2>1, <2>2, <2>3 DEF Errs, GoesOn
  <1>8. Pulling' /\ Pushing'
    BY <1>2 DEF Pulling, Pushing
  <1> QED
    BY <1>3, <1>4, <1>5, <1>6, <1>7, <1>8, <1>9 DEF AfcAll, AfcInv

LEMMA ReadFailsKeeps ==
    ASSUME AfcAll, ReadFails
    PROVE  AfcAll'
  <1> USE DEF ReadFails, afcd
  <1>1. op # "idle" /\ Asking
    BY DEF AfcAll, AfcInv, Waiting, Asking
  <1>2. /\ wait' = "send" /\ ~Asking' /\ ~Steady'
        /\ op' \in {op, "idle"} /\ result' \in {"none", "ok", "error"} /\ status' \in BOOLEAN
        /\ op' # "idle" => op \in {"pull", "push"} /\ step = "body" /\ step' = "close"
        /\ op' = "idle" => step' = step
    BY <1>1, ErrShape DEF AfcAll
  <1>3. TypeOK'
    <2>1. {aligned', status', spoilt', leaked', cut'} \subseteq BOOLEAN
      <3>1. {aligned, status, spoilt, leaked, cut} \subseteq BOOLEAN
        BY DEF AfcAll, TypeOK
      <3>2. aligned' \in BOOLEAN
        BY <3>1
      <3> QED
        BY <1>2, <3>1, <3>2
    <2> QED
      BY <1>2, <2>1, AfcAssumption DEF AfcAll, TypeOK
  <1>4. Clean' /\ Waiting'
    BY <1>1, <1>2 DEF AfcAll, AfcInv, Clean, Waiting, Simple
  <1>5. Numbered' /\ Held' /\ Carried'
    BY DEF AfcAll, AfcInv, Numbered, Held, Carried, Refusal
  <1>6. Asked' /\ Lockstep' /\ OnlyOwn'
    BY <1>2 DEF AfcAll, AfcInv, Asked, Lockstep, OnlyOwn, InStep
  <1>7. Pulling' /\ Pushing'
    BY <1>2 DEF Pulling, Pushing
  <1> QED
    BY <1>3, <1>4, <1>5, <1>6, <1>7 DEF AfcAll, AfcInv

\* What is said of the answers under way is still said of those that are left.
OneRead ==
    /\ Head(toHost) = toHost[1] /\ toHost[1] \in Units /\ toHost' \in Seq(Units)
    /\ Len(toHost) \in Nat /\ Len(toHost') = Len(toHost) - 1
    /\ \A i \in 1 .. Len(toHost') : i + 1 \in 1 .. Len(toHost) /\ toHost'[i] = toHost[i + 1]

LEMMA TailIsOneRead ==
    ASSUME TypeOK, toHost # <<>>, toHost' = Tail(toHost)
    PROVE  OneRead
  <1>1. toHost \in Seq(Units)
    BY DEF TypeOK
  <1> QED
    BY <1>1, FirstOf DEF OneRead

LEMMA TailNumbered ==
    ASSUME Numbered, Carried, OneRead, UNCHANGED <<toDev, packet_num, done, credited>>
    PROVE  Numbered' /\ Carried'
  <1>1. /\ Len(toHost) \in Nat /\ Len(toHost') = Len(toHost) - 1
        /\ \A i \in 1 .. Len(toHost') : i + 1 \in 1 .. Len(toHost) /\ toHost'[i] = toHost[i + 1]
    BY DEF OneRead
  <1>2. Carried'
    BY <1>1 DEF Carried, Refusal
  <1>3. /\ \A i \in 1 .. Len(toDev') : toDev'[i].num <= packet_num'
        /\ \A i, j \in 1 .. Len(toDev') : i < j => toDev'[i].num < toDev'[j].num
    BY DEF Numbered
  <1>4. ASSUME NEW i \in 1 .. Len(toHost')
        PROVE  /\ toHost'[i].answer.num <= packet_num'
               /\ toHost'[i].answer.num = packet_num' => toDev' = <<>>
               /\ toHost'[i].answer.num = packet_num' /\ toHost'[i].part # "header" => i = Len(toHost')
               /\ toHost'[i].answer.num = packet_num' /\ toHost'[i].part = "header" => i = Len(toHost') - 1
               /\ toHost'[i].part = "header" =>
                      /\ i < Len(toHost')
                      /\ toHost'[i + 1] = [part |-> "payload", answer |-> toHost'[i].answer]
    <2> DEFINE k == i + 1
    <2> HIDE DEF k
    <2>1. /\ k \in Nat /\ k \in 1 .. Len(toHost) /\ k = i + 1 /\ i \in Nat /\ i > 0
          /\ Len(toHost) \in Nat /\ Len(toHost') = Len(toHost) - 1
          /\ toHost'[i] = toHost[k] /\ toDev' = toDev /\ packet_num' = packet_num
      BY <1>1 DEF k
    <2>2. /\ toHost[k].answer.num <= packet_num
          /\ toHost[k].answer.num = packet_num => toDev = <<>>
          /\ toHost[k].answer.num = packet_num /\ toHost[k].part # "header" => k = Len(toHost)
          /\ toHost[k].answer.num = packet_num /\ toHost[k].part = "header" => k = Len(toHost) - 1
          /\ toHost[k].part = "header" =>
                 /\ k < Len(toHost)
                 /\ toHost[k + 1] = [part |-> "payload", answer |-> toHost[k].answer]
      BY <2>1 DEF Numbered
    <2>3. toHost[k].part = "header" => toHost'[k] = toHost[k + 1]
      <3>1. toHost[k].part = "header" => k \in 1 .. Len(toHost')
        BY <2>1, <2>2
      <3> QED
        BY <1>1, <3>1
    <2>4. /\ toHost'[i].answer.num = packet_num' => toDev' = <<>>
          /\ toHost'[i].answer.num = packet_num' /\ toHost'[i].part # "header" => i = Len(toHost')
          /\ toHost'[i].answer.num = packet_num' /\ toHost'[i].part = "header" => i = Len(toHost') - 1
      BY <2>1, <2>2
    <2>5. toHost'[i].part = "header" =>
              i < Len(toHost') /\ toHost'[k] = [part |-> "payload", answer |-> toHost'[i].answer]
      BY <2>1, <2>2, <2>3
    <2> QED
      BY <2>1, <2>2, <2>4, <2>5
  <1> QED
    BY <1>2, <1>3, <1>4 DEF Numbered

LEMMA RefuseHeaderKeeps ==
    ASSUME AfcAll, RefuseHeader
    PROVE  AfcAll'
  <1> USE DEF RefuseHeader, afcd, past
  <1>1. op # "idle" /\ Asking
    BY DEF AfcAll, AfcInv, Waiting, Asking
  <1>2. /\ wait' = "send" /\ ~Asking' /\ ~Steady'
        /\ op' \in {op, "idle"} /\ result' \in {"none", "ok", "error"} /\ status' \in BOOLEAN
        /\ op' # "idle" => op \in {"pull", "push"} /\ step = "body" /\ step' = "close"
        /\ op' = "idle" => step' = step
    BY <1>1, ErrShape DEF AfcAll
  <1>3. OneRead /\ toHost' \in Seq(Units) /\ Head(toHost) = toHost[1]
    BY TailIsOneRead DEF AfcAll, OneRead
  <1>4. TypeOK'
    BY <1>2, <1>3 DEF AfcAll, TypeOK
  <1>5. Clean' /\ Waiting'
    BY <1>1, <1>2 DEF AfcAll, AfcInv, Clean, Waiting, Simple
  <1>6. Numbered' /\ Carried' /\ Held'
    BY <1>3, TailNumbered DEF AfcAll, AfcInv, Held
  <1>7. ~InStep /\ spoilt
    BY <1>3 DEF AfcAll, AfcInv, Lockstep, Matches, InStep
  <1>8. Asked' /\ Lockstep' /\ OnlyOwn'
    BY <1>2, <1>7 DEF AfcAll, AfcInv, Asked, Lockstep, OnlyOwn, InStep
  <1>9. Pulling' /\ Pushing'
    BY <1>2 DEF Pulling, Pushing
  <1> QED
    BY <1>4, <1>5, <1>6, <1>8, <1>9 DEF AfcAll, AfcInv
-----------------------------------------------------------------------------
(* The steps that send a packet, or have no more to send.                  *)

LEMMA ChunksOf ==
    ASSUME NEW f \in Files
    PROVE  /\ f \o <<>> = f /\ Len(f) \in Nat
           /\ \A c \in Chunks : f \o <<c>> \in Files /\ Append(f, c) = f \o <<c>>
           /\ \A q \in Files : q # <<>> =>
                  /\ Head(q) \in Chunks /\ Tail(q) \in Files
                  /\ (f \o <<Head(q)>>) \o Tail(q) = f \o q
  <1>1. f \in Seq(Chunks)
    BY DEF Files
  <1>2. f \o <<>> = f /\ Len(f) \in Nat
    BY <1>1, ConcatEmptySeq, LenProperties
  <1>3. ASSUME NEW c \in Chunks
        PROVE  f \o <<c>> \in Files /\ Append(f, c) = f \o <<c>>
    BY <1>1, AppendProperties, AppendIsConcat DEF Files
  <1>4. ASSUME NEW q \in Files, q # <<>>
        PROVE  /\ Head(q) \in Chunks /\ Tail(q) \in Files
               /\ (f \o <<Head(q)>>) \o Tail(q) = f \o q
    <2>1. q \in Seq(Chunks) /\ Head(q) \in Chunks /\ Tail(q) \in Seq(Chunks)
      BY <1>4, FirstOf DEF Files
    <2>2. <<Head(q)>> \in Seq(Chunks) /\ <<Head(q)>> \o Tail(q) \in Seq(Chunks)
      BY <2>1, ConcatProperties
    <2>3. q = <<Head(q)>> \o Tail(q)
      <3>1. Len(<<Head(q)>>) = 1 /\ <<Head(q)>>[1] = q[1]
        BY <1>4, <2>1, FirstOf
      <3>2. /\ Len(<<Head(q)>> \o Tail(q)) = 1 + Len(Tail(q))
            /\ \A i \in 1 .. 1 + Len(Tail(q)) :
                   (<<Head(q)>> \o Tail(q))[i] = IF i <= 1 THEN <<Head(q)>>[i] ELSE Tail(q)[i - 1]
        BY <2>1, <2>2, <3>1, ConcatProperties
      <3>3. /\ Len(q) \in Nat /\ Len(q) > 0 /\ Len(Tail(q)) = Len(q) - 1
            /\ \A i \in 1 .. Len(Tail(q)) : Tail(q)[i] = q[i + 1]
        BY <1>4, <2>1, FirstOf
      <3>4. ASSUME NEW i \in 1 .. Len(q)
            PROVE  q[i] = (<<Head(q)>> \o Tail(q))[i]
        <4>1. CASE i = 1
          BY <3>1, <3>2, <3>3, <4>1
        <4>2. CASE i # 1
          <5>1. i - 1 \in 1 .. Len(Tail(q)) /\ i \in 1 .. 1 + Len(Tail(q)) /\ ~(i <= 1)
            BY <3>3, <4>2
          <5>2. Tail(q)[i - 1] = q[i]
            BY <3>3, <5>1
          <5> QED
            BY <3>2, <5>1, <5>2
        <4> QED
          BY <4>1, <4>2
      <3> QED
        BY <2>1, <2>2, <3>2, <3>3, <3>4, SeqEqual
    <2> QED
      BY <1>1, <2>1, <2>2, <2>3, ConcatAssociative DEF Files
  <1> QED
    BY <1>2, <1>3, <1>4

LEMMA FileIs ==
    ASSUME TypeOK, NEW p \in Paths, files[p] # Absent
    PROVE  files[p] \in Files
  BY DEF TypeOK

LEMMA PushEndsKeeps ==
    ASSUME AfcAll, PushEnds
    PROVE  AfcAll'
  <1> USE DEF PushEnds, GoesOn, wires, afcd
  <1>1. TypeOK'
    <2>1. {aligned, status, spoilt, leaked, cut} \subseteq BOOLEAN
      BY DEF AfcAll, TypeOK
    <2>2. {aligned', status', spoilt', leaked', cut'} \subseteq BOOLEAN
      BY <2>1
    <2>3. faults' \in 0 .. MaxFaults
      BY AfcAssumption DEF AfcAll, TypeOK
    <2> QED
      BY <2>2, <2>3 DEF AfcAll, TypeOK
  <1>2. Clean' /\ Waiting'
    BY DEF AfcAll, AfcInv, Clean, Waiting, Simple
  <1>3. Numbered' /\ Held' /\ Carried'
    BY DEF AfcAll, AfcInv, Numbered, Held, Carried, Refusal
  <1>4. ~Asking' /\ (Steady' <=> Steady)
    BY DEF Asking, Steady
  <1>5. Asked' /\ Lockstep'
    BY <1>4 DEF AfcAll, AfcInv, Asked, Lockstep, InStep
  <1>6. OnlyOwn'
    BY <1>4 DEF AfcAll, AfcInv, OnlyOwn, Served
  <1>7. Pulling'
    BY DEF Pulling, Steady
  <1>8. Pushing'
    <2> SUFFICES ASSUME Steady
                 PROVE  Pushing'
      BY <1>4 DEF Pushing
    <2>1. /\ files[path] # Absent /\ files[path] \o left = source
          /\ \A h \in handles : h.handle = handle => h.path = path
      BY DEF AfcAll, AfcInv, Pushing
    <2>2. files[path] \o <<>> = files[path]
      BY <2>1, FileIs, ChunksOf DEF AfcAll, TypeOK
    <2> QED
      BY <2>1, <2>2 DEF Pushing
  <1> QED
    BY <1>1, <1>2, <1>3, <1>5, <1>6, <1>7, <1>8 DEF AfcAll, AfcInv

LEMMA SendKeeps ==
    ASSUME AfcAll, Send
    PROVE  AfcAll'
  <1> USE DEF Send, MaySend, afcd, past
  <1>1. TypeOK /\ AfcInv /\ op # "idle" /\ wait = "send" /\ stream = "open"
    BY DEF AfcAll
  <1>2. PacketOp' = PacketOp /\ PacketOp \in Ops /\ (Steady' <=> Steady) /\ (InStep' <=> InStep)
    BY <1>1, PacketOps DEF PacketOp, Steady, InStep
  <1>3. /\ PacketOp = "write" => /\ op = "push" /\ step = "body" /\ left # <<>>
                                 /\ Head(left) \in Chunks /\ left' = Tail(left)
        /\ PacketOp # "write" => left' = left
        /\ left' \in Files
    BY <1>1, PacketOps, ChunksOf, AbsentIsNoFile DEF TypeOK
  <1>4. /\ Packet \in Packets /\ Packet.num = packet_num + 1 /\ Packet.op = PacketOp
        /\ Packet.path = path /\ Packet.to = to /\ Packet.handle = handle
        /\ PacketOp = "write" => Packet.chunk = Head(left)
    <2> DEFINE chunk == IF PacketOp = "write" THEN Head(left) ELSE 0
    <2>1. Chunks \subseteq Nat
      BY AfcAssumption DEF Chunks
    <2>2. chunk \in Nat
      BY <1>3, <2>1
    <2>3. packet_num + 1 \in Nat /\ path \in Paths /\ to \in Paths /\ handle \in Nat
      BY <1>1 DEF TypeOK
    <2>4. Packet = [num |-> packet_num + 1, op |-> PacketOp, path |-> path, to |-> to,
                    handle |-> handle, chunk |-> chunk]
      BY DEF Packet
    <2>5. PacketOp = "write" => chunk = Head(left)
      OBVIOUS
    <2> QED
      <3> HIDE DEF chunk
      <3> QED
        BY <1>2, <2>2, <2>3, <2>4, <2>5 DEF Packets
  <1>5. /\ toDev' \in Seq(Packets) /\ Len(toDev') = Len(toDev) + 1 /\ Len(toDev) \in Nat
        /\ \A i \in 1 .. Len(toDev) : toDev'[i] = toDev[i]
        /\ toDev'[Len(toDev) + 1] = Packet /\ toDev' # <<>>
    BY <1>1, <1>4, AppendProperties, LenProperties DEF TypeOK
  <1>6. TypeOK'
    BY <1>1, <1>3, <1>5 DEF TypeOK
  <1>7. Clean' /\ Carried'
    BY <1>1 DEF AfcInv, Clean, Carried, Refusal
  <1>8. Waiting'
    BY <1>1, <1>3, PacketOps DEF AfcInv, Waiting
  <1>9. /\ \A i \in 1 .. Len(toDev) : toDev[i].num \in Nat /\ toDev[i].num <= packet_num
        /\ \A i \in 1 .. Len(toHost) : toHost[i].answer.num \in Nat /\ toHost[i].answer.num <= packet_num
        /\ packet_num \in Nat
    BY <1>1, UnderWay DEF AfcInv, Numbered
  <1>10. \A i \in 1 .. Len(toDev') :
             \/ i \in 1 .. Len(toDev) /\ toDev'[i] = toDev[i]
             \/ i = Len(toDev) + 1 /\ toDev'[i] = Packet
    BY <1>5
  <1>11. Numbered'
    <2>1. \A i \in 1 .. Len(toDev') : toDev'[i].num <= packet_num'
      BY <1>4, <1>9, <1>10
    <2>2. ASSUME NEW i \in 1 .. Len(toDev'), NEW j \in 1 .. Len(toDev'), i < j
          PROVE  toDev'[i].num < toDev'[j].num
      <3>1. i \in 1 .. Len(toDev) /\ toDev'[i] = toDev[i]
        BY <1>5, <1>10, <2>2
      <3>2. CASE j \in 1 .. Len(toDev)
        BY <1>1, <1>5, <2>2, <3>1, <3>2 DEF AfcInv, Numbered
      <3>3. CASE j = Len(toDev) + 1
        BY <1>4, <1>5, <1>9, <3>1, <3>3
      <3> QED
        BY <1>10, <3>2, <3>3
    <2>3. \A i \in 1 .. Len(toHost') :
             toHost'[i].answer.num <= packet_num' /\ toHost'[i].answer.num # packet_num'
      BY <1>9
    <2>4. \A i \in 1 .. Len(toHost') : toHost'[i].part = "header" =>
             i < Len(toHost') /\ toHost'[i + 1] = [part |-> "payload", answer |-> toHost'[i].answer]
      BY <1>1 DEF AfcInv, Numbered
    <2> QED
      BY <2>1, <2>2, <2>3, <2>4 DEF Numbered
  <1>12. Held'
    <2>1. \A h \in handles : h.handle \in Nat /\ h.handle <= packet_num
      BY <1>1 DEF TypeOK, Handles, AfcInv, Held
    <2>2. \A h \in handles : \A i \in 1 .. Len(toDev') : h.handle < toDev'[i].num
      BY <1>1, <1>4, <1>9, <1>10, <2>1 DEF AfcInv, Held
    <2> QED
      BY <1>1, <1>9, <2>1, <2>2 DEF AfcInv, Held
  <1>13. Asked'
    <2>1. \A i \in 1 .. Len(toDev') : toDev'[i].op = "write" => toDev'[i].chunk \in Chunks
      BY <1>1, <1>3, <1>4, <1>10 DEF AfcInv, Asked
    <2>2. \A i \in 1 .. Len(toDev') : toDev'[i].num = packet_num' => toDev'[i] = Packet
      BY <1>9, <1>10
    <2>3. \A i \in 1 .. Len(toDev') : toDev'[i].num = packet_num' => Asks(toDev[i])'
      BY <1>2, <1>4, <2>2 DEF Asks
    <2>4. \A i \in 1 .. Len(toHost') : toHost'[i].answer.num # packet_num'
      BY <1>9
    <2> QED
      BY <2>1, <2>3, <2>4 DEF Asked
  <1>14. Lockstep'
    BY <1>1, <1>2, <1>4, <1>5, EmptySeq DEF AfcInv, Lockstep
  <1>15. OnlyOwn'
    BY <1>1, <1>5 DEF AfcInv, OnlyOwn, Served, Asking
  <1>16. Pulling'
    BY <1>1, <1>2 DEF AfcInv, Pulling
  <1>17. Pushing'
    <2> SUFFICES ASSUME Steady, op = "push"
                 PROVE  Pushing'
      BY <1>2 DEF Pushing
    <2>1. /\ files[path] # Absent
          /\ \A h \in handles : h.handle = handle => h.path = path
          /\ step = "close" /\ ~cut => files[path] = source
          /\ step = "body" => files[path] \o left = source
      BY <1>1 DEF AfcInv, Pushing
    <2>2. step = "body" => (files[path] \o <<Head(left)>>) \o Tail(left) = source
      BY <1>1, <2>1, FileIs, ChunksOf DEF TypeOK
    <2>3. step = "body" => PacketOp = "write"
      BY <1>1, PacketOps
    <2>4. toDev = <<>> /\ toHost = <<>>
      BY <1>1 DEF AfcInv, Lockstep, InStep
    <2>5. Len(toDev) = 0 /\ toDev'[1] = Packet
      BY <1>5, <2>4
    <2> QED
      BY <1>1, <1>3, <1>4, <2>1, <2>2, <2>3, <2>4, <2>5 DEF Pushing
  <1> QED
    BY <1>6, <1>7, <1>8, <1>11, <1>12, <1>13, <1>14, <1>15, <1>16, <1>17 DEF AfcAll, AfcInv
-----------------------------------------------------------------------------
(* The steps that read an answer.                                          *)

LEMMA ReadHeaderKeeps ==
    ASSUME AfcAll, ReadHeader
    PROVE  AfcAll'
  <1>1. /\ TypeOK /\ AfcInv /\ OneRead /\ wait' = "payload" /\ wait = "header" /\ aligned
        /\ toHost # <<>> /\ Matches
        /\ stream' = stream /\ op' = op /\ path' = path /\ to' = to /\ result' = result
        /\ packet_num' = packet_num /\ step' = step /\ handle' = handle /\ left' = left
        /\ source' = source /\ target' = target /\ status' = status /\ toDev' = toDev
        /\ aligned' = aligned /\ files' = files /\ handles' = handles /\ done' = done
        /\ credited' = credited /\ spoilt' = spoilt /\ leaked' = leaked /\ cut' = cut
        /\ calls' = calls /\ faults' = faults
    BY TailIsOneRead DEF AfcAll, ReadHeader, file_io, afcd, past
  <1>2. /\ Len(toHost) = 2 /\ toDev = <<>> /\ toHost[1].part = "header"
        /\ toHost[1].answer.num = packet_num
        /\ toHost[2] = [part |-> "payload", answer |-> toHost[1].answer]
    <2>1. /\ toHost[1].part = "header" /\ toHost[1].answer.num = packet_num
          /\ 1 \in 1 .. Len(toHost) /\ Len(toHost) \in Nat
      BY <1>1, FirstOf DEF Matches, OneRead, TypeOK
    <2>2. toDev = <<>> /\ 1 = Len(toHost) - 1 /\ toHost[1 + 1] = [part |-> "payload", answer |-> toHost[1].answer]
      BY <1>1, <2>1 DEF AfcInv, Numbered
    <2> QED
      BY <2>1, <2>2
  <1>3. /\ Len(toHost') = 1 /\ toHost'[1].part = "payload" /\ toHost'[1].answer = toHost[1].answer
        /\ toHost' # <<>> /\ toHost # <<>>
    <2>1. Len(toHost') = 1 /\ toHost'[1] = toHost[2]
      BY <1>1, <1>2 DEF OneRead
    <2> QED
      BY <1>2, <2>1
  <1>4. op # "idle" /\ stream # "closed" /\ Asking /\ Asking' /\ Served /\ Served'
        /\ (Steady' <=> Steady) /\ (InStep' <=> InStep) /\ PacketOp' = PacketOp
    BY <1>1, <1>2 DEF AfcInv, Clean, Waiting, Asking, Served, Steady, InStep, PacketOp
  <1>5. TypeOK'
    BY <1>1 DEF TypeOK, OneRead
  <1>6. Clean' /\ Waiting'
    BY <1>1, <1>2, <1>3, <1>4 DEF AfcInv, Clean, Waiting
  <1>7. Numbered' /\ Carried' /\ Held'
    BY <1>1, TailNumbered DEF AfcInv, Held
  <1>8. Asked'
    <2>1. Refusal(toHost[1].answer) \/ Fits(toHost[1].answer)
      BY <1>1, <1>2, <1>4 DEF AfcInv, Asked
    <2>2. Refusal(toHost[1].answer)' \/ Fits(toHost[1].answer)'
      BY <1>1, <1>3, <1>4, <2>1 DEF Refusal, Fits
    <2>3. \A i \in 1 .. Len(toHost') : i = 1
      BY <1>3
    <2>4. Len(toDev') = 0
      BY <1>1, <1>2
    <2> QED
      BY <2>2, <2>3, <2>4 DEF Asked
  <1>9. Lockstep'
    BY <1>1, <1>4 DEF AfcInv, Lockstep
  <1>10. OnlyOwn'
    BY <1>1, <1>3, <1>4 DEF AfcInv, OnlyOwn, Refusal
  <1>11. Pulling'
    BY <1>1, <1>3, <1>4 DEF AfcInv, Pulling, Refusal
  <1>12. Pushing'
    BY <1>1, <1>2, <1>3, <1>4 DEF AfcInv, Pushing, Refusal
  <1> QED
    BY <1>5, <1>6, <1>7, <1>8, <1>9, <1>10, <1>11, <1>12 DEF AfcAll, AfcInv

\* The answer that is read.
Answer == toHost[1].answer

Payload ==
    /\ TypeOK /\ AfcInv /\ op # "idle" /\ stream # "closed" /\ Asking /\ Served
    /\ wait = "payload" /\ toDev = <<>> /\ toHost # <<>> /\ Answer \in Answers /\ Answer.num = packet_num
    /\ packet_num \in Nat /\ (Refusal(Answer) \/ Fits(Answer))
    /\ ~Refusal(Answer) => packet_num \in done
    /\ toHost' = <<>>
    /\ UNCHANGED <<stream, path, to, packet_num, left, toDev, aligned, afcd, spoilt, calls>>

\* What is left to be shown of a payload that was read.
Taken ==
    /\ wait' = "send" /\ op' \in {op, "idle"}
    /\ op' # "idle" => op \in {"pull", "push"} /\ step' # "open"
    /\ step' \in {"open", "body", "close"} /\ status' \in BOOLEAN /\ leaked' \in BOOLEAN /\ cut' \in BOOLEAN
    /\ handle' \in Nat /\ source' \in Files /\ target' \in Files
    /\ result' \in {"none", "ok", "error"} /\ faults' \in 0 .. MaxFaults
    /\ op' = "idle" /\ op \in Simple => step' = "open"
    /\ credited' \in Nat /\ credited' \in done \cup {0}
    /\ OnlyOwn' /\ Pulling' /\ Pushing'

LEMMA TakenKeeps ==
    ASSUME Payload, Taken
    PROVE  AfcAll'
  <1> USE DEF afcd
  <1>1. TypeOK /\ AfcInv /\ stream # "closed" /\ op # "idle" /\ packet_num \in Nat
    BY DEF Payload
  <1>2. TypeOK'
    <2>1. <<>> \in Seq(Units)
      BY EmptySeq
    <2>2. {aligned, status, spoilt, leaked, cut} \subseteq BOOLEAN
      BY <1>1 DEF TypeOK
    <2>3. {aligned', status', spoilt', leaked', cut'} \subseteq BOOLEAN
      BY <2>2 DEF Payload, Taken
    <2> QED
      BY <1>1, <2>1, <2>3 DEF Payload, Taken, TypeOK
  <1>3. Clean' /\ Waiting' /\ ~Asking'
    BY <1>1 DEF Payload, Taken, Clean, Waiting, Asking, Simple
  <1>4. Len(toHost') = 0 /\ Len(toDev') = 0
    BY DEF Payload
  <1>5. Numbered' /\ Held'
    BY <1>1, <1>4 DEF Payload, AfcInv, Numbered, Held
  <1>6. Carried'
    BY <1>1, <1>4 DEF Payload, Taken, AfcInv, Carried
  <1>7. Asked'
    BY <1>3, <1>4 DEF Asked
  <1>8. Lockstep'
    BY <1>1 DEF Payload, Taken, AfcInv, Waiting, Lockstep
  <1> QED
    BY <1>2, <1>3, <1>5, <1>6, <1>7, <1>8 DEF Taken, AfcAll, AfcInv

\* What the device's answer says of the handles there are.
LEMMA HandlesAre ==
    ASSUME Payload
    PROVE  /\ stream = "open" /\ ~spoilt /\ ~leaked /\ (op \in Simple \/ step = "close") => handles = {}
           /\ stream = "open" /\ ~spoilt /\ ~leaked /\ Refusal(Answer) /\ step = "open" => handles = {}
           /\ stream = "open" /\ ~spoilt /\ ~leaked /\ step = "body" => \A h \in handles : h.handle = handle
           /\ stream = "open" /\ ~spoilt /\ ~leaked /\ step = "open" => \A h \in handles : h.handle = packet_num
           /\ stream # "open" => handles = {}
           /\ handles \subseteq Handles
  BY DEF Payload, AfcInv, OnlyOwn, Held, TypeOK, Answer, Simple

LEMMA RefusedTaken ==
    ASSUME Payload, Refusal(Answer), Refused(Answer)
    PROVE  Taken
  <1> USE DEF Payload, Refused, afcd
  <1>1. /\ wait' = "send" /\ ~Steady'
        /\ op' \in {op, "idle"} /\ result' \in {"none", "ok", "error"} /\ status' \in BOOLEAN
        /\ op' # "idle" => op \in {"pull", "push"} /\ step = "body" /\ step' = "close"
        /\ op' = "idle" => step' = step
    BY ErrShape
  <1>2. step' \in {"open", "body", "close"} /\ (op' = "idle" /\ op \in Simple => step' = "open")
    BY <1>1 DEF TypeOK, AfcInv, Waiting
  <1>3. Pulling' /\ Pushing'
    BY <1>1 DEF Pulling, Pushing
  <1>4. OnlyOwn'
    <2>1. op \in Simple \/ (op \in {"pull", "push"} /\ step \in {"open", "body", "close"})
      BY DEF TypeOK
    <2>2. step = "body" /\ op \notin Simple => op' = op /\ step' = "close"
      BY <2>1 DEF Errs, GoesOn, Return
    <2> QED
      BY <1>1, <2>1, <2>2, HandlesAre DEF OnlyOwn, Served, Asking
  <1>5. credited' \in Nat /\ credited' \in done \cup {0}
    BY DEF TypeOK, AfcInv, Carried
  <1>6. /\ handle' \in Nat /\ source' \in Files /\ target' \in Files /\ faults' \in 0 .. MaxFaults
        /\ leaked' \in BOOLEAN /\ cut' \in BOOLEAN
    BY DEF TypeOK
  <1> QED
    BY <1>1, <1>2, <1>3, <1>4, <1>5, <1>6 DEF Taken

LEMMA ReturnTaken ==
    ASSUME Payload, ~Refusal(Answer),
           \/ op \in Simple /\ Simply(Answer)
           \/ op \in {"pull", "push"} /\ step = "close" /\ Closed
    PROVE  Taken
  <1> USE DEF Payload, Simply, Closed, Credits, Return, afcd
  <1>1. /\ wait' = "send" /\ op' = "idle" /\ result' \in {"none", "ok", "error"} /\ credited' = packet_num
        /\ UNCHANGED <<step, handle, source, target, status, leaked, cut, faults>>
    OBVIOUS
  <1>2. step \in {"open", "body", "close"} /\ (op \in Simple => step = "open")
    BY DEF TypeOK, AfcInv, Waiting
  <1>3. Pulling' /\ Pushing'
    BY <1>1 DEF Pulling, Pushing, Steady
  <1>4. OnlyOwn'
    BY <1>1, HandlesAre DEF OnlyOwn
  <1>5. /\ handle \in Nat /\ source \in Files /\ target \in Files /\ faults \in 0 .. MaxFaults
        /\ leaked \in BOOLEAN /\ cut \in BOOLEAN /\ status \in BOOLEAN
    BY DEF TypeOK
  <1> QED
    BY <1>1, <1>2, <1>3, <1>4, <1>5 DEF Taken

LEMMA OpenedTaken ==
    ASSUME Payload, ~Refusal(Answer), op \in {"pull", "push"}, step = "open", Opened(Answer)
    PROVE  Taken
  <1> USE DEF Payload, Opened, Credits, afcd
  <1>1. /\ Answer.kind = "open" /\ Answer.data = <<packet_num>> /\ files[path] # Absent
        /\ op = "push" => files[path] = <<>>
        /\ stream = "open" => [handle |-> packet_num, path |-> path, pos |-> 0] \in handles
    BY PacketOps DEF Fits
  <1>2. handle' = packet_num /\ credited' = packet_num /\ status' = status /\ wait' = "send"
    BY <1>1 DEF GoesOn, Return
  <1>3. \/ op = "pull" /\ op' = op /\ step' = "body" /\ source' = files[path] /\ target' = <<>>
           /\ UNCHANGED <<leaked, faults, result>>
        \/ op = "pull" /\ op' = "idle" /\ leaked' /\ faults < MaxFaults /\ faults' = faults + 1
           /\ result' = "error" /\ UNCHANGED <<step, source, target>>
        \/ op = "push" /\ op' = op /\ step' = "body" /\ UNCHANGED <<source, target, leaked, faults, result>>
    BY DEF GoesOn, Return
  <1>4. files[path] \in Files /\ <<>> \in Files /\ files[path] = files[path] /\ Len(files[path]) \in Nat
    BY <1>1, FileIs, AbsentIsNoFile, ChunksOf DEF TypeOK
  <1>5. /\ handle' \in Nat /\ source' \in Files /\ target' \in Files /\ faults' \in 0 .. MaxFaults
        /\ leaked' \in BOOLEAN /\ cut' \in BOOLEAN /\ status' \in BOOLEAN
        /\ result' \in {"none", "ok", "error"} /\ step' \in {"open", "body", "close"}
    <2>1. leaked \in BOOLEAN /\ cut \in BOOLEAN
      BY DEF TypeOK
    <2>2. leaked' \in BOOLEAN /\ cut' \in BOOLEAN
      BY <1>3, <2>1
    <2>3. faults' \in 0 .. MaxFaults
      BY <1>3, AfcAssumption DEF TypeOK
    <2> QED
      BY <1>2, <1>3, <1>4, <2>2, <2>3 DEF TypeOK
  <1>6. \A h \in handles : h.handle = packet_num =>
            h = [handle |-> packet_num, path |-> path, pos |-> 0]
    BY <1>1, HandlesAre DEF AfcInv, Held
  <1>7. OnlyOwn'
    BY <1>2, <1>3, HandlesAre DEF OnlyOwn
  <1>8. Pulling'
    <2> SUFFICES ASSUME Steady', op' = "pull"
                 PROVE  Pulling'
      BY DEF Pulling
    <2>1. /\ op' = "pull" /\ step' = "body" /\ source' = files'[path'] /\ target' = <<>>
          /\ source' # Absent /\ Len(source') \in Nat /\ toHost' = <<>>
      BY <1>1, <1>3, <1>4
    <2>2. Len(<<>>) = 0 /\ SubSeq(source', 1, 0) = <<>>
      BY SubSeqEmpty, EmptySeq
    <2>3. Len(target') <= Len(source') /\ target' = SubSeq(source', 1, Len(target')) /\ Len(target') = 0
      BY <2>1, <2>2
    <2>4. \A h \in handles' : h.handle = handle' => h.path = path' /\ h.pos = 0
      BY <1>2, <1>6
    <2> QED
      BY <2>1, <2>3, <2>4 DEF Pulling
  <1>9. Pushing'
    <2>1. op = "push" => files[path] \o left = source
      BY <1>1, ConcatEmptySeq DEF AfcInv, Waiting, Files
    <2> QED
      BY <1>1, <1>2, <1>3, <1>6, <2>1 DEF Pushing, Steady
  <1> QED
    BY <1>2, <1>3, <1>5, <1>7, <1>8, <1>9 DEF Taken, Simple

\* One chunk more of a file that is read from its beginning.
LEMMA OneMore ==
    ASSUME NEW s \in Files, NEW n \in Nat, n < Len(s)
    PROVE  /\ Len(SubSeq(s, 1, n)) = n /\ Len(SubSeq(s, 1, n) \o <<s[n + 1]>>) = n + 1
           /\ SubSeq(s, 1, n) \o <<s[n + 1]>> = SubSeq(s, 1, n + 1)
  <1>1. s \in Seq(Chunks) /\ Len(s) \in Nat
    BY ChunksOf DEF Files
  <1>2. n + 1 \in 1 .. Len(s) /\ 1 \in 1 .. Len(s) /\ n + 1 \in 1 .. Len(s) /\ (n + 1) - 1 = n
    BY <1>1
  <1>3. SubSeq(s, 1, n + 1) = SubSeq(s, 1, (n + 1) - 1) \o <<s[n + 1]>>
    BY <1>1, <1>2, SubSeqRecursiveSecond
  <1>4. \A i \in 1 .. n + 1 : s[i] \in Chunks
    BY <1>1, <1>2, ElementOfSeq
  <1>5. Len(SubSeq(s, 1, n)) = n
    BY <1>4, SubSeqProperties
  <1>6. Len(SubSeq(s, 1, n + 1)) = n + 1
    BY <1>4, SubSeqProperties
  <1> QED
    BY <1>2, <1>3, <1>5, <1>6

\* What is left of a file that was cut short is one.
LEMMA ShorterIsFile ==
    ASSUME NEW s \in Files, NEW n \in 0 .. Len(s) - 1
    PROVE  SubSeq(s, 1, n) \in Files
  <1>1. s \in Seq(Chunks) /\ Len(s) \in Nat
    BY ChunksOf DEF Files
  <1>2. \A i \in 1 .. n : s[i] \in Chunks
    BY <1>1, ElementOfSeq
  <1>3. n \in Nat
    BY <1>1
  <1> QED
    BY <1>2, <1>3, SubSeqProperties DEF Files

LEMMA PulledTaken ==
    ASSUME Payload, ~Refusal(Answer), op = "pull", step = "body", Pulled(Answer)
    PROVE  Taken
  <1> USE DEF Payload, Pulled, LocalEnds, Credits, afcd
  <1>1. Answer.kind = "status" \/ (Answer.kind = "data" /\ Answer.data \in Files)
    BY PacketOps DEF Fits
  <1>2. /\ wait' = "send" /\ op' = "pull" /\ result' = result /\ credited' = packet_num
        /\ step' \in {"body", "close"} /\ UNCHANGED <<handle, source, leaked>>
    BY DEF GoesOn
  <1>3. /\ handle \in Nat /\ source \in Files /\ target \in Files /\ leaked \in BOOLEAN
        /\ result \in {"none", "ok", "error"}
    BY DEF TypeOK
  <1>4. status' \in BOOLEAN /\ faults' \in 0 .. MaxFaults /\ cut' \in BOOLEAN
    <2>1. status \in BOOLEAN /\ cut \in BOOLEAN /\ faults \in 0 .. MaxFaults /\ MaxFaults \in Nat
      BY AfcAssumption DEF TypeOK
    <2>2. status' = status \/ status' = FALSE
      OBVIOUS
    <2>3. faults' = faults \/ (faults < MaxFaults /\ faults' = faults + 1)
      OBVIOUS
    <2>4. status' \in BOOLEAN /\ cut' \in BOOLEAN
      BY <2>1, <2>2
    <2>5. faults' \in 0 .. MaxFaults
      BY <2>1, <2>3
    <2> QED
      BY <2>4, <2>5
  <1>5. target' \in Files
    <2>1. Answer.data \in Files => target \o Answer.data \in Files
      BY <1>3, ConcatProperties DEF Files
    <2>2. \A n \in 0 .. Len(target) - 1 : SubSeq(target, 1, n) \in Files
      BY <1>3, ShorterIsFile
    <2>3. \/ target' \in {target, target \o Answer.data}
          \/ target' \in {SubSeq(target, 1, n) : n \in 0 .. Len(target) - 1}
      OBVIOUS
    <2> QED
      BY <1>1, <1>3, <2>1, <2>2, <2>3
  <1>6. OnlyOwn'
    BY <1>2, HandlesAre DEF OnlyOwn, Served, Asking
  <1>7. Pushing'
    BY <1>2 DEF Pushing
  <1>8. Pulling'
    <2> SUFFICES ASSUME Steady'
                 PROVE  Pulling'
      BY DEF Pulling
    <2>1. Steady
      BY <1>4 DEF Steady
    <2>2. /\ source = files[path] /\ source # Absent
          /\ Len(target) <= Len(source) /\ target = SubSeq(source, 1, Len(target))
          /\ \A h \in handles : h.handle = handle =>
                 h.path = path /\ h.pos = IF Answer.kind = "data" THEN Len(target) + 1 ELSE Len(target)
          /\ Answer.kind = "data" => Len(target) < Len(source) /\ Answer.data = <<source[Len(target) + 1]>>
          /\ Answer.kind # "data" => target = source
      BY <2>1 DEF AfcInv, Pulling, Answer
    <2>3. Len(target) \in Nat /\ Len(source) \in Nat
      BY <1>3, ChunksOf
    <2>4. CASE Answer.kind # "data"
      <3>1. step' = "close" /\ (~cut' => target' = target)
        BY <1>1, <2>4 DEF GoesOn
      <3>2. source' = files'[path'] /\ source' # Absent /\ (~cut' => target' = source')
        BY <1>2, <2>2, <2>4, <3>1
      <3> QED
        BY <3>1, <3>2 DEF Pulling
    <2>5. CASE Answer.kind = "data"
      <3>1. Answer.data # <<>>
        <4>1. \A c : <<c>> # <<>>
          OBVIOUS
        <4> QED
          BY <2>2, <2>5, <4>1
      <3>2. target' = target \o Answer.data /\ step' = "body"
        BY <2>5, <3>1 DEF GoesOn, Steady
      <3>3. /\ Len(target') = Len(target) + 1 /\ target' = SubSeq(source, 1, Len(target) + 1)
            /\ Len(target') <= Len(source)
        <4> DEFINE n == Len(target)
        <4>1. n \in Nat /\ n < Len(source) /\ target = SubSeq(source, 1, n)
          BY <2>2, <2>3, <2>5
        <4>2. target' = SubSeq(source, 1, n) \o <<source[n + 1]>>
          BY <2>2, <2>5, <3>2, <4>1
        <4> HIDE DEF n
        <4>3. target' = SubSeq(source, 1, n + 1) /\ Len(target') = n + 1
          BY <1>3, <4>1, <4>2, OneMore
        <4>4. n + 1 <= Len(source)
          BY <2>3, <4>1
        <4> QED
          BY <4>3, <4>4 DEF n
      <3>4. \A h \in handles' : h.handle = handle' => h.path = path' /\ h.pos = Len(target')
        BY <1>2, <2>2, <2>5, <3>3
      <3>5. target' = SubSeq(source', 1, Len(target')) /\ Len(target') <= Len(source')
        BY <1>2, <3>3
      <3> QED
        BY <1>2, <2>2, <3>2, <3>4, <3>5 DEF Pulling
    <2> QED
      BY <2>4, <2>5
  <1> QED
    BY <1>2, <1>3, <1>4, <1>5, <1>6, <1>7, <1>8 DEF Taken, Simple

LEMMA PushedTaken ==
    ASSUME Payload, ~Refusal(Answer), op = "push", step = "body", Pushed
    PROVE  Taken
  <1> USE DEF Payload, Pushed, Credits, GoesOn, afcd
  <1>1. /\ handle \in Nat /\ source \in Files /\ target \in Files /\ leaked \in BOOLEAN
        /\ result \in {"none", "ok", "error"} /\ status \in BOOLEAN /\ cut \in BOOLEAN
        /\ faults \in 0 .. MaxFaults
    BY DEF TypeOK
  <1>2. OnlyOwn'
    BY HandlesAre DEF OnlyOwn, Served, Asking
  <1>3. Pulling'
    BY DEF Pulling
  <1>4. Pushing'
    BY DEF AfcInv, Pushing, Steady, Answer
  <1> QED
    BY <1>1, <1>2, <1>3, <1>4 DEF Taken, Simple

LEMMA ReadPayloadKeeps ==
    ASSUME AfcAll, ReadPayload
    PROVE  AfcAll'
  <1>1. /\ TypeOK /\ AfcInv /\ wait = "payload" /\ toHost # <<>> /\ op # "idle" /\ Asking
        /\ toDev = <<>> /\ Len(toHost) = 1 /\ Answer.num = packet_num
    BY DEF AfcAll, AfcInv, Waiting, ReadPayload, Asking, Answer
  <1>2. toHost \in Seq(Units) /\ Head(toHost) = toHost[1] /\ Tail(toHost) = <<>>
    BY <1>1, OnlyOne, FirstOf DEF TypeOK
  <1>3. Answer \in Answers /\ packet_num \in Nat /\ 1 \in 1 .. Len(toHost)
    BY <1>1, UnderWay DEF Answer
  <1>4. /\ toHost' = <<>>
        /\ UNCHANGED <<stream, path, to, packet_num, left, toDev, aligned, afcd, spoilt, calls>>
    BY <1>2 DEF ReadPayload
  <1>5. Payload
    <2>1. Refusal(Answer) \/ Fits(Answer)
      BY <1>1, <1>3 DEF AfcInv, Asked, Answer
    <2>2. ~Refusal(Answer) => packet_num \in done
      BY <1>1, <1>3 DEF AfcInv, Carried, Answer
    <2>3. stream # "closed" /\ Served
      BY <1>1 DEF AfcInv, Clean, Served
    <2> QED
      BY <1>1, <1>3, <1>4, <2>1, <2>2, <2>3 DEF Payload
  <1>6. Answer.kind = "status" /\ Answer.code # 0 <=> Refusal(Answer)
    BY <1>3 DEF Answers, Refusal
  <1>7. op \in Simple \/ (op \in {"pull", "push"} /\ op \notin Simple /\ step \in {"open", "body", "close"})
    BY <1>1 DEF TypeOK, Simple
  <1>8. Head(toHost).answer = Answer
    BY <1>2 DEF Answer
  <1>9. CASE Refusal(Answer)
    <2>1. Refused(Answer)
      BY <1>6, <1>8, <1>9 DEF ReadPayload
    <2> QED
      BY <1>5, <1>9, <2>1, RefusedTaken, TakenKeeps
  <1>10. CASE ~Refusal(Answer)
    <2>1. IF op \in Simple THEN Simply(Answer)
          ELSE CASE step = "open" -> Opened(Answer)
                 [] step = "close" -> Closed
                 [] step = "body" -> IF op = "pull" THEN Pulled(Answer) ELSE Pushed
      BY <1>6, <1>8, <1>10 DEF ReadPayload
    <2>2. CASE op \in Simple
      BY <1>5, <1>10, <2>1, <2>2, ReturnTaken, TakenKeeps
    <2>3. CASE op \notin Simple /\ step = "open"
      <3>1. Opened(Answer)
        BY <2>1, <2>3
      <3> QED
        BY <1>5, <1>7, <1>10, <2>3, <3>1, OpenedTaken, TakenKeeps
    <2>4. CASE op \notin Simple /\ step = "close"
      <3>1. Closed
        BY <2>1, <2>4
      <3> QED
        BY <1>5, <1>7, <1>10, <2>4, <3>1, ReturnTaken, TakenKeeps
    <2>5. CASE op \notin Simple /\ step = "body" /\ op = "pull"
      BY <1>5, <1>7, <1>10, <2>1, <2>5, PulledTaken, TakenKeeps
    <2>6. CASE op \notin Simple /\ step = "body" /\ op = "push"
      BY <1>5, <1>7, <1>10, <2>1, <2>6, PushedTaken, TakenKeeps
    <2> QED
      BY <1>7, <2>2, <2>3, <2>4, <2>5, <2>6
  <1> QED
    BY <1>9, <1>10
-----------------------------------------------------------------------------
(* The steps of the device.                                                *)

\* The packet that is served, and the answer to it.
First == toDev[1]

\* The device does what the packet says, and answers other than with a refusal.
ActsOpen(p, a) ==
    /\ p.op \in {"open_r", "open_w"}
    /\ handles' = handles \cup {[handle |-> p.num, path |-> p.path, pos |-> 0]}
    /\ files' = IF p.op = "open_w" THEN [files EXCEPT ![p.path] = <<>>] ELSE files
    /\ a.kind = "open" /\ a.data = <<p.num>>

More(h) == files[h.path] # Absent /\ h.pos < Len(files[h.path])

ActsRead(p, a) ==
    /\ p.op = "read" /\ files' = files
    /\ \/ /\ More(Of(p))
          /\ handles' = (handles \ {Of(p)}) \cup {[Of(p) EXCEPT !.pos = @ + 1]}
          /\ a.kind = "data" /\ a.data = <<files[Of(p).path][Of(p).pos + 1]>>
       \/ ~More(Of(p)) /\ handles' = handles /\ a.kind = "status"

ActsWrite(p, a) ==
    /\ p.op = "write" /\ handles' = handles /\ a.kind = "status"
    /\ files' = [files EXCEPT ![Of(p).path] = IF @ = Absent THEN @ ELSE Append(@, p.chunk)]

ActsClose(p, a) ==
    p.op = "close" /\ files' = files /\ handles' = handles \ {Of(p)} /\ a.kind = "status"

ActsSimply(p, a) ==
    /\ p.op \in Simple /\ handles' = handles /\ a.kind \in {"status", "data"}
    /\ files' \in [Paths -> Files \cup {Absent}]
    /\ p.op = "mkdir" => files' = files

Acts(p, a) == ActsOpen(p, a) \/ ActsRead(p, a) \/ ActsWrite(p, a) \/ ActsClose(p, a) \/ ActsSimply(p, a)

\* The answer goes out behind what is under way.
Sends(a) ==
    /\ a \in Answers /\ toHost' \in Seq(Units)
    /\ Len(toHost) \in Nat /\ Len(toHost') = Len(toHost) + 2
    /\ \A i \in 1 .. Len(toHost) : toHost'[i] = toHost[i]
    /\ toHost'[Len(toHost) + 1] = [part |-> "header", answer |-> a]
    /\ toHost'[Len(toHost) + 2] = [part |-> "payload", answer |-> a]

LEMMA SentSends ==
    ASSUME TypeOK, NEW a \in Answers, Sent(a)
    PROVE  Sends(a)
  <1>1. toHost \in Seq(Units)
    BY DEF TypeOK
  <1>2. [part |-> "header", answer |-> a] \in Units /\ [part |-> "payload", answer |-> a] \in Units
    BY DEF Units
  <1> QED
    BY <1>1, <1>2, TwoMore DEF Sends, Sent

LEMMA AnswersAre ==
    ASSUME NEW p \in Packets
    PROVE  /\ Status(p, 0) \in Answers /\ Status(p, 1) \in Answers
           /\ \A data \in Seq(Nat) : Data(p, data) \in Answers
           /\ [num |-> p.num, kind |-> "open", code |-> 0, data |-> <<p.num>>] \in Answers
  <1>1. p.num \in Nat /\ <<>> \in Seq(Nat) /\ <<p.num>> \in Seq(Nat)
    BY EmptySeq DEF Packets
  <1> QED
    BY <1>1 DEF Status, Data, Answers, Kinds

LEMMA OfIs ==
    ASSUME TypeOK, NEW p, \E h \in handles : h.handle = p.handle
    PROVE  /\ Of(p) \in handles /\ Of(p).handle = p.handle /\ Of(p) \in Handles
           /\ Of(p).path \in Paths /\ Of(p).pos \in Nat
           /\ [Of(p) EXCEPT !.pos = @ + 1] \in Handles
           /\ [Of(p) EXCEPT !.pos = @ + 1].handle = p.handle
           /\ [Of(p) EXCEPT !.pos = @ + 1].path = Of(p).path
           /\ [Of(p) EXCEPT !.pos = @ + 1].pos = Of(p).pos + 1
  <1>1. Of(p) \in handles /\ Of(p).handle = p.handle
    BY DEF Of
  <1>2. Of(p) \in Handles
    BY <1>1 DEF TypeOK
  <1> QED
    BY <1>1, <1>2 DEF Handles

LEMMA NextChunk ==
    ASSUME TypeOK, NEW h \in Handles, More(h)
    PROVE  files[h.path][h.pos + 1] \in Chunks /\ <<files[h.path][h.pos + 1]>> \in Seq(Nat)
  <1>1. h.path \in Paths /\ h.pos \in Nat
    BY DEF Handles
  <1>2. files[h.path] \in Seq(Chunks)
    BY <1>1, FileIs DEF More, Files
  <1>3. h.pos + 1 \in 1 .. Len(files[h.path])
    BY <1>1, <1>2, LenProperties DEF More
  <1>4. files[h.path][h.pos + 1] \in Chunks
    BY <1>2, <1>3, ElementOfSeq
  <1>5. files[h.path][h.pos + 1] \in Nat
    BY <1>4, AfcAssumption DEF Chunks
  <1> QED
    BY <1>4, <1>5

LEMMA DoesActs ==
    ASSUME TypeOK, NEW p \in Packets, Can(p), Does(p)
    PROVE  \E a \in Answers : a.num = p.num /\ ~Refusal(a) /\ Acts(p, a) /\ Sends(a)
  <1>1. p.op \in Ops /\ p.num \in Nat /\ p.path \in Paths /\ p.to \in Paths
    BY DEF Packets
  <1>2. /\ Status(p, 0) \in Answers /\ Status(p, 0).num = p.num /\ Status(p, 0).kind = "status" /\ ~Refusal(Status(p, 0))
        /\ \A data \in Seq(Nat) : /\ Data(p, data) \in Answers /\ Data(p, data).num = p.num /\ Data(p, data).data = data
                                  /\ Data(p, data).kind = "data" /\ ~Refusal(Data(p, data))
    <2>1. Status(p, 0) \in Answers /\ Status(p, 0).num = p.num /\ Status(p, 0).kind = "status" /\ ~Refusal(Status(p, 0))
      <3>1. Status(p, 0) \in Answers
        BY AnswersAre
      <3>2. Status(p, 0) = [num |-> p.num, kind |-> "status", code |-> 0, data |-> <<>>]
        BY DEF Status
      <3> QED
        BY <3>1, <3>2 DEF Refusal
    <2>2. ASSUME NEW data \in Seq(Nat)
          PROVE  /\ Data(p, data) \in Answers /\ Data(p, data).num = p.num /\ Data(p, data).data = data
                 /\ Data(p, data).kind = "data" /\ ~Refusal(Data(p, data))
      BY AnswersAre DEF Data, Refusal
    <2> QED
      BY <2>1, <2>2
  <1>3. CASE p.op \in {"open_r", "open_w"}
    <2> DEFINE a == [num |-> p.num, kind |-> "open", code |-> 0, data |-> <<p.num>>]
    <2>1. a \in Answers /\ a.num = p.num /\ a.kind = "open" /\ a.data = <<p.num>> /\ ~Refusal(a)
      BY AnswersAre DEF Refusal
    <2>2. ActsOpen(p, a) /\ Sent(a)
      BY <1>3 DEF Does, ActsOpen
    <2> QED
      <3> HIDE DEF a
      <3> QED
        BY <2>1, <2>2, SentSends DEF Acts
  <1>4. CASE p.op = "read"
    <2>1. Of(p) \in Handles
      BY <1>4, OfIs DEF Can
    <2>2. CASE More(Of(p))
      <3> DEFINE d == <<files[Of(p).path][Of(p).pos + 1]>>
      <3>1. Data(p, d) \in Answers /\ Data(p, d).data = d
        BY <1>2, <2>1, <2>2, NextChunk
      <3>2. ActsRead(p, Data(p, d)) /\ Sent(Data(p, d))
        BY <1>2, <1>4, <2>1, <2>2, NextChunk DEF Does, ActsRead, More
      <3> QED
        BY <1>2, <2>1, <2>2, <3>1, <3>2, NextChunk, SentSends DEF Acts
    <2>3. CASE ~More(Of(p))
      <3>1. ActsRead(p, Status(p, 0)) /\ Sent(Status(p, 0))
        BY <1>2, <1>4, <2>3 DEF Does, ActsRead, More
      <3> QED
        BY <1>2, <3>1, SentSends DEF Acts
    <2> QED
      BY <2>2, <2>3
  <1>5. CASE p.op = "write"
    <2>1. ActsWrite(p, Status(p, 0)) /\ Sent(Status(p, 0))
      BY <1>2, <1>5 DEF Does, ActsWrite
    <2> QED
      BY <1>2, <2>1, SentSends DEF Acts
  <1>6. CASE p.op = "close"
    <2>1. ActsClose(p, Status(p, 0)) /\ Sent(Status(p, 0))
      BY <1>2, <1>6 DEF Does, ActsClose
    <2> QED
      BY <1>2, <2>1, SentSends DEF Acts
  <1>7. CASE p.op \in {"remove", "rename", "mkdir"}
    <2>1. handles' = handles /\ Sent(Status(p, 0)) /\ (p.op = "mkdir" => files' = files)
      BY <1>7 DEF Does
    <2>2. files' \in [Paths -> Files \cup {Absent}]
      BY <1>1, <1>7 DEF Does, TypeOK
    <2>3. ActsSimply(p, Status(p, 0))
      BY <1>2, <1>7, <2>1, <2>2 DEF ActsSimply, Simple
    <2> QED
      BY <1>2, <2>1, <2>3, SentSends DEF Acts
  <1>8. CASE p.op \in {"stat", "list"}
    <2>1. handles' = handles /\ files' = files /\ Sent(Data(p, <<>>)) /\ <<>> \in Seq(Nat)
      BY <1>8, EmptySeq DEF Does
    <2>2. files' \in [Paths -> Files \cup {Absent}]
      BY <2>1 DEF TypeOK
    <2>3. ActsSimply(p, Data(p, <<>>))
      BY <1>2, <1>8, <2>1, <2>2 DEF ActsSimply, Simple
    <2> QED
      BY <1>2, <2>1, <2>3, SentSends DEF Acts
  <1> QED
    BY <1>1, <1>3, <1>4, <1>5, <1>6, <1>7, <1>8 DEF Ops, Simple

\* What there is to be said of a step in which the device serves a packet.
Serves(a) ==
    /\ TypeOK /\ AfcInv /\ stream = "open" /\ toDev # <<>>
    /\ First \in Packets /\ First.num \in Nat /\ a.num = First.num /\ Sends(a)
    /\ toDev' \in Seq(Packets) /\ Len(toDev) \in Nat /\ Len(toDev') = Len(toDev) - 1 /\ Len(toDev) > 0
    /\ \A i \in 1 .. Len(toDev') : i + 1 \in 1 .. Len(toDev) /\ toDev'[i] = toDev[i + 1]
    /\ faults' \in 0 .. MaxFaults
    /\ UNCHANGED <<stream, client, file_io, aligned, past, calls>>
    /\ \/ Refusal(a) /\ (First.op = "close" => ~Can(First)) /\ UNCHANGED <<files, handles, done>>
       \/ ~Refusal(a) /\ Can(First) /\ Acts(First, a) /\ done' = done \cup {First.num}

LEMMA DeviceServesServes ==
    ASSUME AfcAll, DeviceServes
    PROVE  \E a \in Answers : Serves(a)
  <1> USE DEF DeviceServes
  <1>1. TypeOK /\ AfcInv /\ toDev \in Seq(Packets) /\ toDev # <<>>
    BY DEF AfcAll, TypeOK
  <1>2. /\ Head(toDev) = First /\ First \in Packets
        /\ toDev' \in Seq(Packets) /\ Len(toDev) \in Nat /\ Len(toDev') = Len(toDev) - 1 /\ Len(toDev) > 0
        /\ \A i \in 1 .. Len(toDev') : i + 1 \in 1 .. Len(toDev) /\ toDev'[i] = toDev[i + 1]
    BY <1>1, FirstOf DEF First
  <1>3. First.num \in Nat
    BY <1>2 DEF Packets
  <1>4. faults' \in 0 .. MaxFaults
    BY <1>1, AfcAssumption DEF TypeOK
  <1>5. Status(First, 1) \in Answers /\ Status(First, 1).num = First.num /\ Refusal(Status(First, 1))
    BY <1>2, AnswersAre DEF Status, Refusal
  <1>6. \/ Can(First) /\ Does(First) /\ done' = done \cup {First.num}
        \/ ~Can(First) /\ Sent(Status(First, 1)) /\ UNCHANGED <<files, handles, done>>
        \/ First.op # "close" /\ Sent(Status(First, 1)) /\ UNCHANGED <<files, handles, done>>
    BY <1>2
  <1>7. CASE Can(First) /\ Does(First) /\ done' = done \cup {First.num}
    <2>1. PICK a \in Answers : a.num = First.num /\ ~Refusal(a) /\ Acts(First, a) /\ Sends(a)
      BY <1>1, <1>2, <1>7, DoesActs
    <2>2. Serves(a)
      BY <1>1, <1>2, <1>3, <1>4, <1>7, <2>1 DEF Serves, TypeOK
    <2> QED
      BY <2>2
  <1>8. CASE /\ Sent(Status(First, 1)) /\ UNCHANGED <<files, handles, done>>
             /\ First.op = "close" => ~Can(First)
    <2>1. Sends(Status(First, 1))
      BY <1>1, <1>5, <1>8, SentSends
    <2>2. Serves(Status(First, 1))
      BY <1>1, <1>2, <1>3, <1>4, <1>5, <1>8, <2>1 DEF Serves, TypeOK
    <2> QED
      BY <1>5, <2>2
  <1> QED
    BY <1>6, <1>7, <1>8

\* Where the packet that is served stands.
LEMMA FirstIs ==
    ASSUME NEW a, Serves(a)
    PROVE  /\ packet_num \in Nat /\ 1 \in 1 .. Len(toDev) /\ First.num <= packet_num
           /\ First.num = packet_num => toDev' = <<>>
           /\ \A i \in 1 .. Len(toDev') : toDev'[i].num \in Nat /\ First.num < toDev'[i].num /\ toDev'[i].num <= packet_num
           /\ \A i \in 1 .. Len(toHost) : toHost[i].answer.num # packet_num
           /\ \A h \in handles : h.handle \in Nat /\ h.handle < First.num
           /\ wait # "payload" /\ op \in {"idle", "pull", "push"} \cup Simple
           /\ First.op = "write" => First.chunk \in Chunks
  <1>1. TypeOK /\ AfcInv /\ toDev # <<>> /\ packet_num \in Nat /\ 1 \in 1 .. Len(toDev) /\ toDev' \in Seq(Packets)
    BY UnderWay DEF Serves
  <1>2. First.num \in Nat /\ First.num <= packet_num
    BY <1>1 DEF Serves, AfcInv, Numbered, First
  <1>3. ASSUME NEW i \in 1 .. Len(toDev')
        PROVE  toDev'[i].num \in Nat /\ First.num < toDev'[i].num /\ toDev'[i].num <= packet_num
    <2> DEFINE k == i + 1
    <2>1. k \in 1 .. Len(toDev) /\ toDev'[i] = toDev[k] /\ 1 < k
      BY DEF Serves
    <2> HIDE DEF k
    <2> QED
      BY <1>1, <2>1, UnderWay DEF AfcInv, Numbered, First
  <1>4. First.num = packet_num => toDev' = <<>>
    <2>1. ASSUME First.num = packet_num, toDev' # <<>>
          PROVE  FALSE
      <3>1. Len(toDev') \in Nat /\ Len(toDev') > 0
        BY <1>1, <2>1, FirstOf
      <3>2. 1 \in 1 .. Len(toDev')
        BY <3>1
      <3> QED
        BY <1>1, <1>2, <1>3, <2>1, <3>2
    <2> QED
      BY <2>1
  <1>5. \A i \in 1 .. Len(toHost) : toHost[i].answer.num # packet_num
    BY <1>1 DEF AfcInv, Numbered
  <1>6. \A h \in handles : h.handle \in Nat /\ h.handle < First.num
    BY <1>1 DEF TypeOK, Handles, AfcInv, Held, First
  <1>7. wait # "payload" /\ op \in {"idle", "pull", "push"} \cup Simple
    BY <1>1 DEF TypeOK, AfcInv, Waiting
  <1>8. First.op = "write" => First.chunk \in Chunks
    BY <1>1 DEF AfcInv, Asked, First
  <1> QED
    BY <1>1, <1>2, <1>3, <1>4, <1>5, <1>6, <1>7, <1>8

\* What becomes of the handles and of the files.
LEMMA HandlesAfter ==
    ASSUME NEW a, Serves(a)
    PROVE  /\ handles' \subseteq Handles /\ files' \in [Paths -> Files \cup {Absent}] /\ done' \subseteq Nat
           /\ \A h \in handles' : (\E g \in handles : g.handle = h.handle /\ g.path = h.path)
                                  \/ (h.handle = First.num /\ ~Refusal(a) /\ ActsOpen(First, a))
           /\ \A h, g \in handles' : h.handle = g.handle => h = g
  <1> USE DEF Serves
  <1>1. /\ First.num \in Nat /\ First.path \in Paths /\ First.op \in Ops
        /\ handles \subseteq Handles /\ files \in [Paths -> Files \cup {Absent}] /\ done \subseteq Nat
        /\ \A h, g \in handles : h.handle = g.handle => h = g
        /\ \A h \in handles : h.handle \in Nat /\ h.handle < First.num
    BY FirstIs DEF Packets, TypeOK, AfcInv, Held
  <1>2. done' \subseteq Nat
    BY <1>1
  <1>3. CASE Refusal(a)
    BY <1>1, <1>2, <1>3
  <1>4. CASE ~Refusal(a) /\ Can(First) /\ ActsOpen(First, a)
    <2> DEFINE new == [handle |-> First.num, path |-> First.path, pos |-> 0]
    <2>1. new \in Handles /\ new.handle = First.num /\ handles' = handles \cup {new}
      BY <1>1, <1>4 DEF ActsOpen, Handles
    <2>2. files' \in [Paths -> Files \cup {Absent}]
      BY <1>1, <1>4, AbsentIsNoFile DEF ActsOpen
    <2> HIDE DEF new
    <2>3. \A h \in handles : h.handle # new.handle
      BY <1>1, <2>1
    <2> QED
      BY <1>1, <1>2, <1>4, <2>1, <2>2, <2>3
  <1>5. CASE ~Refusal(a) /\ Can(First) /\ ActsRead(First, a)
    <2> DEFINE o == Of(First)
               n == [Of(First) EXCEPT !.pos = @ + 1]
    <2>1. o \in handles /\ n \in Handles /\ n.handle = o.handle /\ n.path = o.path
      BY <1>5, OfIs DEF Can, ActsRead
    <2>2. handles' = handles \/ handles' = (handles \ {o}) \cup {n}
      BY <1>5 DEF ActsRead
    <2>3. files' = files
      BY <1>5 DEF ActsRead
    <2> HIDE DEF o, n
    <2>4. handles' \subseteq Handles
      BY <1>1, <2>1, <2>2
    <2>5. \A h \in handles' : \E g \in handles : g.handle = h.handle /\ g.path = h.path
      BY <2>1, <2>2
    <2>6. \A h, g \in handles' : h.handle = g.handle => h = g
      BY <1>1, <2>1, <2>2
    <2> QED
      BY <1>1, <1>2, <2>3, <2>4, <2>5, <2>6
  <1>6. CASE ~Refusal(a) /\ Can(First) /\ ActsWrite(First, a)
    <2>1. Of(First).path \in Paths /\ First.chunk \in Chunks
      BY <1>6, OfIs, FirstIs DEF Can, ActsWrite
    <2>2. files[Of(First).path] # Absent => Append(files[Of(First).path], First.chunk) \in Files
      BY <2>1, FileIs, ChunksOf
    <2>3. files' \in [Paths -> Files \cup {Absent}]
      BY <1>1, <1>6, <2>1, <2>2 DEF ActsWrite
    <2>4. handles' = handles
      BY <1>6 DEF ActsWrite
    <2> QED
      BY <1>1, <1>2, <2>3, <2>4
  <1>7. CASE ~Refusal(a) /\ Can(First) /\ ActsClose(First, a)
    BY <1>1, <1>2, <1>7 DEF ActsClose
  <1>8. CASE ~Refusal(a) /\ Can(First) /\ ActsSimply(First, a)
    BY <1>1, <1>2, <1>8 DEF ActsSimply
  <1> QED
    BY <1>3, <1>4, <1>5, <1>6, <1>7, <1>8 DEF Acts

\* The numbers and the answers under way, after a packet was served.
LEMMA ServesNumbered ==
    ASSUME NEW a, Serves(a)
    PROVE  TypeOK' /\ Clean' /\ Waiting' /\ Numbered' /\ Held' /\ Carried'
  <1> USE DEF Serves, client, file_io, past
  <1>1. TypeOK'
    BY HandlesAfter DEF TypeOK, Sends
  <1>2. Clean' /\ Waiting'
    BY FirstIs DEF AfcInv, Clean, Waiting
  <1>3. /\ Len(toHost) \in Nat /\ Len(toHost') = Len(toHost) + 2
        /\ \A i \in 1 .. Len(toHost) : toHost'[i] = toHost[i]
        /\ toHost'[Len(toHost) + 1] = [part |-> "header", answer |-> a]
        /\ toHost'[Len(toHost) + 2] = [part |-> "payload", answer |-> a]
    BY DEF Sends
  <1>4. \A i \in 1 .. Len(toHost') :
            \/ i \in 1 .. Len(toHost) /\ toHost'[i] = toHost[i]
            \/ i = Len(toHost) + 1 /\ toHost'[i] = [part |-> "header", answer |-> a]
            \/ i = Len(toHost) + 2 /\ toHost'[i] = [part |-> "payload", answer |-> a]
    BY <1>3
  <1>5. Numbered'
    <2>1. \A i \in 1 .. Len(toDev') : toDev'[i].num <= packet_num'
      BY FirstIs
    <2>2. ASSUME NEW i \in 1 .. Len(toDev'), NEW j \in 1 .. Len(toDev'), i < j
          PROVE  toDev'[i].num < toDev'[j].num
      <3> DEFINE k == i + 1
                 l == j + 1
      <3>1. k \in 1 .. Len(toDev) /\ l \in 1 .. Len(toDev) /\ k < l
            /\ toDev'[i] = toDev[k] /\ toDev'[j] = toDev[l]
        BY <2>2
      <3> HIDE DEF k, l
      <3> QED
        BY <3>1 DEF AfcInv, Numbered
    <2>3. ASSUME NEW i \in 1 .. Len(toHost')
          PROVE  /\ toHost'[i].answer.num <= packet_num'
                 /\ toHost'[i].answer.num = packet_num' => toDev' = <<>>
                 /\ toHost'[i].answer.num = packet_num' /\ toHost'[i].part # "header" => i = Len(toHost')
                 /\ toHost'[i].answer.num = packet_num' /\ toHost'[i].part = "header" => i = Len(toHost') - 1
                 /\ toHost'[i].part = "header" =>
                        /\ i < Len(toHost')
                        /\ toHost'[i + 1] = [part |-> "payload", answer |-> toHost'[i].answer]
      <3>1. CASE i \in 1 .. Len(toHost)
        <4>1. /\ toHost[i].answer.num <= packet_num /\ toHost[i].answer.num # packet_num
              /\ toHost[i].part = "header" =>
                    i < Len(toHost) /\ toHost[i + 1] = [part |-> "payload", answer |-> toHost[i].answer]
          BY <3>1, FirstIs DEF AfcInv, Numbered
        <4>2. i < Len(toHost) => toHost'[i + 1] = toHost[i + 1]
          BY <1>3, <3>1
        <4> QED
          BY <1>3, <3>1, <4>1, <4>2
      <3>2. CASE i = Len(toHost) + 1
        <4>1. toHost'[i] = [part |-> "header", answer |-> a]
              /\ toHost'[i + 1] = [part |-> "payload", answer |-> a]
              /\ i < Len(toHost') /\ i = Len(toHost') - 1
          BY <1>3, <3>2
        <4> QED
          BY <4>1, FirstIs
      <3>3. CASE i = Len(toHost) + 2
        <4>1. toHost'[i] = [part |-> "payload", answer |-> a] /\ i = Len(toHost')
          BY <1>3, <3>3
        <4> QED
          BY <4>1, FirstIs
      <3> QED
        BY <1>4, <3>1, <3>2, <3>3
    <2> QED
      BY <2>1, <2>2, <2>3 DEF Numbered
  <1>6. Held'
    <2>1. \A h \in handles' : h.handle \in Nat /\ h.handle <= First.num
      BY HandlesAfter, FirstIs
    <2>4. First.num \in Nat /\ packet_num \in Nat /\ First.num <= packet_num /\ packet_num' = packet_num
      BY FirstIs
    <2>2. \A h \in handles' : h.handle <= packet_num'
      BY <2>1, <2>4
    <2>3. \A h \in handles' : \A i \in 1 .. Len(toDev') : h.handle < toDev'[i].num
      BY <2>1, FirstIs
    <2> QED
      BY <2>2, <2>3, HandlesAfter DEF Held
  <1>7. Carried'
    <2>1. done \subseteq done' /\ (~Refusal(a) => First.num \in done')
      OBVIOUS
    <2>2. ASSUME NEW i \in 1 .. Len(toHost'), ~Refusal(toHost'[i].answer)
          PROVE  toHost'[i].answer.num \in done'
      <3>1. CASE i \in 1 .. Len(toHost) /\ toHost'[i] = toHost[i]
        BY <2>1, <2>2, <3>1 DEF AfcInv, Carried
      <3>2. CASE toHost'[i].answer = a
        BY <2>1, <2>2, <3>2
      <3>3. (i \in 1 .. Len(toHost) /\ toHost'[i] = toHost[i]) \/ toHost'[i].answer = a
        BY <1>4
      <3> QED
        BY <3>1, <3>2, <3>3
    <2>3. credited' \in done' \cup {0}
      BY <2>1 DEF AfcInv, Carried
    <2> QED
      BY <2>2, <2>3 DEF Carried, Refusal
  <1> QED
    BY <1>1, <1>2, <1>5, <1>6, <1>7

\* The answer to the packet of the call is of its kind.
LEMMA ActsFit ==
    ASSUME NEW a, Serves(a), op # "idle", Asks(First), First.num = packet_num, ~Refusal(a)
    PROVE  Fits(a)'
  <1> USE DEF Serves, client, file_io, Asks
  <1>1. /\ TypeOK /\ PacketOp' = PacketOp /\ PacketOp = First.op /\ path \in Paths /\ path' = path
        /\ packet_num' = packet_num /\ stream' = stream /\ files \in [Paths -> Files \cup {Absent}]
    BY DEF TypeOK, PacketOp
  <1>2. CASE ActsOpen(First, a)
    <2>1. First.path = path /\ a.kind = "open" /\ a.data = <<packet_num>>
          /\ [handle |-> packet_num, path |-> path, pos |-> 0] \in handles'
      BY <1>2 DEF ActsOpen
    <2>2. PacketOp = "open_w" => files'[path] = <<>> /\ files'[path] # Absent
      BY <1>1, <1>2, <2>1, AbsentIsNoFile DEF ActsOpen
    <2>3. PacketOp = "open_r" => files'[path] # Absent
      BY <1>1, <1>2, <2>1 DEF ActsOpen, Acts, Can
    <2> QED
      BY <1>1, <1>2, <2>1, <2>2, <2>3 DEF Fits, ActsOpen
  <1>3. CASE ActsRead(First, a)
    <2>1. More(Of(First)) => files[Of(First).path][Of(First).pos + 1] \in Chunks
      BY <1>1, <1>3, OfIs, NextChunk DEF ActsRead, Can
    <2>2. \A c \in Chunks : <<c>> \in Files
      BY DEF Files
    <2> QED
      BY <1>1, <1>3, <2>1, <2>2 DEF ActsRead, Fits
  <1>4. CASE ActsWrite(First, a) \/ ActsClose(First, a) \/ ActsSimply(First, a)
    BY <1>1, <1>4 DEF ActsWrite, ActsClose, ActsSimply, Fits, Simple
  <1> QED
    BY <1>2, <1>3, <1>4 DEF Acts

LEMMA ServesAsked ==
    ASSUME NEW a, Serves(a)
    PROVE  Asked' /\ Lockstep'
  <1> USE DEF Serves, client, file_io, past
  <1>1. /\ (Asking' <=> Asking) /\ (InStep' <=> InStep) /\ (Steady' <=> Steady)
        /\ Len(toHost) \in Nat /\ Len(toHost') = Len(toHost) + 2
        /\ packet_num' = packet_num /\ wait' = wait
    BY DEF Asking, InStep, Steady, Sends
  <1>2. \A i \in 1 .. Len(toDev') : toDev'[i].op = "write" => toDev'[i].chunk \in Chunks
    BY DEF AfcInv, Asked
  <1>3. ASSUME Asking
        PROVE  /\ \A i \in 1 .. Len(toDev') : toDev'[i].num = packet_num => Asks(toDev[i])'
               /\ \A i \in 1 .. Len(toHost') :
                     toHost'[i].answer.num = packet_num => Refusal(toHost[i].answer)' \/ Fits(toHost[i].answer)'
    <2>1. op # "idle"
      BY <1>3 DEF AfcInv, Waiting, Asking
    <2>2. First.num = packet_num => Asks(First)
      BY <1>3, FirstIs DEF AfcInv, Asked, First
    <2>3. First.num = packet_num => Refusal(a) \/ Fits(a)'
      BY <2>1, <2>2, ActsFit
    <2>4. ASSUME NEW i \in 1 .. Len(toHost'), toHost'[i].answer.num = packet_num
          PROVE  Refusal(toHost[i].answer)' \/ Fits(toHost[i].answer)'
      <3>1. i \notin 1 .. Len(toHost)
        BY <2>4, FirstIs DEF Sends
      <3>2. i = Len(toHost) + 1 \/ i = Len(toHost) + 2
        <4>1. Len(toHost) \in Nat /\ i \in 1 .. Len(toHost) + 2
          BY <1>1
        <4> QED
          BY <3>1, <4>1
      <3>3. toHost'[i].answer = a
        BY <3>2 DEF Sends
      <3> QED
        BY <2>3, <2>4, <3>3 DEF Refusal, Fits
    <2>5. ASSUME NEW i \in 1 .. Len(toDev'), toDev'[i].num = packet_num
          PROVE  Asks(toDev[i])'
      <3> DEFINE k == i + 1
      <3>1. k \in 1 .. Len(toDev) /\ toDev'[i] = toDev[k]
        OBVIOUS
      <3> HIDE DEF k
      <3>2. Asks(toDev[k])
        BY <1>3, <2>5, <3>1 DEF AfcInv, Asked
      <3> QED
        BY <3>1, <3>2 DEF Asks, PacketOp
    <2> QED
      BY <2>4, <2>5
  <1>4. Asked'
    BY <1>1, <1>2, <1>3 DEF Asked
  <1>5. Lockstep'
    <2> SUFFICES ASSUME InStep
                 PROVE  /\ aligned' /\ wait' # "send"
                        /\ wait' = "header" =>
                              /\ toDev' = <<>> /\ Len(toHost') = 2 /\ toHost'[1].part = "header"
                              /\ toHost'[1].answer.num = packet_num'
      BY <1>1 DEF Lockstep
    <2>1. aligned' /\ wait' # "send"
      BY <1>1 DEF AfcInv, Lockstep
    <2>2. wait = "header" => Len(toDev) = 1 /\ First.num = packet_num /\ toHost = <<>>
      BY DEF AfcInv, Lockstep, First
    <2>3. wait = "header" => toDev' = <<>> /\ Len(toHost) = 0
      BY <2>2, FirstIs
    <2> QED
      BY <1>1, <2>1, <2>2, <2>3 DEF Sends
  <1> QED
    BY <1>4, <1>5

\* In step, the packet that is served is the one of the call.
LEMMA InStepFirst ==
    ASSUME NEW a, Serves(a), InStep
    PROVE  /\ op \in {"pull", "push"} \cup Simple /\ Asking /\ wait = "header" /\ First.num = packet_num
           /\ First.op = PacketOp /\ First.path = path /\ First.handle = handle
           /\ toDev' = <<>> /\ toHost = <<>> /\ toHost' # <<>> /\ toHost'[1].answer = a
           /\ step \in {"open", "body", "close"} /\ path \in Paths /\ source \in Files /\ target \in Files
  <1> USE DEF Serves
  <1>1. wait = "header" /\ Asking /\ op # "idle"
    BY FirstIs DEF TypeOK, AfcInv, Lockstep, Waiting, Asking
  <1>2. First.num = packet_num /\ toHost = <<>>
    BY <1>1 DEF AfcInv, Lockstep, First
  <1>3. Asks(First)
    BY <1>1, <1>2, FirstIs DEF AfcInv, Asked, First
  <1>4. Len(toHost) = 0 /\ Len(toHost') = 2 /\ toHost'[1].answer = a
    BY <1>2 DEF Sends
  <1>5. toHost' # <<>>
    <2>1. toHost' \in Seq(Units) /\ (toHost' = <<>> => Len(toHost') = 0)
      BY EmptySeq DEF Sends
    <2> QED
      BY <1>4, <2>1
  <1> QED
    BY <1>1, <1>2, <1>3, <1>4, <1>5, FirstIs DEF Asks, TypeOK

LEMMA ServesOnlyOwn ==
    ASSUME NEW a, Serves(a)
    PROVE  OnlyOwn'
  <1> SUFFICES ASSUME ~spoilt, ~leaked
               PROVE  OnlyOwn'
    BY DEF Serves, past, OnlyOwn
  <1>1. /\ TypeOK /\ AfcInv /\ stream = "open" /\ InStep /\ toDev # <<>>
        /\ op' = op /\ step' = step /\ handle' = handle /\ packet_num' = packet_num /\ wait' = wait
        /\ \A h, g \in handles : h.handle = g.handle => h = g
    BY DEF Serves, InStep, client, file_io, AfcInv, Held
  <1>2. /\ op \in {"pull", "push"} \cup Simple /\ First.num = packet_num /\ First.op = PacketOp
        /\ First.handle = handle /\ toDev' = <<>> /\ toHost'[1].answer = a /\ Asking
        /\ step \in {"open", "body", "close"} /\ op # "idle"
    BY <1>1, InStepFirst DEF Simple
  <1>3. Served' /\ ~Served
    BY <1>1, <1>2 DEF Served, Asking
  <1>4. /\ \A h \in handles : op \in {"pull", "push"}
        /\ step = "open" => handles = {}
        /\ step # "open" => \A h \in handles : h.handle = handle
    BY <1>1, <1>2, <1>3 DEF AfcInv, OnlyOwn
  <1>5. \A h \in handles' : (\E g \in handles : g.handle = h.handle)
                            \/ (h.handle = packet_num /\ ~Refusal(a) /\ First.op \in {"open_r", "open_w"})
    BY <1>2, HandlesAfter DEF ActsOpen
  <1>6. First.op \in {"open_r", "open_w"} <=> op \in {"pull", "push"} /\ step = "open"
    BY <1>1, <1>2, PacketOps
  <1>7. CASE op \in {"pull", "push"} /\ step = "open"
    <2>1. \A h \in handles' : h.handle = packet_num' /\ Served' /\ ~Refusal(toHost'[1].answer)
      BY <1>1, <1>2, <1>3, <1>4, <1>5, <1>7
    <2> QED
      BY <1>1, <1>7, <2>1 DEF OnlyOwn, Refusal
  <1>8. CASE op \in {"pull", "push"} /\ step = "body"
    <2>1. \A h \in handles' : h.handle = handle'
      BY <1>1, <1>4, <1>5, <1>6, <1>8
    <2> QED
      BY <1>1, <1>8, <2>1 DEF OnlyOwn
  <1>9. CASE op \in {"pull", "push"} /\ step = "close"
    <2>1. First.op = "close"
      BY <1>1, <1>2, <1>9, PacketOps
    <2>2. \A h \in handles : h.handle = First.handle
      BY <1>2, <1>4, <1>9
    <2>3. CASE ~Can(First) /\ handles' = handles
      BY <2>1, <2>2, <2>3 DEF Can, OnlyOwn
    <2>4. CASE Can(First) /\ Acts(First, a)
      <3>1. handles' = handles \ {Of(First)}
        BY <2>1, <2>4 DEF Acts, ActsOpen, ActsRead, ActsWrite, ActsClose, ActsSimply, Simple
      <3>2. Of(First) \in handles /\ Of(First).handle = First.handle
        BY <1>1, <2>1, <2>4, OfIs DEF Can
      <3>3. handles' = {}
        BY <1>1, <2>2, <3>1, <3>2
      <3> QED
        BY <3>3 DEF OnlyOwn
    <2> QED
      BY <2>1, <2>3, <2>4 DEF Serves
  <1>10. CASE op \in Simple
    <2>1. handles = {} /\ op \notin {"pull", "push"}
      BY <1>4, <1>10 DEF Simple
    <2>2. handles' = {}
      BY <1>5, <1>6, <2>1
    <2> QED
      BY <2>2 DEF OnlyOwn
  <1> QED
    BY <1>2, <1>7, <1>8, <1>9, <1>10

LEMMA ServesPulling ==
    ASSUME NEW a, Serves(a)
    PROVE  Pulling'
  <1> SUFFICES ASSUME Steady', op' = "pull"
               PROVE  Pulling'
    BY DEF Pulling
  <1>1. /\ TypeOK /\ AfcInv /\ Steady /\ InStep /\ op = "pull" /\ step \in {"body", "close"}
        /\ UNCHANGED <<op, step, path, handle, source, target, cut>>
        /\ \A h, g \in handles : h.handle = g.handle => h = g
    BY DEF Serves, client, file_io, past, Steady, InStep, AfcInv, Held
  <1>2. /\ First.op = PacketOp /\ First.handle = handle /\ toHost = <<>> /\ toHost' # <<>>
        /\ toHost'[1].answer = a /\ source \in Files /\ target \in Files
    BY <1>1, InStepFirst
  <1>3. /\ source = files[path] /\ source # Absent
        /\ step = "close" /\ ~cut => target = source
        /\ step = "body" => Len(target) <= Len(source) /\ target = SubSeq(source, 1, Len(target))
        /\ step = "body" => \A h \in handles : h.handle = handle => h.path = path /\ h.pos = Len(target)
    BY <1>1, <1>2 DEF AfcInv, Pulling
  <1>4. (step = "body" => First.op = "read") /\ (step = "close" => First.op = "close")
    BY <1>1, <1>2, PacketOps DEF Simple
  <1>5. files' = files
    BY <1>1, <1>4 DEF Serves, Acts, ActsOpen, ActsRead, ActsWrite, ActsClose, ActsSimply, Simple
  <1>6. CASE step = "close"
    BY <1>1, <1>3, <1>5, <1>6 DEF Pulling
  <1>7. CASE step = "body"
    <2>1. /\ source' = files'[path'] /\ source' # Absent
          /\ Len(target') <= Len(source') /\ target' = SubSeq(source', 1, Len(target'))
      BY <1>1, <1>3, <1>5, <1>7
    <2>2. CASE Refusal(a) /\ handles' = handles
      <3>1. a.kind # "data"
        BY <2>2 DEF Refusal
      <3> QED
        BY <1>1, <1>2, <1>3, <1>7, <2>1, <2>2, <3>1 DEF Pulling, Refusal
    <2>3. CASE Can(First) /\ ActsRead(First, a)
      <3> DEFINE o == Of(First)
                 n == [Of(First) EXCEPT !.pos = @ + 1]
      <3>1. /\ o \in handles /\ o.handle = handle /\ o.path = path /\ o.pos = Len(target)
            /\ n.handle = handle /\ n.path = path /\ n.pos = Len(target) + 1
        <4>1. \E h \in handles : h.handle = First.handle
          BY <2>3 DEF Can, ActsRead
        <4>2. /\ o \in handles /\ o.handle = First.handle
              /\ n.handle = First.handle /\ n.path = o.path /\ n.pos = o.pos + 1
          BY <1>1, <4>1, OfIs
        <4> HIDE DEF o, n
        <4> QED
          BY <1>2, <1>3, <1>7, <4>2
      <3>2. Len(target) \in Nat /\ Len(source) \in Nat
        BY <1>2, ChunksOf
      <3>3. CASE /\ More(o) /\ handles' = (handles \ {o}) \cup {n}
                 /\ a.kind = "data" /\ a.data = <<files[o.path][o.pos + 1]>>
        <4> HIDE DEF o, n
        <4>1. Len(target) < Len(source) /\ a.data = <<source[Len(target) + 1]>>
          BY <1>3, <3>1, <3>3 DEF More
        <4>2. \A h \in handles' : h.handle = handle => h = n
          BY <1>1, <3>1, <3>3
        <4>3. \A h \in handles' : h.handle = handle' => h.path = path' /\ h.pos = Len(target') + 1
          BY <1>1, <3>1, <4>2
        <4> QED
          BY <1>1, <1>2, <1>7, <2>1, <3>3, <4>1, <4>3 DEF Pulling
      <3>4. CASE ~More(o) /\ handles' = handles /\ a.kind = "status"
        <4> HIDE DEF o, n
        <4>1. Len(target) = Len(source)
          BY <1>3, <1>7, <3>1, <3>2, <3>4 DEF More
        <4>2. target = source
          BY <1>2, <1>3, <1>7, <4>1, SubSeqFull DEF Files
        <4> QED
          BY <1>1, <1>2, <1>3, <1>7, <2>1, <3>4, <4>2 DEF Pulling
      <3> QED
        BY <2>3, <3>3, <3>4 DEF ActsRead
    <2>4. ~Refusal(a) => Can(First) /\ ActsRead(First, a)
      BY <1>4, <1>7 DEF Serves, Acts, ActsOpen, ActsWrite, ActsClose, ActsSimply, Simple
    <2>5. Refusal(a) => handles' = handles \/ (Can(First) /\ ActsRead(First, a))
      BY DEF Serves
    <2> QED
      BY <2>2, <2>3, <2>4, <2>5
  <1> QED
    BY <1>1, <1>6, <1>7

LEMMA ServesPushing ==
    ASSUME NEW a, Serves(a)
    PROVE  Pushing'
  <1> SUFFICES ASSUME Steady', op' = "push"
               PROVE  Pushing'
    BY DEF Pushing
  <1>1. /\ TypeOK /\ AfcInv /\ Steady /\ InStep /\ op = "push" /\ step \in {"body", "close"}
        /\ UNCHANGED <<op, step, path, handle, source, left, cut, wait>>
    BY DEF Serves, client, file_io, past, Steady, InStep
  <1>2. /\ First.op = PacketOp /\ First.handle = handle /\ toDev' = <<>> /\ wait = "header"
        /\ toHost'[1].answer = a /\ path \in Paths
    BY <1>1, InStepFirst
  <1>3. /\ files[path] # Absent /\ \A h \in handles : h.handle = handle => h.path = path
        /\ step = "close" /\ ~cut => files[path] = source
        /\ step = "body" => (files[path] \o <<First.chunk>>) \o left = source
    BY <1>1 DEF AfcInv, Pushing, Serves, First
  <1>4. (step = "body" => First.op = "write") /\ (step = "close" => First.op = "close")
    BY <1>1, <1>2, PacketOps DEF Simple
  <1>5. \A h \in handles' : h.handle = handle' => h.path = path'
    BY <1>1, <1>3, <1>4, HandlesAfter DEF ActsOpen
  <1>6. CASE files' = files /\ (step = "close" \/ Refusal(a))
    BY <1>1, <1>2, <1>3, <1>5, <1>6 DEF Pushing, Refusal
  <1>7. CASE step = "body" /\ Can(First) /\ ActsWrite(First, a)
    <2>1. Of(First).path = path
      BY <1>1, <1>2, <1>3, <1>7, OfIs DEF Can, ActsWrite
    <2>2. files[path] \in Files /\ First.chunk \in Chunks /\ files \in [Paths -> Files \cup {Absent}]
      BY <1>1, <1>2, <1>3, <1>7, FileIs, FirstIs DEF ActsWrite, TypeOK
    <2>3. files'[path] = files[path] \o <<First.chunk>> /\ files'[path] # Absent
      <3>1. files' = [files EXCEPT ![path] = IF @ = Absent THEN @ ELSE Append(@, First.chunk)]
        BY <1>7, <2>1 DEF ActsWrite
      <3>2. files'[path] = Append(files[path], First.chunk)
        BY <1>2, <1>3, <2>2, <3>1
      <3>3. Append(files[path], First.chunk) = files[path] \o <<First.chunk>> /\ files[path] \o <<First.chunk>> \in Files
        BY <2>2, ChunksOf
      <3> QED
        BY <3>2, <3>3, AbsentIsNoFile
    <2> QED
      BY <1>1, <1>2, <1>3, <1>5, <1>7, <2>3 DEF Pushing
  <1>8. \/ files' = files /\ (step = "close" \/ Refusal(a))
        \/ step = "body" /\ Can(First) /\ ActsWrite(First, a)
    BY <1>1, <1>4 DEF Serves, Acts, ActsOpen, ActsRead, ActsClose, ActsSimply, ActsWrite, Simple
  <1> QED
    BY <1>6, <1>7, <1>8

LEMMA DeviceServesKeeps ==
    ASSUME AfcAll, DeviceServes
    PROVE  AfcAll'
  <1>1. PICK a \in Answers : Serves(a)
    BY DeviceServesServes
  <1> QED
    BY <1>1, ServesNumbered, ServesAsked, ServesOnlyOwn, ServesPulling, ServesPushing DEF AfcAll, AfcInv

LEMMA AfcKeeps ==
    ASSUME AfcAll, [AppsNext]_allVars
    PROVE  AfcAll'
  BY AppsAfc, QuietKeeps, StartKeeps, CloseKeeps, CallingKeeps, DropKeeps, SendKeeps, SendFailsKeeps,
     PushEndsKeeps, ReadFailsKeeps, ReadHeaderKeeps, RefuseHeaderKeeps, ReadPayloadKeeps, DeviceServesKeeps
  DEF AfcAction, Client
-----------------------------------------------------------------------------
(* What a pull or a push reports.                                          *)

\* A pull or a push that returns no error was not cut short, and has come to its end.
LEMMA EndsAtClose ==
    ASSUME AfcAll, AfcAction \/ AfcQuiet, op \in {"pull", "push"}, op' = "idle", result' = "ok"
    PROVE  /\ Steady /\ step = "close" /\ UNCHANGED <<source, target, files, cut>>
  <1> USE DEF afcd
  <1>1. TypeOK /\ op # "idle" /\ op \notin Simple
    BY DEF AfcAll, Simple
  <1>2. ASSUME NEW b, Errs(b)
        PROVE  Steady /\ step = "close"
    BY <1>1, <1>2, ErrShape DEF Steady, TypeOK
  <1>3. CASE SendFails \/ ReadFails \/ RefuseHeader
    BY <1>2, <1>3 DEF SendFails, ReadFails, RefuseHeader, past
  <1>4. CASE Send \/ PushEnds \/ ReadHeader
    BY <1>1, <1>4 DEF Send, PushEnds, ReadHeader, GoesOn
  <1>5. CASE ReadPayload
    <2>1. files' = files /\ step \in {"open", "body", "close"}
      BY <1>1, <1>5 DEF ReadPayload, TypeOK
    <2> DEFINE a == Head(toHost).answer
    <2> HIDE DEF a
    <2>2. \/ Refused(a)
          \/ step = "open" /\ Opened(a)
          \/ step = "close" /\ Closed
          \/ step = "body" /\ (Pulled(a) \/ Pushed)
      BY <1>1, <1>5, <2>1 DEF ReadPayload, a
    <2>3. CASE Refused(a)
      BY <1>2, <2>1, <2>3 DEF Refused
    <2>4. CASE step = "close" /\ Closed
      BY <2>1, <2>4 DEF Closed, Return, Steady
    <2>5. CASE Opened(a) \/ Pulled(a) \/ Pushed
      BY <1>1, <2>5 DEF Opened, Pulled, Pushed, GoesOn, Return
    <2> QED
      BY <2>2, <2>3, <2>4, <2>5
  <1>6. CASE Start \/ DeviceServes \/ StreamDrops \/ AfcQuiet
    BY <1>1, <1>6 DEF Start, DeviceServes, StreamDrops, AfcQuiet, client
  <1>7. CASE Close
    BY <1>1, <1>7 DEF Close
  <1>8. CASE Calling
    BY <1>1, <1>8, CallingIsCalled DEF Called, PushFails
  <1> QED
    BY <1>3, <1>4, <1>5, <1>6, <1>7, <1>8 DEF AfcAction, Client

LEMMA TransferIsWhole ==
    ASSUME AfcAll, [AppsNext]_allVars, op' = "idle", result' = "ok", op # "idle", ~cut
    PROVE  /\ op = "pull" => target' = source'
           /\ op = "push" => files'[path] = source'
  <1> SUFFICES ASSUME op \in {"pull", "push"}
               PROVE  /\ op = "pull" => target' = source'
                      /\ op = "push" => files'[path] = source'
    OBVIOUS
  <1>1. Steady /\ step = "close" /\ UNCHANGED <<source, target, files, cut>>
    BY AppsAfc, EndsAtClose
  <1> QED
    BY <1>1 DEF AfcAll, AfcInv, Pulling, Pushing
-----------------------------------------------------------------------------
(* The connection to the RSD.                                              *)

RouteTypeOK ==
    /\ tunnel \in {"none", "header", "body", "up"} /\ rsd \in {"none", "setup", "answer", "up"}
    /\ setup \in Seq(Frames) /\ shaken \in BOOLEAN /\ noise \in 0 .. MaxNoise
    /\ replies \in Seq({"length", "parameters", "handshake"} \cup Noise)
    /\ advertised \subseteq Services /\ services \subseteq Services

RouteAll == RouteTypeOK /\ Route

RouteAction ==
    \/ OpenTunnel \/ ConnectRsd \/ (\E what \in Noise : DeviceSays(what))
    \/ HostConnects \/ DeviceConnects \/ RsdDown

LEMMA AppsRoute ==
    ASSUME [AppsNext]_allVars
    PROVE  RouteAction \/ UNCHANGED route
  <1>1. ASSUME NEW how, Over(how) PROVE UNCHANGED route
    BY <1>1 DEF Over
  <1>2. CASE UNCHANGED allVars
    BY <1>2 DEF allVars, rsdVars
  <1>3. CASE JobRuns
    <2>1. RunInstaller => UNCHANGED route
      BY <1>1 DEF RunInstaller, StartService, SendCommand, ReadStatus, rsdVars
    <2>2. ASSUME NEW v \in {"device", "rsd"}, Install(v)
          PROVE  UNCHANGED route
      BY <1>1, <2>1, <2>2 DEF Install, Begins, StartAfc, MakeStaging, PushPackage, Staged, rsdVars
    <2>3. ASSUME NEW v \in {"device", "rsd"}, Uninstall(v)
          PROVE  UNCHANGED route
      BY <2>1, <2>3 DEF Uninstall, Begins, rsdVars
    <2>4. ASSUME NEW v \in {"device", "rsd"}, HouseArrest(v)
          PROVE  UNCHANGED route
      BY <1>1, <2>4 DEF HouseArrest, Begins, StartService, SendCommand, Vended, rsdVars
    <2>5. ASSUME NEW v \in {"device", "rsd"}, NEW what \in {"launch", "kill", "running"}, Control(what, v)
          PROVE  UNCHANGED route
      BY <1>1, <2>5 DEF Control, Begins, StartService, SendCommand, ReadReply, rsdVars
    <2>6. CASE ConnectService \/ CheckIn \/ NotAdvertised \/ Denied
      BY <1>1, <2>6 DEF ConnectService, Connects, CheckIn, SendCheckin, ReadCheckin, NotAdvertised, Denied
    <2>7. CASE HouseArrestClose
      BY <1>1, <2>7 DEF HouseArrestClose
    <2> QED
      BY <1>3, <2>2, <2>3, <2>4, <2>5, <2>6, <2>7
      DEF JobRuns, InstallOverMux, InstallOverRsd, UninstallOverMux, UninstallOverRsd,
          HouseArrestOverMux, HouseArrestOverRsd, LaunchOverMux, LaunchOverRsd, CloseOverMux,
          CloseOverRsd, IsRunningOverMux, IsRunningOverRsd
  <1>4. CASE HouseArrestFiles \/ NoService \/ GivesUp \/ AfcRuns
    BY <1>1, <1>4 DEF HouseArrestFiles, NoService, GivesUp, AfcRuns, rsdVars
  <1>5. CASE RsdConnects \/ RsdRuns \/ RsdEnds
    BY <1>5 DEF RsdConnects, RsdRuns, RsdEnds, RouteAction
  <1>6. CASE DeviceActs \/ DeviceReports \/ ServiceDrops
    BY <1>6 DEF DeviceActs, DeviceReports, ServiceDrops
  <1>7. CASE DeviceChecks
    BY <1>7 DEF DeviceChecks, DeviceChecksIn
  <1> QED
    BY <1>2, <1>3, <1>4, <1>5, <1>6, <1>7 DEF AppsNext

LEMMA SetupIs ==
    /\ Setup \in Seq(Frames) /\ Len(Setup) = 6 /\ SubSeq(Setup, 1, 6) = Setup
    /\ \A n \in 0 .. 5 : /\ Setup[n + 1] \in Frames /\ Len(SubSeq(Setup, 1, n + 1)) = n + 1
                         /\ Append(SubSeq(Setup, 1, n), Setup[n + 1]) = SubSeq(Setup, 1, n + 1)
  <1>1. Setup \in Seq(Frames) /\ Len(Setup) = 6
    BY DEF Setup, Frames
  <1>2. SubSeq(Setup, 1, 6) = Setup
    BY <1>1, SubSeqFull
  <1>3. ASSUME NEW n \in 0 .. 5
        PROVE  /\ Setup[n + 1] \in Frames /\ Len(SubSeq(Setup, 1, n + 1)) = n + 1
               /\ Append(SubSeq(Setup, 1, n), Setup[n + 1]) = SubSeq(Setup, 1, n + 1)
    <2>1. n + 1 \in 1 .. Len(Setup) /\ n \in Int /\ n + 1 \in Int /\ 1 \in 1 .. Len(Setup) /\ (n + 1) - 1 = n
      BY <1>1
    <2>2. ASSUME NEW i \in 1 .. n + 1 PROVE Setup[i] \in Frames
      <3>1. i \in 1 .. Len(Setup)
        BY <1>1
      <3> QED
        BY <1>1, <3>1, ElementOfSeq
    <2>3. SubSeq(Setup, 1, n) \in Seq(Frames) /\ Len(SubSeq(Setup, 1, n + 1)) = n + 1 /\ Setup[n + 1] \in Frames
      BY <2>1, <2>2, SubSeqProperties
    <2>4. SubSeq(Setup, 1, n + 1) = SubSeq(Setup, 1, (n + 1) - 1) \o <<Setup[n + 1]>>
      BY <1>1, <2>1, SubSeqRecursiveSecond
    <2> QED
      BY <2>1, <2>3, <2>4, AppendIsConcat
  <1> QED
    BY <1>1, <1>2, <1>3

LEMMA RouteInit == RsdInit => RouteAll
  <1> SUFFICES ASSUME RsdInit PROVE RouteAll
    OBVIOUS
  <1>1. <<>> \in Seq(Frames) /\ <<>> \in Seq({"length", "parameters", "handshake"} \cup Noise)
    BY EmptySeq
  <1>4. 0 \in 0 .. MaxNoise /\ {} \subseteq Services
    BY RsdAssumption
  <1>2. RouteTypeOK
    BY <1>1, <1>4 DEF RsdInit, RouteTypeOK
  <1>3. Route
    BY DEF RsdInit, Route, ServicesAreAdvertised
  <1> QED
    BY <1>2, <1>3 DEF RouteAll

LEMMA RouteKeeps ==
    ASSUME RouteAll, RouteAction \/ UNCHANGED route
    PROVE  RouteAll'
  <1> DEFINE Replies == {"length", "parameters", "handshake"} \cup Noise
  <1>1. RouteTypeOK /\ Route /\ replies \in Seq(Replies) /\ Len(replies) \in Nat
    BY LenProperties DEF RouteAll, RouteTypeOK
  <1>2. CASE UNCHANGED route
    BY <1>1, <1>2 DEF route, RouteAll, RouteTypeOK, Route, ServicesAreAdvertised
  <1>3. CASE OpenTunnel \/ ConnectRsd
    BY <1>1, <1>3 DEF OpenTunnel, ConnectRsd, RouteAll, RouteTypeOK, Route, ServicesAreAdvertised
  <1>4. ASSUME replies # <<>>
        PROVE  /\ Head(replies) = replies[1] /\ Tail(replies) \in Seq(Replies)
               /\ tunnel = "up" => Head(replies) \in Noise \cup {"handshake"}
               /\ tunnel = "up" => \A i \in 1 .. Len(Tail(replies)) : Tail(replies)[i] \in Noise \cup {"handshake"}
    <2>1. /\ Head(replies) = replies[1] /\ Tail(replies) \in Seq(Replies) /\ Len(replies) > 0
          /\ \A i \in 1 .. Len(Tail(replies)) : i + 1 \in 1 .. Len(replies) /\ Tail(replies)[i] = replies[i + 1]
      BY <1>1, <1>4, FirstOf
    <2>2. 1 \in 1 .. Len(replies)
      BY <1>1, <2>1
    <2> QED
      BY <1>1, <2>1, <2>2 DEF Route
  <1>5. CASE \E what \in Noise : DeviceSays(what)
    <2> PICK what \in Noise : DeviceSays(what)
      BY <1>5
    <2>1. /\ replies' \in Seq(Replies) /\ Len(replies') = Len(replies) + 1
          /\ \A i \in 1 .. Len(replies) : replies'[i] = replies[i]
          /\ replies'[Len(replies) + 1] = what
      BY <1>1, AppendProperties DEF DeviceSays
    <2>2. tunnel = "up" => \A i \in 1 .. Len(replies') : replies'[i] \in Noise \cup {"handshake"}
      BY <1>1, <2>1 DEF Route
    <2>3. noise' \in 0 .. MaxNoise
      BY <1>1, RsdAssumption DEF RouteTypeOK, DeviceSays
    <2> QED
      BY <1>1, <2>1, <2>2, <2>3 DEF DeviceSays, RouteAll, RouteTypeOK, Route, ServicesAreAdvertised
  <1>6. CASE ReadTunnel
    <2>1. Tail(<<"length", "parameters">>) = <<"parameters">> /\ Tail(<<"parameters">>) = <<>>
      OBVIOUS
    <2>2. replies' \in Seq(Replies) /\ replies # <<>>
      BY <1>4, <1>6 DEF ReadTunnel
    <2>3. CASE tunnel = "header"
      <3>1. replies = <<"length", "parameters">> /\ tunnel' = "body" /\ rsd = "none"
        BY <1>1, <1>6, <2>2, <2>3 DEF ReadTunnel, Route, RouteTypeOK
      <3> QED
        BY <1>1, <1>6, <2>1, <2>2, <2>3, <3>1 DEF ReadTunnel, RouteAll, RouteTypeOK, Route, ServicesAreAdvertised
    <2>4. CASE tunnel = "body"
      <3>1. replies = <<"parameters">> /\ tunnel' = "up" /\ rsd = "none" /\ replies' = <<>>
        BY <1>1, <1>6, <2>1, <2>2, <2>4 DEF ReadTunnel, Route, RouteTypeOK
      <3>2. Len(replies') = 0
        BY <3>1
      <3>3. RouteTypeOK'
        BY <1>1, <1>6, <2>2, <3>1 DEF ReadTunnel, RouteTypeOK
      <3>4. Route'
        BY <1>1, <1>6, <2>4, <3>1, <3>2 DEF ReadTunnel, Route, ServicesAreAdvertised
      <3> QED
        BY <3>3, <3>4 DEF RouteAll
    <2> QED
      BY <1>6, <2>3, <2>4 DEF ReadTunnel
  <1>7. CASE SendSetup
    <2> DEFINE n == Len(setup)
    <2>1. n \in 0 .. 5 /\ setup = SubSeq(Setup, 1, n) /\ setup \in Seq(Frames)
      <3>1. setup \in Seq(Frames) /\ n < 6 /\ setup = SubSeq(Setup, 1, n)
        BY <1>1, <1>7 DEF SendSetup, Route, RouteTypeOK
      <3>2. n \in Nat
        BY <3>1, LenProperties
      <3> QED
        BY <3>1, <3>2
    <2>2. setup' = Append(setup, Setup[n + 1])
      BY <1>7 DEF SendSetup
    <2> HIDE DEF n
    <2>3. setup' = SubSeq(Setup, 1, n + 1) /\ Len(setup') = n + 1 /\ Setup[n + 1] \in Frames
      BY <2>1, <2>2, SetupIs
    <2>4. setup' \in Seq(Frames)
      BY <2>1, <2>2, <2>3, AppendProperties
    <2>5. setup' # Setup => Len(setup') < 6
      BY <2>1, <2>3, SetupIs
    <2>6. setup' = SubSeq(Setup, 1, Len(setup'))
      BY <2>3
    <2> QED
      BY <1>1, <1>7, <2>4, <2>5, <2>6 DEF SendSetup, RouteAll, RouteTypeOK, Route, ServicesAreAdvertised
  <1>8. CASE ReadHandshake
    BY <1>1, <1>4, <1>8 DEF ReadHandshake, Skipped, RouteAll, RouteTypeOK, Route, ServicesAreAdvertised
  <1>9. CASE DeviceTunnels
    <2>1. replies' \in Seq(Replies)
      BY <1>9 DEF DeviceTunnels
    <2> QED
      BY <1>1, <1>9, <2>1 DEF DeviceTunnels, RouteAll, RouteTypeOK, Route, ServicesAreAdvertised
  <1>10. CASE DeviceShakes
    <2>1. /\ replies' \in Seq(Replies) /\ Len(replies') = Len(replies) + 1
          /\ \A i \in 1 .. Len(replies) : replies'[i] = replies[i]
          /\ replies'[Len(replies) + 1] = "handshake"
      BY <1>1, <1>10, AppendProperties DEF DeviceShakes
    <2>2. tunnel = "up" => \A i \in 1 .. Len(replies') : replies'[i] \in Noise \cup {"handshake"}
      BY <1>1, <2>1 DEF Route
    <2> QED
      BY <1>1, <1>10, <2>1, <2>2, RsdAssumption
      DEF DeviceShakes, RouteAll, RouteTypeOK, Route, ServicesAreAdvertised
  <1>11. CASE RsdDown
    <2>1. <<>> \in Seq(Frames) /\ <<>> \in Seq(Replies)
      BY EmptySeq
    <2>4. 0 \in 0 .. MaxNoise /\ {} \subseteq Services
      BY RsdAssumption
    <2>2. RouteTypeOK'
      BY <1>11, <2>1, <2>4 DEF RsdDown, RouteTypeOK
    <2>3. Route'
      BY <1>11 DEF RsdDown, Route, ServicesAreAdvertised
    <2> QED
      BY <2>2, <2>3 DEF RouteAll
  <1> QED
    BY <1>2, <1>3, <1>5, <1>6, <1>7, <1>8, <1>9, <1>10, <1>11 DEF RouteAction, HostConnects, DeviceConnects
-----------------------------------------------------------------------------
(* The jobs.                                                               *)

Jobs == {"none", "install", "uninstall", "house", "launch", "kill", "running"}
Replies == {"checkin", "started", "denied", "progress", "error", "complete", "pid", "zero"}

JobTypeOK ==
    /\ service \in {"none", "open", "down"} /\ checked \in BOOLEAN
    /\ checkin \in {"none", "send", "answer", "start", "done"}
    /\ job \in Jobs /\ via \in {"device", "rsd"}
    /\ stage \in {"afc", "mkdir", "push", "pushing", "start", "send", "read", "files"}
    /\ command \in Jobs /\ answers \in Seq(Replies)
    /\ app \in Files /\ running \in BOOLEAN
    /\ outcome \in {"none", "error", "refused", "no", "success"}
    /\ jobs \in 0 .. MaxJobs

JobAll == JobTypeOK /\ JobInv

AppsInv == AfcAll /\ RouteAll /\ JobAll /\ Dangling

\* What is said of a job, of what the host dropped apart.
jobVars == <<job, via, stage, command, app, running, outcome, jobs>>

LEMMA JobsInit == AppsInit => JobAll
  <1> SUFFICES ASSUME AppsInit PROVE JobAll
    OBVIOUS
  <1>1. Remote \in Files /\ None \in Files /\ <<>> \in Seq(Replies) /\ 0 \in 0 .. MaxJobs
    BY LocalsAreFiles, AbsentIsNoFile, EmptySeq, AppsAssumption DEF None
  <1>2. JobTypeOK
    BY <1>1 DEF AppsInit, RsdInit, JobTypeOK, Jobs
  <1>3. Stages /\ Checkin
    BY DEF AppsInit, AfcInit, RsdInit, Stages, FileStages, Checkin, Starting, ServiceIsClean
  <1>4. Replied /\ Staging
    BY DEF AppsInit, AfcInit, Replied, Staging
  <1> QED
    BY <1>2, <1>3, <1>4 DEF JobAll, JobInv

\* Once a job is over there is nothing of it, as long as its stream is closed.
LEMMA OverKeeps ==
    ASSUME AppsInv, NEW how \in {"error", "refused", "no", "success"}, Over(how),
           stream' = "closed", command' \in {command, "none"}
    PROVE  JobAll'
  <1> USE DEF Over
  <1>1. JobTypeOK /\ <<>> \in Seq(Replies)
    BY EmptySeq DEF AppsInv, JobAll
  <1>2. JobTypeOK'
    BY <1>1 DEF JobTypeOK, Jobs, route
  <1>3. Stages' /\ Checkin' /\ Replied' /\ Staging'
    BY DEF Stages, FileStages, Checkin, Starting, ServiceIsClean, Replied, Staging
  <1> QED
    BY <1>2, <1>3 DEF JobAll, JobInv

\* A step that leaves the job and its service alone.
LEMMA SameKeeps ==
    ASSUME AppsInv, UNCHANGED <<plists, jobVars>>, stream' = "closed" <=> stream = "closed", Staging',
           cut' = cut \/ stage # "read"
    PROVE  JobAll'
  <1> USE DEF plists, jobVars
  <1>1. JobTypeOK /\ JobInv
    BY DEF AppsInv, JobAll
  <1>2. JobTypeOK'
    BY <1>1 DEF JobTypeOK
  <1>3. Stages'
    BY <1>1 DEF JobInv, Stages, Starting
  <1>4. Checkin'
    BY <1>1 DEF JobInv, Checkin, Starting, ServiceIsClean, ServiceName
  <1>5. Replied'
    BY <1>1 DEF JobInv, Replied, IsTrue
  <1> QED
    BY <1>2, <1>3, <1>4, <1>5 DEF JobAll, JobInv

\* Where the AFC stream is, by the stage of the job.
LEMMA StreamIs ==
    ASSUME AppsInv
    PROVE  /\ stage \notin FileStages => stream = "closed" /\ op = "idle"
           /\ stage \in FileStages => stream # "closed" /\ service = "none"
           /\ stream = "closed" => op = "idle" /\ wait = "send"
           /\ op = "idle" => wait = "send"
  BY DEF AppsInv, AfcAll, AfcInv, Clean, Waiting, JobAll, JobInv, Stages

\* An install keeps what is staged as long as the client and its device leave it alone.
LEMMA StagingKeeps ==
    ASSUME AppsInv, AfcQuiet, UNCHANGED <<stage, job>>
    PROVE  Staging'
  <1> USE DEF AfcQuiet, client, file_io, wires, afcd, past
  <1>1. Staging
    BY DEF AppsInv, JobAll, JobInv
  <1> QED
    BY <1>1 DEF Staging

LEMMA QuietJob ==
    ASSUME AppsInv, AfcQuiet, UNCHANGED <<plists, jobVars>>
    PROVE  JobAll'
  <1>1. Staging'
    BY StagingKeeps DEF jobVars
  <1>2. stream' = stream /\ cut' = cut
    BY DEF AfcQuiet, past
  <1> QED
    BY <1>1, <1>2, SameKeeps

\* A job that begins, on services that are as they were before the first.
LEMMA BeginsKeeps ==
    ASSUME AppsInv, NEW what \in Jobs \ {"none"}, NEW v \in {"device", "rsd"}, NEW first \in {"start", "afc"},
           first = "afc" <=> what = "install", Begins(what, v, first)
    PROVE  JobAll'
  <1> USE DEF Begins, afcVars, rsdVars, plists
  <1>1. JobTypeOK /\ Stages /\ Checkin /\ job = "none"
    BY DEF AppsInv, JobAll, JobInv
  <1>2. service = "none" /\ checkin = "none" /\ answers = <<>> /\ ~checked /\ stream = "closed"
    BY <1>1 DEF Stages, FileStages, Checkin
  <1>3. JobTypeOK'
    BY <1>1, AppsAssumption DEF JobTypeOK, Jobs
  <1>4. Stages' /\ Checkin'
    BY <1>2 DEF Stages, FileStages, Checkin, ServiceIsClean
  <1>5. Replied' /\ Staging'
    BY DEF Replied, Staging
  <1> QED
    BY <1>3, <1>4, <1>5 DEF JobAll, JobInv
-----------------------------------------------------------------------------
(* The services of a job.                                                  *)

LEMMA ConnectKeeps ==
    ASSUME AppsInv, ConnectService
    PROVE  JobAll'
  <1> USE DEF ConnectService, Connects, AfcIdle, appVars, afcVars, past
  <1>1. JobTypeOK /\ JobInv
    BY DEF AppsInv, JobAll
  <1>2. JobTypeOK' /\ ServiceName' = ServiceName /\ (Starting' <=> Starting)
    BY <1>1 DEF JobTypeOK, ServiceName, Starting
  <1>3. Stages'
    BY <1>1, <1>2 DEF JobInv, Stages, FileStages, Starting
  <1>4. answers = <<>> /\ stage # "send"
    BY <1>1 DEF JobInv, Checkin, Starting
  <1>5. Checkin'
    BY <1>1, <1>2, <1>4 DEF JobInv, Checkin, ServiceIsClean
  <1>6. Replied' /\ Staging'
    BY <1>1 DEF JobInv, Replied, Starting, Staging, client, wires, afcd
  <1> QED
    BY <1>2, <1>3, <1>5, <1>6 DEF JobAll, JobInv

LEMMA CheckInKeeps ==
    ASSUME AppsInv, CheckIn
    PROVE  JobAll'
  <1> USE DEF CheckIn, SendCheckin, ReadCheckin, AfcIdle, appVars, afcVars, past
  <1>2. ServiceName' = ServiceName /\ (Starting' <=> Starting) /\ JobTypeOK /\ JobInv /\ checkin # "none" /\ checkin' # "none"
    BY DEF AppsInv, JobAll, ServiceName, Starting
  <1>3. answers' \in Seq(Replies)
    <2>1. answers # <<>> => Tail(answers) \in Seq(Replies)
      BY <1>2, FirstOf DEF JobTypeOK
    <2> QED
      BY <1>2, <2>1 DEF JobTypeOK
  <1>4. JobTypeOK'
    BY <1>2, <1>3 DEF JobTypeOK
  <1>5. Starting /\ stage # "send" /\ stage # "read" /\ stage # "pushing" /\ service # "none"
    BY <1>2 DEF JobInv, Checkin, Starting
  <1>6. Stages'
    BY <1>2, <1>5 DEF JobInv, Stages, Starting
  <1>7. /\ Tail(<<"checkin", "started">>) = <<"started">> /\ Tail(<<"checkin", "denied">>) = <<"denied">>
        /\ Tail(<<"started">>) = <<>>
        /\ Head(<<"started">>) = "started" /\ Head(<<"denied">>) = "denied"
    OBVIOUS
  <1>8. Checkin'
    <2>1. CASE SendCheckin
      BY <1>2, <1>5, <2>1 DEF JobInv, Checkin, ServiceIsClean
    <2>2. CASE ReadCheckin /\ checkin = "answer"
      BY <1>2, <1>5, <1>7, <2>2 DEF JobInv, Checkin, ServiceIsClean
    <2>3. CASE ReadCheckin /\ checkin = "start"
      BY <1>2, <1>5, <1>7, <2>3 DEF JobInv, Checkin, ServiceIsClean
    <2> QED
      BY <2>1, <2>2, <2>3
  <1>9. Replied' /\ Staging'
    BY <1>2, <1>5 DEF JobInv, Replied, Staging, client, wires, afcd
  <1> QED
    BY <1>4, <1>6, <1>8, <1>9 DEF JobAll, JobInv

\* A service that was started has nothing on its stream.
LEMMA StartedIs ==
    ASSUME AppsInv, Started, stage \in {"start", "afc"}, job # "none"
    PROVE  answers = <<>> /\ (checked <=> via = "rsd" /\ ServiceName \in Shims)
  BY DEF AppsInv, JobAll, JobInv, JobTypeOK, Checkin, Started

LEMMA StartServiceKeeps ==
    ASSUME AppsInv, StartService, job # "none", job' = job, via' = via
    PROVE  JobAll'
  <1> USE DEF StartService, AfcIdle, afcVars, route
  <1>1. JobTypeOK /\ JobInv
    BY DEF AppsInv, JobAll
  <1>2. answers = <<>> /\ (checked <=> via = "rsd" /\ ServiceName \in Shims) /\ ServiceName' = ServiceName
    BY StartedIs DEF ServiceName
  <1>3. stream = "closed" /\ checkin' = "none"
    BY StreamIs DEF FileStages, Started
  <1>4. JobTypeOK'
    BY <1>1, <1>3 DEF JobTypeOK, Jobs
  <1>5. Stages'
    BY <1>1, <1>3 DEF JobInv, Stages, FileStages, Starting
  <1>6. Checkin'
    BY <1>1, <1>2, <1>3 DEF JobInv, Checkin, ServiceIsClean, Starting
  <1>7. Replied' /\ Staging'
    BY <1>1 DEF JobInv, Replied, Staging, past, afcd
  <1> QED
    BY <1>4, <1>5, <1>6, <1>7 DEF JobAll, JobInv

LEMMA SendCommandKeeps ==
    ASSUME AppsInv, SendCommand
    PROVE  JobAll'
  <1> USE DEF SendCommand, AfcIdle, afcVars, rsdVars, plists
  <1>1. JobTypeOK /\ JobInv
    BY DEF AppsInv, JobAll
  <1>2. answers = <<>> /\ stream = "closed" /\ Len(answers) = 0
    BY <1>1, StreamIs DEF JobInv, Checkin, ServiceIsClean, FileStages
  <1>3. JobTypeOK'
    BY <1>1 DEF JobTypeOK
  <1>4. Stages'
    BY <1>1, <1>2 DEF JobInv, Stages, FileStages, Starting
  <1>5. Checkin'
    BY <1>1, <1>2 DEF JobInv, Checkin, ServiceIsClean, Starting
  <1>6. Replied'
    BY <1>1, <1>2 DEF JobInv, Replied
  <1>7. Staging'
    BY <1>1 DEF JobInv, Staging, past, afcd
  <1> QED
    BY <1>3, <1>4, <1>5, <1>6, <1>7 DEF JobAll, JobInv

LEMMA StartAfcKeeps ==
    ASSUME AppsInv, StartAfc, job = "install", job' = job, via' = via
    PROVE  JobAll'
  <1> USE DEF StartAfc, Start, route
  <1>1. JobTypeOK /\ JobInv
    BY DEF AppsInv, JobAll
  <1>2. answers = <<>> /\ checkin' = "none"
    BY StartedIs DEF Started
  <1>3. JobTypeOK'
    BY <1>1, <1>2 DEF JobTypeOK
  <1>4. Stages'
    BY <1>1 DEF JobInv, Stages, FileStages, Starting
  <1>5. Checkin'
    BY <1>1, <1>2 DEF JobInv, Checkin, ServiceIsClean
  <1>6. Replied' /\ Staging'
    BY DEF Replied, Staging
  <1> QED
    BY <1>3, <1>4, <1>5, <1>6 DEF JobAll, JobInv

\* A step that reads an answer of a plist service, or carries out a command.
LEMMA ReadsProgressKeeps ==
    ASSUME AppsInv, Reads("progress"), answers' = Tail(answers),
           UNCHANGED <<route, service, checkin, checked, job, via, stage, app, running, dangling, outcome, jobs>>
    PROVE  JobAll'
  <1> USE DEF Reads, AfcIdle, afcVars, past
  <1>1. JobTypeOK /\ JobInv /\ answers \in Seq(Replies)
    BY DEF AppsInv, JobAll, JobTypeOK
  <1>2. /\ answers' \in Seq(Replies) /\ Len(answers) \in Nat /\ Len(answers') = Len(answers) - 1
        /\ \A i \in 1 .. Len(answers') : i + 1 \in 1 .. Len(answers) /\ answers'[i] = answers[i + 1]
    BY <1>1, FirstOf
  <1>3. JobTypeOK'
    BY <1>1, <1>2 DEF JobTypeOK
  <1>4. Stages'
    BY <1>1 DEF JobInv, Stages, Starting
  <1>5. Checkin' /\ stage = "read"
    BY <1>1 DEF JobInv, Checkin, ServiceIsClean, Stages, Starting
  <1>6. Replied'
    <2>1. ASSUME NEW i \in 1 .. Len(answers'), answers'[i] # "progress"
          PROVE  command # job /\ i = Len(answers') /\ IsTrue(answers'[i])
      <3> DEFINE k == i + 1
      <3>1. k \in 1 .. Len(answers) /\ answers'[i] = answers[k]
        BY <1>2
      <3> DEFINE n == Len(answers)
                 m == Len(answers')
      <3>2. k = i + 1 /\ m = n - 1 /\ i \in Int /\ n \in Int
        BY <1>2
      <3> HIDE DEF k, n, m
      <3>3. command # job /\ k = Len(answers) /\ IsTrue(answers[k])
        BY <1>1, <1>5, <2>1, <3>1 DEF JobInv, Replied
      <3>4. i = Len(answers')
        <4>1. k = n
          BY <3>3 DEF n
        <4>2. i = m
          BY <3>2, <4>1
        <4> QED
          BY <4>2 DEF m
      <3> QED
        BY <3>1, <3>3, <3>4
    <2>2. \A what : IsTrue(what)' <=> IsTrue(what)
      BY DEF IsTrue
    <2>3. command' \in {job', "none"} /\ command' = command /\ job' = job
      BY <1>1, <1>5 DEF JobInv, Replied
    <2>4. \A i \in 1 .. Len(answers') : answers'[i] # "progress" => i = Len(answers') /\ IsTrue(answers[i])'
      BY <2>1 DEF IsTrue
    <2> QED
      BY <2>1, <2>3, <2>4 DEF Replied
  <1>7. Staging'
    BY <1>1 DEF JobInv, Staging, client, wires, afcd
  <1> QED
    BY <1>3, <1>4, <1>5, <1>6, <1>7 DEF JobAll, JobInv

\* A read of a plist answer is of the job's own, on a closed AFC stream.
LEMMA ReadsIs ==
    ASSUME AppsInv, NEW what, Reads(what), what # "progress"
    PROVE  /\ stream = "closed" /\ stream' = stream /\ command' = command
           /\ IsTrue(what) /\ job # "none" /\ outcome = "none"
           /\ cut' = cut /\ UNCHANGED files
  <1> USE DEF Reads
  <1>1. JobTypeOK /\ JobInv /\ stage = "read" /\ answers # <<>> /\ Head(answers) = what /\ answers \in Seq(Replies)
    BY DEF AppsInv, JobAll, JobTypeOK
  <1>2. answers[1] = what /\ 1 \in 1 .. Len(answers)
    BY <1>1, FirstOf
  <1>3. IsTrue(what) /\ job # "none" /\ outcome = "none"
    BY <1>1, <1>2 DEF JobInv, Replied, Stages
  <1> QED
    BY <1>1, <1>3, StreamIs DEF FileStages, AfcIdle, afcVars, afcd, past

LEMMA VendedKeeps ==
    ASSUME AppsInv, Vended, job = "house", job' = job \/ job' = "none"
    PROVE  JobAll'
  <1>1. CASE Reads("error") /\ Over("refused")
    BY <1>1, ReadsIs, OverKeeps
  <1>2. CASE ~(Reads("error") /\ Over("refused"))
    <2> USE DEF Vended, Start, route
    <2>1. /\ stage = "read" /\ stage' = "files" /\ service' = "none" /\ answers' = <<>> /\ stream' = "open"
          /\ UNCHANGED <<checkin, checked, job, via, command, app, running, dangling, outcome, jobs>>
      BY <1>2
    <2>2. JobTypeOK /\ JobInv /\ <<>> \in Seq(Replies)
      BY EmptySeq DEF AppsInv, JobAll
    <2>3. JobTypeOK'
      BY <2>1, <2>2 DEF JobTypeOK
    <2>4. checkin = "none"
      BY <2>1, <2>2 DEF JobInv, Checkin, Starting
    <2>5. Stages' /\ Checkin'
      BY <2>1, <2>2, <2>4 DEF JobInv, Stages, FileStages, Starting, Checkin, ServiceIsClean
    <2>6. Replied' /\ Staging'
      BY <2>1 DEF Replied, Staging
    <2> QED
      BY <2>3, <2>5, <2>6 DEF JobAll, JobInv
  <1> QED
    BY <1>1, <1>2

LEMMA DeviceChecksKeeps ==
    ASSUME AppsInv, DeviceChecks
    PROVE  JobAll'
  <1> USE DEF DeviceChecks, DeviceChecksIn, appVars
  <1>1. JobTypeOK /\ JobInv /\ AfcQuiet
    BY DEF AppsInv, JobAll, AfcIdle, Faulty, AfcQuiet, afcVars
  <1>2. answers' \in {<<"checkin", "started">>, <<"checkin", "denied">>}
    OBVIOUS
  <1>3. answers' \in Seq(Replies)
    <2>1. <<"checkin", "started">> \in Seq(Replies) /\ <<"checkin", "denied">> \in Seq(Replies)
      BY DEF Replies
    <2> QED
      BY <1>2, <2>1
  <1>4. JobTypeOK' /\ ServiceName' = ServiceName /\ (Starting' <=> Starting)
    BY <1>1, <1>3 DEF JobTypeOK, ServiceName, Starting
  <1>5. Starting /\ stage # "read" /\ stage # "send" /\ job # "none" /\ via = "rsd"
    BY <1>1 DEF JobInv, Checkin, Starting
  <1>6. Stages'
    BY <1>1, <1>4, <1>5 DEF JobInv, Stages, AfcQuiet
  <1>7. Checkin'
    BY <1>1, <1>2, <1>4, <1>5 DEF JobInv, Checkin, ServiceIsClean
  <1>8. Replied' /\ Staging'
    BY <1>1, <1>5, StagingKeeps DEF Replied
  <1> QED
    BY <1>4, <1>6, <1>7, <1>8 DEF JobAll, JobInv

LEMMA ServiceDropsKeeps ==
    ASSUME AppsInv, ServiceDrops
    PROVE  JobAll'
  <1> USE DEF ServiceDrops, appVars
  <1>1. JobTypeOK /\ JobInv /\ AfcQuiet
    BY DEF AppsInv, JobAll, Faulty, AfcQuiet
  <1>2. JobTypeOK' /\ ServiceName' = ServiceName /\ (Starting' <=> Starting)
    BY <1>1 DEF JobTypeOK, ServiceName, Starting
  <1>3. Stages'
    BY <1>1, <1>2 DEF JobInv, Stages, AfcQuiet
  <1>4. Checkin'
    BY <1>1, <1>2 DEF JobInv, Checkin, ServiceIsClean
  <1>5. Replied'
    BY <1>1 DEF JobInv, Replied, IsTrue, AfcQuiet, past
  <1>6. Staging'
    BY <1>1, StagingKeeps
  <1> QED
    BY <1>2, <1>3, <1>4, <1>5, <1>6 DEF JobAll, JobInv

LEMMA IsTrueKeeps ==
    ASSUME NEW what, IsTrue(what), UNCHANGED <<job, cut, app, running>>
    PROVE  IsTrue(what)'
  BY DEF IsTrue

\* Behind reports of progress there is room for one answer more.
LEMMA PostsKeeps ==
    ASSUME AppsInv, command # "none", NEW what \in Replies, Posts(what), stage' = stage, job' = job,
           command' \in {command, "none"}, what = "progress" \/ command' = "none",
           stage = "read" /\ what # "progress" => IsTrue(what)'
    PROVE  answers' \in Seq(Replies) /\ Replied' /\ (stage # "read" => answers' = answers)
           /\ (service # "open" => answers' = answers)
  <1>1. JobTypeOK /\ JobInv /\ answers \in Seq(Replies)
    BY DEF AppsInv, JobAll, JobTypeOK
  <1>2. stage = "read" => command = job /\ \A i \in 1 .. Len(answers) : answers[i] = "progress"
    BY <1>1 DEF JobInv, Replied
  <1>3. CASE answers' = answers
    <2>1. stage = "read" => \A i \in 1 .. Len(answers') : answers'[i] = "progress"
      BY <1>2, <1>3
    <2> QED
      BY <1>1, <1>2, <1>3, <2>1 DEF Replied
  <1>4. CASE answers' = Append(answers, what) /\ stage = "read" /\ service = "open"
    <2>1. /\ answers' \in Seq(Replies) /\ Len(answers') = Len(answers) + 1 /\ Len(answers) \in Nat
          /\ \A i \in 1 .. Len(answers) : answers'[i] = answers[i]
          /\ answers'[Len(answers) + 1] = what
      BY <1>1, <1>4, AppendProperties, LenProperties
    <2>2. \A i \in 1 .. Len(answers') :
              answers'[i] = "progress" \/ (i = Len(answers') /\ answers'[i] = what)
      BY <1>2, <1>4, <2>1
    <2>3. \A i \in 1 .. Len(answers') : answers'[i] # "progress" => i = Len(answers') /\ IsTrue(answers[i])'
      BY <1>4, <2>2 DEF IsTrue
    <2>4. command' = job' => \A i \in 1 .. Len(answers') : answers'[i] = "progress"
      <3>1. job # "none"
        BY <1>1, <1>4 DEF JobInv, Stages
      <3>2. command' = job' => what = "progress"
        BY <3>1
      <3> QED
        BY <2>2, <3>2
    <2> QED
      BY <1>2, <1>4, <2>1, <2>3, <2>4 DEF Replied
  <1> QED
    BY <1>3, <1>4 DEF Posts

LEMMA DeviceReportsKeeps ==
    ASSUME AppsInv, DeviceReports
    PROVE  JobAll'
  <1> USE DEF DeviceReports, appVars
  <1>1. JobTypeOK /\ JobInv /\ AfcQuiet /\ command # "none"
    BY DEF AppsInv, JobAll, Faulty, AfcQuiet
  <1>2. /\ answers' \in Seq(Replies) /\ Replied'
        /\ stage # "read" => answers' = answers
    BY <1>1, PostsKeeps DEF Replies
  <1>3. JobTypeOK' /\ ServiceName' = ServiceName /\ (Starting' <=> Starting)
    BY <1>1, <1>2 DEF JobTypeOK, ServiceName, Starting
  <1>4. Stages'
    BY <1>1, <1>3 DEF JobInv, Stages, AfcQuiet
  <1>5. Checkin'
    BY <1>1, <1>2, <1>3 DEF JobInv, Checkin, ServiceIsClean, Starting
  <1>6. Staging'
    BY <1>1, StagingKeeps
  <1> QED
    BY <1>2, <1>3, <1>4, <1>5, <1>6 DEF JobAll, JobInv

LEMMA DeviceActsKeeps ==
    ASSUME AppsInv, DeviceActs
    PROVE  JobAll'
  <1>1. /\ JobTypeOK /\ JobInv /\ AfcQuiet /\ command # "none"
        /\ UNCHANGED <<route, service, checkin, checked, job, via, stage, dangling, outcome, jobs>>
        /\ cut' = cut /\ files' = files /\ stream' = stream
        /\ files \in [Paths -> Files \cup {Absent}] /\ Package \in Paths
    BY AppsAssumption DEF AppsInv, JobAll, AfcAll, TypeOK, DeviceActs, AfcQuiet, afcd, past
  <1>2. stage = "read" => command = job
    BY <1>1 DEF JobInv, Replied
  <1>3. job = "install" /\ stage = "read" /\ ~cut => files[Package] = Ipa
    BY <1>1 DEF JobInv, Staging
  <1>4. PICK what \in Replies :
           /\ DeviceDone(what) /\ app' \in Files /\ running' \in BOOLEAN
           /\ stage = "read" /\ what # "progress" => IsTrue(what)'
    <2>1. app \in Files /\ running \in BOOLEAN /\ None \in Files
      BY <1>1, AbsentIsNoFile DEF JobTypeOK, None
    <2>2. CASE /\ command = "install" /\ files[Package] # Absent
               /\ app' = files[Package] /\ DeviceDone("complete") /\ running' = running
      BY <1>1, <1>2, <1>3, <2>1, <2>2 DEF IsTrue, Replies
    <2>3. CASE command = "uninstall" /\ app' = None /\ running' = FALSE /\ DeviceDone("complete")
      BY <1>1, <1>2, <2>1, <2>3 DEF IsTrue, Replies
    <2>4. CASE command = "house" /\ DeviceDone("complete") /\ UNCHANGED <<app, running>>
      BY <1>1, <1>2, <2>1, <2>4 DEF IsTrue, Replies
    <2>5. CASE command = "launch" /\ running' = TRUE /\ DeviceDone("pid") /\ app' = app
      BY <1>1, <1>2, <2>1, <2>5 DEF IsTrue, Replies
    <2>6. CASE command = "kill" /\ running' = FALSE /\ DeviceDone("zero") /\ app' = app
      BY <1>1, <1>2, <2>1, <2>6 DEF IsTrue, Replies
    <2>7. CASE command = "running" /\ DeviceDone(IF running THEN "pid" ELSE "zero") /\ UNCHANGED <<app, running>>
      BY <1>1, <1>2, <2>1, <2>7 DEF IsTrue, Replies
    <2>8. CASE DeviceDone("error") /\ UNCHANGED <<app, running>>
      BY <2>1, <2>8 DEF IsTrue, Replies
    <2> QED
      BY <2>2, <2>3, <2>4, <2>5, <2>6, <2>7, <2>8 DEF DeviceActs
  <1>5. command' = "none" /\ Posts(what)
    BY <1>4 DEF DeviceDone
  <1>6. /\ answers' \in Seq(Replies) /\ Replied' /\ (stage # "read" => answers' = answers)
        /\ service # "open" => answers' = answers
    BY <1>1, <1>4, <1>5, PostsKeeps
  <1>7. JobTypeOK' /\ ServiceName' = ServiceName /\ (Starting' <=> Starting)
    BY <1>1, <1>4, <1>5, <1>6 DEF JobTypeOK, ServiceName, Starting, Jobs
  <1>8. Stages'
    BY <1>1, <1>7 DEF JobInv, Stages
  <1>9. Checkin'
    BY <1>1, <1>6, <1>7 DEF JobInv, Checkin, ServiceIsClean, Starting
  <1>10. Staging'
    BY <1>1, StagingKeeps
  <1> QED
    BY <1>6, <1>7, <1>8, <1>9, <1>10 DEF JobAll, JobInv
-----------------------------------------------------------------------------
(* The AFC client within a job.                                            *)

\* A package is on its way as long as the push goes on, and staged once it is over.
LEMMA PushStages ==
    ASSUME AppsInv, Client \/ DeviceServes \/ StreamDrops, stage' = stage, job' = job
    PROVE  Staging'
  <1> USE DEF AfcAction
  <1>1. /\ TypeOK /\ AfcInv /\ JobInv /\ AfcAll /\ stream # "closed"
        /\ stage \notin {"start", "send", "read"}
    <2>1. TypeOK /\ AfcInv /\ JobInv /\ AfcAll
      BY DEF AppsInv, AfcAll, JobAll
    <2>2. stream # "closed"
      BY <2>1 DEF AfcInv, Clean, Waiting, Client, Send, SendFails, MaySend, PushEnds, ReadFails, ReadHeader,
                  RefuseHeader, ReadPayload, DeviceServes, StreamDrops
    <2> QED
      BY <2>1, <2>2, StreamIs DEF FileStages
  <1> SUFFICES ASSUME stage = "pushing"
               PROVE  Staging'
    BY <1>1 DEF Staging
  <1>2. /\ op \in {"push", "idle"}
        /\ op = "push" => path = Package /\ source = Ipa
        /\ op = "idle" /\ result = "ok" /\ ~cut =>
               files[Package] = Ipa /\ \A i \in 1 .. Len(toDev) : toDev[i].op = "close"
    BY <1>1 DEF JobInv, Staging
  <1>3. CASE Client
    <2>1. op = "push" /\ op' \in {"push", "idle"} /\ path' = path /\ source' = source
      <3>1. op # "idle"
        BY <1>1, <1>3 DEF AfcInv, Waiting, Client, Send, SendFails, MaySend, PushEnds, ReadFails, ReadHeader,
                          RefuseHeader, ReadPayload
      <3>2. op = "push" /\ op # "pull" /\ op \notin Simple
        BY <1>2, <3>1 DEF Simple
      <3>3. ASSUME NEW b, Errs(b) PROVE op' \in {"push", "idle"}
        BY <3>2, <3>3 DEF Errs, GoesOn, Return
      <3>4. CASE Send \/ PushEnds \/ ReadHeader
        BY <3>2, <3>4 DEF Send, PushEnds, ReadHeader, GoesOn, file_io
      <3>5. CASE SendFails \/ ReadFails \/ RefuseHeader
        BY <3>2, <3>3, <3>5 DEF SendFails, ReadFails, RefuseHeader
      <3>6. CASE ReadPayload
        <4> DEFINE a == Head(toHost).answer
        <4> HIDE DEF a
        <4>1. path' = path /\ (Refused(a) \/ Opened(a) \/ Closed \/ Pushed)
          BY <1>1, <3>2, <3>6 DEF ReadPayload, a, TypeOK
        <4> QED
          BY <3>2, <3>3, <4>1 DEF Refused, Opened, Closed, Pushed, GoesOn, Return
      <3> QED
        BY <1>3, <3>2, <3>4, <3>5, <3>6 DEF Client
    <2>2. ASSUME op' = "idle", result' = "ok", ~cut'
          PROVE  files'[Package] = Ipa /\ \A i \in 1 .. Len(toDev') : toDev'[i].op = "close"
      <3>1. /\ Steady /\ step = "close" /\ UNCHANGED <<files, cut>>
            /\ op = "push" /\ path = Package /\ source = Ipa
        BY <1>1, <1>2, <1>3, <2>1, <2>2, EndsAtClose
      <3>2. cut' = cut /\ toDev' = toDev
        BY <1>3, <2>2, <3>1 DEF Client, Send, SendFails, PushEnds, ReadFails, ReadHeader, RefuseHeader, ReadPayload,
                           past, wires, GoesOn
      <3>3. files[path] = source
        BY <1>1, <2>2, <3>1, <3>2 DEF AfcInv, Pushing
      <3>4. \A i \in 1 .. Len(toDev) : toDev[i].op = "close"
        <4>1. InStep /\ PacketOp = "close"
          BY <1>1, <3>1, PacketOps DEF InStep
        <4>2. CASE toDev = <<>>
          BY <4>2
        <4>3. CASE toDev # <<>>
          <5>1. wait = "header" /\ Asking
            BY <1>1, <4>1, <4>3 DEF AfcInv, Lockstep, Waiting, TypeOK, Asking
          <5>2. Len(toDev) = 1 /\ toDev[1].num = packet_num /\ 1 \in 1 .. Len(toDev)
            BY <1>1, <4>1, <4>3, <5>1 DEF AfcInv, Lockstep
          <5>3. Asks(toDev[1])
            BY <1>1, <5>1, <5>2 DEF AfcInv, Asked
          <5> QED
            BY <4>1, <5>2, <5>3 DEF Asks
        <4> QED
          BY <4>2, <4>3
      <3> QED
        BY <3>1, <3>2, <3>3, <3>4
    <2> QED
      BY <1>2, <2>1, <2>2 DEF Staging
  <1>4. CASE DeviceServes
    <2>1. PICK a \in Answers : Serves(a)
      BY <1>1, <1>4, DeviceServesServes
    <2>2. UNCHANGED <<op, result, cut, path, source>>
      BY <2>1 DEF Serves, client, file_io, past
    <2>3. ASSUME op = "idle", result = "ok", ~cut
          PROVE  files'[Package] = Ipa /\ \A i \in 1 .. Len(toDev') : toDev'[i].op = "close"
      <3>1. First.op = "close" /\ files[Package] = Ipa
        BY <1>2, <2>1, <2>3, FirstIs DEF First
      <3>2. files' = files
        BY <2>1, <3>1 DEF Serves, Acts, ActsOpen, ActsRead, ActsWrite, ActsClose, ActsSimply, Simple
      <3>3. \A i \in 1 .. Len(toDev') : toDev'[i].op = "close"
        BY <1>2, <2>1, <2>3 DEF Serves
      <3> QED
        BY <3>1, <3>2, <3>3
    <2> QED
      BY <1>2, <2>2, <2>3 DEF Staging
  <1>5. CASE StreamDrops
    BY <1>2, <1>5 DEF StreamDrops, Staging, client, file_io, past
  <1> QED
    BY <1>3, <1>4, <1>5

LEMMA AfcRunsKeeps ==
    ASSUME AppsInv, Client \/ DeviceServes \/ StreamDrops, UNCHANGED <<plists, jobVars>>
    PROVE  JobAll'
  <1>1. Staging'
    BY PushStages DEF jobVars
  <1>2. stream # "closed" /\ stream' # "closed"
    BY DEF AppsInv, AfcAll, AfcInv, Clean, Waiting, Client, Send, SendFails, MaySend, PushEnds, ReadFails, ReadHeader,
           RefuseHeader, ReadPayload, DeviceServes, StreamDrops
  <1>3. stage # "read"
    BY <1>2, StreamIs DEF FileStages
  <1> QED
    BY <1>1, <1>2, <1>3, SameKeeps

LEMMA MakeStagingKeeps ==
    ASSUME AppsInv, MakeStaging
    PROVE  JobAll'
  <1> USE DEF MakeStaging, rsdVars, plists
  <1>1. JobTypeOK /\ JobInv /\ stream' = stream
    BY DEF AppsInv, JobAll, Call
  <1>2. JobTypeOK'
    BY <1>1 DEF JobTypeOK
  <1>3. Stages' /\ Checkin'
    BY <1>1 DEF JobInv, Stages, FileStages, Starting, Checkin, ServiceIsClean
  <1>4. Replied' /\ Staging'
    BY DEF Replied, Staging
  <1> QED
    BY <1>2, <1>3, <1>4 DEF JobAll, JobInv

LEMMA PushPackageKeeps ==
    ASSUME AppsInv, PushPackage
    PROVE  JobAll'
  <1> USE DEF PushPackage, rsdVars, plists
  <1>1. /\ JobTypeOK /\ JobInv /\ stream' = stream
        /\ \/ op' = "push" /\ path' = Package /\ source' = Ipa
           \/ op' = "idle" /\ result' = "error"
    BY DEF AppsInv, JobAll, Push, Calls, PushFails
  <1>2. JobTypeOK'
    BY <1>1 DEF JobTypeOK
  <1>3. Stages' /\ Checkin'
    BY <1>1 DEF JobInv, Stages, FileStages, Starting, Checkin, ServiceIsClean
  <1>4. Replied' /\ Staging'
    BY <1>1 DEF Replied, Staging
  <1> QED
    BY <1>2, <1>3, <1>4 DEF JobAll, JobInv

LEMMA StagedKeeps ==
    ASSUME AppsInv, Staged
    PROVE  JobAll'
  <1>1. stream' = "closed" /\ op = "idle" /\ files' = files /\ cut' = cut /\ stage = "pushing"
    BY DEF Staged, Close
  <1>2. CASE Over("error") /\ command' = command
    BY <1>1, <1>2, OverKeeps
  <1>3. CASE /\ result = "ok" /\ stage' = "start"
             /\ UNCHANGED <<rsdVars, job, via, command, app, running, outcome, jobs>>
    <2> USE <1>3 DEF rsdVars, plists
    <2>1. JobTypeOK /\ JobInv
      BY DEF AppsInv, JobAll
    <2>2. JobTypeOK'
      BY <2>1 DEF JobTypeOK
    <2>3. Stages' /\ Checkin'
      BY <1>1, <2>1 DEF JobInv, Stages, FileStages, Starting, Checkin, ServiceIsClean
    <2>4. ~cut => files[Package] = Ipa
      BY <1>1, <2>1 DEF JobInv, Staging
    <2>5. Replied' /\ Staging'
      BY <1>1, <2>4 DEF Replied, Staging
    <2> QED
      BY <2>2, <2>3, <2>5 DEF JobAll, JobInv
  <1> QED
    BY <1>2, <1>3 DEF Staged

LEMMA HouseKeeps ==
    ASSUME AppsInv, HouseArrestFiles \/ HouseArrestClose
    PROVE  JobAll'
  <1>1. CASE HouseArrestFiles
    <2> USE <1>1 DEF HouseArrestFiles, appVars
    <2>1. (Called \/ PushFails) /\ JobInv
      BY CallingIsCalled DEF AppsInv, AfcAll, JobAll
    <2>2. stream' = stream /\ Staging' /\ stage # "read"
      BY <2>1 DEF Called, PushFails, Staging
    <2> QED
      BY <2>2, SameKeeps DEF rsdVars, jobVars
  <1>2. CASE HouseArrestClose
    BY <1>2, OverKeeps DEF HouseArrestClose, Close
  <1> QED
    BY <1>1, <1>2

LEMMA InstallerKeeps ==
    ASSUME AppsInv, RunInstaller, job # "none", job' = job \/ job' = "none", via' = via \/ job' = "none"
    PROVE  JobAll'
  <1>1. CASE StartService
    BY <1>1, StartServiceKeeps DEF StartService
  <1>2. CASE SendCommand
    BY <1>2, SendCommandKeeps
  <1>3. CASE ReadStatus
    <2>1. CASE Reads("error") /\ Over("refused")
      BY <2>1, ReadsIs, OverKeeps
    <2>2. CASE Reads("complete") /\ Over("success")
      BY <2>2, ReadsIs, OverKeeps
    <2>3. CASE /\ Reads("progress")
               /\ answers' = Tail(answers)
               /\ UNCHANGED <<route, service, checkin, checked, job, via, stage, app, running, dangling, outcome, jobs>>
      BY <2>3, ReadsProgressKeeps
    <2> QED
      BY <1>3, <2>1, <2>2, <2>3 DEF ReadStatus
  <1> QED
    BY <1>1, <1>2, <1>3 DEF RunInstaller

LEMMA ControlKeeps ==
    ASSUME AppsInv, NEW what \in {"launch", "kill", "running"}, NEW v \in {"device", "rsd"}, Control(what, v)
    PROVE  JobAll'
  <1>1. CASE Begins(what, v, "start")
    BY <1>1, BeginsKeeps DEF Jobs
  <1>2. CASE job = what /\ StartService
    BY <1>2, StartServiceKeeps DEF StartService
  <1>3. CASE SendCommand
    BY <1>3, SendCommandKeeps
  <1>4. CASE ReadReply
    BY <1>4, ReadsIs, OverKeeps DEF ReadReply
  <1> QED
    BY <1>1, <1>2, <1>3, <1>4 DEF Control

LEMMA InstallsKeep ==
    ASSUME AppsInv, NEW v \in {"device", "rsd"}, Install(v) \/ Uninstall(v) \/ HouseArrest(v)
    PROVE  JobAll'
  <1>1. CASE Begins("install", v, "afc") \/ Begins("uninstall", v, "start") \/ Begins("house", v, "start")
    BY <1>1, BeginsKeeps DEF Jobs
  <1>2. CASE job = "install" /\ StartAfc
    BY <1>2, StartAfcKeeps DEF StartAfc
  <1>3. CASE MakeStaging \/ PushPackage \/ Staged
    BY <1>3, MakeStagingKeeps, PushPackageKeeps, StagedKeeps
  <1>4. CASE job # "none" /\ RunInstaller
    <2>1. (job' = job /\ via' = via) \/ job' = "none"
      BY <1>4 DEF RunInstaller, StartService, SendCommand, ReadStatus, Over
    <2> QED
      BY <1>4, <2>1, InstallerKeeps
  <1>5. CASE job = "house" /\ StartService
    BY <1>5, StartServiceKeeps DEF StartService
  <1>6. CASE SendCommand
    BY <1>6, SendCommandKeeps
  <1>7. CASE job = "house" /\ Vended
    BY <1>7, VendedKeeps DEF Vended, Over
  <1> QED
    BY <1>1, <1>2, <1>3, <1>4, <1>5, <1>6, <1>7 DEF Install, Uninstall, HouseArrest

LEMMA JobRunsKeeps ==
    ASSUME AppsInv, JobRuns
    PROVE  JobAll'
  <1>1. CASE ConnectService \/ CheckIn
    BY <1>1, ConnectKeeps, CheckInKeeps
  <1>2. CASE NotAdvertised \/ Denied
    <2>1. stream' = "closed" /\ command' = command /\ Over("error")
      BY <1>2, StreamIs DEF NotAdvertised, Denied, Starting, FileStages, AfcIdle, afcVars
    <2> QED
      BY <2>1, OverKeeps
  <1>3. CASE HouseArrestClose
    BY <1>3, HouseKeeps
  <1> QED
    BY <1>1, <1>2, <1>3, InstallsKeep, ControlKeeps
    DEF JobRuns, InstallOverMux, InstallOverRsd, UninstallOverMux, UninstallOverRsd,
        HouseArrestOverMux, HouseArrestOverRsd, LaunchOverMux, LaunchOverRsd, CloseOverMux,
        CloseOverRsd, IsRunningOverMux, IsRunningOverRsd

LEMMA JobsKeep ==
    ASSUME AppsInv, [AppsNext]_allVars
    PROVE  JobAll'
  <1> USE DEF rsdVars
  <1>1. AfcIdle => AfcQuiet
    BY DEF AfcIdle, afcVars, AfcQuiet
  <1>2. Faulty => AfcQuiet
    BY DEF Faulty, AfcQuiet
  <1>3. CASE UNCHANGED allVars
    BY <1>1, <1>3, QuietJob DEF allVars, AfcIdle, appVars, jobVars
  <1>4. CASE JobRuns \/ HouseArrestFiles
    BY <1>4, JobRunsKeeps, HouseKeeps
  <1>5. CASE NoService \/ GivesUp
    <2>1. Over("error") /\ command' = command
      BY <1>5 DEF NoService, GivesUp
    <2>2. stream' = "closed"
      <3>1. stage \notin FileStages
        BY <1>5, StreamIs DEF NoService, GivesUp, Starting, FileStages
      <3>2. stream' = stream
        BY <1>5, <1>1, <1>2 DEF NoService, GivesUp, AfcQuiet
      <3> QED
        BY <3>1, <3>2, StreamIs
    <2> QED
      BY <2>1, <2>2, OverKeeps
  <1>6. CASE AfcRuns
    BY <1>6, AfcRunsKeeps DEF AfcRuns, appVars, jobVars
  <1>7. CASE RsdConnects \/ RsdRuns \/ RsdEnds
    <2>1. UNCHANGED <<plists, jobVars>>
      BY <1>7 DEF RsdConnects, RsdRuns, RsdEnds, OpenTunnel, ConnectRsd, DeviceSays, HostConnects, ReadTunnel,
                  SendSetup, ReadHandshake, DeviceConnects, DeviceTunnels, DeviceShakes, RsdDown, appVars, jobVars
    <2>2. AfcQuiet
      BY <1>1, <1>2, <1>7 DEF RsdConnects, RsdRuns, RsdEnds
    <2> QED
      BY <2>1, <2>2, QuietJob
  <1>8. CASE DeviceActs \/ DeviceReports \/ DeviceChecks \/ ServiceDrops
    BY <1>8, DeviceActsKeeps, DeviceReportsKeeps, DeviceChecksKeeps, ServiceDropsKeeps
  <1> QED
    BY <1>3, <1>4, <1>5, <1>6, <1>7, <1>8 DEF AppsNext

-----------------------------------------------------------------------------
(* What the host drops.                                                    *)

\* The AFC client is between two calls whenever a stream is dropped.
Drops == dangling' = Dropped /\ op = "idle" /\ via' \in {via, "device"}

Quiets == dangling' = dangling /\ via' = via

LEMMA OverDrops ==
    ASSUME AppsInv, NEW how, Over(how), op = "idle"
    PROVE  Drops /\ UNCHANGED route
  BY DEF Over, Drops

\* What a step does to them, and to the connection they are on.
LEMMA JobsDrop ==
    ASSUME AppsInv, JobRuns
    PROVE  /\ \/ Drops \/ Quiets
              \/ dangling' = dangling /\ (via' = "rsd" => rsd = "up")
           /\ UNCHANGED route
  <1> USE DEF rsdVars
  <1>1. ASSUME NEW how, Over(how), stage \notin FileStages
        PROVE  Drops /\ UNCHANGED route
    BY <1>1, StreamIs, OverDrops
  <1>2. ASSUME NEW what, NEW v, NEW first, Begins(what, v, first)
        PROVE  dangling' = dangling /\ (via' = "rsd" => rsd = "up") /\ UNCHANGED route
    BY <1>2 DEF Begins
  <1>3. RunInstaller => (Drops \/ Quiets) /\ UNCHANGED route
    BY <1>1 DEF RunInstaller, StartService, SendCommand, ReadStatus, Reads, Quiets, FileStages
  <1>4. ASSUME NEW v \in {"device", "rsd"}, Install(v)
        PROVE  (Drops \/ Quiets \/ (dangling' = dangling /\ (via' = "rsd" => rsd = "up"))) /\ UNCHANGED route
    <2>1. Staged => Drops /\ UNCHANGED route
      BY OverDrops DEF Staged, Close, Drops
    <2>2. StartAfc \/ MakeStaging \/ PushPackage => Quiets /\ UNCHANGED route
      BY DEF StartAfc, MakeStaging, PushPackage, Quiets
    <2> QED
      BY <1>2, <1>3, <1>4, <2>1, <2>2 DEF Install
  <1>5. ASSUME NEW v \in {"device", "rsd"}, Uninstall(v)
        PROVE  (Drops \/ Quiets \/ (dangling' = dangling /\ (via' = "rsd" => rsd = "up"))) /\ UNCHANGED route
    BY <1>2, <1>3, <1>5 DEF Uninstall
  <1>6. ASSUME NEW v \in {"device", "rsd"}, HouseArrest(v)
        PROVE  (Drops \/ Quiets \/ (dangling' = dangling /\ (via' = "rsd" => rsd = "up"))) /\ UNCHANGED route
    BY <1>1, <1>2, <1>6 DEF HouseArrest, StartService, SendCommand, Vended, Reads, Quiets, FileStages
  <1>7. ASSUME NEW v \in {"device", "rsd"}, NEW what \in {"launch", "kill", "running"}, Control(what, v)
        PROVE  (Drops \/ Quiets \/ (dangling' = dangling /\ (via' = "rsd" => rsd = "up"))) /\ UNCHANGED route
    BY <1>1, <1>2, <1>7 DEF Control, StartService, SendCommand, ReadReply, Reads, Quiets, FileStages
  <1>8. CASE NotAdvertised \/ Denied
    BY <1>1, <1>8 DEF NotAdvertised, Denied, Starting, FileStages
  <1>9. CASE ConnectService \/ CheckIn
    BY <1>9 DEF ConnectService, Connects, CheckIn, SendCheckin, ReadCheckin, Quiets, appVars
  <1>10. CASE HouseArrestClose
    BY <1>10, OverDrops DEF HouseArrestClose, Close
  <1> QED
    BY <1>4, <1>5, <1>6, <1>7, <1>8, <1>9, <1>10
    DEF JobRuns, InstallOverMux, InstallOverRsd, UninstallOverMux, UninstallOverRsd,
        HouseArrestOverMux, HouseArrestOverRsd, LaunchOverMux, LaunchOverRsd, CloseOverMux,
        CloseOverRsd, IsRunningOverMux, IsRunningOverRsd

LEMMA StepsDrop ==
    ASSUME AppsInv, [AppsNext]_allVars, ~RsdEnds
    PROVE  /\ \/ Drops \/ Quiets
              \/ dangling' = dangling /\ (via' = "rsd" => rsd = "up")
           /\ rsd = "up" => rsd' = "up"
           /\ tunnel' = "none" => tunnel = "none"
  <1> USE DEF rsdVars, route
  <1>1. CASE JobRuns
    BY <1>1, JobsDrop
  <1>2. CASE UNCHANGED allVars \/ HouseArrestFiles \/ AfcRuns
    BY <1>2 DEF allVars, appVars, HouseArrestFiles, AfcRuns, Quiets
  <1>3. CASE NoService \/ GivesUp
    <2>1. stage \notin FileStages
      BY <1>3, StreamIs DEF NoService, GivesUp, Starting, FileStages
    <2>2. Over("error")
      BY <1>3 DEF NoService, GivesUp
    <2> QED
      BY <2>1, <2>2, StreamIs, OverDrops
  <1>4. CASE RsdConnects \/ RsdRuns
    <2>1. Quiets
      BY <1>4 DEF RsdConnects, RsdRuns, appVars, Quiets
    <2>2. (rsd = "up" => rsd' = "up") /\ (tunnel' = "none" => tunnel = "none")
      BY <1>4 DEF RsdConnects, RsdRuns, OpenTunnel, ConnectRsd, DeviceSays, HostConnects, ReadTunnel,
                  SendSetup, ReadHandshake, DeviceConnects, DeviceTunnels, DeviceShakes
    <2> QED
      BY <2>1, <2>2
  <1>5. CASE DeviceActs \/ DeviceReports \/ DeviceChecks \/ ServiceDrops
    BY <1>5 DEF DeviceActs, DeviceReports, DeviceChecks, DeviceChecksIn, ServiceDrops, appVars, Quiets
  <1> QED
    BY <1>1, <1>2, <1>3, <1>4, <1>5 DEF AppsNext

\* One service more that the host dropped.
LEMMA OneDropped ==
    ASSUME NEW S, NEW s \in Seq(S), NEW x \in S
    PROVE  /\ Append(s, x) \in Seq(S)
           /\ \A i \in DOMAIN Append(s, x) : Append(s, x)[i] = x \/ (i \in DOMAIN s /\ Append(s, x)[i] = s[i])
  OBVIOUS

LEMMA DanglingKeeps ==
    ASSUME AppsInv, [AppsNext]_allVars
    PROVE  Dangling'
  <1>1. Dangling /\ (rsd = "up" => tunnel = "up") /\ TypeOK /\ AfcInv
    BY DEF AppsInv, RouteAll, Route, AfcAll
  <1>2. CASE RsdEnds
    <2>1. job = "none" /\ via' = via /\ dangling' = <<>>
      BY <1>2 DEF RsdEnds
    <2>2. via = "device"
      BY <2>1 DEF AppsInv, JobAll, JobInv, Stages
    <2> QED
      BY <2>1, <2>2, EmptySeq DEF Dangling, DroppedHoldNothing
  <1>3. CASE ~RsdEnds
    <2>1. via' = "rsd" => rsd' = "up"
      BY <1>1, <1>3, StepsDrop DEF Drops, Quiets, Dangling
    <2>2. CASE dangling' = dangling
      BY <1>1, <1>3, <2>1, <2>2, StepsDrop DEF Dangling, DroppedHoldNothing
    <2>3. CASE dangling' # dangling
      <3> DEFINE new == [handles |-> handles, excused |-> spoilt \/ leaked]
                 Lefts == [handles : SUBSET Handles, excused : BOOLEAN]
      <3>1. Drops
        BY <1>3, <2>3, StepsDrop DEF Quiets
      <3>2. via = "rsd" /\ dangling' = Append(dangling, new)
        BY <2>3, <3>1 DEF Drops, Dropped
      <3>3. new \in Lefts
        BY <1>1 DEF TypeOK
      <3>4. new.handles # {} => new.excused
        <4>1. stream = "open" /\ ~spoilt /\ ~leaked => handles = {}
          BY <1>1, <3>1 DEF Drops, AfcInv, OnlyOwn
        <4>2. stream # "open" => handles = {}
          BY <1>1 DEF AfcInv, Held
        <4> QED
          BY <4>1, <4>2
      <3>5. dangling \in Seq(Lefts) /\ \A i \in DOMAIN dangling : dangling[i].handles # {} => dangling[i].excused
        BY <1>1 DEF Dangling, DroppedHoldNothing
      <3>6. tunnel' # "none"
        BY <1>1, <1>3, <3>2, StepsDrop DEF Dangling
      <3> HIDE DEF new
      <3>7. dangling' \in Seq(Lefts)
        BY <3>2, <3>3, <3>5, OneDropped
      <3>8. \A i \in DOMAIN dangling' : dangling'[i] = new \/ (i \in DOMAIN dangling /\ dangling'[i] = dangling[i])
        BY <3>2, <3>3, <3>5, OneDropped
      <3> QED
        BY <2>1, <3>4, <3>5, <3>6, <3>7, <3>8 DEF Dangling, DroppedHoldNothing
    <2> QED
      BY <2>2, <2>3
  <1> QED
    BY <1>2, <1>3
-----------------------------------------------------------------------------
(* The theorems.                                                           *)

LEMMA AppsKeep == AppsInv /\ [AppsNext]_allVars => AppsInv'
  <1> SUFFICES ASSUME AppsInv, [AppsNext]_allVars
               PROVE  AppsInv'
    OBVIOUS
  <1>1. AfcAll'
    BY AfcKeeps DEF AppsInv
  <1>2. RouteAll'
    BY AppsRoute, RouteKeeps DEF AppsInv
  <1>3. JobAll'
    BY JobsKeep
  <1>4. Dangling'
    BY DanglingKeeps
  <1> QED
    BY <1>1, <1>2, <1>3, <1>4 DEF AppsInv

LEMMA AppsHolds == AppsSpec => []AppsInv
  <1>1. AppsInit => Dangling
    BY EmptySeq DEF AppsInit, Dangling, DroppedHoldNothing
  <1>2. AppsInit => AppsInv
    BY <1>1, InitAfc, RouteInit, JobsInit DEF AppsInit, AppsInv
  <1> QED
    BY <1>2, AppsKeep, PTL DEF AppsSpec

(* Whatever is answered, given up or lost, the clients and the RSD hold      *)
(* values of their types (Afc, Rsd, app.cpp, house_arrest.cpp).              *)
THEOREM TypesHold == AppsSpec => []AppsTypeOK
  <1>1. AppsInv => AppsTypeOK
    BY DEF AppsInv, AfcAll, RouteAll, JobAll, Dangling, RouteTypeOK, JobTypeOK, AppsTypeOK, RsdTypeOK, Jobs, Replies
  <1> QED
    BY <1>1, AppsHolds, PTL

(* Whatever ended the last job, the next finds its services as if it were    *)
(* the first: no answer of an earlier packet is taken for that of a later    *)
(* one, no handle and no stream of the host's is left open, but for handles  *)
(* whose close was given up or never sent, a request goes out on a clean     *)
(* stream, and the services are those the device advertised.  The RSD links  *)
(* the host dropped hold no other handle, and are gone with the tunnel       *)
(* (Impl::receive, Afc::pull, Afc::push, install, Rsd::start_service,        *)
(* Rsd::Impl::checkin).                                                      *)
THEOREM LeftClean == AppsSpec => []ServicesLeftClean
  <1>1. AppsInv => ServicesLeftClean
    <2> SUFFICES ASSUME AppsInv PROVE ServicesLeftClean
      OBVIOUS
    <2>1. AfcInv /\ Route /\ JobInv
      BY DEF AppsInv, AfcAll, RouteAll, JobAll
    <2>2. AnswerIsOwn
      BY <2>1 DEF AfcInv, Carried, AnswerIsOwn
    <2>3. HandlesClosed /\ DroppedHoldNothing
      BY <2>1 DEF AppsInv, Dangling, AfcInv, OnlyOwn, HandlesClosed
    <2>4. OneServiceAtATime
      BY <2>1 DEF JobInv, Stages, FileStages, OneServiceAtATime
    <2>5. ServicesAreAdvertised /\ ServiceIsClean
      BY <2>1 DEF Route, JobInv, Checkin
    <2> QED
      BY <2>2, <2>3, <2>4, <2>5 DEF ServicesLeftClean
  <1> QED
    BY <1>1, AppsHolds, PTL

\* The jobs whose answer says what the device did.
Told == {"install", "uninstall", "launch", "kill", "running"}

\* The answer a job ends with is a true one.
EndsTruly ==
    /\ \/ IsTrue("complete") /\ job \in {"install", "uninstall"} /\ outcome' = "success"
       \/ IsTrue("pid") /\ job \in {"launch", "kill", "running"} /\ outcome' = "success"
       \/ /\ IsTrue("zero") /\ job \in {"launch", "kill", "running"}
          /\ outcome' = IF job = "running" THEN "no" ELSE "success"
    /\ UNCHANGED <<app, running>>

LEMMA InstallerEnds ==
    ASSUME AppsInv, RunInstaller, job \in {"install", "uninstall"}, outcome' \in {"no", "success"}
    PROVE  EndsTruly
  <1>1. outcome = "none"
    BY DEF AppsInv, JobAll, JobInv, Stages
  <1>2. Reads("complete") /\ Over("success")
    BY <1>1 DEF RunInstaller, StartService, SendCommand, ReadStatus, Over
  <1> QED
    BY <1>2, ReadsIs DEF Over, EndsTruly

LEMMA ControlEnds ==
    ASSUME AppsInv, StartService \/ SendCommand \/ ReadReply, job \in {"launch", "kill", "running"},
           outcome' \in {"no", "success"}
    PROVE  EndsTruly
  <1>1. outcome = "none"
    BY DEF AppsInv, JobAll, JobInv, Stages
  <1>2. \/ Reads("zero") /\ Over(IF job = "running" THEN "no" ELSE "success")
        \/ Reads("pid") /\ Over("success")
    BY <1>1 DEF StartService, SendCommand, ReadReply, Over
  <1>3. CASE Reads("zero") /\ Over(IF job = "running" THEN "no" ELSE "success")
    BY <1>3, ReadsIs DEF Over, EndsTruly
  <1>4. CASE Reads("pid") /\ Over("success")
    BY <1>4, ReadsIs DEF Over, EndsTruly
  <1> QED
    BY <1>2, <1>3, <1>4

LEMMA JobRunsEnds ==
    ASSUME AppsInv, JobRuns, job \in Told, outcome' \in {"no", "success"}
    PROVE  EndsTruly
  <1>1. outcome = "none"
    BY DEF AppsInv, JobAll, JobInv, Stages, Told
  <1>2. ~(ConnectService \/ CheckIn \/ NotAdvertised \/ Denied \/ HouseArrestClose)
    BY <1>1 DEF ConnectService, CheckIn, NotAdvertised, Denied, HouseArrestClose, Over, appVars, Told
  <1>3. ASSUME NEW what, NEW v, NEW first PROVE ~Begins(what, v, first)
    BY DEF Begins, Told
  <1>4. ASSUME NEW v, HouseArrest(v) PROVE FALSE
    BY <1>3, <1>4 DEF HouseArrest, Told
  <1>5. ASSUME NEW v, Install(v) PROVE EndsTruly
    <2>1. ~(StartAfc \/ MakeStaging \/ PushPackage \/ Staged)
      BY <1>1 DEF StartAfc, MakeStaging, PushPackage, Staged, Over
    <2> QED
      BY <1>3, <1>5, <2>1, InstallerEnds DEF Install
  <1>6. ASSUME NEW v, Uninstall(v) PROVE EndsTruly
    BY <1>3, <1>6, InstallerEnds DEF Uninstall
  <1>7. ASSUME NEW what \in {"launch", "kill", "running"}, NEW v, Control(what, v) PROVE EndsTruly
    BY <1>3, <1>7, ControlEnds DEF Control
  <1> QED
    BY <1>2, <1>4, <1>5, <1>6, <1>7
    DEF JobRuns, InstallOverMux, InstallOverRsd, UninstallOverMux, UninstallOverRsd,
        HouseArrestOverMux, HouseArrestOverRsd, LaunchOverMux, LaunchOverRsd, CloseOverMux,
        CloseOverRsd, IsRunningOverMux, IsRunningOverRsd

\* Only the last answer of a job ends it with anything but an error.
LEMMA JobEnds ==
    ASSUME AppsInv, [AppsNext]_allVars, job \in Told, outcome' \in {"no", "success"}
    PROVE  EndsTruly
  <1>1. outcome = "none"
    BY DEF AppsInv, JobAll, JobInv, Stages, Told
  <1>2. ~UNCHANGED allVars /\ ~(NoService \/ GivesUp \/ HouseArrestFiles)
    BY <1>1 DEF allVars, appVars, NoService, GivesUp, HouseArrestFiles, Over
  <1>3. ~(AfcRuns \/ RsdConnects \/ RsdRuns \/ RsdEnds)
    BY <1>1 DEF AfcRuns, RsdConnects, RsdRuns, RsdEnds, appVars
  <1>4. ~(DeviceActs \/ DeviceReports \/ DeviceChecks \/ ServiceDrops)
    BY <1>1 DEF DeviceActs, DeviceReports, DeviceChecks, ServiceDrops, appVars
  <1> QED
    BY <1>2, <1>3, <1>4, JobRunsEnds DEF AppsNext

(* What is reported as done was done: a transfer the client reports is of    *)
(* the whole file, an install that succeeds has the device run the very      *)
(* package it was given, both but for a failure of the local disk where the  *)
(* code does not look, and what a job reports of the app is what the         *)
(* device did for that job (Afc::pull, Afc::push, install, run_installer,    *)
(* reply_pid).                                                               *)
THEOREM ReportsTrue == AppsSpec => ReportsAreTrue
  <1>1. AppsInv /\ [AppsNext]_allVars =>
           [op' = "idle" /\ result' = "ok" /\ ~cut =>
               /\ op = "pull" => target' = source'
               /\ op = "push" => files'[path] = source']_afcVars
    <2> SUFFICES ASSUME AppsInv, [AppsNext]_allVars, op' = "idle", result' = "ok", ~cut, op \in {"pull", "push"}
                 PROVE  /\ op = "pull" => target' = source'
                        /\ op = "push" => files'[path] = source'
      OBVIOUS
    <2> QED
      BY TransferIsWhole DEF AppsInv
  <1>2. AppsInv /\ [AppsNext]_allVars =>
           [job = "install" /\ outcome' = "success" /\ ~cut => app' = Ipa]_allVars
    <2> SUFFICES ASSUME AppsInv, [AppsNext]_allVars, job = "install", outcome' = "success", ~cut
                 PROVE  app' = Ipa
      OBVIOUS
    <2>1. EndsTruly
      BY JobEnds DEF Told
    <2> QED
      BY <2>1 DEF EndsTruly, IsTrue
  <1>3. AppsInv /\ [AppsNext]_allVars =>
           [/\ job = "uninstall" /\ outcome' = "success" => app' = None
            /\ job = "launch" /\ outcome' = "success" => running'
            /\ job = "kill" /\ outcome' = "success" => ~running'
            /\ job = "running" /\ outcome' \in {"no", "success"} => (running' <=> outcome' = "success")]_allVars
    <2> SUFFICES ASSUME AppsInv, [AppsNext]_allVars,
                        job \in {"uninstall", "launch", "kill", "running"}, outcome' \in {"no", "success"}
                 PROVE  /\ job = "uninstall" /\ outcome' = "success" => app' = None
                        /\ job = "launch" /\ outcome' = "success" => running'
                        /\ job = "kill" /\ outcome' = "success" => ~running'
                        /\ job = "running" /\ outcome' \in {"no", "success"} => (running' <=> outcome' = "success")
      OBVIOUS
    <2>1. EndsTruly /\ running \in BOOLEAN
      BY JobEnds DEF Told, AppsInv, JobAll, JobTypeOK
    <2> QED
      BY <2>1 DEF EndsTruly, IsTrue
  <1>4. AppsSpec => TransfersWhole
    BY <1>1, AppsHolds, PTL DEF AppsSpec, TransfersWhole
  <1>5. AppsSpec => InstallsThePackage
    BY <1>2, AppsHolds, PTL DEF AppsSpec, InstallsThePackage
  <1>6. AppsSpec => OutcomeIsOwn
    BY <1>3, AppsHolds, PTL DEF AppsSpec, OutcomeIsOwn
  <1> QED
    BY <1>4, <1>5, <1>6 DEF ReportsAreTrue

=============================================================================
