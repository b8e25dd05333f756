-------------------------------- MODULE Apps -------------------------------
(***************************************************************************)
(* What the host does with an app (src/src/app.cpp, process_control.cpp)   *)
(* and with its container (house_arrest.cpp): each job is a string of       *)
(* services, started one after the other by the device or through the RSD   *)
(* (Rsd), that end in an AFC client (Afc), a stream of property lists       *)
(* (plist_service.cpp) or a process-control channel.                        *)
(***************************************************************************)
EXTENDS Afc, Rsd

CONSTANTS
    Package,       \* the remote path the package is staged at
    MaxJobs        \* bound: jobs

ASSUME AppsAssumption == Package \in Paths /\ MaxJobs \in Nat

Ipa == [i \in 1 .. MaxChunks |-> i]
None == <<>>             \* no app installed

VARIABLES
    job,           \* "none", "install", "uninstall", "house", "launch", "kill", "running"
    via,           \* the job runs over a mux "device" or over an "rsd" connection
    stage,         \* how far the job is
    command,       \* a request the device has yet to carry out: its job, or "none"
    app,           \* device: what is installed
    running,       \* device: the app has a process
    dangling,      \* device: the services whose RSD connection the host dropped
    outcome,       \* what the last job returned: "none", "error", "refused", "no", "success"
    jobs

appVars == <<job, via, stage, command, app, running, dangling, outcome, jobs>>
allVars == <<afcVars, rsdVars, appVars>>

AppsTypeOK ==
    /\ TypeOK /\ RsdTypeOK
    /\ job \in {"none", "install", "uninstall", "house", "launch", "kill", "running"}
    /\ via \in {"device", "rsd"}
    /\ stage \in {"afc", "mkdir", "push", "pushing", "start", "send", "read", "files"}
    /\ command \in {"none", "install", "uninstall", "house", "launch", "kill", "running"}
    /\ answers \in Seq({"checkin", "started", "denied", "progress", "error", "complete", "pid", "zero"})
    /\ app \in Files /\ running \in BOOLEAN
    /\ dangling \in Seq([handles : SUBSET Handles, excused : BOOLEAN])
    /\ outcome \in {"none", "error", "refused", "no", "success"}
    /\ jobs \in 0 .. MaxJobs

AppsInit ==
    /\ AfcInit /\ RsdInit
    /\ job = "none" /\ via = "device" /\ stage = "start" /\ command = "none"
    /\ app \in {None, Remote} /\ running = FALSE /\ dangling = <<>>
    /\ outcome = "none" /\ jobs = 0

-----------------------------------------------------------------------------
(* Jobs and services.                                                       *)

Begins(what, v, first) ==
    /\ job = "none" /\ jobs < MaxJobs
    /\ IF v = "rsd" THEN rsd = "up" ELSE tunnel = "none"
    /\ jobs' = jobs + 1
    /\ job' = what /\ via' = v /\ stage' = first /\ outcome' = "none"
    /\ UNCHANGED <<afcVars, rsdVars, command, app, running, dangling>>

\* A stream of a device is reset as it is closed.  A link through the tunnel is let go
\* of and the device not told: it keeps the service, with the handles open in it.
Dropped ==
    IF via = "rsd" /\ "open" \in {stream, service}
      THEN Append(dangling, [handles |-> handles, excused |-> spoilt \/ leaked])
      ELSE dangling

\* A job that is over lets go of its streams: what the device was sent on a plist
\* stream it may still carry out, what it answers is lost.
Over(how) ==
    /\ job' = "none" /\ stage' = "start" /\ outcome' = how
    /\ service' = "none" /\ answers' = <<>> /\ checkin' = "none" /\ checked' = FALSE /\ via' = "device"
    /\ dangling' = Dropped
    /\ UNCHANGED <<route, app, running, jobs>>

AfcIdle == UNCHANGED afcVars

\* AfcIdle but for the fault it counts.
Faulty ==
    /\ faults < MaxFaults /\ faults' = faults + 1
    /\ UNCHANGED <<stream, client, file_io, wires, afcd, past, calls>>

Starting == job # "none" /\ stage \in {"start", "afc"}

ServiceName == IF stage = "afc" THEN "afc"
               ELSE CASE job \in {"install", "uninstall"} -> "installer"
                      [] job = "house" -> "house"
                      [] OTHER -> "control"

\* Over an RSD a service is connected to, and a shim checked in to, first.
ConnectService == Starting /\ via = "rsd" /\ Connects(ServiceName) /\ AfcIdle /\ UNCHANGED appVars

CheckIn == (SendCheckin \/ ReadCheckin) /\ AfcIdle /\ UNCHANGED appVars

NotAdvertised ==
    /\ Starting /\ via = "rsd" /\ service = "none" /\ ServiceName \notin services
    /\ Over("error") /\ AfcIdle /\ UNCHANGED command

Denied == Starting /\ CheckinRefused /\ Over("error") /\ AfcIdle /\ UNCHANGED command

\* How a lockdown service starts is in DeviceSession.
Started == checkin' = "none" /\ IF via = "rsd" THEN checkin = "done" ELSE service = "none"

StartService ==
    /\ stage = "start" /\ Started
    /\ service' = "open" /\ stage' = "send" /\ command' = "none"
    /\ AfcIdle
    /\ UNCHANGED <<route, checked, answers, job, via, app, running, dangling, outcome, jobs>>

NoService == Starting /\ Faulty /\ Over("error") /\ UNCHANGED command

-----------------------------------------------------------------------------
(* A request on a plist stream, and what comes back.                        *)

SendCommand ==
    /\ stage = "send" /\ service = "open"
    /\ command' = job /\ stage' = "read"
    /\ AfcIdle
    /\ UNCHANGED <<rsdVars, job, via, app, running, dangling, outcome, jobs>>

\* Nothing more can be read: the stream is down, or the answer was given up.
GivesUp ==
    /\ \/ service = "down" /\ answers = <<>> /\ AfcIdle
       \/ stage \in {"send", "read"} /\ service = "open" /\ Faulty
    /\ Over("error") /\ UNCHANGED command

Reads(answer) ==
    /\ stage = "read" /\ answers # <<>> /\ Head(answers) = answer
    /\ AfcIdle /\ UNCHANGED command

\* Mutant: an error is passed over like any other status.
ReadStatusPast ==
    \/ /\ \E what \in {"progress", "error"} : Reads(what)
       /\ answers' = Tail(answers)
       /\ UNCHANGED <<route, service, checkin, checked, job, via, stage, app, running, dangling, outcome, jobs>>
    \/ Reads("complete") /\ Over("success")

\* The installer's statuses are read up to an error or to "Complete".
ReadStatus ==
    \/ /\ Reads("progress")
       /\ answers' = Tail(answers)
       /\ UNCHANGED <<route, service, checkin, checked, job, via, stage, app, running, dangling, outcome, jobs>>
    \/ Reads("error") /\ Over("refused")
    \/ Reads("complete") /\ Over("success")

RunInstaller == StartService \/ SendCommand \/ ReadStatus

\* The vend command chooses the root; the AFC client then has the same stream.
Vended ==
    \/ Reads("error") /\ Over("refused")
    \/ /\ stage = "read" /\ answers # <<>> /\ Head(answers) = "complete"
       /\ Start
       /\ stage' = "files" /\ service' = "none" /\ answers' = <<>>
       /\ UNCHANGED <<route, checkin, checked, job, via, command, app, running, dangling, outcome, jobs>>

\* Mutant: the process id itself is returned.
ReadReplyPid ==
    \/ Reads("error") /\ Over("refused")
    \/ \E pid \in {"zero", "pid"} : Reads(pid) /\ Over(pid)

\* A reply that is an error is the device's refusal; a launch and a lookup have a
\* process id, and is_running is whether it is not zero.
ReadReply ==
    \/ Reads("error") /\ Over("refused")
    \/ Reads("zero") /\ Over(IF job = "running" THEN "no" ELSE "success")
    \/ Reads("pid") /\ Over("success")

-----------------------------------------------------------------------------
(* The jobs.                                                                *)

\* The AFC service of an install.
StartAfc ==
    /\ stage = "afc" /\ Started /\ Start /\ stage' = "mkdir"
    /\ service' = "none"
    /\ UNCHANGED <<route, checked, answers, job, via, command, app, running, dangling, outcome, jobs>>

MakeStaging ==
    /\ stage = "mkdir" /\ stream # "closed" /\ Call("mkdir", Package, Package) /\ stage' = "push"
    /\ UNCHANGED <<rsdVars, job, via, command, app, running, dangling, outcome, jobs>>

\* Whatever came of the directory, the package is pushed.
PushPackage ==
    /\ stage = "push" /\ (Push(Package, Ipa) \/ PushFails) /\ stage' = "pushing"
    /\ UNCHANGED <<rsdVars, job, via, command, app, running, dangling, outcome, jobs>>

\* The host lets go of the AFC stream before it opens anything else.
Staged ==
    /\ stage = "pushing" /\ Close
    /\ IF result = "ok"
         THEN /\ stage' = "start" /\ dangling' = Dropped
              /\ UNCHANGED <<rsdVars, job, via, command, app, running, outcome, jobs>>
         ELSE Over("error") /\ UNCHANGED command

Install(v) ==
    \/ Begins("install", v, "afc")
    \/ job = "install" /\ via = v /\ (StartAfc \/ MakeStaging \/ PushPackage \/ Staged \/ RunInstaller)
InstallOverMux == Install("device")
InstallOverRsd == Install("rsd")

Uninstall(v) ==
    \/ Begins("uninstall", v, "start")
    \/ job = "uninstall" /\ via = v /\ RunInstaller
UninstallOverMux == Uninstall("device")
UninstallOverRsd == Uninstall("rsd")

HouseArrest(v) ==
    \/ Begins("house", v, "start")
    \/ job = "house" /\ via = v /\ (StartService \/ SendCommand \/ Vended)
HouseArrestOverMux == HouseArrest("device")
HouseArrestOverRsd == HouseArrest("rsd")

HouseArrestFiles == job = "house" /\ stage = "files" /\ Calling /\ UNCHANGED <<rsdVars, appVars>>

HouseArrestClose ==
    /\ job = "house" /\ stage = "files" /\ Close
    /\ Over("success") /\ UNCHANGED command

Control(what, v) ==
    \/ Begins(what, v, "start")
    \/ job = what /\ via = v /\ (StartService \/ SendCommand \/ ReadReply)
LaunchOverMux    == Control("launch", "device")
LaunchOverRsd    == Control("launch", "rsd")
CloseOverMux     == Control("kill", "device")
CloseOverRsd     == Control("kill", "rsd")
IsRunningOverMux == Control("running", "device")
IsRunningOverRsd == Control("running", "rsd")

-----------------------------------------------------------------------------
(* The device's side of the plist and process-control services.            *)

\* What it answers is for whoever sent the command, if the stream is still that one's.
Posts(what) == answers' = IF service = "open" /\ stage = "read" THEN Append(answers, what) ELSE answers

DeviceDone(what) == Posts(what) /\ command' = "none"

\* The installer takes the package as it is staged, and says how far it is.
DeviceActs ==
    /\ command # "none"
    /\ \/ /\ command = "install" /\ files[Package] # Absent
          /\ app' = files[Package] /\ DeviceDone("complete") /\ UNCHANGED <<running, faults>>
       \/ /\ command = "uninstall"
          /\ app' = None /\ running' = FALSE /\ DeviceDone("complete") /\ UNCHANGED faults
       \/ /\ command = "house"
          /\ DeviceDone("complete") /\ UNCHANGED <<app, running, faults>>
       \/ /\ command = "launch" /\ app # None
          /\ running' = TRUE /\ DeviceDone("pid") /\ UNCHANGED <<app, faults>>
       \/ /\ command = "kill" /\ running
          /\ running' = FALSE /\ DeviceDone("zero") /\ UNCHANGED <<app, faults>>
       \/ /\ command = "running"
          /\ DeviceDone(IF running THEN "pid" ELSE "zero") /\ UNCHANGED <<app, running, faults>>
       \/ /\ \/ command = "install" /\ files[Package] = Absent
             \/ command = "launch" /\ app = None
             \/ command = "kill" /\ ~running
          /\ DeviceDone("error") /\ UNCHANGED <<app, running, faults>>
       \/ /\ faults < MaxFaults /\ faults' = faults + 1
          /\ DeviceDone("error") /\ UNCHANGED <<app, running>>
    /\ UNCHANGED <<stream, client, file_io, wires, afcd, past, calls>>
    /\ UNCHANGED <<route, service, checkin, checked, job, via, stage, dangling, outcome, jobs>>

DeviceReports ==
    /\ command \in {"install", "uninstall"} /\ answers = <<>> /\ service = "open"
    /\ Faulty
    /\ Posts("progress")
    /\ UNCHANGED <<route, service, checkin, checked, appVars>>

ServiceDrops ==
    /\ service = "open" /\ Faulty
    /\ service' = "down"
    /\ UNCHANGED <<route, checkin, checked, answers, appVars>>

\* A shim starts the service, or says why it does not.
DeviceChecks ==
    \/ DeviceChecksIn("started") /\ AfcIdle /\ UNCHANGED appVars
    \/ DeviceChecksIn("denied") /\ Faulty /\ UNCHANGED appVars

-----------------------------------------------------------------------------
(* The RSD, between two jobs.                                               *)

RsdConnects ==
    /\ job = "none" /\ jobs < MaxJobs
    /\ OpenTunnel \/ ConnectRsd \/ \E what \in Noise : DeviceSays(what)
    /\ AfcIdle /\ UNCHANGED appVars

RsdRuns == (HostConnects \/ DeviceConnects) /\ AfcIdle /\ UNCHANGED appVars

\* What cannot be read, or is not what it has to be, ends it; so does its owner.  With
\* the tunnel the device loses whatever was reached through it.
RsdEnds ==
    /\ job = "none" /\ RsdDown /\ dangling' = <<>>
    /\ IF Connecting THEN Faulty ELSE AfcIdle
    /\ UNCHANGED <<job, via, stage, command, app, running, outcome, jobs>>

-----------------------------------------------------------------------------
AfcRuns == (Client \/ DeviceServes \/ StreamDrops) /\ UNCHANGED <<rsdVars, appVars>>

JobRuns ==
        \/ ConnectService \/ CheckIn \/ NotAdvertised \/ Denied
        \/ InstallOverMux \/ InstallOverRsd \/ UninstallOverMux \/ UninstallOverRsd
        \/ HouseArrestOverMux \/ HouseArrestOverRsd \/ HouseArrestClose
        \/ LaunchOverMux \/ LaunchOverRsd \/ CloseOverMux \/ CloseOverRsd
        \/ IsRunningOverMux \/ IsRunningOverRsd

AppsNext == \/ JobRuns \/ HouseArrestFiles \/ NoService \/ GivesUp \/ AfcRuns
            \/ RsdConnects \/ RsdRuns \/ RsdEnds
            \/ DeviceActs \/ DeviceReports \/ DeviceChecks \/ ServiceDrops

AppsSpec == AppsInit /\ [][AppsNext]_allVars

\* A job goes on as long as it can, the caller of a house arrest closes it, and the
\* device carries out what it was sent.
AppsFairSpec ==
    /\ AppsSpec
    /\ WF_allVars(job # "none" /\ (JobRuns \/ GivesUp))
    /\ WF_allVars(Client /\ UNCHANGED <<rsdVars, appVars>>)
    /\ WF_allVars(DeviceServes /\ UNCHANGED <<rsdVars, appVars>>)
    /\ WF_allVars(RsdRuns)
    /\ WF_allVars(DeviceActs)
    /\ WF_allVars(DeviceChecks)

-----------------------------------------------------------------------------
(* An install that succeeds has the device run the very package it was      *)
(* given, whatever was staged before, unless the package could not be read  *)
(* to its end (install, Afc::push, run_installer).                          *)
InstallsThePackage ==
    [][job = "install" /\ outcome' = "success" /\ ~cut => app' = Ipa]_allVars

(* What a job reports is what the device did for that job: an answer to an  *)
(* earlier command is not taken for one to this (run_installer, reply_pid). *)
OutcomeIsOwn ==
    [][/\ job = "uninstall" /\ outcome' = "success" => app' = None
       /\ job = "launch" /\ outcome' = "success" => running'
       /\ job = "kill" /\ outcome' = "success" => ~running'
       /\ job = "running" /\ outcome' \in {"no", "success"} => (running' <=> outcome' = "success")]_allVars

(* The host has one stream open at a time, and none between two jobs: on a  *)
(* device a stream left open would discard the frames of the next (install).*)
OneServiceAtATime ==
    /\ stream = "closed" \/ service = "none"
    /\ job = "none" => stream = "closed" /\ service = "none"

(* A request goes out on a stream that has nothing left on it to be read,    *)
(* one that was checked in to if, and only if, the service is a shim         *)
(* (Rsd::start_service, Rsd::Impl::checkin).                                 *)
ServiceIsClean ==
    stage = "send" => answers = <<>> /\ (checked <=> via = "rsd" /\ ServiceName \in Shims)

(* What the device keeps of the connections the host dropped has no handle   *)
(* open, unless a call left it, and is gone when the tunnel is: a device     *)
(* reached without one has no service but the host's (install, Afc::pull,    *)
(* Tunnel::close).                                                           *)
DroppedHoldNothing ==
    /\ \A i \in DOMAIN dangling : dangling[i].handles # {} => dangling[i].excused
    /\ tunnel = "none" => dangling = <<>>

(* Whatever ended the last job, the next finds its own streams as if it were *)
(* the first: nothing open, nothing unread, nothing of another device.  Over *)
(* an RSD the device still has the services of the jobs before.              *)
ServicesLeftClean ==
    AnswerIsOwn /\ HandlesClosed /\ DroppedHoldNothing /\ OneServiceAtATime /\ ServicesAreAdvertised /\ ServiceIsClean

(* What is reported as done was done, for a file, a package and a command    *)
(* alike (Afc::pull, Afc::push, install, run_installer, reply_pid).          *)
ReportsAreTrue == TransfersWhole /\ InstallsThePackage /\ OutcomeIsOwn

(* A job ends, and so does the making of a connection to the RSD, whatever   *)
(* becomes of their streams.                                                *)
JobsEnd == job # "none" \/ Connecting ~> job = "none" /\ ~Connecting

=============================================================================
