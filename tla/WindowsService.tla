--------------------------- MODULE WindowsService ---------------------------
(***************************************************************************)
(* trish-server.exe and trish-agent.exe as Windows services: the installer *)
(* (install, repair, uninstall; install-check changes nothing), the        *)
(* service process and the service manager between them.  Server and agent *)
(* have their own copies of this code (server/service_windows.go; agent/   *)
(* install_windows.go and agent/service_windows.go); kind says which one   *)
(* runs, and where the two differ there are two definitions.               *)
(*                                                                         *)
(* A binary or a configuration is the number of the install that wrote it. *)
(* The installer is a sequence of steps; each may fail, and a reboot may   *)
(* cut it short.  A process has three threads: serviceMain, the goroutine  *)
(* of run, and the control handler that the service manager calls.         *)
(***************************************************************************)
EXTENDS Naturals

CONSTANTS
    MaxInstalls,    \* bound on the installs and repairs that get under way
    None, Torn      \* no file; a file that has been truncated and not written

ASSUME InstallsAssumption == MaxInstalls \in Nat \ {0}
ASSUME FileAssumption == None \notin Nat /\ Torn \notin Nat /\ None # Torn

VARIABLES
    kind,           \* "server" or "agent"
    disk,           \* the installed binary and its configuration
    scm,            \* the service manager's record of the service
    proc,           \* the service process, or NoProc
    inst,           \* the installer
    intruded        \* somebody else started the service during this install

vars == <<kind, disk, scm, proc, inst, intruded>>

Gens == 1..MaxInstalls
Files == Gens \cup {None, Torn}
Installed(f) == f \notin {None, Torn}
NoProc == [main |-> "none"]
Steps == {"idle", "admin", "prepare", "stop", "stopped", "copy", "fill", "config", "write", "register",
          "start", "running", "verify", "state", "askstop", "delete", "clean"}

Disks == [exe : Files, config : Files]
Entries == [registered : BOOLEAN, marked : BOOLEAN, recovers : BOOLEAN, due : BOOLEAN,
            status : {"STOPPED", "START_PENDING", "RUNNING", "STOP_PENDING"}]
Processes == [main : {"dispatch", "spawned", "waiting"},
              worker : {"none", "config", "lock", "logger", "start", "serve", "close", "report", "done"},
              handler : {"idle", "stop", "pending"}, stopCh : BOOLEAN, holds : BOOLEAN,
              clean : BOOLEAN, image : Gens, loaded : Gens \cup {None}]
Installers == [task : {"install", "uninstall"}, step : Steps, admin : BOOLEAN, gen : 0..MaxInstalls,
               outcome : {"none", "ok", "failed"}, missed : BOOLEAN]

TypeOK ==
    /\ kind \in {"server", "agent"}
    /\ disk \in Disks
    /\ scm \in Entries
    /\ proc \in Processes \cup {NoProc}
    /\ inst \in Installers
    /\ intruded \in BOOLEAN

Init ==
    /\ kind \in {"server", "agent"}
    /\ disk = [exe |-> None, config |-> None]
    /\ scm = [registered |-> FALSE, marked |-> FALSE, recovers |-> FALSE, due |-> FALSE,
              status |-> "STOPPED"]
    /\ proc = NoProc
    /\ inst = [task |-> "install", step |-> "idle", admin |-> FALSE, gen |-> 0, outcome |-> "none",
               missed |-> FALSE]
    /\ intruded = FALSE

-----------------------------------------------------------------------------
(* The service manager (external).                                         *)

Startable == scm.registered /\ ~scm.marked /\ proc = NoProc
             /\ Installed(disk.exe) /\ inst.step # "fill"

Launched == [main |-> "dispatch", worker |-> "none", handler |-> "idle", stopCh |-> FALSE,
             holds |-> FALSE, clean |-> FALSE, image |-> disk.exe, loaded |-> None]

Launch ==
    /\ Startable
    /\ proc' = Launched
    /\ scm' = [scm EXCEPT !.status = "START_PENDING", !.due = FALSE]

\* What SetServiceStatus makes of the record.  Once the process has reported
\* STOPPED the service manager may take a further report or ignore it.
StatusAfter(s) ==
    {[scm EXCEPT !.status = s]} \cup (IF scm.status = "STOPPED" THEN {scm} ELSE {})

\* The process is gone.  A service that did not report STOPPED has failed,
\* and is due for a restart if sc.exe failure has set this up; one marked for
\* deletion leaves the database.
Gone(s) == [s EXCEPT !.status = "STOPPED",
                     !.due = s.status # "STOPPED" /\ s.recovers /\ ~s.marked,
                     !.registered = @ /\ ~s.marked, !.marked = FALSE]

\* A stop control is accepted in the RUNNING state only.
AskedToStop == IF proc # NoProc /\ scm.status = "RUNNING" /\ proc.handler = "idle"
               THEN [proc EXCEPT !.handler = "stop"] ELSE proc

\* The recovery actions, an operator, or the automatic start after a boot.
StartedByOther ==
    /\ Launch
    /\ intruded' = TRUE
    /\ UNCHANGED <<kind, disk, inst>>

StoppedByOther ==
    /\ AskedToStop # proc
    /\ proc' = AskedToStop
    /\ UNCHANGED <<kind, disk, scm, inst, intruded>>

Crash ==
    /\ proc # NoProc
    /\ proc.worker # "done"
    /\ proc' = NoProc
    /\ scm' = Gone(scm)
    /\ UNCHANGED <<kind, disk, inst, intruded>>

Reboot ==
    /\ proc' = NoProc
    /\ scm' = [Gone(scm) EXCEPT !.due = FALSE]
    /\ inst' = [inst EXCEPT !.step = "idle", !.outcome = IF inst.step = "idle" THEN @ ELSE "failed"]
    /\ UNCHANGED <<kind, disk, intruded>>

-----------------------------------------------------------------------------
(* The service process.                                                    *)

Threads(p) == proc' = p /\ UNCHANGED <<kind, disk, inst, intruded>>

\* serviceMain: START_PENDING, then the goroutine of run ...
serviceMain ==
    /\ proc.main = "dispatch"
    /\ scm' \in StatusAfter("START_PENDING")
    /\ Threads([proc EXCEPT !.main = "spawned", !.worker = "config"])

\* ... and RUNNING, however far run has got.
ReportRunning ==
    /\ proc.main = "spawned"
    /\ scm' \in StatusAfter("RUNNING")
    /\ Threads([proc EXCEPT !.main = "waiting"])

\* The stages of run up to the wait for stopCh, in their order.
serverRun == [config |-> "lock", lock |-> "start", start |-> "serve"]
agentRun == [config |-> "logger", logger |-> "start", start |-> "serve"]
Stages == IF kind = "server" THEN serverRun ELSE agentRun

\* Mutant: a failed stage keeps what earlier ones have acquired.
RunFailsHolding ==
    /\ proc # NoProc
    /\ proc.worker \in DOMAIN Stages
    /\ Threads([proc EXCEPT !.worker = "report"])
    /\ UNCHANGED scm

\* A stage fails, and the deferred calls release what is held.
RunFails ==
    /\ proc # NoProc
    /\ proc.worker \in DOMAIN Stages
    /\ Threads([proc EXCEPT !.worker = "report", !.holds = FALSE])
    /\ UNCHANGED scm

\* A configuration that is missing, or cannot be parsed, is an error.
LoadConfig(f) == Installed(f)

\* Mutant: a configuration that cannot be parsed is used.
RunReadsAnything ==
    /\ proc # NoProc
    /\ proc.worker \in DOMAIN Stages
    /\ Threads([proc EXCEPT !.worker = Stages[@],
                            !.loaded = IF proc.worker = "config" THEN disk.config ELSE @,
                            !.holds = @ \/ (kind = "server" /\ proc.worker \in {"lock", "start"})])
    /\ UNCHANGED scm

\* A stage succeeds.  From "lock" on the server holds the process lock, from
\* "start" on its port too.  The agent's connection is not followed here.
RunStage ==
    /\ proc # NoProc
    /\ proc.worker \in DOMAIN Stages
    /\ proc.worker = "config" => LoadConfig(disk.config)
    /\ Threads([proc EXCEPT !.worker = Stages[@],
                            !.loaded = IF proc.worker = "config" THEN disk.config ELSE @,
                            !.holds = @ \/ (kind = "server" /\ proc.worker \in {"lock", "start"})])
    /\ UNCHANGED scm

RunStops ==
    /\ proc # NoProc
    /\ proc.worker = "serve"
    /\ proc.stopCh
    /\ Threads([proc EXCEPT !.worker = "close"])
    /\ UNCHANGED scm

\* The server is stopped and the lock released; the agent is told to stop.
RunReleases ==
    /\ proc # NoProc
    /\ proc.worker = "close"
    /\ Threads([proc EXCEPT !.worker = "report", !.holds = FALSE, !.clean = TRUE])
    /\ UNCHANGED scm

ReportStopped ==
    /\ proc # NoProc
    /\ proc.worker = "report"
    /\ scm' \in StatusAfter("STOPPED")
    /\ Threads([proc EXCEPT !.worker = "done"])

\* doneCh is closed, the dispatcher returns, and the process ends.
RunServiceMode ==
    /\ proc # NoProc
    /\ proc.worker = "done"
    /\ scm' = Gone(scm)
    /\ Threads(NoProc)

\* Mutant: the handler stops the service before it reports STOP_PENDING.
HandlerStopsFirst ==
    /\ proc # NoProc
    /\ proc.handler = "stop"
    /\ \/ ~proc.stopCh /\ Threads([proc EXCEPT !.stopCh = TRUE]) /\ UNCHANGED scm
       \/ proc.stopCh /\ scm' \in StatusAfter("STOP_PENDING") /\ Threads([proc EXCEPT !.handler = "pending"])

\* serviceControlHandler: STOP_PENDING ...
serviceControlHandler ==
    /\ proc # NoProc
    /\ proc.handler = "stop"
    /\ scm' \in StatusAfter("STOP_PENDING")
    /\ Threads([proc EXCEPT !.handler = "pending"])

\* Mutant: a stop is lost unless run is waiting for it.
stopIfWaiting ==
    /\ proc # NoProc
    /\ proc.handler = "pending"
    /\ Threads([proc EXCEPT !.handler = "idle", !.stopCh = proc.worker = "serve"])
    /\ UNCHANGED scm

\* ... then stop closes stopCh.
stop ==
    /\ proc # NoProc
    /\ proc.handler = "pending"
    /\ Threads([proc EXCEPT !.handler = "idle", !.stopCh = TRUE])
    /\ UNCHANGED scm

-----------------------------------------------------------------------------
(* The installer.                                                          *)

\* Mutant: the service is configured and started before its configuration is
\* written.
serverInstallStartsEarly ==
    [admin |-> "prepare", prepare |-> "stop", stop |-> "stopped", stopped |-> "copy",
     copy |-> "fill", fill |-> "register", register |-> "start", start |-> "running",
     running |-> "config", config |-> "write", write |-> "idle"]

\* The order of InstallOrRepairService (server) and InstallOrRepair (agent),
\* which looks at the outcome once more.
serverInstall == [admin |-> "prepare", prepare |-> "stop", stop |-> "stopped", stopped |-> "copy",
                  copy |-> "fill", fill |-> "config", config |-> "write", write |-> "register",
                  register |-> "start", start |-> "running", running |-> "idle"]

agentInstall == [admin |-> "prepare", prepare |-> "stop", stop |-> "stopped", stopped |-> "copy",
                 copy |-> "fill", fill |-> "config", config |-> "write", write |-> "register",
                 register |-> "start", start |-> "running", running |-> "verify",
                 verify |-> "state", state |-> "idle"]

uninstallOrder == [admin |-> "askstop", askstop |-> "delete", delete |-> "clean", clean |-> "idle"]

Order == IF inst.task = "uninstall" THEN uninstallOrder
         ELSE IF kind = "server" THEN serverInstall ELSE agentInstall

At(s) == inst.step = s

\* serviceExists takes every failure of sc.exe query for a service that is not
\* there.
serviceExists == {scm.registered, FALSE}

\* The step is done: on to the next one, or to the end.
Advance(gen) ==
    inst' = [inst EXCEPT !.step = Order[@], !.gen = gen,
                         !.outcome = IF Order[inst.step] = "idle" THEN "ok" ELSE @]

\* Arguments: good ones, a port that is not positive, and for the agent a
\* server on the loopback address without --allow-loopback-server.
Options == {"good", "badport", "loopback"}
validateInstallOptions(opts) == opts # "badport"
validateInstallServer(opts) == opts # "loopback"
Accepted(opts) == validateInstallOptions(opts) /\ (kind = "agent" => validateInstallServer(opts))

\* main, for install, repair and uninstall: the arguments are checked before
\* anything is done.
Begin(task, opts) ==
    /\ At("idle")
    /\ inst' = IF task = "install" /\ ~Accepted(opts) THEN [inst EXCEPT !.task = task, !.outcome = "failed"]
               ELSE [inst EXCEPT !.task = task, !.step = "admin", !.admin = FALSE, !.outcome = "none",
                                      !.missed = FALSE]
    /\ intruded' = FALSE
    /\ UNCHANGED <<kind, disk, scm, proc>>

\* The agent's installer starts itself again with UAC, from the beginning and
\* with the same arguments, as often as net session fails: nothing bounds it.
RelaunchElevated == kind = "agent" /\ inst' = [inst EXCEPT !.admin = TRUE]

ensureAdmin ==
    /\ At("admin")
    /\ Advance(inst.gen) \/ RelaunchElevated
    /\ UNCHANGED <<kind, disk, scm, proc, intruded>>

\* From here on the files of this install have a number of their own.
prepare ==
    /\ At("prepare")
    /\ inst.gen < MaxInstalls
    /\ Advance(inst.gen + 1)
    /\ UNCHANGED <<kind, disk, scm, proc, intruded>>

\* stopServiceIfPresent: a service that is not found, or stopped, needs no
\* stop; otherwise, and also when its state cannot be read, the stop is asked
\* for, an error of sc.exe stop ignored, ...
stopServiceIfPresent ==
    /\ At("stop")
    /\ \E found \in serviceExists :
         \/ /\ found => scm.status = "STOPPED"
            /\ inst' = [inst EXCEPT !.step = "copy"]
            /\ UNCHANGED proc
         \/ /\ found
            /\ Advance(inst.gen)
            /\ proc' \in {proc, AskedToStop}
    /\ intruded' = FALSE
    /\ UNCHANGED <<kind, disk, scm>>

\* ... and waits for the state, for 20 s at most (otherwise it fails).
waitForServiceState ==
    /\ \/ At("stopped") /\ scm.registered /\ scm.status = "STOPPED"
       \/ At("running") /\ scm.status = "RUNNING"
    /\ Advance(inst.gen)
    /\ UNCHANGED <<kind, disk, scm, proc, intruded>>

\* copyFile.  Windows refuses to open the image of a running process for
\* writing: a service that has reported STOPPED may still be on its way out.
copyFile ==
    /\ \/ At("copy") /\ proc = NoProc /\ disk' = [disk EXCEPT !.exe = Torn]
       \/ At("fill") /\ disk' = [disk EXCEPT !.exe = inst.gen]
    /\ Advance(inst.gen)
    /\ UNCHANGED <<kind, scm, proc, intruded>>

\* Mutant: a repair keeps the configuration that is there.
KeepConfig ==
    /\ \/ At("config") /\ disk' = [disk EXCEPT !.config = IF Installed(@) THEN @ ELSE Torn]
       \/ At("write") /\ disk' = [disk EXCEPT !.config = IF Installed(@) THEN @ ELSE inst.gen]
    /\ Advance(inst.gen)
    /\ UNCHANGED <<kind, scm, proc, intruded>>

SaveServiceConfig ==
    /\ \/ At("config") /\ disk' = [disk EXCEPT !.config = Torn]
       \/ At("write") /\ disk' = [disk EXCEPT !.config = inst.gen]
    /\ Advance(inst.gen)
    /\ UNCHANGED <<kind, scm, proc, intruded>>

\* sc.exe config, or create when serviceExists finds no service (if it has
\* missed it, the creation is refused: Fail), then sc.exe failure, whose errors
\* are ignored.
Configure ==
    /\ At("register")
    /\ ~scm.marked
    /\ Advance(inst.gen)
    /\ \E recovers \in {TRUE, scm.recovers} :
         scm' = [scm EXCEPT !.registered = TRUE, !.recovers = recovers]
    /\ UNCHANGED <<kind, disk, proc, intruded>>

\* sc.exe start; that the service has been started already is no error.
startServiceAndWait ==
    /\ At("start")
    /\ \/ Launch
       \/ proc # NoProc /\ scm.status \in {"RUNNING", "START_PENDING"} /\ UNCHANGED <<scm, proc>>
    /\ Advance(inst.gen)
    /\ UNCHANGED <<kind, disk, intruded>>

\* The agent's installer reads the configuration back and asks for the state.
VerifyInstalled ==
    /\ \/ At("verify") /\ LoadConfig(disk.config)
       \/ At("state") /\ scm.status = "RUNNING"
    /\ Advance(inst.gen)
    /\ UNCHANGED <<kind, disk, scm, proc, intruded>>

\* Uninstall: the stop is asked for, an error of sc.exe stop is ignored, and
\* nothing waits for it.
AskStop ==
    /\ At("askstop")
    /\ proc' \in {proc, AskedToStop}
    /\ Advance(inst.gen)
    /\ UNCHANGED <<kind, disk, scm, intruded>>

\* Mutant: an error of sc.exe delete is ignored.
DeleteIgnored ==
    /\ At("delete")
    /\ scm' \in {[scm EXCEPT !.registered = proc # NoProc, !.marked = proc # NoProc], scm}
    /\ Advance(inst.gen)
    /\ UNCHANGED <<kind, disk, proc, intruded>>

\* A service that serviceExists finds is deleted: sc.exe delete removes it, or
\* marks it while its process lives.  One that it has missed stays as it is.
DeleteService ==
    /\ At("delete")
    /\ \E found \in serviceExists :
         /\ found => ~scm.marked
         /\ scm' = IF ~found THEN scm
                   ELSE [scm EXCEPT !.registered = proc # NoProc, !.marked = proc # NoProc, !.due = FALSE]
         /\ inst' = [inst EXCEPT !.step = Order[@], !.missed = scm.registered /\ ~found]
    /\ UNCHANGED <<kind, disk, proc, intruded>>

\* Errors are ignored: any file may stay, and the image of a running process
\* does.
RemoveFiles ==
    /\ At("clean")
    /\ disk' \in [exe : {disk.exe, None}, config : {disk.config, None}]
    /\ proc # NoProc => disk'.exe = disk.exe
    /\ Advance(inst.gen)
    /\ UNCHANGED <<kind, scm, proc, intruded>>

\* Any other call may fail, or a wait run out: the error is printed and the
\* installer exits, with nothing undone.
Fail ==
    /\ inst.step \notin {"idle", "askstop", "clean"}
    /\ inst' = [inst EXCEPT !.step = "idle", !.outcome = "failed"]
    /\ UNCHANGED <<kind, disk, scm, proc, intruded>>

-----------------------------------------------------------------------------
Process == serviceMain \/ ReportRunning \/ RunFails \/ RunStage \/ RunStops \/ RunReleases
           \/ ReportStopped \/ RunServiceMode \/ serviceControlHandler \/ stop

Installer == ensureAdmin \/ prepare \/ stopServiceIfPresent \/ waitForServiceState \/ copyFile
             \/ SaveServiceConfig \/ Configure \/ startServiceAndWait \/ VerifyInstalled
             \/ AskStop \/ DeleteService \/ RemoveFiles \/ Fail

Next ==
    \/ Process \/ Installer
    \/ \E task \in {"install", "uninstall"}, opts \in Options : Begin(task, opts)
    \/ StartedByOther \/ StoppedByOther \/ Crash \/ Reboot

Spec == Init /\ [][Next]_vars

\* The threads of the process run on.
FairSpec == Spec
            /\ WF_vars(serviceMain) /\ WF_vars(ReportRunning)
            /\ WF_vars(RunFails \/ RunStage \/ RunStops \/ RunReleases \/ ReportStopped \/ RunServiceMode)
            /\ WF_vars(serviceControlHandler \/ stop)

-----------------------------------------------------------------------------
(* Properties.                                                             *)

Succeeds(task) == inst.step # "idle" /\ inst'.step = "idle" /\ inst'.outcome = "ok" /\ inst.task = task

(***************************************************************************)
(* An install or repair that ends with "Installation terminee" has left a  *)
(* service that is registered and will stay so, with the binary and the    *)
(* configuration of this very install, none of them half-written, whatever *)
(* an earlier install, uninstall or reboot has left behind.                *)
(***************************************************************************)
InstalledIsComplete ==
    [][Succeeds("install") =>
         /\ scm.registered /\ ~scm.marked
         /\ disk'.exe = inst.gen /\ disk'.config = inst.gen]_vars

(***************************************************************************)
(* A repair replaces the old instance: when it succeeds, and nobody else   *)
(* has started the service since it asked for the stop, a process that     *)
(* lives runs the new binary and has not read an older configuration.      *)
(***************************************************************************)
NoStaleInstance ==
    [][Succeeds("install") /\ ~intruded /\ proc # NoProc =>
         proc.image = inst.gen /\ proc.loaded \in {None, inst.gen}]_vars

(***************************************************************************)
(* When the service manager shows STOPPED, the server's process lock and   *)
(* port are free, even if the process has not ended yet: the next start    *)
(* does not find its predecessor in the way.  The agent has no such        *)
(* promise: Stop closes the connection it has and not one that is being    *)
(* dialled.                                                                *)
(***************************************************************************)
StoppedIsReleased == kind = "server" /\ scm.status = "STOPPED" /\ proc # NoProc => ~proc.holds

(***************************************************************************)
(* A stop that was asked for and carried out is not taken for a failure:   *)
(* the service manager does not restart the service by its recovery        *)
(* actions.                                                                *)
(***************************************************************************)
StopSticks ==
    [][proc # NoProc /\ proc.worker = "done" /\ proc.clean /\ proc' = NoProc => ~scm'.due]_vars

(***************************************************************************)
(* After a successful uninstall the service never starts again until the   *)
(* next install, although the stop was not waited for and files may be     *)
(* left, unless serviceExists has missed the service: then uninstall       *)
(* succeeds without having deleted it.                                     *)
(***************************************************************************)
UninstalledStaysDown ==
    [][At("idle") /\ inst.task = "uninstall" /\ inst.outcome = "ok" /\ ~inst.missed =>
         ~(proc = NoProc /\ proc' # NoProc)]_vars

(***************************************************************************)
(* A stop control ends the process, at whatever stage of its start run is  *)
(* when the control arrives.                                               *)
(***************************************************************************)
StopIsHonoured == (proc # NoProc /\ proc.handler = "stop") ~> (proc = NoProc)
=============================================================================
