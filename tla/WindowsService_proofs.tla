----------------------- MODULE WindowsService_proofs -----------------------
(***************************************************************************)
(* The safety properties of WindowsService, for any number of installs.    *)
(***************************************************************************)
EXTENDS WindowsService, TLAPS

\* The service process: what is held at which stage, and in which order the
\* three threads report.
ProcInv ==
    /\ scm.status = "RUNNING" => proc # NoProc
    /\ proc # NoProc =>
         /\ scm.status = "STOPPED" => proc.worker = "done"
         /\ proc.main = "dispatch" => proc.worker = "none"
         /\ proc.worker \in {"report", "done"} => ~proc.holds
         /\ scm.status = "RUNNING" => proc.main = "waiting"
         /\ proc.handler # "idle" => proc.main = "waiting" /\ ~proc.stopCh
         /\ proc.handler = "pending" => scm.status \in {"STOP_PENDING", "STOPPED"}
         /\ proc.stopCh => /\ proc.main = "waiting" /\ proc.handler = "idle"
                           /\ scm.status \in {"STOP_PENDING", "STOPPED"}
         /\ proc.worker = "close" \/ proc.clean => proc.stopCh
         /\ proc.clean => proc.worker \in {"report", "done"}
         /\ proc.clean /\ proc.worker = "done" => scm.status = "STOPPED"

Registered == {"start", "running", "verify", "state"}
Configured == Registered \cup {"register"}
Copied == Configured \cup {"config", "write"}
Started == {"running", "verify", "state"}

\* The installer: what the steps behind it have achieved.
InstInv ==
    /\ inst.step \in Copied \cup {"prepare", "stop", "stopped", "copy", "fill"} => inst.task = "install"
    /\ inst.step \in {"askstop", "delete", "clean"} => inst.task = "uninstall"
    /\ inst.step \in {"verify", "state"} => kind = "agent"
    /\ inst.step \in Copied \cup {"stop", "stopped", "copy", "fill"} => inst.gen \in Gens
    /\ inst.step \in Copied => disk.exe = inst.gen
    /\ inst.step \in Configured => disk.config = inst.gen
    /\ inst.step \in Registered => scm.registered /\ ~scm.marked
    /\ ~intruded /\ inst.step \in (Copied \cup {"fill"}) \ Started => proc = NoProc
    /\ ~intruded /\ inst.step \in Started /\ proc # NoProc =>
         proc.image = inst.gen /\ proc.loaded \in {None, inst.gen}
    /\ inst.task = "uninstall" /\ ~inst.missed
         /\ (inst.step = "clean" \/ (inst.step = "idle" /\ inst.outcome = "ok")) =>
         ~scm.registered \/ scm.marked

IInv == TypeOK /\ ProcInv /\ InstInv

-----------------------------------------------------------------------------
\* What the tables of steps say of the step after the present one.
LEMMA OrderFacts ==
    ASSUME IInv
    PROVE /\ inst.step = "admin" => Order[inst.step] \in {"prepare", "askstop"}
          /\ inst.step = "admin" /\ Order[inst.step] = "prepare" => inst.task = "install"
          /\ inst.step = "admin" /\ Order[inst.step] = "askstop" => inst.task = "uninstall"
          /\ inst.step = "prepare" => Order[inst.step] = "stop"
          /\ inst.step = "stop" => Order[inst.step] = "stopped"
          /\ inst.step = "stopped" => Order[inst.step] = "copy"
          /\ inst.step = "copy" => Order[inst.step] = "fill"
          /\ inst.step = "fill" => Order[inst.step] = "config"
          /\ inst.step = "config" => Order[inst.step] = "write"
          /\ inst.step = "write" => Order[inst.step] = "register"
          /\ inst.step = "register" => Order[inst.step] = "start"
          /\ inst.step = "start" => Order[inst.step] = "running"
          /\ inst.step = "running" => Order[inst.step] \in {"idle", "verify"}
          /\ inst.step = "running" /\ Order[inst.step] = "verify" => kind = "agent"
          /\ inst.step = "verify" => Order[inst.step] = "state"
          /\ inst.step = "state" => Order[inst.step] = "idle"
          /\ inst.step = "askstop" => Order[inst.step] = "delete"
          /\ inst.step = "delete" => Order[inst.step] = "clean"
          /\ inst.step = "clean" => Order[inst.step] = "idle"
  BY DEF IInv, TypeOK, Installers, Steps, InstInv, Registered, Configured, Copied, Order, serverInstall, agentInstall, uninstallOrder


\* The records stay records of their types.
LEMMA RecordTypes ==
    ASSUME TypeOK
    PROVE  /\ Gone(scm) \in Entries
           /\ Gone(scm).status = "STOPPED"
           /\ [Gone(scm) EXCEPT !.due = FALSE] \in Entries
           /\ \A st \in {"STOPPED", "START_PENDING", "RUNNING", "STOP_PENDING"} :
                \A e \in StatusAfter(st) : e \in Entries
           /\ AskedToStop \in Processes \cup {NoProc}
           /\ Installed(disk.exe) => Launched \in Processes
<1>1. Gone(scm) \in Entries /\ Gone(scm).status = "STOPPED" /\ [Gone(scm) EXCEPT !.due = FALSE] \in Entries
  BY DEF TypeOK, Entries, Gone
<1>2. \A st \in {"STOPPED", "START_PENDING", "RUNNING", "STOP_PENDING"} : \A e \in StatusAfter(st) : e \in Entries
  BY DEF TypeOK, Entries, StatusAfter
<1>3. AskedToStop \in Processes \cup {NoProc}
  BY DEF TypeOK, Processes, AskedToStop
<1>4. Installed(disk.exe) => Launched \in Processes
  BY DEF TypeOK, Disks, Files, Processes, Launched, Installed
<1> QED BY <1>1, <1>2, <1>3, <1>4

\* A process is not the absence of one.
LEMMA ProcessIsThere == NoProc \notin Processes
  BY DEF NoProc, Processes

\* The next step of the installer is one of its steps.
LEMMA AdvanceType ==
    ASSUME IInv, NEW gen \in 0..MaxInstalls, Advance(gen), inst.step # "idle"
    PROVE  inst' \in Installers
<1>1. inst \in Installers /\ inst.step \in Steps
  BY DEF IInv, TypeOK, Installers
<1>2. Order[inst.step] \in Steps
  BY <1>1, OrderFacts DEF Steps
<1> QED BY <1>1, <1>2 DEF Installers, Advance

\* Each step of the service process preserves the invariant.
LEMMA ProcessStep ==
    ASSUME IInv, Process
    PROVE  IInv'
<1> USE FileAssumption, InstallsAssumption, ProcessIsThere DEF IInv
<1>1. CASE serviceMain
  <2>0. proc # NoProc /\ proc \in Processes /\ proc.worker = "none"
    BY <1>1 DEF TypeOK, ProcInv, NoProc, serviceMain
  <2>a. proc' = [proc EXCEPT !.main = "spawned", !.worker = "config"] /\ proc' \in Processes
    BY <1>1, <2>0 DEF serviceMain, Threads, Processes
  <2>b. scm' \in Entries /\ scm'.status = "START_PENDING"
    BY <1>1, <2>0 DEF TypeOK, ProcInv, Entries, serviceMain, StatusAfter
  <2>1. TypeOK'
    BY <1>1, <2>a, <2>b DEF TypeOK, serviceMain, Threads
  <2>c. /\ proc' # NoProc /\ proc'.main = "spawned" /\ proc'.worker = "config"
        /\ proc'.handler = proc.handler /\ proc'.stopCh = proc.stopCh /\ proc'.clean = proc.clean
    BY <2>0, <2>a DEF Processes
  <2>2. ProcInv'
    BY <1>1, <2>0, <2>b, <2>c DEF ProcInv, serviceMain
  <2>3. InstInv'
    BY <1>1, <2>0, <2>a, <2>b DEF TypeOK, InstInv, Processes, Entries, Installers, Registered, Configured, Copied, Started, serviceMain, Threads, StatusAfter, Gens
  <2> QED BY <2>1, <2>2, <2>3
<1>2. CASE ReportRunning
  <2>1. TypeOK'
    BY <1>2, RecordTypes DEF TypeOK, NoProc, ReportRunning, Threads, Processes
  <2>2. ProcInv'
    BY <1>2 DEF TypeOK, ProcInv, NoProc, Processes, Entries, ReportRunning, Threads, StatusAfter
  <2>3. InstInv'
    BY <1>2 DEF TypeOK, InstInv, NoProc, Processes, Entries, Installers, Disks, Registered, Configured, Copied, Started, ReportRunning, Threads, StatusAfter, Gens
  <2> QED BY <2>1, <2>2, <2>3
<1>3. CASE RunFails
  <2>1. TypeOK'
    BY <1>3, RecordTypes DEF TypeOK, NoProc, RunFails, Threads, Processes
  <2>2. ProcInv'
    BY <1>3 DEF TypeOK, ProcInv, NoProc, Processes, Entries, RunFails, Threads, Stages, serverRun, agentRun
  <2>3. InstInv'
    BY <1>3 DEF TypeOK, InstInv, NoProc, Processes, Entries, Installers, Disks, Registered, Configured, Copied, Started, RunFails, Threads, Stages, serverRun, agentRun, Gens
  <2> QED BY <2>1, <2>2, <2>3
<1>4. CASE RunStage
  <2>0. proc # NoProc /\ proc \in Processes
    BY <1>4 DEF TypeOK, RunStage
  <2>a. proc.worker \in {"config", "lock", "logger", "start"}
        /\ Stages[proc.worker] \in {"lock", "logger", "start", "serve"}
    BY <1>4 DEF RunStage, Stages, serverRun, agentRun
  <2>b. (IF proc.worker = "config" THEN disk.config ELSE proc.loaded) \in Gens \cup {None}
    BY <1>4, <2>0 DEF TypeOK, Disks, Files, Processes, RunStage, Installed, LoadConfig
  <2>c. proc' \in Processes /\ proc' # NoProc
    BY <1>4, <2>0, <2>a, <2>b DEF Processes, RunStage, Threads
  <2>d. /\ proc'.worker \in {"lock", "logger", "start", "serve"}
        /\ proc'.main = proc.main /\ proc'.handler = proc.handler /\ proc'.stopCh = proc.stopCh
        /\ proc'.clean = proc.clean /\ proc'.image = proc.image
        /\ proc'.loaded \in {proc.loaded, disk.config} /\ scm' = scm
    BY <1>4, <2>0, <2>a DEF Processes, RunStage, Threads
  <2>1. TypeOK'
    BY <1>4, <2>c DEF TypeOK, RunStage, Threads
  <2>2. ProcInv'
    BY <2>0, <2>a, <2>c, <2>d DEF ProcInv
  <2>3. InstInv'
    BY <1>4, <2>0, <2>c, <2>d DEF TypeOK, InstInv, Registered, Configured, Copied, Started, RunStage, Threads
  <2> QED BY <2>1, <2>2, <2>3
<1>5. CASE RunStops
  <2>1. TypeOK'
    BY <1>5, RecordTypes DEF TypeOK, NoProc, RunStops, Threads, Processes
  <2>2. ProcInv'
    BY <1>5 DEF TypeOK, ProcInv, NoProc, Processes, Entries, RunStops, Threads
  <2>3. InstInv'
    BY <1>5 DEF TypeOK, InstInv, NoProc, Processes, Entries, Installers, Disks, Registered, Configured, Copied, Started, RunStops, Threads, Gens
  <2> QED BY <2>1, <2>2, <2>3
<1>6. CASE RunReleases
  <2>1. TypeOK'
    BY <1>6, RecordTypes DEF TypeOK, NoProc, RunReleases, Threads, Processes
  <2>2. ProcInv'
    BY <1>6 DEF TypeOK, ProcInv, NoProc, Processes, Entries, RunReleases, Threads
  <2>3. InstInv'
    BY <1>6 DEF TypeOK, InstInv, NoProc, Processes, Entries, Installers, Disks, Registered, Configured, Copied, Started, RunReleases, Threads, Gens
  <2> QED BY <2>1, <2>2, <2>3
<1>7. CASE ReportStopped
  <2>1. TypeOK'
    BY <1>7, RecordTypes DEF TypeOK, NoProc, ReportStopped, Threads, Processes
  <2>2. ProcInv'
    BY <1>7 DEF TypeOK, ProcInv, NoProc, Processes, Entries, ReportStopped, Threads, StatusAfter
  <2>3. InstInv'
    BY <1>7 DEF TypeOK, InstInv, NoProc, Processes, Entries, Installers, Disks, Registered, Configured, Copied, Started, ReportStopped, Threads, StatusAfter, Gens
  <2> QED BY <2>1, <2>2, <2>3
<1>8. CASE RunServiceMode
  <2>1. TypeOK'
    BY <1>8, RecordTypes DEF TypeOK, NoProc, RunServiceMode, Threads
  <2>2. ProcInv'
    BY <1>8 DEF TypeOK, ProcInv, NoProc, Processes, Entries, RunServiceMode, Threads, Gone
  <2>3. InstInv'
    BY <1>8 DEF TypeOK, InstInv, NoProc, Processes, Entries, Installers, Disks, Registered, Configured, Copied, Started, RunServiceMode, Threads, Gone, Gens
  <2> QED BY <2>1, <2>2, <2>3
<1>9. CASE serviceControlHandler
  <2>1. TypeOK'
    BY <1>9, RecordTypes DEF TypeOK, NoProc, serviceControlHandler, Threads, Processes
  <2>2. ProcInv'
    BY <1>9 DEF TypeOK, ProcInv, NoProc, Processes, Entries, serviceControlHandler, Threads, StatusAfter
  <2>3. InstInv'
    BY <1>9 DEF TypeOK, InstInv, NoProc, Processes, Entries, Installers, Disks, Registered, Configured, Copied, Started, serviceControlHandler, Threads, StatusAfter, Gens
  <2> QED BY <2>1, <2>2, <2>3
<1>10. CASE stop
  <2>1. TypeOK'
    BY <1>10, RecordTypes DEF TypeOK, NoProc, stop, Threads, Processes
  <2>2. ProcInv'
    BY <1>10 DEF TypeOK, ProcInv, NoProc, Processes, Entries, stop, Threads
  <2>3. InstInv'
    BY <1>10 DEF TypeOK, InstInv, NoProc, Processes, Entries, Installers, Disks, Registered, Configured, Copied, Started, stop, Threads, Gens
  <2> QED BY <2>1, <2>2, <2>3
<1> QED BY <1>1, <1>2, <1>3, <1>4, <1>5, <1>6, <1>7, <1>8, <1>9, <1>10 DEF Process

\* So does each step of the service manager and the machine.
LEMMA OutsideStep ==
    ASSUME IInv, StartedByOther \/ StoppedByOther \/ Crash \/ Reboot
    PROVE  IInv'
<1> USE FileAssumption, InstallsAssumption, ProcessIsThere DEF IInv
<1>1. CASE StartedByOther
  <2>1. TypeOK'
    BY <1>1, RecordTypes DEF TypeOK, NoProc, StartedByOther, Entries, Launch, Startable
  <2>2. ProcInv'
    BY <1>1 DEF TypeOK, ProcInv, NoProc, Processes, Entries, StartedByOther, Threads, Launch, Startable, Launched, Installed
  <2>3. InstInv'
    BY <1>1 DEF TypeOK, InstInv, NoProc, Processes, Entries, Installers, Disks, Registered, Configured, Copied, Started, StartedByOther, Threads, Launch, Startable, Launched, Installed, Gens
  <2> QED BY <2>1, <2>2, <2>3
<1>2. CASE StoppedByOther
  <2>1. TypeOK'
    BY <1>2, RecordTypes DEF TypeOK, NoProc, StoppedByOther
  <2>2. ProcInv'
    BY <1>2 DEF TypeOK, ProcInv, NoProc, Processes, Entries, StoppedByOther, Threads, AskedToStop
  <2>3. InstInv'
    BY <1>2 DEF TypeOK, InstInv, NoProc, Processes, Entries, Installers, Disks, Registered, Configured, Copied, Started, StoppedByOther, Threads, AskedToStop, Gens
  <2> QED BY <2>1, <2>2, <2>3
<1>3. CASE Crash
  <2>1. TypeOK'
    BY <1>3, RecordTypes DEF TypeOK, NoProc, Crash
  <2>2. ProcInv'
    BY <1>3 DEF TypeOK, ProcInv, NoProc, Processes, Entries, Crash, Threads, Gone
  <2>3. InstInv'
    BY <1>3 DEF TypeOK, InstInv, NoProc, Processes, Entries, Installers, Disks, Registered, Configured, Copied, Started, Crash, Threads, Gone, Gens
  <2> QED BY <2>1, <2>2, <2>3
<1>4. CASE Reboot
  <2>1. TypeOK'
    BY <1>4, RecordTypes DEF TypeOK, NoProc, Reboot, Installers, Steps
  <2>2. ProcInv'
    BY <1>4 DEF TypeOK, ProcInv, NoProc, Processes, Entries, Reboot, Threads, Gone
  <2>3. InstInv'
    BY <1>4 DEF TypeOK, InstInv, NoProc, Processes, Entries, Installers, Disks, Registered, Configured, Copied, Started, Reboot, Threads, Gone, Gens
  <2> QED BY <2>1, <2>2, <2>3
<1> QED BY <1>1, <1>2, <1>3, <1>4

\* And each step of the installer.
LEMMA InstallerStep ==
    ASSUME IInv, Installer
    PROVE  IInv'
<1> USE FileAssumption, InstallsAssumption, ProcessIsThere DEF IInv
<1>1. CASE ensureAdmin
  <2>0. inst' \in Installers
    <3>1. CASE Advance(inst.gen)
      BY <1>1, <3>1, AdvanceType DEF TypeOK, Installers, ensureAdmin, RelaunchElevated, At
    <3>2. CASE inst' = [inst EXCEPT !.admin = TRUE]
      BY <3>2 DEF TypeOK, Installers, Steps
    <3> QED BY <1>1, <3>1, <3>2 DEF ensureAdmin, RelaunchElevated
  <2>1. TypeOK'
    BY <2>0, <1>1, RecordTypes DEF TypeOK, ensureAdmin
  <2>2. ProcInv'
    BY <1>1, OrderFacts DEF TypeOK, ProcInv, NoProc, Processes, Entries, ensureAdmin, RelaunchElevated, At, Advance
  <2>3. InstInv'
    BY <1>1, OrderFacts DEF TypeOK, InstInv, NoProc, Processes, Entries, Installers, Disks, Registered, Configured, Copied, Started, ensureAdmin, RelaunchElevated, At, Advance, Gens
  <2> QED BY <2>1, <2>2, <2>3
<1>2. CASE prepare
  <2>0. inst' \in Installers
    BY <1>2, AdvanceType DEF TypeOK, Installers, prepare, At
  <2>1. TypeOK'
    BY <2>0, <1>2, RecordTypes DEF TypeOK, prepare, At
  <2>2. ProcInv'
    BY <1>2, OrderFacts DEF TypeOK, ProcInv, NoProc, Processes, Entries, prepare, At, Advance
  <2>3. InstInv'
    BY <1>2, OrderFacts DEF TypeOK, InstInv, NoProc, Processes, Entries, Installers, Disks, Registered, Configured, Copied, Started, prepare, At, Advance, Gens
  <2> QED BY <2>1, <2>2, <2>3
<1>3. CASE stopServiceIfPresent
  <2>0. inst' \in Installers
    <3>1. CASE Advance(inst.gen)
      BY <1>3, <3>1, AdvanceType DEF TypeOK, Installers, stopServiceIfPresent, serviceExists, At
    <3>2. CASE inst' = [inst EXCEPT !.step = "copy"]
      BY <3>2 DEF TypeOK, Installers, Steps
    <3> QED BY <1>3, <3>1, <3>2 DEF stopServiceIfPresent
  <2>1. TypeOK'
    BY <2>0, <1>3, RecordTypes DEF TypeOK, stopServiceIfPresent
  <2>2. ProcInv'
    BY <1>3, OrderFacts DEF TypeOK, ProcInv, NoProc, Processes, Entries, stopServiceIfPresent, serviceExists, At, Advance, AskedToStop
  <2>3. InstInv'
    <3>1. inst'.step \in {"copy", "stopped"} /\ inst'.gen = inst.gen /\ inst'.task = inst.task /\ inst.step = "stop"
      BY <1>3, OrderFacts DEF TypeOK, Installers, stopServiceIfPresent, serviceExists, At, Advance
    <3> QED BY <1>3, <3>1 DEF InstInv, Registered, Configured, Copied, Started, stopServiceIfPresent
  <2> QED BY <2>1, <2>2, <2>3
<1>4. CASE waitForServiceState
  <2>0. inst' \in Installers
    BY <1>4, AdvanceType DEF TypeOK, Installers, waitForServiceState, At
  <2>1. TypeOK'
    BY <2>0, <1>4, RecordTypes DEF TypeOK, waitForServiceState, At
  <2>2. ProcInv'
    BY <1>4, OrderFacts DEF TypeOK, ProcInv, NoProc, Processes, Entries, waitForServiceState, At, Advance
  <2>3. InstInv'
    BY <1>4, OrderFacts DEF TypeOK, InstInv, NoProc, Processes, Entries, Installers, Disks, Registered, Configured, Copied, Started, waitForServiceState, At, Advance, Gens
  <2> QED BY <2>1, <2>2, <2>3
<1>5. CASE copyFile
  <2>0. inst' \in Installers
    BY <1>5, AdvanceType DEF TypeOK, Installers, copyFile, At
  <2>1. TypeOK'
    BY <2>0, <1>5, RecordTypes DEF TypeOK, copyFile, At, Disks, Files, InstInv, Copied, Configured, Registered, Gens
  <2>2. ProcInv'
    BY <1>5, OrderFacts DEF TypeOK, ProcInv, NoProc, Processes, Entries, copyFile, At, Advance
  <2>3. InstInv'
    BY <1>5, OrderFacts DEF TypeOK, InstInv, NoProc, Processes, Entries, Installers, Disks, Registered, Configured, Copied, Started, copyFile, At, Advance, Gens
  <2> QED BY <2>1, <2>2, <2>3
<1>6. CASE SaveServiceConfig
  <2>0. inst' \in Installers
    BY <1>6, AdvanceType DEF TypeOK, Installers, SaveServiceConfig, At
  <2>1. TypeOK'
    BY <2>0, <1>6, RecordTypes DEF TypeOK, SaveServiceConfig, At, Disks, Files, InstInv, Copied, Configured, Registered, Gens
  <2>2. ProcInv'
    BY <1>6, OrderFacts DEF TypeOK, ProcInv, NoProc, Processes, Entries, SaveServiceConfig, At, Advance
  <2>3. InstInv'
    BY <1>6, OrderFacts DEF TypeOK, InstInv, NoProc, Processes, Entries, Installers, Disks, Registered, Configured, Copied, Started, SaveServiceConfig, At, Advance, Gens
  <2> QED BY <2>1, <2>2, <2>3
<1>7. CASE Configure
  <2>0. inst' \in Installers
    BY <1>7, AdvanceType DEF TypeOK, Installers, Configure, At
  <2>1. TypeOK'
    BY <2>0, <1>7, RecordTypes DEF TypeOK, Configure, At, Entries
  <2>2. ProcInv'
    BY <1>7, OrderFacts DEF TypeOK, ProcInv, NoProc, Processes, Entries, Configure, At, Advance
  <2>3. InstInv'
    BY <1>7, OrderFacts DEF TypeOK, InstInv, NoProc, Processes, Entries, Installers, Disks, Registered, Configured, Copied, Started, Configure, At, Advance, Gens
  <2> QED BY <2>1, <2>2, <2>3
<1>8. CASE startServiceAndWait
  <2>0. inst' \in Installers
    BY <1>8, AdvanceType DEF TypeOK, Installers, startServiceAndWait, At
  <2>1. TypeOK'
    BY <2>0, <1>8, RecordTypes DEF TypeOK, startServiceAndWait, At, Entries, Launch, Startable
  <2>d. /\ inst.step = "start" /\ inst.task = "install"
        /\ scm.registered /\ ~scm.marked /\ inst.gen \in Gens
        /\ disk.exe = inst.gen /\ disk.config = inst.gen /\ (~intruded => proc = NoProc)
    BY <1>8 DEF InstInv, Registered, Configured, Copied, Started, startServiceAndWait, At
  <2>a. inst'.step = "running" /\ inst'.gen = inst.gen /\ inst'.task = "install"
    BY <1>8, <2>d, OrderFacts DEF TypeOK, Installers, startServiceAndWait, Advance
  <2>e. kind' = kind /\ disk' = disk /\ intruded' = intruded
    BY <1>8 DEF startServiceAndWait
  <2>b. CASE Launch
    <3>1. scm'.status = "START_PENDING" /\ scm'.registered = scm.registered /\ scm'.marked = scm.marked
      BY <2>b DEF TypeOK, Entries, Launch
    <3>2. ProcInv'
      BY <2>b, <3>1 DEF ProcInv, NoProc, Launch, Launched
    <3>3. proc' # NoProc /\ proc'.image = disk.exe /\ proc'.loaded = None
      BY <2>b DEF NoProc, Launch, Launched
    <3>4. InstInv'
      BY <2>a, <2>d, <2>e, <3>1, <3>3 DEF InstInv, Registered, Configured, Copied, Started
    <3> QED BY <2>1, <3>2, <3>4
  <2>c. CASE proc # NoProc /\ UNCHANGED <<scm, proc>>
    <3>1. ProcInv'
      BY <2>c DEF ProcInv
    <3>2. InstInv'
      BY <2>a, <2>c, <2>d, <2>e DEF InstInv, Registered, Configured, Copied, Started
    <3> QED BY <2>1, <3>1, <3>2
  <2> QED BY <1>8, <2>1, <2>b, <2>c DEF startServiceAndWait
<1>9. CASE VerifyInstalled
  <2>0. inst' \in Installers
    BY <1>9, AdvanceType DEF TypeOK, Installers, VerifyInstalled, At
  <2>1. TypeOK'
    BY <2>0, <1>9, RecordTypes DEF TypeOK, VerifyInstalled, At
  <2>2. ProcInv'
    BY <1>9, OrderFacts DEF TypeOK, ProcInv, NoProc, Processes, Entries, VerifyInstalled, At, Advance, Installed
  <2>3. InstInv'
    BY <1>9, OrderFacts DEF TypeOK, InstInv, NoProc, Processes, Entries, Installers, Disks, Registered, Configured, Copied, Started, VerifyInstalled, At, Advance, Installed, Gens
  <2> QED BY <2>1, <2>2, <2>3
<1>10. CASE AskStop
  <2>0. inst' \in Installers
    BY <1>10, AdvanceType DEF TypeOK, Installers, AskStop, At
  <2>1. TypeOK'
    BY <2>0, <1>10, RecordTypes DEF TypeOK, AskStop, At
  <2>2. ProcInv'
    BY <1>10, OrderFacts DEF TypeOK, ProcInv, NoProc, Processes, Entries, AskStop, At, Advance, AskedToStop
  <2>3. InstInv'
    BY <1>10, OrderFacts DEF TypeOK, InstInv, NoProc, Processes, Entries, Installers, Disks, Registered, Configured, Copied, Started, AskStop, At, Advance, AskedToStop, Gens
  <2> QED BY <2>1, <2>2, <2>3
<1>11. CASE DeleteService
  <2>0. inst' \in Installers
    <3>1. Order[inst.step] \in Steps
      BY <1>11, OrderFacts DEF Steps, DeleteService, At
    <3> QED BY <1>11, <3>1 DEF TypeOK, Installers, DeleteService, serviceExists, Entries
  <2>1. TypeOK'
    BY <2>0, <1>11, RecordTypes DEF TypeOK, DeleteService, serviceExists, At, Entries
  <2>2. ProcInv'
    BY <1>11, OrderFacts DEF TypeOK, ProcInv, NoProc, Processes, Entries, DeleteService, serviceExists, At, Advance
  <2>3. InstInv'
    BY <1>11, OrderFacts DEF TypeOK, InstInv, NoProc, Processes, Entries, Installers, Disks, Registered, Configured, Copied, Started, DeleteService, serviceExists, At, Advance, Gens
  <2> QED BY <2>1, <2>2, <2>3
<1>12. CASE RemoveFiles
  <2>0. inst' \in Installers
    BY <1>12, AdvanceType DEF TypeOK, Installers, RemoveFiles, At
  <2>1. TypeOK'
    BY <2>0, <1>12, RecordTypes DEF TypeOK, RemoveFiles, At, Disks, Files
  <2>2. ProcInv'
    BY <1>12, OrderFacts DEF TypeOK, ProcInv, NoProc, Processes, Entries, RemoveFiles, At, Advance
  <2>3. InstInv'
    BY <1>12, OrderFacts DEF TypeOK, InstInv, NoProc, Processes, Entries, Installers, Disks, Registered, Configured, Copied, Started, RemoveFiles, At, Advance, Gens
  <2> QED BY <2>1, <2>2, <2>3
<1>13. CASE Fail
  <2>1. TypeOK'
    BY <1>13 DEF TypeOK, Installers, Steps, Fail
  <2>2. ProcInv'
    BY <1>13, OrderFacts DEF TypeOK, ProcInv, NoProc, Processes, Entries, Fail, At, Advance
  <2>3. InstInv'
    BY <1>13, OrderFacts DEF TypeOK, InstInv, NoProc, Processes, Entries, Installers, Disks, Registered, Configured, Copied, Started, Fail, At, Advance, Gens
  <2> QED BY <2>1, <2>2, <2>3
<1> QED BY <1>1, <1>2, <1>3, <1>4, <1>5, <1>6, <1>7, <1>8, <1>9, <1>10, <1>11, <1>12, <1>13 DEF Installer

\* And the start of an installer, whose arguments are refused or accepted.
LEMMA BeginStep ==
    ASSUME IInv, NEW task \in {"install", "uninstall"}, NEW opts \in Options, Begin(task, opts)
    PROVE  IInv'
<1> USE DEF IInv
<1>1. /\ inst' \in Installers /\ inst'.step \in {"idle", "admin"}
      /\ inst'.step = "idle" => inst'.outcome = "failed"
  BY DEF TypeOK, Installers, Steps, Begin, At
<1>2. UNCHANGED <<kind, disk, scm, proc>> /\ intruded' = FALSE
  BY DEF Begin
<1>3. TypeOK'
  BY <1>1, <1>2 DEF TypeOK
<1>4. ProcInv'
  BY <1>2 DEF ProcInv
<1>5. InstInv'
  BY <1>1, <1>2 DEF InstInv, Registered, Configured, Copied, Started
<1> QED BY <1>3, <1>4, <1>5

\* The invariant holds in every reachable state.
LEMMA Inductive == Spec => []IInv
<1>1. Init => IInv
  <2> SUFFICES ASSUME Init PROVE IInv
    OBVIOUS
  <2>1. TypeOK
    <3>1. disk \in Disks /\ scm \in Entries
      BY DEF Init, Disks, Files, Entries
    <3>2. 0 \in 0..MaxInstalls
      BY InstallsAssumption
    <3>3. inst \in Installers
      BY <3>2 DEF Init, Installers, Steps
    <3> QED BY <3>1, <3>3 DEF Init, TypeOK
  <2>2. ProcInv
    BY DEF Init, ProcInv
  <2>3. InstInv
    BY DEF Init, InstInv, Registered, Configured, Copied, Started
  <2> QED BY <2>1, <2>2, <2>3 DEF IInv
<1>2. IInv /\ [Next]_vars => IInv'
  <2> SUFFICES ASSUME IInv, [Next]_vars PROVE IInv'
    OBVIOUS
  <2>1. CASE Process
    BY <2>1, ProcessStep
  <2>2. CASE Installer
    BY <2>2, InstallerStep
  <2>3. CASE \E task \in {"install", "uninstall"}, opts \in Options : Begin(task, opts)
    BY <2>3, BeginStep
  <2>4. CASE StartedByOther \/ StoppedByOther \/ Crash \/ Reboot
    BY <2>4, OutsideStep
  <2>5. CASE UNCHANGED vars
    BY <2>5 DEF vars, IInv, TypeOK, ProcInv, InstInv, AskedToStop
  <2> QED BY <2>1, <2>2, <2>3, <2>4, <2>5 DEF Next
<1> QED BY <1>1, <1>2, PTL DEF Spec

-----------------------------------------------------------------------------
(***************************************************************************)
(* The state of installer, service manager and process stays well formed   *)
(* for every number of installs; in particular run never serves with a     *)
(* configuration that is missing or half-written (LoadServiceConfig).      *)
(***************************************************************************)
THEOREM TypeCorrect == Spec => []TypeOK
<1>1. IInv => TypeOK
  BY DEF IInv
<1> QED BY Inductive, <1>1, PTL

(***************************************************************************)
(* The server reports STOPPED only when it has released the lock and the   *)
(* port: run's deferred calls come before serviceMain's report.            *)
(***************************************************************************)
THEOREM ReleasedWhenStopped == Spec => []StoppedIsReleased
<1>1. IInv => StoppedIsReleased
  BY DEF IInv, ProcInv, StoppedIsReleased
<1> QED BY Inductive, <1>1, PTL

(***************************************************************************)
(* A stop that was asked for and carried out triggers no recovery action:  *)
(* STOPPED is the last report of the three threads.                        *)
(***************************************************************************)
THEOREM StopIsFinal == Spec => StopSticks
<1>1. IInv /\ [Next]_vars => [proc # NoProc /\ proc.worker = "done" /\ proc.clean /\ proc' = NoProc
                               => ~scm'.due]_vars
  <2> SUFFICES ASSUME IInv, Next, proc # NoProc, proc.worker = "done", proc.clean, proc' = NoProc
               PROVE  ~scm'.due
    BY DEF vars
  <2>1. scm.status = "STOPPED" /\ scm \in Entries
    BY DEF IInv, ProcInv, TypeOK
  <2>2. ~Gone(scm).due /\ ~[Gone(scm) EXCEPT !.due = FALSE].due
    BY <2>1 DEF Gone, Entries
  <2>3. CASE Process
    <3>1. CASE RunServiceMode
      BY <2>2, <3>1 DEF RunServiceMode
    <3>2. CASE Process /\ ~RunServiceMode
      <4>1. proc' \in Processes \/ proc.main # "waiting"
        BY <3>2, ProcessIsThere DEF Process, IInv, TypeOK, ProcInv, Processes, serviceMain, ReportRunning,
           RunFails, RunStage, RunStops, RunReleases, ReportStopped, serviceControlHandler, stop, Threads,
           Stages, serverRun, agentRun
      <4> QED BY <4>1, ProcessIsThere DEF IInv, ProcInv
    <3> QED BY <2>3, <3>1, <3>2
  <2>4. CASE Installer
    <3>1. proc' \in {proc, AskedToStop, Launched}
      BY <2>4 DEF Installer, ensureAdmin, RelaunchElevated, prepare, stopServiceIfPresent, waitForServiceState, copyFile,
         SaveServiceConfig, Configure, startServiceAndWait, Launch, VerifyInstalled, AskStop, DeleteService,
         RemoveFiles, Fail
    <3>2. AskedToStop # NoProc /\ Launched # NoProc
      BY DEF AskedToStop, Launched, NoProc, IInv, TypeOK, Processes
    <3> QED BY <3>1, <3>2
  <2>5. CASE \E task \in {"install", "uninstall"}, opts \in Options : Begin(task, opts)
    BY <2>5 DEF Begin
  <2>6. CASE StartedByOther
    BY <2>6 DEF StartedByOther, Launch, Startable
  <2>7. CASE StoppedByOther \/ Crash \/ Reboot
    BY <2>2, <2>7 DEF StoppedByOther, AskedToStop, Crash, Reboot, NoProc, IInv, TypeOK, Processes
  <2> QED BY <2>3, <2>4, <2>5, <2>6, <2>7 DEF Next
<1> QED BY Inductive, <1>1, PTL DEF Spec, StopSticks

\* What the end of an installer's work looks like.
LEMMA LastStep ==
    ASSUME IInv, Next, Succeeds("install")
    PROVE  /\ inst.step \in {"running", "state"}
           /\ UNCHANGED <<disk, scm, proc, intruded>>
<1> USE DEF IInv
<1>1. inst.step # "idle" /\ inst'.step = "idle" /\ inst'.outcome = "ok" /\ inst.task = "install"
  BY DEF Succeeds
<1>2. inst' # inst /\ inst'.outcome # "failed"
  BY <1>1
<1>3. Installer
  BY <1>1, <1>2 DEF Next, Process, serviceMain, ReportRunning, RunFails, RunStage, RunStops, RunReleases,
     ReportStopped, RunServiceMode, serviceControlHandler, stop, Threads, Begin, At, StartedByOther,
     StoppedByOther, Crash, Reboot, TypeOK, Installers
<1>4. waitForServiceState \/ VerifyInstalled
  BY <1>1, <1>2, <1>3, OrderFacts DEF Installer, ensureAdmin, RelaunchElevated, prepare, stopServiceIfPresent, copyFile,
     SaveServiceConfig, Configure, startServiceAndWait, AskStop, DeleteService, RemoveFiles, Fail, At,
     Advance, TypeOK, Installers, InstInv
<1> QED BY <1>1, <1>4, OrderFacts DEF waitForServiceState, VerifyInstalled, At, Advance, TypeOK, Installers

(***************************************************************************)
(* A successful install or repair leaves a registered service with the     *)
(* binary and the configuration of this install, for every number of       *)
(* installs, uninstalls, failures and reboots before it.                   *)
(***************************************************************************)
THEOREM InstallCompletes == Spec => InstalledIsComplete
<1>1. IInv /\ [Next]_vars => [Succeeds("install") =>
         /\ scm.registered /\ ~scm.marked
         /\ disk'.exe = inst.gen /\ disk'.config = inst.gen]_vars
  BY LastStep DEF IInv, InstInv, Registered, Configured, Copied
<1> QED BY Inductive, <1>1, PTL DEF Spec, InstalledIsComplete

(***************************************************************************)
(* Unless somebody else has started the service meanwhile, no process of   *)
(* an older binary or with an older configuration outlives a successful    *)
(* repair.                                                                 *)
(***************************************************************************)
THEOREM RepairReplaces == Spec => NoStaleInstance
<1>1. IInv /\ [Next]_vars => [Succeeds("install") /\ ~intruded /\ proc # NoProc =>
         proc.image = inst.gen /\ proc.loaded \in {None, inst.gen}]_vars
  BY LastStep DEF IInv, InstInv, Started
<1> QED BY Inductive, <1>1, PTL DEF Spec, NoStaleInstance

(***************************************************************************)
(* A successful uninstall whose serviceExists saw the service is final:    *)
(* nothing but the next install makes the service start again.             *)
(***************************************************************************)
THEOREM UninstallIsFinal == Spec => UninstalledStaysDown
<1>1. IInv /\ [Next]_vars =>
        [At("idle") /\ inst.task = "uninstall" /\ inst.outcome = "ok" /\ ~inst.missed =>
           ~(proc = NoProc /\ proc' # NoProc)]_vars
  <2> SUFFICES ASSUME IInv, Next, At("idle"), inst.task = "uninstall", inst.outcome = "ok", ~inst.missed,
                      proc = NoProc, proc' # NoProc
               PROVE  FALSE
    BY DEF vars
  <2>1. ~scm.registered \/ scm.marked
    BY DEF IInv, InstInv, At
  <2>2. CASE Process
    BY <2>2 DEF Process, serviceMain, ReportRunning, RunFails, RunStage, RunStops, RunReleases,
       ReportStopped, RunServiceMode, serviceControlHandler, stop, NoProc
  <2>3. CASE Installer
    BY <2>3 DEF Installer, ensureAdmin, RelaunchElevated, prepare, stopServiceIfPresent, waitForServiceState, copyFile,
       SaveServiceConfig, Configure, startServiceAndWait, VerifyInstalled, AskStop, DeleteService,
       RemoveFiles, Fail, At
  <2>4. CASE StartedByOther
    BY <2>1, <2>4 DEF StartedByOther, Launch, Startable
  <2>5. CASE StoppedByOther \/ Crash \/ Reboot \/ \E task \in {"install", "uninstall"}, opts \in Options : Begin(task, opts)
    BY <2>5 DEF StoppedByOther, AskedToStop, Crash, Reboot, Begin
  <2> QED BY <2>2, <2>3, <2>4, <2>5 DEF Next
<1> QED BY Inductive, <1>1, PTL DEF Spec, UninstalledStaysDown
=============================================================================
