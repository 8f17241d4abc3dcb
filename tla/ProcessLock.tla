----------------------------- MODULE ProcessLock -----------------------------
(***************************************************************************)
(* server/lock.go: the lock file that keeps two servers from running on    *)
(* one host, and the start and stop of a server around it (startServer and *)
(* the Windows service's run).  The file is created exclusively, then the  *)
(* process ID is written to it; a process that finds the file reads it and *)
(* removes it when it looks stale.  Each file-system call is one step.     *)
(*                                                                         *)
(* The file system is external.  RemovesOpen says whether a file can be    *)
(* removed while a process has it open: on Windows it cannot, since Go     *)
(* opens files without FILE_SHARE_DELETE; on POSIX systems it can, and the *)
(* process is left with an open file that has no name.                     *)
(* The system may give the ID of a server that has ended to another        *)
(* process, which processRunning cannot tell from the server.  That other  *)
(* process may be the very server that starts next: processRunning does    *)
(* not compare the ID with its own, so it is refused by the ID it has      *)
(* itself, just as if a stranger had it.  The model keeps one name per     *)
(* process and counts this case as a reuse of the former server's ID.      *)
(***************************************************************************)
EXTENDS Naturals

CONSTANTS
    Procs,          \* server processes; also their process IDs
    NoProc,         \* no process ID in the file yet
    RemovesOpen     \* an open file can be removed

ASSUME NoProcAssumption == NoProc \notin Procs
ASSUME RemovesOpenAssumption == RemovesOpen \in BOOLEAN

VARIABLES
    exists,         \* there is a lock file
    creator,        \* the process that created the present lock file
    content,        \* the process ID in the present lock file
    open,           \* processes with an open handle on the file they created
    pc,             \* where each process stands
    seen,           \* the process ID read from the file
    reused,         \* IDs of ended servers that some process runs under now
    company         \* history: processes that were not alone on the host
                    \* at some time since their start

vars == <<exists, creator, content, open, pc, seen, reused, company>>

States == {"idle", "create", "write", "read", "check", "remove", "held",
           "abort", "unlink", "refused", "failed", "stopped", "dead"}
Over == {"refused", "failed", "stopped", "dead"}
MaybePid == Procs \cup {NoProc}

TypeOK ==
    /\ exists \in BOOLEAN
    /\ creator \in MaybePid
    /\ content \in MaybePid
    /\ open \subseteq Procs
    /\ pc \in [Procs -> States]
    /\ seen \in [Procs -> MaybePid]
    /\ reused \subseteq Procs
    /\ company \subseteq Procs

Init ==
    /\ exists = FALSE
    /\ creator = NoProc
    /\ content = NoProc
    /\ open = {}
    /\ pc = [p \in Procs |-> "idle"]
    /\ seen = [p \in Procs |-> NoProc]
    /\ reused = {}
    /\ company = {}

Goto(p, state) == pc' = [pc EXCEPT ![p] = state]

-----------------------------------------------------------------------------
(* AcquireProcessLock.                                                     *)

Start(p) ==
    /\ pc[p] = "idle"
    /\ Goto(p, "create")
    /\ UNCHANGED <<exists, creator, content, open, seen>>

\* Mutant: the file is opened without O_EXCL.
CreateShared(p) ==
    /\ pc[p] = "create"
    /\ exists' = TRUE
    /\ creator' = p
    /\ content' = NoProc
    /\ open' = open \cup {p}
    /\ Goto(p, "write")
    /\ UNCHANGED seen

\* OpenFile with O_CREATE and O_EXCL.
Create(p) ==
    /\ pc[p] = "create"
    /\ \/ /\ ~exists
          /\ exists' = TRUE
          /\ creator' = p
          /\ content' = NoProc
          /\ open' = open \cup {p}
          /\ Goto(p, "write")
       \/ /\ exists
          /\ Goto(p, "read")
          /\ UNCHANGED <<exists, creator, content, open>>
       \/ /\ Goto(p, "failed")           \* any other error
          /\ UNCHANGED <<exists, creator, content, open>>
    /\ UNCHANGED seen

\* Mutant: the process ID is not written.
WriteNothing(p) ==
    /\ pc[p] = "write"
    /\ Goto(p, "held")
    /\ UNCHANGED <<exists, creator, content, open, seen>>

\* WriteString goes to the file the handle names, which need not be the
\* present lock file any more.
WritePid(p) ==
    /\ pc[p] = "write"
    /\ content' = IF exists /\ creator = p THEN p ELSE content
    /\ Goto(p, "held")
    /\ UNCHANGED <<exists, creator, open, seen>>

\* The write fails: the handle is closed, then the path removed.
WriteFails(p) ==
    /\ pc[p] = "write"
    /\ open' = open \ {p}
    /\ Goto(p, "abort")
    /\ UNCHANGED <<exists, creator, content, seen>>

-----------------------------------------------------------------------------
(* removeIfStale.                                                          *)

\* Mutant: a file without a process ID is taken for a running server.
ReadEmptyRefuses(p) ==
    /\ pc[p] = "read"
    /\ seen' = [seen EXCEPT ![p] = content]
    /\ Goto(p, IF exists /\ content # NoProc THEN "check" ELSE "refused")
    /\ UNCHANGED <<exists, creator, content, open>>

\* ReadFile: a file that is gone by now counts as "not stale", so the start
\* is refused; a file with no number in it is stale.
Read(p) ==
    /\ pc[p] = "read"
    /\ \/ /\ ~exists
          /\ Goto(p, "refused")
          /\ UNCHANGED seen
       \/ /\ exists
          /\ seen' = [seen EXCEPT ![p] = content]
          /\ Goto(p, IF content = NoProc THEN "remove" ELSE "check")
       \/ /\ Goto(p, "failed")           \* any other error
          /\ UNCHANGED seen
    /\ UNCHANGED <<exists, creator, content, open>>

\* tasklist lists the ID: of the server, or of whoever has it now.
Running(q) == pc[q] \notin {"stopped", "dead"} \/ q \in reused

\* Mutant: any answer of tasklist is taken for a running process.
CheckAnyAnswer(p) ==
    /\ pc[p] = "check"
    /\ Goto(p, "refused")
    /\ UNCHANGED <<exists, creator, content, open, seen>>

\* processRunning asks tasklist for the process ID.
Check(p) ==
    /\ pc[p] = "check"
    /\ Goto(p, IF Running(seen[p]) THEN "refused" ELSE "remove")
    /\ UNCHANGED <<exists, creator, content, open, seen>>

CheckFails(p) ==
    /\ pc[p] = "check"
    /\ Goto(p, "failed")
    /\ UNCHANGED <<exists, creator, content, open, seen>>

Removable == exists /\ (RemovesOpen \/ creator \notin open)

\* os.Remove acts on the path, whichever file it names now.
Remove(p) ==
    /\ pc[p] = "remove"
    /\ \/ /\ ~exists
          /\ Goto(p, "create")
          /\ UNCHANGED exists
       \/ /\ Removable
          /\ exists' = FALSE
          /\ Goto(p, "create")
       \/ /\ exists
          /\ ~RemovesOpen       \* also while somebody reads the file
          /\ Goto(p, "failed")
          /\ UNCHANGED exists
    /\ UNCHANGED <<creator, content, open, seen>>

-----------------------------------------------------------------------------
(* The server stops, or does not start, and releases the lock.             *)

Release(p) ==
    /\ pc[p] = "held"
    /\ open' = open \ {p}
    /\ Goto(p, "unlink")
    /\ UNCHANGED <<exists, creator, content, seen>>

\* os.Remove, its error ignored.
Unlink(p) ==
    /\ pc[p] \in {"unlink", "abort"}
    /\ \/ Removable /\ exists' = FALSE
       \/ ~Removable /\ UNCHANGED exists
       \/ ~RemovesOpen /\ UNCHANGED exists
    /\ Goto(p, IF pc[p] = "abort" THEN "failed" ELSE "stopped")
    /\ UNCHANGED <<creator, content, open, seen>>

\* The process dies; the system closes its handle and the file stays.
Crash(p) ==
    /\ pc[p] \notin Over \cup {"idle"}
    /\ open' = open \ {p}
    /\ Goto(p, "dead")
    /\ UNCHANGED <<exists, creator, content, seen>>

\* The system gives the ID of an ended server to another program or to a
\* later server, or that one ends.  A process that never ran as the server
\* left its ID nowhere.
Recycle(q) ==
    /\ pc[q] \in {"stopped", "dead"}
    /\ \/ q \notin reused /\ reused' = reused \cup {q}
       \/ q \in reused /\ reused' = reused \ {q}
    /\ UNCHANGED <<exists, creator, content, open, pc, seen>>

-----------------------------------------------------------------------------
(* The specification.                                                      *)

\* No other server is at work, and no server's ID is in other hands.
Alone(p) ==
    /\ \A q \in Procs \ {p} : pc[q] \in Over \cup {"idle"}
    /\ reused = {}

Watch == company' = company \cup {p \in Procs : pc'[p] # "idle" /\ ~Alone(p)'}

Step(p) ==
    /\ Create(p) \/ WritePid(p) \/ Read(p) \/ Check(p) \/ Remove(p) \/ Unlink(p)
    /\ UNCHANGED reused

Event(p) ==
    /\ Start(p) \/ WriteFails(p) \/ CheckFails(p) \/ Release(p) \/ Crash(p)
    /\ UNCHANGED reused

Next == (\E p \in Procs : Step(p) \/ Event(p) \/ Recycle(p)) /\ Watch

Spec == Init /\ [][Next]_vars

\* A process that is starting or stopping goes on.
FairSpec == Spec /\ \A p \in Procs : WF_vars(Step(p) /\ Watch)

-----------------------------------------------------------------------------
(* Properties.                                                             *)

(***************************************************************************)
(* At most one process runs as the server: "ProcessLock empeche plusieurs  *)
(* serveurs sur le meme host" (server/lock.go), although creating the file *)
(* and writing the process ID are two steps and a starting process removes *)
(* whatever file it finds under the path.                                  *)
(***************************************************************************)
MutualExclusion == \A p, q \in Procs : pc[p] = "held" /\ pc[q] = "held" => p = q

(***************************************************************************)
(* A server that crashed at any step, leaving a lock file with or without  *)
(* a process ID, does not lock the host out: a process that starts while   *)
(* no other one is at work is not refused as "already running".            *)
(***************************************************************************)
LoneStartIsNotRefused ==
    \A p \in Procs :
        pc[p] = "create" /\ Alone(p) ~> pc[p] \in {"held", "failed", "dead"} \/ ~Alone(p)

(***************************************************************************)
(* A running server's lock file is not taken away under it: while it holds *)
(* the lock, the file is there and is its own, so the next start finds it. *)
(***************************************************************************)
HolderKeepsFile == \A p \in Procs : pc[p] = "held" => exists /\ creator = p /\ content = p

(***************************************************************************)
(* "server already running" has a cause: whatever earlier servers left     *)
(* behind, a process is refused only if since its start another server was *)
(* at work on the host, or some program, the process itself included, had  *)
(* the ID of a former server.                                              *)
(* The reuse of an ID is thus the only way a stale file refuses a start.   *)
(***************************************************************************)
RefusedForCause ==
    [][\A p \in Procs : pc[p] # "refused" /\ pc'[p] = "refused" => p \in company]_vars
=============================================================================
