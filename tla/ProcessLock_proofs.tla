------------------------- MODULE ProcessLock_proofs -------------------------
(***************************************************************************)
(* Mutual exclusion of ProcessLock for any number of processes, on a       *)
(* system that does not remove open files.  The argument is the handle,    *)
(* not the process ID: whoever is between creating the file and closing it *)
(* has a handle on the file that is under the path now, so there is only   *)
(* one of them, and nobody can remove that file.                           *)
(* On every file system a refusal has a cause: an ID in the file or in a   *)
(* reader's hands is that of a process that got the lock, so it is running *)
(* or in other hands only if the reader is not alone.                      *)
(***************************************************************************)
EXTENDS ProcessLock, TLAPS

HandleInv ==
    /\ \A p \in open : exists /\ creator = p
    /\ \A p \in Procs : pc[p] \in {"write", "held"} => p \in open
    /\ \A p \in Procs : pc[p] = "check" => seen[p] \in Procs
    /\ \A p \in Procs : pc[p] = "held" => content = p

IInv == TypeOK /\ HandleInv

\* No process has started and there is no lock file.
LEMMA InitIInv == Init => IInv
  BY DEF Init, IInv, TypeOK, HandleInv, States, MaybePid

\* The parts of Next, the history variable apart.
Move == \E p \in Procs :
    \/ Start(p) \/ Create(p) \/ WritePid(p) \/ WriteFails(p) \/ Read(p) \/ Check(p)
    \/ CheckFails(p) \/ Remove(p) \/ Release(p) \/ Unlink(p) \/ Crash(p) \/ Recycle(p)

\* A step of Next is a move of one process, or of the system on its ID.
LEMMA NextMoves == Next => Move /\ Watch
  BY DEF Next, Step, Event, Move

\* Every step keeps the types.
LEMMA TypeStep == TypeOK /\ [Next]_vars => TypeOK'
<1> SUFFICES ASSUME TypeOK, [Next]_vars PROVE TypeOK'
  OBVIOUS
<1>1. CASE Next
  <2>1. company' \subseteq Procs
    BY <1>1 DEF Next, Watch, TypeOK
  <2>2. reused' \subseteq Procs
    BY <1>1 DEF Next, Step, Event, Recycle, TypeOK
  <2> USE DEF States, MaybePid, Goto, TypeOK
  <2>3. ASSUME NEW p \in Procs, Start(p) \/ Create(p) \/ WritePid(p) \/ WriteFails(p)
        PROVE  TypeOK'
    BY <2>1, <2>2, <2>3 DEF Start, Create, WritePid, WriteFails
  <2>4. ASSUME NEW p \in Procs, Read(p)
        PROVE  TypeOK'
    BY <2>1, <2>2, <2>4 DEF Read
  <2>5. ASSUME NEW p \in Procs, Check(p) \/ CheckFails(p) \/ Remove(p)
        PROVE  TypeOK'
    BY <2>1, <2>2, <2>5 DEF Check, CheckFails, Remove
  <2>6. ASSUME NEW p \in Procs, Release(p) \/ Unlink(p) \/ Crash(p) \/ Recycle(p)
        PROVE  TypeOK'
    BY <2>1, <2>2, <2>6 DEF Release, Unlink, Crash, Recycle
  <2> QED  BY <1>1, <2>3, <2>4, <2>5, <2>6, NextMoves DEF Move
<1>2. CASE UNCHANGED vars
  BY <1>2 DEF vars, TypeOK
<1> QED  BY <1>1, <1>2

\* Where open files stay, every file-system call of any process leaves a
\* lock file with its creator as long as the creator has it open.
LEMMA HandleStep == ASSUME ~RemovesOpen, IInv, [Next]_vars PROVE HandleInv'
<1> USE NoProcAssumption DEF IInv, TypeOK, HandleInv, Goto
<1>1. ASSUME NEW p \in Procs, Start(p)
      PROVE  HandleInv'
  BY <1>1 DEF Start
<1>2. ASSUME NEW p \in Procs, Create(p)
      PROVE  HandleInv'
  <2>1. CASE ~exists
    <3>1. open = {}
      BY <2>1
    <3> QED  BY <1>2, <2>1, <3>1 DEF Create
  <2>2. CASE exists
    BY <1>2, <2>2 DEF Create
  <2> QED  BY <2>1, <2>2
<1>3. ASSUME NEW p \in Procs, WritePid(p)
      PROVE  HandleInv'
  BY <1>3 DEF WritePid
<1>4. ASSUME NEW p \in Procs, WriteFails(p)
      PROVE  HandleInv'
  BY <1>4 DEF WriteFails
<1>5. ASSUME NEW p \in Procs, Read(p)
      PROVE  HandleInv'
  BY <1>5 DEF Read, MaybePid
<1>6. ASSUME NEW p \in Procs, Check(p)
      PROVE  HandleInv'
  BY <1>6 DEF Check
<1>7. ASSUME NEW p \in Procs, CheckFails(p)
      PROVE  HandleInv'
  BY <1>7 DEF CheckFails
<1>8. ASSUME NEW p \in Procs, Remove(p)
      PROVE  HandleInv'
  BY <1>8 DEF Remove, Removable
<1>9. ASSUME NEW p \in Procs, Release(p)
      PROVE  HandleInv'
  BY <1>9 DEF Release
<1>10. ASSUME NEW p \in Procs, Unlink(p)
      PROVE  HandleInv'
  BY <1>10 DEF Unlink, Removable
<1>11. ASSUME NEW p \in Procs, Crash(p)
      PROVE  HandleInv'
  BY <1>11 DEF Crash
<1>12. ASSUME NEW p \in Procs, Recycle(p)
      PROVE  HandleInv'
  BY <1>12 DEF Recycle
<1>13. CASE UNCHANGED vars
  BY <1>13 DEF vars
<1> QED
  BY <1>1, <1>2, <1>3, <1>4, <1>5, <1>6, <1>7, <1>8, <1>9, <1>10, <1>11, <1>12, <1>13,
     NextMoves DEF Move

\* The inductive invariant, where open files cannot be removed.
LEMMA Invariance == ASSUME ~RemovesOpen PROVE Spec => []IInv
<1>1. IInv /\ [Next]_vars => IInv'
  BY TypeStep, HandleStep DEF IInv
<1> QED  BY <1>1, InitIInv, PTL DEF Spec

(***************************************************************************)
(* The variables of the model keep their types, on every file system.      *)
(***************************************************************************)
THEOREM TypeCorrect == Spec => []TypeOK
<1>1. Init => TypeOK
  BY InitIInv DEF IInv
<1> QED  BY <1>1, TypeStep, PTL DEF Spec

(***************************************************************************)
(* Where open files cannot be removed (Windows), at most one of any number *)
(* of processes gets past AcquireProcessLock at a time, whatever crashes.  *)
(***************************************************************************)
THEOREM LockExcludes == ASSUME ~RemovesOpen PROVE Spec => []MutualExclusion
<1>1. IInv => MutualExclusion
  BY DEF IInv, HandleInv, MutualExclusion
<1> QED  BY <1>1, Invariance, PTL

(***************************************************************************)
(* On such a system the file of a running server stays in place.           *)
(***************************************************************************)
THEOREM FileStays == ASSUME ~RemovesOpen PROVE Spec => []HolderKeepsFile
<1>1. IInv => HolderKeepsFile
  BY DEF IInv, HandleInv, HolderKeepsFile
<1> QED  BY <1>1, Invariance, PTL

-----------------------------------------------------------------------------
(* A refusal has a cause, on every file system.                            *)

\* A process that got the lock, and whatever became of it.
Former == {"held", "unlink", "stopped", "dead"}

PidInv ==
    /\ content \in Procs => pc[content] \in Former
    /\ \A p \in Procs : pc[p] = "check" => seen[p] \in Procs /\ pc[seen[p]] \in Former

\* A process that was alone all the time is alone now, and finds the file
\* it saw when it tried to create its own.
AloneInv == \A p \in Procs :
    /\ pc[p] # "idle" /\ p \notin company => Alone(p)
    /\ pc[p] = "read" /\ p \notin company => exists

CauseInv == TypeOK /\ PidInv /\ AloneInv

\* There is no file and no process has started.
LEMMA CauseInit == Init => CauseInv
  BY NoProcAssumption, InitIInv DEF Init, CauseInv, IInv, PidInv, AloneInv

\* Only a process that has written its ID has it in the file, and it does
\* not go back to a state before.
LEMMA PidStep == ASSUME TypeOK, PidInv, [Next]_vars PROVE PidInv'
<1> USE NoProcAssumption DEF TypeOK, PidInv, Former, Goto, MaybePid
<1>1. ASSUME NEW p \in Procs, Start(p) \/ CheckFails(p) \/ Release(p) \/ Crash(p)
      PROVE  PidInv'
  BY <1>1 DEF Start, CheckFails, Release, Crash, Over
<1>2. ASSUME NEW p \in Procs, Create(p)
      PROVE  PidInv'
  BY <1>2 DEF Create
<1>3. ASSUME NEW p \in Procs, WritePid(p) \/ WriteFails(p)
      PROVE  PidInv'
  BY <1>3 DEF WritePid, WriteFails
<1>4. ASSUME NEW p \in Procs, Read(p)
      PROVE  PidInv'
  BY <1>4 DEF Read
<1>5. ASSUME NEW p \in Procs, Check(p) \/ Remove(p)
      PROVE  PidInv'
  BY <1>5 DEF Check, Remove
<1>6. ASSUME NEW p \in Procs, Unlink(p)
      PROVE  PidInv'
  BY <1>6 DEF Unlink
<1>7. ASSUME NEW p \in Procs, Recycle(p)
      PROVE  PidInv'
  BY <1>7 DEF Recycle
<1>8. CASE UNCHANGED vars
  BY <1>8 DEF vars
<1> QED
  BY <1>1, <1>2, <1>3, <1>4, <1>5, <1>6, <1>7, <1>8, NextMoves DEF Move

\* While a process is alone, no other one touches the file.
LEMMA AloneStep == ASSUME TypeOK, AloneInv, [Next]_vars PROVE AloneInv'
<1>1. CASE Next
  <2> SUFFICES ASSUME NEW p \in Procs, pc'[p] # "idle", p \notin company'
               PROVE  Alone(p)' /\ (pc'[p] = "read" => exists')
    BY DEF AloneInv
  <2>1. p \notin company /\ Alone(p)'
    BY <1>1 DEF Next, Watch
  <2>2. ASSUME pc'[p] = "read" PROVE exists'
    <3>1. PICK q \in Procs : Step(q) \/ Event(q) \/ Recycle(q)
      BY <1>1 DEF Next
    <3> USE DEF TypeOK, Goto
    <3>2. CASE q = p
      BY <2>1, <2>2, <3>1, <3>2
      DEF AloneInv, Step, Event, Start, Create, WritePid, Read, Check, Remove, Unlink,
          WriteFails, CheckFails, Release, Crash, Recycle
    <3>3. CASE q # p
      <4>1. pc'[p] = pc[p]
        BY <3>1, <3>3
        DEF Step, Event, Start, Create, WritePid, Read, Check, Remove, Unlink,
            WriteFails, CheckFails, Release, Crash, Recycle
      <4>2. exists /\ Alone(p)
        BY <2>1, <2>2, <4>1 DEF AloneInv
      <4>3. pc[q] \in Over \cup {"idle"}
        BY <3>3, <4>2 DEF Alone
      <4> QED
        BY <3>1, <4>2, <4>3
        DEF Over, Step, Event, Start, Create, WritePid, Read, Check, Remove, Unlink,
            WriteFails, CheckFails, Release, Crash, Recycle
    <3> QED  BY <3>2, <3>3
  <2> QED  BY <2>1, <2>2
<1>2. CASE UNCHANGED vars
  BY <1>2 DEF vars, AloneInv, Alone
<1> QED  BY <1>1, <1>2

(***************************************************************************)
(* For any number of processes, on every file system and whatever crashes, *)
(* "server already running" is only said to a process that shared the host *)
(* with another server, or with a program that had a former server's ID.   *)
(***************************************************************************)
THEOREM RefusalHasCause == Spec => RefusedForCause
<1>1. CauseInv /\ [Next]_vars => CauseInv'
  BY TypeStep, PidStep, AloneStep DEF CauseInv
<1>2. CauseInv /\ [Next]_vars
      => [\A p \in Procs : pc[p] # "refused" /\ pc'[p] = "refused" => p \in company]_vars
  <2> SUFFICES ASSUME CauseInv, Next, NEW p \in Procs, pc[p] # "refused", pc'[p] = "refused",
                      p \notin company
               PROVE  FALSE
    OBVIOUS
  <2> USE DEF CauseInv, TypeOK, Goto
  <2>1. (Read(p) /\ ~exists) \/ (Check(p) /\ Running(seen[p]))
    <3>1. Next
      OBVIOUS
    <3>2. PICK q \in Procs : Step(q) \/ Event(q) \/ Recycle(q)
      BY <3>1 DEF Next
    <3>3. q = p /\ (Read(p) \/ Check(p))
      BY <3>2
      DEF Step, Event, Start, Create, WritePid, Read, Check, Remove, Unlink, WriteFails,
          CheckFails, Release, Crash, Recycle
    <3>4. ASSUME Read(p) PROVE ~exists
      BY <3>4 DEF Read
    <3>5. ASSUME Check(p) PROVE Running(seen[p])
      BY <3>5 DEF Check
    <3> QED  BY <3>3, <3>4, <3>5
  <2>2. Alone(p)
    BY <2>1 DEF AloneInv, Read, Check
  <2>3. CASE Read(p) /\ ~exists
    BY <2>3 DEF Read, AloneInv
  <2>4. CASE Check(p) /\ Running(seen[p])
    <3>1. seen[p] \in Procs /\ seen[p] # p /\ pc[seen[p]] \in Former
      BY <2>4 DEF Check, PidInv, Former
    <3>2. pc[seen[p]] \in {"stopped", "dead"} /\ seen[p] \notin reused
      BY <2>2, <3>1 DEF Alone, Former, Over
    <3> QED  BY <2>4, <3>2 DEF Running
  <2> QED  BY <2>1, <2>3, <2>4
<1> QED  BY <1>1, <1>2, CauseInit, PTL DEF Spec, RefusedForCause
=============================================================================
