-------------------------- MODULE GroupStore_proofs --------------------------
(***************************************************************************)
(* The group store is proved correct for any groups, agents and requests.  *)
(*                                                                         *)
(* Neither property is inductive.  That an agent has a group that exists   *)
(* needs that an addition under way has one (JoinInv), and, since a        *)
(* restart replaces the groups by the file, that the same holds of what    *)
(* the file says (MemSaved).  That in turn needs to know what a save that  *)
(* is alone will write (SaveInv).                                          *)
(***************************************************************************)
EXTENDS GroupStore, TLAPS

\* What a request is about, and which of them gets where.
JobInv ==
    \A r \in Requests :
       /\ job[r].pc # "none" => job[r].group \in Groups
       /\ Saving(r) => job[r].op \in {"create", "add", "delete"}
       /\ job[r].pc = "join" => job[r].op = "add"
       /\ job[r].pc = "entries" => job[r].op = "delete"

\* No handler is at work without a server.
NoRun == server # "up" => \A r \in Requests : job[r].pc \in {"none", "ok", "error"}

JoinInv == \A r \in Requests, g \in Groups : Joining(r, g) => g \in groups \cup blamed

\* A save that has the store to itself writes what the store holds into an
\* empty file.
SaveInv ==
    server = "up" =>
       /\ ~overlap => /\ \A r, q \in Requests : Saving(r) /\ Saving(q) => r = q
                      /\ \A r \in Requests : Saving(r) => job[r].snapshot = groups
                      /\ \A r \in Requests : job[r].pc = "write" => file = Empty
       /\ overlap /\ (\E r \in Requests : Saving(r)) => stale
       /\ ~stale /\ (\A r \in Requests : ~Saving(r)) => Readable(file) /\ file.data = groups

\* What MembersHaveGroup and JoinInv say of the store holds of the file.
MemSaved ==
    server # "refused" /\ ~stale /\ Readable(file) =>
       /\ \A a \in Agents, g \in Groups \ (file.data \cup blamed) :
             g \in member[a] => \E r \in Requests : TakesOut(r, a, g)
       /\ \A r \in Requests : job[r].pc = "join" => job[r].group \in file.data \cup blamed

IInv == GroupTypeOK /\ JobInv /\ NoRun /\ JoinInv /\ MembersHaveGroup /\ SaveInv /\ MemSaved

-----------------------------------------------------------------------------
\* The server starts from a saved store.
LEMMA InitInv == GroupInit => IInv
<1> SUFFICES ASSUME GroupInit PROVE IInv
  OBVIOUS
<1>1. GroupTypeOK
  <2>1. NoJob \in Jobs
    BY DEF NoJob, Jobs
  <2>2. file \in Files
    BY DEF GroupInit, Files, Saved, Missing
  <2> QED
    BY <2>1, <2>2 DEF GroupInit, GroupTypeOK
<1>2. \A r \in Requests : job[r].pc = "none"
  BY DEF GroupInit, NoJob
<1>3. /\ server = "up" /\ ~stale /\ ~overlap
      /\ Readable(file) /\ file.data = groups
      /\ \A a \in Agents : member[a] \subseteq groups
  BY DEF GroupInit, Saved, Missing, Readable
<1>4. JobInv /\ NoRun /\ JoinInv /\ MembersHaveGroup /\ SaveInv /\ MemSaved
  BY <1>1, <1>2, <1>3 DEF JobInv, NoRun, JoinInv, MembersHaveGroup, SaveInv, MemSaved, Joining, Saving
<1> QED
  BY <1>1, <1>4 DEF IInv

\* What a step of one request does to the others.
Only(r) == \A q \in Requests \ {r} : job'[q] = job[q]

\* A request that has just come has changed nothing.
LEMMA AskInv ==
  ASSUME IInv, NEW r \in Requests, NEW op \in Ops, NEW g \in Groups, NEW a \in Agents \cup {NoAgent},
         Ask(r, op, g, a)
  PROVE  IInv'
<1> USE DEF IInv
<1>1. GroupTypeOK'
  BY DEF Ask, GroupTypeOK, Jobs, NoJob
<1>2. /\ job[r].pc = "none" /\ job'[r].pc = "sent" /\ job'[r].group \in Groups /\ Only(r)
      /\ UNCHANGED <<server, groups, file, member, overlap, stale, blamed>>
  BY DEF Ask, GroupTypeOK, NoJob, Only
<1>3. JobInv' /\ NoRun' /\ JoinInv' /\ SaveInv'
  BY <1>2 DEF Ask, Only, JobInv, NoRun, JoinInv, SaveInv, Joining, Saving
<1>4. \A q \in Requests, b \in Agents, h \in Groups : TakesOut(q, b, h) => TakesOut(q, b, h)'
  BY <1>2 DEF Only, TakesOut, Deleting
<1>5. MembersHaveGroup' /\ MemSaved'
  BY <1>2, <1>4 DEF Only, MembersHaveGroup, MemSaved
<1> QED
  BY <1>1, <1>3, <1>5

\* The new group is in the store and in the snapshot.
LEMMA CreateInv ==
  ASSUME IInv, NEW r \in Requests, create(r)
  PROVE  IInv'
<1> USE DEF IInv
<1>1. GroupTypeOK'
  <2>1. overlap' \in BOOLEAN /\ stale' \in BOOLEAN
    BY DEF create, Commit, GroupTypeOK
  <2>2. job[r].group \in Groups
    BY DEF create, Handles, JobInv
  <2>3. groups' \in SUBSET Groups /\ blamed' \in SUBSET Groups
    BY <2>2 DEF create, Commit, GroupTypeOK
  <2>4. job' \in [Requests -> Jobs]
    <3>1. job' = [job EXCEPT ![r] = [job[r] EXCEPT !.pc = "open", !.snapshot = groups']]
      BY DEF create, Commit, GroupTypeOK, Jobs
    <3>2. [job[r] EXCEPT !.pc = "open", !.snapshot = groups'] \in Jobs
      BY <2>3 DEF GroupTypeOK, Jobs
    <3> QED
      BY <3>1, <3>2 DEF GroupTypeOK
  <2> QED
    BY <2>1, <2>3, <2>4 DEF create, Commit, GroupTypeOK
<1>2. /\ job[r].pc = "sent" /\ job'[r].pc = "open" /\ job'[r].snapshot = groups'
      /\ job[r].op \in {"create", "add"} /\ job'[r].op = job[r].op
      /\ job'[r].group = job[r].group /\ Only(r)
      /\ groups' = groups \cup {job[r].group}
      /\ server = "up"
      /\ UNCHANGED <<server, file, member, blamed>>
  BY DEF create, Handles, Commit, GroupTypeOK, Jobs, Only
<1>3. /\ overlap' = (\E q \in Requests \ {r} : Saving(q))
      /\ stale' = (stale \/ overlap')
  BY DEF create, Commit
<1>4. JobInv' /\ NoRun' /\ JoinInv'
  BY <1>2 DEF Only, JobInv, NoRun, JoinInv, Joining, Saving
<1>5. SaveInv'
  BY <1>2, <1>3 DEF Only, SaveInv, Saving
<1>6. \A q \in Requests, b \in Agents, h \in Groups : TakesOut(q, b, h) => TakesOut(q, b, h)'
  BY <1>2 DEF Only, TakesOut, Deleting
<1>7. MembersHaveGroup' /\ MemSaved'
  BY <1>2, <1>3, <1>6 DEF Only, MembersHaveGroup, MemSaved
<1> QED
  BY <1>1, <1>4, <1>5, <1>7

\* A group with an addition under way is blamed when it is deleted.
LEMMA DeleteInv ==
  ASSUME IInv, NEW r \in Requests, delete(r)
  PROVE  IInv'
<1> USE DEF IInv
<1>1. GroupTypeOK'
  <2>1. overlap' \in BOOLEAN /\ stale' \in BOOLEAN
    BY DEF delete, Commit, GroupTypeOK
  <2>2. job[r].group \in Groups
    BY DEF delete, Handles, JobInv
  <2>3. groups' \in SUBSET Groups /\ blamed' \in SUBSET Groups
    BY <2>2 DEF delete, Commit, GroupTypeOK
  <2>4. job' \in [Requests -> Jobs]
    <3>1. job' = [job EXCEPT ![r] = [job[r] EXCEPT !.pc = "open", !.snapshot = groups']]
      BY DEF delete, Commit, GroupTypeOK, Jobs
    <3>2. [job[r] EXCEPT !.pc = "open", !.snapshot = groups'] \in Jobs
      BY <2>3 DEF GroupTypeOK, Jobs
    <3> QED
      BY <3>1, <3>2 DEF GroupTypeOK
  <2> QED
    BY <2>1, <2>3, <2>4 DEF delete, Commit, GroupTypeOK
<1>2. /\ job[r].pc = "sent" /\ job'[r].pc = "open" /\ job'[r].snapshot = groups'
      /\ job[r].op = "delete" /\ job'[r].op = "delete"
      /\ job'[r].group = job[r].group /\ Only(r)
      /\ groups' = groups \ {job[r].group}
      /\ server = "up"
      /\ UNCHANGED <<server, file, member>>
  BY DEF delete, Handles, Commit, GroupTypeOK, Jobs, Only
<1>3. /\ overlap' = (\E q \in Requests \ {r} : Saving(q))
      /\ stale' = (stale \/ overlap')
  BY DEF delete, Commit
<1>4. /\ blamed \subseteq blamed'
      /\ (\E q \in Requests : Joining(q, job[r].group)) => job[r].group \in blamed'
  BY DEF delete
<1>5. JobInv' /\ NoRun' /\ JoinInv'
  BY <1>2, <1>4 DEF Only, JobInv, NoRun, JoinInv, Joining, Saving
<1>6. SaveInv'
  BY <1>2, <1>3 DEF Only, SaveInv, Saving
<1>7. \A q \in Requests, b \in Agents, h \in Groups : TakesOut(q, b, h) => TakesOut(q, b, h)'
  BY <1>2 DEF Only, TakesOut, Deleting
<1>8. \A b \in Agents : TakesOut(r, b, job[r].group)'
  BY <1>2 DEF TakesOut, Deleting
<1>9. MembersHaveGroup' /\ MemSaved'
  BY <1>2, <1>3, <1>4, <1>7, <1>8 DEF Only, MembersHaveGroup, MemSaved
<1> QED
  BY <1>1, <1>5, <1>6, <1>9

\* Nothing is deleted.
LEMMA DeleteUnknownInv ==
  ASSUME IInv, NEW r \in Requests, deleteUnknown(r)
  PROVE  IInv'
<1> USE DEF IInv
<1>1. GroupTypeOK'
  BY DEF deleteUnknown, Move, GroupTypeOK, Jobs
<1>2. /\ job[r].pc = "sent" /\ job'[r].pc = "error" /\ Only(r)
      /\ job'[r].group = job[r].group
      /\ UNCHANGED <<server, groups, file, member, overlap, stale, blamed>>
  BY DEF deleteUnknown, Handles, Move, GroupTypeOK, Jobs, Only
<1>3. JobInv' /\ NoRun' /\ JoinInv' /\ SaveInv'
  BY <1>2 DEF Only, JobInv, NoRun, JoinInv, SaveInv, Joining, Saving
<1>4. \A q \in Requests, b \in Agents, h \in Groups : TakesOut(q, b, h) => TakesOut(q, b, h)'
  BY <1>2 DEF Only, TakesOut, Deleting
<1>5. MembersHaveGroup' /\ MemSaved'
  BY <1>2, <1>4 DEF Only, MembersHaveGroup, MemSaved
<1> QED
  BY <1>1, <1>3, <1>5

\* The file is empty until the snapshot is written.
LEMMA SaveOpenInv ==
  ASSUME IInv, NEW r \in Requests, SaveOpen(r)
  PROVE  IInv'
<1> USE DEF IInv
<1>1. GroupTypeOK'
  BY DEF SaveOpen, Move, Empty, Files, GroupTypeOK, Jobs
<1>2. /\ job[r].pc = "open" /\ job'[r].pc = "write" /\ Only(r) /\ file' = Empty
      /\ job'[r].group = job[r].group /\ job'[r].op = job[r].op
      /\ job'[r].snapshot = job[r].snapshot
      /\ UNCHANGED <<server, groups, member, overlap, stale, blamed>>
  BY DEF SaveOpen, Move, GroupTypeOK, Jobs, Only
<1>3. JobInv' /\ NoRun' /\ JoinInv'
  BY <1>2 DEF Only, JobInv, NoRun, JoinInv, Joining, Saving
<1>4. SaveInv'
  BY <1>2 DEF Only, SaveInv, Saving
<1>5. \A q \in Requests, b \in Agents, h \in Groups : TakesOut(q, b, h) => TakesOut(q, b, h)'
  BY <1>2 DEF Only, TakesOut, Deleting
<1>6. MembersHaveGroup'
  BY <1>2, <1>5 DEF MembersHaveGroup
<1>7. MemSaved'
  BY <1>2 DEF MemSaved, Readable, Empty
<1> QED
  BY <1>1, <1>3, <1>4, <1>6, <1>7

\* A save that is alone leaves the present groups in the file.
LEMMA SaveWriteInv ==
  ASSUME IInv, NEW r \in Requests, SaveWrite(r)
  PROVE  IInv'
<1> USE DEF IInv
<1>1. /\ job[r].pc = "write" /\ job[r].op \in {"create", "add", "delete"}
      /\ job'[r].pc = AfterSave[job[r].op] /\ job'[r].todo = Agents
      /\ job'[r].group = job[r].group /\ job'[r].op = job[r].op /\ Only(r)
      /\ UNCHANGED <<server, groups, member, overlap, blamed>>
  BY DEF SaveWrite, GroupTypeOK, Jobs, JobInv, Saving, Only
<1>2. job'[r].pc = CASE job[r].op = "create" -> "ok" [] job[r].op = "add" -> "join"
                     [] job[r].op = "delete" -> "entries"
  BY <1>1 DEF AfterSave
<1>3. server = "up" /\ stale' = (stale /\ overlap)
  BY <1>1 DEF SaveWrite, NoRun
<1>4. \/ file' = Saved(job[r].snapshot)
      \/ file # Empty /\ file' = Broken
  BY DEF SaveWrite
<1>5. GroupTypeOK'
  <2>1. file' \in Files
    BY <1>4 DEF GroupTypeOK, Jobs, Files, Saved, Broken
  <2>2. stale' \in BOOLEAN
    BY <1>3 DEF GroupTypeOK
  <2>3. job' \in [Requests -> Jobs]
    <3>1. AfterSave[job[r].op] \in {"ok", "join", "entries"}
      BY <1>1 DEF AfterSave
    <3>2. job' = [job EXCEPT ![r] = [job[r] EXCEPT !.pc = AfterSave[job[r].op], !.todo = Agents]]
      BY DEF SaveWrite, GroupTypeOK, Jobs
    <3>3. [job[r] EXCEPT !.pc = AfterSave[job[r].op], !.todo = Agents] \in Jobs
      BY <3>1 DEF GroupTypeOK, Jobs
    <3> QED
      BY <3>2, <3>3 DEF GroupTypeOK
  <2> QED
    BY <1>1, <2>1, <2>2, <2>3 DEF GroupTypeOK
<1>6. JobInv' /\ NoRun' /\ JoinInv'
  BY <1>1, <1>2, <1>3 DEF Only, JobInv, NoRun, JoinInv, Joining, Saving
<1>7. ~overlap => file' = Saved(groups) /\ \A q \in Requests : ~Saving(q)'
  BY <1>1, <1>2, <1>3, <1>4 DEF Only, SaveInv, Saving
<1>8. overlap => stale
  BY <1>1, <1>3 DEF SaveInv, Saving
<1>9. SaveInv'
  <2>1. CASE overlap
    BY <1>1, <1>3, <1>8, <2>1 DEF SaveInv
  <2>2. CASE ~overlap
    <3>1. Readable(file)' /\ file'.data = groups'
      BY <1>1, <1>7, <2>2 DEF Saved, Readable
    <3>2. \A q \in Requests : ~Saving(q)' /\ job'[q].pc # "write"
      BY <1>7, <2>2 DEF Saving
    <3> QED
      BY <1>1, <2>2, <3>1, <3>2 DEF SaveInv
  <2> QED
    BY <2>1, <2>2
<1>10. \A q \in Requests, b \in Agents, h \in Groups : TakesOut(q, b, h) => TakesOut(q, b, h)'
  BY <1>1, <1>2 DEF Only, TakesOut, Deleting
<1>11. MembersHaveGroup'
  BY <1>1, <1>10 DEF MembersHaveGroup
<1>12. MemSaved'
  <2> SUFFICES ASSUME ~stale' PROVE MemSaved'
    BY DEF MemSaved
  <2>1. file'.data = groups'
    BY <1>1, <1>3, <1>7, <1>8 DEF GroupTypeOK, Saved
  <2>2. \A q \in Requests : job'[q].pc = "join" => job'[q].group \in groups' \cup blamed'
    BY <1>6 DEF JobInv, JoinInv, Joining
  <2> QED
    BY <1>11, <2>1, <2>2 DEF MembersHaveGroup, MemSaved
<1> QED
  BY <1>5, <1>6, <1>9, <1>11, <1>12

\* After a failed save the file counts as stale.
LEMMA SaveFailsInv ==
  ASSUME IInv, NEW r \in Requests, SaveFails(r)
  PROVE  IInv'
<1> USE DEF IInv
<1>1. /\ Saving(r) /\ job'[r].pc = "error" /\ Only(r) /\ stale'
      /\ job'[r].group = job[r].group
      /\ UNCHANGED <<server, groups, member, overlap>>
  BY DEF SaveFails, Move, GroupTypeOK, Jobs, Only
<1>2. /\ blamed' \in SUBSET Groups /\ blamed \subseteq blamed'
      /\ job[r].op = "delete" => job[r].group \in blamed'
  BY <1>1 DEF SaveFails, Saving, GroupTypeOK, JobInv
<1>3. GroupTypeOK'
  BY <1>1, <1>2 DEF SaveFails, Move, Broken, Files, GroupTypeOK, Jobs
<1>4. JobInv' /\ NoRun' /\ JoinInv'
  BY <1>1, <1>2 DEF Only, JobInv, NoRun, JoinInv, Joining, Saving
<1>5. SaveInv'
  BY <1>1 DEF SaveFails, Only, SaveInv, Saving
<1>6. \A q \in Requests \ {r}, b \in Agents, h \in Groups : TakesOut(q, b, h) => TakesOut(q, b, h)'
  BY <1>1 DEF Only, TakesOut, Deleting
<1>7. MembersHaveGroup' /\ MemSaved'
  BY <1>1, <1>2, <1>6 DEF MembersHaveGroup, MemSaved, TakesOut, Deleting
<1> QED
  BY <1>3, <1>4, <1>5, <1>7

\* The group of an addition exists or is blamed.
LEMMA AddGroupInv ==
  ASSUME IInv, NEW r \in Requests, AddGroup(r)
  PROVE  IInv'
<1> USE DEF IInv
<1>1. /\ job[r].pc = "join" /\ job'[r].pc \in {"ok", "error"} /\ Only(r)
      /\ job[r].op = "add" /\ job[r].group \in Groups /\ job'[r].group = job[r].group
      /\ UNCHANGED <<server, groups, file, overlap, stale, blamed>>
  BY DEF AddGroup, Move, GroupTypeOK, Jobs, JobInv, Only
<1>2. /\ member' \in [Agents -> SUBSET Groups]
      /\ \A b \in Agents : member'[b] \subseteq member[b] \cup {job[r].group}
  BY <1>1 DEF AddGroup, GroupTypeOK
<1>3. GroupTypeOK'
  BY <1>1, <1>2 DEF AddGroup, Move, GroupTypeOK, Jobs
<1>4. JobInv' /\ NoRun' /\ JoinInv' /\ SaveInv'
  BY <1>1 DEF Only, JobInv, NoRun, JoinInv, SaveInv, Joining, Saving
<1>5. \A q \in Requests, b \in Agents, h \in Groups : TakesOut(q, b, h) => TakesOut(q, b, h)'
  BY <1>1 DEF Only, TakesOut, Deleting
<1>6. job[r].group \in groups \cup blamed
  BY <1>1 DEF JoinInv, Joining
<1>7. MembersHaveGroup'
  BY <1>1, <1>2, <1>5, <1>6 DEF MembersHaveGroup
<1>8. MemSaved'
  BY <1>1, <1>2, <1>5 DEF MemSaved, Only
<1> QED
  BY <1>3, <1>4, <1>7, <1>8

\* The deletion takes one more agent out, or the group is blamed.
LEMMA RemoveGroupInv ==
  ASSUME IInv, NEW r \in Requests, NEW a \in Agents, RemoveGroup(r, a)
  PROVE  IInv'
<1> USE DEF IInv
<1>1. /\ job[r].pc = "entries" /\ job'[r].pc = "entries" /\ Only(r)
      /\ job[r].op = "delete" /\ job'[r].op = "delete" /\ job[r].group \in Groups
      /\ job'[r].group = job[r].group /\ job'[r].todo = job[r].todo \ {a}
      /\ UNCHANGED <<server, groups, file, overlap, stale>>
  BY DEF RemoveGroup, GroupTypeOK, Jobs, JobInv, Only
<1>2. /\ member' \in [Agents -> SUBSET Groups]
      /\ \A b \in Agents : member'[b] \subseteq member[b]
      /\ blamed' \in SUBSET Groups /\ blamed \subseteq blamed'
      /\ job[r].group \in member'[a] => job[r].group \in blamed'
  BY <1>1 DEF RemoveGroup, GroupTypeOK
<1>3. GroupTypeOK'
  BY <1>1, <1>2 DEF RemoveGroup, GroupTypeOK, Jobs
<1>4. JobInv' /\ NoRun' /\ JoinInv' /\ SaveInv'
  BY <1>1, <1>2 DEF Only, JobInv, NoRun, JoinInv, SaveInv, Joining, Saving
<1>5. \A q \in Requests, b \in Agents, h \in Groups :
         TakesOut(q, b, h) => TakesOut(q, b, h)' \/ (b = a /\ h = job[r].group)
  BY <1>1 DEF Only, TakesOut, Deleting
<1>6. MembersHaveGroup'
  BY <1>1, <1>2, <1>5 DEF MembersHaveGroup
<1>7. MemSaved'
  BY <1>1, <1>2, <1>5 DEF MemSaved, Only
<1> QED
  BY <1>3, <1>4, <1>6, <1>7

\* No agent is left in the group when the deletion is answered.
LEMMA DeleteAnsweredInv ==
  ASSUME IInv, NEW r \in Requests, DeleteAnswered(r)
  PROVE  IInv'
<1> USE DEF IInv
<1>1. /\ job[r].pc = "entries" /\ job[r].todo = {} /\ job'[r].pc = "ok" /\ Only(r)
      /\ job'[r].group = job[r].group
      /\ UNCHANGED <<server, groups, file, member, overlap, stale, blamed>>
  BY DEF DeleteAnswered, Move, GroupTypeOK, Jobs, Only
<1>2. GroupTypeOK'
  BY <1>1 DEF DeleteAnswered, Move, GroupTypeOK, Jobs
<1>3. JobInv' /\ NoRun' /\ JoinInv' /\ SaveInv'
  BY <1>1 DEF Only, JobInv, NoRun, JoinInv, SaveInv, Joining, Saving
<1>4. \A q \in Requests, b \in Agents, h \in Groups : TakesOut(q, b, h) => TakesOut(q, b, h)'
  BY <1>1 DEF Only, TakesOut, Deleting
<1>5. MembersHaveGroup' /\ MemSaved'
  BY <1>1, <1>4 DEF Only, MembersHaveGroup, MemSaved
<1> QED
  BY <1>2, <1>3, <1>5

\* An agent that leaves a group harms nothing.
LEMMA RemoveAgentInv ==
  ASSUME IInv, NEW r \in Requests, RemoveAgent(r)
  PROVE  IInv'
<1> USE DEF IInv
<1>1. /\ job[r].pc = "sent" /\ job'[r].pc \in {"ok", "error"} /\ Only(r)
      /\ job'[r].group = job[r].group
      /\ UNCHANGED <<server, groups, file, overlap, stale, blamed>>
  BY DEF RemoveAgent, Handles, Move, GroupTypeOK, Jobs, Only
<1>2. /\ member' \in [Agents -> SUBSET Groups]
      /\ \A b \in Agents : member'[b] \subseteq member[b]
  BY <1>1 DEF RemoveAgent, GroupTypeOK
<1>3. GroupTypeOK'
  BY <1>1, <1>2 DEF RemoveAgent, Move, GroupTypeOK, Jobs
<1>4. JobInv' /\ NoRun' /\ JoinInv' /\ SaveInv'
  BY <1>1 DEF Only, JobInv, NoRun, JoinInv, SaveInv, Joining, Saving
<1>5. \A q \in Requests, b \in Agents, h \in Groups : TakesOut(q, b, h) => TakesOut(q, b, h)'
  BY <1>1 DEF Only, TakesOut, Deleting
<1>6. MembersHaveGroup' /\ MemSaved'
  BY <1>1, <1>2, <1>5 DEF Only, MembersHaveGroup, MemSaved
<1> QED
  BY <1>3, <1>4, <1>6

\* Deletions that a crash cuts short are blamed.
LEMMA CrashInv ==
  ASSUME IInv, Crash
  PROVE  IInv'
<1> USE DEF IInv
<1>1. /\ server' = "down"
      /\ \A r \in Requests : /\ job'[r].pc \in {"none", "ok", "error"}
                             /\ job'[r].group = job[r].group
                             /\ job[r].pc = "none" => job'[r].pc = "none"
      /\ UNCHANGED <<groups, file, member, overlap, stale>>
  BY DEF Crash, GroupTypeOK, Jobs
<1>2. /\ blamed' \in SUBSET Groups /\ blamed \subseteq blamed'
      /\ \A r \in Requests : Deleting(r) => job[r].group \in blamed'
  BY DEF Crash, GroupTypeOK, JobInv, Deleting
<1>3. GroupTypeOK'
  <2>1. job' \in [Requests -> Jobs]
    BY DEF Crash, GroupTypeOK, Jobs
  <2> QED
    BY <1>1, <1>2, <2>1 DEF GroupTypeOK
<1>4. JobInv' /\ NoRun' /\ JoinInv' /\ SaveInv'
  BY <1>1 DEF JobInv, NoRun, JoinInv, SaveInv, Joining, Saving
<1>5. \A q \in Requests, b \in Agents, h \in Groups : TakesOut(q, b, h) => h \in blamed'
  BY <1>2 DEF TakesOut
<1>6. MembersHaveGroup' /\ MemSaved'
  BY <1>1, <1>2, <1>5 DEF MembersHaveGroup, MemSaved, Crash
<1> QED
  BY <1>3, <1>4, <1>6

\* A restart takes the groups from the file.
LEMMA LoadInv ==
  ASSUME IInv, load
  PROVE  IInv'
<1> USE DEF IInv
<1>1. /\ server = "down" /\ overlap' = FALSE /\ stale' = FALSE /\ UNCHANGED <<file, member, job>>
      /\ \A r \in Requests : job[r].pc \in {"none", "ok", "error"}
  BY DEF load, NoRun
<1>2. \A q \in Requests, b \in Agents, h \in Groups : ~TakesOut(q, b, h)
  BY <1>1 DEF TakesOut, Deleting
<1>3. CASE ~Readable(file)
  <2>1. server' = "refused" /\ UNCHANGED <<groups, blamed>>
    BY <1>3 DEF load
  <2>2. GroupTypeOK'
    BY <1>1, <2>1 DEF GroupTypeOK
  <2>3. JobInv' /\ NoRun' /\ JoinInv' /\ SaveInv'
    BY <1>1, <2>1 DEF JobInv, NoRun, JoinInv, SaveInv, Joining, Saving
  <2>4. MembersHaveGroup' /\ MemSaved'
    BY <1>1, <1>2, <2>1 DEF MembersHaveGroup, MemSaved
  <2> QED
    BY <2>2, <2>3, <2>4
<1>4. CASE Readable(file)
  <2>1. /\ server' = "up" /\ groups' = file.data
        /\ blamed' = IF stale THEN blamed \cup (groups \ file.data) ELSE blamed
    BY <1>4 DEF load
  <2>2. GroupTypeOK'
    BY <1>1, <2>1 DEF GroupTypeOK, Files
  <2>3. JobInv' /\ NoRun' /\ JoinInv'
    BY <1>1, <2>1 DEF JobInv, NoRun, JoinInv, Joining, Saving
  <2>4. SaveInv'
    BY <1>1, <1>4, <2>1 DEF SaveInv, Saving, Readable
  <2>5. \A b \in Agents, h \in Groups \ (file.data \cup blamed') : h \notin member[b]
    BY <1>1, <1>2, <1>4, <2>1 DEF MembersHaveGroup, MemSaved
  <2>6. MembersHaveGroup' /\ MemSaved'
    BY <1>1, <2>1, <2>5 DEF MembersHaveGroup, MemSaved
  <2> QED
    BY <2>2, <2>3, <2>4, <2>6
<1> QED
  BY <1>3, <1>4

\* Every step of the store keeps the invariant.
LEMMA StepInv ==
  ASSUME IInv, NEW r \in Requests, GroupStep(r)
  PROVE  IInv'
BY CreateInv, DeleteInv, DeleteUnknownInv, SaveOpenInv, SaveWriteInv, SaveFailsInv,
   AddGroupInv, DeleteAnsweredInv, RemoveAgentInv, RemoveGroupInv DEF GroupStep

\* A step that changes nothing keeps the invariant.
LEMMA Stutter ==
  ASSUME IInv, UNCHANGED groupVars
  PROVE  IInv'
BY DEF IInv, groupVars, GroupTypeOK, JobInv, NoRun, JoinInv, MembersHaveGroup, SaveInv, MemSaved,
       TakesOut, Deleting, Joining, Saving, Readable, Empty

\* The invariant of the group store holds in every reachable state.
LEMMA Inductive == GroupSpec => []IInv
<1>1. ASSUME IInv, [GroupNext]_groupVars
      PROVE  IInv'
  <2>1. CASE Crash
    BY <1>1, <2>1, CrashInv
  <2>2. CASE load
    BY <1>1, <2>2, LoadInv
  <2>3. ASSUME NEW r \in Requests, GroupStep(r)
        PROVE  IInv'
    BY <1>1, <2>3, StepInv
  <2>4. ASSUME NEW r \in Requests, NEW g \in Groups,
               \/ \E op \in {"create", "delete"} : Ask(r, op, g, NoAgent)
               \/ \E op \in {"add", "remove-agent"}, a \in Agents : Ask(r, op, g, a)
        PROVE  IInv'
    BY <1>1, <2>4, AskInv DEF Ops
  <2>5. CASE UNCHANGED groupVars
    BY <1>1, <2>5, Stutter
  <2> QED
    BY <1>1, <2>1, <2>2, <2>3, <2>4, <2>5 DEF GroupNext
<1> QED
  BY <1>1, InitInv, PTL DEF GroupSpec

(***************************************************************************)
(* The store, the file and the entries keep their types, whatever requests *)
(* interleave, fail or are cut short by a crash.                           *)
(***************************************************************************)
THEOREM GroupTypeCorrect == GroupSpec => []GroupTypeOK
<1>1. IInv => GroupTypeOK
  BY DEF IInv
<1> QED
  BY <1>1, Inductive, PTL

(***************************************************************************)
(* No agent stays in a deleted group without one of the causes that        *)
(* MembersHaveGroup lists.                                                 *)
(***************************************************************************)
THEOREM MembersKeepTheirGroup == GroupSpec => []MembersHaveGroup
<1>1. IInv => MembersHaveGroup
  BY DEF IInv
<1> QED
  BY <1>1, Inductive, PTL

(***************************************************************************)
(* A save that has the store to itself brings the file up to date, for     *)
(* good or until saves overlap or fail.                                    *)
(***************************************************************************)
THEOREM NothingAnsweredIsLost == GroupSpec => []GroupsAreSaved
<1>1. IInv => GroupsAreSaved
  BY DEF IInv, SaveInv, GroupsAreSaved
<1> QED
  BY <1>1, Inductive, PTL
==============================================================================
