----------------------------- MODULE GroupStore -----------------------------
(***************************************************************************)
(* server/group_store.go and the group requests of handleCLIMessage: the   *)
(* groups are kept in memory under s.mu and in groups.json, and each agent *)
(* has the names of its groups in its registry entry.  A request changes   *)
(* the store, saves it after the unlock (os.WriteFile truncates the file,  *)
(* then writes it), and then changes registry entries one by one; every    *)
(* request has a goroutine of its own, and the server may crash anywhere.  *)
(*                                                                         *)
(* The registry is code outside the repository: each of its calls is one   *)
(* step, is saved at once, and may fail.  Names of groups come trimmed and *)
(* not empty (create and delete refuse an empty one at once).              *)
(***************************************************************************)
EXTENDS Naturals

CONSTANTS
    Groups, Agents, \* names of groups; the registered agents
    Requests,       \* CLI requests, each made once
    NoGroup, NoAgent

ASSUME GroupAssumption == NoGroup \notin Groups /\ NoAgent \notin Agents

VARIABLES
    server,         \* the server process: up, down, or refusing to start
    groups,         \* groupStore.groups
    file,           \* groups.json
    member,         \* the groups in each agent's registry entry
    job,            \* each request, and how far its handler has got
    overlap,        \* the latest change came while another was being saved
    stale,          \* since then, or since a save failed, none went well alone
    blamed          \* groups with a cause to have members without existing

groupVars == <<server, groups, file, member, job, overlap, stale, blamed>>

Ops == {"create", "delete", "add", "remove-agent"}

Files == [kind : {"missing", "empty", "broken", "groups"}, data : SUBSET Groups]
Missing == [kind |-> "missing", data |-> {}]
Empty == [kind |-> "empty", data |-> {}]
Broken == [kind |-> "broken", data |-> {}]
Saved(gs) == [kind |-> "groups", data |-> gs]
Readable(f) == f.kind \in {"missing", "groups"}

Jobs == [pc : {"none", "sent", "open", "write", "join", "entries", "ok", "error"},
         op : Ops \cup {"none"}, group : Groups \cup {NoGroup}, agent : Agents \cup {NoAgent},
         snapshot : SUBSET Groups, todo : SUBSET Agents]
NoJob == [pc |-> "none", op |-> "none", group |-> NoGroup, agent |-> NoAgent, snapshot |-> {}, todo |-> {}]

GroupTypeOK ==
    /\ server \in {"up", "down", "refused"}
    /\ groups \in SUBSET Groups
    /\ file \in Files
    /\ member \in [Agents -> SUBSET Groups]
    /\ job \in [Requests -> Jobs]
    /\ overlap \in BOOLEAN /\ stale \in BOOLEAN
    /\ blamed \in SUBSET Groups

\* A server that has been at work before: the groups are saved, and agents
\* are in groups that exist.
GroupInit ==
    /\ server = "up"
    /\ groups \in SUBSET Groups
    /\ file \in {Saved(groups)} \cup (IF groups = {} THEN {Missing} ELSE {})
    /\ member \in [Agents -> SUBSET groups]
    /\ job = [r \in Requests |-> NoJob]
    /\ overlap = FALSE /\ stale = FALSE
    /\ blamed = {}

Move(r, pc) == job' = [job EXCEPT ![r].pc = pc]
Saving(r) == job[r].pc \in {"open", "write"}

-----------------------------------------------------------------------------
(* The handlers.                                                           *)

\* The CLI's request reaches the server.
Ask(r, op, g, a) ==
    /\ server = "up"
    /\ job[r].pc = "none"
    /\ job' = [job EXCEPT ![r] = [NoJob EXCEPT !.pc = "sent", !.op = op, !.group = g, !.agent = a]]
    /\ UNCHANGED <<server, groups, file, member, overlap, stale, blamed>>

Handles(r, ops) == server = "up" /\ job[r].pc = "sent" /\ job[r].op \in ops

\* The store changes and the snapshot to save is taken, under s.mu.  (overlap,
\* stale and blamed are auxiliary: they only remember what has happened.)
Commit(r, gs) ==
    /\ groups' = gs
    /\ job' = [job EXCEPT ![r].pc = "open", ![r].snapshot = gs]
    /\ overlap' = \E q \in Requests \ {r} : Saving(q)
    /\ stale' = (stale \/ overlap')
    /\ UNCHANGED <<server, file, member>>

\* create, for a request to create a group or to add an agent to it.
create(r) ==
    /\ Handles(r, {"create", "add"})
    /\ Commit(r, groups \cup {job[r].group})
    /\ UNCHANGED blamed

\* A request that is about to add an agent to the group.
Joining(q, g) == job[q].pc \in {"open", "write", "join"} /\ job[q].op = "add" /\ job[q].group = g

delete(r) ==
    /\ Handles(r, {"delete"})
    /\ job[r].group \in groups
    /\ Commit(r, groups \ {job[r].group})
    /\ blamed' = IF \E q \in Requests : Joining(q, job[r].group) THEN blamed \cup {job[r].group} ELSE blamed

deleteUnknown(r) ==
    /\ Handles(r, {"delete"})
    /\ job[r].group \notin groups
    /\ Move(r, "error")
    /\ UNCHANGED <<server, groups, file, member, overlap, stale, blamed>>

SaveOpen(r) ==
    /\ job[r].pc = "open"
    /\ file' = Empty
    /\ Move(r, "write")
    /\ UNCHANGED <<server, groups, member, overlap, stale, blamed>>

\* Mutant: a deletion is answered as soon as it is saved.
HandlerForgetsMembers == [create |-> "ok", add |-> "join", delete |-> "ok"]

\* What the handler does once the store is saved.
AfterSave == [create |-> "ok", add |-> "join", delete |-> "entries"]

\* Mutant: the file is written as it was read.
SaveWriteLost(r) ==
    /\ job[r].pc = "write"
    /\ file' = file
    /\ job' = [job EXCEPT ![r].pc = AfterSave[job[r].op], ![r].todo = Agents]
    /\ stale' = (stale /\ overlap)
    /\ UNCHANGED <<server, groups, member, overlap, blamed>>

\* A file that another request has written meanwhile may be longer, and its
\* end then remains.
SaveWrite(r) ==
    /\ job[r].pc = "write"
    /\ \/ file' = Saved(job[r].snapshot)
       \/ file \notin {Empty, Saved(job[r].snapshot)} /\ file' = Broken
    /\ job' = [job EXCEPT ![r].pc = AfterSave[job[r].op], ![r].todo = Agents]
    /\ stale' = (stale /\ overlap)
    /\ UNCHANGED <<server, groups, member, overlap, blamed>>

\* The request is answered with an error, and goes no further.
SaveFails(r) ==
    /\ Saving(r)
    /\ \/ UNCHANGED file
       \/ job[r].pc = "write" /\ file' = Broken
    /\ Move(r, "error")
    /\ stale' = TRUE
    /\ blamed' = IF job[r].op = "delete" THEN blamed \cup {job[r].group} ELSE blamed
    /\ UNCHANGED <<server, groups, member, overlap>>

\* AddGroup, or its failure (an agent that is not registered): the group
\* stays all the same.  The registry gets the name as it came, the store
\* the name without blanks around it: Groups are names without such blanks.
AddGroup(r) ==
    /\ job[r].pc = "join"
    /\ \/ member' = [member EXCEPT ![job[r].agent] = @ \cup {job[r].group}] /\ Move(r, "ok")
       \/ UNCHANGED member /\ Move(r, "error")
    /\ UNCHANGED <<server, groups, file, overlap, stale, blamed>>

\* RemoveGroup for one entry of the list; its error is ignored.
RemoveGroup(r, a) ==
    /\ job[r].pc = "entries"
    /\ a \in job[r].todo
    /\ job' = [job EXCEPT ![r].todo = @ \ {a}]
    /\ \/ member' = [member EXCEPT ![a] = @ \ {job[r].group}] /\ UNCHANGED blamed
       \/ UNCHANGED member /\ blamed' = blamed \cup {job[r].group}
    /\ UNCHANGED <<server, groups, file, overlap, stale>>

DeleteAnswered(r) ==
    /\ job[r].pc = "entries"
    /\ job[r].todo = {}
    /\ Move(r, "ok")
    /\ UNCHANGED <<server, groups, file, member, overlap, stale, blamed>>

\* The request remove-agent is a single call of the registry.
RemoveAgent(r) ==
    /\ Handles(r, {"remove-agent"})
    /\ \/ member' = [member EXCEPT ![job[r].agent] = @ \ {job[r].group}] /\ Move(r, "ok")
       \/ UNCHANGED member /\ Move(r, "error")
    /\ UNCHANGED <<server, groups, file, overlap, stale, blamed>>

-----------------------------------------------------------------------------
Deleting(r) == job[r].op = "delete" /\ job[r].pc \in {"open", "write", "entries"}

Crash ==
    /\ server = "up"
    /\ server' = "down"
    /\ job' = [r \in Requests |-> IF job[r].pc \in {"none", "ok"} THEN job[r]
                                  ELSE [job[r] EXCEPT !.pc = "error"]]
    /\ blamed' = blamed \cup {job[r].group : r \in {q \in Requests : Deleting(q)}}
    /\ UNCHANGED <<groups, file, member, overlap, stale>>

\* newGroupStore: a file that cannot be parsed keeps the server from
\* starting.
load ==
    /\ server = "down"
    /\ \/ ~Readable(file) /\ server' = "refused" /\ UNCHANGED <<groups, blamed>>
       \/ /\ Readable(file)
          /\ server' = "up"
          /\ groups' = file.data
          /\ blamed' = IF stale THEN blamed \cup (groups \ file.data) ELSE blamed
    /\ overlap' = FALSE /\ stale' = FALSE
    /\ UNCHANGED <<file, member, job>>

GroupStep(r) ==
    \/ create(r) \/ delete(r) \/ deleteUnknown(r) \/ SaveOpen(r) \/ SaveWrite(r) \/ SaveFails(r)
    \/ AddGroup(r) \/ DeleteAnswered(r) \/ RemoveAgent(r)
    \/ \E a \in Agents : RemoveGroup(r, a)

GroupNext ==
    \/ Crash \/ load
    \/ \E r \in Requests :
         \/ GroupStep(r)
         \/ \E g \in Groups :
              \/ \E op \in {"create", "delete"} : Ask(r, op, g, NoAgent)
              \/ \E op \in {"add", "remove-agent"}, a \in Agents : Ask(r, op, g, a)

GroupSpec == GroupInit /\ [][GroupNext]_groupVars

-----------------------------------------------------------------------------
(* Properties.                                                             *)

\* A deletion of the group that has not come to the agent yet.
TakesOut(r, a, g) == /\ Deleting(r) /\ job[r].group = g
                     /\ job[r].pc = "entries" => a \in job[r].todo

(***************************************************************************)
(* An agent is in a group that does not exist only while the deletion that *)
(* will take it out is still at work, or for a cause: the save of the      *)
(* deletion failed, a crash cut it short, the registry refused a change,   *)
(* an addition was already under way when the group was deleted, or a      *)
(* restart has read a file that overlapping or failed saves left behind.   *)
(***************************************************************************)
MembersHaveGroup ==
    \A a \in Agents, g \in Groups \ (groups \cup blamed) :
       g \in member[a] => \E r \in Requests : TakesOut(r, a, g)

(***************************************************************************)
(* What the server knows is what it would read after a crash, so that no   *)
(* addition or deletion that has been answered is lost, whatever happened  *)
(* before the latest save that had the store to itself; only saves that    *)
(* have overlapped or failed since are not covered.                        *)
(***************************************************************************)
GroupsAreSaved ==
    server = "up" /\ ~stale /\ (\A r \in Requests : ~Saving(r)) => Readable(file) /\ file.data = groups
=============================================================================
