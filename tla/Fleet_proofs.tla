---------------------------- MODULE Fleet_proofs ----------------------------
(***************************************************************************)
(* Fleet is proved correct for any groups, agents and invocations.  It is  *)
(* first shown to do nothing to the groups that GroupStore does not do     *)
(* (Implements), so all that is proved of GroupSpec holds here too.  The   *)
(* properties of the invocations then rest on what is known of a command   *)
(* at every stage between the command line and the exit code.              *)
(***************************************************************************)
EXTENDS Fleet, GroupStore_proofs

(***************************************************************************)
(* Whatever the command line, the client, the server's handlers and the    *)
(* agents do, the groups are used as GroupStore says.                      *)
(***************************************************************************)
THEOREM Implements == Spec => GroupSpec
<1>1. Init => GroupInit
  BY DEF Init
<1>2. [Next]_vars => [GroupNext]_groupVars
  <2> SUFFICES ASSUME [Next]_vars PROVE GroupNext \/ UNCHANGED groupVars
    OBVIOUS
  <2>1. CASE ServerCrash \/ ServerStart
    BY <2>1 DEF ServerCrash, ServerStart, GroupNext
  <2>2. ASSUME NEW c \in Requests, CLI(c)
        PROVE  UNCHANGED groupVars
    BY <2>2 DEF CLI, printResult, runExecMany, do, Collect
  <2>3. ASSUME NEW c \in Requests, GroupWork(c)
        PROVE  GroupNext
    BY <2>3 DEF GroupWork, GroupNext
  <2>4. ASSUME NEW c \in Requests, NEW a \in Agents,
               handleExec(c, a) \/ handleServerMessage(c, a) \/ Answer(c, a)
        PROVE  UNCHANGED groupVars
    BY <2>4 DEF handleExec, handleServerMessage, Answer
  <2>5. ASSUME NEW c \in Requests, NEW active, NEW named, NEW command, RunOne(c, active, named, command)
        PROVE  UNCHANGED groupVars
    BY <2>5 DEF RunOne
  <2>6. ASSUME NEW c \in Requests, NEW g \in Groups,
               \/ \E op \in {"create", "delete"} : runGroup(c, op, g, NoAgent)
               \/ \E op \in {"add", "remove-agent"}, a \in Agents : runGroup(c, op, g, a)
        PROVE  GroupNext \/ UNCHANGED groupVars
    BY <2>6 DEF runGroup, GroupNext
  <2>7. ASSUME NEW c \in Requests, NEW task, NEW g, NEW command, RunMany(c, task, g, command)
        PROVE  UNCHANGED groupVars
    BY <2>7 DEF RunMany
  <2>8. CASE UNCHANGED vars
    BY <2>8 DEF vars
  <2> QED
    BY <2>1, <2>2, <2>3, <2>4, <2>5, <2>6, <2>7, <2>8 DEF Next
<1> QED
  BY <1>1, <1>2, PTL DEF Spec, GroupSpec

-----------------------------------------------------------------------------
(* The inductive invariant of the invocations.                             *)

FleetTypeOK ==
    /\ inv \in [Requests -> Invocations]
    /\ call \in [Requests -> [Agents -> Stages]]
    /\ out \in [Requests -> [Agents -> {"none", "wait", "ok", "error"}]]

\* A command on one agent: where it may be, and what its stage tells.
CallOK(c, a) ==
    /\ call[c][a] = "none" <=> out[c][a] = "none"
    /\ inv[c].pc \in {"new", "ask", "list"} => call[c][a] = "none"
    /\ call[c][a] # "none" => a \in inv[c].may \/ inv[c].command = "name"
    /\ inv[c].command = "name" => call[c][a] \notin {"trusted", "ran", "shell"}
    /\ call[c][a] \in {"trusted", "shell"} => inv[c].command = "script"
    /\ out[c][a] = "ok" => call[c][a] \in {"ran", "shell"}

\* An invocation: before its list has come, it may reach whom it would choose.
InvOK(c) ==
    /\ inv[c].pc = "ask" => inv[c].task \in Ops
    /\ inv[c].pc \in {"list", "wait"} => inv[c].task \in Tasks \ Ops
    /\ inv[c].pc = "list" => \/ inv[c].task = "exec --all" /\ inv[c].may = Agents
                             \/ inv[c].task = "exec --group" /\ Members(inv[c].group) \subseteq inv[c].may
    /\ inv[c].pc = "wait" => \E a \in Agents : call[c][a] # "none"

ExitOK(c) ==
    inv[c].pc = "exit" /\ inv[c].code = 0 =>
        IF inv[c].task \in Ops THEN job[c].pc = "ok"
        ELSE /\ \E a \in Agents : call[c][a] # "none"
             /\ \A a \in Agents : call[c][a] \in {"none", "ran", "shell"}

ReqOK(c) == (\A a \in Agents : CallOK(c, a)) /\ InvOK(c) /\ ExitOK(c)

FleetInv == FleetTypeOK /\ \A c \in Requests : ReqOK(c)

\* A step that has nothing to do with the invocation.
Same(c) == /\ inv'[c] = inv[c] /\ call'[c] = call[c] /\ out'[c] = out[c] /\ job'[c] = job[c]
           /\ UNCHANGED member

\* An invocation that a step does not touch stays all right.
LEMMA SameOK ==
  ASSUME NEW c \in Requests, ReqOK(c), Same(c)
  PROVE  ReqOK(c)'
BY DEF ReqOK, Same, CallOK, InvOK, ExitOK, Members

\* Nothing has been started yet.
LEMMA FleetInit == Init => FleetInv
<1> SUFFICES ASSUME Init PROVE FleetInv
  OBVIOUS
<1>1. NotYet \in Invocations
  BY DEF NotYet, Invocations
<1>2. FleetTypeOK
  BY <1>1 DEF Init, FleetTypeOK, Stages
<1>3. ASSUME NEW c \in Requests
      PROVE  ReqOK(c)
  BY <1>2 DEF Init, NotYet, ReqOK, CallOK, InvOK, ExitOK
<1> QED
  BY <1>2, <1>3 DEF FleetInv

\* An answered group request stays answered.
LEMMA OkStays ==
  ASSUME GroupTypeOK, NEW r \in Requests, GroupStep(r), NEW c \in Requests
  PROVE  job[c].pc = "ok" => job'[c].pc = "ok"
<1>1. c # r => job'[c] = job[c]
  BY DEF GroupStep, create, delete, deleteUnknown, SaveOpen, SaveWrite, SaveFails, AddGroup, DeleteAnswered,
         RemoveAgent, RemoveGroup, Commit, Move, GroupTypeOK
<1>2. job[r].pc # "ok"
  BY DEF GroupStep, create, delete, deleteUnknown, SaveOpen, SaveWrite, SaveFails, AddGroup, DeleteAnswered,
         RemoveAgent, RemoveGroup, Handles, Saving
<1> QED
  BY <1>1, <1>2

\* The end of an invocation.
LEMMA ExitFacts ==
  ASSUME FleetTypeOK, NEW c \in Requests, NEW code \in {0, 1}, Exit(c, code)
  PROVE  /\ inv' \in [Requests -> Invocations]
         /\ inv'[c].pc = "exit" /\ inv'[c].code = code
         /\ inv'[c].task = inv[c].task /\ inv'[c].may = inv[c].may /\ inv'[c].command = inv[c].command
         /\ \A d \in Requests \ {c} : inv'[d] = inv[d]
<1> DEFINE i == [inv[c] EXCEPT !.pc = "exit", !.code = code]
<1>1. inv' = [inv EXCEPT ![c] = i]
  BY DEF Exit, FleetTypeOK, Invocations
<1>2. /\ i \in Invocations /\ i.pc = "exit" /\ i.code = code
      /\ i.task = inv[c].task /\ i.may = inv[c].may /\ i.command = inv[c].command
  <2>1. inv[c] \in Invocations
    BY DEF FleetTypeOK
  <2> QED
    BY <2>1 DEF Invocations
<1> HIDE DEF i
<1> QED
  BY <1>1, <1>2 DEF FleetTypeOK

-----------------------------------------------------------------------------
(* The command line.                                                       *)

\* A command for one agent goes to the agent that the operator means.
LEMMA RunOneInv ==
  ASSUME GroupAssumption, FleetInv, NEW c \in Requests,
         NEW active \in Agents \cup {NoAgent}, NEW named \in Agents \cup {NoAgent},
         NEW command \in Commands \ {"name"}, RunOne(c, active, named, command)
  PROVE  FleetInv'
<1> DEFINE line == resolveShellCommand(active, named, command)
           given == IF named # NoAgent THEN named ELSE active
           i == [NotYet EXCEPT !.pc = "wait", !.task = "exec", !.command = line.command, !.may = {given}]
<1>1. /\ line.command \in Commands /\ line.agent \in Agents /\ given \in Agents
      /\ line.agent = given \/ line.command = "name"
  BY DEF RunOne, resolveShellCommand, Commands, GroupAssumption
<1>2. /\ inv[c].pc = "new" /\ inv' = [inv EXCEPT ![c] = i] /\ Send(c, {line.agent})
      /\ UNCHANGED groupVars
  BY DEF RunOne, Begin
<1>3. i \in Invocations
  BY <1>1 DEF NotYet, Invocations, Tasks, Ops
<1>4. i.pc = "wait" /\ i.task = "exec" /\ i.command = line.command /\ i.may = {given}
  BY DEF NotYet
<1> HIDE DEF line, given, i
<1>5. /\ call' = [call EXCEPT ![c] = [a \in Agents |-> IF a # line.agent THEN call[c][a]
                                                      ELSE IF server = "up" THEN "sent" ELSE "refused"]]
      /\ out' = [out EXCEPT ![c] = [a \in Agents |-> IF a = line.agent THEN "wait" ELSE out[c][a]]]
  BY <1>2 DEF Send, FleetInv, FleetTypeOK
<1>6. FleetTypeOK'
  BY <1>2, <1>3, <1>5 DEF FleetInv, FleetTypeOK, Stages
<1>7. ASSUME NEW d \in Requests \ {c}
      PROVE  ReqOK(d)'
  BY <1>2, <1>5, SameOK DEF Same, groupVars, FleetInv, FleetTypeOK
<1>8. ReqOK(c)'
  <2>1. \A a \in Agents : call[c][a] = "none" /\ out[c][a] = "none"
    BY <1>2 DEF FleetInv, ReqOK, CallOK
  <2>2. inv'[c] = i
    BY <1>2 DEF FleetInv, FleetTypeOK
  <2>3. \A a \in Agents : IF a = line.agent THEN call'[c][a] \in {"sent", "refused"} /\ out'[c][a] = "wait"
                                            ELSE call'[c][a] = "none" /\ out'[c][a] = "none"
    BY <1>5, <2>1 DEF FleetInv, FleetTypeOK
  <2>4. \A a \in Agents : CallOK(c, a)'
    BY <1>1, <1>4, <2>2, <2>3 DEF CallOK
  <2>5. InvOK(c)' /\ ExitOK(c)'
    BY <1>1, <1>4, <2>2, <2>3 DEF InvOK, ExitOK, Tasks, Ops
  <2> QED
    BY <2>4, <2>5 DEF ReqOK
<1> QED
  BY <1>6, <1>7, <1>8 DEF FleetInv

\* The members at the start of a group command count as addressed.
LEMMA RunManyInv ==
  ASSUME FleetInv, NEW c \in Requests, NEW task \in {"exec --all", "exec --group"},
         NEW g \in Groups \cup {NoGroup}, NEW command \in Commands, RunMany(c, task, g, command)
  PROVE  FleetInv'
<1> DEFINE may == IF task = "exec --all" THEN Agents ELSE Members(g)
           i == [NotYet EXCEPT !.pc = "list", !.task = task, !.group = g, !.command = command, !.may = may]
<1>1. inv[c].pc = "new" /\ inv' = [inv EXCEPT ![c] = i] /\ UNCHANGED <<groupVars, call, out>>
  BY DEF RunMany, Begin
<1>2. may \in SUBSET Agents
  BY DEF Members
<1>3. i \in Invocations
  <2> HIDE DEF may
  <2> QED BY <1>2 DEF NotYet, Invocations, Tasks
<1>4. i.pc = "list" /\ i.task = task /\ i.group = g /\ i.may = may
  BY DEF NotYet
<1> HIDE DEF i
<1>5. FleetTypeOK'
  BY <1>1, <1>3 DEF FleetInv, FleetTypeOK
<1>6. ASSUME NEW d \in Requests \ {c}
      PROVE  ReqOK(d)'
  BY <1>1, SameOK DEF Same, groupVars, FleetInv, FleetTypeOK
<1>7. ReqOK(c)'
  <2>1. inv'[c] = i
    BY <1>1 DEF FleetInv, FleetTypeOK
  <2>2. \A a \in Agents : CallOK(c, a)'
    BY <1>1, <1>4, <2>1 DEF CallOK, FleetInv, ReqOK
  <2>3. InvOK(c)' /\ ExitOK(c)'
    BY <1>1, <1>4, <2>1 DEF InvOK, ExitOK, Tasks, Ops, Members, groupVars
  <2> QED
    BY <2>2, <2>3 DEF ReqOK
<1> QED
  BY <1>5, <1>6, <1>7 DEF FleetInv

\* A group request is one of the store's.
LEMMA RunGroupInv ==
  ASSUME GroupTypeOK, FleetInv, NEW c \in Requests, NEW op \in Ops, NEW g \in Groups, NEW a, runGroup(c, op, g, a)
  PROVE  FleetInv'
<1> DEFINE i == [NotYet EXCEPT !.pc = "ask", !.task = op, !.group = g]
<1>1. inv[c].pc = "new" /\ inv' = [inv EXCEPT ![c] = i] /\ UNCHANGED <<member, call, out>>
  BY DEF runGroup, Begin, Ask, groupVars
<1>2. i \in Invocations /\ i.pc = "ask" /\ i.task = op
  BY DEF NotYet, Invocations, Tasks
<1> HIDE DEF i
<1>3. FleetTypeOK'
  BY <1>1, <1>2 DEF FleetInv, FleetTypeOK
<1>4. ASSUME NEW d \in Requests \ {c}
      PROVE  ReqOK(d)'
  <2>1. job'[d] = job[d]
    BY DEF runGroup, Ask, groupVars, GroupTypeOK
  <2> QED
    BY <1>1, <2>1, SameOK DEF Same, FleetInv, FleetTypeOK
<1>5. ReqOK(c)'
  BY <1>1, <1>2 DEF ReqOK, CallOK, InvOK, ExitOK, FleetInv, FleetTypeOK
<1> QED
  BY <1>3, <1>4, <1>5 DEF FleetInv

\* The exit code of a group request is the server's answer.
LEMMA PrintResultInv ==
  ASSUME FleetInv, NEW c \in Requests, printResult(c)
  PROVE  FleetInv'
<1> DEFINE code == IF job[c].pc = "ok" THEN 0 ELSE 1
<1>1. inv[c].pc = "ask" /\ Exit(c, code) /\ UNCHANGED <<groupVars, call, out>>
  BY DEF printResult
<1>2. code \in {0, 1} /\ (code = 0 => job[c].pc = "ok")
  OBVIOUS
<1> HIDE DEF code
<1>3. /\ inv' \in [Requests -> Invocations]
      /\ inv'[c].pc = "exit" /\ inv'[c].code = code
      /\ inv'[c].task = inv[c].task /\ inv'[c].may = inv[c].may /\ inv'[c].command = inv[c].command
      /\ \A d \in Requests \ {c} : inv'[d] = inv[d]
  BY <1>1, <1>2, ExitFacts DEF FleetInv
<1>4. FleetTypeOK'
  BY <1>1, <1>3 DEF FleetInv, FleetTypeOK
<1>5. ASSUME NEW d \in Requests \ {c}
      PROVE  ReqOK(d)'
  BY <1>1, <1>3, SameOK DEF Same, groupVars, FleetInv
<1>6. \A a \in Agents : CallOK(c, a)'
  BY <1>1, <1>3 DEF FleetInv, ReqOK, CallOK
<1>7. InvOK(c)' /\ ExitOK(c)'
  BY <1>1, <1>2, <1>3 DEF FleetInv, ReqOK, InvOK, ExitOK, groupVars
<1> QED
  BY <1>4, <1>5, <1>6, <1>7 DEF FleetInv, ReqOK

\* The agents chosen from the list have been addressed.
LEMMA RunExecManyInv ==
  ASSUME FleetInv, NEW c \in Requests, runExecMany(c)
  PROVE  FleetInv'
<1>1. PICK online \in SUBSET Agents :
        IF Chosen(c, online) = {} THEN Exit(c, 1) /\ UNCHANGED <<call, out>>
        ELSE inv' = [inv EXCEPT ![c].pc = "wait"] /\ Send(c, Chosen(c, online))
  BY DEF runExecMany
<1> DEFINE targets == Chosen(c, online)
<1>2. inv[c].pc = "list" /\ UNCHANGED groupVars
  BY DEF runExecMany
<1>3. targets \subseteq inv[c].may /\ targets \subseteq Agents
  BY <1>2 DEF Chosen, FleetInv, ReqOK, InvOK
<1>4. \A a \in Agents : call[c][a] = "none" /\ out[c][a] = "none"
  BY <1>2 DEF FleetInv, ReqOK, CallOK
<1> HIDE DEF targets
<1>5. CASE targets = {}
  <2>1. Exit(c, 1) /\ UNCHANGED <<call, out>>
    BY <1>1, <1>5 DEF targets
  <2>2. /\ inv' \in [Requests -> Invocations] /\ inv'[c].pc = "exit" /\ inv'[c].code = 1
        /\ \A d \in Requests \ {c} : inv'[d] = inv[d]
    BY <2>1, ExitFacts DEF FleetInv
  <2>3. FleetTypeOK'
    BY <2>1, <2>2 DEF FleetInv, FleetTypeOK
  <2>4. ASSUME NEW d \in Requests \ {c}
        PROVE  ReqOK(d)'
    BY <1>2, <2>1, <2>2, SameOK DEF Same, groupVars, FleetInv
  <2>5. ReqOK(c)'
    BY <1>4, <2>1, <2>2 DEF ReqOK, CallOK, InvOK, ExitOK
  <2> QED
    BY <2>3, <2>4, <2>5 DEF FleetInv
<1>6. CASE targets # {}
  <2>1. inv' = [inv EXCEPT ![c].pc = "wait"] /\ Send(c, targets)
    BY <1>1, <1>6 DEF targets
  <2>2. /\ call' = [call EXCEPT ![c] = [a \in Agents |-> IF a \notin targets THEN call[c][a]
                                                        ELSE IF server = "up" THEN "sent" ELSE "refused"]]
        /\ out' = [out EXCEPT ![c] = [a \in Agents |-> IF a \in targets THEN "wait" ELSE out[c][a]]]
    BY <2>1 DEF Send, FleetInv, FleetTypeOK
  <2>3. FleetTypeOK'
    <3>1. inv' \in [Requests -> Invocations]
      <4>1. inv[c] \in Invocations
        BY DEF FleetInv, FleetTypeOK
      <4>2. [inv[c] EXCEPT !.pc = "wait"] \in Invocations
        BY <4>1 DEF Invocations
      <4> QED
        BY <2>1, <4>2 DEF FleetInv, FleetTypeOK
    <3>2. /\ call' \in [Requests -> [Agents -> Stages]]
          /\ out' \in [Requests -> [Agents -> {"none", "wait", "ok", "error"}]]
      BY <2>2 DEF FleetInv, FleetTypeOK, Stages
    <3> QED
      BY <3>1, <3>2 DEF FleetTypeOK
  <2>4. ASSUME NEW d \in Requests \ {c}
        PROVE  ReqOK(d)'
    BY <1>2, <2>1, <2>2, SameOK DEF Same, groupVars, FleetInv, FleetTypeOK
  <2>5. /\ inv'[c].pc = "wait" /\ inv'[c].task = inv[c].task /\ inv'[c].may = inv[c].may
        /\ inv'[c].command = inv[c].command
    BY <2>1 DEF FleetInv, FleetTypeOK, Invocations
  <2>6. \A a \in Agents : IF a \in targets THEN call'[c][a] \in {"sent", "refused"} /\ out'[c][a] = "wait"
                                            ELSE call'[c][a] = "none" /\ out'[c][a] = "none"
    BY <1>4, <2>2 DEF FleetInv, FleetTypeOK
  <2>7. \A a \in Agents : CallOK(c, a)'
    BY <1>3, <2>5, <2>6 DEF CallOK
  <2>8. InvOK(c)' /\ ExitOK(c)'
    BY <1>2, <1>3, <1>6, <2>5, <2>6 DEF InvOK, ExitOK, FleetInv, ReqOK
  <2> QED
    BY <2>3, <2>4, <2>7, <2>8 DEF FleetInv, ReqOK
<1> QED
  BY <1>5, <1>6

\* A deadline turns a missing answer into an error.
LEMMA DoInv ==
  ASSUME FleetInv, NEW c \in Requests, do(c)
  PROVE  FleetInv'
<1>1. UNCHANGED <<groupVars, call>>
  BY DEF do
<1>2. CASE inv[c].pc \in {"ask", "list"} /\ Exit(c, 1) /\ UNCHANGED out
  <2>1. /\ inv' \in [Requests -> Invocations] /\ inv'[c].pc = "exit" /\ inv'[c].code = 1
        /\ \A d \in Requests \ {c} : inv'[d] = inv[d]
    BY <1>2, ExitFacts DEF FleetInv
  <2>2. FleetTypeOK'
    BY <1>1, <1>2, <2>1 DEF FleetInv, FleetTypeOK
  <2>3. ASSUME NEW d \in Requests \ {c}
        PROVE  ReqOK(d)'
    BY <1>1, <1>2, <2>1, SameOK DEF Same, groupVars, FleetInv
  <2>4. \A a \in Agents : call'[c][a] = "none" /\ out'[c][a] = "none"
    BY <1>1, <1>2 DEF FleetInv, ReqOK, CallOK
  <2>5. ReqOK(c)'
    BY <2>1, <2>4 DEF ReqOK, CallOK, InvOK, ExitOK
  <2> QED
    BY <2>2, <2>3, <2>5 DEF FleetInv
<1>3. ASSUME inv[c].pc = "wait", UNCHANGED inv,
             NEW a \in Agents, out[c][a] = "wait", out' = [out EXCEPT ![c][a] = "error"]
      PROVE  FleetInv'
  <2>1. FleetTypeOK'
    BY <1>1, <1>3 DEF FleetInv, FleetTypeOK
  <2>2. ASSUME NEW d \in Requests \ {c}
        PROVE  ReqOK(d)'
    BY <1>1, <1>3, SameOK DEF Same, groupVars, FleetInv, FleetTypeOK
  <2>3. out'[c][a] = "error" /\ \A b \in Agents \ {a} : out'[c][b] = out[c][b]
    BY <1>3 DEF FleetInv, FleetTypeOK
  <2>4. \A b \in Agents : CallOK(c, b)'
    BY <1>1, <1>3, <2>3 DEF CallOK, FleetInv, ReqOK
  <2>5. InvOK(c)' /\ ExitOK(c)'
    BY <1>1, <1>3 DEF InvOK, ExitOK, Members, groupVars, FleetInv, ReqOK
  <2> QED
    BY <2>1, <2>2, <2>4, <2>5 DEF FleetInv, ReqOK
<1> QED
  BY <1>2, <1>3 DEF do

\* The exit code is 0 only if every result is a success.
LEMMA CollectInv ==
  ASSUME FleetInv, NEW c \in Requests, Collect(c)
  PROVE  FleetInv'
<1>1. /\ inv[c].pc = "wait" /\ UNCHANGED <<groupVars, call, out>>
      /\ \A a \in Agents : out[c][a] # "wait"
      /\ Exit(c, exitCode(c))
  BY DEF Collect
<1>2. exitCode(c) \in {0, 1} /\ (exitCode(c) = 0 => \A a \in Agents : out[c][a] # "error")
  BY DEF exitCode
<1>3. /\ inv' \in [Requests -> Invocations]
      /\ inv'[c].pc = "exit" /\ inv'[c].code = exitCode(c)
      /\ inv'[c].task = inv[c].task /\ inv'[c].may = inv[c].may /\ inv'[c].command = inv[c].command
      /\ \A d \in Requests \ {c} : inv'[d] = inv[d]
  BY <1>1, <1>2, ExitFacts DEF FleetInv
<1>4. FleetTypeOK'
  BY <1>1, <1>3 DEF FleetInv, FleetTypeOK
<1>5. ASSUME NEW d \in Requests \ {c}
      PROVE  ReqOK(d)'
  BY <1>1, <1>3, SameOK DEF Same, groupVars, FleetInv
<1>6. \A a \in Agents : CallOK(c, a)'
  BY <1>1, <1>3 DEF FleetInv, ReqOK, CallOK
<1>7. exitCode(c) = 0 => \A a \in Agents : call[c][a] \in {"none", "ran", "shell"}
  BY <1>1, <1>2 DEF FleetInv, FleetTypeOK, ReqOK, CallOK
<1>8. InvOK(c)' /\ ExitOK(c)'
  BY <1>1, <1>3, <1>7 DEF FleetInv, ReqOK, InvOK, ExitOK, Tasks
<1> QED
  BY <1>4, <1>5, <1>6, <1>8 DEF FleetInv, ReqOK

-----------------------------------------------------------------------------
(* The server and the agents.                                              *)

\* A step of one command on one agent changes nothing else.
OnlyCall(c, a) ==
    /\ \A d \in Requests \ {c} : call'[d] = call[d] /\ out'[d] = out[d]
    /\ \A b \in Agents \ {a} : call'[c][b] = call[c][b] /\ out'[c][b] = out[c][b]
    /\ UNCHANGED <<groupVars, inv>>

\* A step of one command on one agent leaves the others alone.
LEMMA OneCall ==
  ASSUME FleetInv, FleetTypeOK', NEW c \in Requests, NEW a \in Agents, OnlyCall(c, a),
         CallOK(c, a)', call[c][a] \notin {"none", "ran", "shell"} \/ UNCHANGED call, call'[c][a] # "none"
  PROVE  FleetInv'
<1>1. ASSUME NEW d \in Requests \ {c}
      PROVE  ReqOK(d)'
  BY SameOK DEF OnlyCall, Same, groupVars, FleetInv
<1>2. \A b \in Agents : CallOK(c, b)'
  BY DEF OnlyCall, CallOK, FleetInv, ReqOK
<1>3. InvOK(c)'
  BY DEF OnlyCall, InvOK, Members, groupVars, FleetInv, ReqOK
<1>4. ExitOK(c)'
  <2> SUFFICES ASSUME inv[c].pc = "exit", inv[c].code = 0 PROVE ExitOK(c)'
    BY DEF OnlyCall, ExitOK
  <2>1. CASE inv[c].task \in Ops
    BY <2>1 DEF OnlyCall, ExitOK, groupVars, FleetInv, ReqOK
  <2>2. CASE inv[c].task \notin Ops
    <3>1. UNCHANGED call
      BY <2>2 DEF ExitOK, FleetInv, ReqOK
    <3> QED
      BY <2>2, <3>1 DEF OnlyCall, ExitOK, FleetInv, ReqOK
  <2> QED
    BY <2>1, <2>2
<1> QED
  BY <1>1, <1>2, <1>3, <1>4 DEF FleetInv, ReqOK

\* The server dispatches a script with TrustedAdmin, and nothing else.
LEMMA HandleExecInv ==
  ASSUME FleetInv, NEW c \in Requests, NEW a \in Agents, handleExec(c, a)
  PROVE  FleetInv'
<1>1. call[c][a] = "sent" /\ UNCHANGED <<groupVars, inv>>
  BY DEF handleExec
<1>2. PICK stage \in {"trusted", "plain", "refused"}, o \in {out[c][a], "error"} :
        /\ call' = [call EXCEPT ![c][a] = stage] /\ out' = [out EXCEPT ![c][a] = o]
        /\ stage = "trusted" => inv[c].command = "script"
  BY DEF handleExec, Stage, findCommand, FleetInv, FleetTypeOK
<1>3. FleetTypeOK'
  BY <1>1, <1>2 DEF FleetInv, FleetTypeOK, Stages
<1>4. OnlyCall(c, a) /\ call'[c][a] = stage /\ out'[c][a] = o
  BY <1>1, <1>2 DEF OnlyCall, FleetInv, FleetTypeOK
<1>5. CallOK(c, a)'
  BY <1>1, <1>2, <1>4 DEF CallOK, FleetInv, ReqOK
<1> QED
  BY <1>1, <1>2, <1>3, <1>4, <1>5, OneCall

\* The agent runs a command at most once, and only a trusted one in a shell.
LEMMA HandleServerMessageInv ==
  ASSUME FleetInv, NEW c \in Requests, NEW a \in Agents, handleServerMessage(c, a)
  PROVE  FleetInv'
<1>1. call[c][a] \in {"plain", "trusted"} /\ UNCHANGED <<groupVars, inv, out>>
  BY DEF handleServerMessage
<1>2. PICK stage \in {"shell", "ran", "refused"} :
        /\ call' = [call EXCEPT ![c][a] = stage]
        /\ stage = "shell" => call[c][a] = "trusted"
        /\ stage = "ran" => inv[c].command # "name"
  BY DEF handleServerMessage, Stage, Executed
<1>3. FleetTypeOK'
  BY <1>1, <1>2 DEF FleetInv, FleetTypeOK, Stages
<1>4. OnlyCall(c, a) /\ call'[c][a] = stage /\ out'[c][a] = out[c][a]
  BY <1>1, <1>2 DEF OnlyCall, FleetInv, FleetTypeOK
<1>5. CallOK(c, a)'
  BY <1>1, <1>2, <1>4 DEF CallOK, FleetInv, ReqOK
<1> QED
  BY <1>1, <1>2, <1>3, <1>4, <1>5, OneCall

\* A success is the answer of a command that has run.
LEMMA AnswerInv ==
  ASSUME FleetInv, NEW c \in Requests, NEW a \in Agents, Answer(c, a)
  PROVE  FleetInv'
<1>1. out[c][a] = "wait" /\ call[c][a] # "none" /\ UNCHANGED <<groupVars, inv, call>>
  BY DEF Answer
<1>2. PICK o \in {"ok", "error"} :
        /\ out' = [out EXCEPT ![c][a] = o]
        /\ o = "ok" => call[c][a] \in {"ran", "shell"}
  BY DEF Answer
<1>3. FleetTypeOK'
  BY <1>1, <1>2 DEF FleetInv, FleetTypeOK
<1>4. OnlyCall(c, a) /\ out'[c][a] = o
  BY <1>1, <1>2 DEF OnlyCall, FleetInv, FleetTypeOK
<1>5. CallOK(c, a)'
  BY <1>1, <1>2, <1>4 DEF CallOK, FleetInv, ReqOK
<1> QED
  BY <1>1, <1>3, <1>4, <1>5, OneCall

\* Members of a group that a command waits to list are addressed as they join.
LEMMA GroupWorkInv ==
  ASSUME GroupTypeOK, GroupTypeOK', FleetInv, NEW r \in Requests, GroupWork(r)
  PROVE  FleetInv'
<1> DEFINE Late(d) == inv[d].pc = "list" /\ inv[d].task = "exec --group"
           more(d) == {a \in Agents : inv[d].group \in member'[a]}
<1>1. /\ GroupStep(r) /\ UNCHANGED <<call, out>>
      /\ inv' = [d \in Requests |-> IF Late(d) THEN [inv[d] EXCEPT !.may = @ \cup more(d)] ELSE inv[d]]
  BY DEF GroupWork
<1>2. ASSUME NEW d \in Requests
      PROVE  /\ inv'[d] \in Invocations /\ inv'[d].pc = inv[d].pc /\ inv'[d].task = inv[d].task
             /\ inv'[d].group = inv[d].group /\ inv'[d].command = inv[d].command /\ inv'[d].code = inv[d].code
             /\ inv[d].may \subseteq inv'[d].may /\ inv'[d].may \subseteq Agents
             /\ Late(d) => Members(inv[d].group)' \subseteq inv'[d].may
  <2>1. CASE Late(d)
    BY <1>1, <2>1 DEF FleetInv, FleetTypeOK, Invocations, Members
  <2>2. CASE ~Late(d)
    BY <1>1, <2>2 DEF FleetInv, FleetTypeOK, Invocations
  <2> QED
    BY <2>1, <2>2
<1>3. FleetTypeOK'
  BY <1>1, <1>2 DEF FleetInv, FleetTypeOK
<1>4. ASSUME NEW d \in Requests
      PROVE  ReqOK(d)'
  <2>1. ASSUME NEW a \in Agents
        PROVE  CallOK(d, a)'
    <3>1. CallOK(d, a) /\ call' = call /\ out' = out
      BY <1>1 DEF FleetInv, ReqOK
    <3> QED
      BY <1>2, <3>1 DEF CallOK
  <2>2. InvOK(d)'
    BY <1>1, <1>2 DEF FleetInv, ReqOK, InvOK
  <2>3. ExitOK(d)'
    BY <1>1, <1>2, OkStays DEF FleetInv, ReqOK, ExitOK
  <2> QED
    BY <2>1, <2>2, <2>3 DEF ReqOK
<1> QED
  BY <1>3, <1>4 DEF FleetInv

\* With the server, every answer that is waited for becomes an error.
LEMMA ServerCrashInv ==
  ASSUME GroupTypeOK, FleetInv, ServerCrash
  PROVE  FleetInv'
<1>1. UNCHANGED <<inv, member>> /\ \A c \in Requests : job[c].pc = "ok" => job'[c].pc = "ok"
  BY DEF ServerCrash, Crash
<1>2. \A c \in Requests, a \in Agents :
         /\ out'[c][a] = IF out[c][a] = "wait" THEN "error" ELSE out[c][a]
         /\ call'[c][a] = IF call[c][a] = "sent" THEN "refused" ELSE call[c][a]
  BY DEF ServerCrash
<1>3. FleetTypeOK'
  BY DEF ServerCrash, FleetInv, FleetTypeOK, Stages
<1>4. ASSUME NEW c \in Requests
      PROVE  ReqOK(c)'
  <2>1. \A a \in Agents : CallOK(c, a)'
    BY <1>1, <1>2 DEF FleetInv, ReqOK, CallOK
  <2>2. InvOK(c)'
    BY <1>1, <1>2 DEF FleetInv, ReqOK, InvOK, Members
  <2>3. ExitOK(c)'
    BY <1>1, <1>2 DEF FleetInv, ReqOK, ExitOK
  <2> QED
    BY <2>1, <2>2, <2>3 DEF ReqOK
<1> QED
  BY <1>3, <1>4 DEF FleetInv

-----------------------------------------------------------------------------
\* The invariant of the composed system holds in every reachable state.
LEMMA FleetInductive == Spec => [](FleetInv /\ GroupTypeOK)
<1>1. ASSUME FleetInv, GroupTypeOK, GroupTypeOK', [Next]_vars
      PROVE  FleetInv'
  <2>1. CASE ServerCrash
    BY <1>1, <2>1, ServerCrashInv
  <2>2. CASE ServerStart
    <3>1. UNCHANGED <<inv, call, out, member, job>>
      BY <2>2 DEF ServerStart, load, fleetVars
    <3> QED
      BY <1>1, <3>1, SameOK DEF Same, FleetInv, FleetTypeOK
  <2>3. ASSUME NEW c \in Requests, CLI(c)
        PROVE  FleetInv'
    BY <1>1, <2>3, PrintResultInv, RunExecManyInv, DoInv, CollectInv DEF CLI
  <2>4. ASSUME NEW c \in Requests, GroupWork(c)
        PROVE  FleetInv'
    BY <1>1, <2>4, GroupWorkInv
  <2>5. ASSUME NEW c \in Requests, NEW a \in Agents,
               handleExec(c, a) \/ handleServerMessage(c, a) \/ Answer(c, a)
        PROVE  FleetInv'
    BY <1>1, <2>5, HandleExecInv, HandleServerMessageInv, AnswerInv
  <2>6. ASSUME NEW c \in Requests, NEW active \in Agents \cup {NoAgent}, NEW named \in Agents \cup {NoAgent},
               NEW command \in Commands \ {"name"}, RunOne(c, active, named, command)
        PROVE  FleetInv'
    BY <1>1, <2>6, RunOneInv, GroupAssumption
  <2>7. ASSUME NEW c \in Requests, NEW g \in Groups,
               \/ \E op \in {"create", "delete"} : runGroup(c, op, g, NoAgent)
               \/ \E op \in {"add", "remove-agent"}, a \in Agents : runGroup(c, op, g, a)
        PROVE  FleetInv'
    BY <1>1, <2>7, RunGroupInv DEF Ops
  <2>8. ASSUME NEW c \in Requests, NEW command \in Commands \ {"name", "control"},
               \/ RunMany(c, "exec --all", NoGroup, command)
               \/ \E g \in Groups : RunMany(c, "exec --group", g, command)
        PROVE  FleetInv'
    BY <1>1, <2>8, RunManyInv
  <2>9. CASE UNCHANGED vars
    <3>1. UNCHANGED <<inv, call, out, member, job>>
      BY <2>9 DEF vars, groupVars, fleetVars
    <3> QED
      BY <1>1, <3>1, SameOK DEF Same, FleetInv, FleetTypeOK
  <2> QED
    BY <1>1, <2>1, <2>2, <2>3, <2>4, <2>5, <2>6, <2>7, <2>8, <2>9 DEF Next
<1>2. Spec => []GroupTypeOK
  BY Implements, GroupTypeCorrect, PTL
<1> QED
  BY <1>1, <1>2, FleetInit, PTL DEF Spec

(***************************************************************************)
(* Invocations, commands and exit codes keep their types; in particular    *)
(* an exit code is 0 or 1 however many agents fail.                        *)
(***************************************************************************)
THEOREM TypeCorrect == Spec => []TypeOK
<1>1. FleetInv /\ GroupTypeOK => TypeOK
  BY DEF FleetInv, FleetTypeOK, TypeOK
<1> QED
  BY <1>1, FleetInductive, PTL

(***************************************************************************)
(* MembersHaveGroup holds of the whole fleet.                              *)
(***************************************************************************)
THEOREM FleetMembers == Spec => []MembersHaveGroup
BY Implements, MembersKeepTheirGroup, PTL

(***************************************************************************)
(* GroupsAreSaved holds of the whole fleet.                                *)
(***************************************************************************)
THEOREM FleetSaves == Spec => []GroupsAreSaved
BY Implements, NothingAnsweredIsLost, PTL

(***************************************************************************)
(* No agent runs a command that was not meant for it: not through the      *)
(* shell's reading of the line, not through a membership that changed.     *)
(***************************************************************************)
THEOREM CommandsStayAddressed == Spec => []RunsWhereAddressed
<1>1. FleetInv => RunsWhereAddressed
  BY DEF FleetInv, ReqOK, CallOK, RunsWhereAddressed
<1> QED
  BY <1>1, FleetInductive, PTL

(***************************************************************************)
(* TrustedAdmin comes only with the script of a plugin that findCommand    *)
(* has found.                                                              *)
(***************************************************************************)
THEOREM OnlyScriptsAreTrusted == Spec => []ShellRunsScripts
<1>1. FleetInv => ShellRunsScripts
  BY DEF FleetInv, ReqOK, CallOK, ShellRunsScripts
<1> QED
  BY <1>1, FleetInductive, PTL

(***************************************************************************)
(* Exit code 0 is never given for a request or a command that is still     *)
(* under way, was lost in a crash, or has failed anywhere.                 *)
(***************************************************************************)
THEOREM ZeroMeansDone == Spec => []ExitZeroIsDone
<1>1. FleetInv => ExitZeroIsDone
  BY DEF FleetInv, ReqOK, ExitOK, ExitZeroIsDone
<1> QED
  BY <1>1, FleetInductive, PTL
=============================================================================
