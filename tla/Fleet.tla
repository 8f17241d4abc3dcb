------------------------------- MODULE Fleet -------------------------------
(***************************************************************************)
(* The operators' side: invocations of the CLI (cli/terminal.go and        *)
(* cli/agent_groups.go, as processes of their own or as lines of the       *)
(* shell), the client that speaks to the server (core/client.go), and what *)
(* server and agents do for them: group requests (GroupStore) and commands *)
(* on one agent, on the connected members of a group, or on all connected  *)
(* agents.                                                                 *)
(*                                                                         *)
(* sessionManager.dispatch appears as what it promises (RemoteCall): an    *)
(* answer is the agent's, an error says nothing, and the agent may run the *)
(* command late.  Which agents are connected is left open (AgentPresence). *)
(***************************************************************************)
EXTENDS GroupStore

VARIABLES
    inv,            \* each invocation of the CLI
    call,           \* its command on each agent, on the way there and back
    out             \* what ExecuteOnAgent has returned for each agent

fleetVars == <<inv, call, out>>
vars == <<groupVars, fleetVars>>

\* A command that agents have built in, the command of a plugin, the bare
\* superexec, an agent's name in the place of a command, and ping or control.
Commands == {"builtin", "script", "superexec", "name", "control"}
Tasks == Ops \cup {"exec", "exec --group", "exec --all"}

Invocations == [pc : {"new", "ask", "list", "wait", "exit"}, task : Tasks \cup {"none"},
                group : Groups \cup {NoGroup}, command : Commands \cup {"none"}, code : {0, 1},
                may : SUBSET Agents]
NotYet == [pc |-> "new", task |-> "none", group |-> NoGroup, command |-> "none", code |-> 0, may |-> {}]

\* none, at the server, dispatched (with TrustedAdmin or not), run by the
\* agent (as a command, or as a script in a shell), refused by one of them.
Stages == {"none", "sent", "plain", "trusted", "ran", "shell", "refused"}

TypeOK ==
    /\ GroupTypeOK
    /\ inv \in [Requests -> Invocations]
    /\ call \in [Requests -> [Agents -> Stages]]
    /\ out \in [Requests -> [Agents -> {"none", "wait", "ok", "error"}]]

Init ==
    /\ GroupInit
    /\ inv = [c \in Requests |-> NotYet]
    /\ call = [c \in Requests |-> [a \in Agents |-> "none"]]
    /\ out = [c \in Requests |-> [a \in Agents |-> "none"]]

-----------------------------------------------------------------------------
(* The command line.                                                       *)

\* Mutant: the name of another agent is dropped instead of taken for the
\* command.
ResolveDropsName(active, named, command) ==
    IF command # "control" /\ active # NoAgent /\ named \notin {NoAgent, active}
    THEN [agent |-> active, command |-> command]
    ELSE [agent |-> IF named # NoAgent THEN named ELSE active, command |-> command]

\* resolveShellCommand: with an active agent, exec takes its first word for
\* a command unless it names that agent; ping and agent take it for an agent.
\* Without an active agent, and outside the shell, the line stays as it is.
resolveShellCommand(active, named, command) ==
    IF command # "control" /\ active # NoAgent /\ named \notin {NoAgent, active}
    THEN [agent |-> active, command |-> "name"]
    ELSE [agent |-> IF named # NoAgent THEN named ELSE active, command |-> command]

Members(g) == {a \in Agents : g \in member[a]}

Begin(c, i) == inv[c].pc = "new" /\ inv' = [inv EXCEPT ![c] = i]

\* Nothing is sent if no connection can be made.
Send(c, targets) ==
    /\ call' = [call EXCEPT ![c] = [a \in Agents |-> IF a \notin targets THEN @[a]
                                                    ELSE IF server = "up" THEN "sent" ELSE "refused"]]
    /\ out' = [out EXCEPT ![c] = [a \in Agents |-> IF a \in targets THEN "wait" ELSE @[a]]]

\* runExec, runPing and runAgentControl.  may holds the agents that the
\* operator has addressed.
RunOne(c, active, named, command) ==
    LET line == resolveShellCommand(active, named, command)
    IN  /\ line.agent # NoAgent
        /\ Begin(c, [NotYet EXCEPT !.pc = "wait", !.task = "exec", !.command = line.command,
                                   !.may = {IF named # NoAgent THEN named ELSE active}])
        /\ Send(c, {line.agent})
        /\ UNCHANGED groupVars

\* runExecGroup and runExecAll begin with ListAgents.
RunMany(c, task, g, command) ==
    /\ Begin(c, [NotYet EXCEPT !.pc = "list", !.task = task, !.group = g, !.command = command,
                               !.may = IF task = "exec --all" THEN Agents ELSE Members(g)])
    /\ UNCHANGED <<groupVars, call, out>>

\* runGroup.
runGroup(c, op, g, a) ==
    /\ Begin(c, [NotYet EXCEPT !.pc = "ask", !.task = op, !.group = g])
    /\ Ask(c, op, g, a) \/ (server # "up" /\ UNCHANGED groupVars)
    /\ UNCHANGED <<call, out>>

Exit(c, code) == inv' = [inv EXCEPT ![c].pc = "exit", ![c].code = code]

\* printResult: the server's answer to a group request.
printResult(c) ==
    /\ inv[c].pc = "ask"
    /\ job[c].pc \in {"ok", "error"}
    /\ Exit(c, IF job[c].pc = "ok" THEN 0 ELSE 1)
    /\ UNCHANGED <<groupVars, call, out>>

\* The agents that runExecGroup and runExecAll choose from the list.
Chosen(c, online) ==
    IF inv[c].task = "exec --all" THEN online ELSE online \cap Members(inv[c].group)

\* The list has come: a goroutine for each agent, or nobody to run on.
runExecMany(c) ==
    /\ inv[c].pc = "list"
    /\ server = "up"
    /\ \E online \in SUBSET Agents :
         LET targets == Chosen(c, online)
         IN  IF targets = {} THEN Exit(c, 1) /\ UNCHANGED <<call, out>>
             ELSE inv' = [inv EXCEPT ![c].pc = "wait"] /\ Send(c, targets)
    /\ UNCHANGED groupVars

\* Client.do: no answer within Timeout, or no connection.  The server goes
\* on all the same.
do(c) ==
    /\ \/ inv[c].pc \in {"ask", "list"} /\ Exit(c, 1) /\ UNCHANGED out
       \/ /\ inv[c].pc = "wait"
          /\ \E a \in Agents : out[c][a] = "wait" /\ out' = [out EXCEPT ![c][a] = "error"]
          /\ UNCHANGED inv
    /\ UNCHANGED <<groupVars, call>>

\* Mutant: a result without error clears the code that an earlier one set.
LastResultCounts(c) == IF \E a \in Agents : out[c][a] = "ok" THEN 0 ELSE 1

\* The exit code of runExecMany, and of runExec for a single agent.
exitCode(c) == IF \E a \in Agents : out[c][a] = "error" THEN 1 ELSE 0

\* wg.Wait is over.
Collect(c) ==
    /\ inv[c].pc = "wait"
    /\ \A a \in Agents : out[c][a] # "wait"
    /\ Exit(c, exitCode(c))
    /\ UNCHANGED <<groupVars, call, out>>

-----------------------------------------------------------------------------
(* cli.exec, cli.ping and cli.agent.control at the server and the agent.   *)

Stage(c, a, stage) == call' = [call EXCEPT ![c][a] = stage]

\* findCommand: whether an enabled plugin offers the command.  The plugin may be
\* disabled, enabled, removed or installed at any time (PluginStore), also
\* between two looks for one exec --all.
findCommand(command) == IF command = "script" THEN BOOLEAN ELSE {FALSE}

\* handleCLIMessage: a plugin's script is dispatched as a superexec with
\* TrustedAdmin, anything else as it came; neither is sent if the script
\* cannot be built or the agent is offline.
handleExec(c, a) ==
    /\ server = "up"
    /\ call[c][a] = "sent"
    /\ \/ \E found \in findCommand(inv[c].command) : Stage(c, a, IF found THEN "trusted" ELSE "plain")
          /\ UNCHANGED out
       \/ Stage(c, a, "refused") /\ out' = [out EXCEPT ![c][a] = "error"]
    /\ UNCHANGED <<groupVars, inv>>

\* Mutant: superexec does not look at TrustedAdmin.
executeAnything(c, a) == IF call[c][a] = "trusted" \/ inv[c].command = "superexec" THEN {"shell"}
                         ELSE IF inv[c].command \in {"builtin", "control"} THEN {"ran"} ELSE {}

\* What the agent makes of a message: superexec needs TrustedAdmin, other
\* commands are looked up among those that are built in.
Executed(c, a) == IF call[c][a] = "trusted" THEN {"shell"}
                  ELSE IF inv[c].command \in {"builtin", "control"} THEN {"ran"} ELSE {}

\* handleServerMessage.  A frozen agent refuses every command.  One that has
\* run may have failed: its error then comes with the answer.
handleServerMessage(c, a) ==
    /\ call[c][a] \in {"plain", "trusted"}
    /\ \E stage \in Executed(c, a) \cup {"refused"} : Stage(c, a, stage)
    /\ UNCHANGED <<groupVars, inv, out>>

\* The answer of dispatch goes to the client, if it still waits: the agent's
\* reply, or an error (time is up, the agent has gone) whatever became of the
\* command.
Answer(c, a) ==
    /\ server = "up"
    /\ out[c][a] = "wait"
    /\ \/ call[c][a] \in {"ran", "shell"} /\ out' = [out EXCEPT ![c][a] = "ok"]
       \/ call[c][a] \in Stages \ {"none", "sent"} /\ out' = [out EXCEPT ![c][a] = "error"]
    /\ UNCHANGED <<groupVars, inv, call>>

-----------------------------------------------------------------------------
\* A group request at work.  An agent that joins a group while a command for
\* the group waits for its list has been addressed too.
GroupWork(c) ==
    /\ GroupStep(c)
    /\ inv' = [d \in Requests |-> IF inv[d].pc = "list" /\ inv[d].task = "exec --group"
                                  THEN [inv[d] EXCEPT !.may = @ \cup {a \in Agents : inv[d].group \in member'[a]}] ELSE inv[d]]
    /\ UNCHANGED <<call, out>>

\* With the server go its connections: clients that wait see an error.
ServerCrash ==
    /\ Crash
    /\ out' = [c \in Requests |-> [a \in Agents |-> IF out[c][a] = "wait" THEN "error" ELSE out[c][a]]]
    /\ call' = [c \in Requests |-> [a \in Agents |-> IF call[c][a] = "sent" THEN "refused" ELSE call[c][a]]]
    /\ UNCHANGED inv

ServerStart == load /\ UNCHANGED fleetVars

CLI(c) == printResult(c) \/ runExecMany(c) \/ do(c) \/ Collect(c)

Next ==
    \/ ServerCrash \/ ServerStart
    \/ \E c \in Requests :
         \/ CLI(c) \/ GroupWork(c)
         \/ \E a \in Agents : handleExec(c, a) \/ handleServerMessage(c, a) \/ Answer(c, a)
         \/ \E active, named \in Agents \cup {NoAgent}, command \in Commands \ {"name"} :
              RunOne(c, active, named, command)
         \/ \E g \in Groups :
              \/ \E op \in {"create", "delete"} : runGroup(c, op, g, NoAgent)
              \/ \E op \in {"add", "remove-agent"}, a \in Agents : runGroup(c, op, g, a)
         \/ \E command \in Commands \ {"name", "control"} :
              \/ RunMany(c, "exec --all", NoGroup, command)
              \/ \E g \in Groups : RunMany(c, "exec --group", g, command)

Spec == Init /\ [][Next]_vars

-----------------------------------------------------------------------------
(* Properties.                                                             *)

(***************************************************************************)
(* A command runs only on agents that its operator has addressed: the one  *)
(* named on the line, or the active one if none is named, however the      *)
(* shell takes the line; for a group, only agents that have been members   *)
(* at some time since the command was given, so a removal that has been    *)
(* answered holds for all later commands.                                  *)
(***************************************************************************)
RunsWhereAddressed ==
    \A c \in Requests, a \in Agents : call[c][a] \in {"ran", "shell"} => a \in inv[c].may

(***************************************************************************)
(* What an agent runs in a shell is the script of a plugin, never what an  *)
(* operator has put behind superexec, to whomever and in whatever way the  *)
(* command was given: the server alone says what is trusted.               *)
(***************************************************************************)
ShellRunsScripts ==
    \A c \in Requests, a \in Agents : call[c][a] = "shell" => inv[c].command = "script"

(***************************************************************************)
(* README.md, "Use the CLI": "./trish exec <agent-id> superexec cmd dir    *)
(* C:\Users" is a command that works: once it has reached an agent that is *)
(* not frozen, the agent executes it.                                      *)
(***************************************************************************)
SuperexecWorks ==
    \A c \in Requests, a \in Agents :
        inv[c].command = "superexec" /\ call[c][a] \in {"plain", "trusted"} => Executed(c, a) # {}

(***************************************************************************)
(* Exit code 0 is a promise: the group request is done, or the command has *)
(* run, without error, on at least one agent, and on no agent is it still  *)
(* under way or has it failed.                                             *)
(***************************************************************************)
ExitZeroIsDone ==
    \A c \in Requests : inv[c].pc = "exit" /\ inv[c].code = 0 =>
        IF inv[c].task \in Ops THEN job[c].pc = "ok"
        ELSE /\ \E a \in Agents : call[c][a] # "none"
             /\ \A a \in Agents : call[c][a] \in {"none", "ran", "shell"}
=============================================================================
