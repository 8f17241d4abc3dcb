--------------------------- MODULE AgentPresence ---------------------------
(***************************************************************************)
(* What the registry of trish-server says of one agent, against what is    *)
(* true of it.  Three kinds of goroutine write the agent's entry with no   *)
(* common lock: the handlers of its connections (server/server.go,         *)
(* handleAgentSession and handleAgentMessage), markOfflineLoop, and the    *)
(* CLI requests that control the agent (handleCLIMessage).  Entries of     *)
(* different agents are independent, so one agent is enough.               *)
(*                                                                         *)
(* core/registry.go is not part of the source tree; its operations are     *)
(* modelled from their use: Register stores the entry, UpdateStatus sets   *)
(* Connected, Status and, for a sign of life, LastSeen.                    *)
(*                                                                         *)
(* Time is counted in ticks of 30 s, the period of the agent's heartbeat   *)
(* and of markOfflineLoop; age is the number of ticks since LastSeen.      *)
(***************************************************************************)
EXTENDS Naturals, Sequences

CONSTANTS
    Conns,          \* connections the agent opens, each used once
    NoConn,
    Controls,       \* CLI control requests, each used once
    OfflineAfter,   \* markOfflineLoop's limit: 90 s = 3 ticks
    MaxInbox        \* bound on the messages under way to the server

ASSUME NoConnAssumption == NoConn \notin Conns
ASSUME OfflineAfterAssumption == OfflineAfter \in Nat \ {0}
ASSUME ControlsAssumption == "exec" \notin Controls

VARIABLES
    entry,          \* the registry's entry of the agent
    session,        \* the agent's session in the session manager
    link,           \* state of each connection as the server sees it
    hpc,            \* handler goroutine of each connection
    inbox,          \* messages under way to the server, per connection
    sweep,          \* markOfflineLoop
    ctl,            \* the CLI control requests
    proc, frozen,   \* the agent process and its frozen flag
    aconn,          \* the agent's current connection
    beaten          \* the heartbeat of this tick has been sent

serverVars == <<entry, session, link, hpc, inbox>>
agentVars  == <<proc, frozen, aconn, beaten>>
vars == <<entry, session, link, hpc, inbox, sweep, ctl, proc, frozen, aconn, beaten>>

MaxAge == OfflineAfter + 2
Ops == {"freeze", "unfreeze", "stop", "restart"}
Statuses == {"online", "offline", "frozen", "stopping", "restarting"}
Leaving == {"stopping", "restarting"}
Requests == {[pc |-> "idle"]}
    \cup [pc : {"asked", "late", "running"}, on : Conns, op : Ops]
    \cup [pc : {"answered"}, status : Statuses]
    \cup {[pc |-> "done"]}
Messages == [kind : {"heartbeat"}, status : {"online", "frozen"}]
    \cup [kind : {"result"}, status : Statuses \cup {""}, by : Controls \cup {"exec"}]

TypeOK ==
    /\ entry \in [connected : BOOLEAN, status : Statuses, age : 0..MaxAge]
    /\ session \in Conns \cup {NoConn}
    /\ link \in [Conns -> {"unused", "open", "dropped", "closed"}]
    /\ hpc \in [Conns -> {"none", "registry", "refused", "enrol", "loop", "unregister", "markdown", "done"}]
    /\ inbox \in [Conns -> Seq(Messages)]
    /\ sweep \in {"due", "expired", "idle"}
    /\ ctl \in [Controls -> Requests]
    /\ proc \in {"up", "stopping", "restarting", "down"}
    /\ frozen \in BOOLEAN
    /\ aconn \in Conns \cup {NoConn}
    /\ beaten \in BOOLEAN

\* An agent the persistent registry knows from an earlier run of the server.
Init ==
    /\ entry = [connected |-> FALSE, status |-> "offline", age |-> MaxAge]
    /\ session = NoConn
    /\ link = [c \in Conns |-> "unused"]
    /\ hpc = [c \in Conns |-> "none"]
    /\ inbox = [c \in Conns |-> <<>>]
    /\ sweep = "idle"
    /\ ctl = [k \in Controls |-> [pc |-> "idle"]]
    /\ proc = "up"
    /\ frozen = FALSE
    /\ aconn = NoConn
    /\ beaten = FALSE

-----------------------------------------------------------------------------
(* The registry (external).                                                *)

Seen(connected, status) == [connected |-> connected, status |-> status, age |-> 0]

UpdateStatus(connected) ==
    IF connected THEN Seen(TRUE, "online")
    ELSE [entry EXCEPT !.connected = FALSE, !.status = "offline"]

-----------------------------------------------------------------------------
(* The agent.                                                              *)

\* Mutant: the heartbeat does not tell that the agent is frozen.
alwaysOnline == "online"

currentStatus == IF frozen THEN "frozen" ELSE "online"

Acked(c) == hpc[c] \notin {"none", "registry", "refused", "enrol"}
Connected == aconn # NoConn /\ Acked(aconn)

\* A message written to a connection that is gone is lost.
Write(c, m) ==
    /\ Len(inbox[c]) < MaxInbox
    /\ inbox' = IF link[c] = "open" THEN [inbox EXCEPT ![c] = Append(@, m)] ELSE inbox

\* connectAndServe dials and sends its registration, which the server reads.
Dial(c) ==
    /\ proc # "down"
    /\ aconn = NoConn
    /\ link[c] = "unused"
    /\ link' = [link EXCEPT ![c] = "open"]
    /\ hpc' = [hpc EXCEPT ![c] = "registry"]
    /\ aconn' = c
    /\ UNCHANGED <<entry, session, inbox, sweep, ctl, proc, frozen, beaten>>

\* The decoder of connectAndServe fails: back to connectionLoop.
SeeLoss ==
    /\ aconn # NoConn
    /\ link[aconn] # "open"
    /\ aconn' = NoConn
    /\ UNCHANGED <<serverVars, sweep, ctl, proc, frozen, beaten>>

\* The first heartbeat follows the acknowledgement by 30 s (Enrol).
heartbeatLoop ==
    /\ proc # "down"
    /\ Connected
    /\ ~beaten
    /\ beaten' = TRUE
    /\ Write(aconn, [kind |-> "heartbeat", status |-> currentStatus])
    /\ UNCHANGED <<entry, session, link, hpc, sweep, ctl, proc, frozen, aconn>>

\* The answer to some command: a frozen agent refuses it and says so, any
\* other result carries no status.
ExecResult ==
    /\ proc # "down"
    /\ Connected
    /\ Write(aconn, [kind |-> "result", status |-> IF frozen THEN "frozen" ELSE "", by |-> "exec"])
    /\ UNCHANGED <<entry, session, link, hpc, sweep, ctl, agentVars>>

\* handleControlMessage; stop and restart answer first and exit later.  When
\* the answer cannot be written connectAndServe ends and no exit follows.  A
\* request the server has given up is carried out all the same.
handleControlMessage(k) ==
    /\ proc # "down"
    /\ ctl[k].pc \in {"asked", "late"}
    /\ ctl[k].on = aconn
    /\ LET op == ctl[k].op
           status == CASE op = "freeze" -> "frozen"
                       [] op = "unfreeze" -> "online"
                       [] op = "stop" -> "stopping"
                       [] op = "restart" -> "restarting"
       IN  /\ frozen' = IF op \in {"freeze", "unfreeze"} THEN op = "freeze" ELSE frozen
           /\ \/ /\ Write(aconn, [kind |-> "result", status |-> status, by |-> k])
                 /\ proc' = IF status \in Leaving THEN status ELSE proc
                 /\ UNCHANGED aconn
              \/ /\ link[aconn] # "open"
                 /\ aconn' = NoConn
                 /\ UNCHANGED <<inbox, proc>>
    /\ ctl' = [ctl EXCEPT ![k] = IF @.pc = "asked" THEN [@ EXCEPT !.pc = "running"]
                                 ELSE [pc |-> "done"]]
    /\ UNCHANGED <<entry, session, link, hpc, sweep, beaten>>

\* os.Exit, 500 ms after a stop or restart, or a crash at any time.
Exit ==
    /\ proc # "down"
    /\ proc' = "down"
    /\ frozen' = FALSE
    /\ aconn' = NoConn
    /\ link' = IF aconn # NoConn /\ link[aconn] = "open"
               THEN [link EXCEPT ![aconn] = "dropped"] ELSE link
    /\ UNCHANGED <<entry, session, hpc, inbox, sweep, ctl, beaten>>

\* The service manager, or an administrator, starts the agent again.
Restart ==
    /\ proc = "down"
    /\ \E c \in Conns : link[c] = "unused"
    /\ proc' = "up"
    /\ UNCHANGED <<serverVars, sweep, ctl, frozen, aconn, beaten>>

LinkDrop(c) ==
    /\ link[c] = "open"
    /\ link' = [link EXCEPT ![c] = "dropped"]
    /\ UNCHANGED <<entry, session, hpc, inbox, sweep, ctl, agentVars>>

-----------------------------------------------------------------------------
(* The server's handler of one connection.                                 *)

\* handleAgentSession, first half: the registration always says "online".
RegistryRegister(c) ==
    /\ hpc[c] = "registry"
    /\ entry' = Seen(TRUE, "online")
    /\ hpc' = [hpc EXCEPT ![c] = "enrol"]
    /\ UNCHANGED <<session, link, inbox, sweep, ctl, agentVars>>

\* The registry fails to store the entry: the server answers with an error
\* and hangs up.
RegistryRefuse(c) ==
    /\ hpc[c] = "registry"
    /\ hpc' = [hpc EXCEPT ![c] = "refused"]
    /\ link' = [link EXCEPT ![c] = "closed"]
    /\ UNCHANGED <<entry, session, inbox, sweep, ctl, agentVars>>

\* sessions.register, then the acknowledgement, which starts the heartbeat's
\* ticker: its first beat belongs to the next tick.
Enrol(c) ==
    /\ hpc[c] = "enrol"
    /\ link' = IF session \notin {NoConn, c} THEN [link EXCEPT ![session] = "closed"] ELSE link
    /\ session' = c
    /\ hpc' = [hpc EXCEPT ![c] = "loop"]
    /\ beaten' = (aconn = c \/ beaten)
    /\ UNCHANGED <<entry, inbox, sweep, ctl, proc, frozen, aconn>>

\* Mutants: an empty status is stored as it is; a heartbeat refreshes only
\* LastSeen.
EntryVerbatim(m) == Seen(m.status \notin Leaving, m.status)

EntryRefreshed(m) ==
    IF m.kind = "heartbeat" THEN [entry EXCEPT !.status = m.status, !.age = 0]
    ELSE Seen(m.status \notin Leaving, IF m.status = "" THEN "online" ELSE m.status)

\* What handleAgentMessage stores for a message.
EntryAfter(m) ==
    CASE m.kind = "heartbeat" -> Seen(TRUE, m.status)
      [] m.kind = "result" /\ m.status # "" -> Seen(m.status \notin Leaving, m.status)
      [] m.kind = "result" /\ m.status = "" -> UpdateStatus(TRUE)

\* One turn of the receive loop; the result of a control request that still
\* waits is handed to it (resolvePending).
handleAgentMessage(c) ==
    /\ hpc[c] = "loop"
    /\ inbox[c] # <<>>
    /\ LET m == Head(inbox[c])
       IN  /\ entry' = EntryAfter(m)
           /\ ctl' = [k \in Controls |->
                        IF m.kind = "result" /\ m.by = k /\ ctl[k].pc = "running"
                        THEN [pc |-> "answered", status |-> m.status] ELSE ctl[k]]
    /\ inbox' = [inbox EXCEPT ![c] = Tail(@)]
    /\ UNCHANGED <<session, link, hpc, sweep, agentVars>>

\* What has not been decoded by then is lost.
DecodeError(c) ==
    /\ hpc[c] = "loop"
    /\ link[c] # "open"
    /\ hpc' = [hpc EXCEPT ![c] = "unregister"]
    /\ inbox' = [inbox EXCEPT ![c] = <<>>]
    /\ UNCHANGED <<entry, session, link, sweep, ctl, agentVars>>

Unregister(c) ==
    /\ hpc[c] = "unregister"
    /\ session' = IF session = c THEN NoConn ELSE session
    /\ hpc' = [hpc EXCEPT ![c] = "markdown"]
    /\ UNCHANGED <<entry, link, inbox, sweep, ctl, agentVars>>

\* registry.UpdateStatus(id, false), whatever the current session is; then
\* the deferred Close.
MarkDown(c) ==
    /\ hpc[c] = "markdown"
    /\ entry' = UpdateStatus(FALSE)
    /\ hpc' = [hpc EXCEPT ![c] = "done"]
    /\ link' = [link EXCEPT ![c] = "closed"]
    /\ UNCHANGED <<session, inbox, sweep, ctl, agentVars>>

-----------------------------------------------------------------------------
(* markOfflineLoop: the list is read, then entries found old are written.  *)

\* Mutants: the limit is off by one; the sweep never finds anything; the
\* limit is the heartbeat period itself.
SweepLate ==
    /\ sweep = "due"
    /\ sweep' = IF entry.connected /\ entry.age > OfflineAfter + 1 THEN "expired" ELSE "idle"
    /\ UNCHANGED <<serverVars, ctl, agentVars>>

SweepNothing ==
    /\ sweep = "due"
    /\ sweep' = "idle"
    /\ UNCHANGED <<serverVars, ctl, agentVars>>

SweepEager ==
    /\ sweep = "due"
    /\ sweep' = IF entry.connected /\ entry.age > 0 THEN "expired" ELSE "idle"
    /\ UNCHANGED <<serverVars, ctl, agentVars>>

SweepList ==
    /\ sweep = "due"
    /\ sweep' = IF entry.connected /\ entry.age > OfflineAfter THEN "expired" ELSE "idle"
    /\ UNCHANGED <<serverVars, ctl, agentVars>>

SweepMark ==
    /\ sweep = "expired"
    /\ entry' = UpdateStatus(FALSE)
    /\ sweep' = "idle"
    /\ UNCHANGED <<session, link, hpc, inbox, ctl, agentVars>>

-----------------------------------------------------------------------------
(* A CLI request cli.agent.control.                                        *)

\* dispatch to the current session.
ControlDispatch(k, op) ==
    /\ ctl[k].pc = "idle"
    /\ session # NoConn
    /\ ctl' = [ctl EXCEPT ![k] = [pc |-> "asked", on |-> session, op |-> op]]
    /\ UNCHANGED <<serverVars, sweep, agentVars>>

\* The dispatch times out after 15 s, or its write fails.  A request that the
\* agent has not read yet stays under way.
ControlTimeout(k) ==
    /\ ctl[k].pc \in {"asked", "running"}
    /\ ctl' = [ctl EXCEPT ![k] = IF @.pc = "asked" THEN [@ EXCEPT !.pc = "late"]
                                 ELSE [pc |-> "done"]]
    /\ UNCHANGED <<serverVars, sweep, agentVars>>

\* The reply's status is written to the entry a second time, now by the
\* goroutine of the CLI request; LastSeen stays.
ControlStore(k) ==
    /\ ctl[k].pc = "answered"
    /\ entry' = [entry EXCEPT !.status = ctl[k].status,
                              !.connected = ctl[k].status \notin Leaving]
    /\ ctl' = [ctl EXCEPT ![k] = [pc |-> "done"]]
    /\ UNCHANGED <<session, link, hpc, inbox, sweep, agentVars>>

-----------------------------------------------------------------------------
\* Nothing that is ready to run on the server, and no message on a working
\* connection, waits for a whole tick; nor does a request outlive it.
Prompt ==
    /\ \A c \in Conns :
         /\ hpc[c] \notin {"registry", "enrol", "unregister", "markdown"}
         /\ hpc[c] = "loop" => inbox[c] = <<>>
    /\ \A k \in Controls : ctl[k].pc \in {"idle", "late", "done"}
    /\ sweep = "idle"
    /\ proc # "down" /\ Connected => beaten

Tick ==
    /\ Prompt
    /\ entry' = [entry EXCEPT !.age = IF @ < MaxAge THEN @ + 1 ELSE @]
    /\ beaten' = FALSE
    /\ sweep' = "due"
    /\ UNCHANGED <<session, link, hpc, inbox, ctl, proc, frozen, aconn>>

Handler(c) ==
    \/ RegistryRegister(c) \/ RegistryRefuse(c) \/ Enrol(c) \/ handleAgentMessage(c)
    \/ DecodeError(c) \/ Unregister(c) \/ MarkDown(c)

Next ==
    \/ \E c \in Conns : Dial(c) \/ LinkDrop(c) \/ Handler(c)
    \/ SeeLoss \/ heartbeatLoop \/ ExecResult \/ Exit \/ Restart
    \/ SweepList \/ SweepMark \/ Tick
    \/ \E k \in Controls :
         \/ handleControlMessage(k) \/ ControlTimeout(k) \/ ControlStore(k)
         \/ \E op \in Ops : ControlDispatch(k, op)

Spec == Init /\ [][Next]_vars

(***************************************************************************)
(* Goroutines that can run do run, timers fire, TCP keepalive ends the     *)
(* read of a lost connection, a process that has scheduled its exit exits, *)
(* and a running agent dials while it has no connection (connectionLoop    *)
(* retries for ever).  Nothing is assumed of crashes, losses, restarts or  *)
(* the requests of the CLI.                                                *)
(***************************************************************************)
Fairness ==
    /\ \A c \in Conns : WF_vars(Handler(c)) /\ WF_vars(Dial(c))
    /\ WF_vars(SeeLoss) /\ WF_vars(heartbeatLoop) /\ WF_vars(Tick)
    /\ WF_vars(SweepList \/ SweepMark)
    /\ WF_vars(proc \in Leaving /\ Exit)
    /\ \A k \in Controls : WF_vars(ControlTimeout(k) \/ ControlStore(k))

FairSpec == Spec /\ Fairness

-----------------------------------------------------------------------------
(* Properties.                                                             *)

\* The agent runs and its registered connection works.
Stable == proc = "up" /\ Connected /\ link[aconn] = "open"

(***************************************************************************)
(* An agent whose connection stays up is, from some moment on, always      *)
(* connected in the registry, whatever the old handlers, the sweep and the *)
(* control requests have written before.                                   *)
(***************************************************************************)
StableAgentStaysOnline == <>[]Stable => <>[]entry.connected

(***************************************************************************)
(* An agent that is gone for good is disconnected in the registry for      *)
(* good, even when a control request writes its entry late.                *)
(***************************************************************************)
DeadAgentDisconnects == <>[](proc = "down") => <>[]~entry.connected

(***************************************************************************)
(* The frozen flag lives in the agent only; the status the registry shows  *)
(* of a stable agent ends up telling whether it is frozen.                 *)
(***************************************************************************)
StatusConverges ==
    /\ <>[](Stable /\ frozen) => <>[](entry.status = "frozen")
    /\ <>[](Stable /\ ~frozen) => <>[](entry.status = "online")

(***************************************************************************)
(* An entry shown as connected has been seen at most one sweep period      *)
(* after the 90 s limit.                                                   *)
(***************************************************************************)
ConnectedIsRecent == entry.connected => entry.age <= OfflineAfter + 1

(***************************************************************************)
(* markOfflineLoop gives up only agents that are lost: whatever commands,  *)
(* control requests and earlier connections do, it finds no entry expired  *)
(* of an agent that runs and has its registered connection open.           *)
(***************************************************************************)
ExpiredWasLost ==
    [][sweep # "expired" /\ sweep' = "expired" =>
         proc = "down" \/ ~Connected \/ link[aconn] # "open"]_vars

(***************************************************************************)
(* docs/PHASE_1_ARCHITECTURE.md, flow 2: "si la connexion tombe ou si le   *)
(* heartbeat expire, l'agent passe offline": the entry goes offline only   *)
(* when the connection of the session is lost or the heartbeat is late.    *)
(***************************************************************************)
OfflineOnlyWhenLost ==
    [][entry.connected /\ entry'.status = "offline" =>
         session = NoConn \/ link[session] # "open" \/ entry.age > OfflineAfter]_vars
=============================================================================
