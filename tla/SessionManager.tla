--------------------------- MODULE SessionManager ---------------------------
(***************************************************************************)
(* server/session.go and the connection handling around it: the map of     *)
(* agent sessions, the map of pending commands with their one-slot reply   *)
(* channels, the goroutine that serves each agent connection               *)
(* (handleAgentSession) and the goroutine of each dispatched command       *)
(* (dispatch).  The steps are cut where the code takes or drops m.mu, uses *)
(* a channel or uses the network.                                          *)
(*                                                                         *)
(* A connection carries messages in order both ways (TCP).  Of a message   *)
(* only its CommandID is kept: dispatch gives each command a fresh one     *)
(* (core.NewRequestID), so a call is named by its CommandID.               *)
(* Heartbeats carry none and never meet this state; they, and what the     *)
(* handlers write to the registry, are the matter of AgentPresence.        *)
(***************************************************************************)
EXTENDS Naturals, Sequences

CONSTANTS
    Agents,         \* agent IDs
    Conns,          \* connections that agents open, each used once
    Owner,          \* Owner[c]: the agent that opens connection c
    Calls,          \* dispatched commands
    NoConn,         \* no session
    NoCall,         \* no message in hand
    RegisterOK,     \* the server's answer to a registration
    Capacity        \* messages a connection buffers before a write blocks

ASSUME OwnerAssumption == Owner \in [Conns -> Agents]
ASSUME NoConnAssumption == NoConn \notin Conns
ASSUME NoCallAssumption == NoCall \notin Calls
ASSUME RegisterOKAssumption == RegisterOK \notin Calls
ASSUME CapacityAssumption == Capacity \in Nat \ {0}

VARIABLES
    sessions,       \* sessionManager.sessions: agent -> connection
    pending,        \* sessionManager.pending: the CommandIDs in the map
    buf,            \* calls whose reply channel holds a message
    closed,         \* calls whose reply channel is closed
    panicked,       \* a goroutine has sent on, or closed, a closed channel
    link,           \* state of each connection as the server sees it
    down, up,       \* messages on their way to the agent / to the server
    hpc, cur,       \* handler goroutine of a connection; message in hand
    apc,            \* the agent's end of a connection (connectAndServe)
    runs,           \* how often an agent has executed a command
    dpc, ses,       \* dispatch goroutine of a call; the session it took
    outcome         \* what dispatch returns, or is about to return

serverVars == <<sessions, pending, buf, closed, panicked>>
wireVars   == <<link, down, up>>
callVars   == <<dpc, ses, outcome>>
vars == <<sessions, pending, buf, closed, panicked, link, down, up,
          hpc, cur, apc, runs, dpc, ses, outcome>>

LinkStates == {"unused", "open", "dropped", "closed"}
HandlerStates == {"none", "enrol", "ack", "loop", "resolve", "deliver",
                  "close", "unregister", "hangup", "done"}
AgentStates == {"none", "handshake", "serve", "gone"}
DispatchStates == {"idle", "pend", "send", "wait", "cancel", "close", "done"}
Outcomes == {"none", "reply", "cancelled", "offline", "senderr", "timeout"}

TypeOK ==
    /\ sessions \in [Agents -> Conns \cup {NoConn}]
    /\ pending \subseteq Calls
    /\ buf \subseteq Calls
    /\ closed \subseteq Calls
    /\ panicked \in BOOLEAN
    /\ link \in [Conns -> LinkStates]
    /\ down \in [Conns -> Seq(Calls \cup {RegisterOK})]
    /\ up \in [Conns -> Seq(Calls)]
    /\ hpc \in [Conns -> HandlerStates]
    /\ cur \in [Conns -> Calls \cup {NoCall}]
    /\ apc \in [Conns -> AgentStates]
    /\ runs \in [Calls -> Nat]
    /\ dpc \in [Calls -> DispatchStates]
    /\ ses \in [Calls -> Conns \cup {NoConn}]
    /\ outcome \in [Calls -> Outcomes]

Init ==
    /\ sessions = [a \in Agents |-> NoConn]
    /\ pending = {}
    /\ buf = {}
    /\ closed = {}
    /\ panicked = FALSE
    /\ link = [c \in Conns |-> "unused"]
    /\ down = [c \in Conns |-> <<>>]
    /\ up = [c \in Conns |-> <<>>]
    /\ hpc = [c \in Conns |-> "none"]
    /\ cur = [c \in Conns |-> NoCall]
    /\ apc = [c \in Conns |-> "none"]
    /\ runs = [k \in Calls |-> 0]
    /\ dpc = [k \in Calls |-> "idle"]
    /\ ses = [k \in Calls |-> NoConn]
    /\ outcome = [k \in Calls |-> "none"]

-----------------------------------------------------------------------------
(* The agent's end of a connection.                                        *)

Room(c) == Len(down[c]) < Capacity

\* The agent dials and sends agent.register; the server accepts, decodes it
\* and enters handleAgentSession.  An agent has one connection at a time.
AgentConnect(c) ==
    /\ link[c] = "unused"
    /\ \A d \in Conns : Owner[d] = Owner[c] => apc[d] \in {"none", "gone"}
    /\ link' = [link EXCEPT ![c] = "open"]
    /\ apc' = [apc EXCEPT ![c] = "handshake"]
    /\ hpc' = [hpc EXCEPT ![c] = "enrol"]
    /\ UNCHANGED <<serverVars, down, up, cur, runs, callVars>>

\* What the server sees when the agent's end goes away.
AfterLeave(c) == IF link[c] = "open" THEN [link EXCEPT ![c] = "dropped"] ELSE link

\* The first message must be the acknowledgement: anything else makes the
\* agent close the connection.
AgentHandshake(c) ==
    /\ apc[c] = "handshake"
    /\ down[c] # <<>>
    /\ down' = [down EXCEPT ![c] = Tail(@)]
    /\ \/ /\ Head(down[c]) = RegisterOK
          /\ apc' = [apc EXCEPT ![c] = "serve"]
          /\ UNCHANGED link
       \/ /\ Head(down[c]) # RegisterOK
          /\ apc' = [apc EXCEPT ![c] = "gone"]
          /\ link' = AfterLeave(c)
    /\ UNCHANGED <<serverVars, up, hpc, cur, runs, callVars>>

\* One turn of the agent's receive loop: it handles the command (a frozen
\* agent by refusing it) and sends the result.  When the write fails it gives
\* the connection up; a write to a connection that is gone may still succeed,
\* and the agent goes on with what it has received.
AgentRun(c) ==
    /\ apc[c] = "serve"
    /\ down[c] # <<>>
    /\ Head(down[c]) \in Calls
    /\ down' = [down EXCEPT ![c] = Tail(@)]
    /\ runs' = [runs EXCEPT ![Head(down[c])] = @ + 1]
    /\ \/ /\ link[c] = "open"
          /\ up' = [up EXCEPT ![c] = Append(@, Head(down[c]))]
          /\ UNCHANGED <<link, apc>>
       \/ /\ link[c] # "open"
          /\ UNCHANGED <<link, apc, up>>
       \/ /\ apc' = [apc EXCEPT ![c] = "gone"]
          /\ link' = AfterLeave(c)
          /\ UNCHANGED up
    /\ UNCHANGED <<serverVars, hpc, cur, callVars>>

\* The agent process ends, or its decoder fails.
AgentLeave(c) ==
    /\ apc[c] \in {"handshake", "serve"}
    /\ apc' = [apc EXCEPT ![c] = "gone"]
    /\ link' = AfterLeave(c)
    /\ UNCHANGED <<serverVars, down, up, hpc, cur, runs, callVars>>

\* The network path is lost while both ends still believe in it.
NetworkDrop(c) ==
    /\ link[c] = "open"
    /\ link' = [link EXCEPT ![c] = "dropped"]
    /\ UNCHANGED <<serverVars, down, up, hpc, cur, apc, runs, callVars>>

-----------------------------------------------------------------------------
(* The server's goroutine for one agent connection.                        *)

\* registry.Register refuses the agent: handleAgentSession returns and the
\* deferred Close ends the connection.
RefuseAgent(c) ==
    /\ hpc[c] = "enrol"
    /\ hpc' = [hpc EXCEPT ![c] = "done"]
    /\ link' = [link EXCEPT ![c] = "closed"]
    /\ UNCHANGED <<serverVars, down, up, cur, apc, runs, callVars>>

\* Mutant: the connection of the replaced session is left open.
registerKeepsOld(c) ==
    /\ hpc[c] = "enrol"
    /\ sessions' = [sessions EXCEPT ![Owner[c]] = c]
    /\ hpc' = [hpc EXCEPT ![c] = "ack"]
    /\ UNCHANGED <<pending, buf, closed, panicked, wireVars, cur, apc, runs, callVars>>

\* sessionManager.register: the new session replaces, and closes, the old.
register(c) ==
    /\ hpc[c] = "enrol"
    /\ LET previous == sessions[Owner[c]]
       IN  link' = IF previous \notin {NoConn, c}
                   THEN [link EXCEPT ![previous] = "closed"]
                   ELSE link
    /\ sessions' = [sessions EXCEPT ![Owner[c]] = c]
    /\ hpc' = [hpc EXCEPT ![c] = "ack"]
    /\ UNCHANGED <<pending, buf, closed, panicked, down, up, cur, apc, runs, callVars>>

\* The acknowledgement is written after the session is published; an error
\* of this write is ignored.
SendRegisterOK(c) ==
    /\ hpc[c] = "ack"
    /\ \/ /\ link[c] \in {"open", "dropped"}
          /\ Room(c)
          /\ down' = [down EXCEPT ![c] = Append(@, RegisterOK)]
       \/ /\ link[c] # "open"
          /\ UNCHANGED down
    /\ hpc' = [hpc EXCEPT ![c] = "loop"]
    /\ UNCHANGED <<serverVars, link, up, cur, apc, runs, callVars>>

Decode(c) ==
    /\ hpc[c] = "loop"
    /\ up[c] # <<>>
    /\ cur' = [cur EXCEPT ![c] = Head(up[c])]
    /\ up' = [up EXCEPT ![c] = Tail(@)]
    /\ hpc' = [hpc EXCEPT ![c] = "resolve"]
    /\ UNCHANGED <<serverVars, link, down, apc, runs, callVars>>

\* Mutant: only a connection the server itself has closed ends the loop.
DecodeErrorIfClosed(c) ==
    /\ hpc[c] = "loop"
    /\ link[c] = "closed"
    /\ hpc' = [hpc EXCEPT ![c] = "unregister"]
    /\ UNCHANGED <<serverVars, wireVars, cur, apc, runs, callVars>>

DecodeError(c) ==
    /\ hpc[c] = "loop"
    /\ link[c] # "open"
    /\ hpc' = [hpc EXCEPT ![c] = "unregister"]
    /\ UNCHANGED <<serverVars, wireVars, cur, apc, runs, callVars>>

\* Mutant: the channel is closed and the message never sent on it.
resolveWithoutSend(c) ==
    /\ hpc[c] = "resolve"
    /\ pending' = pending \ {cur[c]}
    /\ hpc' = [hpc EXCEPT ![c] = IF cur[c] \in pending THEN "close" ELSE "loop"]
    /\ UNCHANGED <<sessions, buf, closed, panicked, wireVars, cur, apc, runs, callVars>>

\* resolvePending: the entry is taken out of the map under m.mu ...
resolveTake(c) ==
    /\ hpc[c] = "resolve"
    /\ \/ /\ cur[c] \in pending
          /\ pending' = pending \ {cur[c]}
          /\ hpc' = [hpc EXCEPT ![c] = "deliver"]
       \/ /\ cur[c] \notin pending
          /\ hpc' = [hpc EXCEPT ![c] = "loop"]
          /\ UNCHANGED pending
    /\ UNCHANGED <<sessions, buf, closed, panicked, wireVars, cur, apc, runs, callVars>>

\* ... and after the unlock the message is sent (blocking when the slot is
\* taken, panicking when the channel is closed) ...
resolveSend(c) ==
    /\ hpc[c] = "deliver"
    /\ cur[c] \in closed \/ cur[c] \notin buf
    /\ panicked' = (panicked \/ cur[c] \in closed)
    /\ buf' = buf \cup {cur[c]}
    /\ hpc' = [hpc EXCEPT ![c] = "close"]
    /\ UNCHANGED <<sessions, pending, closed, wireVars, cur, apc, runs, callVars>>

\* ... and the channel closed.
resolveClose(c) ==
    /\ hpc[c] = "close"
    /\ panicked' = (panicked \/ cur[c] \in closed)
    /\ closed' = closed \cup {cur[c]}
    /\ hpc' = [hpc EXCEPT ![c] = "loop"]
    /\ UNCHANGED <<sessions, pending, buf, wireVars, cur, apc, runs, callVars>>

\* Mutants: whatever session is current leaves; no session leaves.
unregisterAny(c) ==
    /\ hpc[c] = "unregister"
    /\ sessions' = [sessions EXCEPT ![Owner[c]] = NoConn]
    /\ hpc' = [hpc EXCEPT ![c] = "hangup"]
    /\ UNCHANGED <<pending, buf, closed, panicked, wireVars, cur, apc, runs, callVars>>

unregisterNone(c) ==
    /\ hpc[c] = "unregister"
    /\ hpc' = [hpc EXCEPT ![c] = "hangup"]
    /\ UNCHANGED <<serverVars, wireVars, cur, apc, runs, callVars>>

\* sessionManager.unregister: only the session that is still current leaves.
unregister(c) ==
    /\ hpc[c] = "unregister"
    /\ sessions' = IF sessions[Owner[c]] = c
                   THEN [sessions EXCEPT ![Owner[c]] = NoConn]
                   ELSE sessions
    /\ hpc' = [hpc EXCEPT ![c] = "hangup"]
    /\ UNCHANGED <<pending, buf, closed, panicked, wireVars, cur, apc, runs, callVars>>

Hangup(c) ==
    /\ hpc[c] = "hangup"
    /\ link' = [link EXCEPT ![c] = "closed"]
    /\ hpc' = [hpc EXCEPT ![c] = "done"]
    /\ UNCHANGED <<serverVars, down, up, cur, apc, runs, callVars>>

-----------------------------------------------------------------------------
(* The goroutine of one CLI request, in dispatch.                          *)

dispatchGet(k, a) ==
    /\ dpc[k] = "idle"
    /\ ses' = [ses EXCEPT ![k] = sessions[a]]
    /\ \/ /\ sessions[a] = NoConn
          /\ dpc' = [dpc EXCEPT ![k] = "done"]
          /\ outcome' = [outcome EXCEPT ![k] = "offline"]
       \/ /\ sessions[a] # NoConn
          /\ dpc' = [dpc EXCEPT ![k] = "pend"]
          /\ UNCHANGED outcome
    /\ UNCHANGED <<serverVars, wireVars, hpc, cur, apc, runs>>

\* Mutant: the entry is made only after the command has been sent.
registerLate(k) ==
    /\ \/ dpc[k] = "pend" /\ dpc' = [dpc EXCEPT ![k] = "send"] /\ UNCHANGED pending
       \/ dpc[k] = "wait" /\ pending' = pending \cup {k} /\ UNCHANGED dpc
    /\ UNCHANGED <<sessions, buf, closed, panicked, wireVars, hpc, cur, apc, runs, ses, outcome>>

registerPending(k) ==
    /\ dpc[k] = "pend"
    /\ pending' = pending \cup {k}
    /\ dpc' = [dpc EXCEPT ![k] = "send"]
    /\ UNCHANGED <<sessions, buf, closed, panicked, wireVars, hpc, cur, apc, runs, ses, outcome>>

\* session.send has no deadline: with a full buffer it blocks until there is
\* room or the connection fails.  A write to a lost peer may still succeed.
send(k) ==
    /\ dpc[k] = "send"
    /\ \/ /\ link[ses[k]] \in {"open", "dropped"}
          /\ Room(ses[k])
          /\ down' = [down EXCEPT ![ses[k]] = Append(@, k)]
          /\ dpc' = [dpc EXCEPT ![k] = "wait"]
          /\ UNCHANGED outcome
       \/ /\ link[ses[k]] # "open"
          /\ dpc' = [dpc EXCEPT ![k] = "cancel"]
          /\ outcome' = [outcome EXCEPT ![k] = "senderr"]
          /\ UNCHANGED down
    /\ UNCHANGED <<serverVars, link, up, hpc, cur, apc, runs, ses>>

\* select, first case: a buffered message is received before the close is.
receive(k) ==
    /\ dpc[k] = "wait"
    /\ k \in buf \cup closed
    /\ buf' = buf \ {k}
    /\ outcome' = [outcome EXCEPT ![k] = IF k \in buf THEN "reply" ELSE "cancelled"]
    /\ dpc' = [dpc EXCEPT ![k] = "done"]
    /\ UNCHANGED <<sessions, pending, closed, panicked, wireVars, hpc, cur, apc, runs, ses>>

\* Mutants: a timeout returns without cancelPending; a timeout sends again.
timeoutNoCancel(k) ==
    /\ dpc[k] = "wait"
    /\ dpc' = [dpc EXCEPT ![k] = "done"]
    /\ outcome' = [outcome EXCEPT ![k] = "timeout"]
    /\ UNCHANGED <<serverVars, wireVars, hpc, cur, apc, runs, ses>>

timeoutRetries(k) ==
    /\ dpc[k] = "wait"
    /\ dpc' = [dpc EXCEPT ![k] = "send"]
    /\ UNCHANGED <<serverVars, wireVars, hpc, cur, apc, runs, ses, outcome>>

\* select, second case; it may win although a reply is ready.
timeout(k) ==
    /\ dpc[k] = "wait"
    /\ dpc' = [dpc EXCEPT ![k] = "cancel"]
    /\ outcome' = [outcome EXCEPT ![k] = "timeout"]
    /\ UNCHANGED <<serverVars, wireVars, hpc, cur, apc, runs, ses>>

\* Mutants: the channel is closed although somebody else has taken it; the
\* cancel waits for an entry that a reply may have taken.
cancelAlways(k) ==
    /\ dpc[k] = "cancel"
    /\ pending' = pending \ {k}
    /\ dpc' = [dpc EXCEPT ![k] = "close"]
    /\ UNCHANGED <<sessions, buf, closed, panicked, wireVars, hpc, cur, apc, runs, ses, outcome>>

cancelWaits(k) ==
    /\ dpc[k] = "cancel"
    /\ k \in pending
    /\ pending' = pending \ {k}
    /\ dpc' = [dpc EXCEPT ![k] = "close"]
    /\ UNCHANGED <<sessions, buf, closed, panicked, wireVars, hpc, cur, apc, runs, ses, outcome>>

cancelTake(k) ==
    /\ dpc[k] = "cancel"
    /\ \/ /\ k \in pending
          /\ pending' = pending \ {k}
          /\ dpc' = [dpc EXCEPT ![k] = "close"]
       \/ /\ k \notin pending
          /\ dpc' = [dpc EXCEPT ![k] = "done"]
          /\ UNCHANGED pending
    /\ UNCHANGED <<sessions, buf, closed, panicked, wireVars, hpc, cur, apc, runs, ses, outcome>>

cancelClose(k) ==
    /\ dpc[k] = "close"
    /\ panicked' = (panicked \/ k \in closed)
    /\ closed' = closed \cup {k}
    /\ dpc' = [dpc EXCEPT ![k] = "done"]
    /\ UNCHANGED <<sessions, pending, buf, wireVars, hpc, cur, apc, runs, ses, outcome>>

-----------------------------------------------------------------------------
Handler(c) ==
    \/ register(c) \/ SendRegisterOK(c) \/ Decode(c) \/ DecodeError(c)
    \/ resolveTake(c) \/ resolveSend(c) \/ resolveClose(c)
    \/ unregister(c) \/ Hangup(c)

Dispatch(k) ==
    \/ registerPending(k) \/ send(k) \/ receive(k) \/ timeout(k)
    \/ cancelTake(k) \/ cancelClose(k)

Agent(c) == AgentConnect(c) \/ AgentHandshake(c) \/ AgentRun(c) \/ AgentLeave(c)

Next ==
    \/ \E c \in Conns : Agent(c) \/ NetworkDrop(c) \/ RefuseAgent(c) \/ Handler(c)
    \/ \E k \in Calls : Dispatch(k) \/ \E a \in Agents : dispatchGet(k, a)

Spec == Init /\ [][Next]_vars

(***************************************************************************)
(* The Go scheduler runs every goroutine that can run, a timer fires, and  *)
(* TCP keepalive (on by default in net.Listen) ends the read of a lost     *)
(* connection.  Nothing is assumed of the agent or of callers.             *)
(***************************************************************************)
Fairness ==
    /\ \A c \in Conns : WF_vars(Handler(c))
    /\ \A k \in Calls : WF_vars(Dispatch(k))

FairSpec == Spec /\ Fairness

\* In addition agents keep reading their connections.
AgentsRead == \A c \in Conns : WF_vars(AgentHandshake(c) \/ AgentRun(c))

-----------------------------------------------------------------------------
(* Properties.                                                             *)

(***************************************************************************)
(* resolvePending and cancelPending send on and close a channel after they *)
(* have dropped m.mu; however a reply, a failed write and a timeout        *)
(* interleave, no goroutine sends on or closes a closed channel (which     *)
(* would bring the whole server down).                                     *)
(***************************************************************************)
NoPanic == ~panicked

(***************************************************************************)
(* Once dispatch has returned, by whichever of its returns, its CommandID  *)
(* is gone from the pending map: the map does not grow with time.          *)
(***************************************************************************)
NoPendingLeak == \A k \in Calls : dpc[k] = "done" => k \notin pending

(***************************************************************************)
(* The "cancelled" return of dispatch is never taken: nobody closes the    *)
(* channel of a waiting call without having put a message in it.           *)
(***************************************************************************)
NeverCancelled == \A k \in Calls : outcome[k] # "cancelled"

(***************************************************************************)
(* The session map never names a connection whose handler has left it: a   *)
(* published session belongs to its agent and has a handler that will      *)
(* still unregister it.                                                    *)
(***************************************************************************)
Serving == {"ack", "loop", "resolve", "deliver", "close", "unregister"}
SessionHasHandler ==
    \A a \in Agents : sessions[a] # NoConn =>
        /\ Owner[sessions[a]] = a
        /\ hpc[sessions[a]] \in Serving

(***************************************************************************)
(* After a reconnection the server has closed every connection that is     *)
(* still served for this agent but is not its session, so an agent is      *)
(* never served over two open connections.                                 *)
(***************************************************************************)
SupersededIsClosed ==
    \A c \in Conns : hpc[c] \in Serving /\ sessions[Owner[c]] # c => link[c] = "closed"

(***************************************************************************)
(* A session leaves the map only for its replacement or when its own       *)
(* handler unregisters it: a late unregister of an old connection never    *)
(* takes a newer session out.                                              *)
(***************************************************************************)
OnlyOwnSessionLeaves ==
    [][\A a \in Agents :
         sessions[a] # NoConn /\ sessions'[a] = NoConn =>
            hpc[sessions[a]] = "unregister" /\ hpc'[sessions[a]] = "hangup"]_vars

(***************************************************************************)
(* A reply is never lost on a caller that waits for it: resolvePending     *)
(* finds no entry, and the reply is dropped, only when the dispatch of     *)
(* this command has timed out or failed, however fast the agent answers    *)
(* and over whichever connection.                                          *)
(***************************************************************************)
OnlyLateRepliesDropped ==
    [][\A c \in Conns : hpc[c] = "resolve" /\ hpc'[c] = "loop"
                          => dpc[cur[c]] \in {"cancel", "close", "done"}]_vars

\* The caller's view of a call, for the refinement.
CallOf(k) ==
    CASE dpc[k] = "idle" -> "idle"
      [] dpc[k] \notin {"idle", "done"} -> "open"
      [] dpc[k] = "done" /\ outcome[k] \in {"reply", "offline"} -> outcome[k]
      [] OTHER -> "error"

RC == INSTANCE RemoteCall WITH call <- [k \in Calls |-> CallOf(k)]

(***************************************************************************)
(* dispatch implements RemoteCall: whatever is lost, late or reconnected,  *)
(* a command runs at most once, a returned reply is the reply to a run of  *)
(* this command, and a call refused as offline never runs.                 *)
(***************************************************************************)
ImplementsRemoteCall == RC!Spec

(***************************************************************************)
(* Every dispatch returns.                                                 *)
(***************************************************************************)
EveryCallReturns == \A k \in Calls : dpc[k] # "idle" ~> dpc[k] = "done"

(***************************************************************************)
(* When an agent's end of the connection is gone, its session leaves the   *)
(* map, so later commands are refused at once and not sent into a void.    *)
(***************************************************************************)
DeadSessionLeaves ==
    \A c \in Conns : apc[c] = "gone" ~> sessions[Owner[c]] # c

(***************************************************************************)
(* docs/PHASE_1_ARCHITECTURE.md, flow 1: the agent registers, the server   *)
(* acknowledges and "l'agent reste connecte": the agent does not give up   *)
(* in the handshake a connection that works.                               *)
(***************************************************************************)
HandshakeKeepsConnection ==
    [][\A c \in Conns :
         apc[c] = "handshake" /\ link[c] = "open" /\ hpc[c] \in Serving
           /\ Len(down'[c]) < Len(down[c]) => apc'[c] = "serve"]_vars
=============================================================================
