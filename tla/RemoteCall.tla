----------------------------- MODULE RemoteCall -----------------------------
(***************************************************************************)
(* What trish-server promises to the callers of sessionManager.dispatch:   *)
(* a call is a remote command sent on behalf of one CLI request.  A call   *)
(* is refused as "offline" before anything is sent, or is opened and then  *)
(* answered exactly once, with the agent's reply or with an error.  The    *)
(* agent runs the command at most once; a reply is only ever the reply to  *)
(* a run of this very command; a call refused as offline never runs.  An   *)
(* error says nothing: the command may have run, or may still run later.   *)
(***************************************************************************)
EXTENDS Naturals

CONSTANT Calls      \* the dispatched commands, one per CommandID

VARIABLES
    call,           \* call[k]: where the caller of k stands
    runs            \* runs[k]: how often an agent has executed k

vars == <<call, runs>>

CallStates == {"idle", "open", "reply", "offline", "error"}

TypeOK ==
    /\ call \in [Calls -> CallStates]
    /\ runs \in [Calls -> Nat]

Init ==
    /\ call = [k \in Calls |-> "idle"]
    /\ runs = [k \in Calls |-> 0]

Open(k) ==
    /\ call[k] = "idle"
    /\ call' = [call EXCEPT ![k] = "open"]
    /\ UNCHANGED runs

Refuse(k) ==
    /\ call[k] = "idle"
    /\ call' = [call EXCEPT ![k] = "offline"]
    /\ UNCHANGED runs

\* The agent may run the command while the call is open, or late, after the
\* caller has been told of an error.
Run(k) ==
    /\ call[k] \in {"open", "error"}
    /\ runs[k] = 0
    /\ runs' = [runs EXCEPT ![k] = 1]
    /\ UNCHANGED call

Reply(k) ==
    /\ call[k] = "open"
    /\ runs[k] = 1
    /\ call' = [call EXCEPT ![k] = "reply"]
    /\ UNCHANGED runs

Fail(k) ==
    /\ call[k] = "open"
    /\ call' = [call EXCEPT ![k] = "error"]
    /\ UNCHANGED runs

Next == \E k \in Calls : Open(k) \/ Refuse(k) \/ Run(k) \/ Reply(k) \/ Fail(k)

Spec == Init /\ [][Next]_vars
=============================================================================
