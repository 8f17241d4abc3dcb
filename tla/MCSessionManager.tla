-------------------------- MODULE MCSessionManager --------------------------
(* Small instances of SessionManager for TLC. *)
EXTENDS SessionManager, TLC

CONSTANTS a1, c1, c2, k1, k2

OneOwner == (c1 :> a1) @@ (c2 :> a1)
OneConn == c1 :> a1

\* The order in which connections and calls are used.  The first two lines only
\* name them (any two are alike); the third is a bound: one call at least is
\* given before the agent reconnects, and may be anywhere on its way by then.
InOrder ==
    /\ link'[c2] # "unused" => link[c1] # "unused"
    /\ dpc'[k2] # "idle" => dpc[k1] # "idle"
    /\ dpc[k1] = "idle" /\ dpc'[k1] # "idle" => link[c2] = "unused"

\* Only AgentConnect and dispatchGet are held back, which fairness never asks for.
OrderedSpec == Init /\ [][Next /\ InOrder]_vars /\ Fairness /\ AgentsRead
=============================================================================
