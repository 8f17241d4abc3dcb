-------------------------- MODULE MCAgentPresence --------------------------
(* Small instances of AgentPresence for TLC. *)
EXTENDS AgentPresence

CONSTANTS c1, c2, k1
=============================================================================
