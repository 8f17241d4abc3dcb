------------------------------ MODULE MCFleet ------------------------------
(* Instances of Fleet for TLC.                                             *)
EXTENDS Fleet, TLC

CONSTANTS g1, a1, a2, c1, c2

Symmetry == Permutations(Agents) \cup Permutations(Requests)
=============================================================================
