--------------------------- MODULE MCProcessLock ---------------------------
(* Instances of ProcessLock for TLC: three processes, which is what the    *)
(* races need (one that holds or has crashed, and two that start).         *)
EXTENDS ProcessLock

CONSTANTS p1, p2, p3
=============================================================================
