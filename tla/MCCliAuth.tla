----------------------------- MODULE MCCliAuth -----------------------------
(* Instance of CliAuth for TLC: the clock runs past the purge limit of the *)
(* earliest request and the longest stall is allowed.                      *)
EXTENDS CliAuth

CONSTANTS r1, r2, h1, h2
=============================================================================
