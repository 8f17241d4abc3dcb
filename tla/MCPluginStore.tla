--------------------------- MODULE MCPluginStore ---------------------------
(* Instances of PluginStore for TLC.                                       *)
EXTENDS PluginStore

CONSTANTS n1, v1, v2, b1, b2, r1, r2
=============================================================================
