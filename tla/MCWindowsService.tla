-------------------------- MODULE MCWindowsService --------------------------
(* Instances of WindowsService for TLC.                                    *)
EXTENDS WindowsService
=============================================================================
