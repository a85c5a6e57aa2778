---------------------------- MODULE MCRCProcesses ----------------------------
(***************************************************************************)
(* Instances of RCProcesses for TLC.                                       *)
(***************************************************************************)
EXTENDS RCProcesses, TLC

CONSTANTS p1, p2
==============================================================================
