------------------------------ MODULE MCBridge ------------------------------
(***************************************************************************)
(* Instance of Bridge for TLC: three decisions.                            *)
(***************************************************************************)
EXTENDS Bridge

CONSTANTS d1, d2, d3
=============================================================================
