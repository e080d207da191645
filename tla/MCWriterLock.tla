---------------------------- MODULE MCWriterLock ----------------------------
(***************************************************************************)
(* Instances of WriterLock for TLC: interchangeable launchers.             *)
(***************************************************************************)
EXTENDS WriterLock, TLC

CONSTANTS l1, l2, l3

Symmetry == Permutations(Launchers)
=============================================================================
