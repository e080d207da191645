--------------------------- MODULE MCRunArtifacts ---------------------------
(***************************************************************************)
(* Instance of RunArtifacts for TLC.  The search is cut at the second      *)
(* attempt once something went wrong (mishaps only grows, and the          *)
(* invariants about several attempts hold anyway where it is not empty),   *)
(* and when the two attempts have numbered TotalEvents events.             *)
(***************************************************************************)
EXTENDS RunArtifacts, TLC

TotalEvents == 7

Symmetry    == Permutations(Sessions)
Undisturbed ==
  Len(recs) < 2 \/ (mishaps = {} /\ recs[1].seq + recs[2].seq <= TotalEvents)
=============================================================================
