-------------------------- MODULE MCSessionRouting --------------------------
(***************************************************************************)
(* Instances of SessionRouting for TLC.  Sessions are interchangeable: the *)
(* code compares their identifiers and nothing else.                       *)
(***************************************************************************)
EXTENDS SessionRouting, TLC

CONSTANTS s1, s2, c1, c2

Symmetry == Permutations(Sessions)
=============================================================================
