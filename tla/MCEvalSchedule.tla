--------------------------- MODULE MCEvalSchedule ---------------------------
(***************************************************************************)
(* Instances of EvalSchedule for TLC: a weak-only trial followed by a      *)
(* routed one, whose bound includes the classifier.                        *)
(***************************************************************************)
EXTENDS EvalSchedule

MCOne   == <<0>>
MCBound == <<1, 2>>
=============================================================================
