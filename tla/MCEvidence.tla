----------------------------- MODULE MCEvidence -----------------------------
(***************************************************************************)
(* Instance of Evidence for TLC: a source without a flaw and one that only *)
(* the full level finds out, one development trial and two held-out ones.  *)
(***************************************************************************)
EXTENDS Evidence, TLC

CONSTANTS good, flawed

MCFlaws  == good :> {} @@ flawed :> {"all-tests"}
MCSize   == "dev" :> 1 @@ "heldout" :> 2
Symmetry == Permutations(Freezers) \cup Permutations(Configs)

\* Bound: of the development experiment, the held-out experiment with its policy,
\* and the verification, one is at work at a time.  They share only what the
\* operator changes.
OneAtATime ==
  \/ run["dev"].pc = "off" /\ ~verifying
  \/ run["heldout"].pc = "off" /\ (\A f \in Freezers : freezer[f] = None)
       /\ (run["dev"].pc = "off" \/ ~verifying)

\* The search is cut where no verdict can be PASS any more and the held-out
\* manifest is bound or absent: neither a verification nor a manifest changes.
MayPass ==
  /\ exp["heldout"] = None \/ (exp["heldout"].benchmark # None /\ ~exp["heldout"].benchmark.exposure)
  /\ verification # None =>
       /\ verification.level = "full" /\ Status(verification) # "FAIL"
       /\ verifying \/ Status(verification) = "PASS"
=============================================================================
