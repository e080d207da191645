------------------------------ MODULE MCReports ------------------------------
(***************************************************************************)
(* Two pairs, run in an order that starts a pair with each of the modes,   *)
(* at a threshold of 0.75.  The probabilities are on either side of it and *)
(* on it.                                                                  *)
(***************************************************************************)
EXTENDS Reports

MCSchedule ==
  << [pair |-> 1, mode |-> "routed"], [pair |-> 2, mode |-> "weak-only"],
     [pair |-> 1, mode |-> "strong-only"], [pair |-> 2, mode |-> "routed"],
     [pair |-> 1, mode |-> "weak-only"], [pair |-> 2, mode |-> "strong-only"] >>

D(tier, source, probability) ==
  [tier |-> tier, source |-> source, probability |-> probability]

\* The classifier's verdict is used on pair 1 and may be missing on pair 2.
Decisions(p) ==
  {D("weak", "classifier", 75),
   IF p = 1 THEN D("strong", "classifier", 60)
   ELSE D("strong", "classifier-fallback", None)}

\* One role's calls: none, one without usage, and one of so many tokens at a price.
NoCall == [observed |-> 0, incomplete |-> 0, missing |-> 0, tokens |-> 0, price |-> 0]
Lost == [NoCall EXCEPT !.missing = 1]
Call(tokens, price) ==
  [observed |-> 1, incomplete |-> 0, missing |-> 0, tokens |-> tokens, price |-> price]

Attempt(raw, decision, served, classifier, coding, compaction) ==
  [raw |-> raw, decision |-> decision, served |-> served,
   usage |-> [classifier |-> classifier, coding |-> coding, compaction |-> compaction]]

\* A run that ended under decision d: a fallback is a classifier call that was lost,
\* and the strong baseline of pair 2 was compacted.
Completed(t, d) ==
  Attempt("unvalidated", d, d.tier,
          CASE d.source = "classifier"          -> Call(1, 1)
            [] d.source = "classifier-fallback" -> Lost
            [] d.source = "fixed-baseline"      -> NoCall,
          Call(2, IF d.tier = "weak" THEN 2 ELSE 6),
          IF Schedule[t].pair = 2 /\ Schedule[t].mode = "strong-only" THEN Call(1, 3) ELSE NoCall)

\* The results that the reports can tell apart: a routed run may fail before it
\* has a decision; a strong-only run may fail with a compaction that left no usage,
\* or with calls that have no price.
MCResult(t) ==
  LET mode == Schedule[t].mode
      decisions == CASE mode = "routed" -> Decisions(Schedule[t].pair)
                     [] mode = "weak-only" -> {D("weak", "fixed-baseline", None)}
                     [] OTHER -> {D("strong", "fixed-baseline", None)}
      failed == IF Schedule[t].pair = 1
                THEN Attempt("fail", None, "strong", NoCall, Call(2, 6), Lost)
                ELSE Attempt("fail", None, "strong", NoCall, Call(2, None), NoCall)
  IN {Completed(t, d) : d \in decisions}
       \cup {x \in {Attempt("unavailable", None, None, Lost, NoCall, NoCall)} : mode = "routed"}
       \cup {x \in {failed} : mode = "strong-only"}

\* Bound: at most this many second attempts in one experiment.
MaxRetries == 1

FewRetries ==
  Quantify({t \in Trials : Len(attempts[t]) > 1}, LAMBDA t : TRUE) <= MaxRetries
=============================================================================
