------------------------------- MODULE Reports -------------------------------
(***************************************************************************)
(* The offline readers of an experiment directory: the aggregate report    *)
(* and the threshold and random-selection replays (src/evaluation/         *)
(* analysis.ts), and the status report at the end of a run with its exit   *)
(* code (src/evaluation/smoke.ts).  They are functions of the directory,   *)
(* whose behaviour is Experiment's: the properties say what they compute   *)
(* at any moment of any run.  Ratios are kept as numerator and             *)
(* denominator; intervals, medians and latencies are left out.             *)
(***************************************************************************)
EXTENDS Experiment, SequencesExt, FiniteSetsExt

CONSTANTS
  Schedule,   \* the manifest's schedule: the pair and mode of each trial
  Threshold,  \* the manifest's weakThreshold, in hundredths
  None        \* JavaScript's null and undefined

Modes == {"weak-only", "strong-only", "routed"}

Decision ==
  [tier : {"weak", "strong"},
   source : {"classifier", "classifier-fallback", "fixed-baseline"},
   probability : 0..100 \cup {None}]

Roles == {"classifier", "coding", "compaction"}

\* The calls of a role in an attempt: those whose usage was observed, the ones among
\* them that were cut, those that left no usage, and the tokens observed and what
\* they cost under the pricing of the role's model, or null.
Usage ==
  {u \in [observed : Nat, incomplete : Nat, missing : Nat, tokens : Nat,
          price : Nat \cup {None}] :
     u.observed = 0 => u.incomplete = 0 /\ u.tokens = 0 /\ u.price \in {0, None}}

\* A finalized attempt: its outcome, the routing decision, the model that served
\* the last coding answer, and the usage of each role.
Recorded ==
  [raw : Raw \ {"void", "open"}, decision : Decision \cup {None},
   served : {"weak", "strong", None}, usage : [Roles -> Usage]]

\* External: in routed mode a classifier's verdict selects by the threshold; without
\* one the tier is strong.
Live(decision) ==
  /\ decision.source # "fixed-baseline"
  /\ decision.tier = IF /\ decision.source = "classifier" /\ decision.probability # None
                        /\ decision.probability >= Threshold
                     THEN "weak" ELSE "strong"

\* External: without a decision, no coding call is made in routed mode.
Uncoded(a) ==
  \A role \in {"coding", "compaction"} :
    a.usage[role].observed = 0 /\ a.usage[role].missing = 0

ASSUME ReportsAssumption ==
  /\ NumTrials \in Nat /\ MaxAttempts \in Nat
  /\ Schedule \in [Trials -> [pair : Nat, mode : Modes]]
  /\ \A t, u \in Trials : Schedule[t] = Schedule[u] => t = u
  /\ \A t \in Trials : \A m \in Modes :
       \E u \in Trials : Schedule[u] = [Schedule[t] EXCEPT !.mode = m]
  /\ Threshold \in 0..100

\* External: what the recorder of a trial leaves (see RunArtifacts).
ASSUME ResultAssumption ==
  /\ \A t \in Trials : Result(t) \subseteq Recorded
  /\ \A t \in Trials : \A r \in Result(t) :
       Schedule[t].mode = "routed" =>
         IF r.decision = None THEN Uncoded(r) ELSE Live(r.decision)

ASSUME NoneAssumption == None \notin Recorded \cup Decision \cup Nat \cup {"weak", "strong"}

\* A pair is one repetition of one task; each is run once in every mode.
Pairs == {Schedule[t].pair : t \in Trials}

Finalized(a) == a.raw \notin {"void", "open"}

\* Every attempt directory has its type.
TypeOK ==
  /\ attempts \in [Trials -> Seq({[raw |-> "void"], [raw |-> "open"]} \cup Recorded)]
  /\ \A t \in Trials : Len(attempts[t]) <= MaxAttempts

-----------------------------------------------------------------------------
(* Loading. *)

classifyTrialOutcome(a) ==
  IF a.raw \in {"cancelled", "unvalidated"} THEN "incomplete" ELSE a.raw

\* The attempts of t that a reader's loop comes to: up to the first outcome.
Reached(t) ==
  LET decided == {k \in DOMAIN attempts[t] : Decided(attempts[t][k])}
  IN SubSeq(attempts[t], 1,
            IF decided = {} THEN Len(attempts[t]) ELSE Min(decided))

\* Otherwise readAttempt throws, and no report is made.
Readable ==
  \A t \in Trials : \A k \in DOMAIN Reached(t) : Reached(t)[k].raw # "void"

\* The ResolvedTrial that loadExperimentRecords makes of trial t; its physical
\* attempts are kept under their numbers.
loadTrial(t) ==
  LET all      == Reached(t)
      physical == {k \in DOMAIN all : Finalized(all[k])}
      selected == IF physical = {} THEN None ELSE all[Max(physical)]
  IN [result     |-> selected,
      outcome    |-> IF selected = None THEN "incomplete"
                     ELSE classifyTrialOutcome(selected),
      physical   |-> [k \in physical |-> all[k]],
      incomplete |-> Len(all) - Cardinality(physical)]

loadExperimentRecords == [t \in Trials |-> loadTrial(t)]

isEvaluated(x) == x.outcome \in {"pass", "fail"}

\* byPair: the trial of a pair in a mode.
byPair ==
  [p \in Pairs |-> [mode \in Modes |->
     CHOOSE t \in Trials : Schedule[t].pair = p /\ Schedule[t].mode = mode]]

In(p, mode) == byPair[p][mode]

DecisionOf(x) == IF x.result = None THEN None ELSE x.result.decision

-----------------------------------------------------------------------------
(* Usage and cost. *)

\* The summary of the calls of u and those of v.
Plus(u, v) ==
  [observed   |-> u.observed + v.observed,
   incomplete |-> u.incomplete + v.incomplete,
   missing    |-> u.missing + v.missing,
   tokens     |-> u.tokens + v.tokens,
   price      |-> IF None \in {u.price, v.price} THEN None ELSE u.price + v.price]

codingUsage(a) == Plus(a.usage["coding"], a.usage["compaction"])

totalUsage(a) == Plus(a.usage["classifier"], codingUsage(a))

\* The status of a summary is "complete"; it is "unknown", without a number of
\* tokens, when calls were made and none observed, and else "partial".
isComplete(u) == u.missing = 0 /\ u.incomplete = 0

totalTokens(u) == IF u.observed = 0 /\ u.missing > 0 THEN None ELSE u.tokens

estimatedCost(u) == IF isComplete(u) THEN u.price ELSE None

Tokens(a) == totalTokens(totalUsage(a))

\* totalEstimatedCostUsd: the coding and compaction calls are priced together.
Cost(a) ==
  LET left  == estimatedCost(a.usage["classifier"])
      right == estimatedCost(codingUsage(a))
  IN IF None \in {left, right} THEN None ELSE left + right

Tier(t, a) ==
  CASE a.decision # None -> a.decision.tier
    [] a.decision = None /\ Schedule[t].mode = "weak-only"   -> "weak"
    [] a.decision = None /\ Schedule[t].mode = "strong-only" -> "strong"
    [] OTHER -> None

\* The sum of the values of f, and null when one of them is.
sumKnown(f) ==
  IF \E x \in DOMAIN f : f[x] = None THEN None
  ELSE SumFunction(f)

\* Mutant: attempts that were interrupted are not asked for.
trialCost_finalized(x) ==
  IF DOMAIN x.physical = {} THEN None
  ELSE sumKnown([k \in DOMAIN x.physical |-> Cost(x.physical[k])])

\* trialCost of the loaded trial x.
trialCost(x) ==
  IF x.incomplete > 0 \/ DOMAIN x.physical = {} THEN None
  ELSE sumKnown([k \in DOMAIN x.physical |-> Cost(x.physical[k])])

classifierCost(x) ==
  IF x.incomplete > 0 \/ DOMAIN x.physical = {} THEN None
  ELSE sumKnown([k \in DOMAIN x.physical |->
                  estimatedCost(x.physical[k].usage["classifier"])])

\* The tokens of an attempt on the strong identity, as the readiness assessment
\* counts them: null when a call is missing or cut, or another model served them.
StrongTokens(t, a) ==
  IF \/ \E role \in Roles : ~isComplete(a.usage[role])
     \/ codingUsage(a).observed > 0 /\ (Tier(t, a) = None \/ a.served # Tier(t, a))
  THEN None
  ELSE IF Tier(t, a) = "strong" THEN codingUsage(a).tokens ELSE 0

strongIdentityTokens(t, x) ==
  IF x.incomplete > 0 \/ DOMAIN x.physical = {} THEN None
  ELSE sumKnown([k \in DOMAIN x.physical |-> StrongTokens(t, x.physical[k])])

\* The physical attempts that were loaded, as positions.
Physical(trials) == {q \in Trials \X (1..MaxAttempts) : q[2] \in DOMAIN trials[q[1]].physical}

Interrupted(trials) == SumFunction([t \in Trials |-> trials[t].incomplete])

\* The models, taken to be distinct, with the roles they are used in.
Identities == {<<"classifier", "classifier">>} \cup ({"weak", "strong"} \X {"coding", "compaction"})

\* The tokens of a model in a role.
IdentityTokens(trials, identity) ==
  LET at(q)   == trials[q[1]].physical[q[2]]
      matched == {q \in Physical(trials) : identity[1] \in {"classifier", Tier(q[1], at(q))}}
  IN sumKnown([q \in matched |-> totalTokens(at(q).usage[identity[2]])])

aggregateUsage(trials) ==
  [byIdentity |-> [i \in Identities |-> IdentityTokens(trials, i)],
   total      |-> IF Interrupted(trials) > 0 THEN None
                  ELSE sumKnown([q \in Physical(trials) |->
                         Tokens(trials[q[1]].physical[q[2]])])]

spend(trials) ==
  IF Interrupted(trials) > 0 THEN None
  ELSE sumKnown([q \in Physical(trials) |-> Cost(trials[q[1]].physical[q[2]])])

-----------------------------------------------------------------------------
(* The aggregate report. *)

\* Mutant: a baseline that was not evaluated is compared all the same.
primaryCategory_eager(weak, strong, routed) ==
  IF ~isEvaluated(routed) \/ DecisionOf(routed) = None
  THEN "incomplete-comparison"
  ELSE IF DecisionOf(routed).tier = "weak"
  THEN CASE routed.outcome = "pass" -> "correct-efficiency"
         [] routed.outcome = "fail" /\ strong.outcome = "pass" -> "under-route"
         [] OTHER -> "unresolved-weak-failure"
  ELSE CASE routed.outcome = "pass" /\ weak.outcome = "fail" -> "correct-capability"
         [] routed.outcome = "pass" /\ weak.outcome # "fail" -> "over-route"
         [] routed.outcome = "fail" /\ weak.outcome = "pass" -> "missed-weak-success"
         [] OTHER -> "unresolved-strong-failure"

\* The comparison of a routed trial with the baseline it did not take.
primaryCategory(weak, strong, routed) ==
  LET toWeak == DecisionOf(routed).tier = "weak"
      other  == IF toWeak THEN strong ELSE weak
  IN CASE ~isEvaluated(routed) \/ DecisionOf(routed) = None -> "incomplete-comparison"
       [] OTHER ->
     CASE toWeak /\ routed.outcome = "pass" -> "correct-efficiency"
       [] (~toWeak \/ routed.outcome = "fail") /\ ~isEvaluated(other) ->
            "incomplete-comparison"
       [] OTHER ->
     CASE toWeak /\ other.outcome = "pass" -> "under-route"
       [] toWeak /\ other.outcome = "fail" -> "unresolved-weak-failure"
       [] ~toWeak /\ routed.outcome = "pass" /\ other.outcome = "fail" -> "correct-capability"
       [] ~toWeak /\ routed.outcome = "pass" /\ other.outcome = "pass" -> "over-route"
       [] ~toWeak /\ routed.outcome = "fail" /\ other.outcome = "pass" -> "missed-weak-success"
       [] ~toWeak /\ routed.outcome = "fail" /\ other.outcome = "fail" -> "unresolved-strong-failure"

CategoryOf(trials, p) ==
  primaryCategory(trials[In(p, "weak-only")], trials[In(p, "strong-only")],
                  trials[In(p, "routed")])

PRIMARY_CATEGORIES ==
  {"correct-efficiency", "correct-capability", "under-route", "over-route",
   "unresolved-weak-failure", "missed-weak-success", "unresolved-strong-failure",
   "incomplete-comparison"}

\* Categories, triplets, denominators and contingency of the pairs.
Comparison(trials) ==
  LET weak(p)   == trials[In(p, "weak-only")]
      strong(p) == trials[In(p, "strong-only")]
      routed(p) == trials[In(p, "routed")]
      category(p) == CategoryOf(trials, p)
      routedTo(p, tier) ==
        /\ DecisionOf(routed(p)) # None /\ isEvaluated(routed(p))
        /\ DecisionOf(routed(p)).tier = tier
      complete(p) ==
        /\ isEvaluated(weak(p)) /\ isEvaluated(strong(p)) /\ isEvaluated(routed(p))
        /\ DecisionOf(routed(p)) # None
      both(p, w, s) == weak(p).outcome = w /\ strong(p).outcome = s
  IN [counts       |-> [c \in PRIMARY_CATEGORIES |-> Quantify(Pairs, LAMBDA p : category(p) = c)],
      triplets     |-> Quantify(Pairs, complete),
      under        |-> Quantify(Pairs, LAMBDA p : routedTo(p, "weak") /\ isEvaluated(strong(p))),
      over         |-> Quantify(Pairs, LAMBDA p : routedTo(p, "strong") /\ isEvaluated(weak(p))),
      underTriplet |-> Quantify(Pairs, LAMBDA p : complete(p) /\ category(p) = "under-route"),
      overTriplet  |-> Quantify(Pairs, LAMBDA p : complete(p) /\ category(p) = "over-route"),
      contingency  |-> [o \in {"pass", "fail"} \X {"pass", "fail"} |->
                          Quantify(Pairs, LAMBDA p : both(p, o[1], o[2]))],
      uncompared   |-> Quantify(Pairs, LAMBDA p : ~isEvaluated(weak(p)) \/ ~isEvaluated(strong(p))),
      disagree     |-> Quantify(Pairs, LAMBDA p :
                         \E tier \in {"weak", "strong"} :
                           LET base == IF tier = "weak" THEN weak(p) ELSE strong(p)
                           IN /\ routedTo(p, tier) /\ isEvaluated(base)
                              /\ base.outcome # routed(p).outcome)]

\* costSavings: the pairs with both costs, and the two sums.
Savings(trials) ==
  LET matched == {p \in Pairs : /\ isEvaluated(trials[In(p, "routed")])
                                /\ isEvaluated(trials[In(p, "strong-only")])}
      cost(p, mode) == trialCost(trials[In(p, mode)])
      rows == {p \in matched : cost(p, "routed") # None /\ cost(p, "strong-only") # None}
  IN [pairs       |-> Cardinality(rows),
      omitted     |-> Cardinality(matched \ rows),
      numerator   |-> SumFunction([p \in rows |-> cost(p, "strong-only") - cost(p, "routed")]),
      denominator |-> SumFunction([p \in rows |-> cost(p, "strong-only")])]

\* The lower bounds of the calibration bins, in thousandths: 3 * 0.2 is a little
\* more than 0.6 in binary floating point.
BinLower == <<0, 200, 400, 601, 800>>

InBin(probability, i) ==
  /\ probability * 10 >= BinLower[i]
  /\ i = 5 \/ probability * 10 < BinLower[i + 1]

Calibration(trials) ==
  LET decided == {p \in Pairs : DecisionOf(trials[In(p, "routed")]) # None}
      d(p)    == DecisionOf(trials[In(p, "routed")])
      normal  == {p \in decided : d(p).source # "classifier-fallback"}
      rated   == {p \in normal : d(p).probability # None}
      rows    == {p \in rated : isEvaluated(trials[In(p, "weak-only")])}
  IN [samples  |-> Cardinality(rows),
      excluded |-> <<Cardinality(decided \ normal), Cardinality(normal \ rated),
                     Cardinality(rated \ rows)>>,
      bins     |-> [i \in 1..5 |-> Quantify(rows, LAMBDA p : InBin(d(p).probability, i))]]

\* The outcome counts of each mode.
ModeOutcomes(trials) ==
  [m \in Modes |-> [o \in {"pass", "fail", "unavailable", "incomplete"} |->
     Quantify(Trials, LAMBDA t : Schedule[t].mode = m /\ trials[t].outcome = o)]]

aggregateExperiment(trials) ==
  LET with(o) == Quantify(Trials, LAMBDA t : trials[t].outcome = o)
      decided == {t \in Trials : Schedule[t].mode = "routed" /\ DecisionOf(trials[t]) # None}
      d(t)    == DecisionOf(trials[t])
  IN [planned     |-> NumTrials,
      evaluated   |-> Quantify(Trials, LAMBDA t : isEvaluated(trials[t])),
      unavailable |-> with("unavailable"),
      incomplete  |-> NumTrials - Quantify(Trials, LAMBDA t : trials[t].outcome # "incomplete"),
      physical    |-> Cardinality(Physical(trials)),
      interrupted |-> Interrupted(trials),
      modes       |-> ModeOutcomes(trials),
      decisions   |-> Cardinality(decided),
      weak        |-> Quantify(decided, LAMBDA t : d(t).tier = "weak"),
      strong      |-> Cardinality(decided) - Quantify(decided, LAMBDA t : d(t).tier = "weak"),
      normal      |-> Quantify(decided, LAMBDA t : d(t).source = "classifier"),
      fallback    |-> Cardinality(decided) - Quantify(decided, LAMBDA t : d(t).source = "classifier"),
      categories  |-> Comparison(trials),
      savings     |-> Savings(trials),
      usage       |-> aggregateUsage(trials),
      spend       |-> spend(trials),
      calibration |-> Calibration(trials)]

\* What the schema of the report admits: counts are not negative, and where a value
\* is unknown it says so.
KnownOrNone == Nat \cup {None}

ExperimentReport ==
  [planned : Nat, evaluated : Nat, unavailable : Nat, incomplete : Nat,
   physical : Nat, interrupted : Nat,
   modes : [Modes -> [{"pass", "fail", "unavailable", "incomplete"} -> Nat]],
   decisions : Nat, weak : Nat, strong : Nat, normal : Nat, fallback : Nat,
   categories : [counts : [PRIMARY_CATEGORIES -> Nat], triplets : Nat,
                 under : Nat, over : Nat, underTriplet : Nat, overTriplet : Nat,
                 contingency : [{"pass", "fail"} \X {"pass", "fail"} -> Nat],
                 uncompared : Nat, disagree : Nat],
   savings : [pairs : Nat, omitted : Nat, numerator : Int, denominator : Nat],
   usage : [byIdentity : [Identities -> KnownOrNone], total : KnownOrNone],
   spend : KnownOrNone,
   calibration : [samples : Nat, excluded : [1..3 -> Nat], bins : [1..5 -> Nat]]]

\* validateExperimentReport does not throw.
validateExperimentReport(report) ==
  /\ report \in ExperimentReport
  /\ report.evaluated + report.unavailable + report.incomplete = report.planned
  /\ report.weak + report.strong = report.decisions
  /\ report.normal + report.fallback = report.decisions

-----------------------------------------------------------------------------
(* Replays of a development experiment. *)

REPLAY_THRESHOLDS == {0, 25, 50, 60, 70, 75, 80, 85, 90, 95, 100}

\* Mutant: the threshold itself is strong.
Replayed_strict(decision, threshold) ==
  IF decision.source = "classifier-fallback" \/ decision.probability = None
  THEN "strong"
  ELSE IF decision.probability > threshold THEN "weak" ELSE "strong"

\* The tier that a recorded decision comes to under another threshold.
Replayed(decision, threshold) ==
  IF decision.source = "classifier-fallback" \/ decision.probability = None
  THEN "strong"
  ELSE IF decision.probability >= threshold THEN "weak" ELSE "strong"

Baseline(p, tier) == In(p, IF tier = "weak" THEN "weak-only" ELSE "strong-only")

\* The outcome counts of a replay, tier being what it gives each decided pair.
Outcomes(trials, tier) ==
  LET decided == DOMAIN tier
      base(p) == trials[Baseline(p, tier[p])].outcome
  IN [pass        |-> Quantify(decided, LAMBDA p : base(p) = "pass"),
      fail        |-> Quantify(decided, LAMBDA p : base(p) = "fail"),
      unavailable |-> Cardinality(Pairs \ decided)
                      + Quantify(decided, LAMBDA p : base(p) \notin {"pass", "fail"})]

replayThresholds(trials, threshold) ==
  LET decided == {p \in Pairs : DecisionOf(trials[In(p, "routed")]) # None}
      d(p)    == DecisionOf(trials[In(p, "routed")])
      tier(p) == Replayed(d(p), threshold)
      base(p) == Baseline(p, tier(p))
      cost(p) ==
        IF \/ p \notin decided
           \/ trialCost(trials[base(p)]) = None
           \/ classifierCost(trials[In(p, "routed")]) = None
        THEN None
        ELSE trialCost(trials[base(p)])
               + classifierCost(trials[In(p, "routed")])
  IN [weak     |-> {p \in decided : tier(p) = "weak"},
      strong   |-> {p \in decided : tier(p) = "strong"},
      outcomes |-> Outcomes(trials, [p \in decided |-> tier(p)]),
      cost     |-> sumKnown([p \in Pairs |-> cost(p)])]

\* randomSelectionReplay for one outcome of its seeded shuffle: the pairs that
\* come first are chosen.
Selectable(trials) ==
  {p \in Pairs : /\ DecisionOf(trials[In(p, "routed")]) # None
                 /\ DecisionOf(trials[In(p, "routed")]).source = "classifier"
                 /\ DecisionOf(trials[In(p, "routed")]).probability # None}

randomSelectionReplay(trials, chosen) ==
  Outcomes(trials, [p \in {p \in Pairs : DecisionOf(trials[In(p, "routed")]) # None} |->
                      IF p \in chosen THEN "weak" ELSE "strong"])

RandomChoices(trials) ==
  kSubset(Quantify(Selectable(trials),
                   LAMBDA p : DecisionOf(trials[In(p, "routed")]).tier = "weak"),
          Selectable(trials))

-----------------------------------------------------------------------------
(* The status report, made when the runner has nothing more to dispatch. *)

\* The attempts of t before the first that cannot be read, whose ENOENT ends the
\* loop and skips the trial.
Seen(t) ==
  LET void == {k \in DOMAIN Reached(t) : Reached(t)[k].raw = "void"}
  IN IF void = {} THEN Reached(t) ELSE SubSeq(Reached(t), 1, Min(void) - 1)

\* Mutant: the first finalized attempt is selected.
Selected_first(t) ==
  IF SelectSeq(Reached(t), Finalized) = <<>> THEN None
  ELSE SelectSeq(Reached(t), Finalized)[1]

\* The attempt that stands for trial t: the last one, if it was finalized.
Selected(t) ==
  LET all == Reached(t)
  IN IF all = <<>> \/ Seen(t) # all \/ ~Finalized(all[Len(all)]) THEN None
     ELSE all[Len(all)]

generateSmokeReport ==
  LET rows    == {t \in Trials : Selected(t) # None}
      outcome(t) == classifyTrialOutcome(Selected(t))
      counted == {q \in Trials \X (1..MaxAttempts) : q[2] <= Len(Seen(q[1]))}
      at(q)   == Seen(q[1])[q[2]]
      known   == \A q \in counted : Finalized(at(q))
      evaluated == Quantify(rows, LAMBDA t : outcome(t) \in {"pass", "fail"})
      routed  == {t \in rows : Schedule[t].mode = "routed" /\ Selected(t).decision # None}
      d(t)    == Selected(t).decision
  IN [evaluated   |-> evaluated,
      missing     |-> NumTrials - evaluated,
      modeResults |-> [m \in Modes |->
                         [o \in {"pass", "fail", "unavailable", "incomplete"} |->
                            Quantify(rows, LAMBDA t : Schedule[t].mode = m /\ outcome(t) = o)]],
      weak        |-> Quantify(routed, LAMBDA t : d(t).tier = "weak"),
      strong      |-> Quantify(routed, LAMBDA t : d(t).tier = "strong"),
      fallback    |-> Quantify(routed, LAMBDA t : d(t).source = "classifier-fallback"),
      tokens      |-> IF ~known THEN None ELSE sumKnown([q \in counted |-> Tokens(at(q))]),
      cost        |-> IF ~known THEN None ELSE sumKnown([q \in counted |-> Cost(at(q))])]

SMOKE_REPORT_SCHEMA ==
  [evaluated : Nat, missing : Nat,
   modeResults : [Modes -> [{"pass", "fail", "unavailable", "incomplete"} -> Nat]],
   weak : Nat, strong : Nat, fallback : Nat, tokens : KnownOrNone, cost : KnownOrNone]

\* validateSmokeReport does not throw.
validateSmokeReport(report) ==
  /\ report \in SMOKE_REPORT_SCHEMA
  /\ report.evaluated + report.missing = NumTrials
  /\ \A m \in Modes :
       SumFunction(report.modeResults[m]) <= Cardinality(Pairs)

smokeExitCode(report) ==
  CASE \/ report.missing > 0
       \/ \E m \in Modes :
            report.modeResults[m]["unavailable"] + report.modeResults[m]["incomplete"] > 0 -> 3
    [] OTHER -> IF \E m \in Modes : report.modeResults[m]["fail"] > 0 THEN 1 ELSE 0

-----------------------------------------------------------------------------
(* What the reports promise, at any moment at which one can be made. *)

Loaded == loadExperimentRecords

\* The report's own validation never refuses what aggregateExperiment computed,
\* and every rate has a numerator within its denominator: each pair is in one
\* category and in one cell of the contingency table, under-routes are found only
\* where a strong baseline was evaluated and over-routes only where a weak one
\* was, and each decision is in one calibration bin or excluded for one reason.
ReportConsistent ==
  Readable => \A trials \in {Loaded} :
    LET r == aggregateExperiment(trials)
        c == r.categories
    IN /\ validateExperimentReport(r)
       /\ SumFunction(c.counts) = Cardinality(Pairs)
       /\ SumFunction(c.contingency) + c.uncompared = Cardinality(Pairs)
       /\ c.counts["under-route"] <= c.under
       /\ c.counts["over-route"] <= c.over
       /\ c.underTriplet + c.overTriplet <= c.triplets
       /\ SumFunction(r.calibration.bins) = r.calibration.samples
       /\ r.calibration.samples + SumFunction(r.calibration.excluded) = r.decisions

\* The report of the trials later contradicts nothing in that of the trials now.
Upholds(later, now) ==
  /\ \A t \in Trials : isEvaluated(now[t]) => later[t] = now[t]
  /\ \A p \in Pairs :
       CategoryOf(now, p) # "incomplete-comparison" =>
         CategoryOf(later, p) = CategoryOf(now, p)
  /\ Savings(now).pairs <= Savings(later).pairs

\* A report is never contradicted by a later one of the same experiment: an
\* outcome, a comparison with an evaluated baseline and a cost saving that was
\* reported stay as they are when the runner goes on.  That is so of every step,
\* into and out of the moments at which an attempt directory is void and no report
\* can be made as well; as Upholds is transitive, it is so of reports any number of
\* steps apart.
ReportStable ==
  [][\A now \in {Loaded}, later \in {Loaded'} : Upholds(later, now)]_attempts

\* The attempt directories of the trials in T.
Directories(T) == {q \in T \X (1..MaxAttempts) : q[2] <= Len(attempts[q[1]])}
Dir(q) == attempts[q[1]][q[2]]

\* Every call of the attempt in these roles left its whole usage, and a price.
Reported(a, roles) == Finalized(a) /\ \A role \in roles : isComplete(a.usage[role])
Priced(a, roles) == Reported(a, roles) /\ \A role \in roles : a.usage[role].price # None

\* What the calls cost, and the tokens of those that were observed.
Price(a, roles) == SumFunction([role \in roles |-> a.usage[role].price])
ObservedTokens(a) == SumFunction([role \in Roles |-> a.usage[role].tokens])

\* The same of all attempts at the trials in T.
FullyPriced(T, roles) == \A q \in Directories(T) : Priced(Dir(q), roles)
Billed(T, roles) == SumFunction([q \in Directories(T) |-> Price(Dir(q), roles)])
Observed(T) == SumFunction([q \in Directories(T) |-> ObservedTokens(Dir(q))])

\* Money is reported for every call of every attempt directory there is, retries,
\* interrupted attempts and compactions included, or not at all: a missing price is
\* never added as zero, in the spend, in the savings of a pair or in a replay's
\* cost, for which only the classifier's calls of the routed trials count.  The
\* total of tokens is what was observed in all directories, none of them interrupted,
\* and agrees with the tokens of the models when those are all known.  The strong
\* model's tokens that the readiness assessment compares leave no call out, and are
\* those of the report.
CostsComplete ==
  Readable => \A trials \in {Loaded} :
    LET r == aggregateExperiment(trials)
        sides(p) == {In(p, "routed"), In(p, "strong-only")}
        matched  == {p \in Pairs : \A t \in sides(p) : HasOutcome(t)}
        priced   == {p \in matched : FullyPriced(sides(p), Roles)}
        strong(t) == strongIdentityTokens(t, trials[t])
        by      == r.usage.byIdentity
    IN /\ r.physical + r.interrupted = Cardinality(Directories(Trials))
       /\ \A t \in Trials : strong(t) # None =>
            \A q \in Directories({t}) : Reported(Dir(q), Roles)
       /\ (\A t \in Trials : strong(t) # None) =>
            by[<<"strong", "coding">>] + by[<<"strong", "compaction">>]
              = SumFunction([t \in Trials |-> strong(t)])
       /\ r.spend = IF FullyPriced(Trials, Roles) THEN Billed(Trials, Roles) ELSE None
       /\ r.usage.total # None =>
            /\ \A q \in Directories(Trials) : Finalized(Dir(q))
            /\ r.usage.total = Observed(Trials)
            /\ (\A i \in Identities : by[i] # None) => r.usage.total = SumFunction(by)
       /\ r.savings.pairs = Cardinality(priced)
       /\ r.savings.omitted = Cardinality(matched) - Cardinality(priced)
       /\ r.savings.numerator =
            SumFunction([p \in priced |->
                           Billed({In(p, "strong-only")}, Roles)
                             - Billed({In(p, "routed")}, Roles)])
       /\ \A h \in REPLAY_THRESHOLDS :
            LET replay == replayThresholds(trials, h)
                routed == {In(p, "routed") : p \in Pairs}
                bases  == {Baseline(p, IF p \in replay.weak THEN "weak" ELSE "strong") :
                             p \in Pairs}
            IN replay.cost # None =>
                 /\ FullyPriced(bases, Roles) /\ FullyPriced(routed, {"classifier"})
                 /\ replay.cost = Billed(bases, Roles) + Billed(routed, {"classifier"})

\* What a reader of the report may take its total for, and does not hold: that no
\* call is left out of it.
TotalComplete ==
  Readable => \A trials \in {Loaded} :
    aggregateUsage(trials).total # None =>
      \A q \in Directories(Trials) : Reported(Dir(q), Roles)

Resolved(outcomes) == outcomes.pass + outcomes.fail + outcomes.unavailable

\* The replay under the experiment's own threshold selects what the live router
\* selected; a higher threshold never moves a pair to the weak tier; every pair
\* has one outcome in every replay; and the random control makes as many weak
\* selections as the router did, fallbacks staying strong.
ReplayFaithful ==
  Readable => \A trials \in {Loaded} :
    LET tierOf(p) == DecisionOf(trials[In(p, "routed")])
        routed(tier) == {p \in Pairs : tierOf(p) # None /\ tierOf(p).tier = tier}
        own     == replayThresholds(trials, Threshold)
    IN /\ own.weak = routed("weak") /\ own.strong = routed("strong")
       /\ \A h \in REPLAY_THRESHOLDS :
            LET replay == replayThresholds(trials, h)
            IN /\ Resolved(replay.outcomes) = Cardinality(Pairs)
               /\ h <= Threshold => own.weak \subseteq replay.weak
               /\ h >= Threshold => replay.weak \subseteq own.weak
       /\ \A chosen \in RandomChoices(trials) :
            /\ Cardinality(chosen) = Cardinality(routed("weak"))
            /\ Resolved(randomSelectionReplay(trials, chosen)) = Cardinality(Pairs)

\* The status report can be made at any moment, void and interrupted attempts
\* included, and passes its own validation.  Its exit code, which scripts rely on,
\* is 3 until every trial has its outcome and then tells whether one failed; from
\* then on it agrees with the aggregate report of the same directory on outcomes,
\* decisions and totals.
StatusAgrees ==
  \A trials \in {Loaded} :
  LET s       == generateSmokeReport
      r       == aggregateExperiment(trials)
      settled == \A t \in Trials : HasOutcome(t)
  IN /\ validateSmokeReport(s)
     /\ smokeExitCode(s) =
          CASE ~settled -> 3
            [] settled -> IF \E t \in Trials : trials[t].outcome = "fail" THEN 1 ELSE 0
     /\ settled =>
          /\ s.evaluated = r.evaluated /\ s.modeResults = r.modes
          /\ s.weak = r.weak /\ s.strong = r.strong /\ s.fallback = r.fallback
          /\ s.cost = r.spend /\ s.tokens = r.usage.total
=============================================================================
