---------------------------- MODULE EvalSchedule ----------------------------
(***************************************************************************)
(* The evaluation runner of one experiment: the dispatch loop of the       *)
(* launcher (eval_run_command, eval_resume_command, eval_execute_schedule  *)
(* and eval_run_trial in route-agent), the controller it asks for the next *)
(* job (nextEvaluationAction in src/evaluation/smoke.ts), the agent that   *)
(* leaves its evidence in a scratch directory, and the evaluator commands  *)
(* that collect and validate it.                                           *)
(*                                                                         *)
(* The experiment directory is durable.  The launcher may be interrupted   *)
(* (its traps run) or killed (they do not) at any step, and any container  *)
(* it starts may fail; a later invocation resumes from the directory.  The *)
(* experiment's writer lock is taken to exclude a second launcher.         *)
(***************************************************************************)
EXTENDS Integers, Sequences, FiniteSetsExt

CONSTANTS
  NumTrials,     \* length of the manifest's schedule
  MaxAttempts,   \* MAX_ATTEMPTS_PER_TRIAL
  Bound,         \* conservativeTrialCostBound, per trial
  Cap,           \* manifest.maxCostUsd, or None
  MissingUsage,  \* providers may leave every call of a run without usage
  None           \* JavaScript's null

Trials == 1..NumTrials

ASSUME ScheduleAssumption ==
  /\ NumTrials \in Nat \ {0}
  /\ MaxAttempts \in Nat \ {0}
  /\ Bound \in [Trials -> Nat]
  /\ Cap \in Nat \cup {None}
  /\ MissingUsage \in BOOLEAN

\* Execution statuses; "exhausted" stands for timeout and budget-exhausted,
\* "infrastructure" for auth-required, rate-limited, provider-error and
\* harness-error.
Status == {"completed", "exhausted", "cancelled", "infrastructure"}

ASSUME NoneAssumption == None \notin Nat \cup Status

\* costs.totalEstimatedCostUsd: what the providers billed ("known"), null with
\* some usage observed ("partial"), or null with none ("missing").
Cost == {"known", "partial", "missing"}

\* What an attempt directory holds: events.jsonl, the execution status, the
\* cost and the validation of run.json, submission.json; and, as a ghost, what
\* the providers billed.
Attempt == [events : BOOLEAN, run : Status \cup {None}, cost : Cost,
            validation : {"not-run", "pass", "fail", "error"},
            submission : BOOLEAN, billed : Nat]

VARIABLES
  attempts,  \* per trial, the attempt directories in the order of attemptIds
  pc,        \* where the launcher is, or "off"
  job,       \* trial and attempt index of the job in hand
  scratch,   \* the evidence in the agent's own output directory
  result     \* how the last invocation ended

vars == <<attempts, pc, job, scratch, result>>

NoEvidence == [events |-> FALSE, run |-> None, cost |-> "known"]

EmptyAttempt == [events |-> FALSE, run |-> None, cost |-> "known",
                 validation |-> "not-run", submission |-> FALSE, billed |-> 0]

Steps == {"next", "prepare", "agent", "exited", "collecting", "inspect",
          "export", "validate"}

\* Every variable has its type.
TypeOK ==
  /\ attempts \in [Trials -> Seq(Attempt)]
  /\ \A t \in Trials : Len(attempts[t]) <= MaxAttempts
  /\ pc \in Steps \cup {"off"}
  /\ job \in [t : Trials, k : 1..MaxAttempts]
  /\ scratch \in [events : BOOLEAN, run : Status \cup {None}, cost : Cost]
  /\ result \in {"none", "stopped", "done"}

-----------------------------------------------------------------------------
(* The controller. *)

\* Mutant: a timeout is taken for an infrastructure failure.
classifyTrialOutcome_retry(a) ==
  CASE a.run = "cancelled"                                -> "incomplete"
    [] a.run # "completed"                                -> "unavailable"
    [] a.run = "completed" /\ a.validation = "not-run"    -> "incomplete"
    [] a.run = "completed" /\ a.validation = "error"      -> "unavailable"
    [] OTHER                                              -> a.validation

classifyTrialOutcome(a) ==
  CASE a.run = "cancelled"                                -> "incomplete"
    [] a.run = "exhausted"                                -> "fail"
    [] a.run = "infrastructure"                           -> "unavailable"
    [] a.run = "completed" /\ a.validation = "not-run"    -> "incomplete"
    [] a.run = "completed" /\ a.validation = "error"      -> "unavailable"
    [] OTHER                                              -> a.validation

\* A finalized attempt with a capability outcome.
Terminal(a) ==
  a.events /\ a.run # None /\ classifyTrialOutcome(a) \in {"pass", "fail"}

\* A completed run whose exported submission was not validated.
Revalidable(a) ==
  /\ a.events /\ a.run = "completed"
  /\ a.validation = "not-run" /\ a.submission

Positions == {p \in Trials \X (1..MaxAttempts) : p[2] <= Len(attempts[p[1]])}
At(p) == attempts[p[1]][p[2]]
Before(p, q) == p[1] < q[1] \/ (p[1] = q[1] /\ p[2] < q[2])

\* Mutant: an attempt that was not finalized counts as free.
Priced_lenient(a) == a.cost # "partial"

\* experimentSpend can add the attempt up; without usage it counts as free.
Priced(a) == a.run # None /\ a.cost # "partial"

\* readAttempt throws in experimentSpend: there is no events.jsonl.
SpendThrows ==
  \E p \in Positions :
    /\ ~At(p).events
    /\ \A q \in Positions : Before(q, p) => Priced(At(q))

SpendKnown == \A p \in Positions : Priced(At(p))

Billed == [p \in Positions |-> At(p).billed]

\* The total of experimentSpend; null is added as zero.
experimentSpend ==
  SumFunctionOnSet(Billed, {p \in Positions : At(p).run # None /\ At(p).cost = "known"})

\* The attempts of trial t at which the controller's loop stops.
Stops(t) ==
  {k \in DOMAIN attempts[t] :
     ~attempts[t][k].events \/ Terminal(attempts[t][k])
       \/ Revalidable(attempts[t][k])}

AttemptsUsedUp(t) == Len(attempts[t]) >= MaxAttempts

\* The reserve check before a dispatch.
OverBudget(t) == Cap # None /\ experimentSpend + Bound[t] > Cap

\* What the loop over the attempts of trial t comes to.
TrialAction(t) ==
  IF Stops(t) # {}
  THEN LET a == attempts[t][Min(Stops(t))]
       IN CASE ~a.events   -> "unreadable"
            [] Terminal(a) -> "terminal"
            [] OTHER       -> "validate"
  ELSE CASE AttemptsUsedUp(t)                      -> "limit"
         [] ~AttemptsUsedUp(t) /\ OverBudget(t)    -> "budget"
         [] OTHER                                  -> "run"

\* Mutant: a trial that used up its attempts is passed over.
Undecided_skip == {t \in Trials : TrialAction(t) \notin {"terminal", "limit"}}

\* The trials that keep the controller's outer loop.
Undecided == {t \in Trials : TrialAction(t) # "terminal"}

nextEvaluationAction ==
  CASE SpendThrows                               -> "unreadable"
    [] ~SpendThrows /\ Cap # None /\ ~SpendKnown -> "unknown"
    [] OTHER -> IF Undecided = {} THEN "done" ELSE TrialAction(Min(Undecided))

-----------------------------------------------------------------------------
(* The launcher. *)

NoJob == [t |-> 1, k |-> 1]

\* The launcher's process ends, and its variables and scratch area with it.
Ends(r) ==
  pc' = "off" /\ result' = r /\ job' = NoJob /\ scratch' = NoEvidence

Update(a) == attempts' = [attempts EXCEPT ![job.t][job.k] = a]

Here == attempts[job.t][job.k]

\* eval run on a new experiment, or eval resume.
Invoke ==
  /\ pc = "off"
  /\ pc' = "next" /\ result' = "none"
  /\ UNCHANGED <<attempts, job, scratch>>

\* The head of eval_execute_schedule's loop; a controller that throws ends it.
next ==
  /\ pc = "next"
  /\ \/ /\ nextEvaluationAction \in
             {"unreadable", "unknown", "limit", "budget"}
        /\ Ends("stopped")
     \/ /\ nextEvaluationAction = "done"
        /\ Ends("done")
     \/ /\ nextEvaluationAction = "run"
        /\ pc' = "prepare"
        /\ job' = [t |-> Min(Undecided), k |-> Len(attempts[Min(Undecided)]) + 1]
        /\ UNCHANGED <<scratch, result>>
     \/ /\ nextEvaluationAction = "validate"
        /\ pc' = "validate"
        /\ job' = [t |-> Min(Undecided), k |-> Min(Stops(Min(Undecided)))]
        /\ UNCHANGED <<scratch, result>>
  /\ UNCHANGED attempts

\* Mutant: the replacement goes into the directory of the attempt it replaces.
prepare_reuse ==
  /\ pc = "prepare"
  /\ attempts' = [attempts EXCEPT ![job.t] =
                    IF @ = <<>> THEN <<EmptyAttempt>>
                    ELSE [@ EXCEPT ![Len(@)] = EmptyAttempt]]
  /\ job' = [job EXCEPT !.k = Len(attempts'[job.t])]
  /\ scratch' = NoEvidence
  /\ pc' = "agent"
  /\ UNCHANGED result

\* The workspace, volumes and mock are ready; the attempt directory is made and
\* the agent container starts.
prepare ==
  /\ pc = "prepare"
  /\ attempts' = [attempts EXCEPT ![job.t] = Append(@, EmptyAttempt)]
  /\ scratch' = NoEvidence
  /\ pc' = "agent"
  /\ UNCHANGED <<job, result>>

\* The agent has a session and RuntimeArtifactRecorder.start creates the event
\* log; from here on providers bill up to the trial's bound.
AgentRecords(billed) ==
  /\ pc = "agent" /\ ~scratch.events
  /\ scratch' = [scratch EXCEPT !.events = TRUE]
  /\ Update([Here EXCEPT !.billed = billed])
  /\ UNCHANGED <<pc, job, result>>

\* finalize writes run.json.
AgentFinalizes(status, cost) ==
  /\ pc = "agent" /\ scratch.events /\ scratch.run = None
  /\ scratch' = [scratch EXCEPT !.run = status, !.cost = cost]
  /\ UNCHANGED <<attempts, pc, job, result>>

\* The agent container ends, with or without evidence.
AgentExits ==
  /\ pc = "agent"
  /\ pc' = "exited"
  /\ UNCHANGED <<attempts, job, scratch, result>>

\* a once events.jsonl, or run.json as well, was copied from the scratch area.
Collected(a, copied) ==
  [a EXCEPT !.events = @ \/ (copied # "none" /\ scratch.events),
            !.run    = IF copied = "all" THEN scratch.run ELSE @,
            !.cost   = IF copied = "all" THEN scratch.cost ELSE @]

\* collectAttempt, file by file.
collect_events ==
  /\ pc = "exited"
  /\ Update(Collected(Here, "events"))
  /\ pc' = "collecting"
  /\ UNCHANGED <<job, scratch, result>>

collect_run ==
  /\ pc = "collecting"
  /\ Update(Collected(Here, "all"))
  /\ scratch' = NoEvidence
  /\ pc' = "inspect"
  /\ UNCHANGED <<job, result>>

\* A run that was not finalized, or not by the agent's own doing, stops the
\* dispatch.
inspect ==
  /\ pc = "inspect"
  /\ \/ /\ Here.run \in {"completed", "exhausted"}
        /\ pc' = "export"
        /\ UNCHANGED <<job, scratch, result>>
     \/ /\ Here.run \notin {"completed", "exhausted"}
        /\ Ends("stopped")
  /\ UNCHANGED attempts

export ==
  /\ pc = "export"
  /\ Update([Here EXCEPT !.submission = TRUE])
  /\ pc' = "validate"
  /\ UNCHANGED <<job, scratch, result>>

\* The evaluator validates the submission and attaches its result; an error
\* status ends the invocation.
validate(status) ==
  /\ pc = "validate"
  /\ Update([Here EXCEPT !.validation = status])
  /\ \/ status = "error" /\ Ends("stopped")
     \/ status # "error" /\ pc' = "next" /\ UNCHANGED <<job, scratch, result>>

\* The evaluator throws before it attaches anything: node exits with 1, which
\* the launcher takes for a failed validation.
validate_throws ==
  /\ pc = "validate"
  /\ pc' = "next"
  /\ UNCHANGED <<attempts, job, scratch, result>>

\* A container could not be run, a signal came in or the launcher was killed.
\* The exit trap removes the agent and collects what it left, if it gets that
\* far: copied says how far.
Halt(copied) ==
  /\ pc # "off"
  /\ Ends("stopped")
  /\ \/ /\ pc \in {"agent", "exited", "collecting"}
        /\ Update(Collected(Here, copied))
     \/ /\ pc \notin {"agent", "exited", "collecting"}
        /\ UNCHANGED attempts

-----------------------------------------------------------------------------
Init ==
  /\ attempts = [t \in Trials |-> <<>>]
  /\ pc = "off"
  /\ job = NoJob
  /\ scratch = NoEvidence
  /\ result = "none"

\* The costs a run may report.
Reported == IF MissingUsage THEN Cost ELSE Cost \ {"missing"}

AgentStep ==
  \/ pc = "agent" /\ \E billed \in 0..Bound[job.t] : AgentRecords(billed)
  \/ pc = "agent" /\ \E status \in Status, cost \in Reported :
       AgentFinalizes(status, cost)

ValidateEnds == \E status \in {"pass", "fail", "error"} : validate(status)

LauncherStep ==
  \/ next
  \/ prepare
  \/ AgentExits
  \/ collect_events
  \/ collect_run
  \/ inspect
  \/ export
  \/ ValidateEnds
  \/ validate_throws

Next ==
  \/ Invoke
  \/ AgentStep
  \/ LauncherStep
  \/ \E copied \in {"none", "events", "all"} : Halt(copied)

Spec == Init /\ [][Next]_vars

\* The launcher waits only for containers that end: the agent's run has its
\* wall-time limit, and the evaluator its validation timeout.
FairSpec == Spec /\ WF_vars(LauncherStep)

-----------------------------------------------------------------------------
(* What the runner promises. *)

\* A capability outcome: time or turns used up, or a completed run validated.
Decided(a) ==
  \/ a.run = "exhausted"
  \/ a.run = "completed" /\ a.validation \in {"pass", "fail"}

\* No attempt is ever dispatched for a trial that has its capability outcome,
\* whatever interruptions, kills and resumes came in between.
NoRetryOfOutcome ==
  \A t \in Trials : \A k \in 1..(Len(attempts[t]) - 1) : ~Decided(attempts[t][k])

\* What a reader makes of an attempt directory, and of all of them.
View(a) ==
  [raw |-> CASE ~a.events                       -> "void"
             [] a.events /\ a.run = None        -> "open"
             [] a.events /\ a.run = "cancelled" -> "cancelled"
             [] Revalidable([a EXCEPT !.submission = TRUE]) -> "unvalidated"
             [] OTHER                           -> classifyTrialOutcome(a)]

Recorded == [t \in Trials |-> [k \in DOMAIN attempts[t] |-> View(attempts[t][k])]]

AnyResult(t) ==
  {[raw |-> x] : x \in {"cancelled", "unvalidated", "unavailable", "fail"}}

Exp == INSTANCE Experiment
         WITH attempts <- Recorded, Result <- AnyResult

\* The runner implements Experiment, through every interruption, kill and resume:
\* trials are decided in the order of the manifest, each in attempts of their own,
\* no step removes an attempt or alters a recorded result, and completion is
\* reported only when every trial has its outcome.
KeepsExperiment ==
  /\ Exp!Spec
  /\ [](result = "done" => \A t \in Trials : Exp!HasOutcome(t))

\* What the providers billed for all attempts stays within --max-cost-usd, with
\* interrupted attempts and their replacements included.
BilledWithinCap ==
  Cap # None => SumFunction(Billed) <= Cap

\* An invocation comes to an end.
InvocationEnds == pc # "off" ~> pc = "off"

\* An experiment that stopped for an interrupted attempt can be resumed.  It does
\* not hold (README, 5).
InterruptedResumes == pc = "off" => nextEvaluationAction # "unreadable"
=============================================================================
