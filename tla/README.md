# Verification of Downshift

Downshift (`src/README.md`) runs a coding agent (Pi) behind a router: the first
prompt of a session is classified (NVIDIA Switchyard, in a Rust process) and the
session is locked to a weak or a strong model; experiments run many such
sessions in containers, validate what each leaves, and account for what it cost.
This directory holds TLA+ models of the parts that carry that logic, the TLC
configurations that check them, and TLAPS proofs of the results that matter most.
Paths below are relative to the repository, files under `tla/` excepted.

    tlc -workers 2 -config RoutingLock.cfg MCSessionRouting
    tlapm SessionRouting_proofs.tla

`PROJECT.json` lists the components, every run with its properties, for each
property a mutant of the model that breaks it, the source lines of every
definition, the findings and the hazards the properties are for.

## 1. Inventory

| Component | State | Operations | Status |
|---|---|---|---|
| Session routing: `src/pi/session-routing.ts`, driven by `src/container/session-runtime.ts` | `routing-decisions/<session>.json`, custom entries and messages of the session file, the closure's decision, two timers, the controller's errors | session start/shutdown, input (create, store, apply, restore), provider requests, tool calls, turns, compaction, repair, aborts, limits | modelled |
| Switchyard bridge: `src/bridge/*`, `rust/switchyard-bridge`, `src/pi/runtime.ts` | one decision in progress, two pipes, a call awaited on each side | start, resolve, abort, classifier call and deadline, dispose; the bridge's two loops | modelled |
| Evaluation runner: `route-agent`, `src/evaluation/smoke.ts` | attempt directories of an experiment, the job in hand, the agent's scratch directory | run, resume, next action, prepare, collect, inspect, export, validate, traps | partly: dispatch and recovery (EvalSchedule), manifest and resume checks (Evidence); the shuffle that orders the schedule is not |
| Writer locks: `route-agent` | a directory with two files, guard and agent containers | acquire, judge stale, reclaim, release, exit traps | modelled |
| Attempt artifacts: `src/artifacts/run-artifacts.ts`, `runtime-recorder.ts`, `usage.ts` | event log and its queue of writes, ledger of calls, `run.json`, attempts by session | append, record decision, error and usage, finalize, switch sessions, quit | recorder modelled; store and usage partly (no sums) |
| Validator and workspaces: `src/evaluation/workspace.ts`, `validator.ts`, `task.ts` | workspace, `submission.json`, fresh evaluator workspace, the process group of a check, `validation.json` | materialize, export, apply, run checks, aggregate, attach | partly: the reference gate is not |
| Launcher commands: `route-agent`, `src/launcher` | mounts, images, volumes | build, auth, run, eval | partly: locks, traps and the evaluation loop |
| Lab configuration, container setup commands, task corpus | one JSON file; terminal I/O; a table | checks and defaults | not modelled |
| Reports and analysis: `src/evaluation/analysis.ts`, the reports of `smoke.ts`, `smoke-cli.ts` | none of its own: it reads an experiment directory whenever it is asked | load, aggregate, replay, status | partly: no intervals, medians, latencies or Markdown |
| Readiness and verification: `benchmark.ts`, `verification.ts`, `readiness.ts`, policy code of `analysis.ts` | `policy.json`, the manifests' protocol, a verification report, the image tags | freeze, check at run and resume, verify, assess | partly: the routing probe is not |
| Mock provider, documentation checker | – | test double, script | not modelled |

How they interact:

- `createContainerRuntime` builds one `SessionRoutingController` per agent
  process; Pi calls its handlers and awaits them, and several handlers are in
  progress at once. Creating a decision calls the bridge client, which calls the
  classifier through Pi in the middle of the bridge's own protocol.
- Routing events go through a callback to whichever recorder is current. The
  recorder finalizes its attempt when the session is left or the process quits.
- The launcher holds a writer lock per project and per experiment, asks the
  controller (a container) for the next job, runs the agent, and hands the
  workspace to the evaluator. Everything durable is files, and every part may be
  interrupted or killed.
- Reports read the experiment directory while the runner may still be writing it.
  A readiness verdict joins a development experiment, the policy frozen from it, a
  held-out experiment and a verification, which only the contents of files and image
  tags tie together, and these the operator may change between any two commands.

What is hard here: handlers that outlive the session they serve; a decision that
has to be on disk before the first request, across kills; one pipe shared by
successive decisions that may be cut; lock files written in two steps by
launchers that die; an experiment resumed from whatever was on disk; a log whose
writes fail half-way and whose events are numbered before they are checked; checks that
exit while their descendants hold the pipes; reports
that meet attempts without a result, a price or a decision; evidence that was gathered
under one image or configuration and is judged under another.

## 2. Modules

Each module is one component. Its actions are the pieces of code between two
awaits (or two shell commands), and carry the names of the functions, handlers or
commands they translate, with a suffix where one of them has an outcome of its own
(`message_refused`); the few without a source name are environment steps
(users, providers, kills). Payloads, prompts, token counts and prices are left
out (Reports apart); an identity, a tier, an execution status or a file's class stands
for them.

**SessionRouting** (with `DecisionLedger`, `MCSessionRouting`). Durable state:
`store`, `own` (the session's decisions among its custom entries), `coded`,
`inherited`. Process state: mode and configuration, attached session, the
controller's errors. `pc` is the position of each session's input handler, and
`orphans` the handlers whose session was shut down under them. `current`,
`blocked`, the timers and the turn count are the closure of `extension()`. Every input
clears the wall-time timer and sets another, so `runTimer` names the timer object that is
armed, of two in turn, or says that none is. The session file is written by Pi only after
the first assistant message, and a kill may lose a suffix of it. `DecisionLedger` is the
abstract specification: a session gets at most one decision, once, and requests go to its
model only.

**Bridge** (`MCBridge`). Client, bridge process, and the two pipes as queues of
frames. Frames left by a decision that was cut stay in the pipes; the bridge dies
at any time. `writeFrame` may throw on a start frame (`resolve_unwritten`) and on a reply
(`classifier_unwritten`): above its limit without having written the frame, on
backpressure with the frame in the pipe. The decision algorithm of Switchyard is external.

**EvalSchedule** (`MCEvalSchedule`). The launcher's loop, the controller's choice
(`nextEvaluationAction` as operators), the agent, the collection of its evidence
and its validation. Every container may fail, every step be interrupted by a
signal (traps run) or a kill (they do not).

**WriterLock** (`MCWriterLock`). Every shell command of acquisition and release is
a step; `GuardFirst` tells the project lock from the experiment lock. `raced`
observes whether launchers overlapped.

**RunArtifacts** (`MCRunArtifacts`). Recorders with their queues of writes, which
complete, fail (perhaps half-way) or are rejected because an earlier one failed;
an event whose payload is refused once it has its number (`tool_refused`), which leaves
a gap in the log (`skipped`); a compaction that fails, and is a missing call in the
ledger, an error event in the log and no error of the run; the finalization cut at each
await; session switches; `mishaps` observes cut work and refused answers so that
properties can say what holds without them.

**Submission** (`MCSubmission`). A workspace is a function from paths to what the
export tells apart: the fixture's bytes, others, too many, a special file, or
none. The export yields a set of changes; applying takes them in sorted order and
throws where a file or directory is in the way. A check is a process group with an
exit, lingering descendants, a timer and an output limit.

**Experiment**. The abstract specification of an experiment directory, and all that its
readers may rely on: attempts are made in the order of the schedule, a second one only
when the last left no capability outcome, and a result changes only when a run that
awaited its validation is validated. EvalSchedule implements it (`KeepsExperiment`, the
mapping is `View`); Reports is stated over it.

**Reports** (`MCReports`). The loading of an experiment and the aggregate report, the
threshold and random replays, the report schemas and the status report as operators over
the directory of Experiment, evaluated at every state it can be in. An attempt keeps for
each role (classifier, coding, compaction) how many of its calls were observed, cut or
left without usage, the tokens observed and their price; `Plus`, `isComplete`,
`totalTokens` and `estimatedCost` are `summarize` and `calculateRoleCost` of `usage.ts`,
so a summary is complete, partial or unknown, and its tokens are a number in the first
two. `CostsComplete` says which sums are whole and which are what was observed.
Probabilities are in hundredths; rates are pairs of a numerator and a denominator, so no
rounding is involved.

**Evidence** (`MCEvidence`). The operator edits the source tree and the configuration and
rebuilds the images; `eval run`, `resume`, `freeze` and `verify` are cut where one
container's result is used by the next (a freeze reads and later writes; a run checks,
then creates its manifest, then dispatches). The assessment is an operator over what is on
disk. A configuration is told apart by its threshold, an image by its build; whether the
measured intervals lie below, across or above the bounds of the protocol is a free choice.

How they compose: SessionRouting takes from Bridge that a resolution ends
(`ResolveEnds`) and that its answer is its own (`NoCrossTalk`); RunArtifacts takes
from SessionRouting that a session has one decision (`NoReclassification`);
EvalSchedule takes from WriterLock that one launcher works on an experiment
(`OneWriterApart`, with the exceptions of the findings), from RunArtifacts how an
attempt ends, and from Submission that validation gives a verdict or throws. Reports
takes from EvalSchedule no more than Experiment says; Evidence takes from it that an
experiment is a list of attempts whose trials end evaluated or unavailable.

## 3. What the runs check

TLC finds no error in the passing runs; in the violation runs it finds a behaviour
of the code that contradicts what a document or a comment says (section 5).

| Run | Instance | Shows |
|---|---|---|
| `routing_lock` | 1 session, 2 modes, 2 turns, 2 decisions, steering | refinement of DecisionLedger; decision on disk before coding; turn budget; a request under way has its timer; a silent provider is cut, and a stuck tool too unless an input comes first |
| `routing_sessions` | 2 sessions, 1 configuration, 1 turn, 2 decisions | no request outside the lock, no second classification, after any kill a session is refused at resume exactly when its file has messages and no decision, swallowed inputs are reported, decisions are immutable |
| `bridge` | 3 decisions | no cross-talk, no selection after a cancel, failures have a cause; every resolution ends |
| `eval_schedule` | 2 trials of 2 attempts, cost bounds 1 and 2, cap 4 | the runner implements Experiment; outcomes are final; billed cost within the cap when usage is reported |
| `lock` | 2 launchers, experiment order of release | the lock names its holder while launchers do not overlap; stale locks are reclaimed |
| `artifacts` | 2 sessions, 2 attempts, 1 call, 4 events, faults | log, decision, status and accounting are the session's own; a clean exit lost nothing; log in order, and readable unless a payload was refused; `run.json` backed by the log; a finalization never waits for what nothing brings |
| `submission` | 7 paths, 2 checks, 2 validations | the checks start on the agent's files and on the fixture's own elsewhere; accepted submissions apply; a pass is earned; the two records agree; a check that was cut can close; a validation ends |
| `reports` | 2 pairs (6 trials) of 2 attempts, threshold 0.75 | reports read at any moment are valid and consistent; sums of money are of all calls or unknown, sums of tokens of all that was observed; replays reproduce the live selections; status and aggregate agree; no step, into a void directory and out of it included, takes back what was reported |
| `evidence` | 2 configurations, a good and a flawed source, 1 development and 2 held-out trials, 2 freezes, 2 builds, 2 edits | a readiness PASS stands on attempts of the one verified image; a benchmark binds the held-out experiment to its development experiment |
| `routing_resume` | 1 session, 1 turn | violation: `CodedSessionLoads` |
| `eval_throws` | 1 trial of 2 attempts | violation: `InvocationEnds` |
| `lock_window` | 3 launchers, project order of release | violation: `OneWriter` |

**Why the bounds are enough.** The code compares identities and counts against
small limits. Two sessions are what it takes for a handler, event or request to
meet another session's state; a third adds only another bystander. Two modes make
a mismatch at resume (a different configuration is refused by the same guard), and
two turns a turn that is neither the first nor over the limit. Three decisions on
one bridge let a decision meet the frames of a cut one and leave its own to a
third. Two launchers are a holder and one that reclaims; larger numbers and the
project's order of release are covered by the proofs. Two attempts reach the
recovery limit, two trials their order. In `artifacts` an attempt has room for a
whole call between its startup and its shutdown event, and the second attempt is
of another session. Seven paths are one of each class the export distinguishes,
with a file that can become a directory and a directory that can become a file;
two checks let one fail after another passed, with and without the test runner.
In `reports` the schedule starts each pair with another mode, and the results are those
the reports tell apart: weak at the threshold itself, strong below it, a fallback, whose
classifier call left no usage, a run without a decision, one without a price, one that was
compacted, one whose compaction left no usage. In `evidence` the flawed
source passes the quick level and fails the full one, and two held-out trials let the
first run before and the second after a resume.

The names of the bounds are the constants `Max...`, and the constraints of the MC
modules: `FewRetries` (one second attempt per experiment), `OneAtATime` (of two
experiments and a verification, which share only what the operator changes, one is at
work at a time), `TotalEvents` (two attempts number seven events between them), and
`MayPass` and `Undisturbed`, which cut the search at states after which the invariants
hold trivially. `Quiet` in Evidence is an assumption on the operator: the
source tree and the images change only while no command runs; the configuration file may
change at any time. Section 5 says what happens without it. The type invariants are left
out of the runs: that of every module is proved (section 4).

Deadlock checking is off where the system really may stop (a finished process, a
user who does nothing, bounds reached); EvalSchedule, which can always be invoked
again, has it on.

**Fairness.** Weak fairness of what Node's event loop and the shell do by
themselves: a timer that is not cleared fires, a completed file operation resumes
its awaiter, a promise of a local call settles, a live bridge reads its input, a
launcher that is alone executes its next command. Nothing is assumed of providers,
tools, users, checks, signals or kills. A timer is fair as long as it is the same one: the
wall-time timer that an input clears is another than the one it sets
(`session-routing.ts:695`), so a user who keeps steering postpones the limit for ever, and
`ToolBounded` promises the end of a stuck tool only for a timer that no input replaces.
No input touches the timer of a request. `eval_throws` shows that under this fairness
alone an invocation of the evaluation may run for ever.

## 4. What is proved

TLAPS checks the theorems for every value of the constants that satisfies the
named assumptions of its module, which TLC evaluates in each run. Most say that a bound is
a number and that `None` is no other value. Three say more. `SubmissionAssumption`: a path
sorts before the paths below it. `ReportsAssumption`: a trial is told apart by its pair and
mode, and each pair is run once in every mode, as `evaluationSchedule` lays it out and
`validateSmokeManifest` checks. `ResultAssumption`: what the recorder leaves has the
shape of `run.json`, and a decision in a routed run is the live router's. Every safety
property of a passing run is the subject of a theorem, and so is every type invariant
(`TypeCorrect`). Theorems on properties that no run lists are of two kinds: the safety half
of a liveness property (nobody waits for what cannot come; every step of the work leads
nearer to its end), and the case in which a property that a finding refutes does hold.

**SessionRouting_proofs.** The properties are not inductive: that a request goes to
the stored model depends on where the handler that stored it stands. `IInv` adds
that a decision under construction belongs to a session without one
(`CreatingIsFirst`), that entries and messages follow the store (`StoreIsFirst`),
that unused identifiers are untouched (`UnusedIsFresh`), that a handler which is no
orphan belongs to the attached closure (`HandlerIsAttached`), and that the closure
copies the store (`ClosureIsStored`). From it: `LockHolds`, `RoutedOnce`,
`StoreBeforeCode`, `ResumesExactly`, the action property `DecisionsStay`, and
`LedgerRefined`, the safety part of the refinement of DecisionLedger. Further
strengthenings give `RefusalsReported`, `TurnsBounded`, and two theorems on timers.
`RequestsAreTimed`: a request under way has its timer, whatever compactions, inputs and
aborts meet it. `ScriptedRunsAreTimed`: without steering, so has a tool, or the limit is
on record.

**WriterLock_proofs.** For any number of launchers, both orders of release and kills
at every command: while no two launchers have overlapped on the lock, the lock names
its holder, whose guard runs, what a launcher has read of it is still true, and the
commands that change it meet no holder. Hence `LockNamesWriter`, `ApartExcludes` (at most one
agent runs) and `RefusalsAreDue`: a launcher gives up only on a lock that names another
whose guard is running, so what a killed launcher left never keeps anyone out.

**Submission_proofs.** For any paths, fixture, policy and number of checks. `IInv` says
that while the changes are replayed the evaluator's workspace holds the agent's file at
the paths done and the fixture's elsewhere, that the paths done sort before those to do
(`Replayed`), and which directories exist (`DirsSound`). From it follow
`ChecksSeeTheWork`, `ChecksAreTrusted` and `AcceptedCanBeApplied`, the last because a
path sorts before everything below it, so the deletion of a file comes before the
additions in the directory that took its name; its hypothesis is that the agent put no
file in the place of a directory of the fixture, which `applySubmission` cannot replay.
`ResultsSound` and `AttachSound` give `PassesEarned` (a pass has every check behind it)
and `RecordsConsistent` (`validation.json` and the record of the run agree). That a
validation ends has a safety half of three parts: a check that was cut can close
(`CutChecksClose`); a validate command always has a step of its own to take
(`EvaluatorGoesOn`, which needs a first change among those to do: a minimum of their
positions); and each step decreases a natural number (`ValidationAdvances`).

**Bridge_proofs.** For any number of decisions and a bridge that dies at any time. `IInv`
says what the frames in each pipe can belong to: a result on its way in and a decision on
its way out carry the verdict of the decision they name (`FramesSound`), which gives
`OwnVerdictOnly`; a cancel is either still to be read, with no result of its decision
before it, or read, and then the bridge does not serve that decision any more
(`CancelSound`), which gives `CancelledSelectsNothing`. `UncutStaysInStep` rests on
`InStep`: as long as no decision was cut, the two sides are at one of a few matching
places, with at most one frame between them. For resolutions that are cut too:
`NoMutualWait`, client and bridge never wait for each other with both pipes empty, and
`ResolutionAdvances`, the steps of both decrease a measure that callers, signals and the
death of the bridge do not increase.

**EvalSchedule_proofs.** For schedules of any length, any limits, costs and cap. Only the
last attempt of a trial may have an outcome or await validation (`Replaced`), a trial has
attempts only when those before it have outcomes (`InOrder`), what the controller found
still holds when the directory is made (`Prepared`), and what the attempt in hand contains
at each step (`Stage`). Hence `OutcomesAreFinal` and `ImplementsExperiment`, the refinement
of Experiment, one lemma per action. For the budget, `Funded` says that the bills so far,
with the bound of the attempt in hand, fit the cap; the sum over attempts is unfolded by
well-founded induction on subsets. `ChargesStayWithinCap` assumes nothing of what runs
report: what was billed for those that report some usage fits the cap. With every usage
reported (`~MissingUsage`) that is the whole bill, `BilledStaysWithinCap`; without, the
property is false (section 5). `UnreadablesAreLast`: what makes every resume throw is one
directory, the last one made. `InvocationsAdvance`: each step of an invocation goes forward
in the lexicographic order of trial, attempt and step, whose places are finitely many,
except a validation that throws and leaves its trial open.

**RunArtifacts_proofs.** For any sessions, attempts, calls and events, with or without
faults. The events of a recorder are those of its log followed by its queue, and the
invariant speaks of both: numbered in order, with nothing noted in memory that has no event
unless a write error is on record (`AllSound`); which recorder each step drives (`Driven`,
`Registered`); what a finalized recorder has (`Finalized`) and what its `run.json` rests on
(`Backed`). With no work cut off, events, decision and status are the session's own
(`Own`); with no refused answer either, so are the calls (`Calling`). From these follow
`LogIsReadable` (the numbers increase, and without a gap unless a payload was refused),
`ResultsAreBacked` (the log has the end of each call that `run.json` counts, or the failure
of a compaction), `EvidenceIsItsOwn` (a completed run has no error in its log but that of a
compaction, and with one its cost is unknown), `AccountsAreOwn` and
`SuccessMeansWritten`. `Marked` (the event a finalization awaits is in the
recorder's log or queue, unless a write failed) gives `FinalizationsProceed`, the safety half of the end of a finalization.
`Numbered` (the run IDs of a session are counted, the first of a process excepted) gives
`CollisionsAreAlone`: a session is refused a recorder only in a process that served no
other session.

**Reports_proofs.** For any schedule and any results. As a state machine the directory is
simple (`IInv`: an outcome, or a directory that cannot be read, is the last of its trial,
and routed decisions are the router's); the work is in the reports, which are sums and
counts over finite sets. One section proves the laws of `SumFunctionOnSet` (a term
less, equal terms, disjoint unions, images, the classes of a partition) by taking a least
set that breaks the law; others turn sums over pairs into sums over the trials of a
mode. `ReportsAreConsistent`: no report is refused by its own schema, and no numerator
exceeds its denominator. `CostsAreComplete`: a sum of money, in the spend, a saving or a
replay, has the calls of each role in each directory, or is unknown; a sum of tokens is
what was observed in all directories, by model and role as in total. `ReplayIsFaithful`:
the replay at the live threshold repeats the router and is monotone. `StatusIsTrue`:
status and aggregate agree. `ReportsStay`, the action property: what is loaded after a
step upholds what was loaded before it, whether a report could be made then or not. Since
upholding is transitive, `LaterReportsUphold` follows: whatever was loaded at some moment,
all that is loaded from then on upholds it.

**Evidence_proofs.** For any configurations, sources, flaws, builds and edits. A benchmark
in a policy, or in the hands of a command that freezes one, speaks of a development
experiment that was complete and has not changed since (`BenchmarksBind`), and a held-out
manifest carries one (`HeldoutBound`); hence `HeldoutIsBound`, whatever the operator does.
Under `Quiet`, attempts are made in the image of their manifest (`ImagesKept`) and a check
that passed holds of the source and the image the verification names (`VerificationHolds`);
hence `PassIsSound`. `OneFreezeIsFinal`: with one `eval freeze` at a time a policy is never
replaced, through kills, edits and builds.

Only model-checked: the liveness properties `RequestBounded`, `ToolBounded`, `ResolveEnds`,
`StaleLockReclaimed` and `ValidationEnds`. Liveness under fairness is beyond this prover,
so the step from "never stuck, and nearer to the end with every step" to "ends" is TLC's;
the two halves are proved where the code has them: `RequestsAreTimed` and
`ScriptedRunsAreTimed` for the timers, `NoMutualWait` and `ResolutionAdvances`,
`RefusalsAreDue`, and `CutChecksClose`, `EvaluatorGoesOn` and `ValidationAdvances`. The two
refinements are proved as to safety, which is all that the abstract specifications state.

## 5. Findings

Three are violation runs, with the contradicted text quoted in `PROJECT.json`.

- `routing_resume`: a session killed between the store and Pi's first write of the
  session file is resumed from the store, codes without a custom entry, and cannot be
  resumed again (`session-routing.ts:714`).
- `eval_throws`: an evaluator that throws exits with 1, is taken for a failed validation,
  and the loop validates again for ever (`route-agent:549`).
- `lock_window`: a lock without its files yet is taken for a stale one (`route-agent:256`).

The modules state further properties that do not hold. They are in no run; TLC shows a
counterexample when the property is put in the configuration named.

| Property | Configuration | The code |
|---|---|---|
| `ForkLoads` | `RoutingSessions.cfg` | a fork left before its first prompt is refused at resume (`session-routing.ts:375`) |
| `WallTimerArmed` | `RoutingLock.cfg` | a failing steering input clears the wall-time timer of the run in progress (`session-routing.ts:735`) |
| `FailureIsOwn` | `Bridge.cfg` | a classifier deadline leaves the bridge awaiting an answer, the abort then writes a cancel and an error, and the next decision fails on what is left in the pipes (`client.ts:186`), although `session-routing.ts:820` tells the user to obtain a new decision with `/new` |
| `BilledWithinCap` | `EvalSchedule.cfg`, `MissingUsage = TRUE`, `Cap = 2` | runs whose calls all lack usage count as free under a cap (`smoke.ts:857`), although `usage.ts:83` calls such a cost unknown |
| `InterruptedResumes` | `EvalSchedule.cfg` | an attempt interrupted before its log exists makes every resume throw (`route-agent:468`) |
| `OneWriterSerial` | `LockWindow.cfg` | the project lock's release removes the guard first, and may then delete the lock of the launcher that reclaimed it (`route-agent:132`) |
| `AccountingThroughCuts` | `Artifacts.cfg` without the constraint | a call cut by a session switch is missing from a cost that counts as known (`session-runtime.ts:211`) |
| `AccountingThroughRefusals` | the same | so is a call whose answer the recorder refuses (`runtime-recorder.ts:331`) |
| `LogAlwaysReadable` | `Artifacts.cfg` | an event takes its number before its payload is checked, so a refused one leaves a gap and `readAttempt` refuses the log (`run-artifacts.ts:802`) |
| `TotalComplete` | `Reports.cfg` | a fallback's lost classifier call leaves a total of tokens without it (`analysis.ts:810`, `usage.ts:129`), although `docs/evaluation-guide.md:243` calls the usage of a missing response unknown and never zero, which is so of the tokens that readiness compares |
| `RunIdIsFresh` | `Artifacts.cfg` | resuming the only session of a process asks for the directory of its finalized attempt (`session-runtime.ts:239`) |
| `PolicyIsImmutable` | `Evidence.cfg` | two freezes that both found no policy write one after the other (`analysis.ts:1740`), although `docs/evaluation-guide.md:83` calls the policy immutable |
| `VerdictSound` | `Evidence.cfg`, `Quiet = FALSE` | a rebuild or an edit of the source during a run or a verification gives a PASS for an image that was not verified |

What does hold beside each of these is proved:

| Refuted | Proved |
|---|---|
| `CodedSessionLoads`, `ForkLoads` | `ResumesExactly`: a session is refused exactly when its file has messages and no decision |
| `InvocationEnds` | `InvocationsAdvance`: a validation that throws is the only step that does not lead on |
| `OneWriter`, `OneWriterSerial` | `ApartExcludes`: one agent at most while launchers do not overlap on the lock |
| `WallTimerArmed` | `ScriptedRunsAreTimed`: it holds without steering |
| `FailureIsOwn` | `UncutStaysInStep`: it holds as long as no decision was cut |
| `BilledWithinCap` | `ChargesStayWithinCap`: the cap is exceeded at most by runs that report no usage |
| `InterruptedResumes` | `UnreadablesAreLast`: at most one directory, the last made, is in the way |
| `AccountingThroughCuts`, `AccountingThroughRefusals` | `AccountsAreOwn`: they hold without cuts and refusals |
| `LogAlwaysReadable` | `LogIsReadable`: it holds of every log of which no payload was refused |
| `TotalComplete` | `CostsAreComplete`: the total is what was observed; sums of money and the tokens that readiness compares leave out nothing |
| `RunIdIsFresh` | `CollisionsAreAlone`: it holds once two sessions have attempts |
| `PolicyIsImmutable` | `OneFreezeIsFinal`: it holds with one freeze at a time |
| `VerdictSound` without `Quiet` | `PassIsSound`: it holds under `Quiet` |

Smaller observations of the same reading. A configuration that is edited and edited back
while `eval run` is being launched gives a manifest whose fingerprint is not that of its
configuration; the resume then runs under the fingerprint's (hence the condition in
`VerdictSound`). The temporary file `X.<pid>.tmp` that a killed process leaves beside a
manifest, policy or report blocks a later writer with the same process id. A status that throws
exits with 1, like one that reports failed trials. An attempt directory without an event log makes the next action,
the report and the status throw alike. In the calibration the lower bound of the fourth
bin is 3 * 0.2, a little more than 0.6, so a probability of exactly 0.6 is in the third.

## 6. Not modelled, and why

- Confidence intervals and the bootstrap, medians, latencies and Markdown: floating-point
  arithmetic and layout. The counts, sums and denominators they are made of are modelled.
- The counts of tokens by category and their checks (`normalizeUsage`): Reports has one
  number of tokens and one price for each role; the other models keep whether a cost is known.
- The routing probe (one call to each model outside any experiment), the shuffle that
  orders the schedule, the reference gate of the task corpus.
- Lab configuration, container setup commands, task corpus, documentation checker: checks
  of one file, terminal I/O, tables and a script, without state that outlives a call.
- JSON schemas, hashes and configuration checks, apart from the guards they amount to.
- Switchyard's decision algorithm, Pi's loop beyond the events it sends, Docker: external.
- What a check writes into the workspace it shares with the later checks; processes of a
  check that leave its process group. The properties of Submission speak of the
  workspace the first check starts on.
- Docker images, mounts, credentials, terminal I/O, the mock provider.

## 7. Plan

Done, in this order: SessionRouting with DecisionLedger and its proofs; Bridge;
EvalSchedule; WriterLock and its proofs; RunArtifacts; Submission and its proofs;
Experiment and its refinement by EvalSchedule; Reports; Evidence; the proofs of Bridge,
Evidence, EvalSchedule, RunArtifacts and Reports; the safety halves of the liveness
properties, and the positive counterparts of the findings.

Next modules:

1. `UsageLedger`: the ledger itself, `normalizeUsage` and the pricing by category over small
   integers, against a reference definition (sums by role, a cost known exactly when each
   dispatched call is), to be used by RunArtifacts and by Reports' costs.
2. `ReferenceGate`: `verifyReference` over the variants of a task, composed from
   Submission's operators.
3. `TrialPlan`: the schedule of `smoke.ts` (order, identities, cost bound) and its
   composition with SessionRouting's turn budget: the reserve of a trial against the
   requests a run can send.
4. The routing probe, as a further command of Evidence.

Next proofs: the invariants of the modules above as they are written (the sums of
`UsageLedger` by the laws of Reports_proofs); at the seams, that the verdicts of Submission
and the endings of RunArtifacts are those EvalSchedule chooses from, and that what
EvalSchedule records satisfies `ResultAssumption` of Reports.
