----------------------------- MODULE Submission -----------------------------
(***************************************************************************)
(* What an agent leaves in its workspace, and the verdict on it:           *)
(* materializeTask, exportSubmission and applySubmission                   *)
(* (src/evaluation/workspace.ts), validateSubmission and runCheck          *)
(* (src/evaluation/validator.ts), the evaluator's commands                 *)
(* (src/evaluation/cli.ts) and attachValidationResult                      *)
(* (src/artifacts/run-artifacts.ts).                                       *)
(*                                                                         *)
(* A trial's files reach the checks only as a list of changes: the export  *)
(* compares the workspace with the fixture, the validator replays the list *)
(* over a fresh copy and runs the task's checks there, one process group   *)
(* each.  A validate command that dies or throws is repeated on the same   *)
(* submission as long as no verdict is attached to the attempt.            *)
(*                                                                         *)
(* Of a file only what the export tells apart is kept: the fixture's bytes,*)
(* other bytes, bytes over the size limit, a link or other special file.   *)
(* Hashes identify bytes.  What a check writes into the workspace it       *)
(* shares with the later checks is not modelled.                           *)
(***************************************************************************)
EXTENDS Naturals, Sequences, FiniteSets

CONSTANTS
  Paths,      \* the relative paths of files
  Position,   \* their rank in the order of Array.prototype.sort
  Under,      \* <<q, p>>: q lies below p when p is a directory
  Fixture,    \* the paths of the task's fixture
  Ignored,    \* the paths in the root's node_modules and .git
  Editable,   \* the paths below one of editableDirectories
  Protected,  \* protectedPaths
  AllowedNew, \* the paths with one of allowedNewFileExtensions
  Checks,     \* the number of public and hidden checks
  NodeTests,  \* those of 1..Checks that run under Node's test runner
  MaxRuns     \* bound: validate commands

ASSUME SubmissionAssumption ==
  /\ IsFiniteSet(Paths)
  /\ Position \in [Paths -> Nat]
  /\ \A p, q \in Paths : Position[p] = Position[q] => p = q
  /\ Under \subseteq Paths \X Paths
  /\ \A p, q \in Paths : <<q, p>> \in Under => Position[p] < Position[q]
  /\ Fixture \subseteq Paths /\ Ignored \subseteq Paths
  /\ Fixture \cap Ignored = {}
  /\ \A p, q \in Fixture \cup Ignored : <<q, p>> \notin Under
  /\ \A p, q \in Paths : <<q, p>> \in Under => (q \in Ignored <=> p \in Ignored)
  /\ Editable \subseteq Paths /\ Protected \subseteq Paths
  /\ AllowedNew \subseteq Paths
  /\ Checks \in Nat \ {0} /\ NodeTests \subseteq 1..Checks
  /\ MaxRuns \in Nat

Contents  == {"fixture", "other", "oversize", "special"}
Entry     == Contents \cup {"absent"}
Execution == {"completed", "timeout", "cancelled"}
Verdicts  == {"not-run", "pass", "fail", "error"}
Stages    == {"new", "agent", "export", "idle", "apply", "check", "attach",
              "threw", "killed", "done"}
Exits     == {"none", "confirmed", "silent", "failed", "signal"}

VARIABLES
  workspace,  \* the agent's workspace
  execution,  \* the execution status in the attempt's run.json
  submission, \* submission.json: its status, and the changes by path
  stage,      \* where the commands of the trial are
  files,      \* the evaluator's own workspace
  dirs,       \* the paths that are directories there
  todo,       \* changes not applied yet
  results,    \* the results of the checks that ended
  child,      \* the process group of the running check
  proved,     \* history: checks whose assertions all ran and passed
  report,     \* validation.json
  verdict,    \* the validation status in the attempt's run.json
  runs        \* validate commands so far

vars == <<workspace, execution, submission, stage, files, dirs, todo, results,
          child, proved, report, verdict, runs>>

NoFiles      == [p \in Paths |-> "absent"]
NoChange     == [p \in {} |-> "absent"]
NoSubmission == [status |-> "none", changes |-> NoChange]
Changes      == UNION {[S -> Entry] : S \in SUBSET Paths}
Submissions  == [status : {"none", "accepted", "rejected"}, changes : Changes]
NoChild      == [up |-> FALSE, exit |-> "none", linger |-> FALSE,
                 timedOut |-> FALSE, exceeded |-> FALSE]
Child        == [up : BOOLEAN, exit : Exits, linger : BOOLEAN,
                 timedOut : BOOLEAN, exceeded : BOOLEAN]

-----------------------------------------------------------------------------

\* The files materializeTask writes and the packages its setup installs.
Fresh == [p \in Paths |-> IF p \in Fixture \cup Ignored THEN "fixture" ELSE "absent"]

\* A file system holds no file below a file; only the fixture's own paths can
\* hold the fixture's bytes.
Trees ==
  {t \in [Paths -> Entry] :
     /\ \A p \in Paths : t[p] = "fixture" => Fresh[p] = "fixture"
     /\ \A d \in Under : t[d[1]] = "absent" \/ t[d[2]] = "absent"}

\* The paths that are directories in a workspace holding the given files.
DirsOf(t) == {p \in Paths : \E q \in Paths : <<q, p>> \in Under /\ t[q] # "absent"}

\* scanWorkspace.
Scanned == Paths \ Ignored

\* Mutant: the comparison starts from the scanned files only.
Changed_present == {p \in Scanned : workspace[p] \notin {Fresh[p], "absent"}}

\* The comparison of the scanned files with the fixture's manifest.
Changed == {p \in Scanned : workspace[p] # Fresh[p]}

\* Mutant: protectedPaths is not looked at.
Violates_editable(p) ==
  \/ p \notin Editable
  \/ workspace[p] = "oversize"
  \/ workspace[p] # "absent" /\ p \notin Fixture /\ p \notin AllowedNew

\* A changed path that exportSubmission puts among the violations.
Violates(p) ==
  \/ p \in Protected \/ p \notin Editable
  \/ workspace[p] = "oversize"
  \/ workspace[p] # "absent" /\ p \notin Fixture /\ p \notin AllowedNew

-----------------------------------------------------------------------------

Init ==
  /\ workspace = NoFiles
  /\ execution = "completed"
  /\ submission = NoSubmission
  /\ stage = "new"
  /\ files = NoFiles
  /\ dirs = {}
  /\ todo = {}
  /\ results = <<>>
  /\ child = NoChild
  /\ proved = {}
  /\ report = "not-run"
  /\ verdict = "not-run"
  /\ runs = 0

unchangedTrial == UNCHANGED <<workspace, execution, submission>>
unchangedEval  == UNCHANGED <<files, dirs, todo, results, child, proved>>

\* The materialize command, when the dependency setup succeeds.  When it fails
\* the trial ends here.
materialize ==
  /\ stage = "new"
  /\ \/ stage' = "agent" /\ workspace' = Fresh
     \/ stage' = "done" /\ UNCHANGED workspace
  /\ UNCHANGED <<execution, submission, report, verdict, runs>>
  /\ unchangedEval

\* External: the agent's session, whatever it does to the files it works on.
agent ==
  /\ stage = "agent"
  /\ workspace' \in Trees
  /\ execution' \in Execution
  /\ stage' = "export"
  /\ UNCHANGED <<submission, report, verdict, runs>>
  /\ unchangedEval

\* exportSubmission: no change is exported when one of them is a violation.
\* A link or special file makes the scan throw, and the trial ends.
export ==
  /\ stage = "export"
  /\ \/ /\ \E p \in Scanned : workspace[p] = "special"
        /\ stage' = "done"
        /\ UNCHANGED submission
     \/ /\ \A p \in Scanned : workspace[p] # "special"
        /\ stage' = "idle"
        /\ submission' =
             IF \E p \in Changed : Violates(p)
             THEN [status |-> "rejected", changes |-> NoChange]
             ELSE [status |-> "accepted", changes |-> [p \in Changed |-> workspace[p]]]
  /\ UNCHANGED <<workspace, execution, report, verdict, runs>>
  /\ unchangedEval

-----------------------------------------------------------------------------

\* The validate command up to the first file system call of validateSubmission
\* that can fail.  It is issued after the export, and again by a resumed
\* schedule while the attempt has a submission and no verdict.
validate ==
  /\ stage \in {"idle", "threw", "killed"}
  /\ verdict = "not-run"
  /\ runs < MaxRuns
  /\ runs' = runs + 1
  /\ child' = NoChild
  /\ proved' = {}
  /\ \/ /\ execution = "cancelled"
        /\ results' = <<>>
        /\ report' = "not-run"
        /\ stage' = "attach"
        /\ UNCHANGED <<files, dirs, todo>>
     \/ /\ execution # "cancelled" /\ submission.status = "rejected"
        /\ results' = <<"fail">>
        /\ report' = "fail"
        /\ stage' = "attach"
        /\ UNCHANGED <<files, dirs, todo>>
     \/ /\ execution # "cancelled" /\ submission.status = "accepted"
        /\ results' = <<>>
        /\ stage' = "apply"
        /\ files' = Fresh
        /\ dirs' = DirsOf(Fresh)
        /\ todo' = DOMAIN submission.changes
        /\ UNCHANGED report
  /\ UNCHANGED <<workspace, execution, submission, verdict>>

\* The evaluator's workspace goes: rm in validateSubmission, or its container.
removed == files' = NoFiles /\ dirs' = {} /\ todo' = {}

\* loadValidator, mkdtemp or the dependency setup of the fresh copy fails.
setup_fails ==
  /\ stage = "apply"
  /\ todo = DOMAIN submission.changes
  /\ files = Fresh
  /\ stage' = "threw"
  /\ removed
  /\ UNCHANGED <<results, child, proved, report, verdict, runs>>
  /\ unchangedTrial

\* Mutant: the export does not sort the paths.
NextChange_unsorted(p) == p \in todo

\* The change applySubmission takes next: the list is sorted by path.
NextChange(p) == p \in todo /\ \A q \in todo : Position[p] <= Position[q]

Ancestors(p) == {q \in Paths : <<p, q>> \in Under}

\* mkdir and open throw where a file or a directory is in the way.
Blocked(p) ==
  \/ p \notin Editable
  \/ p \in dirs
  \/ \E q \in Ancestors(p) : files[q] # "absent"

\* One round of applySubmission's loop.
apply_change ==
  /\ stage = "apply"
  /\ \E p \in todo :
       /\ NextChange(p)
       /\ ~ Blocked(p)
       /\ files' = [files EXCEPT ![p] = submission.changes[p]]
       /\ dirs' = IF submission.changes[p] = "absent" THEN dirs
                  ELSE dirs \cup Ancestors(p)
       /\ todo' = todo \ {p}
  /\ UNCHANGED <<stage, results, child, proved, report, verdict, runs>>
  /\ unchangedTrial

apply_throws ==
  /\ stage = "apply"
  /\ \E p \in todo : NextChange(p) /\ Blocked(p)
  /\ stage' = "threw"
  /\ removed
  /\ UNCHANGED <<results, child, proved, report, verdict, runs>>
  /\ unchangedTrial

applied ==
  /\ stage = "apply"
  /\ todo = {}
  /\ stage' = "check"
  /\ unchangedTrial
  /\ unchangedEval
  /\ UNCHANGED <<report, verdict, runs>>

-----------------------------------------------------------------------------

unchangedCheck ==
  /\ UNCHANGED <<stage, files, dirs, todo, report, verdict, runs>>
  /\ unchangedTrial

\* The check the loop of validateSubmission is at.
Current == Len(results) + 1

\* runCheck: the command starts, or cannot be started.
spawn ==
  /\ stage = "check"
  /\ Current <= Checks
  /\ ~ child.up
  /\ \/ child' = [NoChild EXCEPT !.up = TRUE] /\ UNCHANGED results
     \/ results' = Append(results, "error") /\ UNCHANGED child
  /\ UNCHANGED proved
  /\ unchangedCheck

\* External: the command exits.  Under the test runner an exit code of 0 comes
\* with a confirmation on the fourth pipe when assertions ran and all passed.
\* Descendants may live on in its process group and hold its pipes.
check_exits ==
  /\ child.up /\ child.exit = "none"
  /\ \E exit \in {"confirmed", "silent", "failed"}, linger \in BOOLEAN :
       /\ child' = [child EXCEPT !.exit = exit, !.linger = linger]
       /\ proved' = IF exit = "confirmed" \/ (exit = "silent" /\ Current \notin NodeTests)
                    THEN proved \cup {Current} ELSE proved
  /\ UNCHANGED results
  /\ unchangedCheck

\* External: the last of those descendants exits.
descendants_exit ==
  /\ child.up /\ child.linger
  /\ child' = [child EXCEPT !.linger = FALSE]
  /\ UNCHANGED <<results, proved>>
  /\ unchangedCheck

\* Mutant: only the command is killed.
Killed_command(c) == [c EXCEPT !.exit = IF c.exit = "none" THEN "signal" ELSE c.exit]

\* The process group after process.kill(-pid, "SIGKILL").
Killed(c) == [c EXCEPT !.exit = IF c.exit = "none" THEN "signal" ELSE c.exit,
                       !.linger = FALSE]

\* The validation timer.
check_timeout ==
  /\ child.up /\ ~ child.timedOut
  /\ child' = [Killed(child) EXCEPT !.timedOut = TRUE]
  /\ UNCHANGED <<results, proved>>
  /\ unchangedCheck

\* capture: the output, of which some may still be in the pipes when the group
\* is gone, passes its limit.
capture_exceeds ==
  /\ child.up /\ ~ child.exceeded
  /\ child' = [Killed(child) EXCEPT !.exceeded = TRUE]
  /\ UNCHANGED <<results, proved>>
  /\ unchangedCheck



\* Mutant: exit code 0 is enough.
CloseStatus_exitCode(c, check) ==
  IF c.exceeded \/ c.timedOut THEN "fail"
  ELSE IF c.exit \in {"confirmed", "silent"} THEN "pass" ELSE "fail"

\* The status the close handler gives a check.
CloseStatus(c, check) ==
  IF c.exceeded \/ c.timedOut THEN "fail"
  ELSE IF c.exit = "confirmed" \/ (c.exit = "silent" /\ check \notin NodeTests)
       THEN "pass" ELSE "fail"

\* The close event: the command has exited and nobody holds its pipes.
check_close ==
  /\ child.up /\ child.exit # "none" /\ ~ child.linger
  /\ results' = Append(results, CloseStatus(child, Current))
  /\ child' = NoChild
  /\ UNCHANGED proved
  /\ unchangedCheck

-----------------------------------------------------------------------------

\* The status of the checks together.
Aggregate(r) ==
  IF \E c \in DOMAIN r : r[c] = "error" THEN "error"
  ELSE IF \A c \in DOMAIN r : r[c] = "pass" THEN "pass" ELSE "fail"

\* Mutant: a validation.json of an earlier run is kept.
write_validation_once ==
  /\ stage = "check"
  /\ Current > Checks
  /\ ~ child.up
  /\ report' = IF report = "not-run" THEN Aggregate(results) ELSE report
  /\ removed
  /\ stage' = "attach"
  /\ UNCHANGED <<results, child, proved, verdict, runs>>
  /\ unchangedTrial

\* writeValidation, after the last check.
write_validation ==
  /\ stage = "check"
  /\ Current > Checks
  /\ ~ child.up
  /\ report' = Aggregate(results)
  /\ removed
  /\ stage' = "attach"
  /\ UNCHANGED <<results, child, proved, verdict, runs>>
  /\ unchangedTrial

\* attachValidationResult: the status of the checks it is handed; a cancelled
\* trial has none and stays open.
attach ==
  /\ stage = "attach"
  /\ IF execution = "cancelled"
     THEN stage' = "idle" /\ UNCHANGED verdict
     ELSE stage' = "done" /\ verdict' = Aggregate(results)
  /\ unchangedTrial
  /\ unchangedEval
  /\ UNCHANGED <<report, runs>>

\* The evaluator's container is killed.
kill ==
  /\ stage \in {"apply", "check", "attach"}
  /\ stage' = "killed"
  /\ child' = NoChild
  /\ removed
  /\ UNCHANGED <<results, proved, report, verdict, runs>>
  /\ unchangedTrial

Evaluate == apply_change \/ apply_throws \/ applied \/ spawn \/ check_timeout
            \/ check_close \/ write_validation \/ attach

Next == materialize \/ agent \/ export \/ validate \/ setup_fails \/ Evaluate
        \/ check_exits \/ descendants_exit \/ capture_exceeds \/ kill

Spec == Init /\ [][Next]_vars

\* Node's event loop runs every completed call, timer and event; the checks'
\* commands promise nothing.
Fairness == /\ WF_vars(apply_change \/ apply_throws \/ applied)
            /\ WF_vars(spawn)
            /\ WF_vars(check_timeout)
            /\ WF_vars(check_close)
            /\ WF_vars(write_validation \/ attach)

FairSpec == Spec /\ Fairness

-----------------------------------------------------------------------------

\* Every variable has its type.
TypeOK ==
  /\ workspace \in [Paths -> Entry]
  /\ execution \in Execution
  /\ submission \in Submissions
  /\ stage \in Stages
  /\ files \in [Paths -> Entry]
  /\ dirs \subseteq Paths
  /\ todo \subseteq Paths
  /\ results \in Seq({"pass", "fail", "error"})
  /\ child \in Child
  /\ proved \subseteq 1..Checks
  /\ report \in Verdicts
  /\ verdict \in Verdicts
  /\ runs \in 0..MaxRuns

\* The workspace the checks are about to start on.
Ready == stage = "check" /\ results = <<>> /\ ~ child.up

\* What exportSubmission wrote and applySubmission replayed is what the agent
\* left: the checks start on the agent's files, path for path, whatever was
\* added, changed, deleted or turned from a file into a directory.
AppliedIsWorkspace ==
  Ready => \A p \in Scanned : files[p] = workspace[p]

\* The checks start on the fixture's own bytes at every path the agent may not
\* edit: the trusted public checks, the lockfile, the installed packages.
TrustedIsFresh ==
  Ready => \A p \in Paths : (p \in Protected \/ p \notin Editable) => files[p] = Fresh[p]

\* The agent put no file in the place of a directory of the fixture.
DirectoriesStay == \A p \in DirsOf(Fresh) : workspace[p] = "absent"

\* An accepted submission can be applied: at no change of the sorted list does
\* a file or a directory stand in the way, also when a file gave way to a
\* directory of the same name.  Only the opposite, a directory of the fixture
\* that gave way to a file, is beyond applySubmission, which makes directories
\* and never removes one.
AcceptedApplies ==
  DirectoriesStay =>
    ~ (stage = "apply" /\ \E p \in todo : NextChange(p) /\ Blocked(p))

\* A pass is attached only to a completed or timed-out trial with an accepted
\* submission, all of whose checks ran their assertions to the end in the run
\* that gave the verdict, whatever timers, exits, crashes and reruns preceded.
PassIsEarned ==
  verdict = "pass" =>
    /\ execution # "cancelled"
    /\ submission.status = "accepted"
    /\ proved = 1..Checks

\* validation.json and the verdict in run.json are of the same run, across
\* crashes between the two writes and the reruns they cause.
RecordsAgree == verdict # "not-run" => report = verdict

\* A check that its timer or the output limit cut has nobody left to hold its
\* pipes, so that 'close' comes although neither strikes twice; and no check is
\* left behind when its loop goes on.
CutCheckCloses ==
  child.up =>
    /\ stage = "check" /\ Current <= Checks
    /\ child.timedOut \/ child.exceeded => child.exit # "none" /\ ~ child.linger

\* A validate command ends, with a result or without, even when a check never
\* exits or leaves descendants that hold its pipes.
ValidationEnds ==
  (stage \in {"apply", "check", "attach"})
     ~> (stage \in {"idle", "done", "threw", "killed"})
=============================================================================
