------------------------- MODULE Submission_proofs --------------------------
(***************************************************************************)
(* What Submission promises for every task: the checks start on the files  *)
(* the agent left and on the fixture's own bytes wherever the agent may    *)
(* not write, an accepted submission can be applied, a pass is earned, and *)
(* a validate command never waits for a check that nothing will end.       *)
(***************************************************************************)
EXTENDS Submission, FiniteSetTheorems, WellFoundedInduction, TLAPS

\* No file of the agent's workspace lies below another.
WorkspaceIsTree ==
  \A d \in Under : workspace[d[1]] = "absent" \/ workspace[d[2]] = "absent"

\* An accepted submission lists the changes of the workspace, which rests from
\* the export on, and each of them is allowed.
ExportSound ==
  /\ stage \in {"new", "agent", "export"} => submission = NoSubmission
  /\ submission.status = "accepted" =>
       /\ submission.changes = [p \in Changed |-> workspace[p]]
       /\ \A p \in Changed : ~ Violates(p)

\* Between two changes the evaluator's workspace holds the agent's file at the
\* paths done, the fixture's elsewhere, and the paths done sort first.
Replayed ==
  stage \in {"apply", "check"} =>
    /\ submission.status = "accepted"
    /\ todo \subseteq Changed
    /\ \A p \in Paths :
         files[p] = IF p \in Changed \ todo THEN workspace[p] ELSE Fresh[p]
    /\ \A p \in Changed \ todo, q \in todo : Position[p] < Position[q]
    /\ stage = "check" => todo = {}

\* A directory there is the fixture's, or was made for a file already written.
DirsSound ==
  stage = "apply" =>
    \A d \in dirs :
      d \in DirsOf(Fresh) \/ \E q \in Changed \ todo : <<q, d>> \in Under

\* The checks that passed were proved, and so is one about to pass.
ResultsSound ==
  /\ child.up => stage = "check" /\ Current <= Checks
  /\ stage \in {"apply", "check"} => execution # "cancelled"
  /\ stage = "apply" => results = <<>>
  /\ stage = "check" =>
       /\ Len(results) <= Checks
       /\ \A c \in DOMAIN results : results[c] = "pass" => c \in proved
       /\ child.up /\ CloseStatus(child, Current) = "pass" => Current \in proved

\* What is about to be attached, and what was.
AttachSound ==
  /\ stage = "attach" /\ execution # "cancelled" =>
       /\ report = Aggregate(results)
       /\ Aggregate(results) = "pass" =>
            submission.status = "accepted" /\ proved = 1..Checks
  /\ verdict # "not-run" => stage = "done"

IInv == /\ TypeOK /\ WorkspaceIsTree /\ ExportSound /\ Replayed /\ DirsSound
        /\ ResultsSound /\ AttachSound /\ PassIsEarned /\ RecordsAgree

-----------------------------------------------------------------------------

\* The parts of a fresh copy.
LEMMA FreshFacts ==
  /\ Fresh \in [Paths -> Entry]
  /\ \A p \in Paths :
       Fresh[p] = IF p \in Fixture \cup Ignored THEN "fixture" ELSE "absent"
  /\ DirsOf(Fresh) \subseteq Paths
  /\ \A d \in Under : Fresh[d[1]] = "absent" \/ Fresh[d[2]] = "absent"
BY SubmissionAssumption DEF Fresh, Entry, Contents, DirsOf

\* The lists of changes there are.
LEMMA ChangesFacts ==
  /\ \A S \in SUBSET Paths : \A f \in [S -> Entry] : f \in Changes
  /\ NoChange \in Changes
<1>1. \A S \in SUBSET Paths : \A f \in [S -> Entry] : f \in Changes
  BY DEF Changes
<1>2. NoChange \in [{} -> Entry]
  BY DEF NoChange
<1>3. {} \in SUBSET Paths
  OBVIOUS
<1> QED
  BY <1>1, <1>2, <1>3

\* The first state of a trial.
LEMMA InitHolds == Init => IInv
<1> SUFFICES ASSUME Init PROVE IInv
  OBVIOUS
<1> USE SubmissionAssumption DEF Init
<1>1. TypeOK
  <2>1. NoSubmission \in Submissions
    BY ChangesFacts DEF NoSubmission, Submissions
  <2>2. NoFiles \in [Paths -> Entry]
    BY DEF NoFiles, Entry
  <2>3. NoChild \in Child
    BY DEF NoChild, Child, Exits
  <2> QED
    BY <2>1, <2>2, <2>3 DEF TypeOK, Execution, Stages, Verdicts
<1>2. WorkspaceIsTree
  BY DEF WorkspaceIsTree, NoFiles
<1>3. ExportSound /\ Replayed /\ DirsSound
  BY DEF ExportSound, Replayed, DirsSound, NoSubmission
<1>4. ResultsSound /\ AttachSound
  BY DEF ResultsSound, AttachSound, NoChild
<1>5. PassIsEarned /\ RecordsAgree
  BY DEF PassIsEarned, RecordsAgree
<1> QED
  BY <1>1, <1>2, <1>3, <1>4, <1>5 DEF IInv

\* Types, one action at a time.  Only the values the commands compute need
\* care: the list of changes, the results and the proved checks.
LEMMA TypeStep == IInv /\ [Next]_vars => TypeOK'
<1> SUFFICES ASSUME IInv, [Next]_vars PROVE TypeOK'
  OBVIOUS
<1> USE SubmissionAssumption, FreshFacts DEF IInv, TypeOK
<1>1. CASE materialize
  BY <1>1 DEF materialize, unchangedEval, Stages
<1>2. CASE agent
  BY <1>2 DEF agent, unchangedEval, TypeOK, Stages, Trees
<1>3. CASE export
  <2>1. Changed \subseteq Paths
    BY DEF Changed, Scanned
  <2>2. [p \in Changed |-> workspace[p]] \in Changes
    <3>1. [p \in Changed |-> workspace[p]] \in [Changed -> Entry]
      BY <2>1
    <3> QED
      BY <2>1, <3>1, ChangesFacts
  <2>3. \/ submission' = submission
        \/ submission' = [status |-> "rejected", changes |-> NoChange]
        \/ submission' = [status |-> "accepted", changes |-> [p \in Changed |-> workspace[p]]]
    BY <1>3 DEF export
  <2>4. submission' \in Submissions
    <3> DEFINE c == [p \in Changed |-> workspace[p]]
    <3>1. c \in Changes /\ NoChange \in Changes
      BY <2>2, ChangesFacts
    <3>2. submission' \in {submission, [status |-> "rejected", changes |-> NoChange],
                          [status |-> "accepted", changes |-> c]}
      BY <2>3
    <3> HIDE DEF c
    <3>3. \A x \in Changes : /\ [status |-> "rejected", changes |-> x] \in Submissions
                            /\ [status |-> "accepted", changes |-> x] \in Submissions
      BY DEF Submissions
    <3>4. submission \in Submissions
      OBVIOUS
    <3> QED
      BY ONLY <3>1, <3>2, <3>3, <3>4
  <2>5. stage' \in Stages
    <3>1. stage' = "done" \/ stage' = "idle"
      BY <1>3, Zenon DEF export
    <3> QED
      BY <3>1 DEF Stages
  <2>6. /\ UNCHANGED <<workspace, execution, report, verdict, runs>> /\ unchangedEval
    BY <1>3 DEF export
  <2> QED
    BY <2>4, <2>5, <2>6 DEF unchangedEval
<1>4. CASE validate
  <2>1. DOMAIN submission.changes \subseteq Paths
    BY DEF Submissions, Changes
  <2>2. child' \in Child
    BY <1>4 DEF validate, NoChild, Child, Exits
  <2>3. /\ files' \in [Paths -> Entry]
        /\ dirs' \subseteq Paths
        /\ todo' \subseteq Paths
    BY <1>4, <2>1 DEF validate
  <2>4. results' \in Seq({"pass", "fail", "error"})
    <3>1. /\ <<>> \in Seq({"pass", "fail", "error"})
          /\ <<"fail">> \in Seq({"pass", "fail", "error"})
      OBVIOUS
    <3>2. results' = <<>> \/ results' = <<"fail">>
      BY <1>4 DEF validate
    <3> QED
      BY <3>1, <3>2
  <2> QED
    BY <1>4, <2>2, <2>3, <2>4 DEF validate, Stages, Verdicts
<1>5. CASE setup_fails
  BY <1>5 DEF setup_fails, removed, unchangedTrial, Stages, NoFiles, Entry
<1>6. CASE apply_change
  <2>1. PICK p \in todo :
          /\ files' = [files EXCEPT ![p] = submission.changes[p]]
          /\ dirs' = IF submission.changes[p] = "absent" THEN dirs
                     ELSE dirs \cup Ancestors(p)
          /\ todo' = todo \ {p}
    BY <1>6 DEF apply_change
  <2>2. submission.changes[p] \in Entry
    BY <1>6 DEF apply_change, Replayed, ExportSound
  <2> QED
    BY <1>6, <2>1, <2>2 DEF apply_change, unchangedTrial, Ancestors
<1>7. CASE apply_throws
  BY <1>7 DEF apply_throws, removed, unchangedTrial, Stages, NoFiles, Entry
<1>8. CASE applied
  BY <1>8 DEF applied, unchangedTrial, unchangedEval, Stages
<1>9. CASE spawn
  <2>1. child' \in Child
    BY <1>9 DEF spawn, NoChild, Child, Exits
  <2>2. Append(results, "error") \in Seq({"pass", "fail", "error"})
    OBVIOUS
  <2>3. results' \in Seq({"pass", "fail", "error"})
    BY <1>9, <2>2 DEF spawn
  <2> QED
    BY <1>9, <2>1, <2>3 DEF spawn, unchangedCheck, unchangedTrial
<1>10. CASE check_timeout
  BY <1>10 DEF check_timeout, unchangedCheck, unchangedTrial, Killed, Child,
     Exits
<1>11. CASE check_close
  <2>1. CloseStatus(child, Current) \in {"pass", "fail", "error"}
    BY DEF CloseStatus
  <2>2. child' \in Child /\ results' \in Seq({"pass", "fail", "error"})
    BY <1>11, <2>1 DEF check_close, NoChild, Child, Exits
  <2> QED
    BY <1>11, <2>2 DEF check_close, unchangedCheck, unchangedTrial
<1>12. CASE write_validation
  BY <1>12 DEF write_validation, removed, unchangedTrial, Stages, Verdicts,
     NoFiles, Entry, Aggregate
<1>13. CASE attach
  BY <1>13 DEF attach, unchangedTrial, unchangedEval, Stages, Verdicts,
     Aggregate
<1>14. CASE check_exits
  <2>1. child' \in Child
    <3>1. PICK exit \in {"confirmed", "silent", "failed"}, linger \in BOOLEAN :
            child' = [child EXCEPT !.exit = exit, !.linger = linger]
      BY <1>14 DEF check_exits
    <3> QED
      BY <3>1 DEF Child, Exits
  <2>2. proved' \subseteq 1..Checks
    BY <1>14 DEF check_exits, ResultsSound, Current
  <2> QED
    BY <1>14, <2>1, <2>2 DEF check_exits, unchangedCheck, unchangedTrial
<1>15. CASE descendants_exit
  BY <1>15 DEF descendants_exit, unchangedCheck, unchangedTrial, Child
<1>16. CASE capture_exceeds
  BY <1>16 DEF capture_exceeds, unchangedCheck, unchangedTrial, Killed, Child,
     Exits
<1>17. CASE kill
  BY <1>17 DEF kill, removed, unchangedTrial, Stages, NoFiles, Entry, NoChild,
     Child, Exits
<1>18. CASE UNCHANGED vars
  BY <1>18 DEF vars
<1> QED
  BY <1>1, <1>2, <1>3, <1>4, <1>5, <1>6, <1>7, <1>8, <1>9, <1>10, <1>11,
     <1>12, <1>13, <1>14, <1>15, <1>16, <1>17, <1>18 DEF Next, Evaluate

\* The workspace is written by materialize and by the agent only.
LEMMA TreeStep == IInv /\ [Next]_vars => WorkspaceIsTree'
<1> SUFFICES ASSUME IInv, [Next]_vars PROVE WorkspaceIsTree'
  OBVIOUS
<1> USE DEF IInv
<1>1. CASE materialize
  BY <1>1, FreshFacts DEF materialize, unchangedEval, WorkspaceIsTree
<1>2. CASE agent
  BY <1>2 DEF agent, unchangedEval, WorkspaceIsTree, Trees
<1>3. CASE export
  BY <1>3 DEF export, unchangedEval, WorkspaceIsTree
<1>4. CASE validate
  BY <1>4 DEF validate, WorkspaceIsTree
<1>5. CASE setup_fails
  BY <1>5 DEF setup_fails, removed, unchangedTrial, WorkspaceIsTree
<1>6. CASE apply_change
  BY <1>6 DEF apply_change, unchangedTrial, WorkspaceIsTree
<1>7. CASE apply_throws
  BY <1>7 DEF apply_throws, removed, unchangedTrial, WorkspaceIsTree
<1>8. CASE applied
  BY <1>8 DEF applied, unchangedTrial, unchangedEval, WorkspaceIsTree
<1>9. CASE spawn
  BY <1>9 DEF spawn, unchangedCheck, unchangedTrial, WorkspaceIsTree
<1>10. CASE check_timeout
  BY <1>10 DEF check_timeout, unchangedCheck, unchangedTrial, WorkspaceIsTree
<1>11. CASE check_close
  BY <1>11 DEF check_close, unchangedCheck, unchangedTrial, WorkspaceIsTree
<1>12. CASE write_validation
  BY <1>12 DEF write_validation, removed, unchangedTrial, WorkspaceIsTree
<1>13. CASE attach
  BY <1>13 DEF attach, unchangedTrial, unchangedEval, WorkspaceIsTree
<1>14. CASE check_exits
  BY <1>14 DEF check_exits, unchangedCheck, unchangedTrial, WorkspaceIsTree
<1>15. CASE descendants_exit
  BY <1>15 DEF descendants_exit, unchangedCheck, unchangedTrial,
     WorkspaceIsTree
<1>16. CASE capture_exceeds
  BY <1>16 DEF capture_exceeds, unchangedCheck, unchangedTrial,
     WorkspaceIsTree
<1>17. CASE kill
  BY <1>17 DEF kill, removed, unchangedTrial, WorkspaceIsTree
<1>18. CASE UNCHANGED vars
  BY <1>18 DEF vars, WorkspaceIsTree
<1> QED
  BY <1>1, <1>2, <1>3, <1>4, <1>5, <1>6, <1>7, <1>8, <1>9, <1>10, <1>11,
     <1>12, <1>13, <1>14, <1>15, <1>16, <1>17, <1>18 DEF Next, Evaluate

\* The submission is written by export, after the last write to the workspace.
LEMMA ExportStep == IInv /\ [Next]_vars => ExportSound'
<1> SUFFICES ASSUME IInv, [Next]_vars PROVE ExportSound'
  OBVIOUS
<1> USE DEF IInv
<1>1. CASE materialize
  BY <1>1 DEF materialize, unchangedEval, ExportSound, NoSubmission
<1>2. CASE agent
  BY <1>2 DEF agent, unchangedEval, ExportSound, NoSubmission
<1>3. CASE export
  BY <1>3 DEF export, unchangedEval, ExportSound, Changed, Violates
<1>4. CASE validate
  BY <1>4 DEF validate, ExportSound, Changed, Violates
<1>5. CASE setup_fails
  BY <1>5 DEF setup_fails, removed, unchangedTrial, ExportSound, Changed,
     Violates
<1>6. CASE apply_change
  BY <1>6 DEF apply_change, unchangedTrial, ExportSound, Changed, Violates
<1>7. CASE apply_throws
  BY <1>7 DEF apply_throws, removed, unchangedTrial, ExportSound, Changed,
     Violates
<1>8. CASE applied
  BY <1>8 DEF applied, unchangedTrial, unchangedEval, ExportSound, Changed,
     Violates
<1>9. CASE spawn
  BY <1>9 DEF spawn, unchangedCheck, unchangedTrial, ExportSound, Changed,
     Violates
<1>10. CASE check_timeout
  BY <1>10 DEF check_timeout, unchangedCheck, unchangedTrial, ExportSound,
     Changed, Violates
<1>11. CASE check_close
  BY <1>11 DEF check_close, unchangedCheck, unchangedTrial, ExportSound,
     Changed, Violates
<1>12. CASE write_validation
  BY <1>12 DEF write_validation, removed, unchangedTrial, ExportSound,
     Changed, Violates
<1>13. CASE attach
  BY <1>13 DEF attach, unchangedTrial, unchangedEval, ExportSound, Changed,
     Violates
<1>14. CASE check_exits
  BY <1>14 DEF check_exits, unchangedCheck, unchangedTrial, ExportSound,
     Changed, Violates
<1>15. CASE descendants_exit
  BY <1>15 DEF descendants_exit, unchangedCheck, unchangedTrial, ExportSound,
     Changed, Violates
<1>16. CASE capture_exceeds
  BY <1>16 DEF capture_exceeds, unchangedCheck, unchangedTrial, ExportSound,
     Changed, Violates
<1>17. CASE kill
  BY <1>17 DEF kill, removed, unchangedTrial, ExportSound, Changed, Violates
<1>18. CASE UNCHANGED vars
  BY <1>18 DEF vars, ExportSound, Changed, Violates
<1> QED
  BY <1>1, <1>2, <1>3, <1>4, <1>5, <1>6, <1>7, <1>8, <1>9, <1>10, <1>11,
     <1>12, <1>13, <1>14, <1>15, <1>16, <1>17, <1>18 DEF Next, Evaluate

\* A validate command starts with every change to do; applying the first of
\* those left moves one path from the fixture to the agent.
LEMMA ReplayStep == IInv /\ [Next]_vars => Replayed'
<1> SUFFICES ASSUME IInv, [Next]_vars PROVE Replayed'
  OBVIOUS
<1> USE SubmissionAssumption DEF IInv, TypeOK
<1>1. CASE materialize
  BY <1>1 DEF materialize, unchangedEval, Replayed
<1>2. CASE agent
  BY <1>2 DEF agent, unchangedEval, Replayed
<1>3. CASE export
  BY <1>3 DEF export, unchangedEval, Replayed
<1>4. CASE validate
  <2>1. submission.status = "accepted" => DOMAIN submission.changes = Changed
    BY DEF ExportSound
  <2>2. Changed' = Changed
    BY <1>4 DEF validate, Changed
  <2>3. CASE stage' = "apply"
    <3>1. /\ submission.status = "accepted"
          /\ files' = Fresh
          /\ todo' = DOMAIN submission.changes
      BY <1>4, <2>3 DEF validate
    <3> QED
      BY <1>4, <2>1, <2>2, <2>3, <3>1 DEF validate, Replayed
  <2> QED
    BY <1>4, <2>3 DEF validate, Replayed
<1>5. CASE setup_fails
  BY <1>5 DEF setup_fails, removed, unchangedTrial, Replayed
<1>6. CASE apply_change
  <2>1. PICK p \in todo :
          /\ NextChange(p)
          /\ files' = [files EXCEPT ![p] = submission.changes[p]]
          /\ todo' = todo \ {p}
    BY <1>6 DEF apply_change
  <2>2. Changed' = Changed
    BY <1>6 DEF apply_change, unchangedTrial, Changed
  <2>3. /\ submission.status = "accepted"
        /\ todo \subseteq Changed
        /\ \A q \in Paths : files[q] = IF q \in Changed \ todo THEN workspace[q] ELSE Fresh[q]
        /\ \A r \in Changed \ todo, q \in todo : Position[r] < Position[q]
    BY <1>6 DEF apply_change, Replayed
  <2>4. p \in Changed /\ submission.changes[p] = workspace[p]
    BY <2>1, <2>3 DEF ExportSound
  <2>5. \A q \in Paths : files'[q] = IF q \in Changed \ todo' THEN workspace[q] ELSE Fresh[q]
    BY <2>1, <2>3, <2>4
  <2>6. \A r \in Changed \ todo', q \in todo' : Position[r] < Position[q]
    <3> SUFFICES ASSUME NEW r \in Changed \ todo', NEW q \in todo'
                 PROVE  Position[r] < Position[q]
      OBVIOUS
    <3>1. CASE r = p
      <4>1. p \in Paths /\ q \in Paths /\ Position[p] # Position[q]
        BY <2>1
      <4> QED
        BY <2>1, <3>1, <4>1 DEF NextChange
    <3>2. CASE r # p
      BY <2>1, <2>3, <3>2
    <3> QED
      BY <3>1, <3>2
  <2> QED
    BY <1>6, <2>1, <2>2, <2>3, <2>5, <2>6 DEF apply_change, unchangedTrial, Replayed
<1>7. CASE apply_throws
  BY <1>7 DEF apply_throws, removed, unchangedTrial, Replayed
<1>8. CASE applied
  BY <1>8 DEF applied, unchangedTrial, unchangedEval, Replayed, Changed
<1>9. CASE spawn
  BY <1>9 DEF spawn, unchangedCheck, unchangedTrial, Replayed, Changed
<1>10. CASE check_timeout
  BY <1>10 DEF check_timeout, unchangedCheck, unchangedTrial, Replayed,
     Changed
<1>11. CASE check_close
  BY <1>11 DEF check_close, unchangedCheck, unchangedTrial, Replayed, Changed
<1>12. CASE write_validation
  BY <1>12 DEF write_validation, removed, unchangedTrial, Replayed
<1>13. CASE attach
  BY <1>13 DEF attach, unchangedTrial, unchangedEval, Replayed
<1>14. CASE check_exits
  BY <1>14 DEF check_exits, unchangedCheck, unchangedTrial, Replayed, Changed
<1>15. CASE descendants_exit
  BY <1>15 DEF descendants_exit, unchangedCheck, unchangedTrial, Replayed,
     Changed
<1>16. CASE capture_exceeds
  BY <1>16 DEF capture_exceeds, unchangedCheck, unchangedTrial, Replayed,
     Changed
<1>17. CASE kill
  BY <1>17 DEF kill, removed, unchangedTrial, Replayed
<1>18. CASE UNCHANGED vars
  BY <1>18 DEF vars, Replayed, Changed
<1> QED
  BY <1>1, <1>2, <1>3, <1>4, <1>5, <1>6, <1>7, <1>8, <1>9, <1>10, <1>11,
     <1>12, <1>13, <1>14, <1>15, <1>16, <1>17, <1>18 DEF Next, Evaluate

\* Applying a change makes directories only above the path it writes.
LEMMA DirsStep == IInv /\ [Next]_vars => DirsSound'
<1> SUFFICES ASSUME IInv, [Next]_vars PROVE DirsSound'
  OBVIOUS
<1> USE SubmissionAssumption DEF IInv, TypeOK
<1>1. CASE materialize
  BY <1>1 DEF materialize, unchangedEval, DirsSound
<1>2. CASE agent
  BY <1>2 DEF agent, unchangedEval, DirsSound
<1>3. CASE export
  BY <1>3 DEF export, unchangedEval, DirsSound
<1>4. CASE validate
  BY <1>4, FreshFacts DEF validate, DirsSound
<1>5. CASE setup_fails
  BY <1>5 DEF setup_fails, removed, unchangedTrial, DirsSound
<1>6. CASE apply_change
  <2>1. PICK p \in todo :
          /\ dirs' = IF submission.changes[p] = "absent" THEN dirs
                     ELSE dirs \cup Ancestors(p)
          /\ todo' = todo \ {p}
    BY <1>6 DEF apply_change
  <2>2. Changed' = Changed /\ p \in Changed
    BY <1>6 DEF apply_change, unchangedTrial, Changed, Replayed
  <2>3. \A d \in Ancestors(p) : <<p, d>> \in Under
    BY DEF Ancestors
  <2>4. \A d \in dirs : d \in DirsOf(Fresh) \/ \E q \in Changed \ todo : <<q, d>> \in Under
    BY <1>6 DEF apply_change, DirsSound
  <2>5. \A d \in dirs' : d \in DirsOf(Fresh) \/ \E q \in Changed \ todo' : <<q, d>> \in Under
    BY <2>1, <2>2, <2>3, <2>4
  <2> QED
    BY <2>2, <2>5 DEF DirsSound, DirsOf, Fresh
<1>7. CASE apply_throws
  BY <1>7 DEF apply_throws, removed, unchangedTrial, DirsSound
<1>8. CASE applied
  BY <1>8 DEF applied, unchangedTrial, unchangedEval, DirsSound
<1>9. CASE spawn
  BY <1>9 DEF spawn, unchangedCheck, unchangedTrial, DirsSound
<1>10. CASE check_timeout
  BY <1>10 DEF check_timeout, unchangedCheck, unchangedTrial, DirsSound,
     ResultsSound
<1>11. CASE check_close
  BY <1>11 DEF check_close, unchangedCheck, unchangedTrial, DirsSound,
     ResultsSound
<1>12. CASE write_validation
  BY <1>12 DEF write_validation, removed, unchangedTrial, DirsSound
<1>13. CASE attach
  BY <1>13 DEF attach, unchangedTrial, unchangedEval, DirsSound
<1>14. CASE check_exits
  BY <1>14 DEF check_exits, unchangedCheck, unchangedTrial, DirsSound,
     ResultsSound
<1>15. CASE descendants_exit
  BY <1>15 DEF descendants_exit, unchangedCheck, unchangedTrial, DirsSound,
     ResultsSound
<1>16. CASE capture_exceeds
  BY <1>16 DEF capture_exceeds, unchangedCheck, unchangedTrial, DirsSound,
     ResultsSound
<1>17. CASE kill
  BY <1>17 DEF kill, removed, unchangedTrial, DirsSound
<1>18. CASE UNCHANGED vars
  BY <1>18 DEF vars, DirsSound, Changed
<1> QED
  BY <1>1, <1>2, <1>3, <1>4, <1>5, <1>6, <1>7, <1>8, <1>9, <1>10, <1>11,
     <1>12, <1>13, <1>14, <1>15, <1>16, <1>17, <1>18 DEF Next, Evaluate

\* A check is proved when its command exits, and gets its result at the close.
LEMMA ResultsStep == IInv /\ [Next]_vars => ResultsSound'
<1> SUFFICES ASSUME IInv, [Next]_vars PROVE ResultsSound'
  OBVIOUS
<1> USE SubmissionAssumption DEF IInv, TypeOK
<1>1. CASE materialize
  BY <1>1 DEF materialize, unchangedEval, ResultsSound
<1>2. CASE agent
  BY <1>2 DEF agent, unchangedEval, ResultsSound
<1>3. CASE export
  BY <1>3 DEF export, unchangedEval, ResultsSound
<1>4. CASE validate
  BY <1>4 DEF validate, ResultsSound, NoChild
<1>5. CASE setup_fails
  BY <1>5 DEF setup_fails, removed, unchangedTrial, ResultsSound
<1>6. CASE apply_change
  BY <1>6 DEF apply_change, unchangedTrial, ResultsSound
<1>7. CASE apply_throws
  BY <1>7 DEF apply_throws, removed, unchangedTrial, ResultsSound
<1>8. CASE applied
  BY <1>8 DEF applied, unchangedTrial, unchangedEval, ResultsSound
<1>9. CASE spawn
  <2>1. CASE child' = [NoChild EXCEPT !.up = TRUE] /\ UNCHANGED results
    BY <1>9, <2>1 DEF spawn, unchangedCheck, unchangedTrial, ResultsSound, Current,
       CloseStatus, NoChild
  <2>2. CASE results' = Append(results, "error") /\ UNCHANGED child
    BY <1>9, <2>2 DEF spawn, unchangedCheck, unchangedTrial, ResultsSound, Current
  <2> QED
    BY <1>9, <2>1, <2>2 DEF spawn
<1>10. CASE check_timeout
  BY <1>10 DEF check_timeout, unchangedCheck, unchangedTrial, ResultsSound,
     Current, CloseStatus, Killed, Child
<1>11. CASE check_close
  BY <1>11 DEF check_close, unchangedCheck, unchangedTrial, ResultsSound,
     Current, NoChild
<1>12. CASE write_validation
  BY <1>12 DEF write_validation, removed, unchangedTrial, ResultsSound
<1>13. CASE attach
  BY <1>13 DEF attach, unchangedTrial, unchangedEval, ResultsSound
<1>14. CASE check_exits
  BY <1>14 DEF check_exits, unchangedCheck, unchangedTrial, ResultsSound,
     Current, CloseStatus, Child
<1>15. CASE descendants_exit
  BY <1>15 DEF descendants_exit, unchangedCheck, unchangedTrial, ResultsSound,
     Current, CloseStatus, Child
<1>16. CASE capture_exceeds
  BY <1>16 DEF capture_exceeds, unchangedCheck, unchangedTrial, ResultsSound,
     Current, CloseStatus, Killed, Child
<1>17. CASE kill
  BY <1>17 DEF kill, removed, unchangedTrial, ResultsSound, NoChild
<1>18. CASE UNCHANGED vars
  BY <1>18 DEF vars, ResultsSound, Current, CloseStatus
<1> QED
  BY <1>1, <1>2, <1>3, <1>4, <1>5, <1>6, <1>7, <1>8, <1>9, <1>10, <1>11,
     <1>12, <1>13, <1>14, <1>15, <1>16, <1>17, <1>18 DEF Next, Evaluate

\* What write_validation reports was proved by the checks it summarises.
LEMMA AttachStep == IInv /\ [Next]_vars => AttachSound'
<1> SUFFICES ASSUME IInv, [Next]_vars PROVE AttachSound'
  OBVIOUS
<1> USE SubmissionAssumption DEF IInv, TypeOK
<1>1. CASE materialize
  BY <1>1 DEF materialize, unchangedEval, AttachSound
<1>2. CASE agent
  BY <1>2 DEF agent, unchangedEval, AttachSound
<1>3. CASE export
  BY <1>3 DEF export, unchangedEval, AttachSound
<1>4. CASE validate
  BY <1>4 DEF validate, AttachSound, Aggregate
<1>5. CASE setup_fails
  BY <1>5 DEF setup_fails, removed, unchangedTrial, AttachSound
<1>6. CASE apply_change
  BY <1>6 DEF apply_change, unchangedTrial, AttachSound
<1>7. CASE apply_throws
  BY <1>7 DEF apply_throws, removed, unchangedTrial, AttachSound
<1>8. CASE applied
  BY <1>8 DEF applied, unchangedTrial, unchangedEval, AttachSound
<1>9. CASE spawn
  BY <1>9 DEF spawn, unchangedCheck, unchangedTrial, AttachSound
<1>10. CASE check_timeout
  BY <1>10 DEF check_timeout, unchangedCheck, unchangedTrial, AttachSound,
     ResultsSound
<1>11. CASE check_close
  BY <1>11 DEF check_close, unchangedCheck, unchangedTrial, AttachSound,
     ResultsSound
<1>12. CASE write_validation
  <2>1. Len(results) = Checks /\ DOMAIN results = 1..Checks
    BY <1>12 DEF write_validation, ResultsSound, Current
  <2>2. Aggregate(results) = "pass" => proved = 1..Checks
    <3> SUFFICES ASSUME Aggregate(results) = "pass" PROVE 1..Checks \subseteq proved
      OBVIOUS
    <3>1. \A c \in DOMAIN results : results[c] = "pass"
      BY DEF Aggregate
    <3> QED
      BY <1>12, <2>1, <3>1 DEF write_validation, ResultsSound
  <2>3. submission.status = "accepted" /\ stage' = "attach" /\ report' = Aggregate(results)
    BY <1>12 DEF write_validation, Replayed
  <2>4. verdict' = "not-run"
    BY <1>12 DEF write_validation, AttachSound
  <2> QED
    BY <1>12, <2>2, <2>3, <2>4 DEF write_validation, removed, unchangedTrial,
       AttachSound, Aggregate
<1>13. CASE attach
  BY <1>13 DEF attach, unchangedTrial, unchangedEval, AttachSound
<1>14. CASE check_exits
  BY <1>14 DEF check_exits, unchangedCheck, unchangedTrial, AttachSound,
     ResultsSound
<1>15. CASE descendants_exit
  BY <1>15 DEF descendants_exit, unchangedCheck, unchangedTrial, AttachSound,
     ResultsSound
<1>16. CASE capture_exceeds
  BY <1>16 DEF capture_exceeds, unchangedCheck, unchangedTrial, AttachSound,
     ResultsSound
<1>17. CASE kill
  BY <1>17 DEF kill, removed, unchangedTrial, AttachSound
<1>18. CASE UNCHANGED vars
  BY <1>18 DEF vars, AttachSound, Aggregate
<1> QED
  BY <1>1, <1>2, <1>3, <1>4, <1>5, <1>6, <1>7, <1>8, <1>9, <1>10, <1>11,
     <1>12, <1>13, <1>14, <1>15, <1>16, <1>17, <1>18 DEF Next, Evaluate

\* Only attach sets the verdict, and nothing runs after it.
LEMMA PassStep == IInv /\ [Next]_vars => PassIsEarned'
<1> SUFFICES ASSUME IInv, [Next]_vars PROVE PassIsEarned'
  OBVIOUS
<1> USE DEF IInv
<1>1. CASE materialize
  BY <1>1 DEF materialize, unchangedEval, PassIsEarned, AttachSound
<1>2. CASE agent
  BY <1>2 DEF agent, unchangedEval, PassIsEarned, AttachSound
<1>3. CASE export
  BY <1>3 DEF export, unchangedEval, PassIsEarned, AttachSound
<1>4. CASE validate
  BY <1>4 DEF validate, PassIsEarned, AttachSound
<1>5. CASE setup_fails
  BY <1>5 DEF setup_fails, removed, unchangedTrial, PassIsEarned, AttachSound
<1>6. CASE apply_change
  BY <1>6 DEF apply_change, unchangedTrial, PassIsEarned, AttachSound
<1>7. CASE apply_throws
  BY <1>7 DEF apply_throws, removed, unchangedTrial, PassIsEarned, AttachSound
<1>8. CASE applied
  BY <1>8 DEF applied, unchangedTrial, unchangedEval, PassIsEarned,
     AttachSound
<1>9. CASE spawn
  BY <1>9 DEF spawn, unchangedCheck, unchangedTrial, PassIsEarned, AttachSound
<1>10. CASE check_timeout
  BY <1>10 DEF check_timeout, unchangedCheck, unchangedTrial, PassIsEarned,
     AttachSound
<1>11. CASE check_close
  BY <1>11 DEF check_close, unchangedCheck, unchangedTrial, PassIsEarned,
     AttachSound
<1>12. CASE write_validation
  BY <1>12 DEF write_validation, removed, unchangedTrial, PassIsEarned,
     AttachSound
<1>13. CASE attach
  BY <1>13 DEF attach, unchangedTrial, unchangedEval, PassIsEarned,
     AttachSound
<1>14. CASE check_exits
  BY <1>14 DEF check_exits, unchangedCheck, unchangedTrial, PassIsEarned,
     AttachSound, ResultsSound
<1>15. CASE descendants_exit
  BY <1>15 DEF descendants_exit, unchangedCheck, unchangedTrial, PassIsEarned,
     AttachSound
<1>16. CASE capture_exceeds
  BY <1>16 DEF capture_exceeds, unchangedCheck, unchangedTrial, PassIsEarned,
     AttachSound
<1>17. CASE kill
  BY <1>17 DEF kill, removed, unchangedTrial, PassIsEarned, AttachSound
<1>18. CASE UNCHANGED vars
  BY <1>18 DEF vars, PassIsEarned
<1> QED
  BY <1>1, <1>2, <1>3, <1>4, <1>5, <1>6, <1>7, <1>8, <1>9, <1>10, <1>11,
     <1>12, <1>13, <1>14, <1>15, <1>16, <1>17, <1>18 DEF Next, Evaluate

\* Only attach sets the verdict, and no report is written after it.
LEMMA RecordsStep == IInv /\ [Next]_vars => RecordsAgree'
<1> SUFFICES ASSUME IInv, [Next]_vars PROVE RecordsAgree'
  OBVIOUS
<1> USE DEF IInv
<1>1. CASE materialize
  BY <1>1 DEF materialize, unchangedEval, RecordsAgree
<1>2. CASE agent
  BY <1>2 DEF agent, unchangedEval, RecordsAgree
<1>3. CASE export
  BY <1>3 DEF export, unchangedEval, RecordsAgree
<1>4. CASE validate
  BY <1>4 DEF validate, RecordsAgree, AttachSound
<1>5. CASE setup_fails
  BY <1>5 DEF setup_fails, removed, unchangedTrial, RecordsAgree
<1>6. CASE apply_change
  BY <1>6 DEF apply_change, unchangedTrial, RecordsAgree
<1>7. CASE apply_throws
  BY <1>7 DEF apply_throws, removed, unchangedTrial, RecordsAgree
<1>8. CASE applied
  BY <1>8 DEF applied, unchangedTrial, unchangedEval, RecordsAgree
<1>9. CASE spawn
  BY <1>9 DEF spawn, unchangedCheck, unchangedTrial, RecordsAgree
<1>10. CASE check_timeout
  BY <1>10 DEF check_timeout, unchangedCheck, unchangedTrial, RecordsAgree
<1>11. CASE check_close
  BY <1>11 DEF check_close, unchangedCheck, unchangedTrial, RecordsAgree
<1>12. CASE write_validation
  BY <1>12 DEF write_validation, removed, unchangedTrial, RecordsAgree,
     AttachSound
<1>13. CASE attach
  BY <1>13 DEF attach, unchangedTrial, unchangedEval, RecordsAgree,
     AttachSound
<1>14. CASE check_exits
  BY <1>14 DEF check_exits, unchangedCheck, unchangedTrial, RecordsAgree
<1>15. CASE descendants_exit
  BY <1>15 DEF descendants_exit, unchangedCheck, unchangedTrial, RecordsAgree
<1>16. CASE capture_exceeds
  BY <1>16 DEF capture_exceeds, unchangedCheck, unchangedTrial, RecordsAgree
<1>17. CASE kill
  BY <1>17 DEF kill, removed, unchangedTrial, RecordsAgree
<1>18. CASE UNCHANGED vars
  BY <1>18 DEF vars, RecordsAgree
<1> QED
  BY <1>1, <1>2, <1>3, <1>4, <1>5, <1>6, <1>7, <1>8, <1>9, <1>10, <1>11,
     <1>12, <1>13, <1>14, <1>15, <1>16, <1>17, <1>18 DEF Next, Evaluate

\* The parts together.
LEMMA IInvStep == IInv /\ [Next]_vars => IInv'
BY TypeStep, TreeStep, ExportStep, ReplayStep, DirsStep, ResultsStep, AttachStep,
   PassStep, RecordsStep DEF IInv

\* The inductive invariant: every state of a trial satisfies IInv.
THEOREM Invariance == Spec => []IInv
<1>1. Init => IInv
  BY InitHolds
<1>2. IInv /\ [Next]_vars => IInv'
  BY IInvStep
<1> QED
  BY <1>1, <1>2, PTL DEF Spec

\* Every variable keeps its type, for every task and number of checks.
THEOREM TypeCorrect == Spec => []TypeOK
<1>1. IInv => TypeOK
  BY DEF IInv
<1> QED
  BY <1>1, Invariance, PTL

\* The checks start on exactly the files the agent left.
THEOREM ChecksSeeTheWork == Spec => []AppliedIsWorkspace
<1>1. IInv => AppliedIsWorkspace
  <2> SUFFICES ASSUME IInv, Ready, NEW p \in Scanned
               PROVE  files[p] = workspace[p]
    BY DEF AppliedIsWorkspace
  <2>1. todo = {} /\ files[p] = IF p \in Changed \ todo THEN workspace[p] ELSE Fresh[p]
    BY DEF IInv, Replayed, Ready, Scanned
  <2> QED
    BY <2>1 DEF Changed
<1> QED
  BY <1>1, Invariance, PTL

\* The checks start on the fixture's bytes at every path closed to the agent.
THEOREM ChecksAreTrusted == Spec => []TrustedIsFresh
<1>1. IInv => TrustedIsFresh
  BY DEF IInv, Replayed, ExportSound, TrustedIsFresh, Ready, Violates
<1> QED
  BY <1>1, Invariance, PTL

\* An accepted submission can be applied, whatever the agent did to the tree,
\* as long as no directory of the fixture gave way to a file.
THEOREM AcceptedCanBeApplied == Spec => []AcceptedApplies
<1>1. IInv => AcceptedApplies
  <2> SUFFICES ASSUME IInv, DirectoriesStay, stage = "apply",
                      NEW p \in todo, NextChange(p), Blocked(p)
               PROVE  FALSE
    BY DEF AcceptedApplies
  <2> USE SubmissionAssumption, FreshFacts
  <2>1. /\ \A q \in Paths : files[q] = IF q \in Changed \ todo THEN workspace[q] ELSE Fresh[q]
        /\ \A r \in Changed \ todo, q \in todo : Position[r] < Position[q]
        /\ \A q \in Changed : ~ Violates(q)
        /\ p \in Changed
    BY DEF IInv, Replayed, ExportSound
  <2>2. p \in Scanned /\ p \in Paths /\ workspace[p] # Fresh[p]
    BY <2>1 DEF Changed, Scanned
  <2>3. \A q \in Changed : q \in DirsOf(Fresh) => workspace[q] = "absent"
    BY DEF DirectoriesStay
  <2>4. p \in Editable
    BY <2>1 DEF Violates
  <2>5. CASE p \in dirs
    <3>1. CASE p \in DirsOf(Fresh)
      <4>1. Fresh[p] # "absent"
        BY <2>1, <2>2, <2>3, <3>1
      <4>2. PICK r \in Paths : <<r, p>> \in Under /\ Fresh[r] # "absent"
        BY <3>1 DEF DirsOf
      <4> QED
        BY <2>2, <4>1, <4>2
    <3>2. CASE \E q \in Changed \ todo : <<q, p>> \in Under
      <4>1. PICK q \in Changed \ todo : <<q, p>> \in Under
        BY <3>2
      <4>2. q \in Paths /\ Position[p] < Position[q] /\ Position[q] < Position[p]
        BY <2>1, <2>2, <4>1 DEF Changed, Scanned
      <4> QED
        BY <2>2, <4>2
    <3> QED
      BY <2>5, <3>1, <3>2 DEF IInv, DirsSound
  <2>6. CASE \E q \in Ancestors(p) : files[q] # "absent"
    <3>1. PICK q \in Paths : <<p, q>> \in Under /\ files[q] # "absent"
      BY <2>6 DEF Ancestors
    <3>2. workspace[p] = "absent" \/ workspace[q] = "absent"
      BY <3>1 DEF IInv, WorkspaceIsTree
    <3>3. Fresh[p] = "absent" \/ Fresh[q] = "absent"
      BY <3>1
    <3>4. CASE q \in Changed \ todo
      <4>1. workspace[q] # "absent" /\ workspace[p] = "absent" /\ Fresh[p] # "absent"
        BY <2>1, <2>2, <3>1, <3>2, <3>4
      <4>2. q \in DirsOf(Fresh)
        BY <2>2, <3>1, <4>1 DEF DirsOf
      <4> QED
        BY <2>3, <3>4, <4>1, <4>2
    <3>5. CASE q \notin Changed \ todo
      <4>1. Fresh[q] # "absent" /\ Fresh[p] = "absent" /\ workspace[q] = "absent"
        BY <2>1, <2>2, <3>1, <3>2, <3>3, <3>5
      <4>2. q \in Changed
        BY <2>2, <3>1, <4>1 DEF Changed, Scanned
      <4>3. Position[p] <= Position[q] /\ Position[q] < Position[p]
        BY <2>2, <3>1, <3>5, <4>2 DEF NextChange
      <4> QED
        BY <2>2, <3>1, <4>3
    <3> QED
      BY <3>4, <3>5
  <2> QED
    BY <2>4, <2>5, <2>6 DEF Blocked
<1> QED
  BY <1>1, Invariance, PTL

\* An attached pass was proved by every check of the validation it comes from.
THEOREM PassesEarned == Spec => []PassIsEarned
<1>1. IInv => PassIsEarned
  BY DEF IInv
<1> QED
  BY <1>1, Invariance, PTL

\* validation.json agrees with run.json once a verdict is attached, through kills
\* of the evaluator between the two and repetitions that judge otherwise.
THEOREM RecordsConsistent == Spec => []RecordsAgree
<1>1. IInv => RecordsAgree
  BY DEF IInv
<1> QED
  BY <1>1, Invariance, PTL

-----------------------------------------------------------------------------
(* Why a validate command ends (ValidationEnds), up to the fairness of the      *)
(* steps: one of its steps is always possible, and only so many follow.         *)

Cut == child.up /\ (child.timedOut \/ child.exceeded) =>
         child.exit # "none" /\ ~ child.linger

\* The timer and the limit strike at the whole group, and nothing joins it later.
LEMMA CutStep == IInv /\ Cut /\ [Next]_vars => Cut'
<1> SUFFICES ASSUME IInv, Cut, [Next]_vars PROVE Cut'
  OBVIOUS
<1> USE DEF IInv, TypeOK, Child
<1>1. CASE materialize \/ agent \/ export \/ setup_fails \/ apply_change
           \/ apply_throws \/ applied \/ write_validation \/ attach
  BY <1>1 DEF materialize, agent, export, setup_fails, apply_change, apply_throws,
     applied, write_validation, attach, unchangedEval, Cut
<1>2. CASE validate \/ check_close \/ kill
  BY <1>2 DEF validate, check_close, kill, NoChild, Cut
<1>3. CASE spawn
  BY <1>3 DEF spawn, NoChild, Cut
<1>4. CASE check_timeout \/ capture_exceeds
  <2>1. Killed(child).exit # "none" /\ ~ Killed(child).linger /\ Killed(child) \in Child
    BY DEF Killed, Exits
  <2>2. child'.exit # "none" /\ ~ child'.linger
    BY <1>4, <2>1 DEF check_timeout, capture_exceeds
  <2> QED
    BY <2>2 DEF Cut
<1>5. CASE check_exits
  BY <1>5 DEF check_exits, Cut
<1>6. CASE descendants_exit
  BY <1>6 DEF descendants_exit, Cut
<1>7. CASE UNCHANGED vars
  BY <1>7 DEF vars, Cut
<1> QED
  BY <1>1, <1>2, <1>3, <1>4, <1>5, <1>6, <1>7 DEF Next, Evaluate

\* A check that was cut can close, whatever it and its descendants do.
THEOREM CutChecksClose == Spec => []CutCheckCloses
<1>1. Init => Cut
  BY DEF Init, NoChild, Cut
<1>2. IInv /\ Cut => CutCheckCloses
  BY DEF IInv, ResultsSound, Cut, CutCheckCloses
<1> QED
  BY <1>1, <1>2, CutStep, Invariance, PTL DEF Spec

Evaluating == {"apply", "check", "attach"}

\* While validateSubmission is at work it can go on by itself: there is a next change,
\* or none is left; no check is running, or its timer is armed, or it can close.
CanGoOn ==
  /\ stage = "apply" /\ todo # {} => \E p \in todo : NextChange(p)
  /\ stage = "check" /\ child.up /\ child.timedOut =>
       child.exit # "none" /\ ~ child.linger

\* Finitely many changes have a first one.
LEMMA FirstChange ==
  ASSUME TypeOK, todo # {} PROVE \E p \in todo : NextChange(p)
<1> DEFINE Ranks == {Position[p] : p \in todo}
           Less  == {r \in Nat \X Nat : r[1] < r[2]}
<1>1. Ranks \subseteq Nat /\ Ranks # {}
  BY SubmissionAssumption DEF TypeOK
<1>2. IsWellFoundedOn(Less, Nat)
  BY NatLessThanWellFounded DEF OpToRel
<1>3. PICK n \in Ranks : \A m \in Ranks : <<m, n>> \notin Less
  <2> HIDE DEF Ranks, Less
  <2> QED
    BY <1>1, <1>2, WFMin, Zenon
<1>4. PICK p \in todo : Position[p] = n
  BY <1>3
<1>5. \A m \in Ranks : n <= m
  <2> SUFFICES ASSUME NEW m \in Ranks, m < n PROVE FALSE
    BY <1>1
  <2>1. <<m, n>> \in Less
    BY <1>1
  <2> HIDE DEF Ranks, Less
  <2> QED
    BY <1>3, <2>1
<1>6. \A q \in todo : Position[p] <= Position[q]
  BY <1>4, <1>5
<1> QED
  BY <1>6 DEF NextChange

\* The evaluator never waits for a check that nothing will end.
THEOREM EvaluatorGoesOn == Spec => []CanGoOn
<1>1. IInv /\ CutCheckCloses => CanGoOn
  BY FirstChange DEF IInv, CutCheckCloses, CanGoOn
<1> QED
  BY <1>1, CutChecksClose, Invariance, PTL

\* What a check can still go through before it closes.
ChildRank(c) ==
  IF ~ c.up THEN 8
  ELSE (IF c.exit = "none" THEN 2 ELSE 0) + (IF c.linger THEN 1 ELSE 0)
         + (IF c.timedOut THEN 0 ELSE 1) + (IF c.exceeded THEN 0 ELSE 1)

\* What a validate command has before it: changes, checks, and its last writes.
Rank ==
  10 * (Checks - Len(results)) + ChildRank(child) + Cardinality(todo)
    + (IF stage = "apply" THEN 2 ELSE IF stage = "check" THEN 1 ELSE 0)

Nearer == stage \in Evaluating /\ stage' \in Evaluating => Rank \in Nat /\ Rank' < Rank

\* Every step uses up a change, an exit, a timer, a check or a stage.
LEMMA RankStep == IInv /\ [Next]_vars => [Nearer]_vars
<1> SUFFICES ASSUME IInv, Next, stage \in Evaluating, stage' \in Evaluating
             PROVE  Rank \in Nat /\ Rank' < Rank
  BY DEF Nearer
<1> USE SubmissionAssumption DEF Evaluating
<1>1. IsFiniteSet(todo) /\ Cardinality(todo) \in Nat
  BY FS_Subset, FS_CardinalityType DEF IInv, TypeOK
<1>2. Len(results) \in Nat /\ child \in Child
  BY DEF IInv, TypeOK
<1>3. \A c \in Child : ChildRank(c) \in 0..8 /\ (c.up => ChildRank(c) <= 5)
  BY DEF Child, ChildRank
<1>4. stage \in {"apply", "check"} /\ Len(results) <= Checks
  <2>1. ~ validate /\ ~ materialize /\ ~ agent /\ ~ export
    BY DEF validate, materialize, agent, export
  <2>2. CASE stage = "attach"
    BY <2>1, <2>2 DEF Next, Evaluate, setup_fails, apply_change, apply_throws, applied,
       spawn, check_timeout, check_close, write_validation, attach, check_exits,
       descendants_exit, capture_exceeds, kill, IInv, ResultsSound
  <2> QED
    BY <2>2 DEF IInv, ResultsSound
<1>5. Rank \in Nat /\ ChildRank(child) \in Nat /\ ChildRank(child) <= 8
  <2>1. ChildRank(child) \in 0..8
    BY <1>2, <1>3
  <2>2. Checks - Len(results) \in Nat
    BY <1>2, <1>4
  <2>3. 10 * (Checks - Len(results)) \in Nat
    BY <2>2
  <2>4. \A k \in Nat : \A r \in 0..8 : \A n \in Nat : \A w \in Nat : k + r + n + w \in Nat
    OBVIOUS
  <2>5. (IF stage = "apply" THEN 2 ELSE IF stage = "check" THEN 1 ELSE 0) \in Nat
    OBVIOUS
  <2>6. Rank \in Nat
    BY <1>1, <2>1, <2>3, <2>4, <2>5, Zenon DEF Rank
  <2> QED
    BY <2>1, <2>6
<1>0. /\ Rank' = 10 * (Checks - Len(results')) + ChildRank(child') + Cardinality(todo')
                   + (IF stage' = "apply" THEN 2 ELSE IF stage' = "check" THEN 1 ELSE 0)
      /\ child' = child => ChildRank(child') = ChildRank(child)
  BY DEF Rank, ChildRank
<1>6. CASE apply_change
  <2>1. PICK p \in todo : todo' = todo \ {p}
    BY <1>6 DEF apply_change
  <2>2. Cardinality(todo') = Cardinality(todo) - 1
    BY <1>1, <2>1, FS_RemoveElement
  <2>3. UNCHANGED <<stage, results, child>>
    BY <1>6 DEF apply_change
  <2> QED
    BY <1>0, <1>1, <1>2, <1>5, <2>2, <2>3 DEF Rank
<1>7. CASE applied
  <2>1. Cardinality(todo') = Cardinality(todo) /\ Len(results') = Len(results)
    BY <1>7 DEF applied, unchangedEval
  <2> QED
    BY <1>0, <1>1, <1>2, <1>5, <1>7, <2>1 DEF applied, unchangedEval, Rank
<1>8. CASE spawn
  <2>1. CASE child' = [NoChild EXCEPT !.up = TRUE] /\ UNCHANGED results
    <3>1. ChildRank(child) = 8 /\ ChildRank(child') = 4
      BY <1>8, <2>1 DEF spawn, ChildRank, NoChild
    <3> QED
      BY <1>0, <1>1, <1>2, <1>5, <1>8, <2>1, <3>1 DEF spawn, unchangedCheck, Rank
  <2>2. CASE results' = Append(results, "error") /\ UNCHANGED child
    <3>1. Len(results') = Len(results) + 1
      BY <2>2 DEF IInv, TypeOK
    <3> QED
      BY <1>0, <1>1, <1>2, <1>5, <1>8, <2>2, <3>1 DEF spawn, unchangedCheck, Rank
  <2> QED
    BY <1>8, <2>1, <2>2 DEF spawn
<1>9. CASE check_close
  <2>1. Len(results') = Len(results) + 1 /\ child' = NoChild
    BY <1>9 DEF check_close, IInv, TypeOK
  <2>2. ChildRank(NoChild) = 8
    BY DEF ChildRank, NoChild
  <2> QED
    BY <1>0, <1>1, <1>2, <1>5, <1>9, <2>1, <2>2 DEF check_close, unchangedCheck, Rank
<1>10. CASE write_validation
  <2>1. Cardinality(todo') = 0
    BY <1>10, FS_EmptySet DEF write_validation, removed
  <2> QED
    BY <1>0, <1>1, <1>2, <1>5, <1>10, <2>1 DEF write_validation, Rank
<1>11. CASE check_timeout \/ capture_exceeds \/ check_exits \/ descendants_exit
  <2>1. ChildRank(child') \in Nat /\ ChildRank(child') < ChildRank(child)
    <3>1. CASE check_timeout
      BY <1>2, <3>1 DEF check_timeout, Killed, Child, ChildRank
    <3>2. CASE capture_exceeds
      BY <1>2, <3>2 DEF capture_exceeds, Killed, Child, ChildRank
    <3>3. CASE check_exits
      BY <1>2, <3>3 DEF check_exits, Child, ChildRank
    <3>4. CASE descendants_exit
      BY <1>2, <3>4 DEF descendants_exit, Child, ChildRank
    <3> QED
      BY <1>11, <3>1, <3>2, <3>3, <3>4
  <2>2. UNCHANGED <<stage, todo, results>>
    BY <1>11 DEF check_timeout, capture_exceeds, check_exits, descendants_exit,
       unchangedCheck
  <2> QED
    BY <1>0, <1>1, <1>2, <1>5, <2>1, <2>2 DEF Rank
<1>12. CASE setup_fails \/ apply_throws \/ attach \/ kill
  BY <1>12 DEF setup_fails, apply_throws, attach, kill
<1>13. CASE materialize \/ agent \/ export \/ validate
  BY <1>13 DEF materialize, agent, export, validate
<1> QED
  BY <1>5, <1>6, <1>7, <1>8, <1>9, <1>10, <1>11, <1>12, <1>13 DEF Next, Evaluate

\* A validate command that is under way comes nearer to its end with every step, those
\* of its checks and of the timer included.
THEOREM ValidationAdvances == Spec => [][Nearer]_vars
<1> QED
  BY RankStep, Invariance, PTL DEF Spec
=============================================================================
