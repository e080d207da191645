------------------------- MODULE EvalSchedule_proofs -------------------------
(***************************************************************************)
(* The evaluation runner, for schedules of any length, any limit on the    *)
(* attempts, any costs and any budget: no trial with an outcome is run     *)
(* again, the runner implements Experiment, and bills stay within the cap. *)
(***************************************************************************)
EXTENDS EvalSchedule, SequenceTheorems, FiniteSetTheorems, WellFoundedInduction, TLAPS

\* The controller passes over the attempt and has the trial run again.
Passed(a) == a.events /\ ~Terminal(a) /\ ~Revalidable(a)

HasTerminal(t) == \E k \in 1..Len(attempts[t]) : Terminal(attempts[t][k])

\* Only the last attempt of a trial may have an outcome or await its validation.
Replaced ==
  \A t \in Trials : \A k \in 1..(Len(attempts[t]) - 1) : Passed(attempts[t][k])

\* A trial has attempts only after those before it have their outcomes.
InOrder ==
  \A t \in Trials : attempts[t] # <<>> => \A u \in 1..(t - 1) : HasTerminal(u)

\* What the controller found out still holds when the attempt directory is made.
Prepared ==
  pc = "prepare" =>
    /\ job.k = Len(attempts[job.t]) + 1
    /\ \A k \in 1..Len(attempts[job.t]) : Passed(attempts[job.t][k])
    /\ \A u \in 1..(job.t - 1) : HasTerminal(u)

Working == pc \in {"agent", "exited", "collecting", "inspect", "export", "validate"}

\* What the attempt in hand holds at each step.  It is the last of its trial.
Stage ==
  /\ Working => job.k = Len(attempts[job.t]) /\ Here.validation = "not-run"
  /\ pc \in {"agent", "exited", "collecting"} => Here.run = None
  /\ pc \in {"agent", "exited"} => ~Here.events
  /\ pc = "collecting" => Here.events = scratch.events
  /\ pc = "inspect" /\ Here.run # None => Here.events
  /\ pc \in {"export", "validate"} => Here.events /\ Here.run \in {"completed", "exhausted"}
  /\ scratch.run # None => scratch.events

Complete == result = "done" => pc = "off" /\ \A t \in Trials : HasTerminal(t)

IInv == TypeOK /\ Replaced /\ InOrder /\ Prepared /\ Stage /\ Complete

-----------------------------------------------------------------------------
(* The operators. *)

LEMMA MinIs ==
  ASSUME NEW S \in SUBSET Nat, S # {}
  PROVE  Min(S) \in S /\ \A y \in S : Min(S) <= y
<1> DEFINE R == {ss \in Nat \X Nat : ss[1] < ss[2]}
<1>1. IsWellFoundedOn(R, Nat)
  BY NatLessThanWellFounded DEF OpToRel
<1>2. PICK x \in S : \A y \in S : <<y, x>> \notin R
  <2> HIDE DEF R
  <2> QED
    BY <1>1, WFMin, Zenon
<1>3. \A m, n \in Nat : m < n => <<m, n>> \in R
  OBVIOUS
<1>4. \A y \in S : x <= y
  <2> TAKE y \in S
  <2>1. x \in Nat /\ y \in Nat
    OBVIOUS
  <2>2. ~(y < x)
    <3> HIDE DEF R
    <3> QED
      BY <1>2, <1>3, <2>1, Zenon
  <2> QED
    BY <2>1, <2>2
<1> QED
  BY <1>4 DEF Min

\* A capability outcome that can be read is one the controller keeps.
LEMMA DecidedIsTerminal ==
  ASSUME NEW a \in Attempt, a.events, Decided(a)
  PROVE  Terminal(a)
<1>1. a.run \in {"exhausted", "completed"} /\ a.run # None
  BY NoneAssumption DEF Decided, Status
<1> QED
  BY <1>1 DEF Decided, Terminal, classifyTrialOutcome

\* Where the attempt in hand is replaced by a, all else is as before.
LEMMA Updates ==
  ASSUME TypeOK, NEW a \in Attempt, Update(a), job.k \in 1..Len(attempts[job.t])
  PROVE  /\ attempts' \in [Trials -> Seq(Attempt)]
         /\ \A t \in Trials : Len(attempts'[t]) = Len(attempts[t])
         /\ \A t \in Trials : \A k \in 1..Len(attempts[t]) :
              attempts'[t][k] = IF t = job.t /\ k = job.k THEN a ELSE attempts[t][k]
<1>1. job.t \in Trials /\ attempts[job.t] \in Seq(Attempt) /\ attempts \in [Trials -> Seq(Attempt)]
  BY DEF TypeOK
<1> DEFINE s == [attempts[job.t] EXCEPT ![job.k] = a]
<1>2. /\ s \in Seq(Attempt) /\ Len(s) = Len(attempts[job.t])
      /\ \A k \in 1..Len(attempts[job.t]) : s[k] = IF k = job.k THEN a ELSE attempts[job.t][k]
  BY <1>1
<1>3. attempts' = [attempts EXCEPT ![job.t] = s]
  BY <1>1 DEF Update
<1> HIDE DEF s
<1> QED
  BY <1>1, <1>2, <1>3

LEMMA HereIs ==
  ASSUME TypeOK, Stage, Working
  PROVE  job.t \in Trials /\ job.k \in 1..Len(attempts[job.t]) /\ Here \in Attempt
<1>1. job.t \in Trials /\ job.k \in 1..MaxAttempts /\ attempts[job.t] \in Seq(Attempt)
  BY DEF TypeOK
<1>2. job.k \in 1..Len(attempts[job.t])
  BY <1>1, ScheduleAssumption DEF Stage
<1> QED
  BY <1>1, <1>2 DEF Here

\* A step that changes the attempt in hand keeps the outcomes, if it keeps that of
\* this attempt.
LEMMA UpdateKeeps ==
  ASSUME IInv, Working, NEW a \in Attempt, Update(a), Terminal(Here) => Terminal(a)
  PROVE  /\ attempts' \in [Trials -> Seq(Attempt)]
         /\ \A t \in Trials : Len(attempts'[t]) <= MaxAttempts
         /\ Len(attempts'[job.t]) = Len(attempts[job.t]) /\ attempts'[job.t][job.k] = a
         /\ Replaced' /\ InOrder'
         /\ \A t \in Trials : HasTerminal(t) => HasTerminal(t)'
<1>1. job.t \in Trials /\ job.k \in 1..Len(attempts[job.t]) /\ job.k = Len(attempts[job.t])
  BY HereIs DEF IInv, Stage
<1>2. /\ attempts' \in [Trials -> Seq(Attempt)]
      /\ \A t \in Trials : Len(attempts'[t]) = Len(attempts[t])
      /\ \A t \in Trials : \A k \in 1..Len(attempts[t]) :
           attempts'[t][k] = IF t = job.t /\ k = job.k THEN a ELSE attempts[t][k]
  BY <1>1, Updates DEF IInv
<1>3. \A t \in Trials : attempts[t] \in Seq(Attempt) /\ Len(attempts[t]) \in Nat
                        /\ attempts'[t] \in Seq(Attempt)
  BY <1>2 DEF IInv, TypeOK
<1>4. ASSUME NEW t \in Trials, HasTerminal(t) PROVE HasTerminal(t)'
  <2>1. PICK k \in 1..Len(attempts[t]) : Terminal(attempts[t][k])
    BY <1>4 DEF HasTerminal
  <2>2. Terminal(attempts'[t][k])
    BY <1>2, <2>1 DEF Here
  <2> QED
    BY <1>2, <2>2 DEF HasTerminal
<1>5. Replaced'
  <2> SUFFICES ASSUME NEW t \in Trials, NEW k \in 1..(Len(attempts'[t]) - 1)
               PROVE  Passed(attempts'[t][k])
    BY DEF Replaced
  <2>1. k \in 1..Len(attempts[t]) /\ k # Len(attempts[t]) /\ k \in 1..(Len(attempts[t]) - 1)
    BY <1>2, <1>3
  <2>2. attempts'[t][k] = attempts[t][k]
    BY <1>1, <1>2, <2>1
  <2> QED
    BY <2>1, <2>2 DEF IInv, Replaced
<1>6. InOrder'
  <2> SUFFICES ASSUME NEW t \in Trials, attempts'[t] # <<>>, NEW u \in 1..(t - 1)
               PROVE  HasTerminal(u)'
    BY DEF InOrder
  <2>1. attempts[t] # <<>>
    BY <1>2, <1>3
  <2>2. u \in Trials
    BY ScheduleAssumption DEF Trials
  <2> QED
    BY <1>4, <2>1, <2>2 DEF IInv, InOrder
<1>7. \A t \in Trials : Len(attempts'[t]) <= MaxAttempts
  BY <1>2 DEF IInv, TypeOK
<1> QED
  BY <1>1, <1>2, <1>4, <1>5, <1>6, <1>7

LEMMA SameAttempts ==
  ASSUME IInv, attempts' = attempts
  PROVE  /\ Replaced' /\ InOrder' /\ \A t \in Trials : HasTerminal(t)' <=> HasTerminal(t)
         /\ attempts' \in [Trials -> Seq(Attempt)]
         /\ \A t \in Trials : Len(attempts'[t]) <= MaxAttempts
BY DEF IInv, Replaced, InOrder, HasTerminal, TypeOK

LEMMA EndsKeeps ==
  ASSUME NEW r \in {"stopped", "done"}, Ends(r)
  PROVE  /\ Prepared' /\ Stage' /\ pc' = "off" /\ result' = r
         /\ pc' \in Steps \cup {"off"} /\ job' \in [t : Trials, k : 1..MaxAttempts]
         /\ scratch' \in [events : BOOLEAN, run : Status \cup {None}, cost : Cost]
         /\ result' \in {"none", "stopped", "done"}
<1>1. pc' = "off" /\ result' = r /\ job' = NoJob /\ scratch' = NoEvidence
  BY DEF Ends
<1>2. NoJob \in [t : Trials, k : 1..MaxAttempts]
  BY ScheduleAssumption DEF NoJob, Trials
<1>3. NoEvidence \in [events : BOOLEAN, run : Status \cup {None}, cost : Cost]
      /\ NoEvidence.run = None
  BY DEF NoEvidence, Cost
<1> QED
  BY <1>1, <1>2, <1>3 DEF Prepared, Stage, Working

\* An invocation that stops leaves the attempts as they are.
LEMMA StopKeeps == ASSUME IInv, Ends("stopped"), attempts' = attempts PROVE IInv'
BY SameAttempts, EndsKeeps DEF IInv, TypeOK, Complete

\* The types of the attempts are all that a step need show of TypeOK.
LEMMA TypeParts ==
  ASSUME attempts' \in [Trials -> Seq(Attempt)],
         \A t \in Trials : Len(attempts'[t]) <= MaxAttempts,
         pc' \in Steps \cup {"off"}, job' \in [t : Trials, k : 1..MaxAttempts],
         scratch' \in [events : BOOLEAN, run : Status \cup {None}, cost : Cost],
         result' \in {"none", "stopped", "done"}
  PROVE  TypeOK'
BY DEF TypeOK

-----------------------------------------------------------------------------
(* The controller. *)

\* A trial the controller has done with has an outcome; the first it has not done
\* with is the next in order.
LEMMA TerminalAction ==
  ASSUME TypeOK, NEW t \in Trials, TrialAction(t) = "terminal"
  PROVE  HasTerminal(t)
<1>1. Stops(t) # {}
  BY DEF TrialAction
<1>2. attempts[t] \in Seq(Attempt) /\ DOMAIN attempts[t] = 1..Len(attempts[t])
  BY DEF TypeOK
<1>3. Stops(t) \in SUBSET Nat /\ Stops(t) \subseteq 1..Len(attempts[t])
  BY <1>2 DEF Stops
<1>4. Min(Stops(t)) \in 1..Len(attempts[t])
  BY <1>1, <1>3, MinIs
<1>5. Terminal(attempts[t][Min(Stops(t))])
  <2> HIDE DEF Terminal
  <2> QED
    BY <1>1 DEF TrialAction
<1> QED
  BY <1>4, <1>5 DEF HasTerminal

LEMMA FirstUndecided ==
  ASSUME TypeOK, Undecided # {}
  PROVE  /\ Min(Undecided) \in Trials
         /\ \A u \in 1..(Min(Undecided) - 1) : HasTerminal(u)
<1>1. Undecided \in SUBSET Nat /\ Undecided \subseteq Trials
  BY ScheduleAssumption DEF Undecided, Trials
<1>2. Min(Undecided) \in Undecided /\ \A y \in Undecided : Min(Undecided) <= y
  BY <1>1, MinIs
<1>3. ASSUME NEW u \in 1..(Min(Undecided) - 1) PROVE HasTerminal(u)
  <2>0. PICK m \in Trials : m = Min(Undecided)
    BY <1>1, <1>2
  <2>1. u \in Trials /\ u \in Nat /\ u < m
    BY <1>3, <2>0, ScheduleAssumption DEF Trials
  <2>2. u \notin Undecided
    BY <1>2, <2>0, <2>1, ScheduleAssumption DEF Trials
  <2> QED
    BY <2>1, <2>2, TerminalAction DEF Undecided
<1> QED
  BY <1>1, <1>2, <1>3

LEMMA InvokeKeeps == ASSUME IInv, Invoke PROVE IInv'
<1>1. attempts' = attempts /\ job' = job /\ scratch' = scratch /\ pc' = "next" /\ result' = "none"
  BY DEF Invoke
<1> QED
  BY <1>1, SameAttempts DEF IInv, TypeOK, Steps, Prepared, Stage, Working, Complete

LEMMA NextActionIs ==
  ASSUME nextEvaluationAction \in {"done", "run", "validate"}
  PROVE  /\ nextEvaluationAction = "done" <=> Undecided = {}
         /\ nextEvaluationAction # "done" => nextEvaluationAction = TrialAction(Min(Undecided))
<1>1. nextEvaluationAction = IF Undecided = {} THEN "done" ELSE TrialAction(Min(Undecided))
  BY DEF nextEvaluationAction
<1>2. \A t : TrialAction(t) # "done"
  BY DEF TrialAction
<1> QED
  BY <1>1, <1>2

LEMMA nextKeeps == ASSUME IInv, next PROVE IInv'
<1>0. pc = "next" /\ attempts' = attempts
  BY DEF next
<1>1. CASE nextEvaluationAction \in {"unreadable", "unknown", "limit", "budget"} /\ Ends("stopped")
  BY <1>0, <1>1, StopKeeps
<1>2. CASE nextEvaluationAction = "done" /\ Ends("done")
  <2>1. Undecided = {}
    BY <1>2, NextActionIs
  <2>2. \A t \in Trials : HasTerminal(t)
    BY <2>1, TerminalAction DEF IInv, Undecided
  <2> QED
    BY <1>0, <1>2, <2>2, SameAttempts, EndsKeeps, TypeParts DEF IInv, Complete
<1>3. CASE /\ nextEvaluationAction = "run" /\ pc' = "prepare"
           /\ job' = [t |-> Min(Undecided), k |-> Len(attempts[Min(Undecided)]) + 1]
           /\ UNCHANGED <<scratch, result>>
  <2> DEFINE t == Min(Undecided)
  <2>1. Undecided # {} /\ TrialAction(t) = "run"
    BY <1>3, NextActionIs
  <2>2. t \in Trials /\ \A u \in 1..(t - 1) : HasTerminal(u)
    BY <2>1, FirstUndecided DEF IInv
  <2>3. Stops(t) = {} /\ ~AttemptsUsedUp(t)
    BY <2>1 DEF TrialAction
  <2>4. attempts[t] \in Seq(Attempt) /\ Len(attempts[t]) \in Nat /\ DOMAIN attempts[t] = 1..Len(attempts[t])
    BY <2>2 DEF IInv, TypeOK
  <2>5. Len(attempts[t]) + 1 \in 1..MaxAttempts
    BY <2>3, <2>4, ScheduleAssumption DEF AttemptsUsedUp
  <2>6. \A k \in 1..Len(attempts[t]) : Passed(attempts[t][k])
    BY <2>3, <2>4 DEF Stops, Passed
  <2>7. job' \in [t : Trials, k : 1..MaxAttempts] /\ job'.t = t /\ job'.k = Len(attempts[t]) + 1
    BY <1>3, <2>2, <2>5
  <2> HIDE DEF t
  <2>8. Prepared'
    BY <1>0, <2>2, <2>6, <2>7 DEF Prepared, HasTerminal
  <2>9. Stage' /\ Complete'
    BY <1>0, <1>3 DEF IInv, Stage, Working, Complete
  <2> QED
    BY <1>0, <1>3, <2>7, <2>8, <2>9, SameAttempts, TypeParts DEF IInv, TypeOK, Steps
<1>4. CASE /\ nextEvaluationAction = "validate" /\ pc' = "validate"
           /\ job' = [t |-> Min(Undecided), k |-> Min(Stops(Min(Undecided)))]
           /\ UNCHANGED <<scratch, result>>
  <2> DEFINE t == Min(Undecided)
             k == Min(Stops(t))
  <2>1. Undecided # {} /\ TrialAction(t) = "validate"
    BY <1>4, NextActionIs
  <2>2. t \in Trials
    BY <2>1, FirstUndecided DEF IInv
  <2>3. attempts[t] \in Seq(Attempt) /\ Len(attempts[t]) \in Nat /\ DOMAIN attempts[t] = 1..Len(attempts[t])
        /\ Len(attempts[t]) <= MaxAttempts
    BY <2>2 DEF IInv, TypeOK
  <2>4. Stops(t) # {} /\ attempts[t][k].events /\ ~Terminal(attempts[t][k])
    BY <2>1 DEF TrialAction
  <2>5. Stops(t) \in SUBSET Nat
    BY <2>3 DEF Stops
  <2>6. k \in Stops(t)
    BY <2>4, <2>5, MinIs
  <2>7. k \in 1..Len(attempts[t]) /\ Revalidable(attempts[t][k])
    BY <2>3, <2>4, <2>6 DEF Stops
  <2>8. k = Len(attempts[t])
    BY <2>2, <2>3, <2>7 DEF IInv, Replaced, Passed
  <2>9. job' \in [t : Trials, k : 1..MaxAttempts] /\ job'.t = t /\ job'.k = k
    BY <1>4, <2>2, <2>3, <2>7, ScheduleAssumption
  <2> HIDE DEF t, k
  <2>10. Stage'
    BY <1>0, <1>4, <2>7, <2>8, <2>9 DEF IInv, Stage, Working, Here, Revalidable
  <2>11. Prepared' /\ Complete'
    BY <1>0, <1>4 DEF IInv, Prepared, Complete
  <2> QED
    BY <1>0, <1>4, <2>9, <2>10, <2>11, SameAttempts, TypeParts DEF IInv, TypeOK, Steps
<1> QED
  BY <1>1, <1>2, <1>3, <1>4 DEF next

-----------------------------------------------------------------------------
(* The attempt. *)

LEMMA prepareKeeps == ASSUME IInv, prepare PROVE IInv'
<1> DEFINE t == job.t
<1>1. /\ pc = "prepare" /\ pc' = "agent" /\ scratch' = NoEvidence /\ UNCHANGED <<job, result>>
      /\ attempts' = [attempts EXCEPT ![t] = Append(attempts[t], EmptyAttempt)]
  BY DEF prepare
<1>2. /\ t \in Trials /\ job.k \in 1..MaxAttempts /\ attempts[t] \in Seq(Attempt)
      /\ job.k = Len(attempts[t]) + 1 /\ attempts \in [Trials -> Seq(Attempt)]
      /\ \A k \in 1..Len(attempts[t]) : Passed(attempts[t][k])
      /\ \A u \in 1..(t - 1) : HasTerminal(u)
  BY <1>1 DEF IInv, TypeOK, Prepared
<1>3. EmptyAttempt \in Attempt
  BY DEF EmptyAttempt, Attempt, Cost
<1> HIDE DEF t
<1> DEFINE s == Append(attempts[t], EmptyAttempt)
<1>4. /\ s \in Seq(Attempt) /\ Len(s) = Len(attempts[t]) + 1 /\ Len(attempts[t]) \in Nat
      /\ s[Len(s)] = EmptyAttempt /\ \A k \in 1..Len(attempts[t]) : s[k] = attempts[t][k]
  BY <1>2, <1>3, AppendProperties
<1>5. /\ attempts' \in [Trials -> Seq(Attempt)] /\ attempts'[t] = s
      /\ \A u \in Trials \ {t} : attempts'[u] = attempts[u]
  BY <1>1, <1>2, <1>4
<1> HIDE DEF s
<1>6. \A u \in Trials : Len(attempts'[u]) <= MaxAttempts
  <2>1. Len(attempts'[t]) <= MaxAttempts
    BY <1>2, <1>4, <1>5, ScheduleAssumption
  <2>2. \A u \in Trials \ {t} : Len(attempts'[u]) <= MaxAttempts
    BY <1>5 DEF IInv, TypeOK
  <2> QED
    BY <2>1, <2>2
<1>7. ASSUME NEW u \in Trials, HasTerminal(u) PROVE HasTerminal(u)'
  <2>1. PICK k \in 1..Len(attempts[u]) : Terminal(attempts[u][k])
    BY <1>7 DEF HasTerminal
  <2>2. k \in 1..Len(attempts'[u]) /\ attempts'[u][k] = attempts[u][k]
    BY <1>4, <1>5
  <2> QED
    BY <2>1, <2>2 DEF HasTerminal
<1>8. Replaced'
  <2> SUFFICES ASSUME NEW u \in Trials, NEW k \in 1..(Len(attempts'[u]) - 1)
               PROVE  Passed(attempts'[u][k])
    BY DEF Replaced
  <2>1. CASE u = t
    <3>1. k \in 1..Len(attempts[t])
      BY <1>4, <1>5, <2>1
    <3> QED
      BY <1>2, <1>4, <1>5, <2>1, <3>1
  <2>2. CASE u # t
    BY <1>5, <2>2 DEF IInv, Replaced
  <2> QED
    BY <2>1, <2>2
<1>9. InOrder'
  <2> SUFFICES ASSUME NEW u \in Trials, attempts'[u] # <<>>, NEW w \in 1..(u - 1)
               PROVE  HasTerminal(w)'
    BY DEF InOrder
  <2>1. w \in Trials
    BY ScheduleAssumption DEF Trials
  <2>2. HasTerminal(w)
    <3>1. CASE u = t
      BY <1>2, <3>1
    <3>2. CASE u # t
      BY <1>5, <3>2 DEF IInv, InOrder
    <3> QED
      BY <3>1, <3>2
  <2> QED
    BY <1>7, <2>1, <2>2
<1>10. job'.k = Len(attempts'[job'.t]) /\ attempts'[job'.t][job'.k] = EmptyAttempt
  BY <1>1, <1>2, <1>4, <1>5 DEF t
<1>11. Stage'
  BY <1>1, <1>10 DEF Stage, Working, Here, EmptyAttempt, NoEvidence
<1>12. Prepared' /\ Complete'
  BY <1>1 DEF IInv, Prepared, Complete
<1>13. TypeOK'
  <2>1. scratch' \in [events : BOOLEAN, run : Status \cup {None}, cost : Cost]
    BY <1>1 DEF NoEvidence, Cost
  <2> QED
    BY <1>1, <1>5, <1>6, <2>1, TypeParts DEF IInv, TypeOK, Steps
<1> QED
  BY <1>8, <1>9, <1>11, <1>12, <1>13 DEF IInv

\* A step at work on the attempt in hand: what it leaves there fits the next step.
LEMMA WorkKeeps ==
  ASSUME IInv, Working, NEW a \in Attempt, Update(a), Terminal(Here) => Terminal(a),
         UNCHANGED <<job, result>>, pc' \in Steps, pc' # "prepare",
         scratch' \in [events : BOOLEAN, run : Status \cup {None}, cost : Cost],
         scratch'.run # None => scratch'.events,
         pc' # "next" => a.validation = "not-run",
         pc' \in {"agent", "exited", "collecting"} => a.run = None,
         pc' \in {"agent", "exited"} => ~a.events,
         pc' = "collecting" => a.events = scratch'.events,
         pc' = "inspect" /\ a.run # None => a.events,
         pc' \in {"export", "validate"} => a.events /\ a.run \in {"completed", "exhausted"}
  PROVE  IInv'
<1>1. /\ attempts' \in [Trials -> Seq(Attempt)]
      /\ \A t \in Trials : Len(attempts'[t]) <= MaxAttempts
      /\ Len(attempts'[job.t]) = Len(attempts[job.t]) /\ attempts'[job.t][job.k] = a
      /\ Replaced' /\ InOrder'
  BY UpdateKeeps
<1>2. job.k = Len(attempts[job.t])
  BY DEF IInv, Stage
<1>3. Here' = a
  BY <1>1 DEF Here
<1>4. Stage'
  BY <1>1, <1>2, <1>3 DEF Stage, Working
<1>5. Prepared' /\ Complete'
  BY DEF IInv, Prepared, Complete, Working
<1> QED
  BY <1>1, <1>4, <1>5, TypeParts DEF IInv, TypeOK

\* An invocation that ends leaves behind the attempt in hand.
LEMMA LeaveKeeps ==
  ASSUME IInv, Working, NEW a \in Attempt, Update(a), Terminal(Here) => Terminal(a),
         Ends("stopped")
  PROVE  IInv'
BY UpdateKeeps, EndsKeeps, TypeParts DEF IInv, Complete

\* What is collected of the agent's evidence.
LEMMA CollectedIs ==
  ASSUME IInv, Working, NEW copied \in {"none", "events", "all"}
  PROVE  LET a == Collected(Here, copied) IN
         /\ a \in Attempt /\ a.validation = "not-run"
         /\ a.events <=> Here.events \/ (copied # "none" /\ scratch.events)
         /\ a.run = IF copied = "all" THEN scratch.run ELSE Here.run
<1>1. Here \in Attempt /\ Here.validation = "not-run"
  BY HereIs DEF IInv, Stage
<1>2. scratch \in [events : BOOLEAN, run : Status \cup {None}, cost : Cost]
  BY DEF IInv, TypeOK
<1> QED
  BY <1>1, <1>2 DEF Collected, Attempt

LEMMA AgentKeeps ==
  ASSUME IInv, \/ AgentStep \/ AgentExits \/ collect_events \/ collect_run
  PROVE  IInv'
<1> USE DEF Steps
<1>0. scratch \in [events : BOOLEAN, run : Status \cup {None}, cost : Cost]
      /\ (scratch.run # None => scratch.events)
  BY DEF IInv, TypeOK, Stage
<1>1. CASE AgentStep
  <2>1. pc = "agent"
    BY <1>1 DEF AgentStep
  <2>2. /\ Here \in Attempt /\ ~Here.events /\ Here.run = None /\ Here.validation = "not-run"
        /\ job.t \in Trials /\ Working
    BY <2>1, HereIs DEF IInv, Stage, Working
  <2>3. CASE \E billed \in 0..Bound[job.t] : AgentRecords(billed)
    <3>1. PICK billed \in 0..Bound[job.t] : AgentRecords(billed)
      BY <2>3
    <3>2. billed \in Nat
      BY <2>2, <3>1, ScheduleAssumption
    <3> DEFINE a == [Here EXCEPT !.billed = billed]
    <3>3. a \in Attempt /\ ~a.events /\ a.run = None /\ a.validation = "not-run"
      BY <2>2, <3>2 DEF Attempt
    <3>4. ~Terminal(Here)
      BY <2>2 DEF Terminal
    <3>5. /\ scratch' \in [events : BOOLEAN, run : Status \cup {None}, cost : Cost]
          /\ scratch'.events
      BY <1>0, <3>1 DEF AgentRecords
    <3>6. Update(a) /\ pc' = "agent" /\ UNCHANGED <<job, result>>
      BY <3>1, <2>1 DEF AgentRecords
    <3> HIDE DEF a
    <3> QED
      BY <2>2, <3>3, <3>4, <3>5, <3>6, WorkKeeps
  <2>4. CASE \E status \in Status, cost \in Reported : AgentFinalizes(status, cost)
    <3>1. PICK status \in Status, cost \in Reported : AgentFinalizes(status, cost)
      BY <2>4
    <3>2. /\ scratch' \in [events : BOOLEAN, run : Status \cup {None}, cost : Cost]
          /\ scratch'.events /\ pc' = pc /\ UNCHANGED <<attempts, job, result>>
      BY <1>0, <3>1 DEF AgentFinalizes, Reported
    <3>3. TypeOK'
      BY <3>2 DEF IInv, TypeOK
    <3>4. Stage' /\ Prepared' /\ Complete'
      BY <2>1, <3>2 DEF IInv, Stage, Working, Here, Prepared, Complete
    <3> QED
      BY <3>2, <3>3, <3>4, SameAttempts DEF IInv
  <2> QED
    BY <1>1, <2>3, <2>4 DEF AgentStep
<1>2. CASE AgentExits
  <2>1. pc = "agent" /\ pc' = "exited" /\ UNCHANGED <<attempts, job, scratch, result>>
    BY <1>2 DEF AgentExits
  <2>2. TypeOK'
    BY <2>1 DEF IInv, TypeOK
  <2>3. Stage' /\ Prepared' /\ Complete'
    BY <2>1 DEF IInv, Stage, Working, Here, Prepared, Complete
  <2> QED
    BY <2>1, <2>2, <2>3, SameAttempts DEF IInv
<1>3. CASE collect_events
  <2> DEFINE a == Collected(Here, "events")
  <2>1. pc = "exited" /\ pc' = "collecting" /\ Update(a) /\ UNCHANGED <<job, scratch, result>>
    BY <1>3 DEF collect_events
  <2>2. Working /\ Here.run = None /\ ~Here.events /\ ~Terminal(Here)
    BY <2>1 DEF IInv, Stage, Working, Terminal
  <2>3. a \in Attempt /\ a.validation = "not-run" /\ (a.events <=> scratch.events) /\ a.run = None
    BY <2>2, CollectedIs
  <2>4. a.events = scratch.events
    BY <1>0, <2>3 DEF Attempt
  <2> HIDE DEF a
  <2> QED
    BY <1>0, <2>1, <2>2, <2>3, <2>4, WorkKeeps
<1>4. CASE collect_run
  <2> DEFINE a == Collected(Here, "all")
  <2>1. pc = "collecting" /\ pc' = "inspect" /\ Update(a) /\ UNCHANGED <<job, result>>
        /\ scratch' = NoEvidence
    BY <1>4 DEF collect_run
  <2>2. Working /\ Here.run = None /\ Here.events = scratch.events /\ ~Terminal(Here)
    BY <2>1 DEF IInv, Stage, Working, Terminal
  <2>3. a \in Attempt /\ a.validation = "not-run" /\ (a.run # None => a.events)
    BY <1>0, <2>2, CollectedIs
  <2>4. scratch' \in [events : BOOLEAN, run : Status \cup {None}, cost : Cost]
        /\ scratch'.run = None
    BY <2>1 DEF NoEvidence, Cost
  <2> HIDE DEF a
  <2> QED
    BY <2>1, <2>2, <2>3, <2>4, WorkKeeps
<1> QED
  BY <1>1, <1>2, <1>3, <1>4

\* A validation changes no outcome that the attempt has already.
LEMMA ValidatedIs ==
  ASSUME IInv, pc = "validate", NEW status \in {"pass", "fail", "error"}
  PROVE  LET a == [Here EXCEPT !.validation = status] IN
         a \in Attempt /\ (Terminal(Here) => Terminal(a))
<1>1. Here \in Attempt /\ Here.validation = "not-run" /\ Here.run \in {"completed", "exhausted"}
  BY HereIs DEF IInv, Stage, Working
<1> DEFINE a == [Here EXCEPT !.validation = status]
<1>2. a \in Attempt /\ a.run = Here.run /\ a.events = Here.events
  BY <1>1 DEF Attempt
<1>3. ASSUME Terminal(Here) PROVE Terminal(a)
  <2>1. Here.run # "completed" /\ Here.events /\ Here.run # None
    BY <1>1, <1>3 DEF Terminal, classifyTrialOutcome
  <2>2. a.run = "exhausted" /\ a.events /\ a.run # None
    BY <1>1, <1>2, <2>1
  <2> HIDE DEF a
  <2> QED
    BY <2>2 DEF Terminal, classifyTrialOutcome
<1> QED
  BY <1>2, <1>3

LEMMA ValidateKeeps ==
  ASSUME IInv, \/ inspect \/ export \/ ValidateEnds \/ validate_throws
  PROVE  IInv'
<1> USE DEF Steps
<1>0. /\ scratch \in [events : BOOLEAN, run : Status \cup {None}, cost : Cost]
      /\ scratch.run # None => scratch.events
  BY DEF IInv, TypeOK, Stage
<1>1. CASE inspect
  <2>1. pc = "inspect" /\ attempts' = attempts
    BY <1>1 DEF inspect
  <2>2. CASE Ends("stopped")
    BY <2>1, <2>2, StopKeeps
  <2>3. CASE ~Ends("stopped")
    <3>1. Here.run \in {"completed", "exhausted"} /\ pc' = "export" /\ UNCHANGED <<job, scratch, result>>
      BY <1>1, <2>3 DEF inspect
    <3>2. Here.run # None
      BY <3>1, NoneAssumption DEF Status
    <3>3. Stage' /\ Prepared' /\ Complete'
      BY <2>1, <3>1, <3>2 DEF IInv, Stage, Working, Here, Prepared, Complete
    <3>4. TypeOK'
      BY <2>1, <3>1 DEF IInv, TypeOK
    <3> QED
      BY <2>1, <3>3, <3>4, SameAttempts DEF IInv
  <2> QED
    BY <2>2, <2>3
<1>2. CASE export
  <2> DEFINE a == [Here EXCEPT !.submission = TRUE]
  <2>1. pc = "export" /\ pc' = "validate" /\ Update(a) /\ UNCHANGED <<job, scratch, result>>
    BY <1>2 DEF export
  <2>2. /\ Here \in Attempt /\ Here.events /\ Here.run \in {"completed", "exhausted"} /\ Working
        /\ Here.validation = "not-run"
    BY <2>1, HereIs DEF IInv, Stage, Working
  <2>3. /\ a \in Attempt /\ a.events = Here.events /\ a.run = Here.run
        /\ a.validation = Here.validation
    BY <2>2 DEF Attempt
  <2> HIDE DEF a
  <2>4. Terminal(Here) => Terminal(a)
    BY <2>3 DEF Terminal, classifyTrialOutcome
  <2> QED
    BY <1>0, <2>1, <2>2, <2>3, <2>4, WorkKeeps
<1>3. CASE ValidateEnds
  <2>1. PICK status \in {"pass", "fail", "error"} : validate(status)
    BY <1>3 DEF ValidateEnds
  <2> DEFINE a == [Here EXCEPT !.validation = status]
  <2>2. pc = "validate" /\ Update(a) /\ Working
    BY <2>1 DEF validate, Working
  <2>3. a \in Attempt /\ (Terminal(Here) => Terminal(a))
    BY <2>2, ValidatedIs
  <2> HIDE DEF a
  <2>4. CASE Ends("stopped")
    BY <2>2, <2>3, <2>4, LeaveKeeps
  <2>5. CASE ~Ends("stopped")
    <3>1. pc' = "next" /\ UNCHANGED <<job, scratch, result>>
      BY <2>1, <2>5 DEF validate
    <3> QED
      BY <1>0, <2>2, <2>3, <3>1, WorkKeeps
  <2> QED
    BY <2>4, <2>5
<1>4. CASE validate_throws
  <2>1. pc = "validate" /\ pc' = "next" /\ UNCHANGED <<attempts, job, scratch, result>>
    BY <1>4 DEF validate_throws
  <2>2. Stage' /\ Prepared' /\ Complete' /\ TypeOK'
    BY <2>1 DEF IInv, Stage, Working, Prepared, Complete, TypeOK
  <2> QED
    BY <2>1, <2>2, SameAttempts DEF IInv
<1> QED
  BY <1>1, <1>2, <1>3, <1>4

LEMMA HaltKeeps ==
  ASSUME IInv, NEW copied \in {"none", "events", "all"}, Halt(copied)
  PROVE  IInv'
<1>0. Ends("stopped")
  BY DEF Halt
<1>1. CASE pc \in {"agent", "exited", "collecting"} /\ Update(Collected(Here, copied))
  <2>1. Working /\ ~Terminal(Here)
    BY <1>1 DEF Working, IInv, Stage, Terminal
  <2>2. Collected(Here, copied) \in Attempt
    BY <2>1, CollectedIs
  <2> QED
    BY <1>0, <1>1, <2>1, <2>2, LeaveKeeps
<1>2. CASE attempts' = attempts
  BY <1>0, <1>2, StopKeeps
<1> QED
  BY <1>1, <1>2 DEF Halt

-----------------------------------------------------------------------------
(* The invariant. *)

LEMMA InitInvariant == Init => IInv
<1> SUFFICES ASSUME Init PROVE IInv
  OBVIOUS
<1>1. /\ attempts \in [Trials -> Seq(Attempt)]
      /\ \A t \in Trials : attempts[t] = <<>> /\ Len(attempts[t]) = 0
  BY DEF Init
<1>2. TypeOK
  BY <1>1, ScheduleAssumption DEF Init, TypeOK, NoJob, NoEvidence, Trials, Cost
<1>3. Replaced /\ InOrder
  BY <1>1 DEF Replaced, InOrder
<1>4. Prepared /\ Stage /\ Complete
  BY DEF Init, Prepared, Stage, Working, Complete, NoEvidence
<1> QED
  BY <1>2, <1>3, <1>4 DEF IInv

LEMMA NextInvariant == IInv /\ [Next]_vars => IInv'
<1> SUFFICES ASSUME IInv, [Next]_vars PROVE IInv'
  OBVIOUS
<1>1. CASE UNCHANGED vars
  BY <1>1 DEF vars, IInv, TypeOK, Replaced, InOrder, Prepared, Stage, Complete,
              HasTerminal, Working, Here
<1> QED
  BY <1>1, InvokeKeeps, nextKeeps, prepareKeeps, AgentKeeps, ValidateKeeps, HaltKeeps
     DEF Next, LauncherStep

LEMMA Invariant == Spec => []IInv
BY InitInvariant, NextInvariant, PTL DEF Spec

\* Every variable keeps its type, through every interruption, kill and resume.
THEOREM TypeCorrect == Spec => []TypeOK
<1>1. IInv => TypeOK
  BY DEF IInv
<1> QED
  BY Invariant, <1>1, PTL

\* nextEvaluationAction never has a trial run again that has its outcome, and no
\* validation decides an attempt that was replaced.
THEOREM OutcomesAreFinal == Spec => []NoRetryOfOutcome
<1>1. IInv => NoRetryOfOutcome
  <2> SUFFICES ASSUME IInv, NEW t \in Trials, NEW k \in 1..(Len(attempts[t]) - 1)
               PROVE  ~Decided(attempts[t][k])
    BY DEF NoRetryOfOutcome
  <2>1. attempts[t] \in Seq(Attempt) /\ Len(attempts[t]) \in Nat
    BY DEF IInv, TypeOK
  <2>2. attempts[t][k] \in Attempt
    BY <2>1
  <2> QED
    BY <2>2, DecidedIsTerminal DEF IInv, Replaced, Passed
<1> QED
  BY Invariant, <1>1, PTL

-----------------------------------------------------------------------------
(* The runner implements Experiment. *)

LEMMA ViewIs ==
  ASSUME NEW a \in Attempt
  PROVE  /\ View(a).raw \in {"pass", "fail"} <=> Terminal(a)
         /\ View(a).raw = "void" <=> ~a.events
         /\ View(a).raw = "open" <=> a.events /\ a.run = None
         /\ a.events /\ a.run = "cancelled" => View(a).raw = "cancelled"
         /\ a.events /\ a.run = "infrastructure" => View(a).raw = "unavailable"
         /\ a.events /\ a.run = "exhausted" => View(a).raw = "fail"
         /\ a.events /\ a.run = "completed" =>
              View(a).raw = CASE a.validation = "not-run" -> "unvalidated"
                              [] a.validation = "error"   -> "unavailable"
                              [] OTHER                    -> a.validation
         /\ View(a) = [raw |-> View(a).raw]
<1> DEFINE b == [a EXCEPT !.submission = TRUE]
<1>1. Revalidable(b) <=> a.events /\ a.run = "completed" /\ a.validation = "not-run"
  BY DEF Revalidable, Attempt
<1>2. a.run \in Status \cup {None} /\ a.validation \in {"not-run", "pass", "fail", "error"}
      /\ a.events \in BOOLEAN
  BY DEF Attempt
<1>3. None \notin Status
  BY NoneAssumption
<1>4. View(a) = [raw |-> CASE ~a.events                       -> "void"
                           [] a.events /\ a.run = None        -> "open"
                           [] a.events /\ a.run = "cancelled" -> "cancelled"
                           [] Revalidable(b)                  -> "unvalidated"
                           [] OTHER                           -> classifyTrialOutcome(a)]
  BY DEF View
<1> HIDE DEF b
<1>5. CASE ~a.events
  BY <1>1, <1>2, <1>3, <1>4, <1>5 DEF Terminal
<1>6. CASE a.events
  <2>1. CASE a.run = None
    BY <1>1, <1>3, <1>4, <1>6, <2>1 DEF Terminal, Status
  <2>2. CASE a.run = "cancelled"
    BY <1>1, <1>3, <1>4, <1>6, <2>2 DEF Terminal, Status, classifyTrialOutcome
  <2>3. CASE a.run = "infrastructure"
    BY <1>1, <1>3, <1>4, <1>6, <2>3 DEF Terminal, Status, classifyTrialOutcome
  <2>4. CASE a.run = "exhausted"
    BY <1>1, <1>3, <1>4, <1>6, <2>4 DEF Terminal, Status, classifyTrialOutcome
  <2>5. CASE a.run = "completed"
    BY <1>1, <1>2, <1>3, <1>4, <1>6, <2>5 DEF Terminal, Status, classifyTrialOutcome
  <2> QED
    BY <1>2, <2>1, <2>2, <2>3, <2>4, <2>5 DEF Status
<1> QED
  BY <1>2, <1>5, <1>6

Views == {View(a) : a \in Attempt}

LEMMA ViewsOf ==
  ASSUME NEW A \in [Trials -> Seq(Attempt)]
  PROVE  LET R == [t \in Trials |-> [k \in DOMAIN A[t] |-> View(A[t][k])]] IN
         /\ R \in [Trials -> Seq(Views)]
         /\ \A t \in Trials :
              /\ Len(R[t]) = Len(A[t]) /\ DOMAIN R[t] = 1..Len(A[t])
              /\ \A k \in 1..Len(A[t]) : R[t][k] = View(A[t][k])
<1>1. ASSUME NEW t \in Trials
      PROVE  LET r == [k \in DOMAIN A[t] |-> View(A[t][k])] IN
             /\ r \in Seq(Views) /\ Len(r) = Len(A[t]) /\ DOMAIN r = 1..Len(A[t])
             /\ \A k \in 1..Len(A[t]) : r[k] = View(A[t][k])
  <2>1. /\ A[t] \in Seq(Attempt) /\ DOMAIN A[t] = 1..Len(A[t])
        /\ Len(A[t]) \in Nat /\ \A k \in 1..Len(A[t]) : A[t][k] \in Attempt
    OBVIOUS
  <2>2. \A k \in 1..Len(A[t]) : View(A[t][k]) \in Views
    BY <2>1 DEF Views
  <2> QED
    BY <2>1, <2>2
<1> QED
  BY <1>1

LEMMA RecordedIs ==
  ASSUME TypeOK
  PROVE  /\ Recorded \in [Trials -> Seq(Views)]
         /\ \A t \in Trials :
              /\ Len(Recorded[t]) = Len(attempts[t]) /\ DOMAIN Recorded[t] = 1..Len(attempts[t])
              /\ \A k \in 1..Len(attempts[t]) : Recorded[t][k] = View(attempts[t][k])
BY ViewsOf DEF TypeOK, Recorded

LEMMA RecordedNext ==
  ASSUME TypeOK'
  PROVE  /\ Recorded' \in [Trials -> Seq(Views)]
         /\ \A t \in Trials :
              /\ Len(Recorded'[t]) = Len(attempts'[t]) /\ DOMAIN Recorded'[t] = 1..Len(attempts'[t])
              /\ \A k \in 1..Len(attempts'[t]) : Recorded'[t][k] = View(attempts'[t][k])
BY ViewsOf DEF TypeOK, Recorded

LEMMA OutcomeIs ==
  ASSUME TypeOK, NEW t \in Trials
  PROVE  Exp!HasOutcome(t) <=> HasTerminal(t)
<1>1. attempts[t] \in Seq(Attempt) /\ \A k \in 1..Len(attempts[t]) : attempts[t][k] \in Attempt
  BY DEF TypeOK
<1> QED
  BY <1>1, RecordedIs, ViewIs DEF Exp!HasOutcome, Exp!Decided, HasTerminal

\* The step changes what is recorded of the attempt in hand, or nothing.
LEMMA UpdateRecords ==
  ASSUME TypeOK, TypeOK', Stage, Working, NEW a \in Attempt, Update(a)
  PROVE  /\ Recorded' = [Recorded EXCEPT ![job.t][Len(Recorded[job.t])] = View(a)]
         /\ job.t \in Trials /\ Recorded[job.t] # <<>>
         /\ Exp!LastAttempt(job.t) = View(Here)
<1> DEFINE t == job.t
<1>1. t \in Trials /\ job.k \in 1..Len(attempts[t]) /\ job.k = Len(attempts[t]) /\ Here \in Attempt
  BY HereIs DEF Stage
<1>2. /\ \A u \in Trials : Len(attempts'[u]) = Len(attempts[u])
      /\ \A u \in Trials : \A k \in 1..Len(attempts[u]) :
           attempts'[u][k] = IF u = job.t /\ k = job.k THEN a ELSE attempts[u][k]
  BY <1>1, Updates
<1>3. /\ Recorded \in [Trials -> Seq(Views)]
      /\ \A u \in Trials :
           /\ Len(Recorded[u]) = Len(attempts[u]) /\ DOMAIN Recorded[u] = 1..Len(attempts[u])
           /\ \A k \in 1..Len(attempts[u]) : Recorded[u][k] = View(attempts[u][k])
  BY RecordedIs
<1>4. /\ Recorded' \in [Trials -> Seq(Views)]
      /\ \A u \in Trials :
           /\ Len(Recorded'[u]) = Len(attempts'[u]) /\ DOMAIN Recorded'[u] = 1..Len(attempts'[u])
           /\ \A k \in 1..Len(attempts'[u]) : Recorded'[u][k] = View(attempts'[u][k])
  BY RecordedNext
<1> DEFINE n == Len(Recorded[t])
           s == [Recorded[t] EXCEPT ![n] = View(a)]
<1>5. n = job.k /\ Recorded[t] # <<>> /\ Recorded[t][n] = View(Here)
  BY <1>1, <1>3 DEF Here
<1>6. Recorded'[t] = s
  <2>1. DOMAIN Recorded'[t] = DOMAIN s /\ Len(attempts[t]) \in Nat
    BY <1>1, <1>2, <1>3, <1>4
  <2>2. \A k \in 1..Len(attempts[t]) : Recorded'[t][k] = s[k]
    BY <1>1, <1>2, <1>3, <1>4, <1>5
  <2>3. Recorded'[t] = [k \in 1..Len(attempts[t]) |-> Recorded'[t][k]]
    <3>1. DOMAIN Recorded'[t] = 1..Len(attempts[t]) /\ Recorded'[t] \in Seq(Views)
      BY <1>1, <1>2, <1>4
    <3> HIDE DEF t
    <3> QED
      BY <3>1
  <2>4. s = [k \in 1..Len(attempts[t]) |-> s[k]]
    BY <1>1, <1>3
  <2> HIDE DEF s
  <2> QED
    BY <2>2, <2>3, <2>4
<1>7. ASSUME NEW u \in Trials, u # t PROVE Recorded'[u] = Recorded[u]
  <2>1. Recorded'[u] = [k \in 1..Len(attempts[u]) |-> Recorded'[u][k]]
    BY <1>2, <1>4
  <2>2. Recorded[u] = [k \in 1..Len(attempts[u]) |-> Recorded[u][k]]
    BY <1>3
  <2>3. \A k \in 1..Len(attempts[u]) : Recorded'[u][k] = Recorded[u][k]
    <3>1. Len(attempts'[u]) = Len(attempts[u])
      BY <1>2
    <3>2. \A k \in 1..Len(attempts[u]) : attempts'[u][k] = attempts[u][k]
      BY <1>2, <1>7
    <3>3. \A k \in 1..Len(attempts[u]) : Recorded'[u][k] = View(attempts'[u][k])
      BY <1>4, <3>1
    <3>4. \A k \in 1..Len(attempts[u]) : Recorded[u][k] = View(attempts[u][k])
      BY <1>3
    <3> QED
      BY <3>2, <3>3, <3>4, Zenon
  <2> QED
    BY <2>1, <2>2, <2>3
<1>8. Recorded' = [Recorded EXCEPT ![t] = s]
  <2> HIDE DEF s
  <2> QED
    BY <1>1, <1>3, <1>4, <1>6, <1>7
<1> QED
  BY <1>1, <1>5, <1>8 DEF Exp!LastAttempt

\* The steps on the attempt in hand, as Experiment sees them.
LEMMA UpdateImplements ==
  ASSUME IInv, IInv', Working, NEW a \in Attempt, Update(a),
         \/ View(a) = View(Here)
         \/ /\ View(Here).raw \in {"void", "open"}
            /\ View(a) \in AnyResult(job.t) \cup {[raw |-> "open"]}
         \/ View(Here).raw = "unvalidated" /\ View(a).raw \in {"pass", "fail", "unavailable"}
  PROVE  [Exp!Next]_Recorded
<1> DEFINE t == job.t
           n == Len(Recorded[t])
<1>1. /\ Recorded' = [Recorded EXCEPT ![t][n] = View(a)] /\ t \in Trials
      /\ Recorded[t] # <<>> /\ Exp!LastAttempt(t) = View(Here)
  BY UpdateRecords DEF IInv
<1>2. Recorded[t] \in Seq(Views) /\ Recorded \in [Trials -> Seq(Views)] /\ n \in 1..Len(Recorded[t])
  BY <1>1, RecordedIs DEF IInv
<1>3. Recorded[t][n] = View(Here)
  BY <1>1 DEF Exp!LastAttempt
<1>4. CASE View(a) = View(Here)
  <2>1. [Recorded[t] EXCEPT ![n] = View(a)] = Recorded[t]
    BY <1>2, <1>3, <1>4
  <2>2. Recorded' = Recorded
    BY <1>1, <1>2, <2>1
  <2> QED
    BY <2>2
<1>5. CASE /\ View(Here).raw \in {"void", "open"}
           /\ View(a) \in AnyResult(t) \cup {[raw |-> "open"]}
  <2>1. Exp!CollectAttempt(t, View(a))
    BY <1>1, <1>5 DEF Exp!CollectAttempt
  <2> QED
    BY <1>1, <1>5, <2>1 DEF Exp!Next, Exp!Trials, Trials
<1>6. CASE View(Here).raw = "unvalidated" /\ View(a).raw \in {"pass", "fail", "unavailable"}
  <2>1. View(a) = [View(Here) EXCEPT !.raw = View(a).raw]
    BY HereIs, ViewIs DEF IInv
  <2>2. Recorded' = [Recorded EXCEPT ![t][n].raw = View(a).raw]
    BY <1>1, <1>2, <1>3, <2>1
  <2>3. Exp!AttachValidation(t, View(a).raw)
    BY <1>1, <1>6, <2>2 DEF Exp!AttachValidation
  <2> QED
    BY <1>1, <1>6, <2>3 DEF Exp!Next, Exp!Trials, Trials
<1> QED
  BY <1>4, <1>5, <1>6

\* Whatever part of the agent's evidence is collected, an attempt without a result
\* stays as it is or gets one.
LEMMA CollectedViews ==
  ASSUME IInv, pc \in {"agent", "exited", "collecting"}, NEW copied \in {"none", "events", "all"}
  PROVE  LET a == Collected(Here, copied) IN
         /\ a \in Attempt /\ Working
         /\ \/ View(a) = View(Here)
            \/ /\ View(Here).raw \in {"void", "open"}
               /\ View(a) \in AnyResult(job.t) \cup {[raw |-> "open"]}
<1> DEFINE a == Collected(Here, copied)
<1>1. Working /\ Here \in Attempt /\ Here.run = None
  BY HereIs DEF IInv, Working, Stage
<1>2. /\ a \in Attempt /\ a.validation = "not-run"
      /\ a.events <=> Here.events \/ (copied # "none" /\ scratch.events)
      /\ a.run = IF copied = "all" THEN scratch.run ELSE Here.run
  BY <1>1, CollectedIs
<1>3. a.run # None => a.events
  BY <1>1, <1>2 DEF IInv, Stage
<1>4. View(Here).raw \in {"void", "open"} /\ View(Here) = [raw |-> View(Here).raw]
  BY <1>1, ViewIs DEF Attempt
<1> HIDE DEF a
<1>5. View(a) = [raw |-> View(a).raw] /\ a.run \in Status \cup {None}
  BY <1>2, ViewIs DEF Attempt
<1>6. CASE ~a.events
  <2>1. View(a).raw = "void" /\ View(Here).raw = "void"
    BY <1>1, <1>2, <1>6, ViewIs
  <2> QED
    BY <1>1, <1>2, <1>4, <1>5, <2>1 DEF a
<1>7. CASE a.events /\ a.run = None
  <2>1. View(a).raw = "open"
    BY <1>2, <1>7, ViewIs
  <2> QED
    BY <1>1, <1>2, <1>4, <1>5, <2>1 DEF a
<1>8. CASE a.events /\ a.run # None
  <2>1. View(a).raw \in {"cancelled", "unvalidated", "unavailable", "fail"}
    BY <1>2, <1>5, <1>8, ViewIs DEF Status
  <2>2. View(a) \in AnyResult(job.t)
    BY <1>5, <2>1 DEF AnyResult
  <2> QED
    BY <1>1, <1>2, <1>4, <2>2 DEF a
<1> QED
  BY <1>2, <1>6, <1>7, <1>8 DEF Attempt

LEMMA prepareImplements == ASSUME IInv, IInv', prepare PROVE Exp!Next
<1> DEFINE t == job.t
<1>1. /\ attempts' = [attempts EXCEPT ![t] = Append(attempts[t], EmptyAttempt)]
      /\ pc = "prepare"
  BY DEF prepare
<1>2. /\ t \in Trials /\ job.k \in 1..MaxAttempts /\ attempts[t] \in Seq(Attempt)
      /\ job.k = Len(attempts[t]) + 1 /\ attempts \in [Trials -> Seq(Attempt)]
      /\ \A k \in 1..Len(attempts[t]) : Passed(attempts[t][k])
      /\ \A u \in 1..(t - 1) : HasTerminal(u)
  BY <1>1 DEF IInv, TypeOK, Prepared
<1>3. EmptyAttempt \in Attempt /\ ~EmptyAttempt.events
  BY DEF EmptyAttempt, Attempt, Cost
<1>4. View(EmptyAttempt) = [raw |-> "void"]
  BY <1>3, ViewIs
<1> HIDE DEF t
<1>5. /\ Recorded \in [Trials -> Seq(Views)]
      /\ \A u \in Trials :
           /\ Len(Recorded[u]) = Len(attempts[u]) /\ DOMAIN Recorded[u] = 1..Len(attempts[u])
           /\ \A k \in 1..Len(attempts[u]) : Recorded[u][k] = View(attempts[u][k])
  BY RecordedIs DEF IInv
<1>6. /\ Recorded' \in [Trials -> Seq(Views)]
      /\ \A u \in Trials :
           /\ Len(Recorded'[u]) = Len(attempts'[u]) /\ DOMAIN Recorded'[u] = 1..Len(attempts'[u])
           /\ \A k \in 1..Len(attempts'[u]) : Recorded'[u][k] = View(attempts'[u][k])
  BY RecordedNext DEF IInv
<1> DEFINE m == Len(attempts[t])
           s == Append(Recorded[t], [raw |-> "void"])
<1>7. /\ attempts'[t] = Append(attempts[t], EmptyAttempt) /\ Len(attempts'[t]) = m + 1
      /\ attempts'[t][m + 1] = EmptyAttempt /\ m \in Nat
      /\ \A k \in 1..m : attempts'[t][k] = attempts[t][k]
  BY <1>1, <1>2, <1>3, AppendProperties
<1>8. [raw |-> "void"] \in Views
  BY <1>3, <1>4 DEF Views
<1>9. /\ s \in Seq(Views) /\ Len(s) = m + 1 /\ s[m + 1] = [raw |-> "void"]
      /\ \A k \in 1..m : s[k] = Recorded[t][k]
  BY <1>2, <1>5, <1>7, <1>8, AppendProperties
<1>10. Recorded'[t] = s
  <2>1. Recorded'[t] \in Seq(Views) /\ Len(Recorded'[t]) = m + 1
    BY <1>2, <1>6, <1>7
  <2>2. \A k \in 1..(m + 1) : Recorded'[t][k] = s[k]
    BY <1>2, <1>4, <1>5, <1>6, <1>7, <1>9
  <2> HIDE DEF s, m
  <2> QED
    BY <1>9, <2>1, <2>2, SeqEqual
<1>11. ASSUME NEW u \in Trials, u # t PROVE Recorded'[u] = Recorded[u]
  BY <1>1, <1>2, <1>11 DEF Recorded
<1>12. Recorded' = [Recorded EXCEPT ![t] = s]
  <2> HIDE DEF s
  <2> QED
    BY <1>2, <1>5, <1>6, <1>10, <1>11
<1>13. \A k \in 1..m : attempts[t][k] \in Attempt
  BY <1>2
<1>14. \A k \in 1..m : Recorded[t][k].raw # "void" /\ Recorded[t][k].raw \notin {"pass", "fail"}
  BY <1>2, <1>5, <1>13, ViewIs DEF Passed
<1>15. \A u \in 1..(t - 1) : Exp!HasOutcome(u)
  <2> TAKE u \in 1..(t - 1)
  <2>1. u \in Trials
    BY <1>2, ScheduleAssumption DEF Trials
  <2> QED
    BY <1>2, <2>1, OutcomeIs DEF IInv
<1>16. ~Exp!HasOutcome(t)
  BY <1>2, <1>5, <1>14 DEF Exp!HasOutcome, Exp!Decided
<1>17. Len(Recorded[t]) < MaxAttempts
  BY <1>2, <1>5, <1>7, ScheduleAssumption
<1>18. \A k \in DOMAIN Recorded[t] : Recorded[t][k].raw # "void"
  BY <1>2, <1>5, <1>14
<1>19. Exp!StartAttempt(t)
  BY <1>12, <1>15, <1>16, <1>17, <1>18 DEF Exp!StartAttempt
<1> QED
  BY <1>2, <1>19 DEF Exp!Next, Exp!Trials, Trials

LEMMA StepImplements == ASSUME IInv, IInv', [Next]_vars PROVE [Exp!Next]_Recorded
<1>0. ASSUME attempts' = attempts PROVE [Exp!Next]_Recorded
  BY <1>0 DEF Recorded
<1>1. CASE UNCHANGED vars \/ Invoke \/ next \/ AgentExits \/ inspect \/ validate_throws
  <2>1. attempts' = attempts
    BY <1>1 DEF vars, Invoke, next, AgentExits, inspect, validate_throws
  <2> QED
    BY <2>1, <1>0
<1>2. CASE prepare
  BY <1>2, prepareImplements
<1>3. CASE AgentStep
  <2>1. CASE \E status \in Status, cost \in Reported : AgentFinalizes(status, cost)
    BY <2>1, <1>0 DEF AgentFinalizes
  <2>2. CASE \E billed \in 0..Bound[job.t] : AgentRecords(billed)
    <3>1. PICK billed \in 0..Bound[job.t] : AgentRecords(billed)
      BY <2>2
    <3>2. Working /\ Update([Here EXCEPT !.billed = billed])
      BY <3>1 DEF AgentRecords, Working
    <3>3. Here \in Attempt /\ job.t \in Trials
      BY <3>2, HereIs DEF IInv
    <3>4. billed \in Nat
      BY <3>3, ScheduleAssumption
    <3> DEFINE a == [Here EXCEPT !.billed = billed]
    <3>5. /\ a \in Attempt /\ a.events = Here.events /\ a.run = Here.run
          /\ a.validation = Here.validation
      BY <3>3, <3>4 DEF Attempt
    <3>6. View(a) = View(Here)
      <4>1. Revalidable([a EXCEPT !.submission = TRUE])
              <=> Revalidable([Here EXCEPT !.submission = TRUE])
        BY <3>3, <3>5 DEF Revalidable, Attempt
      <4> HIDE DEF a
      <4> QED
        BY <3>5, <4>1 DEF View, classifyTrialOutcome
    <3> HIDE DEF a
    <3> QED
      BY <3>2, <3>5, <3>6, UpdateImplements DEF a
  <2> QED
    BY <1>3, <2>1, <2>2 DEF AgentStep
<1>4. CASE collect_events \/ collect_run
  <2>1. PICK copied \in {"events", "all"} : /\ pc \in {"agent", "exited", "collecting"}
                                            /\ Update(Collected(Here, copied))
    BY <1>4 DEF collect_events, collect_run
  <2> QED
    BY <2>1, CollectedViews, UpdateImplements
<1>5. CASE export
  <2> DEFINE a == [Here EXCEPT !.submission = TRUE]
  <2>1. Working /\ Update(a)
    BY <1>5 DEF export, Working
  <2>2. Here \in Attempt
    BY <2>1, HereIs DEF IInv
  <2>3. /\ a \in Attempt /\ a.events = Here.events /\ a.run = Here.run
        /\ a.validation = Here.validation
    BY <2>2 DEF Attempt
  <2>4. View(a) = View(Here)
    <3>1. Revalidable([a EXCEPT !.submission = TRUE])
            <=> Revalidable([Here EXCEPT !.submission = TRUE])
      BY <2>2, <2>3 DEF Revalidable, Attempt
    <3> HIDE DEF a
    <3> QED
      BY <2>3, <3>1 DEF View, classifyTrialOutcome
  <2> HIDE DEF a
  <2> QED
    BY <2>1, <2>3, <2>4, UpdateImplements
<1>6. CASE ValidateEnds
  <2>1. PICK status \in {"pass", "fail", "error"} : validate(status)
    BY <1>6 DEF ValidateEnds
  <2> DEFINE a == [Here EXCEPT !.validation = status]
  <2>2. pc = "validate" /\ Update(a) /\ Working
    BY <2>1 DEF validate, Working
  <2>3. Here \in Attempt /\ Here.events /\ Here.run \in {"completed", "exhausted"}
        /\ Here.validation = "not-run"
    BY <2>2, HereIs DEF IInv, Stage
  <2>4. a \in Attempt /\ a.events /\ a.run = Here.run /\ a.validation = status
    BY <2>3 DEF Attempt
  <2> HIDE DEF a
  <2>5. View(a) = [raw |-> View(a).raw] /\ View(Here) = [raw |-> View(Here).raw]
    BY <2>3, <2>4, ViewIs
  <2>6. CASE Here.run = "exhausted"
    <3>1. View(a).raw = "fail" /\ View(Here).raw = "fail"
      BY <2>3, <2>4, <2>6, ViewIs
    <3> QED
      BY <2>2, <2>4, <2>5, <3>1, UpdateImplements
  <2>7. CASE Here.run = "completed"
    <3>1. View(Here).raw = "unvalidated" /\ View(a).raw \in {"pass", "fail", "unavailable"}
      BY <2>3, <2>4, <2>7, ViewIs
    <3> QED
      BY <2>2, <2>4, <3>1, UpdateImplements
  <2> QED
    BY <2>3, <2>6, <2>7
<1>7. ASSUME NEW copied \in {"none", "events", "all"}, Halt(copied) PROVE [Exp!Next]_Recorded
  <2>1. CASE pc \in {"agent", "exited", "collecting"} /\ Update(Collected(Here, copied))
    BY <2>1, CollectedViews, UpdateImplements
  <2>2. CASE attempts' = attempts
    BY <2>2, <1>0
  <2> QED
    BY <1>7, <2>1, <2>2 DEF Halt
<1> QED
  BY <1>1, <1>2, <1>3, <1>4, <1>5, <1>6, <1>7 DEF Next, LauncherStep

\* The dispatch loop, the agent and the evaluator, with every interruption, kill and
\* resume, implement Experiment; completion is reported only when it is reached.
THEOREM ImplementsExperiment == Spec => KeepsExperiment
<1>1. Init => Exp!Init
  BY DEF Init, Exp!Init, Recorded, Exp!Trials, Trials
<1>2. IInv /\ IInv' /\ [Next]_vars => [Exp!Next]_Recorded
  BY StepImplements
<1>3. IInv => (result = "done" => \A t \in Trials : Exp!HasOutcome(t))
  BY OutcomeIs DEF IInv, Complete
<1> QED
  BY Invariant, <1>1, <1>2, <1>3, PTL DEF Spec, KeepsExperiment, Exp!Spec

-----------------------------------------------------------------------------
(* Sums.  SumFunctionOnSet(f, S) adds up f[x] for the elements of S one by   *)
(* one, in the order of CHOOSE.                                              *)

Any(s) == CHOOSE x \in s : TRUE

SumStep(f, s, g) == IF s = {} THEN 0 ELSE f[Any(s)] + g[s \ {Any(s)}]

IsSum(f, S, g) == g = [s \in SUBSET S |-> SumStep(f, s, g)]

LEMMA SumChoice ==
  ASSUME NEW f, NEW S
  PROVE  SumFunctionOnSet(f, S) = (CHOOSE g : IsSum(f, S, g))[S]
BY DEF SumFunctionOnSet, FoldFunctionOnSet, MapThenFoldSet, IsSum, SumStep, Any

\* A set of subsets of a finite set has a least element, if it has any.
LEMMA LeastSubset ==
  ASSUME NEW S, IsFiniteSet(S), NEW B \in SUBSET (SUBSET S), B # {}
  PROVE  \E m \in B : \A s \in B : ~(s \subseteq m /\ s # m)
<1>1. IsWellFoundedOn(StrictSubsetOrdering(S), SUBSET S)
  BY FS_StrictSubsetOrderingWellFounded, FS_FiniteSubsetsOfFinite, Zenon
<1>2. PICK m \in B : \A s \in B : <<s, m>> \notin StrictSubsetOrdering(S)
  BY <1>1, WFMin, Zenon
<1>3. ASSUME NEW s \in B, s \subseteq m, s # m PROVE FALSE
  <2>1. <<s, m>> \in StrictSubsetOrdering(S)
    BY <1>3 DEF StrictSubsetOrdering
  <2> QED
    BY <1>2, <2>1
<1> QED
  BY <1>3

LEMMA AnyIs == ASSUME NEW s, s # {} PROVE Any(s) \in s /\ s \ {Any(s)} \subseteq s /\ s \ {Any(s)} # s
<1>1. Any(s) \in s
  BY DEF Any
<1> QED
  BY <1>1

LEMMA SumUnique ==
  ASSUME NEW f, NEW S, IsFiniteSet(S), NEW g, IsSum(f, S, g),
         NEW T \in SUBSET S, NEW h, IsSum(f, T, h)
  PROVE  \A s \in SUBSET T : g[s] = h[s]
<1> DEFINE B == {s \in SUBSET T : g[s] # h[s]}
<1> SUFFICES ASSUME B # {} PROVE FALSE
  OBVIOUS
<1>1. IsFiniteSet(T)
  BY FS_Subset
<1>2. PICK m \in B : \A s \in B : ~(s \subseteq m /\ s # m)
  <2>1. B \in SUBSET (SUBSET T)
    OBVIOUS
  <2> HIDE DEF B
  <2> QED
    BY <1>1, <2>1, LeastSubset
<1>3. \A s \in SUBSET T : g[s] = SumStep(f, s, g) /\ h[s] = SumStep(f, s, h)
  <2>1. \A s \in SUBSET S : g[s] = SumStep(f, s, g)
    BY DEF IsSum
  <2>2. \A s \in SUBSET T : h[s] = SumStep(f, s, h)
    BY DEF IsSum
  <2> QED
    BY <2>1, <2>2
<1>4. m # {}
  BY <1>3 DEF SumStep
<1>5. g[m \ {Any(m)}] = h[m \ {Any(m)}]
  BY <1>2, <1>4, AnyIs
<1> QED
  BY <1>3, <1>4, <1>5 DEF SumStep

LEMMA SumExists ==
  ASSUME NEW f, NEW S, IsFiniteSet(S), \A x \in S : f[x] \in Nat
  PROVE  \E g \in [SUBSET S -> Nat] : IsSum(f, S, g)
<1> DEFINE Has(T) == \E g \in [SUBSET T -> Nat] : IsSum(f, T, g)
           B == {T \in SUBSET S : ~Has(T)}
<1> SUFFICES ASSUME B # {} PROVE FALSE
  OBVIOUS
<1>1. PICK T \in B : \A s \in B : ~(s \subseteq T /\ s # T)
  <2>1. B \in SUBSET (SUBSET S)
    OBVIOUS
  <2> HIDE DEF B
  <2> QED
    BY <2>1, LeastSubset
<1>2. T \in SUBSET S /\ ~Has(T)
  OBVIOUS
<1>3. \A s \in SUBSET T : s # T => Has(s)
  BY <1>1, <1>2
<1> DEFINE G(s) == CHOOSE g \in [SUBSET s -> Nat] : IsSum(f, s, g)
<1>4. \A s \in SUBSET T : s # T => G(s) \in [SUBSET s -> Nat] /\ IsSum(f, s, G(s))
  BY <1>3
<1> HIDE DEF G, B
<1>5. \A s \in SUBSET T : s # T => G(s)[s] \in Nat
  BY <1>4
<1> DEFINE top == IF T = {} THEN 0 ELSE f[Any(T)] + G(T \ {Any(T)})[T \ {Any(T)}]
           g == [s \in SUBSET T |-> IF s = T THEN top ELSE G(s)[s]]
<1>6. top \in Nat
  <2>1. CASE T # {}
    <3>1. f[Any(T)] \in Nat
      BY <1>2, <2>1, AnyIs
    <3>2. G(T \ {Any(T)})[T \ {Any(T)}] \in Nat
      BY <1>5, <2>1, AnyIs
    <3> QED
      BY <2>1, <3>1, <3>2
  <2> QED
    BY <2>1
<1> HIDE DEF top
<1>7. g \in [SUBSET T -> Nat]
  BY <1>5, <1>6
<1>8. ASSUME NEW s \in SUBSET T PROVE g[s] = SumStep(f, s, g)
  <2>1. CASE s = T
    <3>1. T # {} => g[T \ {Any(T)}] = G(T \ {Any(T)})[T \ {Any(T)}]
      BY AnyIs
    <3> QED
      BY <2>1, <3>1 DEF SumStep, top
  <2>2. CASE s # T
    <3>1. g[s] = G(s)[s] /\ IsSum(f, s, G(s)) /\ IsFiniteSet(s)
      BY <1>2, <1>4, <2>2, FS_Subset
    <3>2. G(s)[s] = SumStep(f, s, G(s))
      BY <3>1 DEF IsSum
    <3>3. ASSUME s # {} PROVE g[s \ {Any(s)}] = G(s)[s \ {Any(s)}]
      <4> DEFINE r == s \ {Any(s)}
      <4>1. r \in SUBSET s /\ r \in SUBSET T /\ r # T
        BY <2>2, <3>3, AnyIs
      <4> HIDE DEF r
      <4>2. g[r] = G(r)[r] /\ IsSum(f, r, G(r))
        BY <1>4, <4>1
      <4>3. G(s)[r] = G(r)[r]
        BY <3>1, <4>1, <4>2, SumUnique
      <4> QED
        BY <4>2, <4>3 DEF r
    <3> HIDE DEF g
    <3> QED
      BY <3>1, <3>2, <3>3 DEF SumStep
  <2> QED
    BY <2>1, <2>2
<1>9. IsSum(f, T, g)
  <2> DEFINE h == [s \in SUBSET T |-> SumStep(f, s, g)]
  <2>1. \A s \in SUBSET T : g[s] = h[s]
    BY <1>8
  <2>2. g = [s \in SUBSET T |-> g[s]] /\ h = [s \in SUBSET T |-> h[s]]
    OBVIOUS
  <2> HIDE DEF g
  <2> QED
    BY <2>1, <2>2 DEF IsSum
<1> QED
  BY <1>2, <1>7, <1>9

LEMMA SumIs ==
  ASSUME NEW f, NEW S, IsFiniteSet(S), \A x \in S : f[x] \in Nat
  PROVE  /\ SumFunctionOnSet(f, S) \in Nat
         /\ S = {} => SumFunctionOnSet(f, S) = 0
         /\ S # {} => SumFunctionOnSet(f, S) = f[Any(S)] + SumFunctionOnSet(f, S \ {Any(S)})
<1> DEFINE Sum(T) == CHOOSE g : IsSum(f, T, g)
<1>1. \A T \in SUBSET S : IsSum(f, T, Sum(T)) /\ IsFiniteSet(T)
  <2> TAKE T \in SUBSET S
  <2>1. IsFiniteSet(T)
    BY FS_Subset
  <2>2. \E g : IsSum(f, T, g)
    BY <2>1, SumExists
  <2> QED
    BY <2>1, <2>2
<1>2. \A T \in SUBSET S : SumFunctionOnSet(f, T) = Sum(T)[T]
  BY SumChoice
<1>3. Sum(S)[S] \in Nat
  <2>1. PICK g \in [SUBSET S -> Nat] : IsSum(f, S, g)
    BY SumExists
  <2>2. Sum(S)[S] = g[S]
    <3> HIDE DEF Sum
    <3> QED
      BY <1>1, <2>1, SumUnique
  <2> QED
    BY <2>1, <2>2
<1> HIDE DEF Sum
<1>4. Sum(S)[S] = SumStep(f, S, Sum(S))
  BY <1>1 DEF IsSum
<1>5. ASSUME S # {} PROVE Sum(S)[S \ {Any(S)}] = Sum(S \ {Any(S)})[S \ {Any(S)}]
  BY <1>1, <1>5, AnyIs, SumUnique
<1> QED
  BY <1>2, <1>3, <1>4, <1>5 DEF SumStep

\* The order does not matter.
LEMMA SumRemove ==
  ASSUME NEW f, NEW S, IsFiniteSet(S), \A x \in S : f[x] \in Nat, NEW x \in S
  PROVE  SumFunctionOnSet(f, S) = f[x] + SumFunctionOnSet(f, S \ {x})
<1> DEFINE F(T) == SumFunctionOnSet(f, T)
           B == {T \in SUBSET S : \E y \in T : F(T) # f[y] + F(T \ {y})}
<1> SUFFICES ASSUME B # {} PROVE FALSE
  OBVIOUS
<1>1. PICK T \in B : \A s \in B : ~(s \subseteq T /\ s # T)
  <2>1. B \in SUBSET (SUBSET S)
    OBVIOUS
  <2> HIDE DEF B
  <2> QED
    BY <2>1, LeastSubset
<1>2. PICK y \in T : F(T) # f[y] + F(T \ {y})
  BY <1>1
<1>3. \A s \in SUBSET T : s # T => \A z \in s : F(s) = f[z] + F(s \ {z})
  BY <1>1
<1>4. T \in SUBSET S /\ T # {}
  BY <1>1, <1>2
<1>5. \A s \in SUBSET S : IsFiniteSet(s) /\ F(s) \in Nat
  BY FS_Subset, SumIs
<1> DEFINE c == Any(T)
<1>6. c \in T /\ F(T) = f[c] + F(T \ {c})
  BY <1>4, <1>5, AnyIs, SumIs
<1> HIDE DEF c, F, B
<1>7. c # y
  BY <1>2, <1>6
<1>8. F(T \ {c}) = f[y] + F((T \ {c}) \ {y})
  BY <1>2, <1>3, <1>6, <1>7
<1>9. F(T \ {y}) = f[c] + F((T \ {y}) \ {c})
  BY <1>2, <1>3, <1>6, <1>7
<1>10. (T \ {c}) \ {y} = (T \ {y}) \ {c}
  OBVIOUS
<1>11. F((T \ {c}) \ {y}) \in Nat /\ f[y] \in Nat /\ f[c] \in Nat
  BY <1>2, <1>4, <1>5, <1>6
<1> QED
  BY <1>2, <1>6, <1>8, <1>9, <1>10, <1>11

\* Only the values on S matter.
LEMMA SumSame ==
  ASSUME NEW f, NEW g, NEW S, IsFiniteSet(S), \A x \in S : f[x] \in Nat /\ g[x] = f[x]
  PROVE  SumFunctionOnSet(f, S) = SumFunctionOnSet(g, S)
<1> DEFINE B == {T \in SUBSET S : SumFunctionOnSet(f, T) # SumFunctionOnSet(g, T)}
<1> SUFFICES ASSUME B # {} PROVE FALSE
  OBVIOUS
<1>1. PICK T \in B : \A s \in B : ~(s \subseteq T /\ s # T)
  <2>1. B \in SUBSET (SUBSET S)
    OBVIOUS
  <2> HIDE DEF B
  <2> QED
    BY <2>1, LeastSubset
<1>2. /\ IsFiniteSet(T) /\ T \in SUBSET S /\ \A x \in T : f[x] \in Nat /\ g[x] \in Nat
      /\ \A x \in T : g[x] = f[x]
  BY <1>1, FS_Subset
<1>3. T # {}
  BY <1>1, <1>2, SumIs
<1>4. /\ SumFunctionOnSet(f, T) = f[Any(T)] + SumFunctionOnSet(f, T \ {Any(T)})
      /\ SumFunctionOnSet(g, T) = g[Any(T)] + SumFunctionOnSet(g, T \ {Any(T)})
  BY <1>2, <1>3, SumIs
<1>5. SumFunctionOnSet(f, T \ {Any(T)}) = SumFunctionOnSet(g, T \ {Any(T)})
  BY <1>1, <1>3, AnyIs
<1>6. f[Any(T)] = g[Any(T)]
  BY <1>2, <1>3, AnyIs
<1> QED
  BY <1>1, <1>4, <1>5, <1>6

\* Elements whose value is zero add nothing.
LEMMA SumNonzero ==
  ASSUME NEW f, NEW S, IsFiniteSet(S), \A x \in S : f[x] \in Nat, NEW K \in SUBSET S,
         \A x \in S \ K : f[x] = 0
  PROVE  SumFunctionOnSet(f, S) = SumFunctionOnSet(f, K)
<1> DEFINE F(T) == SumFunctionOnSet(f, T)
           B == {T \in SUBSET S : F(T) # F(T \cap K)}
<1> SUFFICES ASSUME B # {} PROVE FALSE
  <2>1. S \in SUBSET S /\ S \cap K = K
    OBVIOUS
  <2> QED
    BY <2>1
<1>1. PICK T \in B : \A s \in B : ~(s \subseteq T /\ s # T)
  <2>1. B \in SUBSET (SUBSET S)
    OBVIOUS
  <2> HIDE DEF B
  <2> QED
    BY <2>1, LeastSubset
<1>2. T \in SUBSET S /\ F(T) # F(T \cap K)
  BY <1>1
<1>3. \A s \in SUBSET T : s # T => F(s) = F(s \cap K)
  BY <1>1
<1>4. \A s \in SUBSET S : IsFiniteSet(s) /\ F(s) \in Nat
  BY FS_Subset, SumIs
<1> HIDE DEF B
<1>5. T \cap K # T
  BY <1>2
<1>6. PICK x \in T : x \notin K
  BY <1>5
<1>7. F(T) = f[x] + F(T \ {x}) /\ f[x] = 0 /\ F(T \ {x}) \in Nat
  <2>1. IsFiniteSet(T) /\ \A y \in T : f[y] \in Nat
    BY <1>2, <1>4
  <2>2. F(T) = f[x] + F(T \ {x})
    BY <2>1, SumRemove
  <2>3. f[x] = 0 /\ T \ {x} \in SUBSET S
    BY <1>2, <1>6
  <2> QED
    BY <1>4, <2>2, <2>3
<1>8. (T \ {x}) \cap K = T \cap K /\ T \ {x} \in SUBSET T /\ T \ {x} # T
  BY <1>6
<1>9. F(T \ {x}) = F(T \cap K)
  BY <1>3, <1>8
<1> HIDE DEF F
<1> QED
  BY <1>2, <1>7, <1>9

-----------------------------------------------------------------------------
(* The budget. *)

\* What an attempt was billed, unless it reports no usage at all.
Charge(a) == IF a.cost = "missing" THEN 0 ELSE a.billed

Charges == [p \in Positions |-> Charge(At(p))]

Total == SumFunctionOnSet(Charges, Positions)

\* No run leaves all its calls without usage.
NoneMissing == scratch.cost # "missing" /\ \A p \in Positions : At(p).cost # "missing"

\* What was billed is within the cap, and until the agent has a session its bound
\* is still reserved.
Funded ==
  /\ Total <= Cap
  /\ pc = "prepare" => Total + Bound[job.t] <= Cap
  /\ pc = "agent" /\ ~scratch.events => Here.billed = 0 /\ Total + Bound[job.t] <= Cap

\* Nothing has been reported of the attempt before its run.json is collected.
Unreported == pc \in {"agent", "exited", "collecting"} => Here.cost # "missing"

Budget == Unreported /\ (Cap # None => Funded)

LEMMA PositionsAre ==
  ASSUME NEW A \in [Trials -> Seq(Attempt)]
  PROVE  LET P == {p \in Trials \X (1..MaxAttempts) : p[2] <= Len(A[p[1]])} IN
         /\ IsFiniteSet(P)
         /\ \A p \in P : A[p[1]][p[2]] \in Attempt /\ A[p[1]][p[2]].billed \in Nat
<1> DEFINE P == {p \in Trials \X (1..MaxAttempts) : p[2] <= Len(A[p[1]])}
<1>1. IsFiniteSet(Trials) /\ IsFiniteSet(1..MaxAttempts)
  BY FS_Interval, ScheduleAssumption DEF Trials
<1>2. IsFiniteSet(Trials \X (1..MaxAttempts))
  BY <1>1, FS_Product
<1>3. IsFiniteSet(P)
  BY <1>2, FS_Subset
<1>4. ASSUME NEW p \in P PROVE A[p[1]][p[2]] \in Attempt
  <2>1. A[p[1]] \in Seq(Attempt) /\ p[2] \in 1..Len(A[p[1]])
    BY ScheduleAssumption
  <2> QED
    BY <2>1
<1>5. \A a \in Attempt : a.billed \in Nat
  BY DEF Attempt
<1> QED
  BY <1>3, <1>4, <1>5

LEMMA BilledIs ==
  ASSUME TypeOK
  PROVE  /\ IsFiniteSet(Positions)
         /\ \A p \in Positions : At(p) \in Attempt /\ At(p).billed \in Nat /\ Billed[p] = At(p).billed
         /\ \A p \in Positions : Charges[p] = Charge(At(p)) /\ Charges[p] \in Nat
         /\ Total \in Nat
<1>1. /\ IsFiniteSet(Positions)
      /\ \A p \in Positions : At(p) \in Attempt /\ At(p).billed \in Nat
  BY PositionsAre DEF TypeOK, Positions, At
<1>2. \A p \in Positions : Billed[p] = At(p).billed
  BY DEF Billed
<1>3. \A p \in Positions : Charges[p] = Charge(At(p)) /\ Charges[p] \in Nat
  BY <1>1 DEF Charges, Charge
<1> QED
  BY <1>1, <1>2, <1>3, SumIs DEF Total

LEMMA BilledNext ==
  ASSUME TypeOK'
  PROVE  /\ IsFiniteSet(Positions')
         /\ \A p \in Positions' : Charges'[p] = Charge(attempts'[p[1]][p[2]]) /\ Charges'[p] \in Nat
<1>1. /\ IsFiniteSet(Positions')
      /\ \A p \in Positions' : attempts'[p[1]][p[2]].billed \in Nat
  BY PositionsAre DEF TypeOK, Positions
<1>2. \A p \in Positions' : Charges'[p] = Charge(attempts'[p[1]][p[2]])
  BY DEF Charges, At, Charge
<1> QED
  BY <1>1, <1>2 DEF Charge

\* A step on the attempt in hand changes the total by its charge.
LEMMA UpdateBills ==
  ASSUME IInv, IInv', Working, NEW a \in Attempt, Update(a)
  PROVE  /\ Positions' = Positions
         /\ Total' + Charge(Here) = Total + Charge(a) /\ Total' \in Nat
         /\ \A p \in Positions : attempts'[p[1]][p[2]] = At(p) \/ attempts'[p[1]][p[2]] = a
<1>1. job.t \in Trials /\ job.k \in 1..Len(attempts[job.t]) /\ Here \in Attempt /\ TypeOK
      /\ job.k \in 1..MaxAttempts
  BY HereIs DEF IInv, TypeOK
<1>2. /\ \A u \in Trials : Len(attempts'[u]) = Len(attempts[u])
      /\ \A u \in Trials : \A k \in 1..Len(attempts[u]) :
           attempts'[u][k] = IF u = job.t /\ k = job.k THEN a ELSE attempts[u][k]
  BY <1>1, Updates
<1>3. Positions' = Positions
  BY <1>2 DEF Positions
<1> DEFINE q == <<job.t, job.k>>
<1>4. q \in Positions /\ At(q) = Here /\ attempts'[q[1]][q[2]] = a
  BY <1>1, <1>2 DEF Positions, At, Here
<1>5. \A p \in Positions \ {q} : attempts'[p[1]][p[2]] = At(p)
  <2> TAKE p \in Positions \ {q}
  <2>1. p[1] \in Trials /\ p[2] \in 1..MaxAttempts /\ p[2] <= Len(attempts[p[1]]) /\ p = <<p[1], p[2]>>
    BY DEF Positions
  <2>2. Len(attempts[p[1]]) \in Nat
    BY <1>1, <2>1 DEF TypeOK
  <2>3. p[2] \in 1..Len(attempts[p[1]]) /\ ~(p[1] = job.t /\ p[2] = job.k)
    BY <2>1, <2>2, ScheduleAssumption
  <2> QED
    BY <1>2, <2>1, <2>3 DEF At
<1>6. /\ IsFiniteSet(Positions) /\ \A p \in Positions : Charges[p] \in Nat /\ Charges'[p] \in Nat
      /\ Charges[q] = Charge(Here) /\ Charges'[q] = Charge(a)
      /\ \A p \in Positions \ {q} : Charges'[p] = Charges[p]
  BY <1>1, <1>3, <1>4, <1>5, BilledIs, BilledNext DEF IInv
<1> HIDE DEF q
<1> DEFINE P == Positions
           f == Charges
           g == Charges'
<1>7. Total = f[q] + SumFunctionOnSet(f, P \ {q}) /\ Total' = g[q] + SumFunctionOnSet(g, P \ {q})
  <2>1. Total = SumFunctionOnSet(f, P) /\ Total' = SumFunctionOnSet(g, P)
    BY <1>3 DEF Total
  <2> HIDE DEF P, f, g
  <2> QED
    BY <2>1, <1>4, <1>6, SumRemove DEF P, f, g
<1>8. /\ SumFunctionOnSet(f, P \ {q}) = SumFunctionOnSet(g, P \ {q})
      /\ SumFunctionOnSet(f, P \ {q}) \in Nat
  <2>1. IsFiniteSet(P \ {q})
    BY <1>6, FS_Subset
  <2>2. \A p \in P \ {q} : f[p] \in Nat /\ g[p] = f[p]
    BY <1>6
  <2> HIDE DEF P, f, g
  <2>3. SumFunctionOnSet(f, P \ {q}) = SumFunctionOnSet(g, P \ {q})
    BY <2>1, <2>2, SumSame, Zenon
  <2>4. SumFunctionOnSet(f, P \ {q}) \in Nat
    BY <2>1, <2>2, SumIs, Zenon
  <2> QED
    BY <2>3, <2>4, Zenon
<1>9. Charge(a) \in Nat /\ Charge(Here) \in Nat
  BY <1>1 DEF Attempt, Charge
<1>10. Total' + Charge(Here) = Total + Charge(a) /\ Total' \in Nat
  <2> HIDE DEF P, f, g
  <2>1. f[q] = Charge(Here) /\ g[q] = Charge(a)
    BY <1>6 DEF f, g
  <2> QED
    BY <1>7, <1>8, <1>9, <2>1
<1> QED
  BY <1>3, <1>4, <1>5, <1>10

LEMMA PrepareBills ==
  ASSUME IInv, IInv', prepare
  PROVE  Total' = Total /\ (NoneMissing => NoneMissing')
<1> DEFINE t == job.t
           q == <<job.t, job.k>>
<1>1. /\ attempts' = [attempts EXCEPT ![t] = Append(attempts[t], EmptyAttempt)]
      /\ pc = "prepare" /\ scratch' = NoEvidence
  BY DEF prepare
<1>2. /\ t \in Trials /\ job.k \in 1..MaxAttempts /\ attempts[t] \in Seq(Attempt)
      /\ job.k = Len(attempts[t]) + 1 /\ attempts \in [Trials -> Seq(Attempt)]
  BY <1>1 DEF IInv, TypeOK, Prepared
<1>3. EmptyAttempt \in Attempt /\ EmptyAttempt.billed = 0 /\ EmptyAttempt.cost = "known"
  BY DEF EmptyAttempt, Attempt, Cost
<1>4. /\ Len(attempts'[t]) = Len(attempts[t]) + 1 /\ Len(attempts[t]) \in Nat
      /\ attempts'[t][job.k] = EmptyAttempt
      /\ \A k \in 1..Len(attempts[t]) : attempts'[t][k] = attempts[t][k]
      /\ \A u \in Trials \ {t} : attempts'[u] = attempts[u]
  BY <1>1, <1>2, <1>3, AppendProperties
<1>5. Positions' = Positions \cup {q} /\ q \notin Positions
  <2>1. ASSUME NEW p \in Trials \X (1..MaxAttempts)
        PROVE  p[2] <= Len(attempts'[p[1]]) <=> p[2] <= Len(attempts[p[1]]) \/ p = q
    <3>1. p = <<p[1], p[2]>> /\ p[1] \in Trials /\ p[2] \in 1..MaxAttempts
      OBVIOUS
    <3>2. CASE p[1] = t
      BY <1>2, <1>4, <3>1, <3>2, ScheduleAssumption
    <3>3. CASE p[1] # t
      BY <1>4, <3>1, <3>3
    <3> QED
      BY <3>2, <3>3
  <2>2. q \in Trials \X (1..MaxAttempts) /\ ~(q[2] <= Len(attempts[q[1]]))
    BY <1>2, <1>4, ScheduleAssumption
  <2> HIDE DEF q
  <2> QED
    BY <2>1, <2>2 DEF Positions
<1>6. attempts'[q[1]][q[2]] = EmptyAttempt
  BY <1>4
<1>7. \A p \in Positions : attempts'[p[1]][p[2]] = At(p)
  <2> TAKE p \in Positions
  <2>1. p[1] \in Trials /\ p[2] \in 1..MaxAttempts /\ p[2] <= Len(attempts[p[1]])
    BY DEF Positions
  <2>2. CASE p[1] = t
    <3>1. p[2] \in 1..Len(attempts[t])
      BY <1>4, <2>1, <2>2, ScheduleAssumption
    <3> QED
      BY <1>4, <2>2, <3>1 DEF At
  <2>3. CASE p[1] # t
    BY <1>4, <2>1, <2>3 DEF At
  <2> QED
    BY <2>2, <2>3
<1>8. NoneMissing => NoneMissing'
  <2>1. \A p \in Positions' : At(p)' = attempts'[p[1]][p[2]]
    BY DEF At
  <2>2. NoEvidence.cost # "missing" /\ EmptyAttempt.cost # "missing"
    BY <1>3 DEF NoEvidence
  <2>3. ASSUME NoneMissing, NEW p \in Positions' PROVE attempts'[p[1]][p[2]].cost # "missing"
    BY <1>5, <1>6, <1>7, <2>2, <2>3 DEF NoneMissing
  <2> QED
    BY <1>1, <2>1, <2>2, <2>3 DEF NoneMissing
<1>9. /\ IsFiniteSet(Positions) /\ IsFiniteSet(Positions')
      /\ \A p \in Positions : Charges[p] \in Nat /\ Charges'[p] = Charges[p]
      /\ \A p \in Positions' : Charges'[p] \in Nat
      /\ Charges'[q] = 0
  <2>1. Charge(EmptyAttempt) = 0
    BY <1>3 DEF Charge
  <2> QED
    BY <1>5, <1>6, <1>7, <2>1, BilledIs, BilledNext DEF IInv
<1> HIDE DEF q
<1> DEFINE P == Positions
           R == Positions'
           f == Charges
           g == Charges'
<1>10. SumFunctionOnSet(g, R) = SumFunctionOnSet(f, P)
  <2>1. IsFiniteSet(P) /\ IsFiniteSet(R) /\ q \in R /\ R \ {q} = P /\ g[q] = 0
    BY <1>5, <1>9
  <2>2. (\A p \in P : f[p] \in Nat /\ g[p] = f[p]) /\ (\A p \in R : g[p] \in Nat)
    BY <1>9
  <2> HIDE DEF P, R, f, g
  <2>3. SumFunctionOnSet(g, R) = g[q] + SumFunctionOnSet(g, P)
    BY <2>1, <2>2, SumRemove
  <2>4. SumFunctionOnSet(f, P) = SumFunctionOnSet(g, P)
    BY <2>1, <2>2, SumSame, Zenon
  <2>5. SumFunctionOnSet(f, P) \in Nat
    BY <2>1, <2>2, SumIs, Zenon
  <2> QED
    BY <2>1, <2>3, <2>4, <2>5
<1> QED
  BY <1>8, <1>10 DEF Total

LEMMA SameBills ==
  ASSUME attempts' = attempts
  PROVE  /\ Total' = Total
         /\ NoneMissing /\ scratch'.cost # "missing" => NoneMissing'
BY DEF Total, Charges, Positions, At, NoneMissing

LEMMA NoEvidenceKnown == NoEvidence.cost # "missing"
BY DEF NoEvidence

\* Steps that charge nothing, after which nothing is reserved.
LEMMA PlainFunds ==
  ASSUME IInv, Cap # None, Funded, Total' <= Total, Total' \in Nat, pc' \notin {"prepare", "agent"}
  PROVE  Funded'
<1>1. Total \in Nat /\ Cap \in Nat
  BY BilledIs, ScheduleAssumption DEF IInv
<1> QED
  BY <1>1 DEF Funded

LEMMA UpdateFunds ==
  ASSUME IInv, IInv', Cap # None, Working, Funded, NEW a \in Attempt, Update(a),
         a.billed = Here.billed, Here.cost = "missing" => a.cost = "missing",
         pc' \notin {"prepare", "agent"}
  PROVE  Funded'
<1>1. Total' + Charge(Here) = Total + Charge(a) /\ Total' \in Nat
  BY UpdateBills
<1>2. Here \in Attempt /\ Total \in Nat
  BY HereIs, BilledIs DEF IInv
<1>3. Charge(a) \in Nat /\ Charge(Here) \in Nat /\ Charge(a) <= Charge(Here)
  BY <1>2 DEF Charge, Attempt
<1>4. Total' <= Total
  BY <1>1, <1>2, <1>3
<1> QED
  BY <1>1, <1>4, PlainFunds

LEMMA HereNext ==
  ASSUME IInv, Working, NEW a \in Attempt, Update(a), job' = job
  PROVE  Here' = a
<1>1. job.t \in Trials /\ job.k \in 1..Len(attempts[job.t])
  BY HereIs DEF IInv
<1> QED
  BY <1>1, Updates DEF IInv, Here

LEMMA UnreportedStep ==
  ASSUME IInv, Unreported, [Next]_vars
  PROVE  Unreported'
<1> USE DEF Unreported
<1>1. CASE UNCHANGED vars
  BY <1>1 DEF vars, Here
<1>2. CASE prepare
  <2>1. attempts' = [attempts EXCEPT ![job.t] = Append(attempts[job.t], EmptyAttempt)] /\ job' = job
    BY <1>2 DEF prepare
  <2>2. attempts \in [Trials -> Seq(Attempt)] /\ job.t \in Trials
        /\ job.k = Len(attempts[job.t]) + 1 /\ attempts[job.t] \in Seq(Attempt)
    BY <1>2 DEF prepare, IInv, TypeOK, Prepared
  <2>3. Append(attempts[job.t], EmptyAttempt)[job.k] = EmptyAttempt
    BY <2>2
  <2> QED
    BY <2>1, <2>2, <2>3 DEF Here, EmptyAttempt
<1>3. ASSUME NEW a \in Attempt, Working, Update(a), job' = job, a.cost = Here.cost,
             pc \in {"agent", "exited", "collecting"}
      PROVE  Unreported'
  BY <1>3, HereNext
<1>4. ASSUME NEW billed \in 0..Bound[job.t], AgentRecords(billed) PROVE Unreported'
  <2> DEFINE a == [Here EXCEPT !.billed = billed]
  <2>1. pc = "agent" /\ Working /\ Update(a) /\ job' = job
    BY <1>4 DEF AgentRecords, Working
  <2>2. Here \in Attempt /\ job.t \in Trials
    BY <2>1, HereIs DEF IInv
  <2>3. a \in Attempt /\ a.cost = Here.cost
    BY <2>2, ScheduleAssumption DEF Attempt
  <2> HIDE DEF a
  <2> QED
    BY <1>3, <2>1, <2>3
<1>5. ASSUME NEW status, NEW cost, AgentFinalizes(status, cost) PROVE Unreported'
  BY <1>5 DEF AgentFinalizes, Here
<1>6. CASE AgentExits
  BY <1>6 DEF AgentExits, Here
<1>7. CASE collect_events
  <2> DEFINE a == Collected(Here, "events")
  <2>1. pc = "exited" /\ Working /\ Update(a) /\ job' = job
    BY <1>7 DEF collect_events, Working
  <2>2. Here \in Attempt
    BY <2>1, HereIs DEF IInv
  <2>3. a \in Attempt /\ a.cost = Here.cost
    BY <2>1, <2>2, CollectedIs DEF Collected, Attempt
  <2> HIDE DEF a
  <2> QED
    BY <1>3, <2>1, <2>3
<1>8. CASE Invoke \/ next \/ collect_run \/ inspect \/ export \/ ValidateEnds \/ validate_throws
  BY <1>8 DEF Invoke, next, collect_run, inspect, export, ValidateEnds, validate,
              validate_throws, Ends
<1>9. ASSUME NEW copied, Halt(copied) PROVE Unreported'
  BY <1>9 DEF Halt, Ends
<1> QED
  BY <1>1, <1>2, <1>4, <1>5, <1>6, <1>7, <1>8, <1>9 DEF Next, AgentStep, LauncherStep

\* The reserve check: all of the total is in the spend it looks at.
LEMMA nextFunds ==
  ASSUME IInv, Cap # None, Funded, next, pc' = "prepare"
  PROVE  Total + Bound[job'.t] <= Cap
<1>1. /\ nextEvaluationAction = "run"
      /\ job' = [t |-> Min(Undecided), k |-> Len(attempts[Min(Undecided)]) + 1]
  BY DEF next, Ends
<1>2. TrialAction(Min(Undecided)) = "run" /\ Undecided # {}
  BY <1>1, NextActionIs
<1>3. Min(Undecided) \in Trials
  BY <1>2, FirstUndecided DEF IInv
<1>4. ~OverBudget(Min(Undecided))
  BY <1>2 DEF TrialAction
<1>5. SpendKnown
  BY <1>1 DEF nextEvaluationAction
<1> DEFINE P == Positions
           K == {p \in Positions : At(p).run # None /\ At(p).cost = "known"}
           f == Charges
           g == Billed
<1>6. \A p \in P : At(p).cost = "missing" \/ p \in K
  BY <1>5, BilledIs DEF IInv, SpendKnown, Priced, Attempt, Cost
<1>7. /\ IsFiniteSet(P) /\ \A p \in P : f[p] \in Nat
      /\ \A p \in P \ K : f[p] = 0
      /\ \A p \in K : g[p] = f[p]
  BY <1>6, BilledIs DEF IInv, Charge
<1>8. K \in SUBSET P /\ IsFiniteSet(K)
  BY <1>7, FS_Subset
<1>9. experimentSpend = SumFunctionOnSet(g, K) /\ Total = SumFunctionOnSet(f, P)
  BY DEF experimentSpend, Total
<1> HIDE DEF P, K, f, g
<1>10. SumFunctionOnSet(f, P) = SumFunctionOnSet(f, K)
  BY <1>7, <1>8, SumNonzero
<1>11. \A p \in K : f[p] \in Nat /\ g[p] = f[p]
  BY <1>7, <1>8
<1>12. SumFunctionOnSet(f, K) = SumFunctionOnSet(g, K)
  BY <1>8, <1>11, SumSame, Zenon
<1>13. experimentSpend = Total
  BY <1>9, <1>10, <1>12
<1>14. Total \in Nat /\ Cap \in Nat /\ Bound[Min(Undecided)] \in Nat
  BY <1>3, BilledIs, ScheduleAssumption DEF IInv
<1> QED
  BY <1>1, <1>4, <1>13, <1>14 DEF OverBudget

LEMMA FundedStep ==
  ASSUME IInv, IInv', Unreported, [Next]_vars, Cap # None, Funded
  PROVE  Funded'
<1>0. Total \in Nat /\ Cap \in Nat
  BY BilledIs, ScheduleAssumption DEF IInv
<1>a. ASSUME attempts' = attempts, pc' \notin {"prepare", "agent"} PROVE Funded'
  BY <1>0, <1>a, SameBills, PlainFunds
<1>1. CASE UNCHANGED vars
  BY <1>1, SameBills DEF vars, Funded, Here
<1>2. CASE Invoke \/ AgentExits \/ validate_throws \/ inspect
  <2>1. attempts' = attempts /\ pc' \notin {"prepare", "agent"}
    BY <1>2 DEF Invoke, AgentExits, validate_throws, inspect, Ends
  <2> QED
    BY <2>1, <1>a
<1>3. CASE next
  <2>1. attempts' = attempts /\ pc' \in {"off", "prepare", "validate"}
    BY <1>3 DEF next, Ends
  <2>2. CASE pc' = "prepare"
    <3>1. Total + Bound[job'.t] <= Cap
      BY <1>3, <2>2, nextFunds
    <3> QED
      BY <2>1, <2>2, <3>1, SameBills DEF Funded
  <2> QED
    BY <2>1, <2>2, <1>a
<1>4. CASE prepare
  <2>1. pc = "prepare" /\ pc' = "agent" /\ job' = job
    BY <1>4 DEF prepare
  <2>2. Total' = Total
    BY <1>4, PrepareBills
  <2>3. Here'.billed = 0
    <3>1. attempts' = [attempts EXCEPT ![job.t] = Append(attempts[job.t], EmptyAttempt)]
      BY <1>4 DEF prepare
    <3>2. attempts \in [Trials -> Seq(Attempt)] /\ job.t \in Trials
          /\ job.k = Len(attempts[job.t]) + 1 /\ attempts[job.t] \in Seq(Attempt)
      BY <2>1 DEF IInv, TypeOK, Prepared
    <3>3. Append(attempts[job.t], EmptyAttempt)[job.k] = EmptyAttempt
      BY <3>2
    <3> QED
      BY <2>1, <3>1, <3>2, <3>3 DEF Here, EmptyAttempt
  <2> QED
    BY <2>1, <2>2, <2>3 DEF Funded
<1>5. ASSUME NEW status, NEW cost, AgentFinalizes(status, cost) PROVE Funded'
  <2>1. attempts' = attempts /\ pc' = pc /\ job' = job /\ scratch'.events = scratch.events
    <3>1. scratch \in [events : BOOLEAN, run : Status \cup {None}, cost : Cost]
      BY DEF IInv, TypeOK
    <3> QED
      BY <1>5, <3>1 DEF AgentFinalizes
  <2> QED
    BY <2>1, SameBills DEF Funded, Here
<1>6. ASSUME NEW billed \in 0..Bound[job.t], AgentRecords(billed) PROVE Funded'
  <2> DEFINE a == [Here EXCEPT !.billed = billed]
  <2>1. /\ pc = "agent" /\ Working /\ Update(a) /\ ~scratch.events /\ pc' = pc
        /\ scratch' = [scratch EXCEPT !.events = TRUE]
    BY <1>6 DEF AgentRecords, Working
  <2>2. Here \in Attempt /\ job.t \in Trials
    BY <2>1, HereIs DEF IInv
  <2>3. Bound[job.t] \in Nat /\ billed \in Nat /\ billed <= Bound[job.t]
    BY <2>2, ScheduleAssumption
  <2>4. a \in Attempt /\ a.billed = billed /\ a.cost = Here.cost
    BY <2>2, <2>3 DEF Attempt
  <2>5. scratch'.events
    <3>1. scratch \in [events : BOOLEAN, run : Status \cup {None}, cost : Cost]
      BY DEF IInv, TypeOK
    <3> QED
      BY <2>1, <3>1
  <2>6. Here.billed = 0 /\ Total + Bound[job.t] <= Cap /\ Here.cost # "missing"
    BY <2>1 DEF Funded, Unreported
  <2> HIDE DEF a
  <2>7. Total' + Charge(Here) = Total + Charge(a)
    BY <2>1, <2>4, UpdateBills
  <2>8. Charge(Here) = 0 /\ Charge(a) = billed /\ Total' \in Nat
    BY <2>1, <2>4, <2>6, UpdateBills DEF Charge
  <2>9. Total' <= Cap
    BY <1>0, <2>3, <2>6, <2>7, <2>8
  <2> QED
    BY <2>1, <2>5, <2>9 DEF Funded
<1>7. ASSUME NEW copied \in {"none", "events", "all"}, Update(Collected(Here, copied)),
             pc \in {"agent", "exited", "collecting"}, pc' \notin {"prepare", "agent"}
      PROVE  Funded'
  <2>1. Working /\ Here \in Attempt
    BY <1>7, HereIs DEF IInv, Working
  <2>2. Collected(Here, copied) \in Attempt
    BY <2>1, CollectedIs
  <2>3. Collected(Here, copied).billed = Here.billed /\ Here.cost # "missing"
    BY <1>7, <2>1 DEF Collected, Attempt, Unreported
  <2> QED
    BY <1>7, <2>1, <2>2, <2>3, UpdateFunds
<1>8. CASE collect_events \/ collect_run
  <2>1. CASE collect_events
    BY <2>1, <1>7 DEF collect_events
  <2>2. CASE collect_run
    BY <2>2, <1>7 DEF collect_run
  <2> QED
    BY <1>8, <2>1, <2>2
<1>9. CASE export
  <2> DEFINE a == [Here EXCEPT !.submission = TRUE]
  <2>1. Working /\ Update(a) /\ pc' = "validate"
    BY <1>9 DEF export, Working
  <2>2. a \in Attempt /\ a.billed = Here.billed /\ a.cost = Here.cost
    BY <2>1, HereIs DEF IInv, Attempt
  <2> HIDE DEF a
  <2> QED
    BY <2>1, <2>2, UpdateFunds
<1>10. CASE ValidateEnds
  <2>1. PICK status \in {"pass", "fail", "error"} : validate(status)
    BY <1>10 DEF ValidateEnds
  <2> DEFINE a == [Here EXCEPT !.validation = status]
  <2>2. Working /\ Update(a) /\ pc' \in {"next", "off"}
    BY <2>1 DEF validate, Working, Ends
  <2>3. a \in Attempt /\ a.billed = Here.billed /\ a.cost = Here.cost
    BY <2>2, HereIs DEF IInv, Attempt
  <2> HIDE DEF a
  <2> QED
    BY <2>2, <2>3, UpdateFunds
<1>11. ASSUME NEW copied \in {"none", "events", "all"}, Halt(copied) PROVE Funded'
  <2>1. pc' = "off"
    BY <1>11 DEF Halt, Ends
  <2>2. CASE attempts' = attempts
    BY <2>1, <2>2, <1>a
  <2>3. CASE attempts' # attempts
    BY <1>11, <2>1, <2>3, <1>7 DEF Halt
  <2> QED
    BY <2>2, <2>3
<1> QED
  BY <1>1, <1>2, <1>3, <1>4, <1>5, <1>6, <1>8, <1>9, <1>10, <1>11
     DEF Next, AgentStep, LauncherStep

\* What the attempts that report some usage were billed stays within the cap.
ChargedWithinCap ==
  Cap # None => SumFunction(Charges) <= Cap

\* Whatever runs report or leave out, an experiment exceeds --max-cost-usd at most by what
\* was billed for runs that reported no usage at all: for every schedule and budget and
\* through every interruption, kill and resume.
THEOREM ChargesStayWithinCap == Spec => []ChargedWithinCap
<1>1. Init => Budget
  <2> SUFFICES ASSUME Init, Cap # None PROVE Funded
    BY DEF Init, Budget, Unreported
  <2>1. \A t \in Trials : attempts[t] = <<>> /\ Len(attempts[t]) = 0
    BY DEF Init
  <2>2. Positions = {}
    BY <2>1, ScheduleAssumption DEF Positions
  <2>3. Total = 0
    BY <2>2, FS_EmptySet, SumIs DEF Total
  <2>4. Cap \in Nat
    BY ScheduleAssumption
  <2> QED
    BY <2>3, <2>4 DEF Init, Funded
<1>2. IInv /\ IInv' /\ Budget /\ [Next]_vars => Budget'
  BY FundedStep, UnreportedStep DEF Budget
<1>3. Budget => ChargedWithinCap
  <2>1. DOMAIN Charges = Positions
    BY DEF Charges
  <2> QED
    BY <2>1 DEF Budget, Funded, Total, ChargedWithinCap, SumFunction
<1> QED
  BY Invariant, <1>1, <1>2, <1>3, PTL DEF Spec

LEMMA UpdateReports ==
  ASSUME IInv, IInv', Working, NoneMissing, NEW a \in Attempt, Update(a),
         a.cost # "missing", scratch'.cost # "missing"
  PROVE  NoneMissing'
<1>1. /\ Positions' = Positions
      /\ \A p \in Positions : attempts'[p[1]][p[2]] = At(p) \/ attempts'[p[1]][p[2]] = a
  BY UpdateBills
<1> QED
  BY <1>1 DEF NoneMissing, At

LEMMA NoneMissingStep ==
  ASSUME IInv, IInv', [Next]_vars, ~MissingUsage, NoneMissing
  PROVE  NoneMissing'
<1>0. scratch.cost # "missing"
      /\ scratch \in [events : BOOLEAN, run : Status \cup {None}, cost : Cost]
  BY DEF NoneMissing, IInv, TypeOK
<1>1. CASE UNCHANGED vars
  BY <1>0, <1>1, SameBills DEF vars
<1>2. CASE Invoke \/ AgentExits \/ validate_throws \/ inspect \/ next
  <2>1. attempts' = attempts /\ scratch'.cost # "missing"
    BY <1>0, <1>2, NoEvidenceKnown DEF Invoke, AgentExits, validate_throws, inspect, next, Ends
  <2> QED
    BY <2>1, SameBills
<1>3. CASE prepare
  BY <1>3, PrepareBills
<1>4. ASSUME NEW status, NEW cost \in Reported, AgentFinalizes(status, cost) PROVE NoneMissing'
  <2>1. attempts' = attempts /\ scratch'.cost = cost /\ cost # "missing"
    BY <1>0, <1>4 DEF AgentFinalizes, Reported
  <2> QED
    BY <2>1, SameBills
<1>5. ASSUME Working PROVE Here \in Attempt /\ Here.cost # "missing"
  <2>1. Here \in Attempt /\ job.t \in Trials /\ job.k \in 1..Len(attempts[job.t]) /\ job.k \in 1..MaxAttempts
    BY <1>5, HereIs DEF IInv, TypeOK
  <2>2. <<job.t, job.k>> \in Positions /\ At(<<job.t, job.k>>) = Here
    BY <2>1 DEF Positions, At, Here
  <2> QED
    BY <2>1, <2>2 DEF NoneMissing
<1>6. ASSUME NEW billed \in 0..Bound[job.t], AgentRecords(billed) PROVE NoneMissing'
  <2> DEFINE a == [Here EXCEPT !.billed = billed]
  <2>1. Working /\ Update(a) /\ scratch'.cost = scratch.cost
    BY <1>0, <1>6 DEF AgentRecords, Working
  <2>2. billed \in Nat
    BY <2>1, HereIs, ScheduleAssumption DEF IInv
  <2>3. a \in Attempt /\ a.cost = Here.cost
    BY <1>5, <2>1, <2>2 DEF Attempt
  <2> HIDE DEF a
  <2> QED
    BY <1>0, <1>5, <2>1, <2>3, UpdateReports
<1>7. ASSUME Working, NEW copied \in {"none", "events", "all"}, Update(Collected(Here, copied)),
             scratch'.cost # "missing"
      PROVE  NoneMissing'
  <2>1. Collected(Here, copied) \in Attempt
    BY <1>7, CollectedIs
  <2>2. Collected(Here, copied).cost # "missing"
    BY <1>0, <1>5, <1>7 DEF Collected, Attempt
  <2> QED
    BY <1>7, <2>1, <2>2, UpdateReports
<1>8. CASE collect_events \/ collect_run
  BY <1>0, <1>7, <1>8, NoEvidenceKnown DEF collect_events, collect_run, Working
<1>9. CASE export
  <2> DEFINE a == [Here EXCEPT !.submission = TRUE]
  <2>1. Working /\ Update(a) /\ scratch' = scratch
    BY <1>9 DEF export, Working
  <2>2. a \in Attempt /\ a.cost # "missing"
    BY <1>5, <2>1 DEF Attempt
  <2> HIDE DEF a
  <2> QED
    BY <1>0, <2>1, <2>2, UpdateReports
<1>10. CASE ValidateEnds
  <2>1. PICK status \in {"pass", "fail", "error"} : validate(status)
    BY <1>10 DEF ValidateEnds
  <2> DEFINE a == [Here EXCEPT !.validation = status]
  <2>2. Working /\ Update(a) /\ scratch'.cost # "missing"
    BY <1>0, <2>1, NoEvidenceKnown DEF validate, Working, Ends
  <2>3. a \in Attempt /\ a.cost # "missing"
    BY <1>5, <2>2 DEF Attempt
  <2> HIDE DEF a
  <2> QED
    BY <2>2, <2>3, UpdateReports
<1>11. ASSUME NEW copied \in {"none", "events", "all"}, Halt(copied) PROVE NoneMissing'
  <2>1. scratch'.cost # "missing"
    BY <1>11, NoEvidenceKnown DEF Halt, Ends
  <2>2. CASE attempts' = attempts
    BY <2>1, <2>2, SameBills
  <2>3. CASE attempts' # attempts
    BY <1>7, <1>11, <2>1, <2>3 DEF Halt, Working
  <2> QED
    BY <2>2, <2>3
<1> QED
  BY <1>1, <1>2, <1>3, <1>4, <1>6, <1>8, <1>9, <1>10, <1>11 DEF Next, AgentStep, LauncherStep

\* If every finalized run reports some usage, the reserve check keeps what the
\* providers bill for all attempts within --max-cost-usd.
THEOREM BilledStaysWithinCap == ~MissingUsage => (Spec => []BilledWithinCap)
<1> SUFFICES ASSUME ~MissingUsage PROVE Spec => []BilledWithinCap
  OBVIOUS
<1>1. Init => NoneMissing
  <2> SUFFICES ASSUME Init PROVE NoneMissing
    OBVIOUS
  <2>1. \A t \in Trials : Len(attempts[t]) = 0
    BY DEF Init
  <2>2. Positions = {}
    BY <2>1, ScheduleAssumption DEF Positions
  <2> QED
    BY <2>2, NoEvidenceKnown DEF Init, NoneMissing
<1>2. IInv /\ IInv' /\ NoneMissing /\ [Next]_vars => NoneMissing'
  BY NoneMissingStep
<1>3. NoneMissing /\ ChargedWithinCap => BilledWithinCap
  <2> SUFFICES ASSUME NoneMissing PROVE Charges = Billed
    BY DEF ChargedWithinCap, BilledWithinCap
  <2>1. \A p \in Positions : Charge(At(p)) = At(p).billed
    BY DEF NoneMissing, Charge
  <2> QED
    BY <2>1 DEF Charges, Billed
<1> QED
  BY Invariant, ChargesStayWithinCap, <1>1, <1>2, <1>3, PTL DEF Spec

-----------------------------------------------------------------------------
(* What makes an experiment unreadable (InterruptedResumes). *)

\* It has an attempt without an event log, and that is the last of all its attempts.
UnreadableIsLast ==
  nextEvaluationAction = "unreadable" =>
    \E p \in Positions : ~At(p).events /\ \A q \in Positions \ {p} : Before(q, p)

LEMMA NothingAfterUnreadable ==
  ASSUME IInv, NEW p \in Positions, ~At(p).events, NEW q \in Positions \ {p}
  PROVE  Before(q, p)
<1>1. /\ p[1] \in Trials /\ p[2] \in 1..Len(attempts[p[1]]) /\ p = <<p[1], p[2]>>
      /\ q[1] \in Trials /\ q[2] \in 1..Len(attempts[q[1]]) /\ q = <<q[1], q[2]>>
  BY ScheduleAssumption DEF Positions
<1>2. \A t \in Trials : t \in Nat /\ attempts[t] \in Seq(Attempt) /\ Len(attempts[t]) \in Nat
  BY ScheduleAssumption DEF IInv, TypeOK, Trials
<1>3. ~(\E k \in 1..(Len(attempts[p[1]]) - 1) : k = p[2])
  BY <1>1 DEF IInv, Replaced, Passed, At
<1>4. p[2] = Len(attempts[p[1]])
  BY <1>1, <1>2, <1>3
<1>5. ~HasTerminal(p[1])
  <2> SUFFICES ASSUME NEW k \in 1..Len(attempts[p[1]]), Terminal(attempts[p[1]][k]) PROVE FALSE
    BY DEF HasTerminal
  <2>1. CASE k = p[2]
    BY <2>1 DEF Terminal, At
  <2>2. CASE k # p[2]
    <3>1. k \in 1..(Len(attempts[p[1]]) - 1)
      BY <1>1, <1>2, <1>4, <2>2
    <3> QED
      BY <1>1, <3>1 DEF IInv, Replaced, Passed
  <2> QED
    BY <2>1, <2>2
<1>6. ~(p[1] < q[1])
  <2> SUFFICES ASSUME p[1] < q[1] PROVE FALSE
    OBVIOUS
  <2>1. p[1] \in 1..(q[1] - 1)
    BY <1>1, <1>2, ScheduleAssumption DEF Trials
  <2>2. attempts[q[1]] # <<>>
    BY <1>1, <1>2
  <2> QED
    BY <1>1, <1>5, <2>1, <2>2 DEF IInv, InOrder
<1>7. p[1] = q[1] => p[2] # q[2]
  BY <1>1
<1> QED
  BY <1>1, <1>2, <1>4, <1>6, <1>7 DEF Before

\* For any schedule, failures and kills: what the controller cannot read is the one
\* directory that was made last, so that an experiment is stuck on at most one.
THEOREM UnreadablesAreLast == Spec => []UnreadableIsLast
<1>1. IInv => UnreadableIsLast
  <2> SUFFICES ASSUME IInv, nextEvaluationAction = "unreadable"
               PROVE  \E p \in Positions : ~At(p).events
    BY NothingAfterUnreadable DEF UnreadableIsLast
  <2>1. CASE SpendThrows
    BY <2>1 DEF SpendThrows
  <2>2. CASE ~SpendThrows
    <3> DEFINE t == Min(Undecided)
               k == Min(Stops(t))
    <3>1. Undecided # {} /\ TrialAction(t) = "unreadable"
      BY <2>2 DEF nextEvaluationAction
    <3>2. t \in Trials
      BY <3>1, FirstUndecided DEF IInv
    <3>3. Stops(t) # {} /\ ~attempts[t][k].events
      BY <3>1 DEF TrialAction
    <3>4. Stops(t) \in SUBSET Nat /\ Stops(t) \subseteq 1..Len(attempts[t])
          /\ Len(attempts[t]) <= MaxAttempts /\ Len(attempts[t]) \in Nat
      BY <3>2 DEF IInv, TypeOK, Stops
    <3>5. k \in 1..Len(attempts[t])
      BY <3>3, <3>4, MinIs
    <3> HIDE DEF t, k
    <3>6. <<t, k>> \in Positions /\ At(<<t, k>>) = attempts[t][k]
      BY <3>2, <3>4, <3>5, ScheduleAssumption DEF Positions, At
    <3> QED
      BY <3>3, <3>6
  <2> QED
    BY <2>1, <2>2
<1> QED
  BY Invariant, <1>1, PTL

-----------------------------------------------------------------------------
(* The safety half of InvocationEnds: an invocation moves only forward. *)

Closed == {t \in Trials : HasTerminal(t)}

\* The first trial without an outcome, or the end of the schedule.
Front == Min((Trials \ Closed) \cup {NumTrials + 1})

\* How far the attempt in hand is.
StepNo ==
  CASE pc = "prepare"    -> 1
    [] pc = "agent"      -> IF ~scratch.events THEN 2 ELSE IF scratch.run = None THEN 3 ELSE 4
    [] pc = "exited"     -> 5
    [] pc = "collecting" -> 6
    [] pc = "inspect"    -> 7
    [] pc = "export"     -> 8
    [] pc = "validate"   -> 9
    [] OTHER             -> 0

\* Trial, attempt and step; between attempts, those of the last one at the first
\* trial that is open.
Place ==
  IF pc = "next"
  THEN <<Front, IF Front \in Trials THEN Len(attempts[Front]) ELSE 0, 0>>
  ELSE <<job.t, job.k, StepNo>>

Ahead(p, q) ==
  \/ p[1] < q[1]
  \/ p[1] = q[1] /\ p[2] < q[2]
  \/ p[1] = q[1] /\ p[2] = q[2] /\ p[3] < q[3]

\* Every step of an invocation takes it forward, except a validation that throws and
\* leaves its trial open.
Forward ==
  pc # "off" /\ pc' # "off" /\ ~(validate_throws /\ ~Terminal(Here)) => Ahead(Place, Place')

LEMMA FrontOf ==
  ASSUME NEW H \in SUBSET Trials, NEW m, m = Min((Trials \ H) \cup {NumTrials + 1})
  PROVE  m \in 1..(NumTrials + 1) /\ m \notin H /\ \A u \in Trials \ H : m <= u
<1> DEFINE F == (Trials \ H) \cup {NumTrials + 1}
<1>1. F \in SUBSET Nat /\ F # {} /\ F \subseteq 1..(NumTrials + 1) /\ F \cap H = {}
  BY ScheduleAssumption DEF Trials
<1>2. \A u \in Trials \ H : u \in F
  OBVIOUS
<1>3. m = Min(F)
  OBVIOUS
<1> HIDE DEF F
<1>4. Min(F) \in F /\ \A y \in F : Min(F) <= y
  BY <1>1, MinIs
<1> QED
  BY <1>1, <1>2, <1>3, <1>4

\* The controller goes on with the first trial that is open.
LEMMA FrontIsFirst ==
  ASSUME NEW m \in Trials, ~HasTerminal(m), \A u \in 1..(m - 1) : HasTerminal(u)
  PROVE  Front = m
<1>0. Closed \in SUBSET Trials /\ m \in Trials \ Closed
  BY DEF Closed
<1>1. /\ Front <= m /\ Front \in 1..(NumTrials + 1) /\ Front \notin Closed
      /\ m \in 1..NumTrials /\ NumTrials \in Nat
  BY <1>0, FrontOf, ScheduleAssumption DEF Trials, Front
<1>2. ~(Front < m)
  <2> SUFFICES ASSUME Front < m PROVE FALSE
    OBVIOUS
  <2>1. Front \in Trials /\ Front \in 1..(m - 1)
    BY <1>1 DEF Trials
  <2> QED
    BY <1>1, <2>1 DEF Closed
<1> QED
  BY <1>1, <1>2

LEMMA NextGoesForward == ASSUME IInv, next, pc' # "off" PROVE Ahead(Place, Place')
<1> DEFINE t == Min(Undecided)
<1>1. /\ pc = "next" /\ attempts' = attempts /\ nextEvaluationAction \in {"run", "validate"}
      /\ \/ /\ nextEvaluationAction = "run" /\ pc' = "prepare"
            /\ job' = [t |-> t, k |-> Len(attempts[t]) + 1]
         \/ /\ nextEvaluationAction = "validate" /\ pc' = "validate"
            /\ job' = [t |-> t, k |-> Min(Stops(t))]
  BY DEF next, Ends
<1>2. Undecided # {} /\ nextEvaluationAction = TrialAction(t)
  BY <1>1, NextActionIs
<1>3. t \in Trials /\ \A u \in 1..(t - 1) : HasTerminal(u)
  BY <1>2, FirstUndecided DEF IInv
<1>4. /\ attempts[t] \in Seq(Attempt) /\ Len(attempts[t]) \in Nat
      /\ DOMAIN attempts[t] = 1..Len(attempts[t]) /\ Len(attempts[t]) <= MaxAttempts
  BY <1>3 DEF IInv, TypeOK
<1>5. CASE nextEvaluationAction = "run"
  <2>1. Stops(t) = {}
    BY <1>2, <1>5 DEF TrialAction
  <2>2. ~HasTerminal(t)
    BY <1>4, <2>1 DEF Stops, HasTerminal
  <2> HIDE DEF t
  <2>3. Front = t
    BY <1>3, <2>2, FrontIsFirst
  <2>4. Place = <<t, Len(attempts[t]), 0>> /\ job'.t = t /\ job'.k = Len(attempts[t]) + 1
        /\ pc' # "next"
    BY <1>1, <1>3, <1>5, <2>3 DEF Place
  <2> QED
    BY <1>4, <2>4 DEF Place, Ahead
<1>6. CASE nextEvaluationAction = "validate"
  <2> DEFINE k == Min(Stops(t))
  <2>1. Stops(t) # {} /\ ~Terminal(attempts[t][k])
    BY <1>2, <1>6 DEF TrialAction
  <2>2. Stops(t) \in SUBSET Nat /\ Stops(t) \subseteq 1..Len(attempts[t])
    BY <1>4 DEF Stops
  <2>3. k \in Stops(t) /\ k \in 1..Len(attempts[t])
    BY <2>1, <2>2, MinIs
  <2>4. k = Len(attempts[t])
    <3>1. ~Passed(attempts[t][k])
      BY <2>3 DEF Stops, Passed
    <3> QED
      BY <1>3, <1>4, <2>3, <3>1 DEF IInv, Replaced
  <2> HIDE DEF t, k
  <2>5. ~HasTerminal(t)
    <3> SUFFICES ASSUME NEW i \in 1..Len(attempts[t]), Terminal(attempts[t][i]) PROVE FALSE
      BY DEF HasTerminal
    <3>1. i # k /\ i \in 1..(Len(attempts[t]) - 1)
      BY <1>4, <2>1, <2>4
    <3> QED
      BY <1>3, <3>1 DEF IInv, Replaced, Passed
  <2>6. Front = t
    BY <1>3, <2>5, FrontIsFirst
  <2>7. Place = <<t, k, 0>>
    BY <1>1, <1>3, <2>4, <2>6 DEF Place
  <2>8. Place' = <<t, k, 9>>
    <3>1. job' = [t |-> t, k |-> k] /\ pc' = "validate"
      BY <1>1, <1>6 DEF k
    <3> QED
      BY <3>1 DEF Place, StepNo
  <2> QED
    BY <1>3, <1>4, <2>4, <2>7, <2>8 DEF Ahead
<1> QED
  BY <1>1, <1>5, <1>6

\* A trial that has its outcome after the step is left behind.
LEMMA LeavesTrial ==
  ASSUME IInv, IInv', pc = "validate", pc' = "next", job' = job,
         attempts'[job.t] # <<>>, HasTerminal(job.t)'
  PROVE  Ahead(Place, Place')
<1>1. job.t \in Trials /\ NumTrials \in Nat /\ job.t \in 1..NumTrials
  BY ScheduleAssumption DEF IInv, TypeOK, Trials
<1>2. \A u \in 1..(job.t - 1) : HasTerminal(u)'
  BY <1>1 DEF IInv, InOrder
<1>3. Front' \in 1..(NumTrials + 1) /\ Front' \notin Closed'
  <2>1. Closed' \in SUBSET Trials
    BY DEF Closed
  <2> QED
    BY <2>1, FrontOf DEF Front
<1>4. \A u \in 1..job.t : u \in Closed'
  <2> TAKE u \in 1..job.t
  <2>1. u \in Trials /\ (u = job.t \/ u \in 1..(job.t - 1))
    BY <1>1 DEF Trials
  <2>2. HasTerminal(u)'
    BY <1>2, <2>1
  <2> QED
    BY <2>1, <2>2 DEF Closed
<1>5. job.t < Front'
  BY <1>1, <1>3, <1>4
<1>6. Place[1] = job.t /\ Place'[1] = Front'
  BY DEF Place
<1> QED
  BY <1>5, <1>6 DEF Ahead

LEMMA ValidationGoesForward ==
  ASSUME IInv, IInv', pc' # "off",
         ValidateEnds \/ (validate_throws /\ Terminal(Here))
  PROVE  Ahead(Place, Place')
<1>0. pc = "validate" /\ Working
  BY DEF ValidateEnds, validate, validate_throws, Working
<1>1. job.t \in Trials /\ job.k \in 1..Len(attempts[job.t]) /\ Here \in Attempt
  BY <1>0, HereIs DEF IInv
<1>2. Here.events /\ Here.run \in {"completed", "exhausted"} /\ Here.run # None
  BY <1>0, NoneAssumption DEF IInv, Stage, Status
<1>3. CASE ValidateEnds
  <2>1. PICK status \in {"pass", "fail", "error"} : validate(status)
    BY <1>3 DEF ValidateEnds
  <2> DEFINE a == [Here EXCEPT !.validation = status]
  <2>2. Update(a) /\ pc' = "next" /\ status # "error" /\ job' = job
    BY <2>1 DEF validate, Ends
  <2>3. a \in Attempt /\ (Terminal(Here) => Terminal(a))
    BY <1>0, ValidatedIs
  <2>4. a.events /\ a.run = Here.run /\ a.validation \in {"pass", "fail"}
    BY <1>1, <1>2, <2>2 DEF Attempt
  <2> HIDE DEF a
  <2>5. Terminal(a)
    BY <1>2, <2>4 DEF Terminal, classifyTrialOutcome
  <2>6. attempts'[job.t] \in Seq(Attempt) /\ Len(attempts'[job.t]) = Len(attempts[job.t])
        /\ attempts'[job.t][job.k] = a
    BY <1>0, <1>1, <2>2, <2>3, UpdateKeeps
  <2>7. job.k \in 1..Len(attempts'[job.t]) /\ Terminal(attempts'[job.t][job.k])
    BY <1>1, <2>5, <2>6
  <2>8. attempts'[job.t] # <<>>
    BY <1>1, <2>6
  <2>9. HasTerminal(job.t)'
    BY <2>2, <2>7 DEF HasTerminal
  <2> QED
    BY <1>0, <2>2, <2>8, <2>9, LeavesTrial
<1>4. CASE validate_throws /\ Terminal(Here)
  <2>1. attempts' = attempts /\ pc' = "next" /\ job' = job
    BY <1>4 DEF validate_throws
  <2>2. HasTerminal(job.t)
    BY <1>1, <1>4 DEF HasTerminal, Here
  <2>3. HasTerminal(job.t)' /\ attempts'[job.t] # <<>>
    BY <1>1, <2>1, <2>2 DEF HasTerminal
  <2> QED
    BY <1>0, <2>1, <2>3, LeavesTrial
<1> QED
  BY <1>3, <1>4

\* A step at the attempt in hand.
LEMMA StepsForward ==
  ASSUME IInv, UNCHANGED job, pc # "next", pc' # "next", StepNo < StepNo'
  PROVE  Ahead(Place, Place')
BY DEF Place, Ahead

LEMMA ForwardStep == ASSUME IInv, IInv', [Next]_vars PROVE [Forward]_vars
<1> SUFFICES ASSUME pc # "off", pc' # "off", ~(validate_throws /\ ~Terminal(Here)), Next
             PROVE  Ahead(Place, Place')
  BY DEF Forward
<1>0. scratch.run # None => scratch.events
  BY DEF IInv, Stage
<1>1. CASE Invoke
  BY <1>1 DEF Invoke
<1>2. CASE AgentStep
  <2>1. pc = "agent" /\ pc' = "agent" /\ job' = job
    BY <1>2 DEF AgentStep, AgentRecords, AgentFinalizes
  <2>2. scratch \in [events : BOOLEAN, run : Status \cup {None}, cost : Cost]
    BY DEF IInv, TypeOK
  <2>3. StepNo < StepNo'
    <3>1. ASSUME NEW billed, AgentRecords(billed) PROVE StepNo = 2 /\ StepNo' = 3
      <4>1. ~scratch.events /\ scratch.run = None /\ scratch' = [scratch EXCEPT !.events = TRUE]
        BY <1>0, <3>1 DEF AgentRecords
      <4>2. scratch'.events /\ scratch'.run = None
        BY <2>2, <4>1
      <4> QED
        BY <2>1, <4>1, <4>2 DEF StepNo
    <3>2. ASSUME NEW status \in Status, NEW cost, AgentFinalizes(status, cost)
          PROVE  StepNo = 3 /\ StepNo' = 4
      <4>1. /\ scratch.events /\ scratch.run = None
            /\ scratch' = [scratch EXCEPT !.run = status, !.cost = cost]
        BY <3>2 DEF AgentFinalizes
      <4>2. scratch'.events /\ scratch'.run # None
        BY <2>2, <4>1, NoneAssumption
      <4> QED
        BY <2>1, <4>1, <4>2 DEF StepNo
    <3> QED
      BY <1>2, <3>1, <3>2 DEF AgentStep
  <2> QED
    BY <2>1, <2>3, StepsForward
<1>3. CASE next
  BY <1>3, NextGoesForward
<1>4. CASE ValidateEnds \/ validate_throws
  BY <1>4, ValidationGoesForward
<1>5. CASE prepare
  <2>1. pc = "prepare" /\ pc' = "agent" /\ job' = job /\ ~scratch'.events
    BY <1>5 DEF prepare, NoEvidence
  <2>2. StepNo = 1 /\ StepNo' = 2
    BY <2>1 DEF StepNo
  <2> QED
    BY <2>1, <2>2, StepsForward
<1>6. CASE AgentExits
  <2>1. pc = "agent" /\ pc' = "exited" /\ job' = job
    BY <1>6 DEF AgentExits
  <2>2. StepNo \in {2, 3, 4} /\ StepNo' = 5
    BY <2>1 DEF StepNo
  <2> QED
    BY <2>1, <2>2, StepsForward
<1>7. CASE collect_events \/ collect_run \/ inspect \/ export
  <2>1. /\ job' = job /\ <<pc, pc'>> \in {<<"exited", "collecting">>, <<"collecting", "inspect">>,
                                          <<"inspect", "export">>, <<"export", "validate">>}
    BY <1>7 DEF collect_events, collect_run, inspect, export, Ends
  <2>2. pc # "next" /\ pc' # "next" /\ StepNo < StepNo'
    BY <2>1 DEF StepNo
  <2> QED
    BY <2>1, <2>2, StepsForward
<1>8. ASSUME NEW copied, Halt(copied) PROVE FALSE
  BY <1>8 DEF Halt, Ends
<1> QED
  BY <1>1, <1>2, <1>3, <1>4, <1>5, <1>6, <1>7, <1>8 DEF Next, LauncherStep

Places == (1..(NumTrials + 1)) \X (0..MaxAttempts) \X (0..9)

LEMMA PlaceIs == ASSUME IInv PROVE Place \in Places
<1>1. StepNo \in 0..9
  BY DEF StepNo
<1>2. NumTrials \in Nat /\ MaxAttempts \in Nat
  BY ScheduleAssumption
<1>3. CASE pc = "next"
  <2>1. Closed \in SUBSET Trials
    BY DEF Closed
  <2>2. Front \in 1..(NumTrials + 1)
    BY <2>1, FrontOf DEF Front
  <2>3. \A t \in Trials : Len(attempts[t]) \in 0..MaxAttempts
    BY <1>2 DEF IInv, TypeOK
  <2>4. (IF Front \in Trials THEN Len(attempts[Front]) ELSE 0) \in 0..MaxAttempts
    BY <1>2, <2>3
  <2> QED
    BY <1>3, <2>2, <2>4 DEF Place, Places
<1>4. CASE pc # "next"
  <2>1. job.t \in 1..(NumTrials + 1) /\ job.k \in 0..MaxAttempts
    BY <1>2 DEF IInv, TypeOK, Trials
  <2> QED
    BY <1>1, <1>4, <2>1 DEF Place, Places
<1> QED
  BY <1>3, <1>4

\* For any schedule and limits: between its start and its end an invocation does no work
\* over, so that without a throwing evaluator it takes a bounded number of steps.
THEOREM InvocationsAdvance == Spec => [][Forward]_vars /\ [](Place \in Places)
<1>1. IInv /\ IInv' /\ [Next]_vars => [Forward]_vars
  BY ForwardStep
<1>2. IInv => Place \in Places
  BY PlaceIs
<1> QED
  BY Invariant, <1>1, <1>2, PTL DEF Spec
=============================================================================
