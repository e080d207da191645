--------------------------- MODULE Reports_proofs ---------------------------
(***************************************************************************)
(* The reports of an experiment, for any schedule, any number of trials    *)
(* and attempts, and any results that the recorders leave.                 *)
(***************************************************************************)
EXTENDS Reports, SequenceTheorems, FiniteSetTheorems, WellFoundedInduction, TLAPS

-----------------------------------------------------------------------------
(* The directory of an experiment. *)

Entry == {[raw |-> "void"], [raw |-> "open"]} \cup Recorded

\* An outcome is the last attempt of its trial.
OutcomeIsLast ==
  \A t \in Trials : \A k \in 1..Len(attempts[t]) : Decided(attempts[t][k]) => k = Len(attempts[t])

\* The decision of a routed attempt is the live router's, and without one no coding
\* call was made.
ByRouter(t, a) ==
  Finalized(a) /\ Schedule[t].mode = "routed" =>
    IF a.decision = None THEN Uncoded(a) ELSE Live(a.decision)

RoutedLive == \A t \in Trials : \A k \in 1..Len(attempts[t]) : ByRouter(t, attempts[t][k])

\* Only the last directory of a trial may be one that cannot be read.
VoidIsLast ==
  \A t \in Trials : \A k \in 1..Len(attempts[t]) :
    attempts[t][k].raw = "void" => k = Len(attempts[t])

IInv == TypeOK /\ OutcomeIsLast /\ VoidIsLast /\ RoutedLive

LEMMA EntryIs ==
  ASSUME NEW a \in Entry
  PROVE  /\ a.raw \in Raw
         /\ Finalized(a) => a \in Recorded
         /\ Decided(a) => Finalized(a)
  BY DEF Entry, Recorded, Raw, Finalized, Decided

LEMMA TrialIs ==
  ASSUME TypeOK, NEW t \in Trials
  PROVE  /\ attempts[t] \in Seq(Entry) /\ Len(attempts[t]) \in Nat
         /\ Len(attempts[t]) <= MaxAttempts /\ DOMAIN attempts[t] = 1..Len(attempts[t])
         /\ \A k \in 1..Len(attempts[t]) : attempts[t][k] \in Entry
  <1>1. attempts[t] \in Seq(Entry) /\ Len(attempts[t]) <= MaxAttempts
    BY DEF TypeOK, Entry
  <1> QED
    BY <1>1, ElementOfSeq

\* A step adds a directory to a trial without outcome, or replaces its last attempt.
Grown(t, s) ==
  /\ attempts' = [attempts EXCEPT ![t] = s]
  /\ ~HasOutcome(t)
  /\ \/ /\ s = Append(attempts[t], [raw |-> "void"]) /\ Len(attempts[t]) < MaxAttempts
        /\ \A k \in DOMAIN attempts[t] : attempts[t][k].raw # "void"
     \/ /\ attempts[t] # <<>>
        /\ \E e \in Entry : /\ ByRouter(t, e)
                            /\ s = [attempts[t] EXCEPT ![Len(attempts[t])] = e]

LEMMA StepGrows ==
  ASSUME IInv, Next
  PROVE  \E t \in Trials : \E s : Grown(t, s)
  <1>1. PICK t \in Trials :
          \/ StartAttempt(t)
          \/ \E r \in Result(t) \cup {[raw |-> "open"]} : CollectAttempt(t, r)
          \/ \E outcome \in {"pass", "fail", "unavailable"} : AttachValidation(t, outcome)
    BY DEF Next
  <1>2. /\ attempts[t] \in Seq(Entry) /\ Len(attempts[t]) \in Nat
        /\ DOMAIN attempts[t] = 1..Len(attempts[t])
        /\ \A k \in 1..Len(attempts[t]) : attempts[t][k] \in Entry
    BY TrialIs DEF IInv
  <1>3. CASE StartAttempt(t)
    <2>1. Grown(t, Append(attempts[t], [raw |-> "void"]))
      BY <1>3 DEF StartAttempt, Grown
    <2> QED
      BY <2>1
  <1>4. ASSUME attempts[t] # <<>>, ~Decided(LastAttempt(t)) PROVE ~HasOutcome(t)
    <2> SUFFICES ASSUME NEW k \in 1..Len(attempts[t]), Decided(attempts[t][k]) PROVE FALSE
      BY <1>2 DEF HasOutcome
    <2>1. k = Len(attempts[t])
      BY DEF IInv, OutcomeIsLast
    <2> QED
      BY <1>4, <2>1 DEF LastAttempt
  <1>5. ASSUME NEW r \in Result(t) \cup {[raw |-> "open"]}, CollectAttempt(t, r)
        PROVE  \E s : Grown(t, s)
    <2>1. ~HasOutcome(t) /\ attempts[t] # <<>>
      BY <1>4, <1>5 DEF CollectAttempt, Decided
    <2>2. r \in Entry /\ ByRouter(t, r)
      <3>1. CASE r \in Result(t)
        BY <3>1, ResultAssumption DEF Entry, ByRouter
      <3>2. CASE r = [raw |-> "open"]
        BY <3>2 DEF Entry, ByRouter, Finalized
      <3> QED
        BY <3>1, <3>2
    <2>3. attempts' = [attempts EXCEPT ![t] = [attempts[t] EXCEPT ![Len(attempts[t])] = r]]
      BY <1>5 DEF CollectAttempt, IInv, TypeOK
    <2>4. Grown(t, [attempts[t] EXCEPT ![Len(attempts[t])] = r])
      BY <2>1, <2>2, <2>3 DEF Grown
    <2> QED
      BY <2>4
  <1>6. ASSUME NEW outcome \in {"pass", "fail", "unavailable"}, AttachValidation(t, outcome)
        PROVE  \E s : Grown(t, s)
    <2> DEFINE a == LastAttempt(t)
               e == [a EXCEPT !.raw = outcome]
    <2>1. ~HasOutcome(t) /\ attempts[t] # <<>> /\ a.raw = "unvalidated"
      BY <1>4, <1>6 DEF AttachValidation, Decided
    <2>2. Len(attempts[t]) \in 1..Len(attempts[t])
      BY <1>2, <2>1
    <2>3. a \in Recorded /\ ByRouter(t, a)
      <3>1. a \in Entry /\ ByRouter(t, a)
        BY <1>2, <2>2 DEF LastAttempt, IInv, RoutedLive
      <3> QED
        BY <2>1, <3>1, EntryIs DEF Finalized
    <2>4. attempts' = [attempts EXCEPT ![t] = [attempts[t] EXCEPT ![Len(attempts[t])] = e]]
      BY <1>2, <1>6, <2>2 DEF AttachValidation, IInv, TypeOK, LastAttempt
    <2> HIDE DEF a
    <2>5. e \in Recorded /\ e.decision = a.decision /\ e.usage = a.usage
      BY <2>3 DEF Recorded, Raw
    <2>6. Finalized(a)
      BY <2>1 DEF Finalized
    <2> HIDE DEF e
    <2>7. e \in Entry /\ ByRouter(t, e)
      BY <2>3, <2>5, <2>6 DEF Entry, ByRouter, Uncoded
    <2>8. Grown(t, [attempts[t] EXCEPT ![Len(attempts[t])] = e])
      BY <2>1, <2>4, <2>7 DEF Grown
    <2> QED
      BY <2>8
  <1> QED
    BY <1>1, <1>3, <1>5, <1>6

\* Its effect on the trial and on the others.
LEMMA GrownIs ==
  ASSUME IInv, NEW t \in Trials, NEW s, Grown(t, s)
  PROVE  /\ \A u \in Trials : u # t => attempts'[u] = attempts[u]
         /\ attempts'[t] = s /\ s \in Seq(Entry) /\ Len(s) \in Nat /\ Len(s) <= MaxAttempts
         /\ Len(attempts[t]) <= Len(s)
         /\ \A k \in 1..(Len(s) - 1) : k \in 1..Len(attempts[t]) /\ s[k] = attempts[t][k]
         /\ \A k \in 1..Len(s) : ByRouter(t, s[k]) /\ (s[k].raw = "void" => k = Len(s))
  <1> DEFINE x == attempts[t]
             v == [raw |-> "void"]
  <1>1. x \in Seq(Entry) /\ Len(x) \in Nat /\ Len(x) <= MaxAttempts
    BY TrialIs DEF IInv
  <1>2. \A k \in 1..Len(x) : ByRouter(t, x[k]) /\ (x[k].raw = "void" => k = Len(x))
    BY DEF IInv, RoutedLive, VoidIsLast
  <1>3. attempts' = [attempts EXCEPT ![t] = s] /\ attempts \in [Trials -> Seq(Entry)]
    BY DEF Grown, IInv, TypeOK, Entry
  <1>4. v \in Entry /\ ByRouter(t, v)
    BY DEF Entry, ByRouter, Finalized
  <1> HIDE DEF v
  <1>5. \/ /\ s = Append(x, v) /\ Len(x) < MaxAttempts
           /\ \A k \in 1..Len(x) : x[k].raw # "void"
        \/ x # <<>> /\ \E e \in Entry : ByRouter(t, e) /\ s = [x EXCEPT ![Len(x)] = e]
    BY TrialIs DEF Grown, v, IInv
  <1> HIDE DEF x
  <1>6. MaxAttempts \in Nat
    BY ReportsAssumption
  <1>7. CASE s = Append(x, v) /\ Len(x) < MaxAttempts /\ \A k \in 1..Len(x) : x[k].raw # "void"
    <2>1. /\ s \in Seq(Entry) /\ Len(s) = Len(x) + 1 /\ s[Len(x) + 1] = v
          /\ \A k \in 1..Len(x) : s[k] = x[k]
      BY <1>1, <1>4, <1>7, AppendProperties
    <2>2. \A k \in 1..Len(s) : k \in 1..Len(x) \/ k = Len(x) + 1
      BY <1>1, <2>1
    <2>3. \A k \in 1..Len(s) : ByRouter(t, s[k]) /\ (s[k].raw = "void" => k = Len(s))
      BY <1>2, <1>4, <1>7, <2>1, <2>2
    <2> QED
      BY <1>1, <1>3, <1>6, <1>7, <2>1, <2>3 DEF x
  <1>8. ASSUME x # <<>>, NEW e \in Entry, ByRouter(t, e), s = [x EXCEPT ![Len(x)] = e]
        PROVE  /\ s \in Seq(Entry) /\ Len(s) = Len(x)
               /\ \A k \in 1..(Len(x) - 1) : s[k] = x[k]
               /\ \A k \in 1..Len(x) : ByRouter(t, s[k]) /\ (s[k].raw = "void" => k = Len(x))
    <2>1. Len(x) \in 1..Len(x)
      BY <1>1, <1>8
    <2>2. /\ s \in Seq(Entry) /\ Len(s) = Len(x) /\ s[Len(x)] = e
          /\ \A k \in 1..Len(x) : k # Len(x) => s[k] = x[k]
      BY <1>1, <1>8, <2>1, ExceptSeq
    <2> QED
      BY <1>1, <1>2, <1>8, <2>2
  <1>9. CASE x # <<>> /\ \E e \in Entry : ByRouter(t, e) /\ s = [x EXCEPT ![Len(x)] = e]
    <2>1. PICK e \in Entry : ByRouter(t, e) /\ s = [x EXCEPT ![Len(x)] = e]
      BY <1>9
    <2>2. /\ s \in Seq(Entry) /\ Len(s) = Len(x)
          /\ \A k \in 1..(Len(x) - 1) : s[k] = x[k]
          /\ \A k \in 1..Len(x) : ByRouter(t, s[k]) /\ (s[k].raw = "void" => k = Len(x))
      BY <1>8, <1>9, <2>1
    <2>3. /\ \A u \in Trials : u # t => attempts'[u] = attempts[u]
          /\ attempts'[t] = s
      BY <1>3
    <2>4. \A k \in 1..(Len(s) - 1) : k \in 1..Len(x) /\ s[k] = x[k]
      BY <1>1, <2>2
    <2> QED
      BY <1>1, <2>2, <2>3, <2>4 DEF x
  <1> QED
    BY <1>5, <1>7, <1>9

LEMMA InvStep ==
  ASSUME IInv, [Next]_attempts
  PROVE  IInv'
  <1>1. CASE UNCHANGED attempts
    BY <1>1 DEF IInv, TypeOK, OutcomeIsLast, VoidIsLast, RoutedLive
  <1>2. CASE Next
    <2>0. PICK t \in Trials : \E s : Grown(t, s)
      BY <1>2, StepGrows
    <2>1. PICK s : Grown(t, s)
      BY <2>0
    <2>2. /\ \A u \in Trials : u # t => attempts'[u] = attempts[u]
          /\ attempts'[t] = s /\ s \in Seq(Entry) /\ Len(s) \in Nat /\ Len(s) <= MaxAttempts
          /\ \A k \in 1..(Len(s) - 1) : k \in 1..Len(attempts[t]) /\ s[k] = attempts[t][k]
          /\ \A k \in 1..Len(s) : ByRouter(t, s[k]) /\ (s[k].raw = "void" => k = Len(s))
      BY <2>1, GrownIs
    <2>3. TypeOK'
      BY <2>1, <2>2 DEF IInv, TypeOK, Grown, Entry
    <2>4. RoutedLive'
      BY <2>2 DEF IInv, RoutedLive
    <2>5. \A k \in 1..Len(attempts[t]) : ~Decided(attempts[t][k])
      BY <2>1, TrialIs DEF Grown, HasOutcome, IInv
    <2>6. \A k \in 1..Len(s) : Decided(s[k]) => k = Len(s)
      BY <2>2, <2>5
    <2>7. OutcomeIsLast'
      BY <2>2, <2>6 DEF IInv, OutcomeIsLast
    <2>8. VoidIsLast'
      BY <2>2 DEF IInv, VoidIsLast
    <2> QED
      BY <2>3, <2>4, <2>7, <2>8 DEF IInv
  <1> QED
    BY <1>1, <1>2

LEMMA Inductive == Spec => []IInv
  <1>1. Init => IInv
    <2> SUFFICES ASSUME Init PROVE IInv
      OBVIOUS
    <2>1. /\ attempts \in [Trials -> Seq({[raw |-> "void"], [raw |-> "open"]} \cup Recorded)]
          /\ \A t \in Trials : Len(attempts[t]) = 0
      BY DEF Init
    <2> QED
      BY <2>1, ReportsAssumption DEF IInv, TypeOK, OutcomeIsLast, VoidIsLast, RoutedLive
  <1>2. IInv /\ [Next]_attempts => IInv'
    BY InvStep
  <1> QED
    BY <1>1, <1>2, PTL DEF Spec

\* The directory keeps its type.
THEOREM TypeCorrect == Spec => []TypeOK
  <1>1. IInv => TypeOK
    BY DEF IInv
  <1> QED
    BY <1>1, Inductive, PTL

-----------------------------------------------------------------------------
(* What is loaded. *)

LEMMA MaxIs ==
  ASSUME NEW n \in Nat, NEW S \in SUBSET (1..n), S # {}
  PROVE  Max(S) \in S /\ \A y \in S : y <= Max(S)
  <1> DEFINE R == {ss \in Nat \X Nat : ss[1] < ss[2]}
             D == {n - y : y \in S}
  <1>1. IsWellFoundedOn(R, Nat)
    BY NatLessThanWellFounded DEF OpToRel
  <1>2. D \in SUBSET Nat /\ D # {}
    <2>1. \A y \in 1..n : n - y \in Nat
      OBVIOUS
    <2> QED
      BY <2>1
  <1>3. PICK d \in D : \A e \in D : <<e, d>> \notin R
    <2> HIDE DEF R, D
    <2> QED
      BY <1>1, <1>2, WFMin, Zenon
  <1>4. PICK x \in S : d = n - x
    OBVIOUS
  <1>5. \A a, b \in Nat : a < b => <<a, b>> \in R
    OBVIOUS
  <1>6. ASSUME NEW y \in S PROVE y <= x
    <2>1. n - y \in D /\ n - y \in Nat /\ d \in Nat
      BY <1>2
    <2>2. ~(n - y < d)
      <3> HIDE DEF R, D
      <3> QED
        BY <1>3, <1>5, <2>1
    <2>3. x \in 1..n /\ y \in 1..n
      OBVIOUS
    <2> QED
      BY <1>4, <2>2, <2>3
  <1>7. \A y \in S : x >= y
    <2> TAKE y \in S
    <2>1. y <= x /\ x \in 1..n /\ y \in 1..n
      BY <1>6
    <2> QED
      BY <2>1
  <1>8. Max(S) \in S /\ \A y \in S : Max(S) >= y
    BY <1>7 DEF Max
  <1>9. ASSUME NEW y \in S PROVE y <= Max(S)
    <2>1. Max(S) >= y /\ Max(S) \in 1..n /\ y \in 1..n
      BY <1>8
    <2> QED
      BY <2>1
  <1> QED
    BY <1>8, <1>9

\* An outcome being the last attempt, the readers come to all of them.
LEMMA ReachedIs ==
  ASSUME IInv, NEW t \in Trials
  PROVE  Reached(t) = attempts[t]
  <1> DEFINE x == attempts[t]
             decided == {k \in DOMAIN x : Decided(x[k])}
  <1>1. /\ x \in Seq(Entry) /\ Len(x) \in Nat /\ DOMAIN x = 1..Len(x)
        /\ \A k \in 1..Len(x) : x[k] \in Entry
    BY TrialIs DEF IInv
  <1>2. \A k \in decided : k = Len(x)
    BY <1>1 DEF IInv, OutcomeIsLast
  <1>3. decided # {} => Min(decided) = Len(x)
    <2> SUFFICES ASSUME decided # {} PROVE Min(decided) = Len(x)
      OBVIOUS
    <2>1. decided = {Len(x)}
      BY <1>2
    <2> HIDE DEF decided
    <2> QED
      BY <1>1, <2>1 DEF Min
  <1>4. Reached(t) = SubSeq(x, 1, Len(x))
    BY <1>3 DEF Reached
  <1> HIDE DEF x
  <1>5. /\ SubSeq(x, 1, Len(x)) \in Seq(Entry) /\ Len(SubSeq(x, 1, Len(x))) = Len(x)
        /\ \A k \in 1..Len(x) : SubSeq(x, 1, Len(x))[k] = x[k]
    BY <1>1, SubSeqProperties
  <1>6. SubSeq(x, 1, Len(x)) = x
    BY <1>1, <1>5, SeqEqual
  <1> QED
    BY <1>4, <1>6 DEF x

FinalOf(t) == {k \in 1..Len(attempts[t]) : Finalized(attempts[t][k])}

\* The last finalized attempt of a trial stands for it.
LEMMA LoadIs ==
  ASSUME IInv, NEW t \in Trials
  PROVE  /\ loadTrial(t).physical = [k \in FinalOf(t) |-> attempts[t][k]]
         /\ loadTrial(t).incomplete = Len(attempts[t]) - Cardinality(FinalOf(t))
         /\ FinalOf(t) = {} => loadTrial(t).result = None /\ loadTrial(t).outcome = "incomplete"
         /\ FinalOf(t) # {} =>
              /\ Max(FinalOf(t)) \in FinalOf(t)
              /\ loadTrial(t).result = attempts[t][Max(FinalOf(t))]
              /\ loadTrial(t).result \in Recorded /\ loadTrial(t).result # None
              /\ loadTrial(t).outcome = classifyTrialOutcome(loadTrial(t).result)
  <1> DEFINE x == attempts[t]
  <1>1. /\ x \in Seq(Entry) /\ Len(x) \in Nat /\ DOMAIN x = 1..Len(x)
        /\ \A k \in 1..Len(x) : x[k] \in Entry
    BY TrialIs DEF IInv
  <1>2. Reached(t) = x
    BY ReachedIs
  <1>3. FinalOf(t) = {k \in DOMAIN x : Finalized(x[k])}
    BY <1>1 DEF FinalOf
  <1>4. FinalOf(t) # {} =>
          /\ Max(FinalOf(t)) \in FinalOf(t)
          /\ x[Max(FinalOf(t))] \in Recorded /\ x[Max(FinalOf(t))] # None
    <2> SUFFICES ASSUME FinalOf(t) # {}
                 PROVE  /\ Max(FinalOf(t)) \in FinalOf(t)
                        /\ x[Max(FinalOf(t))] \in Recorded /\ x[Max(FinalOf(t))] # None
      OBVIOUS
    <2>1. FinalOf(t) \in SUBSET (1..Len(x))
      BY DEF FinalOf
    <2>2. Max(FinalOf(t)) \in FinalOf(t)
      BY <1>1, <2>1, MaxIs
    <2>3. x[Max(FinalOf(t))] \in Recorded
      BY <1>1, <2>2, EntryIs DEF FinalOf
    <2> QED
      BY <2>2, <2>3, NoneAssumption
  <1> DEFINE F == FinalOf(t)
             selected == IF F = {} THEN None ELSE x[Max(F)]
  <1>5. loadTrial(t) = [result     |-> selected,
                        outcome    |-> IF selected = None THEN "incomplete"
                                       ELSE classifyTrialOutcome(selected),
                        physical   |-> [k \in F |-> x[k]],
                        incomplete |-> Len(x) - Cardinality(F)]
    BY <1>2, <1>3 DEF loadTrial
  <1> HIDE DEF x, F
  <1> QED
    BY <1>4, <1>5 DEF x, F

\* An evaluated trial has its outcome in the directory.
LEMMA EvaluatedIs ==
  ASSUME IInv, NEW t \in Trials, isEvaluated(loadTrial(t))
  PROVE  HasOutcome(t)
  <1>1. FinalOf(t) # {}
    BY LoadIs DEF isEvaluated
  <1> DEFINE k == Max(FinalOf(t))
             r == loadTrial(t).result
  <1>2. /\ k \in FinalOf(t) /\ r = attempts[t][k] /\ loadTrial(t).outcome = classifyTrialOutcome(r)
    BY <1>1, LoadIs
  <1> HIDE DEF k, r
  <1>3. r.raw \in {"pass", "fail"}
    BY <1>2 DEF isEvaluated, classifyTrialOutcome
  <1>4. k \in DOMAIN attempts[t]
    BY <1>2, TrialIs DEF IInv, FinalOf
  <1> QED
    BY <1>2, <1>3, <1>4 DEF HasOutcome, Decided

LEMMA InIs ==
  ASSUME NEW p \in Pairs, NEW m \in Modes
  PROVE  In(p, m) \in Trials /\ Schedule[In(p, m)].pair = p /\ Schedule[In(p, m)].mode = m
  <1>1. PICK t \in Trials : Schedule[t].pair = p
    BY DEF Pairs
  <1>2. PICK u \in Trials : Schedule[u] = [Schedule[t] EXCEPT !.mode = m]
    BY ReportsAssumption
  <1>3. Schedule[t] \in [pair : Nat, mode : Modes]
    BY ReportsAssumption
  <1>4. Schedule[u].pair = p /\ Schedule[u].mode = m
    BY <1>1, <1>2, <1>3
  <1>5. In(p, m) = CHOOSE v \in Trials : Schedule[v].pair = p /\ Schedule[v].mode = m
    BY DEF In, byPair
  <1> QED
    BY <1>4, <1>5

LEMMA PairsFinite == IsFiniteSet(Trials) /\ IsFiniteSet(Pairs) /\ Cardinality(Trials) = NumTrials
  <1>1. NumTrials \in Nat
    BY ReportsAssumption
  <1>2. IsFiniteSet(1..NumTrials) /\ Cardinality(1..NumTrials) = NumTrials
    BY <1>1, FS_Interval
  <1>3. IsFiniteSet({Schedule[t].pair : t \in Trials})
    <2> DEFINE f == [t \in Trials |-> Schedule[t].pair]
    <2>1. f \in Surjection(Trials, {Schedule[t].pair : t \in Trials})
      BY DEF Surjection
    <2> HIDE DEF f
    <2> QED
      BY <1>2, <2>1, FS_Surjection DEF Trials
  <1> QED
    BY <1>2, <1>3 DEF Trials, Pairs

-----------------------------------------------------------------------------
(* Later reports. *)

\* What has an outcome does not change.
LEMMA OutcomeStays ==
  ASSUME IInv, [Next]_attempts, NEW t \in Trials, HasOutcome(t)
  PROVE  attempts'[t] = attempts[t]
  <1>1. CASE Next
    <2>1. PICK u \in Trials : \E s : Grown(u, s)
      BY <1>1, StepGrows
    <2>2. PICK s : Grown(u, s)
      BY <2>1
    <2>3. t # u
      BY <2>2 DEF Grown
    <2> QED
      BY <2>2, <2>3, GrownIs
  <1>2. CASE UNCHANGED attempts
    BY <1>2
  <1> QED
    BY <1>1, <1>2

LEMMA LoadStays ==
  ASSUME NEW t \in Trials, attempts'[t] = attempts[t]
  PROVE  loadTrial(t)' = loadTrial(t)
  <1>1. Reached(t)' = Reached(t)
    BY DEF Reached
  <1> QED
    BY <1>1 DEF loadTrial

\* A comparison that was made rests on trials that were evaluated.
LEMMA CategoryStays ==
  ASSUME NEW w, NEW s, NEW r, NEW w2, NEW s2, NEW r2,
         isEvaluated(w) => w2 = w, isEvaluated(s) => s2 = s, isEvaluated(r) => r2 = r,
         primaryCategory(w, s, r) # "incomplete-comparison"
  PROVE  primaryCategory(w2, s2, r2) = primaryCategory(w, s, r)
  <1>1. isEvaluated(r) /\ DecisionOf(r) # None /\ r2 = r
    BY DEF primaryCategory
  <1>2. r.outcome \in {"pass", "fail"}
    BY <1>1 DEF isEvaluated
  <1>3. CASE DecisionOf(r).tier = "weak" /\ r.outcome = "pass"
    BY <1>1, <1>3 DEF primaryCategory
  <1>4. CASE DecisionOf(r).tier = "weak" /\ r.outcome = "fail"
    <2>1. isEvaluated(s) /\ s2 = s
      BY <1>1, <1>4 DEF primaryCategory
    <2> QED
      BY <1>1, <1>4, <2>1 DEF primaryCategory
  <1>5. CASE DecisionOf(r).tier # "weak"
    <2>1. isEvaluated(w) /\ w2 = w
      BY <1>1, <1>5 DEF primaryCategory
    <2> QED
      BY <1>1, <1>5, <2>1 DEF primaryCategory
  <1> QED
    BY <1>2, <1>3, <1>4, <1>5

\* The pairs whose costs are compared.
SavedPairs(trials) ==
  {p \in Pairs : /\ isEvaluated(trials[In(p, "routed")])
                 /\ isEvaluated(trials[In(p, "strong-only")])
                 /\ trialCost(trials[In(p, "routed")]) # None
                 /\ trialCost(trials[In(p, "strong-only")]) # None}

LEMMA SavingsPairs ==
  ASSUME NEW trials
  PROVE  Savings(trials).pairs = Cardinality(SavedPairs(trials))
  <1> DEFINE matched == {p \in Pairs : /\ isEvaluated(trials[In(p, "routed")])
                                       /\ isEvaluated(trials[In(p, "strong-only")])}
             cost(p, mode) == trialCost(trials[In(p, mode)])
             rows == {p \in matched : cost(p, "routed") # None /\ cost(p, "strong-only") # None}
  <1>1. Savings(trials).pairs = Cardinality(rows)
    BY DEF Savings
  <1>2. rows = SavedPairs(trials)
    BY DEF SavedPairs
  <1> QED
    BY <1>1, <1>2

LEMMA UpholdsStep ==
  ASSUME IInv, [Next]_attempts, NEW now \in {Loaded}, NEW later \in {Loaded'}
  PROVE  Upholds(later, now)
  <1>1. ASSUME NEW t \in Trials, isEvaluated(now[t]) PROVE later[t] = now[t]
    <2>1. now[t] = loadTrial(t) /\ later[t] = loadTrial(t)'
      BY DEF Loaded, loadExperimentRecords
    <2>2. attempts'[t] = attempts[t]
      BY <1>1, <2>1, EvaluatedIs, OutcomeStays
    <2> QED
      BY <2>1, <2>2, LoadStays
  <1>2. ASSUME NEW p \in Pairs, CategoryOf(now, p) # "incomplete-comparison"
        PROVE  CategoryOf(later, p) = CategoryOf(now, p)
    <2>1. \A m \in Modes : isEvaluated(now[In(p, m)]) => later[In(p, m)] = now[In(p, m)]
      BY <1>1, InIs
    <2>2. \A m \in {"weak-only", "strong-only", "routed"} :
            isEvaluated(now[In(p, m)]) => later[In(p, m)] = now[In(p, m)]
      BY <2>1 DEF Modes
    <2> QED
      BY <1>2, <2>2, CategoryStays DEF CategoryOf
  <1>3. SavedPairs(now) \subseteq SavedPairs(later)
    <2> SUFFICES ASSUME NEW p \in SavedPairs(now) PROVE p \in SavedPairs(later)
      OBVIOUS
    <2>1. p \in Pairs /\ isEvaluated(now[In(p, "routed")]) /\ isEvaluated(now[In(p, "strong-only")])
      BY DEF SavedPairs
    <2>2. In(p, "routed") \in Trials /\ In(p, "strong-only") \in Trials
      BY <2>1, InIs DEF Modes
    <2>3. /\ later[In(p, "routed")] = now[In(p, "routed")]
          /\ later[In(p, "strong-only")] = now[In(p, "strong-only")]
      BY <1>1, <2>1, <2>2
    <2> QED
      BY <2>3 DEF SavedPairs
  <1>4. IsFiniteSet(SavedPairs(later))
    BY PairsFinite, FS_Subset DEF SavedPairs
  <1>5. Savings(now).pairs <= Savings(later).pairs
    BY <1>3, <1>4, FS_Subset, SavingsPairs
  <1> QED
    BY <1>1, <1>2, <1>5 DEF Upholds

LEMMA UpholdsItself ==
  ASSUME NEW x
  PROVE  Upholds(x, x)
  <1>1. IsFiniteSet(SavedPairs(x))
    BY PairsFinite, FS_Subset DEF SavedPairs
  <1>2. Savings(x).pairs \in Nat
    BY <1>1, SavingsPairs, FS_CardinalityType
  <1> QED
    BY <1>2 DEF Upholds

LEMMA UpholdsAll ==
  ASSUME NEW x, NEW y, NEW z, Upholds(y, x), Upholds(z, y)
  PROVE  Upholds(z, x)
  <1>1. \A t \in Trials : isEvaluated(x[t]) => z[t] = x[t]
    <2> SUFFICES ASSUME NEW t \in Trials, isEvaluated(x[t]) PROVE z[t] = x[t]
      OBVIOUS
    <2>1. y[t] = x[t]
      BY DEF Upholds
    <2>2. isEvaluated(y[t])
      BY <2>1
    <2> QED
      BY <2>1, <2>2 DEF Upholds
  <1>2. ASSUME NEW p \in Pairs, CategoryOf(x, p) # "incomplete-comparison"
        PROVE  CategoryOf(z, p) = CategoryOf(x, p)
    <2>1. CategoryOf(y, p) = CategoryOf(x, p)
      BY <1>2 DEF Upholds
    <2> QED
      BY <1>2, <2>1 DEF Upholds
  <1>3. Savings(x).pairs <= Savings(z).pairs
    <2>1. \A trials : Savings(trials).pairs \in Nat
      <3> TAKE trials
      <3>1. IsFiniteSet(SavedPairs(trials))
        BY PairsFinite, FS_Subset DEF SavedPairs
      <3> QED
        BY <3>1, SavingsPairs, FS_CardinalityType
    <2>2. Savings(x).pairs <= Savings(y).pairs /\ Savings(y).pairs <= Savings(z).pairs
      BY DEF Upholds
    <2> DEFINE a == Savings(x).pairs
               b == Savings(y).pairs
               c == Savings(z).pairs
    <2>3. a \in Nat /\ b \in Nat /\ c \in Nat /\ a <= b /\ b <= c
      BY <2>1, <2>2
    <2> HIDE DEF a, b, c
    <2>4. a <= c
      BY <2>3
    <2> QED
      BY <2>4 DEF a, c
  <1> QED
    BY <1>1, <1>2, <1>3 DEF Upholds

\* Whatever trials x are loaded at some moment, those loaded at any later moment
\* uphold x: no number of retries, void directories or validations in between makes
\* primaryCategory, costSavings or an outcome contradict a report that was made.
THEOREM LaterReportsUphold ==
  ASSUME NEW CONSTANT x
  PROVE  Spec => [](Loaded = x => []Upholds(Loaded, x))
  <1>1. Loaded = x => Upholds(Loaded, x)
    BY UpholdsItself
  <1>2. IInv /\ [Next]_attempts /\ Upholds(Loaded, x) => Upholds(Loaded, x)'
    <2> SUFFICES ASSUME IInv, [Next]_attempts, Upholds(Loaded, x) PROVE Upholds(Loaded', x)
      BY DEF Upholds, Savings, CategoryOf
    <2>1. \A now \in {Loaded}, later \in {Loaded'} : Upholds(later, now)
      BY UpholdsStep
    <2>2. Upholds(Loaded', Loaded)
      BY <2>1
    <2> QED
      BY <2>2, UpholdsAll
  <1> QED
    BY <1>1, <1>2, Inductive, PTL DEF Spec

\* In every step of an experiment, also into and out of the void directory of an
\* attempt that was started (see StartAttempt), the report after it upholds the report
\* before it.
THEOREM ReportsStay == Spec => ReportStable
  <1>1. IInv /\ [Next]_attempts =>
          [\A now \in {Loaded}, later \in {Loaded'} : Upholds(later, now)]_attempts
    <2> SUFFICES ASSUME IInv, [Next]_attempts
                 PROVE  \A now \in {Loaded}, later \in {Loaded'} : Upholds(later, now)
      OBVIOUS
    <2> QED
      BY UpholdsStep
  <1> QED
    BY <1>1, Inductive, PTL DEF Spec, ReportStable

-----------------------------------------------------------------------------
(* Replays. *)

\* A set is counted by the parts of it that a test tells apart.
LEMMA Split ==
  ASSUME NEW S, IsFiniteSet(S), NEW T \in SUBSET S
  PROVE  /\ Cardinality(T) \in Nat /\ Cardinality(S \ T) \in Nat /\ Cardinality(S) \in Nat
         /\ Cardinality(S) = Cardinality(T) + Cardinality(S \ T)
  <1>1. S \cap T = T
    OBVIOUS
  <1>2. IsFiniteSet(T) /\ IsFiniteSet(S \ T) /\ Cardinality(S \ T) = Cardinality(S) - Cardinality(T)
    <2>1. IsFiniteSet(T)
      BY FS_Subset
    <2>2. IsFiniteSet(S \ T) /\ Cardinality(S \ T) = Cardinality(S) - Cardinality(S \cap T)
      BY <2>1, FS_Difference
    <2> QED
      BY <1>1, <2>1, <2>2
  <1>3. Cardinality(T) \in Nat /\ Cardinality(S \ T) \in Nat /\ Cardinality(S) \in Nat
    BY <1>2, FS_CardinalityType
  <1> QED
    BY <1>2, <1>3

\* Each pair has one outcome in a replay.
LEMMA ResolvedIs ==
  ASSUME NEW trials, NEW tier, DOMAIN tier \subseteq Pairs
  PROVE  Resolved(Outcomes(trials, tier)) = Cardinality(Pairs)
  <1> DEFINE D == DOMAIN tier
             base(p) == trials[Baseline(p, tier[p])].outcome
             P == {p \in D : base(p) = "pass"}
             F == {p \in D : base(p) = "fail"}
             U == {p \in D : base(p) \notin {"pass", "fail"}}
  <1>1. Resolved(Outcomes(trials, tier)) =
          Cardinality(P) + Cardinality(F) + (Cardinality(Pairs \ D) + Cardinality(U))
    BY DEF Resolved, Outcomes, Quantify
  <1>2. F = F \cap (D \ P) /\ U = (D \ P) \ F /\ P \in SUBSET D /\ F \in SUBSET (D \ P)
    OBVIOUS
  <1> HIDE DEF P, F, U, D
  <1>3. IsFiniteSet(D) /\ D \in SUBSET Pairs
    BY PairsFinite, FS_Subset DEF D
  <1>4. IsFiniteSet(D \ P)
    BY <1>3, FS_Subset
  <1>5. /\ Cardinality(Pairs) = Cardinality(D) + Cardinality(Pairs \ D)
        /\ Cardinality(D) \in Nat /\ Cardinality(Pairs \ D) \in Nat
    BY <1>3, PairsFinite, Split
  <1>6. /\ Cardinality(D) = Cardinality(P) + Cardinality(D \ P)
        /\ Cardinality(P) \in Nat /\ Cardinality(D \ P) \in Nat
    BY <1>2, <1>3, Split
  <1>7. /\ Cardinality(D \ P) = Cardinality(F) + Cardinality(U)
        /\ Cardinality(F) \in Nat /\ Cardinality(U) \in Nat
    BY <1>2, <1>4, Split
  <1> QED
    BY <1>1, <1>5, <1>6, <1>7

\* The decision that is loaded for a pair is one that the live router made.
LEMMA DecisionIs ==
  ASSUME IInv, NEW p \in Pairs, NEW d, d = DecisionOf(Loaded[In(p, "routed")]), d # None
  PROVE  d \in Decision /\ Live(d)
  <1> DEFINE t == In(p, "routed")
             k == Max(FinalOf(t))
             r == loadTrial(t).result
  <1>1. t \in Trials /\ Schedule[t].mode = "routed"
    BY InIs DEF Modes
  <1>2. Loaded[t] = loadTrial(t)
    BY <1>1 DEF Loaded, loadExperimentRecords
  <1>3. r # None /\ d = r.decision
    BY <1>2 DEF DecisionOf
  <1>4. k \in FinalOf(t) /\ r = attempts[t][k] /\ r \in Recorded
    BY <1>1, <1>3, LoadIs
  <1>5. k \in 1..Len(attempts[t]) /\ Finalized(r)
    BY <1>4 DEF FinalOf
  <1> HIDE DEF t, k, r
  <1>6. ByRouter(t, r)
    BY <1>1, <1>4, <1>5 DEF IInv, RoutedLive
  <1>7. Live(d)
    BY <1>1, <1>3, <1>5, <1>6, d # None DEF ByRouter
  <1>8. d \in Decision
    BY <1>3, <1>4 DEF Recorded
  <1> QED
    BY <1>7, <1>8

\* Replaying a decision under the threshold it was made with repeats it.
LEMMA ReplayedIs ==
  ASSUME NEW d \in Decision, Live(d)
  PROVE  /\ Replayed(d, Threshold) = d.tier /\ d.tier \in {"weak", "strong"}
         /\ \A h \in 0..100 : h <= Threshold => (d.tier = "weak" => Replayed(d, h) = "weak")
         /\ \A h \in 0..100 : h >= Threshold => (Replayed(d, h) = "weak" => d.tier = "weak")
         /\ d.tier = "weak" => d.source = "classifier" /\ d.probability # None
  <1>1. /\ d.tier \in {"weak", "strong"} /\ d.source \in {"classifier", "classifier-fallback"}
        /\ d.probability \in 0..100 \cup {None}
    BY DEF Decision, Live
  <1>2. Threshold \in 0..100
    BY ReportsAssumption
  <1>3. CASE d.source = "classifier-fallback" \/ d.probability = None
    BY <1>1, <1>3 DEF Live, Replayed
  <1>4. CASE d.source = "classifier" /\ d.probability # None
    <2>1. d.probability \in 0..100
      BY <1>1, <1>4
    <2>2. d.tier = IF d.probability >= Threshold THEN "weak" ELSE "strong"
      BY <1>4 DEF Live
    <2>3. \A h : Replayed(d, h) = IF d.probability >= h THEN "weak" ELSE "strong"
      BY <1>4 DEF Replayed
    <2>4. Replayed(d, Threshold) = d.tier
      BY <2>2, <2>3
    <2>5. ASSUME NEW h \in 0..100, h <= Threshold, d.tier = "weak" PROVE Replayed(d, h) = "weak"
      <3>1. d.probability >= Threshold
        BY <2>2, <2>5
      <3>2. d.probability >= h
        BY <1>2, <2>1, <2>5, <3>1
      <3> QED
        BY <2>3, <3>2
    <2>6. ASSUME NEW h \in 0..100, h >= Threshold, Replayed(d, h) = "weak" PROVE d.tier = "weak"
      <3>1. d.probability >= h
        BY <2>3, <2>6
      <3>2. d.probability >= Threshold
        BY <1>2, <2>1, <2>6, <3>1
      <3> QED
        BY <2>2, <3>2
    <2> QED
      BY <1>1, <1>4, <2>4, <2>5, <2>6
  <1> QED
    BY <1>1, <1>3, <1>4

LEMMA ReplayIs ==
  ASSUME NEW trials, NEW h
  PROVE  LET d(p) == DecisionOf(trials[In(p, "routed")])
             decided == {p \in Pairs : d(p) # None}
         IN /\ replayThresholds(trials, h).weak = {p \in decided : Replayed(d(p), h) = "weak"}
            /\ replayThresholds(trials, h).strong = {p \in decided : Replayed(d(p), h) = "strong"}
            /\ replayThresholds(trials, h).outcomes =
                 Outcomes(trials, [p \in decided |-> Replayed(d(p), h)])
  BY DEF replayThresholds

LEMMA Faithful ==
  ASSUME IInv
  PROVE  ReplayFaithful
  <1> SUFFICES ASSUME NEW trials \in {Loaded}
               PROVE  LET tierOf(p) == DecisionOf(trials[In(p, "routed")])
                          routed(tier) == {p \in Pairs : tierOf(p) # None /\ tierOf(p).tier = tier}
                          own     == replayThresholds(trials, Threshold)
                      IN /\ own.weak = routed("weak") /\ own.strong = routed("strong")
                         /\ \A h \in REPLAY_THRESHOLDS :
                              LET replay == replayThresholds(trials, h)
                              IN /\ Resolved(replay.outcomes) = Cardinality(Pairs)
                                 /\ h <= Threshold => own.weak \subseteq replay.weak
                                 /\ h >= Threshold => replay.weak \subseteq own.weak
                         /\ \A chosen \in RandomChoices(trials) :
                              /\ Cardinality(chosen) = Cardinality(routed("weak"))
                              /\ Resolved(randomSelectionReplay(trials, chosen)) = Cardinality(Pairs)
    BY DEF ReplayFaithful
  <1> DEFINE d(p) == DecisionOf(trials[In(p, "routed")])
             decided == {p \in Pairs : d(p) # None}
             routed(tier) == {p \in Pairs : d(p) # None /\ d(p).tier = tier}
             own == replayThresholds(trials, Threshold)
  <1>1. \A p \in decided : d(p) \in Decision /\ Live(d(p))
    BY DecisionIs
  <1>2. ASSUME NEW h
        PROVE  /\ replayThresholds(trials, h).weak = {p \in decided : Replayed(d(p), h) = "weak"}
               /\ replayThresholds(trials, h).strong = {p \in decided : Replayed(d(p), h) = "strong"}
               /\ replayThresholds(trials, h).outcomes =
                    Outcomes(trials, [p \in decided |-> Replayed(d(p), h)])
    BY ReplayIs
  <1> HIDE DEF d
  <1>3. own.weak = routed("weak") /\ own.strong = routed("strong")
    <2>1. \A p \in decided : Replayed(d(p), Threshold) = d(p).tier
      BY <1>1, ReplayedIs
    <2>2. /\ own.weak = {p \in decided : Replayed(d(p), Threshold) = "weak"}
          /\ own.strong = {p \in decided : Replayed(d(p), Threshold) = "strong"}
      BY <1>2
    <2> HIDE DEF own
    <2> QED
      BY <2>1, <2>2
  <1>4. ASSUME NEW h \in REPLAY_THRESHOLDS
        PROVE  /\ Resolved(replayThresholds(trials, h).outcomes) = Cardinality(Pairs)
               /\ h <= Threshold => own.weak \subseteq replayThresholds(trials, h).weak
               /\ h >= Threshold => replayThresholds(trials, h).weak \subseteq own.weak
    <2>1. h \in 0..100
      BY DEF REPLAY_THRESHOLDS
    <2>2. Resolved(replayThresholds(trials, h).outcomes) = Cardinality(Pairs)
      <3> DEFINE tier == [p \in decided |-> Replayed(d(p), h)]
      <3>1. DOMAIN tier \subseteq Pairs
        OBVIOUS
      <3>2. replayThresholds(trials, h).outcomes = Outcomes(trials, tier)
        BY <1>2
      <3> HIDE DEF tier
      <3> QED
        BY <3>1, <3>2, ResolvedIs
    <2>3. h <= Threshold => \A p \in routed("weak") : Replayed(d(p), h) = "weak"
      BY <1>1, <2>1, ReplayedIs
    <2>4. h >= Threshold =>
            \A p \in decided : Replayed(d(p), h) = "weak" => p \in routed("weak")
      BY <1>1, <2>1, ReplayedIs
    <2>5. replayThresholds(trials, h).weak = {p \in decided : Replayed(d(p), h) = "weak"}
      BY <1>2
    <2> HIDE DEF own
    <2> QED
      BY <1>3, <2>2, <2>3, <2>4, <2>5
  <1>5. ASSUME NEW chosen \in RandomChoices(trials)
        PROVE  /\ Cardinality(chosen) = Cardinality(routed("weak"))
               /\ Resolved(randomSelectionReplay(trials, chosen)) = Cardinality(Pairs)
    <2>1. Selectable(trials) = {p \in decided : d(p).source = "classifier" /\ d(p).probability # None}
      BY DEF Selectable, d
    <2>2. {p \in Selectable(trials) : d(p).tier = "weak"} = routed("weak")
      BY <1>1, <2>1, ReplayedIs
    <2>3. Cardinality(chosen) = Cardinality({p \in Selectable(trials) : d(p).tier = "weak"})
      BY DEF RandomChoices, kSubset, Quantify, d
    <2>4. Resolved(randomSelectionReplay(trials, chosen)) = Cardinality(Pairs)
      <3> DEFINE tier == [p \in decided |-> IF p \in chosen THEN "weak" ELSE "strong"]
      <3>1. DOMAIN tier \subseteq Pairs
        OBVIOUS
      <3>2. randomSelectionReplay(trials, chosen) = Outcomes(trials, tier)
        BY DEF randomSelectionReplay, d
      <3> HIDE DEF tier
      <3> QED
        BY <3>1, <3>2, ResolvedIs
    <2> QED
      BY <2>2, <2>3, <2>4
  <1> HIDE DEF own
  <1> QED
    BY <1>3, <1>4, <1>5 DEF d, own

\* The replay repeats what the live router selected, and the random control makes
\* as many weak selections, for every threshold and every decision recorded.
THEOREM ReplayIsFaithful == Spec => []ReplayFaithful
  <1>1. IInv => ReplayFaithful
    BY Faithful
  <1> QED
    BY <1>1, Inductive, PTL

-----------------------------------------------------------------------------
(* Sums.  SumFunctionOnSet(f, S) adds up f[x] for the elements of S one by   *)
(* one, in the order of CHOOSE.                                              *)

AnyOf(s) == CHOOSE x \in s : TRUE

SumStep(f, s, g) == IF s = {} THEN 0 ELSE f[AnyOf(s)] + g[s \ {AnyOf(s)}]

IsSum(f, S, g) == g = [s \in SUBSET S |-> SumStep(f, s, g)]

LEMMA SumChoice ==
  ASSUME NEW f, NEW S
  PROVE  SumFunctionOnSet(f, S) = (CHOOSE g : IsSum(f, S, g))[S]
  BY DEF SumFunctionOnSet, FoldFunctionOnSet, MapThenFoldSet, IsSum, SumStep, AnyOf

\* A set of subsets of a finite set has a least element, if it has any.
LEMMA LeastSubset ==
  ASSUME NEW S, IsFiniteSet(S), NEW B \in SUBSET (SUBSET S), B # {}
  PROVE  \E m \in B : \A s \in B : ~(s \subseteq m /\ s # m)
  <1>1. IsWellFoundedOn(StrictSubsetOrdering(S), SUBSET S)
    BY FS_StrictSubsetOrderingWellFounded, FS_FiniteSubsetsOfFinite, Zenon
  <1>2. PICK m \in B : \A s \in B : <<s, m>> \notin StrictSubsetOrdering(S)
    BY <1>1, WFMin, Zenon
  <1>3. ASSUME NEW s \in B, s \subseteq m, s # m PROVE FALSE
    <2>1. <<s, m>> \in StrictSubsetOrdering(S)
      BY <1>3 DEF StrictSubsetOrdering
    <2> QED
      BY <1>2, <2>1
  <1> QED
    BY <1>3

LEMMA AnyIs == ASSUME NEW s, s # {} PROVE AnyOf(s) \in s /\ s \ {AnyOf(s)} \subseteq s /\ s \ {AnyOf(s)} # s
  <1>1. AnyOf(s) \in s
    BY DEF AnyOf
  <1> QED
    BY <1>1

LEMMA SumUnique ==
  ASSUME NEW f, NEW S, IsFiniteSet(S), NEW g, IsSum(f, S, g),
         NEW T \in SUBSET S, NEW h, IsSum(f, T, h)
  PROVE  \A s \in SUBSET T : g[s] = h[s]
  <1> DEFINE B == {s \in SUBSET T : g[s] # h[s]}
  <1> SUFFICES ASSUME B # {} PROVE FALSE
    OBVIOUS
  <1>1. IsFiniteSet(T)
    BY FS_Subset
  <1>2. PICK m \in B : \A s \in B : ~(s \subseteq m /\ s # m)
    <2>1. B \in SUBSET (SUBSET T)
      OBVIOUS
    <2> HIDE DEF B
    <2> QED
      BY <1>1, <2>1, LeastSubset
  <1>3. \A s \in SUBSET T : g[s] = SumStep(f, s, g) /\ h[s] = SumStep(f, s, h)
    <2>1. \A s \in SUBSET S : g[s] = SumStep(f, s, g)
      BY DEF IsSum
    <2>2. \A s \in SUBSET T : h[s] = SumStep(f, s, h)
      BY DEF IsSum
    <2> QED
      BY <2>1, <2>2
  <1>4. m # {}
    BY <1>3 DEF SumStep
  <1>5. g[m \ {AnyOf(m)}] = h[m \ {AnyOf(m)}]
    BY <1>2, <1>4, AnyIs
  <1> QED
    BY <1>3, <1>4, <1>5 DEF SumStep

LEMMA SumExists ==
  ASSUME NEW f, NEW S, IsFiniteSet(S), \A x \in S : f[x] \in Int
  PROVE  \E g \in [SUBSET S -> Int] : IsSum(f, S, g)
  <1> DEFINE Has(T) == \E g \in [SUBSET T -> Int] : IsSum(f, T, g)
             B == {T \in SUBSET S : ~Has(T)}
  <1> SUFFICES ASSUME B # {} PROVE FALSE
    OBVIOUS
  <1>1. PICK T \in B : \A s \in B : ~(s \subseteq T /\ s # T)
    <2>1. B \in SUBSET (SUBSET S)
      OBVIOUS
    <2> HIDE DEF B
    <2> QED
      BY <2>1, LeastSubset
  <1>2. T \in SUBSET S /\ ~Has(T)
    OBVIOUS
  <1>3. \A s \in SUBSET T : s # T => Has(s)
    BY <1>1, <1>2
  <1> DEFINE G(s) == CHOOSE g \in [SUBSET s -> Int] : IsSum(f, s, g)
  <1>4. \A s \in SUBSET T : s # T => G(s) \in [SUBSET s -> Int] /\ IsSum(f, s, G(s))
    BY <1>3
  <1> HIDE DEF G, B
  <1>5. \A s \in SUBSET T : s # T => G(s)[s] \in Int
    BY <1>4
  <1> DEFINE top == IF T = {} THEN 0 ELSE f[AnyOf(T)] + G(T \ {AnyOf(T)})[T \ {AnyOf(T)}]
             g == [s \in SUBSET T |-> IF s = T THEN top ELSE G(s)[s]]
  <1>6. top \in Int
    <2>1. CASE T # {}
      <3>1. f[AnyOf(T)] \in Int
        BY <1>2, <2>1, AnyIs
      <3>2. G(T \ {AnyOf(T)})[T \ {AnyOf(T)}] \in Int
        BY <1>5, <2>1, AnyIs
      <3> QED
        BY <2>1, <3>1, <3>2
    <2> QED
      BY <2>1
  <1> HIDE DEF top
  <1>7. g \in [SUBSET T -> Int]
    BY <1>5, <1>6
  <1>8. ASSUME NEW s \in SUBSET T PROVE g[s] = SumStep(f, s, g)
    <2>1. CASE s = T
      <3>1. T # {} => g[T \ {AnyOf(T)}] = G(T \ {AnyOf(T)})[T \ {AnyOf(T)}]
        BY AnyIs
      <3> QED
        BY <2>1, <3>1 DEF SumStep, top
    <2>2. CASE s # T
      <3>1. g[s] = G(s)[s] /\ IsSum(f, s, G(s)) /\ IsFiniteSet(s)
        BY <1>2, <1>4, <2>2, FS_Subset
      <3>2. G(s)[s] = SumStep(f, s, G(s))
        BY <3>1 DEF IsSum
      <3>3. ASSUME s # {} PROVE g[s \ {AnyOf(s)}] = G(s)[s \ {AnyOf(s)}]
        <4> DEFINE r == s \ {AnyOf(s)}
        <4>1. r \in SUBSET s /\ r \in SUBSET T /\ r # T
          BY <2>2, <3>3, AnyIs
        <4> HIDE DEF r
        <4>2. g[r] = G(r)[r] /\ IsSum(f, r, G(r))
          BY <1>4, <4>1
        <4>3. G(s)[r] = G(r)[r]
          BY <3>1, <4>1, <4>2, SumUnique
        <4> QED
          BY <4>2, <4>3 DEF r
      <3> HIDE DEF g
      <3> QED
        BY <3>1, <3>2, <3>3 DEF SumStep
    <2> QED
      BY <2>1, <2>2
  <1>9. IsSum(f, T, g)
    <2> DEFINE h == [s \in SUBSET T |-> SumStep(f, s, g)]
    <2>1. \A s \in SUBSET T : g[s] = h[s]
      BY <1>8
    <2>2. g = [s \in SUBSET T |-> g[s]] /\ h = [s \in SUBSET T |-> h[s]]
      OBVIOUS
    <2> HIDE DEF g
    <2> QED
      BY <2>1, <2>2 DEF IsSum
  <1> QED
    BY <1>2, <1>7, <1>9

LEMMA SumIs ==
  ASSUME NEW f, NEW S, IsFiniteSet(S), \A x \in S : f[x] \in Int
  PROVE  /\ SumFunctionOnSet(f, S) \in Int
         /\ S = {} => SumFunctionOnSet(f, S) = 0
         /\ S # {} => SumFunctionOnSet(f, S) = f[AnyOf(S)] + SumFunctionOnSet(f, S \ {AnyOf(S)})
  <1> DEFINE Sum(T) == CHOOSE g : IsSum(f, T, g)
  <1>1. \A T \in SUBSET S : IsSum(f, T, Sum(T)) /\ IsFiniteSet(T)
    <2> TAKE T \in SUBSET S
    <2>1. IsFiniteSet(T)
      BY FS_Subset
    <2>2. \E g : IsSum(f, T, g)
      BY <2>1, SumExists
    <2> QED
      BY <2>1, <2>2
  <1>2. \A T \in SUBSET S : SumFunctionOnSet(f, T) = Sum(T)[T]
    BY SumChoice
  <1>3. Sum(S)[S] \in Int
    <2>1. PICK g \in [SUBSET S -> Int] : IsSum(f, S, g)
      BY SumExists
    <2>2. Sum(S)[S] = g[S]
      <3> HIDE DEF Sum
      <3> QED
        BY <1>1, <2>1, SumUnique
    <2> QED
      BY <2>1, <2>2
  <1> HIDE DEF Sum
  <1>4. Sum(S)[S] = SumStep(f, S, Sum(S))
    BY <1>1 DEF IsSum
  <1>5. ASSUME S # {} PROVE Sum(S)[S \ {AnyOf(S)}] = Sum(S \ {AnyOf(S)})[S \ {AnyOf(S)}]
    BY <1>1, <1>5, AnyIs, SumUnique
  <1> QED
    BY <1>2, <1>3, <1>4, <1>5 DEF SumStep

\* The order does not matter.
LEMMA SumRemove ==
  ASSUME NEW f, NEW S, IsFiniteSet(S), \A x \in S : f[x] \in Int, NEW x \in S
  PROVE  SumFunctionOnSet(f, S) = f[x] + SumFunctionOnSet(f, S \ {x})
  <1> DEFINE F(T) == SumFunctionOnSet(f, T)
             B == {T \in SUBSET S : \E y \in T : F(T) # f[y] + F(T \ {y})}
  <1> SUFFICES ASSUME B # {} PROVE FALSE
    OBVIOUS
  <1>1. PICK T \in B : \A s \in B : ~(s \subseteq T /\ s # T)
    <2>1. B \in SUBSET (SUBSET S)
      OBVIOUS
    <2> HIDE DEF B
    <2> QED
      BY <2>1, LeastSubset
  <1>2. PICK y \in T : F(T) # f[y] + F(T \ {y})
    BY <1>1
  <1>3. \A s \in SUBSET T : s # T => \A z \in s : F(s) = f[z] + F(s \ {z})
    BY <1>1
  <1>4. T \in SUBSET S /\ T # {}
    BY <1>1, <1>2
  <1>5. \A s \in SUBSET S : IsFiniteSet(s) /\ F(s) \in Int
    BY FS_Subset, SumIs
  <1> DEFINE c == AnyOf(T)
  <1>6. c \in T /\ F(T) = f[c] + F(T \ {c})
    BY <1>4, <1>5, AnyIs, SumIs
  <1> HIDE DEF c, F, B
  <1>7. c # y
    BY <1>2, <1>6
  <1>8. F(T \ {c}) = f[y] + F((T \ {c}) \ {y})
    BY <1>2, <1>3, <1>6, <1>7
  <1>9. F(T \ {y}) = f[c] + F((T \ {y}) \ {c})
    BY <1>2, <1>3, <1>6, <1>7
  <1>10. (T \ {c}) \ {y} = (T \ {y}) \ {c}
    OBVIOUS
  <1> DEFINE z == F((T \ {c}) \ {y})
  <1>11. z \in Int /\ f[y] \in Int /\ f[c] \in Int
    BY <1>2, <1>4, <1>5, <1>6
  <1>12. F(T) = f[c] + (f[y] + z) /\ F(T \ {y}) = f[c] + z
    BY <1>6, <1>8, <1>9, <1>10
  <1> HIDE DEF z
  <1> QED
    BY <1>2, <1>11, <1>12

\* Only the values on S matter.
LEMMA SumSame ==
  ASSUME NEW f, NEW g, NEW S, IsFiniteSet(S), \A x \in S : f[x] \in Int /\ g[x] = f[x]
  PROVE  SumFunctionOnSet(f, S) = SumFunctionOnSet(g, S)
  <1> DEFINE B == {T \in SUBSET S : SumFunctionOnSet(f, T) # SumFunctionOnSet(g, T)}
  <1> SUFFICES ASSUME B # {} PROVE FALSE
    OBVIOUS
  <1>1. PICK T \in B : \A s \in B : ~(s \subseteq T /\ s # T)
    <2>1. B \in SUBSET (SUBSET S)
      OBVIOUS
    <2> HIDE DEF B
    <2> QED
      BY <2>1, LeastSubset
  <1>2. /\ IsFiniteSet(T) /\ T \in SUBSET S /\ \A x \in T : f[x] \in Int /\ g[x] \in Int
        /\ \A x \in T : g[x] = f[x]
    BY <1>1, FS_Subset
  <1>3. T # {}
    BY <1>1, <1>2, SumIs
  <1>4. /\ SumFunctionOnSet(f, T) = f[AnyOf(T)] + SumFunctionOnSet(f, T \ {AnyOf(T)})
        /\ SumFunctionOnSet(g, T) = g[AnyOf(T)] + SumFunctionOnSet(g, T \ {AnyOf(T)})
    BY <1>2, <1>3, SumIs
  <1>5. SumFunctionOnSet(f, T \ {AnyOf(T)}) = SumFunctionOnSet(g, T \ {AnyOf(T)})
    BY <1>1, <1>3, AnyIs
  <1>6. f[AnyOf(T)] = g[AnyOf(T)]
    BY <1>2, <1>3, AnyIs
  <1> QED
    BY <1>1, <1>4, <1>5, <1>6

LEMMA SumNat ==
  ASSUME NEW f, NEW S, IsFiniteSet(S), \A x \in S : f[x] \in Nat
  PROVE  SumFunctionOnSet(f, S) \in Nat
  <1> DEFINE B == {T \in SUBSET S : SumFunctionOnSet(f, T) \notin Nat}
  <1> SUFFICES ASSUME B # {} PROVE FALSE
    OBVIOUS
  <1>1. PICK T \in B : \A s \in B : ~(s \subseteq T /\ s # T)
    <2>1. B \in SUBSET (SUBSET S)
      OBVIOUS
    <2> HIDE DEF B
    <2> QED
      BY <2>1, LeastSubset
  <1>2. IsFiniteSet(T) /\ T \in SUBSET S /\ \A x \in T : f[x] \in Nat /\ f[x] \in Int
    BY <1>1, FS_Subset
  <1>3. T # {}
    <2>1. T = {} => SumFunctionOnSet(f, T) = 0
      BY <1>2, SumIs
    <2> QED
      BY <1>1, <2>1
  <1>4. SumFunctionOnSet(f, T) = f[AnyOf(T)] + SumFunctionOnSet(f, T \ {AnyOf(T)})
    BY <1>2, <1>3, SumIs
  <1>5. SumFunctionOnSet(f, T \ {AnyOf(T)}) \in Nat /\ f[AnyOf(T)] \in Nat
    BY <1>1, <1>2, <1>3, AnyIs
  <1> QED
    BY <1>1, <1>4, <1>5

\* Two sets without a common element are added up one after the other.
LEMMA SumUnion ==
  ASSUME NEW f, NEW S, IsFiniteSet(S), NEW U, IsFiniteSet(U), S \cap U = {},
         \A x \in S \cup U : f[x] \in Int
  PROVE  SumFunctionOnSet(f, S \cup U) = SumFunctionOnSet(f, S) + SumFunctionOnSet(f, U)
  <1> DEFINE F(T) == SumFunctionOnSet(f, T)
             B == {T \in SUBSET S : F(T \cup U) # F(T) + F(U)}
  <1> SUFFICES ASSUME B # {} PROVE FALSE
    OBVIOUS
  <1>1. PICK T \in B : \A s \in B : ~(s \subseteq T /\ s # T)
    <2>1. B \in SUBSET (SUBSET S)
      OBVIOUS
    <2> HIDE DEF B
    <2> QED
      BY <2>1, LeastSubset
  <1>2. T \in SUBSET S /\ F(T \cup U) # F(T) + F(U)
    OBVIOUS
  <1>3. \A s \in SUBSET T : s # T => F(s \cup U) = F(s) + F(U)
    BY <1>1, <1>2
  <1>4. \A s \in SUBSET S : IsFiniteSet(s) /\ IsFiniteSet(s \cup U)
    BY FS_Subset, FS_Union
  <1>5. F({}) = 0 /\ F(U) \in Int /\ \A s \in SUBSET S : F(s) \in Int
    BY <1>4, SumIs, FS_EmptySet
  <1> HIDE DEF F, B
  <1>6. T # {}
    <2> SUFFICES ASSUME T = {} PROVE FALSE
      OBVIOUS
    <2>1. T \cup U = U
      OBVIOUS
    <2> QED
      BY <1>2, <1>5, <2>1
  <1> DEFINE c == AnyOf(T)
  <1>7. c \in T /\ c \in S /\ c \notin U /\ T \ {c} \in SUBSET T /\ T \ {c} # T /\ f[c] \in Int
    BY <1>2, <1>6, AnyIs
  <1> HIDE DEF c
  <1>8. F(T) = f[c] + F(T \ {c})
    BY <1>2, <1>4, <1>7, SumRemove DEF F
  <1>9. F(T \cup U) = f[c] + F((T \ {c}) \cup U)
    <2>1. (T \cup U) \ {c} = (T \ {c}) \cup U
      BY <1>7
    <2>2. F(T \cup U) = f[c] + F((T \cup U) \ {c})
      BY <1>2, <1>4, <1>7, SumRemove DEF F
    <2> QED
      BY <2>1, <2>2
  <1>10. F((T \ {c}) \cup U) = F(T \ {c}) + F(U) /\ F(T \ {c}) \in Int
    BY <1>2, <1>3, <1>5, <1>7
  <1> QED
    BY <1>2, <1>5, <1>7, <1>8, <1>9, <1>10

\* Adding up the sizes of disjoint classes counts their union.
LEMMA Classes ==
  ASSUME NEW C, IsFiniteSet(C), NEW K, \A c \in C : IsFiniteSet(K[c]),
         \A b, c \in C : b # c => K[b] \cap K[c] = {},
         NEW U, UNION {K[c] : c \in C} = U, NEW n, \A c \in C : n[c] = Cardinality(K[c])
  PROVE  IsFiniteSet(U) /\ SumFunctionOnSet(n, C) = Cardinality(U)
  <1> DEFINE All(T) == UNION {K[c] : c \in T}
             B == {T \in SUBSET C : ~(IsFiniteSet(All(T)) /\ SumFunctionOnSet(n, T) = Cardinality(All(T)))}
  <1> SUFFICES ASSUME B # {} PROVE FALSE
    OBVIOUS
  <1>1. PICK T \in B : \A s \in B : ~(s \subseteq T /\ s # T)
    <2>1. B \in SUBSET (SUBSET C)
      OBVIOUS
    <2> HIDE DEF B
    <2> QED
      BY <2>1, LeastSubset
  <1>2. T \in SUBSET C /\ ~(IsFiniteSet(All(T)) /\ SumFunctionOnSet(n, T) = Cardinality(All(T)))
    OBVIOUS
  <1>3. \A s \in SUBSET T : s # T => IsFiniteSet(All(s)) /\ SumFunctionOnSet(n, s) = Cardinality(All(s))
    BY <1>1, <1>2
  <1>4. IsFiniteSet(T)
    BY <1>2, FS_Subset
  <1>5. \A c \in C : n[c] = Cardinality(K[c]) /\ n[c] \in Int
    <2> SUFFICES ASSUME NEW c \in C PROVE n[c] = Cardinality(K[c]) /\ Cardinality(K[c]) \in Int
      OBVIOUS
    <2>1. Cardinality(K[c]) \in Nat
      BY FS_CardinalityType
    <2> QED
      BY <2>1
  <1> HIDE DEF B
  <1>6. T # {}
    <2> SUFFICES ASSUME T = {} PROVE FALSE
      OBVIOUS
    <2>1. All(T) = {} /\ SumFunctionOnSet(n, T) = 0
      BY <1>4, <1>5, SumIs
    <2>2. IsFiniteSet({}) /\ Cardinality({}) = 0
      BY FS_EmptySet
    <2> QED
      BY <1>2, <2>1, <2>2
  <1> DEFINE c == AnyOf(T)
             R == T \ {c}
  <1>7. c \in T /\ c \in C /\ R \in SUBSET T /\ R # T
    BY <1>2, <1>6, AnyIs
  <1>8. SumFunctionOnSet(n, T) = n[c] + SumFunctionOnSet(n, R)
    BY <1>2, <1>4, <1>5, <1>6, SumIs
  <1>9. c \notin R
    OBVIOUS
  <1> HIDE DEF c, R
  <1>10. All(T) = K[c] \cup All(R)
    <2>1. T = R \cup {c}
      BY <1>7 DEF R
    <2> QED
      BY <2>1
  <1>11. K[c] \cap All(R) = {}
    BY <1>2, <1>7, <1>9
  <1>12. IsFiniteSet(All(R)) /\ SumFunctionOnSet(n, R) = Cardinality(All(R)) /\ IsFiniteSet(K[c])
    BY <1>3, <1>7
  <1> HIDE DEF All
  <1>13. /\ IsFiniteSet(K[c] \cup All(R)) /\ Cardinality({}) = 0
         /\ Cardinality(K[c] \cup All(R)) =
              Cardinality(K[c]) + Cardinality(All(R)) - Cardinality(K[c] \cap All(R))
    BY <1>12, FS_Union, FS_EmptySet
  <1>14. Cardinality(K[c]) \in Nat /\ Cardinality(All(R)) \in Nat
    BY <1>12, FS_CardinalityType
  <1>15. Cardinality(All(T)) = Cardinality(K[c]) + Cardinality(All(R))
    <2>1. Cardinality(K[c] \cap All(R)) = 0
      BY <1>11, <1>13
    <2> QED
      BY <1>10, <1>13, <1>14, <2>1
  <1> QED
    BY <1>2, <1>5, <1>7, <1>8, <1>10, <1>12, <1>13, <1>15

-----------------------------------------------------------------------------
(* The types of what is loaded and computed. *)

LEMMA CountIs ==
  ASSUME NEW S, IsFiniteSet(S), NEW T \in SUBSET S
  PROVE  IsFiniteSet(T) /\ Cardinality(T) \in Nat /\ Cardinality(T) <= Cardinality(S)
  BY FS_Subset, FS_CardinalityType

LEMMA IntervalIs ==
  ASSUME NEW n \in Nat
  PROVE  IsFiniteSet(1..n) /\ Cardinality(1..n) = n
  BY FS_Interval

Outcome == {"pass", "fail", "unavailable", "incomplete"}

LEMMA LoadType ==
  ASSUME IInv, NEW t \in Trials, NEW x, x = Loaded[t]
  PROVE  /\ x = loadTrial(t)
         /\ x.outcome \in Outcome /\ x.incomplete \in Nat
         /\ DecisionOf(x) \in Decision \cup {None}
         /\ DOMAIN x.physical \in SUBSET (1..MaxAttempts) /\ IsFiniteSet(DOMAIN x.physical)
         /\ \A k \in DOMAIN x.physical : x.physical[k] \in Recorded
  <1>1. x = loadTrial(t)
    BY DEF Loaded, loadExperimentRecords
  <1>2. /\ Len(attempts[t]) \in Nat /\ Len(attempts[t]) <= MaxAttempts /\ MaxAttempts \in Nat
        /\ \A k \in 1..Len(attempts[t]) : attempts[t][k] \in Entry
    BY TrialIs, ReportsAssumption DEF IInv
  <1>3. IsFiniteSet(1..Len(attempts[t])) /\ Cardinality(1..Len(attempts[t])) = Len(attempts[t])
    BY <1>2, IntervalIs
  <1>4. FinalOf(t) \in SUBSET (1..Len(attempts[t]))
    BY DEF FinalOf
  <1>5. /\ IsFiniteSet(FinalOf(t)) /\ Cardinality(FinalOf(t)) \in Nat
        /\ Cardinality(FinalOf(t)) <= Len(attempts[t])
    BY <1>3, <1>4, CountIs
  <1>6. x.incomplete \in Nat
    <2>1. x.incomplete = Len(attempts[t]) - Cardinality(FinalOf(t))
      BY <1>1, LoadIs
    <2> QED
      BY <1>2, <1>5, <2>1
  <1>7. x.physical = [k \in FinalOf(t) |-> attempts[t][k]]
    BY <1>1, LoadIs
  <1>8. \A k \in FinalOf(t) : attempts[t][k] \in Recorded
    BY <1>2, EntryIs DEF FinalOf
  <1>9. 1..Len(attempts[t]) \subseteq 1..MaxAttempts
    BY <1>2
  <1>10. x.result = None \/ x.result \in Recorded
    <2>1. CASE FinalOf(t) = {}
      <3>1. loadTrial(t).result = None
        BY <2>1, LoadIs, Zenon
      <3> QED
        BY <1>1, <3>1
    <2>2. CASE FinalOf(t) # {}
      BY <1>1, <2>2, LoadIs
    <2> QED
      BY <2>1, <2>2
  <1>11. DecisionOf(x) \in Decision \cup {None}
    BY <1>10 DEF DecisionOf, Recorded
  <1>12. x.outcome \in Outcome
    <2>1. \A r \in Recorded : classifyTrialOutcome(r) \in Outcome
      BY DEF Recorded, Raw, classifyTrialOutcome, Outcome
    <2> QED
      BY <1>1, <2>1, LoadIs DEF Outcome
  <1> QED
    BY <1>1, <1>4, <1>5, <1>6, <1>7, <1>8, <1>9, <1>11, <1>12

LEMMA PlusIs ==
  ASSUME NEW u \in Usage, NEW v \in Usage
  PROVE  /\ Plus(u, v) \in Usage
         /\ totalTokens(u) \in KnownOrNone /\ estimatedCost(u) \in KnownOrNone
  <1> DEFINE w == Plus(u, v)
  <1>1. /\ u.observed \in Nat /\ u.incomplete \in Nat /\ u.missing \in Nat /\ u.tokens \in Nat
        /\ u.price \in Nat \cup {None}
        /\ u.observed = 0 => u.incomplete = 0 /\ u.tokens = 0 /\ u.price \in {0, None}
    BY DEF Usage
  <1>2. /\ v.observed \in Nat /\ v.incomplete \in Nat /\ v.missing \in Nat /\ v.tokens \in Nat
        /\ v.price \in Nat \cup {None}
        /\ v.observed = 0 => v.incomplete = 0 /\ v.tokens = 0 /\ v.price \in {0, None}
    BY DEF Usage
  <1>3. w = [observed |-> u.observed + v.observed, incomplete |-> u.incomplete + v.incomplete,
             missing |-> u.missing + v.missing, tokens |-> u.tokens + v.tokens,
             price |-> IF None \in {u.price, v.price} THEN None ELSE u.price + v.price]
    BY DEF Plus
  <1>4. w.price \in Nat \cup {None}
    <2>1. CASE None \in {u.price, v.price}
      BY <1>3, <2>1
    <2>2. CASE None \notin {u.price, v.price}
      <3>1. u.price \in Nat /\ v.price \in Nat
        BY <1>1, <1>2, <2>2
      <3>2. w.price = u.price + v.price
        BY <1>3, <2>2
      <3> QED
        BY <3>1, <3>2
    <2> QED
      BY <2>1, <2>2
  <1>5. /\ w.observed \in Nat /\ w.incomplete \in Nat /\ w.missing \in Nat /\ w.tokens \in Nat
        /\ w.observed = 0 => u.observed = 0 /\ v.observed = 0
    BY <1>1, <1>2, <1>3
  <1>6. w.observed = 0 => w.incomplete = 0 /\ w.tokens = 0 /\ w.price \in {0, None}
    <2> SUFFICES ASSUME w.observed = 0 PROVE w.incomplete = 0 /\ w.tokens = 0 /\ w.price \in {0, None}
      OBVIOUS
    <2>1. /\ u.incomplete = 0 /\ u.tokens = 0 /\ u.price \in {0, None}
          /\ v.incomplete = 0 /\ v.tokens = 0 /\ v.price \in {0, None}
      BY <1>1, <1>2, <1>5
    <2>2. w.incomplete = 0 + 0 /\ w.tokens = 0 + 0
      BY <1>3, <2>1
    <2>3. w.price = None \/ w.price = 0 + 0
      BY <1>3, <2>1
    <2> QED
      BY <2>2, <2>3
  <1>7. w \in [observed : Nat, incomplete : Nat, missing : Nat, tokens : Nat, price : Nat \cup {None}]
    <2> DEFINE o == u.observed + v.observed
               i == u.incomplete + v.incomplete
               m == u.missing + v.missing
               k == u.tokens + v.tokens
               e == IF None \in {u.price, v.price} THEN None ELSE u.price + v.price
    <2>1. w = [observed |-> o, incomplete |-> i, missing |-> m, tokens |-> k, price |-> e]
      BY <1>3
    <2>2. o \in Nat /\ i \in Nat /\ m \in Nat /\ k \in Nat /\ e \in Nat \cup {None}
      BY <1>3, <1>4, <1>5
    <2> HIDE DEF o, i, m, k, e, w
    <2> QED
      BY <2>1, <2>2
  <1> HIDE DEF w
  <1>8. w \in Usage
    BY <1>6, <1>7 DEF Usage
  <1> QED
    BY <1>1, <1>8 DEF w, totalTokens, estimatedCost, KnownOrNone

LEMMA CostType ==
  ASSUME NEW t \in Trials, NEW a \in Recorded
  PROVE  /\ \A role \in Roles : /\ a.usage[role] \in Usage
                                /\ totalTokens(a.usage[role]) \in KnownOrNone
                                /\ estimatedCost(a.usage[role]) \in KnownOrNone
         /\ codingUsage(a) \in Usage /\ totalUsage(a) \in Usage
         /\ Tokens(a) \in KnownOrNone /\ Cost(a) \in KnownOrNone
         /\ Tier(t, a) \in {"weak", "strong", None}
  <1>1. \A role \in Roles : a.usage[role] \in Usage
    BY DEF Recorded
  <1>2. \A role \in Roles : /\ totalTokens(a.usage[role]) \in KnownOrNone
                            /\ estimatedCost(a.usage[role]) \in KnownOrNone
    BY <1>1, PlusIs
  <1>3. codingUsage(a) \in Usage /\ totalUsage(a) \in Usage
    <2>1. /\ a.usage["classifier"] \in Usage /\ a.usage["coding"] \in Usage
          /\ a.usage["compaction"] \in Usage
      BY <1>1 DEF Roles
    <2>2. codingUsage(a) \in Usage
      BY <2>1, PlusIs DEF codingUsage
    <2> QED
      BY <2>1, <2>2, PlusIs DEF totalUsage
  <1>4. Tokens(a) \in KnownOrNone
    BY <1>3, PlusIs DEF Tokens
  <1>5. Cost(a) \in KnownOrNone
    <2> DEFINE l == estimatedCost(a.usage["classifier"])
               r == estimatedCost(codingUsage(a))
    <2>1. l \in KnownOrNone /\ r \in KnownOrNone
      BY <1>2, <1>3, PlusIs DEF Roles
    <2>2. Cost(a) = IF None \in {l, r} THEN None ELSE l + r
      BY DEF Cost
    <2> HIDE DEF l, r
    <2> QED
      BY <2>1, <2>2 DEF KnownOrNone
  <1>6. a.decision \in Decision \cup {None}
    BY DEF Recorded
  <1>7. a.decision # None => a.decision.tier \in {"weak", "strong"}
    BY <1>6 DEF Decision
  <1>8. Tier(t, a) \in {"weak", "strong", None}
    BY <1>7 DEF Tier
  <1> QED
    BY <1>1, <1>2, <1>3, <1>4, <1>5, <1>8

LEMMA KnownSum ==
  ASSUME NEW f, IsFiniteSet(DOMAIN f), \A x \in DOMAIN f : f[x] \in KnownOrNone
  PROVE  /\ sumKnown(f) \in KnownOrNone
         /\ sumKnown(f) = None <=> \E x \in DOMAIN f : f[x] = None
         /\ (\A x \in DOMAIN f : f[x] # None) =>
              sumKnown(f) = SumFunctionOnSet(f, DOMAIN f) /\ \A x \in DOMAIN f : f[x] \in Nat
  <1>1. CASE \E x \in DOMAIN f : f[x] = None
    BY <1>1 DEF sumKnown, KnownOrNone
  <1>2. CASE \A x \in DOMAIN f : f[x] # None
    <2>1. \A x \in DOMAIN f : f[x] \in Nat
      BY <1>2 DEF KnownOrNone
    <2>2. SumFunctionOnSet(f, DOMAIN f) \in Nat
      BY <2>1, SumNat
    <2>3. sumKnown(f) = SumFunctionOnSet(f, DOMAIN f)
      BY <1>2 DEF sumKnown, SumFunction
    <2>4. None \notin Nat
      BY NoneAssumption
    <2> QED
      BY <1>2, <2>1, <2>2, <2>3, <2>4 DEF KnownOrNone
  <1> QED
    BY <1>1, <1>2

LEMMA TrialCostType ==
  ASSUME IInv, NEW t \in Trials, NEW x, x = Loaded[t]
  PROVE  trialCost(x) \in KnownOrNone
  <1> DEFINE f == [k \in DOMAIN x.physical |-> Cost(x.physical[k])]
  <1>1. IsFiniteSet(DOMAIN f) /\ \A k \in DOMAIN f : f[k] \in KnownOrNone
    BY LoadType, CostType
  <1>2. trialCost(x) = None \/ trialCost(x) = sumKnown(f)
    BY DEF trialCost
  <1> HIDE DEF f
  <1> QED
    BY <1>1, <1>2, KnownSum DEF KnownOrNone

LEMMA PhysicalIs ==
  ASSUME IInv, NEW trials \in {Loaded}
  PROVE  /\ IsFiniteSet(Physical(trials))
         /\ \A q \in Physical(trials) :
              /\ q[1] \in Trials /\ q[2] \in 1..MaxAttempts
              /\ trials[q[1]].physical[q[2]] \in Recorded
  <1>1. MaxAttempts \in Nat
    BY ReportsAssumption
  <1>2. IsFiniteSet(Trials \X (1..MaxAttempts))
    <2>1. IsFiniteSet(1..MaxAttempts)
      BY <1>1, IntervalIs
    <2> QED
      BY <2>1, PairsFinite, FS_Product
  <1>3. IsFiniteSet(Physical(trials))
    BY <1>2, FS_Subset DEF Physical
  <1> QED
    BY <1>3, LoadType DEF Physical

LEMMA UsageType ==
  ASSUME IInv, NEW trials \in {Loaded}
  PROVE  /\ Interrupted(trials) \in Nat
         /\ aggregateUsage(trials) \in [byIdentity : [Identities -> KnownOrNone], total : KnownOrNone]
         /\ spend(trials) \in KnownOrNone
  <1> DEFINE at(q) == trials[q[1]].physical[q[2]]
  <1>1. Interrupted(trials) \in Nat
    <2> DEFINE f == [t \in Trials |-> trials[t].incomplete]
    <2>1. \A t \in Trials : f[t] \in Nat
      BY LoadType
    <2>2. Interrupted(trials) = SumFunctionOnSet(f, Trials)
      BY DEF Interrupted, SumFunction
    <2> HIDE DEF f
    <2> QED
      BY <2>1, <2>2, PairsFinite, SumNat
  <1>2. /\ IsFiniteSet(Physical(trials))
        /\ \A q \in Physical(trials) : q[1] \in Trials /\ at(q) \in Recorded
    BY PhysicalIs
  <1> HIDE DEF at
  <1>3. ASSUME NEW i \in Identities
        PROVE  IdentityTokens(trials, i) \in KnownOrNone
    <2> DEFINE M == {q \in Physical(trials) : i[1] \in {"classifier", Tier(q[1], at(q))}}
               f == [q \in M |-> totalTokens(at(q).usage[i[2]])]
    <2>1. IdentityTokens(trials, i) = sumKnown(f)
      BY DEF IdentityTokens, at
    <2>2. IsFiniteSet(M)
      BY <1>2, FS_Subset
    <2>3. ASSUME NEW q \in M PROVE f[q] \in KnownOrNone
      <3>1. i[2] \in Roles
        BY DEF Identities, Roles
      <3>2. q[1] \in Trials /\ at(q) \in Recorded
        BY <1>2
      <3> QED
        BY <3>1, <3>2, CostType
    <2>4. DOMAIN f = M
      OBVIOUS
    <2> HIDE DEF f, M
    <2> QED
      BY <2>1, <2>2, <2>3, <2>4, KnownSum
  <1>4. sumKnown([q \in Physical(trials) |-> Tokens(at(q))]) \in KnownOrNone
    <2> DEFINE f == [q \in Physical(trials) |-> Tokens(at(q))]
    <2>1. IsFiniteSet(DOMAIN f) /\ \A q \in DOMAIN f : f[q] \in KnownOrNone
      BY <1>2, CostType
    <2> HIDE DEF f
    <2> QED
      BY <2>1, KnownSum DEF f
  <1>5. sumKnown([q \in Physical(trials) |-> Cost(at(q))]) \in KnownOrNone
    <2> DEFINE f == [q \in Physical(trials) |-> Cost(at(q))]
    <2>1. IsFiniteSet(DOMAIN f) /\ \A q \in DOMAIN f : f[q] \in KnownOrNone
      BY <1>2, CostType
    <2> HIDE DEF f
    <2> QED
      BY <2>1, KnownSum DEF f
  <1>6. spend(trials) \in KnownOrNone
    BY <1>5 DEF spend, KnownOrNone, at
  <1> DEFINE total == IF Interrupted(trials) > 0 THEN None
                      ELSE sumKnown([q \in Physical(trials) |-> Tokens(at(q))])
             by == [i \in Identities |-> IdentityTokens(trials, i)]
  <1>7. total \in KnownOrNone
    BY <1>4 DEF KnownOrNone
  <1>8. aggregateUsage(trials) = [byIdentity |-> by, total |-> total]
    BY DEF aggregateUsage, at
  <1>9. by \in [Identities -> KnownOrNone]
    BY <1>3
  <1> HIDE DEF total, by
  <1> QED
    BY <1>1, <1>6, <1>7, <1>8, <1>9

-----------------------------------------------------------------------------
(* The sections of the aggregate report. *)

SavingsSchema == [pairs : Nat, omitted : Nat, numerator : Int, denominator : Nat]

LEMMA SavingsType ==
  ASSUME IInv, NEW trials \in {Loaded}
  PROVE  Savings(trials) \in SavingsSchema
  <1> DEFINE matched == {p \in Pairs : /\ isEvaluated(trials[In(p, "routed")])
                                       /\ isEvaluated(trials[In(p, "strong-only")])}
             cost(p, mode) == trialCost(trials[In(p, mode)])
             rows == {p \in matched : cost(p, "routed") # None /\ cost(p, "strong-only") # None}
             f == [p \in rows |-> cost(p, "strong-only") - cost(p, "routed")]
             g == [p \in rows |-> cost(p, "strong-only")]
  <1>1. Savings(trials) = [pairs       |-> Cardinality(rows),
                           omitted     |-> Cardinality(matched \ rows),
                           numerator   |-> SumFunctionOnSet(f, rows),
                           denominator |-> SumFunctionOnSet(g, rows)]
    BY DEF Savings, SumFunction
  <1>2. rows \in SUBSET Pairs /\ matched \ rows \in SUBSET Pairs
    OBVIOUS
  <1>3. IsFiniteSet(rows) /\ Cardinality(rows) \in Nat /\ Cardinality(matched \ rows) \in Nat
    <2> HIDE DEF rows, matched
    <2> QED
      BY <1>2, PairsFinite, CountIs
  <1>4. ASSUME NEW p \in rows PROVE f[p] \in Int /\ g[p] \in Nat
    <2> DEFINE a == cost(p, "routed")
               b == cost(p, "strong-only")
    <2>1. In(p, "routed") \in Trials /\ In(p, "strong-only") \in Trials
      BY InIs DEF Modes
    <2>2. a \in KnownOrNone /\ b \in KnownOrNone /\ a # None /\ b # None
      BY <2>1, TrialCostType
    <2>3. f[p] = b - a /\ g[p] = b
      OBVIOUS
    <2> HIDE DEF a, b, f, g
    <2>4. a \in Nat /\ b \in Nat
      BY <2>2 DEF KnownOrNone
    <2> QED
      BY <2>3, <2>4
  <1> HIDE DEF rows, matched, f, g
  <1>5. SumFunctionOnSet(f, rows) \in Int /\ SumFunctionOnSet(g, rows) \in Nat
    BY <1>3, <1>4, SumIs, SumNat
  <1> QED
    BY <1>1, <1>3, <1>5 DEF SavingsSchema

\* The routed pairs that were decided and evaluated, and those with a full triplet.
To(trials, tier) ==
  {p \in Pairs : /\ DecisionOf(trials[In(p, "routed")]) # None
                 /\ isEvaluated(trials[In(p, "routed")])
                 /\ DecisionOf(trials[In(p, "routed")]).tier = tier}

Done(trials, mode) == {p \in Pairs : isEvaluated(trials[In(p, mode)])}

Triplets(trials) ==
  {p \in Pairs : /\ isEvaluated(trials[In(p, "weak-only")])
                 /\ isEvaluated(trials[In(p, "strong-only")])
                 /\ isEvaluated(trials[In(p, "routed")])
                 /\ DecisionOf(trials[In(p, "routed")]) # None}

InCategory(trials, c) == {p \in Pairs : CategoryOf(trials, p) = c}

Cell(trials, o) ==
  {p \in Pairs : /\ trials[In(p, "weak-only")].outcome = o[1]
                 /\ trials[In(p, "strong-only")].outcome = o[2]}

Cells == {"pass", "fail"} \X {"pass", "fail"}

Disagree(trials) ==
  {p \in Pairs :
     \E tier \in {"weak", "strong"} :
       LET base == IF tier = "weak" THEN trials[In(p, "weak-only")] ELSE trials[In(p, "strong-only")]
       IN /\ /\ DecisionOf(trials[In(p, "routed")]) # None
             /\ isEvaluated(trials[In(p, "routed")])
             /\ DecisionOf(trials[In(p, "routed")]).tier = tier
          /\ isEvaluated(base)
          /\ base.outcome # trials[In(p, "routed")].outcome}

LEMMA ComparisonIs ==
  ASSUME NEW trials, NEW c, c = Comparison(trials)
  PROVE  /\ c.counts = [k \in PRIMARY_CATEGORIES |-> Cardinality(InCategory(trials, k))]
         /\ c.triplets = Cardinality(Triplets(trials))
         /\ c.under = Cardinality(To(trials, "weak") \cap Done(trials, "strong-only"))
         /\ c.over = Cardinality(To(trials, "strong") \cap Done(trials, "weak-only"))
         /\ c.underTriplet = Cardinality(Triplets(trials) \cap InCategory(trials, "under-route"))
         /\ c.overTriplet = Cardinality(Triplets(trials) \cap InCategory(trials, "over-route"))
         /\ c.contingency = [o \in Cells |-> Cardinality(Cell(trials, o))]
         /\ c.uncompared =
              Cardinality(Pairs \ (Done(trials, "weak-only") \cap Done(trials, "strong-only")))
         /\ c.disagree = Cardinality(Disagree(trials))
         /\ c = [counts |-> c.counts, triplets |-> c.triplets, under |-> c.under, over |-> c.over,
                 underTriplet |-> c.underTriplet, overTriplet |-> c.overTriplet,
                 contingency |-> c.contingency, uncompared |-> c.uncompared,
                 disagree |-> c.disagree]
  <1>1. c.counts = [k \in PRIMARY_CATEGORIES |-> Cardinality(InCategory(trials, k))]
    BY DEF Comparison, Quantify, InCategory
  <1>2. c.triplets = Cardinality(Triplets(trials))
    BY DEF Comparison, Quantify, Triplets
  <1>3. /\ c.under = Cardinality(To(trials, "weak") \cap Done(trials, "strong-only"))
        /\ c.over = Cardinality(To(trials, "strong") \cap Done(trials, "weak-only"))
    <2> DEFINE U == {p \in Pairs : /\ DecisionOf(trials[In(p, "routed")]) # None
                                   /\ isEvaluated(trials[In(p, "routed")])
                                   /\ DecisionOf(trials[In(p, "routed")]).tier = "weak"
                                   /\ isEvaluated(trials[In(p, "strong-only")])}
               O == {p \in Pairs : /\ DecisionOf(trials[In(p, "routed")]) # None
                                   /\ isEvaluated(trials[In(p, "routed")])
                                   /\ DecisionOf(trials[In(p, "routed")]).tier = "strong"
                                   /\ isEvaluated(trials[In(p, "weak-only")])}
    <2>1. /\ U = To(trials, "weak") \cap Done(trials, "strong-only")
          /\ O = To(trials, "strong") \cap Done(trials, "weak-only")
      BY DEF To, Done
    <2>2. c.under = Cardinality(U) /\ c.over = Cardinality(O)
      BY DEF Comparison, Quantify
    <2> QED
      BY <2>1, <2>2
  <1>4. /\ c.underTriplet = Cardinality(Triplets(trials) \cap InCategory(trials, "under-route"))
        /\ c.overTriplet = Cardinality(Triplets(trials) \cap InCategory(trials, "over-route"))
    <2> DEFINE T(k) == {p \in Pairs : /\ /\ isEvaluated(trials[In(p, "weak-only")])
                                         /\ isEvaluated(trials[In(p, "strong-only")])
                                         /\ isEvaluated(trials[In(p, "routed")])
                                         /\ DecisionOf(trials[In(p, "routed")]) # None
                                      /\ CategoryOf(trials, p) = k}
    <2>1. \A k : T(k) = Triplets(trials) \cap InCategory(trials, k)
      BY DEF Triplets, InCategory
    <2>2. c.underTriplet = Cardinality(T("under-route")) /\ c.overTriplet = Cardinality(T("over-route"))
      BY DEF Comparison, Quantify
    <2> QED
      BY <2>1, <2>2
  <1>5. c.contingency = [o \in Cells |-> Cardinality(Cell(trials, o))]
    BY DEF Comparison, Quantify, Cells, Cell
  <1>6. c.uncompared =
          Cardinality(Pairs \ (Done(trials, "weak-only") \cap Done(trials, "strong-only")))
    <2> DEFINE N == {p \in Pairs : \/ ~isEvaluated(trials[In(p, "weak-only")])
                                   \/ ~isEvaluated(trials[In(p, "strong-only")])}
    <2>1. N = Pairs \ (Done(trials, "weak-only") \cap Done(trials, "strong-only"))
      BY DEF Done
    <2>2. c.uncompared = Cardinality(N)
      BY DEF Comparison, Quantify
    <2> QED
      BY <2>1, <2>2
  <1>7. c.disagree = Cardinality(Disagree(trials))
    BY DEF Comparison, Quantify, Disagree
  <1>8. c = [counts |-> c.counts, triplets |-> c.triplets, under |-> c.under, over |-> c.over,
             underTriplet |-> c.underTriplet, overTriplet |-> c.overTriplet,
             contingency |-> c.contingency, uncompared |-> c.uncompared, disagree |-> c.disagree]
    BY DEF Comparison
  <1> QED
    BY <1>1, <1>2, <1>3, <1>4, <1>5, <1>6, <1>7, <1>8

ComparisonSchema ==
  [counts : [PRIMARY_CATEGORIES -> Nat], triplets : Nat,
   under : Nat, over : Nat, underTriplet : Nat, overTriplet : Nat,
   contingency : [{"pass", "fail"} \X {"pass", "fail"} -> Nat],
   uncompared : Nat, disagree : Nat]

LEMMA ComparisonType ==
  ASSUME NEW trials, NEW c, c = Comparison(trials)
  PROVE  c \in ComparisonSchema
  <1>0. /\ c.triplets = Cardinality(Triplets(trials))
        /\ c.under = Cardinality(To(trials, "weak") \cap Done(trials, "strong-only"))
        /\ c.over = Cardinality(To(trials, "strong") \cap Done(trials, "weak-only"))
        /\ c.underTriplet = Cardinality(Triplets(trials) \cap InCategory(trials, "under-route"))
        /\ c.overTriplet = Cardinality(Triplets(trials) \cap InCategory(trials, "over-route"))
        /\ c.uncompared =
             Cardinality(Pairs \ (Done(trials, "weak-only") \cap Done(trials, "strong-only")))
    BY ComparisonIs
  <1>a. c.counts = [k \in PRIMARY_CATEGORIES |-> Cardinality(InCategory(trials, k))]
    BY ComparisonIs, Zenon
  <1>b. c.contingency = [o \in Cells |-> Cardinality(Cell(trials, o))]
    BY ComparisonIs, Zenon
  <1>c. c.disagree = Cardinality(Disagree(trials)) /\ Disagree(trials) \in SUBSET Pairs
    BY ComparisonIs DEF Disagree
  <1>1. \A T \in SUBSET Pairs : Cardinality(T) \in Nat
    BY PairsFinite, CountIs
  <1>2. c.counts \in [PRIMARY_CATEGORIES -> Nat]
    <2>1. \A k : InCategory(trials, k) \in SUBSET Pairs
      BY DEF InCategory
    <2> QED
      BY <1>a, <1>1, <2>1
  <1>3. c.contingency \in [Cells -> Nat]
    <2>1. \A o : Cell(trials, o) \in SUBSET Pairs
      BY DEF Cell
    <2> QED
      BY <1>b, <1>1, <2>1
  <1>4. Triplets(trials) \in SUBSET Pairs
    BY DEF Triplets
  <1>5. \A tier : To(trials, tier) \in SUBSET Pairs
    BY DEF To
  <1>6. c.triplets \in Nat /\ c.underTriplet \in Nat /\ c.overTriplet \in Nat
    <2>1. \A k : Triplets(trials) \cap InCategory(trials, k) \in SUBSET Pairs
      BY <1>4
    <2> QED
      BY <1>0, <1>1, <1>4, <2>1
  <1>7. c.under \in Nat /\ c.over \in Nat
    <2>1. \A tier, m : To(trials, tier) \cap Done(trials, m) \in SUBSET Pairs
      BY <1>5
    <2> QED
      BY <1>0, <1>1, <2>1
  <1>8. c.uncompared \in Nat /\ c.disagree \in Nat
    <2>1. Pairs \ (Done(trials, "weak-only") \cap Done(trials, "strong-only")) \in SUBSET Pairs
      OBVIOUS
    <2> QED
      BY <1>0, <1>c, <1>1, <2>1
  <1>9. c = [counts |-> c.counts, triplets |-> c.triplets, under |-> c.under, over |-> c.over,
             underTriplet |-> c.underTriplet, overTriplet |-> c.overTriplet,
             contingency |-> c.contingency, uncompared |-> c.uncompared, disagree |-> c.disagree]
    BY ComparisonIs, Zenon
  <1> QED
    BY <1>2, <1>3, <1>6, <1>7, <1>8, <1>9 DEF ComparisonSchema, Cells

\* The category of a pair, and what an under-route and an over-route rest on.
LEMMA CategoryIs ==
  ASSUME NEW w, NEW s, NEW r, NEW c, c = primaryCategory(w, s, r),
         DecisionOf(r) # None => DecisionOf(r).tier \in {"weak", "strong"}
  PROVE  /\ c \in PRIMARY_CATEGORIES
         /\ c = "under-route" =>
              isEvaluated(r) /\ DecisionOf(r) # None /\ DecisionOf(r).tier = "weak" /\ isEvaluated(s)
         /\ c = "over-route" =>
              isEvaluated(r) /\ DecisionOf(r) # None /\ DecisionOf(r).tier = "strong" /\ isEvaluated(w)
  <1>1. CASE ~isEvaluated(r) \/ DecisionOf(r) = None
    BY <1>1 DEF primaryCategory, PRIMARY_CATEGORIES
  <1>2. CASE isEvaluated(r) /\ DecisionOf(r) # None
    <2>1. r.outcome \in {"pass", "fail"}
      BY <1>2 DEF isEvaluated
    <2>2. CASE DecisionOf(r).tier = "weak" /\ r.outcome = "pass"
      BY <1>2, <2>2 DEF primaryCategory, PRIMARY_CATEGORIES
    <2>3. CASE DecisionOf(r).tier = "weak" /\ r.outcome = "fail"
      <3>1. CASE ~isEvaluated(s)
        BY <1>2, <2>3, <3>1 DEF primaryCategory, PRIMARY_CATEGORIES
      <3>2. CASE isEvaluated(s)
        <4>1. s.outcome \in {"pass", "fail"}
          BY <3>2 DEF isEvaluated
        <4> QED
          BY <1>2, <2>3, <3>2, <4>1 DEF primaryCategory, PRIMARY_CATEGORIES
      <3> QED
        BY <3>1, <3>2
    <2>4. CASE DecisionOf(r).tier = "strong"
      <3>1. CASE ~isEvaluated(w)
        BY <1>2, <2>4, <3>1 DEF primaryCategory, PRIMARY_CATEGORIES
      <3>2. CASE isEvaluated(w)
        <4>1. w.outcome \in {"pass", "fail"}
          BY <3>2 DEF isEvaluated
        <4> QED
          BY <1>2, <2>1, <2>4, <3>2, <4>1 DEF primaryCategory, PRIMARY_CATEGORIES
      <3> QED
        BY <3>1, <3>2
    <2> QED
      BY <1>2, <2>1, <2>2, <2>3, <2>4
  <1> QED
    BY <1>1, <1>2

LEMMA PairCategory ==
  ASSUME IInv, NEW trials \in {Loaded}, NEW p \in Pairs
  PROVE  /\ CategoryOf(trials, p) \in PRIMARY_CATEGORIES
         /\ CategoryOf(trials, p) = "under-route" =>
              p \in To(trials, "weak") \cap Done(trials, "strong-only")
         /\ CategoryOf(trials, p) = "over-route" =>
              p \in To(trials, "strong") \cap Done(trials, "weak-only")
  <1> DEFINE w == trials[In(p, "weak-only")]
             s == trials[In(p, "strong-only")]
             r == trials[In(p, "routed")]
  <1>1. In(p, "routed") \in Trials
    BY InIs DEF Modes
  <1>2. DecisionOf(r) # None => DecisionOf(r).tier \in {"weak", "strong"}
    <2>1. DecisionOf(r) \in Decision \cup {None}
      BY <1>1, LoadType
    <2> HIDE DEF r
    <2> QED
      BY <2>1 DEF Decision
  <1>3. CategoryOf(trials, p) = primaryCategory(w, s, r)
    BY DEF CategoryOf
  <1>4. /\ p \in To(trials, "weak") <=>
             DecisionOf(r) # None /\ isEvaluated(r) /\ DecisionOf(r).tier = "weak"
        /\ p \in To(trials, "strong") <=>
             DecisionOf(r) # None /\ isEvaluated(r) /\ DecisionOf(r).tier = "strong"
        /\ p \in Done(trials, "strong-only") <=> isEvaluated(s)
        /\ p \in Done(trials, "weak-only") <=> isEvaluated(w)
    BY DEF To, Done
  <1> HIDE DEF w, s, r
  <1> QED
    BY <1>2, <1>3, <1>4, CategoryIs

LEMMA FiniteSets ==
  /\ IsFiniteSet({"pass", "fail"}) /\ IsFiniteSet(Outcome) /\ IsFiniteSet(PRIMARY_CATEGORIES)
  /\ IsFiniteSet({"classifier", "weak", "strong"})
  <1>1. \A S, x : IsFiniteSet(S) => IsFiniteSet(S \cup {x})
    BY FS_AddElement
  <1>2. IsFiniteSet({})
    BY FS_EmptySet
  <1>3. IsFiniteSet((({} \cup {"classifier"}) \cup {"weak"}) \cup {"strong"})
    BY <1>1, <1>2, Zenon
  <1>4. IsFiniteSet(({} \cup {"pass"}) \cup {"fail"})
    BY <1>1, <1>2, Zenon
  <1>5. {"pass", "fail"} = ({} \cup {"pass"}) \cup {"fail"}
    OBVIOUS
  <1>6. IsFiniteSet({"pass", "fail"})
    BY <1>4, <1>5
  <1>7. IsFiniteSet(({"pass", "fail"} \cup {"unavailable"}) \cup {"incomplete"})
    BY <1>1, <1>6, Zenon
  <1>8. Outcome = ({"pass", "fail"} \cup {"unavailable"}) \cup {"incomplete"}
    BY DEF Outcome
  <1> DEFINE A == ((({} \cup {"correct-efficiency"}) \cup {"correct-capability"})
                     \cup {"under-route"}) \cup {"over-route"}
             B == (((A \cup {"unresolved-weak-failure"}) \cup {"missed-weak-success"})
                     \cup {"unresolved-strong-failure"}) \cup {"incomplete-comparison"}
  <1>9. IsFiniteSet(A)
    BY <1>1, <1>2, Zenon
  <1>10. PRIMARY_CATEGORIES = B
    BY DEF PRIMARY_CATEGORIES
  <1> HIDE DEF A
  <1>11. IsFiniteSet(B)
    BY <1>1, <1>9, Zenon
  <1>12. {"classifier", "weak", "strong"} = (({} \cup {"classifier"}) \cup {"weak"}) \cup {"strong"}
    OBVIOUS
  <1> QED
    BY <1>3, <1>6, <1>7, <1>8, <1>10, <1>11, <1>12

\* Every pair is counted in one category and in one cell or none, and the rates
\* have their numerators within their denominators.
LEMMA ComparisonConsistent ==
  ASSUME IInv, NEW trials \in {Loaded}, NEW c, c = Comparison(trials)
  PROVE  /\ SumFunction(c.counts) = Cardinality(Pairs)
         /\ SumFunction(c.contingency) + c.uncompared = Cardinality(Pairs)
         /\ c.counts["under-route"] <= c.under
         /\ c.counts["over-route"] <= c.over
         /\ c.underTriplet + c.overTriplet <= c.triplets
  <1>0. \A T \in SUBSET Pairs : IsFiniteSet(T) /\ Cardinality(T) \in Nat
    BY PairsFinite, CountIs
  <1>1. SumFunction(c.counts) = Cardinality(Pairs)
    <2> DEFINE C == PRIMARY_CATEGORIES
               K == [k \in C |-> InCategory(trials, k)]
    <2>1. IsFiniteSet(C)
      BY FiniteSets
    <2>2. \A k \in C : K[k] \in SUBSET Pairs
      BY DEF InCategory
    <2>3. \A k, l \in C : k # l => K[k] \cap K[l] = {}
      BY DEF InCategory
    <2>4. UNION {K[k] : k \in C} = Pairs
      BY PairCategory DEF InCategory
    <2>5. DOMAIN c.counts = C /\ \A k \in C : c.counts[k] = Cardinality(K[k])
      <3>1. c.counts = [k \in C |-> Cardinality(InCategory(trials, k))]
        BY ComparisonIs, Zenon
      <3> QED
        BY <3>1
    <2> HIDE DEF C, K
    <2>6. SumFunctionOnSet(c.counts, C) = Cardinality(Pairs)
      BY <1>0, <2>1, <2>2, <2>3, <2>4, <2>5, Classes
    <2> QED
      BY <2>5, <2>6 DEF SumFunction
  <1>2. SumFunction(c.contingency) + c.uncompared = Cardinality(Pairs)
    <2> DEFINE K == [o \in Cells |-> Cell(trials, o)]
               E == Done(trials, "weak-only") \cap Done(trials, "strong-only")
    <2>1. IsFiniteSet(Cells)
      <3>1. IsFiniteSet({"pass", "fail"})
        BY FiniteSets
      <3> QED
        BY <3>1, FS_Product DEF Cells
    <2>2. \A o \in Cells : K[o] \in SUBSET Pairs
      BY DEF Cell
    <2>3. \A o, u \in Cells : o # u => K[o] \cap K[u] = {}
      <3>1. \A o, u \in Cells : o # u => o[1] # u[1] \/ o[2] # u[2]
        BY DEF Cells
      <3> QED
        BY <3>1 DEF Cell
    <2>4. UNION {K[o] : o \in Cells} = E
      <3>1. ASSUME NEW o \in Cells, NEW p \in K[o] PROVE p \in E
        BY DEF Cell, Cells, Done, isEvaluated
      <3>2. ASSUME NEW p \in E PROVE \E o \in Cells : p \in K[o]
        <4> DEFINE o == <<trials[In(p, "weak-only")].outcome, trials[In(p, "strong-only")].outcome>>
        <4>1. p \in Pairs /\ o \in Cells
          BY DEF Done, isEvaluated, Cells
        <4>2. p \in Cell(trials, o)
          BY <4>1 DEF Cell
        <4> QED
          BY <4>1, <4>2
      <3> HIDE DEF K, E
      <3> QED
        BY <3>1, <3>2
    <2>5. /\ DOMAIN c.contingency = Cells /\ \A o \in Cells : c.contingency[o] = Cardinality(K[o])
          /\ c.uncompared = Cardinality(Pairs \ E)
      <3>1. c.contingency = [o \in Cells |-> Cardinality(Cell(trials, o))]
        BY ComparisonIs, Zenon
      <3>2. c.uncompared = Cardinality(Pairs \ E)
        BY ComparisonIs, Zenon
      <3> QED
        BY <3>1, <3>2
    <2>6. E \in SUBSET Pairs
      BY DEF Done
    <2> HIDE DEF K, E
    <2>7. SumFunctionOnSet(c.contingency, Cells) = Cardinality(E)
      BY <1>0, <2>1, <2>2, <2>3, <2>4, <2>5, Classes
    <2>8. SumFunction(c.contingency) = Cardinality(E)
      BY <2>5, <2>7 DEF SumFunction
    <2> QED
      BY <2>5, <2>6, <2>8, PairsFinite, Split
  <1>3. c.counts["under-route"] <= c.under /\ c.counts["over-route"] <= c.over
    <2>1. /\ InCategory(trials, "under-route") \in SUBSET (To(trials, "weak") \cap Done(trials, "strong-only"))
          /\ InCategory(trials, "over-route") \in SUBSET (To(trials, "strong") \cap Done(trials, "weak-only"))
      BY PairCategory DEF InCategory
    <2>2. /\ c.counts["under-route"] = Cardinality(InCategory(trials, "under-route"))
          /\ c.counts["over-route"] = Cardinality(InCategory(trials, "over-route"))
      <3>1. c.counts = [k \in PRIMARY_CATEGORIES |-> Cardinality(InCategory(trials, k))]
        BY ComparisonIs, Zenon
      <3> QED
        BY <3>1 DEF PRIMARY_CATEGORIES
    <2>3. \A tier, m : To(trials, tier) \cap Done(trials, m) \in SUBSET Pairs
      BY DEF To
    <2>4. /\ c.under = Cardinality(To(trials, "weak") \cap Done(trials, "strong-only"))
          /\ c.over = Cardinality(To(trials, "strong") \cap Done(trials, "weak-only"))
      BY ComparisonIs
    <2> QED
      BY <1>0, <2>1, <2>2, <2>3, <2>4, CountIs
  <1>4. c.underTriplet + c.overTriplet <= c.triplets
    <2> DEFINE T == Triplets(trials)
               U == T \cap InCategory(trials, "under-route")
               O == T \cap InCategory(trials, "over-route")
    <2>1. T \in SUBSET Pairs /\ U \in SUBSET T /\ O \in SUBSET (T \ U)
      BY DEF Triplets, InCategory
    <2>2. c.triplets = Cardinality(T) /\ c.underTriplet = Cardinality(U) /\ c.overTriplet = Cardinality(O)
      BY ComparisonIs
    <2> HIDE DEF T, U, O
    <2>3. IsFiniteSet(T) /\ IsFiniteSet(T \ U)
      BY <1>0, <2>1, FS_Subset
    <2>4. /\ Cardinality(T) = Cardinality(U) + Cardinality(T \ U)
          /\ Cardinality(T) \in Nat /\ Cardinality(U) \in Nat /\ Cardinality(T \ U) \in Nat
      BY <2>1, <2>3, Split
    <2>5. Cardinality(O) <= Cardinality(T \ U) /\ Cardinality(O) \in Nat
      BY <2>1, <2>3, CountIs
    <2> QED
      BY <2>2, <2>4, <2>5
  <1> QED
    BY <1>1, <1>2, <1>3, <1>4

LEMMA SumThree ==
  ASSUME NEW f, NEW x, NEW y, NEW z, x # y, x # z, y # z,
         f[x] \in Int, f[y] \in Int, f[z] \in Int, DOMAIN f = {x, y, z}
  PROVE  SumFunction(f) = f[x] + f[y] + f[z]
  <1> DEFINE F(S) == SumFunctionOnSet(f, S)
  <1>1. /\ IsFiniteSet({}) /\ IsFiniteSet({z}) /\ IsFiniteSet({y, z}) /\ IsFiniteSet({x, y, z})
    <2>1. \A S, a : IsFiniteSet(S) => IsFiniteSet(S \cup {a})
      BY FS_AddElement
    <2>2. IsFiniteSet({}) /\ IsFiniteSet({} \cup {z}) /\ IsFiniteSet(({} \cup {z}) \cup {y})
          /\ IsFiniteSet((({} \cup {z}) \cup {y}) \cup {x})
      BY <2>1, FS_EmptySet, Zenon
    <2>3. /\ {} \cup {z} = {z} /\ ({} \cup {z}) \cup {y} = {y, z}
          /\ (({} \cup {z}) \cup {y}) \cup {x} = {x, y, z}
      OBVIOUS
    <2> QED
      BY <2>2, <2>3
  <1>2. {x, y, z} \ {x} = {y, z} /\ {y, z} \ {y} = {z} /\ {z} \ {z} = {}
    OBVIOUS
  <1>3. F({x, y, z}) = f[x] + F({x, y, z} \ {x})
    BY <1>1, SumRemove
  <1>4. F({y, z}) = f[y] + F({y, z} \ {y})
    BY <1>1, SumRemove
  <1>5. F({z}) = f[z] + F({z} \ {z})
    BY <1>1, SumRemove
  <1>6. F({}) = 0
    BY <1>1, SumIs
  <1>7. SumFunction(f) = F({x, y, z})
    BY DEF SumFunction
  <1> HIDE DEF F
  <1>8. F({x, y, z}) = f[x] + (f[y] + (f[z] + 0))
    BY <1>2, <1>3, <1>4, <1>5, <1>6
  <1> QED
    BY <1>7, <1>8

LEMMA BinIs ==
  ASSUME NEW x \in 0..100
  PROVE  /\ \E i \in 1..5 : InBin(x, i)
         /\ \A i, j \in 1..5 : InBin(x, i) /\ InBin(x, j) => i = j
  <1>1. /\ BinLower[1] = 0 /\ BinLower[2] = 200 /\ BinLower[3] = 400 /\ BinLower[4] = 601
        /\ BinLower[5] = 800
    BY DEF BinLower
  <1>2. /\ InBin(x, 1) <=> x * 10 >= 0 /\ x * 10 < 200
        /\ InBin(x, 2) <=> x * 10 >= 200 /\ x * 10 < 400
        /\ InBin(x, 3) <=> x * 10 >= 400 /\ x * 10 < 601
        /\ InBin(x, 4) <=> x * 10 >= 601 /\ x * 10 < 800
        /\ InBin(x, 5) <=> x * 10 >= 800
    BY <1>1 DEF InBin
  <1>3. \E i \in 1..5 : InBin(x, i)
    <2>1. InBin(x, 1) \/ InBin(x, 2) \/ InBin(x, 3) \/ InBin(x, 4) \/ InBin(x, 5)
      BY <1>2
    <2> QED
      BY <2>1
  <1>4. ASSUME NEW i \in 1..5, NEW j \in 1..5, InBin(x, i), InBin(x, j) PROVE i = j
    <2>1. i \in {1, 2, 3, 4, 5} /\ j \in {1, 2, 3, 4, 5}
      OBVIOUS
    <2> QED
      BY <1>2, <1>4, <2>1
  <1> QED
    BY <1>3, <1>4

CalibrationSchema == [samples : Nat, excluded : [1..3 -> Nat], bins : [1..5 -> Nat]]

DecidedPairs(trials) == {p \in Pairs : DecisionOf(trials[In(p, "routed")]) # None}

\* Each decision is in one calibration bin or excluded for one reason.
LEMMA CalibrationConsistent ==
  ASSUME IInv, NEW trials \in {Loaded}, NEW c, c = Calibration(trials)
  PROVE  /\ c \in CalibrationSchema
         /\ SumFunction(c.bins) = c.samples
         /\ c.samples + SumFunction(c.excluded) = Cardinality(DecidedPairs(trials))
  <1> DEFINE D == DecidedPairs(trials)
             d(p) == DecisionOf(trials[In(p, "routed")])
             normal == {p \in D : d(p).source # "classifier-fallback"}
             rated == {p \in normal : d(p).probability # None}
             rows == {p \in rated : isEvaluated(trials[In(p, "weak-only")])}
             K == [i \in 1..5 |-> {p \in rows : InBin(d(p).probability, i)}]
             bins == [i \in 1..5 |-> Cardinality(K[i])]
             excluded == <<Cardinality(D \ normal), Cardinality(normal \ rated),
                           Cardinality(rated \ rows)>>
  <1>1. c = [samples |-> Cardinality(rows), excluded |-> excluded, bins |-> bins]
    BY DEF Calibration, Quantify, DecidedPairs
  <1>2. /\ D \in SUBSET Pairs /\ normal \in SUBSET D /\ rated \in SUBSET normal
        /\ rows \in SUBSET rated /\ \A i \in 1..5 : K[i] \in SUBSET rows
    BY DEF DecidedPairs
  <1>3. ASSUME NEW p \in rows PROVE d(p).probability \in 0..100
    <2>1. p \in Pairs /\ d(p) # None /\ d(p).probability # None
      BY DEF DecidedPairs
    <2>2. In(p, "routed") \in Trials
      BY <2>1, InIs DEF Modes
    <2>3. d(p) \in Decision \cup {None}
      BY <2>2, LoadType
    <2> HIDE DEF d
    <2> QED
      BY <2>1, <2>3 DEF Decision
  <1>4. \A i, j \in 1..5 : i # j => K[i] \cap K[j] = {}
    <2> SUFFICES ASSUME NEW i \in 1..5, NEW j \in 1..5, NEW p \in rows,
                        InBin(d(p).probability, i), InBin(d(p).probability, j)
                 PROVE  i = j
      OBVIOUS
    <2> HIDE DEF d, rows
    <2> QED
      BY <1>3, BinIs
  <1>5. UNION {K[i] : i \in 1..5} = rows
    <2> SUFFICES ASSUME NEW p \in rows PROVE \E i \in 1..5 : InBin(d(p).probability, i)
      OBVIOUS
    <2> HIDE DEF d, rows
    <2> QED
      BY <1>3, BinIs
  <1> HIDE DEF D, d, normal, rated, rows, K
  <1>6. IsFiniteSet(D) /\ IsFiniteSet(normal) /\ IsFiniteSet(rated) /\ IsFiniteSet(rows)
    BY <1>2, PairsFinite, FS_Subset
  <1>7. \A i \in 1..5 : IsFiniteSet(K[i]) /\ Cardinality(K[i]) \in Nat
    BY <1>2, <1>6, CountIs
  <1>8. IsFiniteSet(1..5)
    BY IntervalIs
  <1>9. /\ DOMAIN bins = 1..5 /\ \A i \in 1..5 : bins[i] = Cardinality(K[i])
        /\ bins \in [1..5 -> Nat]
    BY <1>7
  <1>10. SumFunction(bins) = Cardinality(rows)
    <2> HIDE DEF bins
    <2>1. SumFunctionOnSet(bins, 1..5) = Cardinality(rows)
      BY <1>4, <1>5, <1>7, <1>8, <1>9, Classes
    <2> QED
      BY <1>9, <2>1 DEF SumFunction
  <1>11. /\ Cardinality(D) = Cardinality(normal) + Cardinality(D \ normal)
         /\ Cardinality(D \ normal) \in Nat
    BY <1>2, <1>6, Split
  <1>12. /\ Cardinality(normal) = Cardinality(rated) + Cardinality(normal \ rated)
         /\ Cardinality(normal \ rated) \in Nat
    BY <1>2, <1>6, Split
  <1>13. /\ Cardinality(rated) = Cardinality(rows) + Cardinality(rated \ rows)
         /\ Cardinality(rated \ rows) \in Nat /\ Cardinality(rows) \in Nat
    BY <1>2, <1>6, Split
  <1>14. /\ DOMAIN excluded = {1, 2, 3} /\ excluded \in [1..3 -> Nat]
         /\ excluded[1] = Cardinality(D \ normal) /\ excluded[2] = Cardinality(normal \ rated)
         /\ excluded[3] = Cardinality(rated \ rows)
    BY <1>11, <1>12, <1>13
  <1> HIDE DEF excluded, bins
  <1>15. SumFunction(excluded) = excluded[1] + excluded[2] + excluded[3]
    <2>1. excluded[1] \in Int /\ excluded[2] \in Int /\ excluded[3] \in Int
      BY <1>11, <1>12, <1>13, <1>14
    <2> QED
      BY <1>14, <2>1, SumThree
  <1>16. Cardinality(rows) + SumFunction(excluded) = Cardinality(D)
    BY <1>11, <1>12, <1>13, <1>14, <1>15
  <1> QED
    BY <1>1, <1>9, <1>10, <1>13, <1>14, <1>16 DEF CalibrationSchema, D

\* A trial is that of its pair in its mode.
LEMMA InOf ==
  ASSUME NEW t \in Trials
  PROVE  /\ Schedule[t].pair \in Pairs /\ Schedule[t].mode \in Modes
         /\ In(Schedule[t].pair, Schedule[t].mode) = t
  <1>1. \A u \in Trials : Schedule[u] \in [pair : Nat, mode : Modes]
    BY ReportsAssumption
  <1>2. Schedule[t].pair \in Pairs /\ Schedule[t].mode \in Modes
    BY <1>1 DEF Pairs
  <1> DEFINE u == In(Schedule[t].pair, Schedule[t].mode)
  <1>3. u \in Trials /\ Schedule[u].pair = Schedule[t].pair /\ Schedule[u].mode = Schedule[t].mode
    BY <1>2, InIs
  <1> HIDE DEF u
  <1>4. Schedule[u] = Schedule[t]
    BY <1>1, <1>3
  <1>5. u = t
    BY <1>3, <1>4, ReportsAssumption
  <1> QED
    BY <1>2, <1>5 DEF u

\* The trials of a mode are as many as the pairs, and so are those among them whose
\* pair is one of P.
LEMMA ModeTrials ==
  ASSUME NEW m \in Modes, NEW P \in SUBSET Pairs
  PROVE  LET T == {t \in Trials : Schedule[t].mode = m /\ Schedule[t].pair \in P}
         IN IsFiniteSet(T) /\ Cardinality(T) = Cardinality(P)
  <1> DEFINE T == {t \in Trials : Schedule[t].mode = m /\ Schedule[t].pair \in P}
             f == [p \in P |-> In(p, m)]
  <1>1. f \in [P -> T]
    BY InIs
  <1>2. \A p, q \in P : f[p] = f[q] => p = q
    <2> SUFFICES ASSUME NEW p \in P, NEW q \in P, In(p, m) = In(q, m) PROVE p = q
      OBVIOUS
    <2>1. Schedule[In(p, m)].pair = p /\ Schedule[In(q, m)].pair = q
      BY InIs
    <2> QED
      BY <2>1
  <1>3. \A t \in T : \E p \in P : f[p] = t
    BY InOf
  <1> HIDE DEF f, T
  <1>4. f \in Bijection(P, T)
    <2>1. f \in Injection(P, T)
      BY <1>1, <1>2 DEF Injection, IsInjective
    <2>2. f \in Surjection(P, T)
      BY <1>1, <1>3 DEF Surjection
    <2> QED
      BY <2>1, <2>2 DEF Bijection
  <1>5. IsFiniteSet(P)
    BY PairsFinite, FS_Subset
  <1> QED
    BY <1>4, <1>5, FS_Bijection DEF ExistsBijection, T

\* The trials of aggregateExperiment.
WithOutcome(trials, o) == {t \in Trials : trials[t].outcome = o}
Evaluated(trials) == {t \in Trials : isEvaluated(trials[t])}
DecidedTrials(trials) == {t \in Trials : Schedule[t].mode = "routed" /\ DecisionOf(trials[t]) # None}

LEMMA DecidedCount ==
  ASSUME NEW trials
  PROVE  Cardinality(DecidedTrials(trials)) = Cardinality(DecidedPairs(trials))
  <1> DEFINE P == DecidedPairs(trials)
             T == {t \in Trials : Schedule[t].mode = "routed" /\ Schedule[t].pair \in P}
  <1>1. P \in SUBSET Pairs /\ "routed" \in Modes
    BY DEF DecidedPairs, Modes
  <1>2. \A t \in Trials :
          Schedule[t].mode = "routed" => (Schedule[t].pair \in P <=> DecisionOf(trials[t]) # None)
    <2> SUFFICES ASSUME NEW t \in Trials, Schedule[t].mode = "routed"
                 PROVE  Schedule[t].pair \in P <=> DecisionOf(trials[t]) # None
      OBVIOUS
    <2>1. Schedule[t].pair \in Pairs /\ In(Schedule[t].pair, "routed") = t
      BY InOf
    <2> QED
      BY <2>1 DEF DecidedPairs
  <1>3. T = DecidedTrials(trials)
    BY <1>2 DEF DecidedTrials
  <1> HIDE DEF P
  <1>4. Cardinality(T) = Cardinality(P)
    BY <1>1, ModeTrials
  <1> QED
    BY <1>3, <1>4 DEF P

AggregateOf(trials, weak, normal) ==
  [planned     |-> NumTrials,
   evaluated   |-> Cardinality(Evaluated(trials)),
   unavailable |-> Cardinality(WithOutcome(trials, "unavailable")),
   incomplete  |-> NumTrials - Cardinality(Trials \ WithOutcome(trials, "incomplete")),
   physical    |-> Cardinality(Physical(trials)),
   interrupted |-> Interrupted(trials),
   modes       |-> ModeOutcomes(trials),
   decisions   |-> Cardinality(DecidedTrials(trials)),
   weak        |-> Cardinality(weak),
   strong      |-> Cardinality(DecidedTrials(trials)) - Cardinality(weak),
   normal      |-> Cardinality(normal),
   fallback    |-> Cardinality(DecidedTrials(trials)) - Cardinality(normal),
   categories  |-> Comparison(trials),
   savings     |-> Savings(trials),
   usage       |-> aggregateUsage(trials),
   spend       |-> spend(trials),
   calibration |-> Calibration(trials)]

DecidedWeak(trials) == {t \in DecidedTrials(trials) : DecisionOf(trials[t]).tier = "weak"}
DecidedNormal(trials) == {t \in DecidedTrials(trials) : DecisionOf(trials[t]).source = "classifier"}

LEMMA AggregateIs ==
  ASSUME NEW trials
  PROVE  aggregateExperiment(trials) =
           AggregateOf(trials, DecidedWeak(trials), DecidedNormal(trials))
  <1>1. {t \in Trials : trials[t].outcome # "incomplete"} = Trials \ WithOutcome(trials, "incomplete")
    BY DEF WithOutcome
  <1> QED
    BY <1>1 DEF aggregateExperiment, AggregateOf, Quantify, Evaluated, WithOutcome, DecidedTrials,
                DecidedWeak, DecidedNormal

\* Each planned trial is evaluated, unavailable or incomplete.
LEMMA OutcomeCounts ==
  ASSUME IInv, NEW trials \in {Loaded}
  PROVE  LET e == Cardinality(Evaluated(trials))
             u == Cardinality(WithOutcome(trials, "unavailable"))
             c == Cardinality(Trials \ WithOutcome(trials, "incomplete"))
         IN e \in Nat /\ u \in Nat /\ NumTrials - c \in Nat /\ e + u + (NumTrials - c) = NumTrials
  <1> DEFINE E == Evaluated(trials)
             U == WithOutcome(trials, "unavailable")
             C == Trials \ WithOutcome(trials, "incomplete")
  <1>1. \A t \in Trials : trials[t].outcome \in Outcome
    BY LoadType
  <1>2. E \in SUBSET C /\ C \ E = U /\ C \in SUBSET Trials
    BY <1>1 DEF Evaluated, WithOutcome, isEvaluated, Outcome
  <1> HIDE DEF E, U, C
  <1>3. IsFiniteSet(C) /\ Cardinality(C) \in Nat /\ Cardinality(C) <= NumTrials
    BY <1>2, PairsFinite, CountIs
  <1>4. /\ Cardinality(C) = Cardinality(E) + Cardinality(U)
        /\ Cardinality(E) \in Nat /\ Cardinality(U) \in Nat
    BY <1>2, <1>3, Split
  <1>5. NumTrials \in Nat
    BY ReportsAssumption
  <1>6. /\ Cardinality(E) \in Nat /\ Cardinality(U) \in Nat /\ NumTrials - Cardinality(C) \in Nat
        /\ Cardinality(E) + Cardinality(U) + (NumTrials - Cardinality(C)) = NumTrials
    BY <1>3, <1>4, <1>5
  <1> QED
    BY <1>6 DEF E, U, C

LEMMA ModesType ==
  ASSUME NEW trials
  PROVE  ModeOutcomes(trials) \in [Modes -> [{"pass", "fail", "unavailable", "incomplete"} -> Nat]]
  <1> DEFINE T(m, o) == {t \in Trials : Schedule[t].mode = m /\ trials[t].outcome = o}
  <1>1. \A m, o : Cardinality(T(m, o)) \in Nat
    BY PairsFinite, CountIs
  <1>2. ModeOutcomes(trials) =
          [m \in Modes |-> [o \in {"pass", "fail", "unavailable", "incomplete"} |-> Cardinality(T(m, o))]]
    BY DEF ModeOutcomes, Quantify
  <1> HIDE DEF T
  <1> QED
    BY <1>1, <1>2

LEMMA Consistent ==
  ASSUME IInv
  PROVE  ReportConsistent
  <1> SUFFICES ASSUME NEW trials \in {Loaded}
               PROVE  LET r == aggregateExperiment(trials)
                          c == r.categories
                      IN /\ validateExperimentReport(r)
                         /\ SumFunction(c.counts) = Cardinality(Pairs)
                         /\ SumFunction(c.contingency) + c.uncompared = Cardinality(Pairs)
                         /\ c.counts["under-route"] <= c.under
                         /\ c.counts["over-route"] <= c.over
                         /\ c.underTriplet + c.overTriplet <= c.triplets
                         /\ SumFunction(r.calibration.bins) = r.calibration.samples
                         /\ r.calibration.samples + SumFunction(r.calibration.excluded) = r.decisions
    BY DEF ReportConsistent
  <1> DEFINE r == aggregateExperiment(trials)
             e == Cardinality(Evaluated(trials))
             u == Cardinality(WithOutcome(trials, "unavailable"))
             i == NumTrials - Cardinality(Trials \ WithOutcome(trials, "incomplete"))
             ph == Cardinality(Physical(trials))
             it == Interrupted(trials)
             mo == ModeOutcomes(trials)
             de == Cardinality(DecidedTrials(trials))
             w == Cardinality(DecidedWeak(trials))
             n == Cardinality(DecidedNormal(trials))
             co == Comparison(trials)
             sa == Savings(trials)
             us == aggregateUsage(trials)
             sp == spend(trials)
             ca == Calibration(trials)
  <1>1. r = [planned |-> NumTrials, evaluated |-> e, unavailable |-> u, incomplete |-> i,
             physical |-> ph, interrupted |-> it, modes |-> mo, decisions |-> de,
             weak |-> w, strong |-> de - w, normal |-> n, fallback |-> de - n,
             categories |-> co, savings |-> sa, usage |-> us, spend |-> sp, calibration |-> ca]
    BY AggregateIs DEF AggregateOf
  <1>2. e \in Nat /\ u \in Nat /\ i \in Nat /\ e + u + i = NumTrials /\ NumTrials \in Nat
    BY OutcomeCounts, ReportsAssumption
  <1>3. ph \in Nat
    BY PhysicalIs, FS_CardinalityType
  <1>4. /\ it \in Nat /\ sp \in KnownOrNone
        /\ us \in [byIdentity : [Identities -> KnownOrNone], total : KnownOrNone]
    BY UsageType
  <1>5. de \in Nat /\ w \in Nat /\ n \in Nat /\ w <= de /\ n <= de
    <2>1. DecidedTrials(trials) \in SUBSET Trials
      BY DEF DecidedTrials
    <2>2. DecidedWeak(trials) \in SUBSET DecidedTrials(trials) /\ DecidedNormal(trials) \in SUBSET DecidedTrials(trials)
      BY DEF DecidedWeak, DecidedNormal
    <2>3. IsFiniteSet(DecidedTrials(trials)) /\ de \in Nat
      BY <2>1, PairsFinite, CountIs
    <2> QED
      BY <2>2, <2>3, CountIs
  <1>6. mo \in [Modes -> [{"pass", "fail", "unavailable", "incomplete"} -> Nat]]
    BY ModesType
  <1>7. co \in ComparisonSchema /\ sa \in SavingsSchema /\ ca \in CalibrationSchema
    BY ComparisonType, SavingsType, CalibrationConsistent
  <1>8. /\ SumFunction(co.counts) = Cardinality(Pairs)
        /\ SumFunction(co.contingency) + co.uncompared = Cardinality(Pairs)
        /\ co.counts["under-route"] <= co.under
        /\ co.counts["over-route"] <= co.over
        /\ co.underTriplet + co.overTriplet <= co.triplets
    BY ComparisonConsistent
  <1>9. SumFunction(ca.bins) = ca.samples /\ ca.samples + SumFunction(ca.excluded) = de
    BY CalibrationConsistent, DecidedCount
  <1> HIDE DEF r, e, u, i, ph, it, mo, de, w, n, co, sa, us, sp, ca
  <1>10. de - w \in Nat /\ de - n \in Nat /\ w + (de - w) = de /\ n + (de - n) = de
    BY <1>5
  <1>11. /\ r.planned = NumTrials /\ r.evaluated = e /\ r.unavailable = u /\ r.incomplete = i
         /\ r.weak = w /\ r.strong = de - w /\ r.normal = n /\ r.fallback = de - n
         /\ r.decisions = de /\ r.categories = co /\ r.calibration = ca
    BY <1>1
  <1>12. r \in ExperimentReport
    BY <1>1, <1>2, <1>3, <1>4, <1>5, <1>6, <1>7, <1>10
       DEF ExperimentReport, ComparisonSchema, SavingsSchema, CalibrationSchema
  <1>13. validateExperimentReport(r)
    BY <1>2, <1>10, <1>11, <1>12 DEF validateExperimentReport
  <1> QED
    BY <1>8, <1>9, <1>11, <1>13 DEF r

\* No report that can be made is refused by its own validation or has a rate above
\* one, for any schedule and whatever the attempts recorded.
THEOREM ReportsAreConsistent == Spec => []ReportConsistent
  <1>1. IInv => ReportConsistent
    BY Consistent
  <1> QED
    BY <1>1, Inductive, PTL

-----------------------------------------------------------------------------
(* The status report. *)

LEMMA SubSeqIs ==
  ASSUME NEW x \in Seq(Entry), NEW n \in 0..Len(x)
  PROVE  Len(SubSeq(x, 1, n)) = n /\ \A k \in 1..n : SubSeq(x, 1, n)[k] = x[k]
  <1>1. \A k \in 1..n : x[k] \in Entry
    BY ElementOfSeq
  <1> QED
    BY <1>1, SubSeqProperties

\* What is seen of a trial, and the attempt that stands for it.
LEMMA SelectedIs ==
  ASSUME IInv, NEW t \in Trials
  PROVE  /\ Len(Seen(t)) \in 0..Len(attempts[t])
         /\ \A k \in 1..Len(Seen(t)) : Seen(t)[k] = attempts[t][k]
         /\ Selected(t) # None =>
              /\ Len(attempts[t]) \in FinalOf(t) /\ Selected(t) = attempts[t][Len(attempts[t])]
              /\ Selected(t) \in Recorded
         /\ HasOutcome(t) =>
              /\ Seen(t) = attempts[t] /\ Selected(t) # None
              /\ Selected(t) = loadTrial(t).result
              /\ loadTrial(t).outcome = classifyTrialOutcome(Selected(t))
         /\ HasOutcome(t) <=>
              Selected(t) # None /\ classifyTrialOutcome(Selected(t)) \in {"pass", "fail"}
  <1> DEFINE x == attempts[t]
             n == Len(attempts[t])
             void == {k \in 1..n : x[k].raw = "void"}
  <1>1. /\ x \in Seq(Entry) /\ n \in Nat /\ DOMAIN x = 1..n
        /\ \A k \in 1..n : x[k] \in Entry
    BY TrialIs DEF IInv
  <1>2. Reached(t) = x
    BY ReachedIs
  <1>3. Seen(t) = IF void = {} THEN x ELSE SubSeq(x, 1, Min(void) - 1)
    BY <1>1, <1>2 DEF Seen
  <1>4. \A k \in void : k = n
    BY DEF IInv, VoidIsLast
  <1>5. HasOutcome(t) <=> \E k \in 1..n : Decided(x[k])
    BY <1>1 DEF HasOutcome
  <1>6. \A k \in 1..n : Decided(x[k]) => k = n
    BY DEF IInv, OutcomeIsLast
  <1>7. FinalOf(t) = {k \in 1..n : Finalized(x[k])}
    BY DEF FinalOf
  <1>8. Selected(t) = IF x = <<>> \/ Seen(t) # x \/ ~Finalized(x[n]) THEN None ELSE x[n]
    BY <1>2 DEF Selected
  <1>9. x # <<>> <=> n \in 1..n
    BY <1>1
  <1>10. n = Len(x)
    OBVIOUS
  <1>11. FinalOf(t) # {} =>
           /\ loadTrial(t).result = x[Max(FinalOf(t))]
           /\ loadTrial(t).outcome = classifyTrialOutcome(loadTrial(t).result)
    BY LoadIs
  <1> HIDE DEF x, n
  <1>12. /\ Len(Seen(t)) \in 0..n
         /\ \A k \in 1..Len(Seen(t)) : Seen(t)[k] = x[k]
    <2>1. CASE void = {}
      <3>1. Seen(t) = x /\ Len(x) = n
        BY <1>3, <2>1 DEF x, n
      <3> QED
        BY <1>1, <3>1
    <2>2. CASE void # {}
      <3>1. void = {n} /\ n \in 1..n
        BY <1>4, <2>2
      <3> HIDE DEF void
      <3>2. Min(void) = n
        BY <1>1, <3>1 DEF Min
      <3>3. Seen(t) = SubSeq(x, 1, n - 1) /\ n - 1 \in 0..Len(x)
        <4>1. Seen(t) = SubSeq(x, 1, n - 1)
          BY <1>3, <2>2, <3>2
        <4>2. n - 1 \in 0..n
          BY <1>1, <3>1
        <4> QED
          BY <1>10, <4>1, <4>2
      <3>4. Len(Seen(t)) = n - 1 /\ \A k \in 1..(n - 1) : Seen(t)[k] = x[k]
        BY <1>1, <3>3, SubSeqIs
      <3> QED
        BY <1>1, <3>1, <3>4
    <2> QED
      BY <2>1, <2>2
  <1>13. ASSUME Selected(t) # None
         PROVE  n \in FinalOf(t) /\ Selected(t) = x[n] /\ Selected(t) \in Recorded
    <2>1. n \in 1..n /\ Finalized(x[n]) /\ Selected(t) = x[n]
      BY <1>8, <1>9, <1>13
    <2> QED
      BY <1>1, <1>7, <2>1, EntryIs
  <1>14. ASSUME HasOutcome(t)
         PROVE  /\ Seen(t) = x /\ Selected(t) # None
                /\ Selected(t) = loadTrial(t).result
                /\ loadTrial(t).outcome = classifyTrialOutcome(Selected(t))
                /\ classifyTrialOutcome(Selected(t)) \in {"pass", "fail"}
    <2>1. n \in 1..n /\ Decided(x[n])
      BY <1>5, <1>6, <1>14
    <2>2. x[n] \in Recorded /\ x[n] # None /\ Finalized(x[n]) /\ x[n].raw \in {"pass", "fail"}
      BY <1>1, <2>1, EntryIs, NoneAssumption DEF Decided
    <2>3. void = {}
      BY <1>4, <2>2
    <2>4. Seen(t) = x
      BY <1>3, <2>3
    <2>5. Selected(t) = x[n]
      BY <1>8, <1>9, <2>1, <2>2, <2>4
    <2>6. n \in FinalOf(t) /\ FinalOf(t) \in SUBSET (1..n)
      BY <1>7, <2>1, <2>2
    <2>7. Max(FinalOf(t)) = n
      <3>1. Max(FinalOf(t)) \in FinalOf(t) /\ n <= Max(FinalOf(t))
        BY <1>1, <2>6, MaxIs
      <3> QED
        BY <1>1, <2>6, <3>1
    <2> QED
      BY <1>11, <2>2, <2>4, <2>5, <2>6, <2>7 DEF classifyTrialOutcome
  <1>15. ASSUME Selected(t) # None, classifyTrialOutcome(Selected(t)) \in {"pass", "fail"}
         PROVE  HasOutcome(t)
    <2>1. n \in 1..n /\ Selected(t) = x[n]
      BY <1>8, <1>9, <1>15
    <2>2. x[n].raw \in {"pass", "fail"}
      BY <1>15, <2>1 DEF classifyTrialOutcome
    <2> QED
      BY <1>5, <2>1, <2>2 DEF Decided
  <1> QED
    BY <1>12, <1>13, <1>14, <1>15 DEF x, n

LEMMA SumPositive ==
  ASSUME NEW f, NEW S, IsFiniteSet(S), \A x \in S : f[x] \in Nat
  PROVE  SumFunctionOnSet(f, S) > 0 <=> \E x \in S : f[x] > 0
  <1>0. SumFunctionOnSet(f, S) \in Nat /\ \A x \in S : f[x] \in Int
    BY SumNat
  <1>1. ASSUME NEW x \in S, f[x] > 0 PROVE SumFunctionOnSet(f, S) > 0
    <2>1. SumFunctionOnSet(f, S) = f[x] + SumFunctionOnSet(f, S \ {x})
      BY <1>0, SumRemove
    <2>2. IsFiniteSet(S \ {x}) /\ \A y \in S \ {x} : f[y] \in Nat
      BY FS_Subset
    <2>3. SumFunctionOnSet(f, S \ {x}) \in Nat
      BY <2>2, SumNat
    <2> QED
      BY <1>1, <2>1, <2>3
  <1>2. ASSUME \A x \in S : ~(f[x] > 0) PROVE SumFunctionOnSet(f, S) = 0
    <2> DEFINE K == [x \in S |-> {}]
               z == [x \in S |-> Cardinality(K[x])]
    <2>1. IsFiniteSet({}) /\ Cardinality({}) = 0
      BY FS_EmptySet
    <2>2. \A x \in S : f[x] = 0
      BY <1>2
    <2>3. \A x \in S : f[x] \in Int /\ z[x] = f[x]
      BY <2>1, <2>2
    <2>4. UNION {K[x] : x \in S} = {} /\ \A x \in S : z[x] = Cardinality(K[x])
      OBVIOUS
    <2>5. \A x \in S : IsFiniteSet(K[x])
      BY <2>1
    <2>6. \A x, y \in S : x # y => K[x] \cap K[y] = {}
      OBVIOUS
    <2> HIDE DEF K, z
    <2>7. SumFunctionOnSet(z, S) = Cardinality({})
      BY <2>4, <2>5, <2>6, Classes
    <2>8. SumFunctionOnSet(f, S) = SumFunctionOnSet(z, S)
      BY <2>3, SumSame
    <2> QED
      BY <2>1, <2>7, <2>8
  <1> QED
    BY <1>0, <1>1, <1>2

\* A trial has interrupted attempts when some directory of it was not finalized.
LEMMA IncompleteIs ==
  ASSUME IInv, NEW t \in Trials
  PROVE  /\ loadTrial(t).incomplete > 0 <=> FinalOf(t) # 1..Len(attempts[t])
         /\ loadTrial(t).incomplete = Cardinality((1..Len(attempts[t])) \ FinalOf(t))
  <1> DEFINE n == Len(attempts[t])
             I == 1..n
             c == loadTrial(t).incomplete
  <1>1. n \in Nat
    BY TrialIs DEF IInv
  <1>2. c = n - Cardinality(FinalOf(t))
    BY LoadIs
  <1>3. FinalOf(t) \in SUBSET I
    BY DEF FinalOf
  <1> HIDE DEF n
  <1>4. IsFiniteSet(I) /\ Cardinality(I) = n
    BY <1>1, IntervalIs
  <1> HIDE DEF I, c
  <1>5. /\ Cardinality(I) = Cardinality(FinalOf(t)) + Cardinality(I \ FinalOf(t))
        /\ Cardinality(FinalOf(t)) \in Nat /\ Cardinality(I \ FinalOf(t)) \in Nat
    BY <1>3, <1>4, Split
  <1>6. IsFiniteSet(I \ FinalOf(t))
    BY <1>4, FS_Subset
  <1>7. Cardinality(I \ FinalOf(t)) = 0 <=> I \ FinalOf(t) = {}
    BY <1>6, FS_EmptySet
  <1>8. c = Cardinality(I \ FinalOf(t))
    BY <1>2, <1>4, <1>5
  <1>9. c > 0 <=> FinalOf(t) # I
    <2>1. FinalOf(t) = I <=> I \ FinalOf(t) = {}
      BY <1>3
    <2> QED
      BY <1>5, <1>7, <1>8, <2>1
  <1> QED
    BY <1>8, <1>9 DEF I, c, n

\* An experiment has interrupted attempts when some directory was not finalized.
LEMMA InterruptedIs ==
  ASSUME IInv, NEW trials \in {Loaded}
  PROVE  Interrupted(trials) > 0 <=> \E t \in Trials : FinalOf(t) # 1..Len(attempts[t])
  <1> DEFINE f == [t \in Trials |-> trials[t].incomplete]
  <1>1. \A t \in Trials : f[t] \in Nat /\ trials[t] = loadTrial(t)
    BY LoadType
  <1>2. Interrupted(trials) = SumFunctionOnSet(f, Trials)
    BY DEF Interrupted, SumFunction
  <1>3. \A t \in Trials : f[t] > 0 <=> FinalOf(t) # 1..Len(attempts[t])
    BY <1>1, IncompleteIs
  <1> HIDE DEF f
  <1>4. SumFunctionOnSet(f, Trials) > 0 <=> \E t \in Trials : f[t] > 0
    BY <1>1, PairsFinite, SumPositive
  <1> QED
    BY <1>2, <1>3, <1>4

\* The parts of the status report.
Rows == {t \in Trials : Selected(t) # None}
RowsWith(o) == {t \in Rows : classifyTrialOutcome(Selected(t)) = o}
ModeRows(m, o) == {t \in Rows : Schedule[t].mode = m /\ classifyTrialOutcome(Selected(t)) = o}
EvaluatedRows == {t \in Rows : classifyTrialOutcome(Selected(t)) \in {"pass", "fail"}}
RoutedRows == {t \in Rows : Schedule[t].mode = "routed" /\ Selected(t).decision # None}
Counted == {q \in Trials \X (1..MaxAttempts) : q[2] <= Len(Seen(q[1]))}
AllKnown == \A q \in Counted : Finalized(Seen(q[1])[q[2]])

StatusOf ==
  [evaluated   |-> Cardinality(EvaluatedRows),
   missing     |-> NumTrials - Cardinality(EvaluatedRows),
   modeResults |-> [m \in Modes |-> [o \in Outcome |-> Cardinality(ModeRows(m, o))]],
   weak        |-> Cardinality({t \in RoutedRows : Selected(t).decision.tier = "weak"}),
   strong      |-> Cardinality({t \in RoutedRows : Selected(t).decision.tier = "strong"}),
   fallback    |-> Cardinality({t \in RoutedRows :
                                  Selected(t).decision.source = "classifier-fallback"}),
   tokens      |-> IF ~AllKnown THEN None
                   ELSE sumKnown([q \in Counted |-> Tokens(Seen(q[1])[q[2]])]),
   cost        |-> IF ~AllKnown THEN None
                   ELSE sumKnown([q \in Counted |-> Cost(Seen(q[1])[q[2]])])]

LEMMA StatusIs == generateSmokeReport = StatusOf
  BY DEF generateSmokeReport, StatusOf, Quantify, Rows, EvaluatedRows, ModeRows, RoutedRows,
         Counted, AllKnown, Outcome

LEMMA EvaluatedRowsAre ==
  ASSUME IInv
  PROVE  EvaluatedRows = {t \in Trials : HasOutcome(t)}
  BY SelectedIs DEF EvaluatedRows, Rows

LEMMA CountedIs ==
  ASSUME IInv
  PROVE  /\ IsFiniteSet(Counted)
         /\ \A q \in Counted :
              /\ q[1] \in Trials /\ q[2] \in 1..Len(attempts[q[1]])
              /\ Seen(q[1])[q[2]] = attempts[q[1]][q[2]]
              /\ Finalized(Seen(q[1])[q[2]]) => Seen(q[1])[q[2]] \in Recorded
  <1>1. MaxAttempts \in Nat
    BY ReportsAssumption
  <1>2. IsFiniteSet(1..MaxAttempts)
    BY <1>1, IntervalIs
  <1>3. IsFiniteSet(Trials \X (1..MaxAttempts))
    BY <1>2, PairsFinite, FS_Product
  <1>4. IsFiniteSet(Counted)
    BY <1>3, FS_Subset DEF Counted
  <1>5. ASSUME NEW q \in Counted
        PROVE  /\ q[1] \in Trials /\ q[2] \in 1..Len(attempts[q[1]])
               /\ Seen(q[1])[q[2]] = attempts[q[1]][q[2]]
    <2>1. q[1] \in Trials /\ q[2] \in 1..MaxAttempts /\ q[2] <= Len(Seen(q[1]))
      BY DEF Counted
    <2> DEFINE m == Len(Seen(q[1]))
               n == Len(attempts[q[1]])
    <2>2. m \in 0..n /\ n \in Nat
      BY <2>1, SelectedIs, TrialIs DEF IInv
    <2>3. q[2] <= m
      BY <2>1
    <2> HIDE DEF m, n
    <2>4. q[2] \in 1..m /\ q[2] \in 1..n
      BY <2>1, <2>2, <2>3
    <2> QED
      BY <2>1, <2>4, SelectedIs DEF m, n
  <1>6. ASSUME NEW q \in Counted, Finalized(Seen(q[1])[q[2]])
        PROVE  Seen(q[1])[q[2]] \in Recorded
    <2>1. attempts[q[1]][q[2]] \in Entry
      BY <1>5, TrialIs DEF IInv
    <2> QED
      BY <1>5, <1>6, <2>1, EntryIs
  <1> QED
    BY <1>4, <1>5, <1>6

\* The status report passes its own validation.
LEMMA StatusValid ==
  ASSUME IInv, NEW s, s = generateSmokeReport
  PROVE  validateSmokeReport(s)
  <1> DEFINE e == Cardinality(EvaluatedRows)
             mr == [m \in Modes |-> [o \in Outcome |-> Cardinality(ModeRows(m, o))]]
             w == Cardinality({t \in RoutedRows : Selected(t).decision.tier = "weak"})
             g == Cardinality({t \in RoutedRows : Selected(t).decision.tier = "strong"})
             b == Cardinality({t \in RoutedRows : Selected(t).decision.source = "classifier-fallback"})
             to == IF ~AllKnown THEN None
                   ELSE sumKnown([q \in Counted |-> Tokens(Seen(q[1])[q[2]])])
             co == IF ~AllKnown THEN None
                   ELSE sumKnown([q \in Counted |-> Cost(Seen(q[1])[q[2]])])
  <1>1. s = [evaluated |-> e, missing |-> NumTrials - e, modeResults |-> mr, weak |-> w,
             strong |-> g, fallback |-> b, tokens |-> to, cost |-> co]
    BY StatusIs DEF StatusOf
  <1>2. /\ Rows \in SUBSET Trials /\ EvaluatedRows \in SUBSET Trials /\ RoutedRows \in SUBSET Trials
        /\ \A m, o : ModeRows(m, o) \in SUBSET Trials
    BY DEF Rows, EvaluatedRows, RoutedRows, ModeRows
  <1>3. \A T \in SUBSET Trials : IsFiniteSet(T) /\ Cardinality(T) \in Nat /\ Cardinality(T) <= NumTrials
    BY PairsFinite, CountIs
  <1>4. NumTrials \in Nat
    BY ReportsAssumption
  <1>5. e \in Nat /\ NumTrials - e \in Nat /\ e + (NumTrials - e) = NumTrials
    <2>1. e \in Nat /\ e <= NumTrials
      BY <1>2, <1>3
    <2> HIDE DEF e
    <2> QED
      BY <1>4, <2>1
  <1>6. mr \in [Modes -> [Outcome -> Nat]]
    BY <1>2, <1>3
  <1>7. w \in Nat /\ g \in Nat /\ b \in Nat
    <2>1. /\ {t \in RoutedRows : Selected(t).decision.tier = "weak"} \in SUBSET Trials
          /\ {t \in RoutedRows : Selected(t).decision.tier = "strong"} \in SUBSET Trials
          /\ {t \in RoutedRows : Selected(t).decision.source = "classifier-fallback"} \in SUBSET Trials
      BY <1>2
    <2> QED
      BY <1>3, <2>1
  <1>8. to \in KnownOrNone
    <2> DEFINE f == [q \in Counted |-> Tokens(Seen(q[1])[q[2]])]
    <2>1. AllKnown => \A q \in DOMAIN f : f[q] \in KnownOrNone
      BY CountedIs, CostType DEF AllKnown
    <2>2. IsFiniteSet(DOMAIN f)
      BY CountedIs
    <2>3. to = None \/ (AllKnown /\ to = sumKnown(f))
      OBVIOUS
    <2> HIDE DEF f, to
    <2> QED
      BY <2>1, <2>2, <2>3, KnownSum DEF KnownOrNone
  <1>9. co \in KnownOrNone
    <2> DEFINE f == [q \in Counted |-> Cost(Seen(q[1])[q[2]])]
    <2>1. AllKnown => \A q \in DOMAIN f : f[q] \in KnownOrNone
      BY CountedIs, CostType DEF AllKnown
    <2>2. IsFiniteSet(DOMAIN f)
      BY CountedIs
    <2>3. co = None \/ (AllKnown /\ co = sumKnown(f))
      OBVIOUS
    <2> HIDE DEF f, co
    <2> QED
      BY <2>1, <2>2, <2>3, KnownSum DEF KnownOrNone
  <1>10. ASSUME NEW m \in Modes PROVE SumFunction(mr[m]) <= Cardinality(Pairs)
    <2> DEFINE K == [o \in Outcome |-> ModeRows(m, o)]
               U == UNION {K[o] : o \in Outcome}
               T == {t \in Trials : Schedule[t].mode = m /\ Schedule[t].pair \in Pairs}
    <2>1. \A o \in Outcome : IsFiniteSet(K[o])
      BY <1>2, <1>3
    <2>2. \A o, u \in Outcome : o # u => K[o] \cap K[u] = {}
      BY DEF ModeRows
    <2>3. U \in SUBSET T
      BY DEF ModeRows, Rows, Pairs
    <2>4. IsFiniteSet(T) /\ Cardinality(T) = Cardinality(Pairs)
      BY ModeTrials
    <2>5. DOMAIN mr[m] = Outcome /\ \A o \in Outcome : mr[m][o] = Cardinality(K[o])
      OBVIOUS
    <2>6. UNION {K[o] : o \in Outcome} = U /\ IsFiniteSet(Outcome)
      BY FiniteSets
    <2> HIDE DEF K, U, T, mr
    <2>7. SumFunctionOnSet(mr[m], Outcome) = Cardinality(U)
      BY <2>1, <2>2, <2>5, <2>6, Classes
    <2>8. SumFunction(mr[m]) = Cardinality(U)
      BY <2>5, <2>7 DEF SumFunction
    <2> QED
      BY <2>3, <2>4, <2>8, CountIs
  <1> HIDE DEF e, mr, w, g, b, to, co
  <1>11. s \in SMOKE_REPORT_SCHEMA
    BY <1>1, <1>5, <1>6, <1>7, <1>8, <1>9 DEF SMOKE_REPORT_SCHEMA, Outcome
  <1>12. s.evaluated = e /\ s.missing = NumTrials - e /\ s.modeResults = mr
    BY <1>1
  <1> QED
    BY <1>5, <1>10, <1>11, <1>12 DEF validateSmokeReport

Settled == \A t \in Trials : HasOutcome(t)

\* The exit code tells whether every trial has its outcome, and whether one failed.
LEMMA ExitCodeIs ==
  ASSUME IInv, NEW trials \in {Loaded}, NEW s, s = generateSmokeReport
  PROVE  smokeExitCode(s) =
           IF ~Settled THEN 3
           ELSE IF \E t \in Trials : trials[t].outcome = "fail" THEN 1 ELSE 0
  <1> DEFINE e == Cardinality(EvaluatedRows)
             mr == [m \in Modes |-> [o \in Outcome |-> Cardinality(ModeRows(m, o))]]
  <1>1. s.missing = NumTrials - e /\ s.modeResults = mr
    BY StatusIs DEF StatusOf
  <1>2. EvaluatedRows = {t \in Trials : HasOutcome(t)}
    BY EvaluatedRowsAre
  <1>3. /\ NumTrials = e + Cardinality(Trials \ EvaluatedRows)
        /\ e \in Nat /\ Cardinality(Trials \ EvaluatedRows) \in Nat
        /\ IsFiniteSet(Trials \ EvaluatedRows)
    <2>1. EvaluatedRows \in SUBSET Trials
      BY <1>2
    <2> QED
      BY <2>1, PairsFinite, Split, FS_Subset
  <1>4. Cardinality(Trials \ EvaluatedRows) = 0 <=> Trials \ EvaluatedRows = {}
    BY <1>3, FS_EmptySet
  <1>5. Settled <=> Trials \ EvaluatedRows = {}
    BY <1>2 DEF Settled
  <1>6. s.missing > 0 <=> ~Settled
    <2> HIDE DEF e
    <2> QED
      BY <1>1, <1>3, <1>4, <1>5
  <1>7. CASE ~Settled
    BY <1>6, <1>7 DEF smokeExitCode
  <1>8. CASE Settled
    <2>1. \A t \in Trials :
            /\ t \in Rows /\ trials[t].outcome = classifyTrialOutcome(Selected(t))
            /\ trials[t].outcome \in {"pass", "fail"}
      BY <1>8, SelectedIs, LoadType DEF Rows, Settled
    <2>2. \A m \in Modes : \A o \in Outcome :
            /\ IsFiniteSet(ModeRows(m, o)) /\ Cardinality(ModeRows(m, o)) \in Nat
            /\ mr[m][o] = Cardinality(ModeRows(m, o))
      <3>1. \A m, o : ModeRows(m, o) \in SUBSET Trials
        BY DEF ModeRows, Rows
      <3> QED
        BY <3>1, PairsFinite, CountIs
    <2> HIDE DEF mr
    <2>3. \A m \in Modes : ModeRows(m, "unavailable") = {} /\ ModeRows(m, "incomplete") = {}
      BY <2>1 DEF ModeRows, Rows
    <2>4. \A m \in Modes : mr[m]["unavailable"] = 0 /\ mr[m]["incomplete"] = 0
      BY <2>2, <2>3, FS_EmptySet DEF Outcome
    <2>5. ~\E m \in Modes : mr[m]["unavailable"] + mr[m]["incomplete"] > 0
      BY <2>4
    <2>6. \A m \in Modes : mr[m]["fail"] > 0 <=> ModeRows(m, "fail") # {}
      <3> SUFFICES ASSUME NEW m \in Modes PROVE mr[m]["fail"] > 0 <=> ModeRows(m, "fail") # {}
        OBVIOUS
      <3>1. /\ IsFiniteSet(ModeRows(m, "fail")) /\ Cardinality(ModeRows(m, "fail")) \in Nat
            /\ mr[m]["fail"] = Cardinality(ModeRows(m, "fail"))
        BY <2>2 DEF Outcome
      <3>2. Cardinality(ModeRows(m, "fail")) = 0 <=> ModeRows(m, "fail") = {}
        BY <3>1, FS_EmptySet
      <3> QED
        BY <3>1, <3>2
    <2>7. (\E m \in Modes : ModeRows(m, "fail") # {}) <=> \E t \in Trials : trials[t].outcome = "fail"
      <3>1. ASSUME NEW t \in Trials, trials[t].outcome = "fail"
            PROVE  \E m \in Modes : ModeRows(m, "fail") # {}
        BY <2>1, <3>1, InOf DEF ModeRows
      <3>2. ASSUME NEW m \in Modes, NEW t \in ModeRows(m, "fail")
            PROVE  \E u \in Trials : trials[u].outcome = "fail"
        BY <2>1 DEF ModeRows, Rows
      <3> QED
        BY <3>1, <3>2
    <2>8. smokeExitCode(s) = IF \E m \in Modes : mr[m]["fail"] > 0 THEN 1 ELSE 0
      BY <1>1, <1>6, <1>8, <2>5 DEF smokeExitCode
    <2> QED
      BY <1>8, <2>6, <2>7, <2>8
  <1> QED
    BY <1>7, <1>8

\* Once every trial has its outcome, what is counted is what was loaded.
LEMMA CountedLoaded ==
  ASSUME IInv, Settled, NEW trials \in {Loaded}
  PROVE  /\ AllKnown <=> ~(Interrupted(trials) > 0)
         /\ AllKnown => Counted = Physical(trials)
         /\ AllKnown => \A q \in Counted : Seen(q[1])[q[2]] = trials[q[1]].physical[q[2]]
  <1>1. \A t \in Trials : Seen(t) = attempts[t]
    BY SelectedIs DEF Settled
  <1>2. \A t \in Trials :
          /\ Len(attempts[t]) \in Nat /\ Len(attempts[t]) <= MaxAttempts /\ MaxAttempts \in Nat
    BY TrialIs, ReportsAssumption DEF IInv
  <1>3. \A t \in Trials : trials[t].physical = [k \in FinalOf(t) |-> attempts[t][k]]
    BY LoadType, LoadIs
  <1>4. Counted = {q \in Trials \X (1..MaxAttempts) : q[2] <= Len(attempts[q[1]])}
    BY <1>1 DEF Counted
  <1>5. AllKnown <=> \A t \in Trials : FinalOf(t) = 1..Len(attempts[t])
    <2>1. ASSUME AllKnown, NEW t \in Trials PROVE FinalOf(t) = 1..Len(attempts[t])
      <3> SUFFICES ASSUME NEW k \in 1..Len(attempts[t]) PROVE Finalized(attempts[t][k])
        BY DEF FinalOf
      <3>1. k \in 1..MaxAttempts /\ k <= Len(attempts[t])
        BY <1>2
      <3>2. <<t, k>> \in Counted
        BY <1>4, <3>1
      <3> QED
        BY <1>1, <2>1, <3>2 DEF AllKnown
    <2>2. ASSUME \A t \in Trials : FinalOf(t) = 1..Len(attempts[t]) PROVE AllKnown
      BY <2>2, CountedIs DEF AllKnown, FinalOf
    <2> QED
      BY <2>1, <2>2
  <1>6. AllKnown <=> ~(Interrupted(trials) > 0)
    BY <1>5, InterruptedIs
  <1>7. ASSUME AllKnown PROVE Counted = Physical(trials)
    <2>1. \A t \in Trials : DOMAIN trials[t].physical = 1..Len(attempts[t])
      BY <1>3, <1>5, <1>7
    <2>2. \A q \in Trials \X (1..MaxAttempts) :
            q[2] <= Len(attempts[q[1]]) <=> q[2] \in DOMAIN trials[q[1]].physical
      <3> SUFFICES ASSUME NEW t \in Trials, NEW k \in 1..MaxAttempts
                   PROVE  k <= Len(attempts[t]) <=> k \in DOMAIN trials[t].physical
        OBVIOUS
      <3> QED
        BY <1>2, <2>1
    <2> QED
      BY <1>4, <2>2 DEF Physical
  <1>8. ASSUME AllKnown, NEW q \in Counted
        PROVE  Seen(q[1])[q[2]] = trials[q[1]].physical[q[2]]
    <2>1. q[1] \in Trials /\ q[2] \in 1..Len(attempts[q[1]]) /\ Seen(q[1])[q[2]] = attempts[q[1]][q[2]]
      BY CountedIs
    <2>2. q[2] \in FinalOf(q[1])
      BY <1>5, <1>8, <2>1
    <2> QED
      BY <1>3, <2>1, <2>2
  <1> QED
    BY <1>6, <1>7, <1>8

LEMMA SettledAgrees ==
  ASSUME IInv, Settled, NEW trials \in {Loaded}, NEW s, s = generateSmokeReport,
         NEW r, r = aggregateExperiment(trials)
  PROVE  /\ s.evaluated = r.evaluated /\ s.modeResults = r.modes
         /\ s.weak = r.weak /\ s.strong = r.strong /\ s.fallback = r.fallback
         /\ s.cost = r.spend /\ s.tokens = r.usage.total
  <1>1. \A t \in Trials :
          /\ t \in Rows /\ trials[t] = loadTrial(t)
          /\ Selected(t) = trials[t].result /\ Selected(t) # None /\ Selected(t) \in Recorded
          /\ trials[t].outcome = classifyTrialOutcome(Selected(t))
          /\ DecisionOf(trials[t]) = Selected(t).decision
    BY SelectedIs, LoadType DEF Rows, Settled, DecisionOf
  <1>2. Rows = Trials
    BY <1>1 DEF Rows
  <1>3. s = StatusOf /\ r = AggregateOf(trials, DecidedWeak(trials), DecidedNormal(trials))
    BY StatusIs, AggregateIs
  <1>4. s.evaluated = r.evaluated
    <2>1. EvaluatedRows = Evaluated(trials)
      BY <1>1, <1>2 DEF EvaluatedRows, Evaluated, isEvaluated
    <2> QED
      BY <1>3, <2>1 DEF StatusOf, AggregateOf
  <1>5. s.modeResults = r.modes
    <2> DEFINE T(m, o) == {t \in Trials : Schedule[t].mode = m /\ trials[t].outcome = o}
    <2>1. \A m, o : ModeRows(m, o) = T(m, o)
      BY <1>1, <1>2 DEF ModeRows
    <2>2. r.modes = [m \in Modes |-> [o \in Outcome |-> Cardinality(T(m, o))]]
      BY <1>3 DEF AggregateOf, ModeOutcomes, Quantify, Outcome
    <2>3. s.modeResults = [m \in Modes |-> [o \in Outcome |-> Cardinality(ModeRows(m, o))]]
      BY <1>3 DEF StatusOf
    <2> HIDE DEF T
    <2> QED
      BY <2>1, <2>2, <2>3
  <1>6. RoutedRows = DecidedTrials(trials)
    BY <1>1, <1>2 DEF RoutedRows, DecidedTrials
  <1> DEFINE D == DecidedTrials(trials)
             W == DecidedWeak(trials)
             N == DecidedNormal(trials)
             G == {t \in RoutedRows : Selected(t).decision.tier = "strong"}
             F == {t \in RoutedRows : Selected(t).decision.source = "classifier-fallback"}
  <1>7. \A t \in D : /\ t \in Trials /\ Selected(t).decision = DecisionOf(trials[t])
                     /\ DecisionOf(trials[t]).tier \in {"weak", "strong"}
                     /\ DecisionOf(trials[t]).source \in {"classifier", "classifier-fallback"}
    <2> SUFFICES ASSUME NEW t \in D
                 PROVE  /\ t \in Trials /\ Selected(t).decision = DecisionOf(trials[t])
                        /\ DecisionOf(trials[t]).tier \in {"weak", "strong"}
                        /\ DecisionOf(trials[t]).source \in {"classifier", "classifier-fallback"}
      OBVIOUS
    <2>1. t \in Trials /\ DecisionOf(trials[t]) # None
      BY DEF DecidedTrials
    <2>2. Schedule[t].pair \in Pairs /\ In(Schedule[t].pair, "routed") = t
      BY <2>1, InOf DEF DecidedTrials
    <2>3. DecisionOf(trials[t]) \in Decision /\ Live(DecisionOf(trials[t]))
      BY <2>1, <2>2, DecisionIs
    <2> QED
      BY <1>1, <2>1, <2>3 DEF Decision, Live
  <1>8. /\ {t \in RoutedRows : Selected(t).decision.tier = "weak"} = W
        /\ G = D \ W /\ F = D \ N /\ W \in SUBSET D /\ N \in SUBSET D /\ D \in SUBSET Trials
    BY <1>6, <1>7 DEF DecidedWeak, DecidedNormal
  <1>9. /\ s.weak = Cardinality(W) /\ s.strong = Cardinality(G) /\ s.fallback = Cardinality(F)
        /\ r.weak = Cardinality(W) /\ r.strong = Cardinality(D) - Cardinality(W)
        /\ r.fallback = Cardinality(D) - Cardinality(N)
    <2>1. /\ s.weak = Cardinality({t \in RoutedRows : Selected(t).decision.tier = "weak"})
          /\ s.strong = Cardinality(G) /\ s.fallback = Cardinality(F)
      BY <1>3 DEF StatusOf
    <2>2. /\ r.weak = Cardinality(W) /\ r.strong = Cardinality(D) - Cardinality(W)
          /\ r.fallback = Cardinality(D) - Cardinality(N)
      BY <1>3 DEF AggregateOf
    <2> QED
      BY <1>8, <2>1, <2>2
  <1> HIDE DEF D, W, N, G, F
  <1>10. IsFiniteSet(D)
    BY <1>8, PairsFinite, FS_Subset
  <1>11. s.weak = r.weak /\ s.strong = r.strong /\ s.fallback = r.fallback
    <2>1. /\ Cardinality(D) = Cardinality(W) + Cardinality(D \ W)
          /\ Cardinality(W) \in Nat /\ Cardinality(D \ W) \in Nat
      BY <1>8, <1>10, Split
    <2>2. /\ Cardinality(D) = Cardinality(N) + Cardinality(D \ N)
          /\ Cardinality(N) \in Nat /\ Cardinality(D \ N) \in Nat
      BY <1>8, <1>10, Split
    <2>3. Cardinality(G) = Cardinality(D \ W) /\ Cardinality(F) = Cardinality(D \ N)
      BY <1>8
    <2> QED
      BY <1>9, <2>1, <2>2, <2>3
  <1>12. /\ AllKnown <=> ~(Interrupted(trials) > 0)
         /\ AllKnown => Counted = Physical(trials)
         /\ AllKnown => \A q \in Counted : Seen(q[1])[q[2]] = trials[q[1]].physical[q[2]]
    BY CountedLoaded
  <1>13. s.cost = r.spend
    <2>1. s.cost = IF ~AllKnown THEN None
                   ELSE sumKnown([q \in Counted |-> Cost(Seen(q[1])[q[2]])])
      BY <1>3 DEF StatusOf
    <2>2. r.spend = IF Interrupted(trials) > 0 THEN None
                    ELSE sumKnown([q \in Physical(trials) |-> Cost(trials[q[1]].physical[q[2]])])
      BY <1>3 DEF AggregateOf, spend
    <2>3. AllKnown => [q \in Counted |-> Cost(Seen(q[1])[q[2]])] =
                        [q \in Physical(trials) |-> Cost(trials[q[1]].physical[q[2]])]
      BY <1>12
    <2> QED
      BY <1>12, <2>1, <2>2, <2>3
  <1>14. s.tokens = r.usage.total
    <2>1. s.tokens = IF ~AllKnown THEN None
                     ELSE sumKnown([q \in Counted |-> Tokens(Seen(q[1])[q[2]])])
      BY <1>3 DEF StatusOf
    <2>2. r.usage.total =
            IF Interrupted(trials) > 0 THEN None
            ELSE sumKnown([q \in Physical(trials) |-> Tokens(trials[q[1]].physical[q[2]])])
      BY <1>3 DEF AggregateOf, aggregateUsage
    <2>3. AllKnown => [q \in Counted |-> Tokens(Seen(q[1])[q[2]])] =
                        [q \in Physical(trials) |-> Tokens(trials[q[1]].physical[q[2]])]
      BY <1>12
    <2> QED
      BY <1>12, <2>1, <2>2, <2>3
  <1> QED
    BY <1>4, <1>5, <1>11, <1>13, <1>14

LEMMA Agrees ==
  ASSUME IInv
  PROVE  StatusAgrees
  <1> SUFFICES ASSUME NEW trials \in {Loaded}
               PROVE  LET s       == generateSmokeReport
                          r       == aggregateExperiment(trials)
                          settled == \A t \in Trials : HasOutcome(t)
                      IN /\ validateSmokeReport(s)
                         /\ smokeExitCode(s) =
                              CASE ~settled -> 3
                                [] settled -> IF \E t \in Trials : trials[t].outcome = "fail" THEN 1 ELSE 0
                         /\ settled =>
                              /\ s.evaluated = r.evaluated /\ s.modeResults = r.modes
                              /\ s.weak = r.weak /\ s.strong = r.strong /\ s.fallback = r.fallback
                              /\ s.cost = r.spend /\ s.tokens = r.usage.total
    BY DEF StatusAgrees
  <1> DEFINE s == generateSmokeReport
             r == aggregateExperiment(trials)
  <1>1. validateSmokeReport(s)
    BY StatusValid
  <1>2. smokeExitCode(s) = IF ~Settled THEN 3
                           ELSE IF \E t \in Trials : trials[t].outcome = "fail" THEN 1 ELSE 0
    BY ExitCodeIs
  <1>3. Settled => /\ s.evaluated = r.evaluated /\ s.modeResults = r.modes
                   /\ s.weak = r.weak /\ s.strong = r.strong /\ s.fallback = r.fallback
                   /\ s.cost = r.spend /\ s.tokens = r.usage.total
    BY SettledAgrees
  <1> HIDE DEF s, r
  <1> QED
    BY <1>1, <1>2, <1>3 DEF Settled, s, r

\* The status report is valid at any moment, its exit code is 3 until every trial
\* has its outcome, and from then on it agrees with the aggregate report.
THEOREM StatusIsTrue == Spec => []StatusAgrees
  <1>1. IInv => StatusAgrees
    BY Agrees
  <1> QED
    BY <1>1, Inductive, PTL

-----------------------------------------------------------------------------
(* Costs. *)

\* The sets K[c] split U.
Splits(K, C, U) ==
  /\ K \in [C -> SUBSET U] /\ \A c \in C : IsFiniteSet(K[c])
  /\ \A b, c \in C : b # c => K[b] \cap K[c] = {}
  /\ \A x \in U : \E c \in C : x \in K[c]

\* Adding up the sums over disjoint classes is the sum over their union.
LEMMA SumClasses ==
  ASSUME NEW C, IsFiniteSet(C), NEW U, NEW K, Splits(K, C, U), NEW f, \A x \in U : f[x] \in Int, NEW n, \A c \in C : n[c] = SumFunctionOnSet(f, K[c])
  PROVE  IsFiniteSet(U) /\ SumFunctionOnSet(n, C) = SumFunctionOnSet(f, U)
  <1> DEFINE All(T) == UNION {K[c] : c \in T}
             F(T) == SumFunctionOnSet(f, T)
             B == {T \in SUBSET C : ~(IsFiniteSet(All(T)) /\ SumFunctionOnSet(n, T) = F(All(T)))}
  <1> USE DEF Splits
  <1>0. All(C) = U
    OBVIOUS
  <1> SUFFICES ASSUME B # {} PROVE FALSE
    BY <1>0
  <1>1. PICK T \in B : \A s \in B : ~(s \subseteq T /\ s # T)
    <2>1. B \in SUBSET (SUBSET C)
      OBVIOUS
    <2> HIDE DEF B
    <2> QED
      BY <2>1, LeastSubset
  <1>2. T \in SUBSET C /\ ~(IsFiniteSet(All(T)) /\ SumFunctionOnSet(n, T) = F(All(T)))
    OBVIOUS
  <1>3. \A s \in SUBSET T : s # T => IsFiniteSet(All(s)) /\ SumFunctionOnSet(n, s) = F(All(s))
    BY <1>1, <1>2
  <1>4. IsFiniteSet(T)
    BY <1>2, FS_Subset
  <1>5. \A s \in SUBSET C : All(s) \in SUBSET U
    OBVIOUS
  <1>6. \A c \in C : K[c] \in SUBSET U
    OBVIOUS
  <1>7. \A c \in C : n[c] = F(K[c]) /\ n[c] \in Int
    <2> SUFFICES ASSUME NEW c \in C PROVE n[c] = F(K[c]) /\ F(K[c]) \in Int
      OBVIOUS
    <2>1. IsFiniteSet(K[c]) /\ \A x \in K[c] : f[x] \in Int
      BY <1>6
    <2> QED
      BY <2>1, SumIs
  <1> HIDE DEF B, F
  <1>8. T # {}
    <2> SUFFICES ASSUME T = {} PROVE FALSE
      OBVIOUS
    <2>1. All(T) = {} /\ SumFunctionOnSet(n, T) = 0
      BY <1>4, <1>7, SumIs
    <2>2. IsFiniteSet({}) /\ F({}) = 0
      BY FS_EmptySet, SumIs DEF F
    <2> QED
      BY <1>2, <2>1, <2>2
  <1> DEFINE c == AnyOf(T)
             R == T \ {c}
  <1>9. c \in T /\ c \in C /\ R \in SUBSET T /\ R # T
    BY <1>2, <1>8, AnyIs
  <1>10. SumFunctionOnSet(n, T) = n[c] + SumFunctionOnSet(n, R)
    BY <1>2, <1>4, <1>7, <1>8, SumIs
  <1>11. c \notin R
    OBVIOUS
  <1> HIDE DEF c, R
  <1>12. All(T) = K[c] \cup All(R)
    <2>1. T = R \cup {c}
      BY <1>9 DEF R
    <2> QED
      BY <2>1
  <1>13. K[c] \cap All(R) = {}
    BY <1>2, <1>9, <1>11
  <1>14. IsFiniteSet(All(R)) /\ SumFunctionOnSet(n, R) = F(All(R)) /\ IsFiniteSet(K[c])
    BY <1>3, <1>9
  <1>15. \A x \in K[c] \cup All(R) : f[x] \in Int
    BY <1>2, <1>5, <1>6, <1>9
  <1> HIDE DEF All
  <1>16. F(K[c] \cup All(R)) = F(K[c]) + F(All(R))
    BY <1>13, <1>14, <1>15, SumUnion DEF F
  <1>17. IsFiniteSet(K[c] \cup All(R))
    BY <1>14, FS_Union
  <1> QED
    BY <1>2, <1>7, <1>9, <1>10, <1>12, <1>14, <1>16, <1>17

\* A sum may be taken along a renaming of its terms.
LEMMA SumImage ==
  ASSUME NEW S, IsFiniteSet(S), NEW h, \A x, y \in S : h[x] = h[y] => x = y,
         NEW T, T = {h[x] : x \in S}, NEW f, \A y \in T : f[y] \in Int,
         NEW g, \A x \in S : g[x] = f[h[x]]
  PROVE  IsFiniteSet(T) /\ SumFunctionOnSet(g, S) = SumFunctionOnSet(f, T)
  <1> DEFINE K == [x \in S |-> {h[x]}]
  <1>1. \A x \in S : IsFiniteSet(K[x]) /\ h[x] \in T /\ K[x] = {h[x]}
    BY FS_Singleton
  <1>2. \A x, y \in S : x # y => K[x] \cap K[y] = {}
    OBVIOUS
  <1>3. K \in [S -> SUBSET T] /\ \A y \in T : \E x \in S : y \in K[x]
    OBVIOUS
  <1>4. ASSUME NEW x \in S PROVE g[x] = SumFunctionOnSet(f, K[x])
    <2> DEFINE V == {h[x]}
    <2>1. IsFiniteSet(V) /\ IsFiniteSet({}) /\ \A y \in V : f[y] \in Int
      BY <1>1, FS_EmptySet
    <2>2. h[x] \in V /\ V \ {h[x]} = {} /\ K[x] = V
      BY <1>1
    <2> HIDE DEF V, K
    <2>3. SumFunctionOnSet(f, V) = f[h[x]] + SumFunctionOnSet(f, {})
      BY <2>1, <2>2, SumRemove
    <2>4. SumFunctionOnSet(f, {}) = 0
      BY <2>1, SumIs
    <2> QED
      BY <1>1, <2>2, <2>3, <2>4
  <1>5. Splits(K, S, T)
    BY <1>1, <1>2, <1>3 DEF Splits
  <1> HIDE DEF K
  <1>6. \A y \in T : f[y] \in Int
    OBVIOUS
  <1>7. \A x \in S : g[x] = SumFunctionOnSet(f, K[x])
    BY <1>4
  <1> QED
    BY <1>5, <1>6, <1>7, SumClasses

\* Sums are added term by term.
LEMMA SumAdd ==
  ASSUME NEW S, IsFiniteSet(S), NEW f, NEW g, NEW h,
         \A x \in S : f[x] \in Int /\ g[x] \in Int /\ h[x] = f[x] + g[x]
  PROVE  SumFunctionOnSet(h, S) = SumFunctionOnSet(f, S) + SumFunctionOnSet(g, S)
  <1> DEFINE F(T) == SumFunctionOnSet(f, T)
             G(T) == SumFunctionOnSet(g, T)
             H(T) == SumFunctionOnSet(h, T)
             B == {T \in SUBSET S : H(T) # F(T) + G(T)}
  <1> SUFFICES ASSUME B # {} PROVE FALSE
    OBVIOUS
  <1>1. PICK T \in B : \A s \in B : ~(s \subseteq T /\ s # T)
    <2>1. B \in SUBSET (SUBSET S)
      OBVIOUS
    <2> HIDE DEF B
    <2> QED
      BY <2>1, LeastSubset
  <1>2. T \in SUBSET S /\ H(T) # F(T) + G(T)
    OBVIOUS
  <1>3. \A s \in SUBSET T : s # T => H(s) = F(s) + G(s)
    BY <1>1, <1>2
  <1>4. \A s \in SUBSET S : /\ IsFiniteSet(s)
                            /\ \A x \in s : f[x] \in Int /\ g[x] \in Int /\ h[x] \in Int
    BY FS_Subset
  <1>5. T # {}
    <2> SUFFICES ASSUME T = {} PROVE FALSE
      OBVIOUS
    <2>1. IsFiniteSet(T) /\ \A x \in T : f[x] \in Int /\ g[x] \in Int /\ h[x] \in Int
      BY <1>2, <1>4
    <2>2. SumFunctionOnSet(f, T) = 0 /\ SumFunctionOnSet(g, T) = 0 /\ SumFunctionOnSet(h, T) = 0
      BY <2>1, SumIs
    <2> QED
      BY <1>2, <2>2
  <1> DEFINE c == AnyOf(T)
  <1>6. c \in T /\ T \ {c} \in SUBSET T /\ T \ {c} # T
    BY <1>5, AnyIs
  <1>7. /\ F(T) = f[c] + F(T \ {c}) /\ G(T) = g[c] + G(T \ {c}) /\ H(T) = h[c] + H(T \ {c})
        /\ F(T \ {c}) \in Int /\ G(T \ {c}) \in Int
    BY <1>2, <1>4, <1>5, <1>6, SumIs
  <1> HIDE DEF B, c, F, G, H
  <1>8. H(T \ {c}) = F(T \ {c}) + G(T \ {c})
    BY <1>3, <1>6
  <1>9. f[c] \in Int /\ g[c] \in Int /\ h[c] = f[c] + g[c]
    BY <1>2, <1>6
  <1> QED
    BY <1>2, <1>7, <1>8, <1>9

\* Terms that are zero may be left out.
LEMMA SumZeros ==
  ASSUME NEW S, IsFiniteSet(S), NEW T \in SUBSET S, NEW f,
         \A x \in S : f[x] \in Nat, \A x \in S \ T : f[x] = 0
  PROVE  SumFunctionOnSet(f, S) = SumFunctionOnSet(f, T)
  <1> DEFINE U == S \ T
  <1>1. T \cap U = {} /\ T \cup U = S /\ IsFiniteSet(T) /\ IsFiniteSet(U)
    BY FS_Subset
  <1>2. /\ \A x \in U : f[x] \in Nat /\ ~(f[x] > 0)
        /\ \A x \in T \cup U : f[x] \in Int
    OBVIOUS
  <1> HIDE DEF U
  <1>3. SumFunctionOnSet(f, T \cup U) = SumFunctionOnSet(f, T) + SumFunctionOnSet(f, U)
    BY <1>1, <1>2, SumUnion
  <1>4. SumFunctionOnSet(f, U) \in Nat /\ ~(SumFunctionOnSet(f, U) > 0)
    BY <1>1, <1>2, SumNat, SumPositive
  <1>5. SumFunctionOnSet(f, T) \in Int
    BY <1>1, <1>2, SumIs
  <1>6. SumFunctionOnSet(f, U) = 0
    BY <1>4
  <1>7. SumFunctionOnSet(f, S) = SumFunctionOnSet(f, T) + SumFunctionOnSet(f, U)
    BY <1>1, <1>3
  <1> QED
    BY <1>5, <1>6, <1>7

LEMMA DirectoriesAre ==
  ASSUME IInv, NEW T \in SUBSET Trials
  PROVE  /\ IsFiniteSet(Directories(T))
         /\ \A q \in Directories(T) :
              /\ q[1] \in T /\ q[2] \in 1..Len(attempts[q[1]]) /\ q = <<q[1], q[2]>>
              /\ Dir(q) = attempts[q[1]][q[2]] /\ Dir(q) \in Entry
         /\ \A t \in T : \A k \in 1..Len(attempts[t]) : <<t, k>> \in Directories(T)
  <1>1. MaxAttempts \in Nat
    BY ReportsAssumption
  <1>2. IsFiniteSet(1..MaxAttempts) /\ IsFiniteSet(T)
    <2>1. IsFiniteSet(1..MaxAttempts)
      BY <1>1, IntervalIs
    <2> QED
      BY <2>1, PairsFinite, FS_Subset
  <1>3. IsFiniteSet(T \X (1..MaxAttempts))
    BY <1>2, FS_Product
  <1>4. IsFiniteSet(Directories(T))
    BY <1>3, FS_Subset DEF Directories
  <1>5. \A t \in T : /\ Len(attempts[t]) \in Nat /\ Len(attempts[t]) <= MaxAttempts
                     /\ \A k \in 1..Len(attempts[t]) : attempts[t][k] \in Entry
    BY TrialIs DEF IInv
  <1>6. ASSUME NEW q \in Directories(T)
        PROVE  q[1] \in T /\ q[2] \in 1..Len(attempts[q[1]]) /\ q = <<q[1], q[2]>>
    <2>1. q \in T \X (1..MaxAttempts) /\ q[2] <= Len(attempts[q[1]])
      BY DEF Directories
    <2>2. q[1] \in T /\ q[2] \in 1..MaxAttempts /\ q = <<q[1], q[2]>>
      BY <2>1
    <2> DEFINE n == Len(attempts[q[1]])
               k == q[2]
    <2>3. n \in Nat /\ k \in 1..MaxAttempts /\ k <= n
      BY <1>5, <2>1, <2>2
    <2> HIDE DEF n, k
    <2>4. k \in 1..n
      BY <1>1, <2>3
    <2> QED
      BY <2>2, <2>4 DEF n, k
  <1>7. \A q \in Directories(T) : Dir(q) = attempts[q[1]][q[2]] /\ Dir(q) \in Entry
    BY <1>5, <1>6 DEF Dir
  <1>8. ASSUME NEW t \in T, NEW k \in 1..Len(attempts[t]) PROVE <<t, k>> \in Directories(T)
    <2> DEFINE n == Len(attempts[t])
    <2>1. n \in Nat /\ n <= MaxAttempts /\ k \in 1..n
      BY <1>5
    <2> HIDE DEF n
    <2>2. k \in 1..MaxAttempts /\ k <= n
      BY <1>1, <2>1
    <2> QED
      BY <2>2 DEF Directories, n
  <1> QED
    BY <1>4, <1>6, <1>7, <1>8

\* What a report asks the price of: all roles' calls, or the classifier's only.
AskedRoles == {Roles, {"classifier"}}

CostOf(a, roles) == IF roles = Roles THEN Cost(a) ELSE estimatedCost(a.usage["classifier"])

LEMMA SumOne ==
  ASSUME NEW f, NEW x, f[x] \in Int, DOMAIN f = {x}
  PROVE  SumFunction(f) = f[x]
  <1>1. IsFiniteSet({x}) /\ IsFiniteSet({}) /\ {x} \ {x} = {}
    BY FS_Singleton, FS_EmptySet
  <1>2. SumFunctionOnSet(f, {x}) = f[x] + SumFunctionOnSet(f, {x} \ {x})
    BY <1>1, SumRemove
  <1>3. SumFunctionOnSet(f, {}) = 0
    BY <1>1, SumIs
  <1>4. SumFunctionOnSet(f, {x}) = f[x] + 0
    BY <1>1, <1>2, <1>3
  <1> QED
    BY <1>4 DEF SumFunction

LEMMA RolesSum ==
  ASSUME NEW f, DOMAIN f = Roles, \A role \in Roles : f[role] \in Int
  PROVE  SumFunction(f) = f["classifier"] + (f["coding"] + f["compaction"])
  <1>1. /\ f["classifier"] \in Int /\ f["coding"] \in Int /\ f["compaction"] \in Int
        /\ DOMAIN f = {"classifier", "coding", "compaction"}
    BY DEF Roles
  <1>2. SumFunction(f) = f["classifier"] + f["coding"] + f["compaction"]
    BY <1>1, SumThree
  <1> QED
    BY <1>1, <1>2

\* A finalized attempt has a cost when all its calls have a price, and it is the price.
LEMMA CostKnown ==
  ASSUME NEW a \in Recorded, Finalized(a), NEW roles \in AskedRoles
  PROVE  /\ CostOf(a, roles) \in KnownOrNone
         /\ CostOf(a, roles) = None <=> ~Priced(a, roles)
         /\ CostOf(a, roles) # None => CostOf(a, roles) = Price(a, roles) /\ CostOf(a, roles) \in Nat
  <1> DEFINE u == a.usage["classifier"]
             v == a.usage["coding"]
             w == a.usage["compaction"]
             c == codingUsage(a)
  <1>1. u \in Usage /\ v \in Usage /\ w \in Usage /\ Roles = {"classifier", "coding", "compaction"}
    BY DEF Recorded, Roles
  <1>2. \A x \in Usage : /\ x.missing \in Nat /\ x.incomplete \in Nat /\ x.price \in Nat \cup {None}
                         /\ estimatedCost(x) = IF isComplete(x) THEN x.price ELSE None
    BY DEF Usage, estimatedCost
  <1>3. None \notin Nat
    BY NoneAssumption
  <1>4. CASE roles = {"classifier"}
    <2>1. CostOf(a, roles) = estimatedCost(u)
      BY <1>1, <1>4 DEF CostOf
    <2>2. Priced(a, roles) <=> isComplete(u) /\ u.price # None
      BY <1>4 DEF Priced, Reported
    <2>3. u.price # None => Price(a, roles) = u.price
      <3> DEFINE f == [role \in roles |-> a.usage[role].price]
      <3>1. DOMAIN f = {"classifier"} /\ f["classifier"] = u.price /\ Price(a, roles) = SumFunction(f)
        BY <1>4 DEF Price
      <3> HIDE DEF f, u
      <3>2. u.price # None => f["classifier"] \in Int
        BY <1>1, <1>2, <3>1
      <3> QED
        BY <3>1, <3>2, SumOne
    <2> HIDE DEF u
    <2> QED
      BY <1>1, <1>2, <1>3, <2>1, <2>2, <2>3 DEF KnownOrNone
  <1>5. CASE roles = Roles
    <2>1. /\ c.missing = v.missing + w.missing /\ c.incomplete = v.incomplete + w.incomplete
          /\ c.price = IF None \in {v.price, w.price} THEN None ELSE v.price + w.price
          /\ c \in Usage
      BY <1>1, PlusIs DEF codingUsage, Plus
    <2>2. /\ CostOf(a, roles) = Cost(a)
          /\ Cost(a) = IF None \in {estimatedCost(u), estimatedCost(c)} THEN None
                       ELSE estimatedCost(u) + estimatedCost(c)
      BY <1>5 DEF CostOf, Cost
    <2>3. Priced(a, roles) <=> /\ isComplete(u) /\ isComplete(v) /\ isComplete(w)
                               /\ u.price # None /\ v.price # None /\ w.price # None
      BY <1>5 DEF Priced, Reported, Roles
    <2>4. u.price # None /\ v.price # None /\ w.price # None =>
            Price(a, roles) = u.price + (v.price + w.price)
      <3> DEFINE f == [role \in Roles |-> a.usage[role].price]
      <3>1. /\ DOMAIN f = Roles /\ Price(a, roles) = SumFunction(f)
            /\ f["classifier"] = u.price /\ f["coding"] = v.price /\ f["compaction"] = w.price
        BY <1>1, <1>5 DEF Price
      <3> HIDE DEF f, u, v, w
      <3>2. u.price # None /\ v.price # None /\ w.price # None => \A role \in Roles : f[role] \in Int
        BY <1>1, <1>2, <3>1
      <3> QED
        BY <3>1, <3>2, RolesSum
    <2> HIDE DEF u, v, w, c
    <2>5. isComplete(c) <=> isComplete(v) /\ isComplete(w)
      <3>1. v.missing \in Nat /\ w.missing \in Nat /\ v.incomplete \in Nat /\ w.incomplete \in Nat
        BY <1>1, <1>2
      <3>2. \A x, y \in Nat : x + y = 0 <=> x = 0 /\ y = 0
        OBVIOUS
      <3>3. /\ c.missing = 0 <=> v.missing = 0 /\ w.missing = 0
            /\ c.incomplete = 0 <=> v.incomplete = 0 /\ w.incomplete = 0
        BY <2>1, <3>1, <3>2
      <3> QED
        BY <3>3 DEF isComplete
    <2>6. c.price # None <=> v.price # None /\ w.price # None
      <3>1. v.price # None /\ w.price # None => v.price + w.price \in Nat
        BY <1>1, <1>2
      <3> QED
        BY <1>3, <2>1, <3>1
    <2>7. /\ estimatedCost(u) = IF isComplete(u) THEN u.price ELSE None
          /\ estimatedCost(c) = IF isComplete(c) THEN c.price ELSE None
          /\ u.price \in Nat \cup {None} /\ c.price \in Nat \cup {None}
      BY <1>1, <1>2, <2>1
    <2>8. CASE Priced(a, roles)
      <3>1. estimatedCost(u) = u.price /\ estimatedCost(c) = c.price /\ u.price # None /\ c.price # None
        BY <2>3, <2>5, <2>6, <2>7, <2>8
      <3>2. CostOf(a, roles) = u.price + c.price /\ c.price = v.price + w.price
        BY <2>1, <2>2, <2>3, <2>8, <3>1
      <3>3. u.price \in Nat /\ c.price \in Nat
        BY <2>7, <3>1
      <3>4. CostOf(a, roles) \in Nat
        BY <3>2, <3>3
      <3>5. CostOf(a, roles) = Price(a, roles)
        BY <2>3, <2>4, <2>8, <3>2
      <3> QED
        BY <1>3, <2>8, <3>4, <3>5 DEF KnownOrNone
    <2>9. CASE ~Priced(a, roles)
      <3>1. estimatedCost(u) = None \/ estimatedCost(c) = None
        BY <2>3, <2>5, <2>6, <2>7, <2>9
      <3>2. CostOf(a, roles) = None
        BY <2>2, <3>1
      <3> QED
        BY <2>9, <3>2 DEF KnownOrNone
    <2> QED
      BY <2>8, <2>9
  <1> QED
    BY <1>4, <1>5 DEF AskedRoles

\* All attempts of a trial are finalized and have a price.
TrialPriced(t, roles) == \A k \in 1..Len(attempts[t]) : Priced(attempts[t][k], roles)

LEMMA PricedIs ==
  ASSUME IInv, NEW T \in SUBSET Trials, NEW roles \in AskedRoles
  PROVE  /\ FullyPriced(T, roles) <=> \A t \in T : TrialPriced(t, roles)
         /\ FullyPriced(T, roles) =>
              \A q \in Directories(T) : /\ Dir(q) \in Recorded
                                        /\ CostOf(Dir(q), roles) = Price(Dir(q), roles)
                                        /\ Price(Dir(q), roles) \in Nat
  <1>1. \A q \in Directories(T) :
          /\ q[1] \in T /\ q[2] \in 1..Len(attempts[q[1]])
          /\ Dir(q) = attempts[q[1]][q[2]] /\ Dir(q) \in Entry
    BY DirectoriesAre
  <1>2. ASSUME NEW t \in T, NEW k \in 1..Len(attempts[t])
        PROVE  <<t, k>> \in Directories(T) /\ Dir(<<t, k>>) = attempts[t][k]
    BY DirectoriesAre DEF Dir
  <1>3. ASSUME FullyPriced(T, roles), NEW t \in T PROVE TrialPriced(t, roles)
    <2> SUFFICES ASSUME NEW k \in 1..Len(attempts[t]) PROVE Priced(attempts[t][k], roles)
      BY DEF TrialPriced
    <2>1. <<t, k>> \in Directories(T) /\ Dir(<<t, k>>) = attempts[t][k]
      BY <1>2
    <2> QED
      BY <1>3, <2>1 DEF FullyPriced
  <1>4. (\A t \in T : TrialPriced(t, roles)) => FullyPriced(T, roles)
    BY <1>1 DEF FullyPriced, TrialPriced
  <1>5. ASSUME FullyPriced(T, roles), NEW q \in Directories(T)
        PROVE  /\ Dir(q) \in Recorded
               /\ CostOf(Dir(q), roles) = Price(Dir(q), roles) /\ Price(Dir(q), roles) \in Nat
    <2>1. Priced(Dir(q), roles) /\ Finalized(Dir(q))
      BY <1>5 DEF FullyPriced, Priced, Reported
    <2>2. Dir(q) \in Recorded
      BY <1>1, <2>1, EntryIs
    <2> QED
      BY <2>1, <2>2, CostKnown
  <1> QED
    BY <1>3, <1>4, <1>5

\* The attempts of one trial, under their numbers.
LEMMA BilledOne ==
  ASSUME IInv, NEW t \in Trials, NEW roles \in AskedRoles, TrialPriced(t, roles),
         NEW g, \A k \in 1..Len(attempts[t]) : g[k] = CostOf(attempts[t][k], roles)
  PROVE  /\ SumFunctionOnSet(g, 1..Len(attempts[t])) = Billed({t}, roles)
         /\ Billed({t}, roles) \in Nat
  <1> DEFINE n == Len(attempts[t])
             I == 1..n
             D == Directories({t})
             f == [q \in D |-> Price(Dir(q), roles)]
             h == [k \in I |-> <<t, k>>]
  <1>1. n \in Nat
    BY TrialIs DEF IInv
  <1>2. /\ IsFiniteSet(D)
        /\ \A q \in D : q[1] = t /\ q[2] \in I /\ q = <<q[1], q[2]>>
        /\ \A k \in I : <<t, k>> \in D
    BY DirectoriesAre
  <1>3. \A q \in D : f[q] \in Nat /\ f[q] = CostOf(Dir(q), roles)
    <2>1. FullyPriced({t}, roles)
      BY PricedIs
    <2> QED
      BY <2>1, PricedIs
  <1>4. Billed({t}, roles) = SumFunctionOnSet(f, D)
    BY DEF Billed, SumFunction
  <1>5. ASSUME NEW k \in I PROVE g[k] = f[h[k]]
    <2>1. h[k] = <<t, k>> /\ <<t, k>> \in D
      BY <1>2
    <2>2. f[<<t, k>>] = CostOf(attempts[t][k], roles)
      BY <1>3, <2>1 DEF Dir
    <2> QED
      BY <2>1, <2>2
  <1>6. D = {h[k] : k \in I}
    <2>1. \A k \in I : h[k] = <<t, k>>
      OBVIOUS
    <2> HIDE DEF D, h, I
    <2>2. \A q \in D : \E k \in I : q = h[k]
      BY <1>2, <2>1
    <2>3. \A k \in I : h[k] \in D
      BY <1>2, <2>1
    <2> QED
      BY <2>2, <2>3
  <1>7. \A j, k \in I : h[j] = h[k] => j = k
    OBVIOUS
  <1> HIDE DEF n
  <1>8. IsFiniteSet(I)
    BY <1>1, IntervalIs
  <1> HIDE DEF I, D, f, h
  <1>9. SumFunctionOnSet(g, I) = SumFunctionOnSet(f, D)
    <2>1. \A q \in D : f[q] \in Int
      BY <1>3
    <2>2. \A k \in I : g[k] = f[h[k]]
      BY <1>5
    <2> QED
      BY ONLY <1>6, <1>7, <1>8, <2>1, <2>2, SumImage
  <1>10. SumFunctionOnSet(f, D) \in Nat
    BY <1>2, <1>3, SumNat
  <1> QED
    BY <1>4, <1>9, <1>10 DEF I, n

LEMMA LoadedPhysical ==
  ASSUME IInv, NEW t \in Trials, NEW x, x = Loaded[t]
  PROVE  /\ DOMAIN x.physical = FinalOf(t) /\ IsFiniteSet(FinalOf(t))
         /\ \A k \in FinalOf(t) : x.physical[k] = attempts[t][k] /\ x.physical[k] \in Recorded
         /\ x.incomplete > 0 <=> FinalOf(t) # 1..Len(attempts[t])
         /\ ~(x.incomplete > 0) => FinalOf(t) = 1..Len(attempts[t])
  <1>1. x = loadTrial(t)
    BY LoadType
  <1>2. x.physical = [k \in FinalOf(t) |-> attempts[t][k]]
    BY <1>1, LoadIs
  <1>3. DOMAIN x.physical = FinalOf(t) /\ \A k \in FinalOf(t) : x.physical[k] = attempts[t][k]
    BY <1>2
  <1>4. IsFiniteSet(FinalOf(t)) /\ \A k \in FinalOf(t) : x.physical[k] \in Recorded
    BY <1>3, LoadType
  <1> QED
    BY <1>1, <1>3, <1>4, IncompleteIs

\* A trial has a cost when all its attempts do, and it is what they were billed.
TrialCostOf(x, roles) == IF roles = Roles THEN trialCost(x) ELSE classifierCost(x)

LEMMA TrialCostIs ==
  ASSUME IInv, NEW t \in Trials, NEW x, x = Loaded[t], NEW roles \in AskedRoles
  PROVE  /\ TrialCostOf(x, roles) # None <=> FinalOf(t) # {} /\ TrialPriced(t, roles)
         /\ TrialCostOf(x, roles) # None =>
              TrialCostOf(x, roles) = Billed({t}, roles) /\ TrialCostOf(x, roles) \in Nat
  <1> DEFINE I == 1..Len(attempts[t])
             f == [k \in FinalOf(t) |-> CostOf(x.physical[k], roles)]
             c == TrialCostOf(x, roles)
  <1>1. /\ DOMAIN x.physical = FinalOf(t) /\ IsFiniteSet(FinalOf(t))
        /\ \A k \in FinalOf(t) : x.physical[k] = attempts[t][k] /\ x.physical[k] \in Recorded
        /\ x.incomplete > 0 <=> FinalOf(t) # I
    BY LoadedPhysical
  <1>2. c = IF FinalOf(t) # I \/ FinalOf(t) = {} THEN None ELSE sumKnown(f)
    <2>1. CASE roles = Roles
      <3>1. c = trialCost(x) /\ f = [k \in FinalOf(t) |-> Cost(x.physical[k])]
        BY <2>1 DEF TrialCostOf, CostOf
      <3> HIDE DEF c, f
      <3> QED
        BY <1>1, <3>1 DEF trialCost
    <2>2. CASE roles # Roles
      <3>1. /\ c = classifierCost(x)
            /\ f = [k \in FinalOf(t) |-> estimatedCost(x.physical[k].usage["classifier"])]
        BY <2>2 DEF TrialCostOf, CostOf
      <3> HIDE DEF c, f
      <3> QED
        BY <1>1, <3>1 DEF classifierCost
    <2> QED
      BY <2>1, <2>2
  <1>3. \A k \in FinalOf(t) : /\ f[k] = CostOf(attempts[t][k], roles) /\ f[k] \in KnownOrNone
                              /\ f[k] = None <=> ~Priced(attempts[t][k], roles)
    <2>1. \A k \in FinalOf(t) : Finalized(attempts[t][k])
      BY DEF FinalOf
    <2> QED
      BY <1>1, <2>1, CostKnown
  <1>4. /\ sumKnown(f) = None <=> \E k \in FinalOf(t) : f[k] = None
        /\ (\A k \in FinalOf(t) : f[k] # None) => sumKnown(f) = SumFunctionOnSet(f, FinalOf(t))
    <2>1. DOMAIN f = FinalOf(t)
      OBVIOUS
    <2> HIDE DEF f
    <2> QED
      BY <1>1, <1>3, <2>1, KnownSum
  <1> HIDE DEF f, c
  <1>5. TrialPriced(t, roles) <=> FinalOf(t) = I /\ \A k \in FinalOf(t) : f[k] # None
    <2>1. FinalOf(t) = {k \in I : Finalized(attempts[t][k])}
      BY DEF FinalOf
    <2>2. TrialPriced(t, roles) <=> \A k \in I : Priced(attempts[t][k], roles)
      BY DEF TrialPriced
    <2>3. \A k \in I : Priced(attempts[t][k], roles) => Finalized(attempts[t][k])
      BY DEF Priced, Reported
    <2> HIDE DEF I
    <2> QED
      BY <1>3, <2>1, <2>2, <2>3
  <1>6. c # None <=> FinalOf(t) # {} /\ TrialPriced(t, roles)
    BY <1>2, <1>4, <1>5
  <1>7. ASSUME c # None PROVE c = Billed({t}, roles) /\ c \in Nat
    <2>1. TrialPriced(t, roles) /\ FinalOf(t) = I /\ c = SumFunctionOnSet(f, I)
      BY <1>2, <1>4, <1>5, <1>6, <1>7
    <2>2. \A k \in I : f[k] = CostOf(attempts[t][k], roles)
      BY <1>3, <2>1
    <2>3. SumFunctionOnSet(f, I) = Billed({t}, roles) /\ Billed({t}, roles) \in Nat
      BY <2>1, <2>2, BilledOne
    <2> QED
      BY <2>1, <2>3
  <1> QED
    BY <1>6, <1>7 DEF c

\* The directories of the trials h[c], all different, are split among them.
Share(h, C) == [c \in C |-> Directories({h[c]})]

LEMMA DirectoriesSplit ==
  ASSUME IInv, NEW T \in SUBSET Trials, NEW C, NEW h \in Bijection(C, T)
  PROVE  Splits(Share(h, C), C, Directories(T))
  <1> DEFINE D == Directories(T)
             K == Share(h, C)
  <1>0. /\ h \in [C -> T] /\ \A b, c \in C : h[b] = h[c] => b = c
        /\ \A t \in T : \E c \in C : h[c] = t
    BY DEF Bijection, Injection, Surjection, IsInjective
  <1>1. \A c \in C : {h[c]} \in SUBSET Trials
    BY <1>0
  <1>2. \A c \in C : /\ K[c] = Directories({h[c]}) /\ IsFiniteSet(K[c])
                     /\ \A q \in K[c] : q[1] = h[c] /\ q[2] \in 1..Len(attempts[h[c]]) /\ q = <<q[1], q[2]>>
                     /\ \A k \in 1..Len(attempts[h[c]]) : <<h[c], k>> \in K[c]
    BY <1>1, DirectoriesAre DEF Share
  <1>3. /\ \A q \in D : q[1] \in T /\ q[2] \in 1..Len(attempts[q[1]]) /\ q = <<q[1], q[2]>>
        /\ \A t \in T : \A k \in 1..Len(attempts[t]) : <<t, k>> \in D
    BY DirectoriesAre
  <1> HIDE DEF D, K
  <1>4. \A c \in C : K[c] \in SUBSET D
    <2> SUFFICES ASSUME NEW c \in C, NEW q \in K[c] PROVE q \in D
      OBVIOUS
    <2>1. h[c] \in T /\ q[2] \in 1..Len(attempts[h[c]]) /\ q = <<h[c], q[2]>>
      BY <1>0, <1>2
    <2> QED
      BY <1>3, <2>1
  <1>5. \A q \in D : \E c \in C : q \in K[c]
    <2> SUFFICES ASSUME NEW q \in D PROVE \E c \in C : q \in K[c]
      OBVIOUS
    <2>1. PICK c \in C : h[c] = q[1]
      BY <1>0, <1>3
    <2>2. q[2] \in 1..Len(attempts[h[c]]) /\ q = <<h[c], q[2]>>
      BY <1>3, <2>1
    <2>3. <<h[c], q[2]>> \in K[c]
      BY <1>2, <2>2
    <2>4. q \in K[c]
      BY <2>2, <2>3, Zenon
    <2> QED
      BY <2>4
  <1>6. ASSUME NEW b \in C, NEW c \in C, b # c PROVE K[b] \cap K[c] = {}
    <2> SUFFICES ASSUME NEW q \in K[b] \cap K[c] PROVE FALSE
      OBVIOUS
    <2>1. q[1] = h[b]
      BY <1>2
    <2>2. q[1] = h[c]
      BY <1>2
    <2> QED
      BY <1>0, <1>6, <2>1, <2>2
  <1>7. K \in [C -> SUBSET D]
    BY <1>4 DEF K, Share
  <1>8. Splits(K, C, D)
    BY <1>2, <1>5, <1>6, <1>7 DEF Splits
  <1> QED
    BY <1>8 DEF D, K

\* So their bills add up to that of all of them.
LEMMA BilledSum ==
  ASSUME IInv, NEW T \in SUBSET Trials, NEW roles \in AskedRoles, FullyPriced(T, roles),
         NEW C, IsFiniteSet(C), NEW h \in Bijection(C, T),
         NEW n, \A c \in C : n[c] = Billed({h[c]}, roles)
  PROVE  SumFunctionOnSet(n, C) = Billed(T, roles)
  <1> DEFINE D == Directories(T)
             f == [q \in D |-> Price(Dir(q), roles)]
             K == Share(h, C)
  <1>1. Splits(K, C, D)
    BY DirectoriesSplit
  <1>2. \A c \in C : K[c] = Directories({h[c]})
    BY DEF Share
  <1>3. \A q \in D : f[q] \in Int
    BY PricedIs
  <1>4. Billed(T, roles) = SumFunctionOnSet(f, D)
    BY DEF Billed, SumFunction
  <1> HIDE DEF D, K
  <1>5. ASSUME NEW c \in C PROVE n[c] = SumFunctionOnSet(f, K[c])
    <2> DEFINE g == [q \in K[c] |-> Price(Dir(q), roles)]
    <2>1. n[c] = SumFunctionOnSet(g, K[c])
      BY <1>2 DEF Billed, SumFunction
    <2>2. IsFiniteSet(K[c]) /\ K[c] \in SUBSET D
      BY <1>1 DEF Splits
    <2>3. \A q \in K[c] : f[q] \in Int /\ g[q] = f[q]
      BY <1>3, <2>2
    <2> HIDE DEF f, g
    <2>4. SumFunctionOnSet(f, K[c]) = SumFunctionOnSet(g, K[c])
      BY <2>2, <2>3, SumSame
    <2> QED
      BY <2>1, <2>4
  <1> HIDE DEF f
  <1>6. \A c \in C : n[c] = SumFunctionOnSet(f, K[c])
    BY <1>5
  <1>7. SumFunctionOnSet(n, C) = SumFunctionOnSet(f, D)
    BY <1>1, <1>3, <1>6, SumClasses
  <1> QED
    BY <1>4, <1>7

LEMMA OutcomeIs ==
  ASSUME IInv, NEW t \in Trials
  PROVE  /\ HasOutcome(t) <=> isEvaluated(Loaded[t])
         /\ HasOutcome(t) => FinalOf(t) # {}
  <1>1. Loaded[t] = loadTrial(t)
    BY DEF Loaded, loadExperimentRecords
  <1>2. isEvaluated(loadTrial(t)) => HasOutcome(t)
    BY EvaluatedIs
  <1>3. ASSUME HasOutcome(t) PROVE isEvaluated(loadTrial(t))
    <2>1. /\ loadTrial(t).outcome = classifyTrialOutcome(Selected(t))
          /\ classifyTrialOutcome(Selected(t)) \in {"pass", "fail"}
      BY <1>3, SelectedIs
    <2> QED
      BY <2>1 DEF isEvaluated
  <1>4. isEvaluated(loadTrial(t)) => FinalOf(t) # {}
    BY LoadIs DEF isEvaluated
  <1> QED
    BY <1>1, <1>2, <1>3, <1>4

\* The physical attempts are the finalized directories.
LEMMA PhysicalDirectories ==
  ASSUME IInv, NEW trials \in {Loaded}
  PROVE  /\ Physical(trials) = {q \in Directories(Trials) : Finalized(Dir(q))}
         /\ \A q \in Physical(trials) : /\ trials[q[1]].physical[q[2]] = Dir(q)
                                        /\ Dir(q) \in Recorded /\ q[1] \in Trials
  <1> DEFINE D == Directories(Trials)
             P == Physical(trials)
  <1>1. \A q \in D :
          /\ q[1] \in Trials /\ q[2] \in 1..Len(attempts[q[1]]) /\ q = <<q[1], q[2]>>
          /\ Dir(q) = attempts[q[1]][q[2]]
    BY DirectoriesAre
  <1>2. \A t \in Trials : \A k \in 1..Len(attempts[t]) : <<t, k>> \in D
    BY DirectoriesAre
  <1>3. \A t \in Trials :
          /\ DOMAIN trials[t].physical = FinalOf(t)
          /\ \A k \in FinalOf(t) : /\ trials[t].physical[k] = attempts[t][k]
                                   /\ trials[t].physical[k] \in Recorded
    BY LoadedPhysical
  <1>4. P = {q \in Trials \X (1..MaxAttempts) : q[2] \in FinalOf(q[1])}
    BY <1>3 DEF Physical
  <1>5. D \in SUBSET (Trials \X (1..MaxAttempts))
    BY DEF Directories
  <1>6. ASSUME NEW q \in P
        PROVE  /\ q \in D /\ Finalized(Dir(q)) /\ trials[q[1]].physical[q[2]] = Dir(q)
               /\ Dir(q) \in Recorded /\ q[1] \in Trials
    <2>1. q[1] \in Trials /\ q = <<q[1], q[2]>> /\ q[2] \in FinalOf(q[1])
      BY <1>4
    <2>2. q[2] \in 1..Len(attempts[q[1]]) /\ Finalized(attempts[q[1]][q[2]])
      BY <2>1 DEF FinalOf
    <2>3. <<q[1], q[2]>> \in D
      BY <1>2, <2>1, <2>2
    <2>4. q \in D
      BY <2>1, <2>3, Zenon
    <2>5. Dir(q) = attempts[q[1]][q[2]]
      BY DEF Dir
    <2>6. trials[q[1]].physical[q[2]] = attempts[q[1]][q[2]] /\ attempts[q[1]][q[2]] \in Recorded
      BY <1>3, <2>1
    <2> QED
      BY <2>1, <2>2, <2>4, <2>5, <2>6
  <1>7. ASSUME NEW q \in D, Finalized(Dir(q)) PROVE q \in P
    <2>1. q[2] \in FinalOf(q[1])
      BY <1>1, <1>7 DEF FinalOf
    <2> QED
      BY <1>4, <1>5, <2>1
  <1> HIDE DEF D, P
  <1>8. P = {q \in D : Finalized(Dir(q))}
    BY <1>6, <1>7
  <1> QED
    BY <1>6, <1>8 DEF D, P

\* Every directory is counted once, as physical or as interrupted.
LEMMA DirectoryCount ==
  ASSUME IInv, NEW trials \in {Loaded}
  PROVE  /\ Cardinality(Physical(trials)) + Interrupted(trials) = Cardinality(Directories(Trials))
         /\ Interrupted(trials) > 0 <=> \E q \in Directories(Trials) : ~Finalized(Dir(q))
  <1> DEFINE D == Directories(Trials)
             P == Physical(trials)
             n == [t \in Trials |-> trials[t].incomplete]
             K == [t \in Trials |-> {t} \X ((1..Len(attempts[t])) \ FinalOf(t))]
  <1>1. /\ IsFiniteSet(D)
        /\ \A q \in D : q[1] \in Trials /\ q[2] \in 1..Len(attempts[q[1]]) /\ q = <<q[1], q[2]>>
        /\ \A q \in D : Dir(q) = attempts[q[1]][q[2]]
        /\ \A t \in Trials : \A k \in 1..Len(attempts[t]) : <<t, k>> \in D
    BY DirectoriesAre
  <1>2. P = {q \in D : Finalized(Dir(q))}
    BY PhysicalDirectories
  <1>3. \A q \in D : q \in P <=> q[2] \in FinalOf(q[1])
    BY <1>1, <1>2 DEF FinalOf
  <1>4. ASSUME NEW t \in Trials PROVE IsFiniteSet(K[t]) /\ n[t] = Cardinality(K[t])
    <2> DEFINE I == 1..Len(attempts[t])
               R == I \ FinalOf(t)
    <2>1. trials[t] = loadTrial(t)
      BY LoadType
    <2>2. n[t] = Cardinality(R)
      BY <2>1, IncompleteIs
    <2>3. Len(attempts[t]) \in Nat
      BY TrialIs DEF IInv
    <2>4. IsFiniteSet(I)
      BY <2>3, IntervalIs
    <2>5. IsFiniteSet(R)
      BY <2>4, FS_Subset
    <2>6. IsFiniteSet({t}) /\ Cardinality({t}) = 1
      BY FS_Singleton
    <2>7. K[t] = {t} \X R
      OBVIOUS
    <2> HIDE DEF R, I, n, K
    <2>8. /\ IsFiniteSet({t} \X R)
          /\ Cardinality({t} \X R) = Cardinality({t}) * Cardinality(R)
      BY <2>5, <2>6, FS_Product
    <2>9. Cardinality(R) \in Nat
      BY <2>5, FS_CardinalityType
    <2> QED
      BY <2>2, <2>6, <2>7, <2>8, <2>9
  <1>5. \A t \in Trials : \A q : q \in K[t] <=> q \in D \ P /\ q[1] = t
    <2> SUFFICES ASSUME NEW t \in Trials, NEW q PROVE q \in K[t] <=> q \in D \ P /\ q[1] = t
      OBVIOUS
    <2>1. q \in K[t] <=> \E k \in (1..Len(attempts[t])) \ FinalOf(t) : q = <<t, k>>
      OBVIOUS
    <2> HIDE DEF K, D, P
    <2>2. ASSUME NEW k \in (1..Len(attempts[t])) \ FinalOf(t), q = <<t, k>>
          PROVE  q \in D \ P /\ q[1] = t
      <3>1. <<t, k>> \in D /\ q[1] = t /\ q[2] = k
        BY <1>1, <2>2
      <3>2. q \in D
        BY <2>2, <3>1, Zenon
      <3> QED
        BY <1>3, <3>1, <3>2
    <2>3. ASSUME q \in D \ P, q[1] = t
          PROVE  \E k \in (1..Len(attempts[t])) \ FinalOf(t) : q = <<t, k>>
      BY <1>1, <1>3, <2>3
    <2> QED
      BY <2>1, <2>2, <2>3
  <1> HIDE DEF D, P, K, n
  <1>6. UNION {K[t] : t \in Trials} = D \ P
    BY <1>1, <1>5
  <1>7. \A t, u \in Trials : t # u => K[t] \cap K[u] = {}
    BY <1>5
  <1>8. SumFunctionOnSet(n, Trials) = Cardinality(D \ P)
    <2>1. (\A t \in Trials : IsFiniteSet(K[t])) /\ (\A t \in Trials : n[t] = Cardinality(K[t]))
      BY <1>4
    <2> QED
      BY <1>6, <1>7, <2>1, PairsFinite, Classes
  <1>9. Interrupted(trials) = Cardinality(D \ P)
    BY <1>8 DEF Interrupted, SumFunction, n
  <1>10. P \in SUBSET D
    BY <1>2
  <1>11. /\ Cardinality(D) = Cardinality(P) + Cardinality(D \ P)
         /\ Cardinality(D \ P) \in Nat /\ Cardinality(P) \in Nat
    BY <1>1, <1>10, Split
  <1>12. Cardinality(D \ P) > 0 <=> D \ P # {}
    <2>1. IsFiniteSet(D \ P)
      BY <1>1, FS_Subset
    <2>2. Cardinality(D \ P) = 0 <=> D \ P = {}
      BY <2>1, FS_EmptySet
    <2> QED
      BY <1>11, <2>2
  <1>13. D \ P # {} <=> \E q \in D : ~Finalized(Dir(q))
    BY <1>2
  <1> QED
    BY <1>9, <1>11, <1>12, <1>13 DEF D, P

\* The spend of an experiment is that of all directories, or unknown.
LEMMA SpendIs ==
  ASSUME IInv, NEW trials \in {Loaded}
  PROVE  spend(trials) = IF FullyPriced(Trials, Roles) THEN Billed(Trials, Roles) ELSE None
  <1> DEFINE D == Directories(Trials)
             P == Physical(trials)
             f == [q \in P |-> Cost(trials[q[1]].physical[q[2]])]
             g == [q \in D |-> Price(Dir(q), Roles)]
  <1>0. Roles \in AskedRoles /\ \A a : CostOf(a, Roles) = Cost(a)
    BY DEF AskedRoles, CostOf
  <1>1. IsFiniteSet(D) /\ IsFiniteSet(P)
    BY DirectoriesAre, PhysicalIs
  <1>2. /\ P = {q \in D : Finalized(Dir(q))}
        /\ \A q \in P : trials[q[1]].physical[q[2]] = Dir(q) /\ Dir(q) \in Recorded
    BY PhysicalDirectories
  <1>3. \A q \in P : /\ f[q] \in KnownOrNone
                     /\ f[q] = None <=> ~Priced(Dir(q), Roles)
                     /\ f[q] # None => f[q] = Price(Dir(q), Roles) /\ f[q] \in Int
    <2> SUFFICES ASSUME NEW q \in P
                 PROVE  /\ f[q] \in KnownOrNone
                        /\ f[q] = None <=> ~Priced(Dir(q), Roles)
                        /\ f[q] # None => f[q] = Price(Dir(q), Roles) /\ f[q] \in Int
      OBVIOUS
    <2>1. f[q] = CostOf(Dir(q), Roles) /\ Dir(q) \in Recorded /\ Finalized(Dir(q))
      BY <1>0, <1>2
    <2> HIDE DEF f
    <2>2. /\ CostOf(Dir(q), Roles) \in KnownOrNone
          /\ CostOf(Dir(q), Roles) = None <=> ~Priced(Dir(q), Roles)
          /\ CostOf(Dir(q), Roles) # None =>
               CostOf(Dir(q), Roles) = Price(Dir(q), Roles) /\ CostOf(Dir(q), Roles) \in Nat
      BY <1>0, <2>1, CostKnown
    <2> QED
      BY <2>1, <2>2
  <1>4. FullyPriced(Trials, Roles) <=> \A q \in D : Priced(Dir(q), Roles)
    BY DEF FullyPriced
  <1>5. /\ Interrupted(trials) > 0 <=> \E q \in D : ~Finalized(Dir(q))
        /\ \A q \in D : Priced(Dir(q), Roles) => Finalized(Dir(q))
    BY DirectoryCount DEF Priced, Reported
  <1>6. spend(trials) = IF Interrupted(trials) > 0 THEN None ELSE sumKnown(f)
    BY DEF spend
  <1>7. Billed(Trials, Roles) = SumFunctionOnSet(g, D) /\ \A q \in D : g[q] = Price(Dir(q), Roles)
    BY DEF Billed, SumFunction
  <1>9. DOMAIN f = P
    OBVIOUS
  <1> HIDE DEF D, P, f, g
  <1>10. /\ sumKnown(f) = None <=> \E q \in P : f[q] = None
         /\ (\A q \in P : f[q] # None) => sumKnown(f) = SumFunctionOnSet(f, P)
    BY <1>1, <1>3, <1>9, KnownSum
  <1>11. CASE FullyPriced(Trials, Roles)
    <2>1. P = D /\ ~(Interrupted(trials) > 0) /\ \A q \in P : f[q] # None
      BY <1>2, <1>3, <1>4, <1>5, <1>11
    <2>2. spend(trials) = SumFunctionOnSet(f, P)
      BY <1>6, <1>10, <2>1
    <2>3. SumFunctionOnSet(f, D) = SumFunctionOnSet(g, D)
      <3>1. \A q \in D : f[q] \in Int /\ g[q] = f[q]
        BY <1>3, <1>7, <2>1
      <3> QED
        BY <1>1, <3>1, SumSame
    <2> QED
      BY <1>7, <1>11, <2>1, <2>2, <2>3
  <1>12. CASE ~FullyPriced(Trials, Roles)
    <2>1. CASE Interrupted(trials) > 0
      BY <1>6, <1>12, <2>1
    <2>2. CASE ~(Interrupted(trials) > 0)
      <3>1. P = D
        BY <1>2, <1>5, <2>2
      <3>2. PICK q \in P : ~Priced(Dir(q), Roles)
        BY <1>4, <1>12, <3>1
      <3>3. sumKnown(f) = None
        BY <1>3, <1>10, <3>2
      <3> QED
        BY <1>6, <1>12, <2>2, <3>3
    <2> QED
      BY <2>1, <2>2
  <1> QED
    BY <1>11, <1>12

\* The pairs of a routed and a strong-only trial with outcomes, and the priced ones.
Sides(p) == {In(p, "routed"), In(p, "strong-only")}
Matched == {p \in Pairs : \A t \in Sides(p) : HasOutcome(t)}
PricedPairs == {p \in Matched : FullyPriced(Sides(p), Roles)}

LEMMA SavingsAre ==
  ASSUME IInv, NEW trials \in {Loaded}
  PROVE  /\ Savings(trials).pairs = Cardinality(PricedPairs)
         /\ Savings(trials).omitted = Cardinality(Matched) - Cardinality(PricedPairs)
         /\ Savings(trials).numerator =
              SumFunction([p \in PricedPairs |->
                             Billed({In(p, "strong-only")}, Roles) - Billed({In(p, "routed")}, Roles)])
  <1> DEFINE matched == {p \in Pairs : /\ isEvaluated(trials[In(p, "routed")])
                                       /\ isEvaluated(trials[In(p, "strong-only")])}
             cost(p, mode) == trialCost(trials[In(p, mode)])
             rows == {p \in matched : cost(p, "routed") # None /\ cost(p, "strong-only") # None}
             f == [p \in rows |-> cost(p, "strong-only") - cost(p, "routed")]
             g == [p \in PricedPairs |-> Billed({In(p, "strong-only")}, Roles) - Billed({In(p, "routed")}, Roles)]
  <1>1. /\ Savings(trials).pairs = Cardinality(rows)
        /\ Savings(trials).omitted = Cardinality(matched \ rows)
        /\ Savings(trials).numerator = SumFunction(f)
    BY DEF Savings
  <1>2. \A p \in Pairs : /\ In(p, "routed") \in Trials /\ In(p, "strong-only") \in Trials
                         /\ Sides(p) \in SUBSET Trials
    BY InIs DEF Modes, Sides
  <1>3. matched = Matched
    BY <1>2, OutcomeIs DEF Matched, Sides
  <1>4. ASSUME NEW p \in Matched
        PROVE  /\ FullyPriced(Sides(p), Roles) <=> cost(p, "routed") # None /\ cost(p, "strong-only") # None
               /\ cost(p, "routed") # None => cost(p, "routed") = Billed({In(p, "routed")}, Roles)
               /\ cost(p, "strong-only") # None =>
                    cost(p, "strong-only") = Billed({In(p, "strong-only")}, Roles)
    <2>0. Roles \in AskedRoles /\ \A x : TrialCostOf(x, Roles) = trialCost(x)
      BY DEF AskedRoles, TrialCostOf
    <2> DEFINE a == In(p, "routed")
               b == In(p, "strong-only")
    <2>1. a \in Trials /\ b \in Trials /\ HasOutcome(a) /\ HasOutcome(b) /\ Sides(p) = {a, b}
      BY <1>2 DEF Matched, Sides
    <2>2. cost(p, "routed") = trialCost(trials[a]) /\ cost(p, "strong-only") = trialCost(trials[b])
      OBVIOUS
    <2> HIDE DEF a, b, cost
    <2>3. /\ trialCost(trials[a]) # None <=> TrialPriced(a, Roles)
          /\ trialCost(trials[a]) # None => trialCost(trials[a]) = Billed({a}, Roles)
      BY <2>0, <2>1, OutcomeIs, TrialCostIs
    <2>4. /\ trialCost(trials[b]) # None <=> TrialPriced(b, Roles)
          /\ trialCost(trials[b]) # None => trialCost(trials[b]) = Billed({b}, Roles)
      BY <2>0, <2>1, OutcomeIs, TrialCostIs
    <2>5. FullyPriced(Sides(p), Roles) <=> TrialPriced(a, Roles) /\ TrialPriced(b, Roles)
      BY <2>0, <2>1, PricedIs
    <2> QED
      BY <2>2, <2>3, <2>4, <2>5 DEF a, b
  <1> HIDE DEF cost
  <1>5. rows = PricedPairs
    BY <1>3, <1>4 DEF PricedPairs
  <1>6. \A p \in PricedPairs : cost(p, "strong-only") - cost(p, "routed") =
                            Billed({In(p, "strong-only")}, Roles) - Billed({In(p, "routed")}, Roles)
    BY <1>4 DEF PricedPairs
  <1>7. f = g
    BY <1>5, <1>6
  <1>8. Cardinality(Matched \ PricedPairs) = Cardinality(Matched) - Cardinality(PricedPairs)
    <2>1. Matched \in SUBSET Pairs /\ PricedPairs \in SUBSET Matched
      BY DEF Matched, PricedPairs
    <2>2. IsFiniteSet(Matched)
      BY <2>1, PairsFinite, FS_Subset
    <2>3. /\ Cardinality(PricedPairs) \in Nat /\ Cardinality(Matched \ PricedPairs) \in Nat
          /\ Cardinality(Matched) = Cardinality(PricedPairs) + Cardinality(Matched \ PricedPairs)
      BY <2>1, <2>2, Split
    <2> QED
      BY <2>3
  <1> HIDE DEF rows, matched, f
  <1> QED
    BY <1>1, <1>3, <1>5, <1>7, <1>8

\* One trial of each pair.
LEMMA OneOfEach ==
  ASSUME NEW h \in [Pairs -> Trials], \A p \in Pairs : Schedule[h[p]].pair = p,
         NEW T, T = {h[p] : p \in Pairs}
  PROVE  h \in Bijection(Pairs, T) /\ T \in SUBSET Trials
  <1>1. \A p, q \in Pairs : h[p] = h[q] => p = q
    BY Zenon
  <1>2. \A t \in T : \E p \in Pairs : h[p] = t
    OBVIOUS
  <1>3. \A p \in Pairs : h[p] \in T
    OBVIOUS
  <1> QED
    BY <1>1, <1>2, <1>3 DEF Bijection, Injection, Surjection, IsInjective

\* The trial whose cost the replay takes for a pair.
Base(weak, p) == Baseline(p, IF p \in weak THEN "weak" ELSE "strong")

LEMMA ReplayCost ==
  ASSUME IInv, NEW trials \in {Loaded}, NEW h, NEW w, w = replayThresholds(trials, h).weak,
         NEW R, R = {In(p, "routed") : p \in Pairs}, NEW B, B = {Base(w, p) : p \in Pairs},
         replayThresholds(trials, h).cost # None
  PROVE  /\ FullyPriced(B, Roles) /\ FullyPriced(R, {"classifier"})
         /\ replayThresholds(trials, h).cost = Billed(B, Roles) + Billed(R, {"classifier"})
  <1> DEFINE d(p) == DecisionOf(trials[In(p, "routed")])
             decided == {p \in Pairs : d(p) # None}
             base(p) == Baseline(p, Replayed(d(p), h))
             u(p) == trialCost(trials[base(p)])
             v(p) == classifierCost(trials[In(p, "routed")])
             cost(p) == IF p \notin decided \/ u(p) = None \/ v(p) = None THEN None
                        ELSE u(p) + v(p)
             f == [p \in Pairs |-> cost(p)]
             a == [p \in Pairs |-> u(p)]
             b == [p \in Pairs |-> v(p)]
             i == [p \in Pairs |-> Base(w, p)]
             j == [p \in Pairs |-> In(p, "routed")]
             c == {"classifier"}
  <1>0. /\ Roles \in AskedRoles /\ c \in AskedRoles
        /\ \A x : TrialCostOf(x, Roles) = trialCost(x) /\ TrialCostOf(x, c) = classifierCost(x)
    BY DEF AskedRoles, TrialCostOf, Roles
  <1>1. replayThresholds(trials, h).cost = sumKnown(f)
    BY DEF replayThresholds
  <1>2. w = {p \in decided : Replayed(d(p), h) = "weak"}
    <2>1. replayThresholds(trials, h).weak = {p \in decided : Replayed(d(p), h) = "weak"}
      BY DEF replayThresholds
    <2> QED
      BY <2>1
  <1>3. \A p \in Pairs : f[p] # None
    <2>1. DOMAIN f = Pairs
      OBVIOUS
    <2> HIDE DEF f
    <2> QED
      BY <1>1, <2>1 DEF sumKnown
  <1>4. \A p \in Pairs : p \in decided /\ u(p) # None /\ v(p) # None /\ f[p] = u(p) + v(p)
    <2> HIDE DEF u, v, decided
    <2> QED
      BY <1>3
  <1>5. \A p \in Pairs : base(p) = Base(w, p)
    BY <1>2, <1>4 DEF Base, Baseline
  <1>6. ASSUME NEW p \in Pairs
        PROVE  /\ In(p, "routed") \in Trials /\ Schedule[In(p, "routed")].pair = p
               /\ Base(w, p) \in Trials /\ Schedule[Base(w, p)].pair = p
    BY InIs DEF Modes, Base, Baseline
  <1> HIDE DEF c
  <1>7. ASSUME NEW p \in Pairs
        PROVE  /\ TrialPriced(Base(w, p), Roles) /\ a[p] = Billed({Base(w, p)}, Roles)
               /\ a[p] \in Nat
    <2> DEFINE t == Base(w, p)
    <2>1. t \in Trials /\ a[p] = trialCost(trials[t]) /\ trialCost(trials[t]) # None
      BY <1>4, <1>5, <1>6
    <2> HIDE DEF t, a
    <2> QED
      BY <1>0, <2>1, TrialCostIs DEF t
  <1>8. ASSUME NEW p \in Pairs
        PROVE  /\ TrialPriced(In(p, "routed"), c) /\ b[p] = Billed({In(p, "routed")}, c)
               /\ b[p] \in Nat
    <2> DEFINE t == In(p, "routed")
    <2>1. t \in Trials /\ b[p] = classifierCost(trials[t]) /\ classifierCost(trials[t]) # None
      BY <1>4, <1>6
    <2> HIDE DEF t, b
    <2> QED
      BY <1>0, <2>1, TrialCostIs DEF t
  <1>9. j \in Bijection(Pairs, R) /\ R \in SUBSET Trials
    <2>1. j \in [Pairs -> Trials] /\ \A p \in Pairs : Schedule[j[p]].pair = p
      BY <1>6
    <2>2. R = {j[p] : p \in Pairs}
      OBVIOUS
    <2> HIDE DEF j
    <2> QED
      BY <2>1, <2>2, OneOfEach
  <1>10. i \in Bijection(Pairs, B) /\ B \in SUBSET Trials
    <2>1. i \in [Pairs -> Trials] /\ \A p \in Pairs : Schedule[i[p]].pair = p
      BY <1>6
    <2>2. B = {i[p] : p \in Pairs}
      OBVIOUS
    <2> HIDE DEF i
    <2> QED
      BY <2>1, <2>2, OneOfEach
  <1>11. FullyPriced(B, Roles) /\ FullyPriced(R, c)
    <2>1. \A t \in B : TrialPriced(t, Roles)
      BY <1>7
    <2>2. \A t \in R : TrialPriced(t, c)
      BY <1>8
    <2> QED
      BY <1>0, <1>9, <1>10, <2>1, <2>2, PricedIs
  <1>12. SumFunctionOnSet(a, Pairs) = Billed(B, Roles)
    <2>1. \A p \in Pairs : a[p] = Billed({i[p]}, Roles)
      BY <1>7
    <2> HIDE DEF a, i
    <2> QED
      BY <1>0, <1>10, <1>11, <2>1, PairsFinite, BilledSum
  <1>13. SumFunctionOnSet(b, Pairs) = Billed(R, c)
    <2>1. \A p \in Pairs : b[p] = Billed({j[p]}, c)
      BY <1>8
    <2> HIDE DEF b, j
    <2> QED
      BY <1>0, <1>9, <1>11, <2>1, PairsFinite, BilledSum
  <1>14. \A p \in Pairs : f[p] = a[p] + b[p]
    BY <1>4
  <1>15. sumKnown(f) = SumFunctionOnSet(f, Pairs)
    BY <1>3 DEF sumKnown, SumFunction
  <1> HIDE DEF a, b, f
  <1>16. \A p \in Pairs : a[p] \in Int /\ b[p] \in Int /\ f[p] = a[p] + b[p]
    <2>1. \A p \in Pairs : a[p] \in Nat
      BY <1>7
    <2>2. \A p \in Pairs : b[p] \in Nat
      BY <1>8
    <2> QED
      BY <1>14, <2>1, <2>2
  <1>17. SumFunctionOnSet(f, Pairs) = SumFunctionOnSet(a, Pairs) + SumFunctionOnSet(b, Pairs)
    BY <1>16, PairsFinite, SumAdd
  <1> QED
    BY <1>1, <1>11, <1>12, <1>13, <1>15, <1>17 DEF c

\* The observed tokens of a directory on a model in a role.
OnIdentity(q, i) == i[1] \in {"classifier", Tier(q[1], Dir(q))}
TierTokens(q, i) == IF OnIdentity(q, i) THEN Dir(q).usage[i[2]].tokens ELSE 0

LEMMA IdentitiesAre ==
  /\ Identities = {<<"classifier", "classifier">>, <<"weak", "coding">>, <<"weak", "compaction">>,
                   <<"strong", "coding">>, <<"strong", "compaction">>}
  /\ \A i \in Identities : i[2] \in Roles
  <1>1. Identities = {<<"classifier", "classifier">>, <<"weak", "coding">>, <<"weak", "compaction">>,
                      <<"strong", "coding">>, <<"strong", "compaction">>}
    <2>1. {"weak", "strong"} \X {"coding", "compaction"} =
            {<<"weak", "coding">>, <<"weak", "compaction">>, <<"strong", "coding">>, <<"strong", "compaction">>}
      OBVIOUS
    <2> QED
      BY <2>1 DEF Identities
  <1> QED
    BY <1>1 DEF Roles

LEMMA SumFive ==
  ASSUME NEW f, NEW v, NEW w, NEW x, NEW y, NEW z,
         v # w, v # x, v # y, v # z, w # x, w # y, w # z, x # y, x # z, y # z,
         f[v] \in Int, f[w] \in Int, f[x] \in Int, f[y] \in Int, f[z] \in Int,
         DOMAIN f = {v, w, x, y, z}
  PROVE  SumFunction(f) = f[v] + ((f[w] + f[x]) + (f[y] + f[z]))
  <1> DEFINE F(S) == SumFunctionOnSet(f, S)
  <1>1. /\ IsFiniteSet({}) /\ IsFiniteSet({z}) /\ IsFiniteSet({y, z}) /\ IsFiniteSet({x, y, z})
        /\ IsFiniteSet({w, x, y, z}) /\ IsFiniteSet({v, w, x, y, z})
    <2>1. \A S, a : IsFiniteSet(S) => IsFiniteSet(S \cup {a})
      BY FS_AddElement
    <2>2. /\ {z} \cup {y} = {y, z} /\ {y, z} \cup {x} = {x, y, z}
          /\ {x, y, z} \cup {w} = {w, x, y, z} /\ {w, x, y, z} \cup {v} = {v, w, x, y, z}
      OBVIOUS
    <2>3. IsFiniteSet({}) /\ IsFiniteSet({z})
      BY FS_EmptySet, FS_Singleton
    <2>4. IsFiniteSet({z} \cup {y})
      BY <2>1, <2>3, Zenon
    <2>5. IsFiniteSet({y, z} \cup {x})
      BY <2>1, <2>2, <2>4, Zenon
    <2>6. IsFiniteSet({x, y, z} \cup {w})
      BY <2>1, <2>2, <2>5, Zenon
    <2>7. IsFiniteSet({w, x, y, z} \cup {v})
      BY <2>1, <2>2, <2>6, Zenon
    <2> QED
      BY <2>2, <2>3, <2>4, <2>5, <2>6, <2>7
  <1>2. /\ {v, w, x, y, z} \ {v} = {w, x, y, z} /\ {w, x, y, z} \ {w} = {x, y, z}
        /\ {x, y, z} \ {x} = {y, z} /\ {y, z} \ {y} = {z} /\ {z} \ {z} = {}
    OBVIOUS
  <1>3. F({v, w, x, y, z}) = f[v] + F({w, x, y, z})
    BY <1>1, <1>2, SumRemove
  <1>4. F({w, x, y, z}) = f[w] + F({x, y, z})
    BY <1>1, <1>2, SumRemove
  <1>5. F({x, y, z}) = f[x] + F({y, z})
    BY <1>1, <1>2, SumRemove
  <1>6. F({y, z}) = f[y] + F({z})
    BY <1>1, <1>2, SumRemove
  <1>7. F({z}) = f[z] + F({})
    BY <1>1, <1>2, SumRemove
  <1>8. F({}) = 0
    BY <1>1, SumIs
  <1>9. SumFunction(f) = F({v, w, x, y, z})
    BY DEF SumFunction
  <1> HIDE DEF F
  <1>10. F({v, w, x, y, z}) = f[v] + (f[w] + (f[x] + (f[y] + (f[z] + 0))))
    BY <1>3, <1>4, <1>5, <1>6, <1>7, <1>8
  <1> QED
    BY <1>9, <1>10

\* A directory's observed tokens are those on its models; the total is all of them or
\* unknown.
LEMMA TierTokensAre ==
  ASSUME IInv, NEW trials \in {Loaded}, NEW q \in Physical(trials)
  PROVE  /\ \A i \in Identities : TierTokens(q, i) \in Nat
         /\ Tokens(Dir(q)) \in KnownOrNone
         /\ Tokens(Dir(q)) # None => Tokens(Dir(q)) = ObservedTokens(Dir(q))
         /\ ObservedTokens(Dir(q)) =
              TierTokens(q, <<"classifier", "classifier">>)
                + ((TierTokens(q, <<"weak", "coding">>) + TierTokens(q, <<"weak", "compaction">>))
                   + (TierTokens(q, <<"strong", "coding">>) + TierTokens(q, <<"strong", "compaction">>)))
  <1> DEFINE t == q[1]
             a == Dir(q)
             r == Tier(t, a)
             u == a.usage["classifier"].tokens
             v == a.usage["coding"].tokens
             w == a.usage["compaction"].tokens
             k(i) == TierTokens(q, i)
  <1>1. t \in Trials /\ a \in Recorded
    BY PhysicalDirectories
  <1>2. r \in {"weak", "strong", None} /\ Tokens(a) \in KnownOrNone
    BY <1>1, CostType
  <1>3. /\ \A role \in Roles : a.usage[role] \in Usage /\ a.usage[role].tokens \in Nat
        /\ Roles = {"classifier", "coding", "compaction"}
    BY <1>1 DEF Recorded, Usage, Roles
  <1>4. u \in Nat /\ v \in Nat /\ w \in Nat
    BY <1>3
  <1>5. r = None => v = 0 /\ w = 0
    <2> SUFFICES ASSUME r = None PROVE v = 0 /\ w = 0
      OBVIOUS
    <2>1. a.decision = None /\ Schedule[t].mode = "routed"
      <3>1. a.decision # None => a.decision.tier \in {"weak", "strong"}
        BY <1>1 DEF Recorded, Decision
      <3>2. Schedule[t].mode \in Modes
        BY <1>1, ReportsAssumption
      <3> QED
        BY <3>1, <3>2, NoneAssumption DEF Tier, Modes
    <2>2. ByRouter(t, a) /\ Finalized(a)
      <3>1. q \in Directories(Trials) /\ Finalized(a)
        BY PhysicalDirectories
      <3>2. q[2] \in 1..Len(attempts[t]) /\ a = attempts[t][q[2]]
        BY <3>1, DirectoriesAre
      <3> QED
        BY <1>1, <3>1, <3>2 DEF IInv, RoutedLive
    <2>3. a.usage["coding"].observed = 0 /\ a.usage["compaction"].observed = 0
      BY <2>1, <2>2 DEF ByRouter, Uncoded
    <2>4. \A x \in Usage : x.observed = 0 => x.tokens = 0
      BY DEF Usage
    <2> QED
      BY <1>3, <2>3, <2>4
  <1>6. ObservedTokens(a) = u + (v + w)
    <2> DEFINE f == [role \in Roles |-> a.usage[role].tokens]
    <2>1. /\ DOMAIN f = Roles /\ f["classifier"] = u /\ f["coding"] = v /\ f["compaction"] = w
          /\ \A role \in Roles : f[role] \in Int
          /\ ObservedTokens(a) = SumFunction(f)
      BY <1>3 DEF ObservedTokens
    <2> HIDE DEF f, u, v, w, a
    <2> QED
      BY <2>1, RolesSum
  <1>7. Tokens(a) = None \/ Tokens(a) = u + (v + w)
    BY DEF Tokens, totalTokens, totalUsage, codingUsage, Plus
  <1>8. /\ k(<<"classifier", "classifier">>) = u
        /\ k(<<"weak", "coding">>) = IF r = "weak" THEN v ELSE 0
        /\ k(<<"weak", "compaction">>) = IF r = "weak" THEN w ELSE 0
        /\ k(<<"strong", "coding">>) = IF r = "strong" THEN v ELSE 0
        /\ k(<<"strong", "compaction">>) = IF r = "strong" THEN w ELSE 0
    BY DEF TierTokens, OnIdentity
  <1> HIDE DEF a, u, v, w, r, k
  <1>9. \A i \in Identities : k(i) \in Nat
    BY <1>4, <1>8, IdentitiesAre
  <1>10. u + (v + w) = k(<<"classifier", "classifier">>)
           + ((k(<<"weak", "coding">>) + k(<<"weak", "compaction">>))
              + (k(<<"strong", "coding">>) + k(<<"strong", "compaction">>)))
    BY <1>2, <1>4, <1>5, <1>8
  <1> QED
    BY <1>2, <1>6, <1>7, <1>9, <1>10 DEF a, k

\* The tokens of an identity, where they are known.
LEMMA TierSum ==
  ASSUME IInv, NEW trials \in {Loaded}, NEW i \in Identities,
         NEW g, \A q \in Physical(trials) : g[q] = TierTokens(q, i)
  PROVE  /\ IdentityTokens(trials, i) # None =>
              IdentityTokens(trials, i) = SumFunctionOnSet(g, Physical(trials))
         /\ (\A q \in Physical(trials) : Reported(Dir(q), Roles)) => IdentityTokens(trials, i) # None
  <1> DEFINE P == Physical(trials)
             at(q) == trials[q[1]].physical[q[2]]
             M == {q \in P : i[1] \in {"classifier", Tier(q[1], at(q))}}
             f == [q \in M |-> totalTokens(at(q).usage[i[2]])]
  <1>1. IdentityTokens(trials, i) = sumKnown(f)
    BY DEF IdentityTokens
  <1>2. \A q \in P : at(q) = Dir(q) /\ Dir(q) \in Recorded /\ q[1] \in Trials
    BY PhysicalDirectories
  <1>3. M = {q \in P : OnIdentity(q, i)}
    BY <1>2 DEF OnIdentity
  <1>4. \A q \in M : f[q] = totalTokens(Dir(q).usage[i[2]])
    BY <1>2
  <1>5. IsFiniteSet(P) /\ IsFiniteSet(M) /\ M \in SUBSET P /\ DOMAIN f = M
    BY PhysicalIs, FS_Subset
  <1> HIDE DEF M, f, at
  <1>6. \A q \in M : f[q] \in KnownOrNone
    BY <1>2, <1>4, <1>5, IdentitiesAre, CostType
  <1>7. ASSUME sumKnown(f) # None PROVE sumKnown(f) = SumFunctionOnSet(g, P)
    <2>1. /\ \A q \in M : f[q] # None /\ f[q] \in Nat
          /\ sumKnown(f) = SumFunctionOnSet(f, M)
      BY <1>5, <1>6, <1>7, KnownSum
    <2>2. \A q \in M : f[q] = Dir(q).usage[i[2]].tokens
      BY <1>4, <2>1 DEF totalTokens
    <2>3. \A q \in M : g[q] = f[q]
      BY <1>3, <1>5, <2>2 DEF TierTokens
    <2>4. \A q \in P \ M : g[q] = 0
      BY <1>3 DEF TierTokens
    <2>5. SumFunctionOnSet(f, M) = SumFunctionOnSet(g, M)
      <3>1. \A q \in M : f[q] \in Int /\ g[q] = f[q]
        BY <2>1, <2>3
      <3> QED
        BY <1>5, <3>1, SumSame
    <2>6. \A q \in P : g[q] \in Nat
      BY TierTokensAre
    <2>7. SumFunctionOnSet(g, P) = SumFunctionOnSet(g, M)
      <3> HIDE DEF P
      <3> QED
        BY <1>5, <2>4, <2>6, SumZeros
    <2> QED
      BY <2>1, <2>5, <2>7
  <1>8. ASSUME \A q \in P : Reported(Dir(q), Roles) PROVE sumKnown(f) # None
    <2> SUFFICES ASSUME NEW q \in M PROVE f[q] # None
      BY <1>5, <1>6, KnownSum
    <2>1. q \in P /\ i[2] \in Roles
      BY <1>5, IdentitiesAre
    <2> DEFINE u == Dir(q).usage[i[2]]
    <2>2. u.missing = 0 /\ u \in Usage
      BY <1>2, <1>8, <2>1 DEF Reported, isComplete, Recorded
    <2>3. f[q] = totalTokens(u)
      BY <1>4
    <2> HIDE DEF u
    <2>4. totalTokens(u) = u.tokens /\ u.tokens \in Nat
      BY <2>2 DEF totalTokens, Usage
    <2> QED
      BY <2>3, <2>4, NoneAssumption
  <1> QED
    BY <1>1, <1>7, <1>8 DEF P

\* A known total is what was observed in all directories, and that of the identities.
LEMMA UsageTotal ==
  ASSUME IInv, NEW trials \in {Loaded}, aggregateUsage(trials).total # None
  PROVE  /\ \A q \in Directories(Trials) : Finalized(Dir(q))
         /\ aggregateUsage(trials).total = Observed(Trials)
         /\ (\A i \in Identities : IdentityTokens(trials, i) # None) =>
              aggregateUsage(trials).total = SumFunction(aggregateUsage(trials).byIdentity)
  <1> DEFINE P == Physical(trials)
             D == Directories(Trials)
             f == [q \in P |-> Tokens(trials[q[1]].physical[q[2]])]
             o == [q \in D |-> ObservedTokens(Dir(q))]
             T(i) == [q \in P |-> TierTokens(q, i)]
             c == T(<<"classifier", "classifier">>)
             w1 == T(<<"weak", "coding">>)
             w2 == T(<<"weak", "compaction">>)
             s1 == T(<<"strong", "coding">>)
             s2 == T(<<"strong", "compaction">>)
             w == [q \in P |-> w1[q] + w2[q]]
             s == [q \in P |-> s1[q] + s2[q]]
             k == [q \in P |-> w[q] + s[q]]
             by == [i \in Identities |-> IdentityTokens(trials, i)]
             F(g) == SumFunctionOnSet(g, P)
  <1>1. /\ aggregateUsage(trials).byIdentity = by /\ ~(Interrupted(trials) > 0)
        /\ aggregateUsage(trials).total = sumKnown(f)
    BY DEF aggregateUsage
  <1>2. (\A q \in D : Finalized(Dir(q))) /\ P = D
    BY <1>1, DirectoryCount, PhysicalDirectories
  <1>3. \A q \in P : f[q] # None /\ f[q] = Tokens(Dir(q))
    <2>1. \A q \in P : f[q] = Tokens(Dir(q))
      BY PhysicalDirectories
    <2>2. DOMAIN f = P
      OBVIOUS
    <2> HIDE DEF f, P
    <2> QED
      BY <1>1, <2>1, <2>2 DEF sumKnown
  <1>4. IsFiniteSet(P)
    BY PhysicalIs
  <1>5. sumKnown(f) = F(f)
    BY <1>3 DEF sumKnown, SumFunction
  <1>6. Observed(Trials) = SumFunctionOnSet(o, D)
    BY DEF Observed, SumFunction
  <1>7. ASSUME NEW q \in P
        PROVE  /\ c[q] \in Int /\ w1[q] \in Int /\ w2[q] \in Int /\ s1[q] \in Int /\ s2[q] \in Int
               /\ w[q] = w1[q] + w2[q] /\ s[q] = s1[q] + s2[q] /\ k[q] = w[q] + s[q]
               /\ f[q] = o[q] /\ o[q] = c[q] + ((w1[q] + w2[q]) + (s1[q] + s2[q]))
    <2>1. /\ c[q] = TierTokens(q, <<"classifier", "classifier">>)
          /\ w1[q] = TierTokens(q, <<"weak", "coding">>) /\ w2[q] = TierTokens(q, <<"weak", "compaction">>)
          /\ s1[q] = TierTokens(q, <<"strong", "coding">>)
          /\ s2[q] = TierTokens(q, <<"strong", "compaction">>)
          /\ w[q] = w1[q] + w2[q] /\ s[q] = s1[q] + s2[q] /\ k[q] = w[q] + s[q]
      OBVIOUS
    <2>2. o[q] = ObservedTokens(Dir(q))
      BY <1>2
    <2> HIDE DEF c, w1, w2, s1, s2, w, s, k, f, o, T
    <2>3. /\ c[q] \in Nat /\ w1[q] \in Nat /\ w2[q] \in Nat /\ s1[q] \in Nat /\ s2[q] \in Nat
      BY <2>1, TierTokensAre, IdentitiesAre
    <2>4. f[q] = o[q] /\ o[q] = c[q] + ((w1[q] + w2[q]) + (s1[q] + s2[q]))
      BY <1>3, <2>1, <2>2, TierTokensAre
    <2> QED
      BY <2>1, <2>3, <2>4
  <1>8. ASSUME NEW i \in Identities, NEW g, g = T(i), IdentityTokens(trials, i) # None
        PROVE  by[i] = F(g)
    <2>1. \A q \in P : g[q] = TierTokens(q, i)
      BY <1>8
    <2> HIDE DEF T
    <2>2. IdentityTokens(trials, i) = SumFunctionOnSet(g, Physical(trials))
      BY <1>8, <2>1, TierSum
    <2> QED
      BY <2>2
  <1>9. (\A i \in Identities : IdentityTokens(trials, i) # None) =>
          /\ by[<<"classifier", "classifier">>] = F(c)
          /\ by[<<"weak", "coding">>] = F(w1) /\ by[<<"weak", "compaction">>] = F(w2)
          /\ by[<<"strong", "coding">>] = F(s1) /\ by[<<"strong", "compaction">>] = F(s2)
    <2> HIDE DEF by, F, T
    <2> QED
      BY <1>8, IdentitiesAre
  <1>10. DOMAIN by = Identities
    OBVIOUS
  <1> HIDE DEF P, D, f, o, c, w1, w2, s1, s2, w, s, k, by, T
  <1>11. /\ \A q \in P : c[q] \in Int /\ k[q] \in Int /\ f[q] = c[q] + k[q]
         /\ \A q \in P : w[q] \in Int /\ s[q] \in Int /\ k[q] = w[q] + s[q]
         /\ \A q \in P : w1[q] \in Int /\ w2[q] \in Int /\ w[q] = w1[q] + w2[q]
         /\ \A q \in P : s1[q] \in Int /\ s2[q] \in Int /\ s[q] = s1[q] + s2[q]
         /\ \A q \in P : f[q] \in Int /\ o[q] = f[q]
    BY <1>7
  <1>12. SumFunctionOnSet(o, D) = F(f)
    BY <1>2, <1>4, <1>11, SumSame
  <1>13. F(f) = F(c) + F(k) /\ F(k) = F(w) + F(s) /\ F(w) = F(w1) + F(w2) /\ F(s) = F(s1) + F(s2)
    BY <1>4, <1>11, SumAdd
  <1>14. F(c) \in Int /\ F(w1) \in Int /\ F(w2) \in Int /\ F(s1) \in Int /\ F(s2) \in Int
    BY <1>4, <1>11, SumIs
  <1> HIDE DEF F
  <1>15. ASSUME \A i \in Identities : IdentityTokens(trials, i) # None
         PROVE  SumFunction(by) = F(f)
    <2> DEFINE x1 == <<"classifier", "classifier">>
               x2 == <<"weak", "coding">>
               x3 == <<"weak", "compaction">>
               x4 == <<"strong", "coding">>
               x5 == <<"strong", "compaction">>
    <2>1. DOMAIN by = {x1, x2, x3, x4, x5}
      BY <1>10, IdentitiesAre
    <2>2. /\ x1 # x2 /\ x1 # x3 /\ x1 # x4 /\ x1 # x5 /\ x2 # x3 /\ x2 # x4 /\ x2 # x5
          /\ x3 # x4 /\ x3 # x5 /\ x4 # x5
      OBVIOUS
    <2>3. by[x1] = F(c) /\ by[x2] = F(w1) /\ by[x3] = F(w2) /\ by[x4] = F(s1) /\ by[x5] = F(s2)
      BY <1>9, <1>15
    <2> HIDE DEF x1, x2, x3, x4, x5
    <2>4. SumFunction(by) = by[x1] + ((by[x2] + by[x3]) + (by[x4] + by[x5]))
      BY <1>14, <2>1, <2>2, <2>3, SumFive
    <2> QED
      BY <1>13, <1>14, <2>3, <2>4
  <1> QED
    BY <1>1, <1>2, <1>5, <1>6, <1>12, <1>15 DEF D

\* The tokens of a directory on the strong model.
OnStrong(q) == TierTokens(q, <<"strong", "coding">>) + TierTokens(q, <<"strong", "compaction">>)

\* What the assessment counts for a trial: its directories' tokens on the strong
\* model, all calls of which left their usage.
LEMMA StrongTrial ==
  ASSUME IInv, NEW trials \in {Loaded}, NEW t \in Trials, strongIdentityTokens(t, trials[t]) # None,
         NEW K \in SUBSET Physical(trials), \A q \in Physical(trials) : q \in K <=> q[1] = t,
         NEW s, \A q \in Physical(trials) : s[q] = OnStrong(q)
  PROVE  /\ \A q \in Directories({t}) : Reported(Dir(q), Roles)
         /\ strongIdentityTokens(t, trials[t]) = SumFunctionOnSet(s, K)
  <1> DEFINE P == Physical(trials)
             x == trials[t]
             F == FinalOf(t)
             g == [k \in F |-> StrongTokens(t, x.physical[k])]
             h == [k \in F |-> <<t, k>>]
  <1>1. /\ DOMAIN x.physical = F /\ IsFiniteSet(F)
        /\ \A k \in F : x.physical[k] = attempts[t][k]
        /\ x.incomplete > 0 <=> F # 1..Len(attempts[t])
    BY LoadedPhysical
  <1>2. strongIdentityTokens(t, x) = sumKnown(g) /\ F = 1..Len(attempts[t])
    BY <1>1 DEF strongIdentityTokens
  <1>3. DOMAIN g = F /\ \A k \in F : h[k] = <<t, k>>
    OBVIOUS
  <1>4. \A k \in F : g[k] # None /\ g[k] = StrongTokens(t, attempts[t][k])
    <2>1. \A k \in F : g[k] = StrongTokens(t, attempts[t][k])
      BY <1>1
    <2> HIDE DEF g, F, x
    <2> QED
      BY <1>2, <1>3, <2>1 DEF sumKnown, x
  <1>5. sumKnown(g) = SumFunctionOnSet(g, F)
    BY <1>3, <1>4 DEF sumKnown, SumFunction
  <1>6. K = {h[k] : k \in F}
    <2>1. P = {q \in Directories(Trials) : Finalized(Dir(q))}
      BY PhysicalDirectories
    <2>2. \A q \in Directories(Trials) : q[2] \in 1..Len(attempts[q[1]]) /\ q = <<q[1], q[2]>>
      BY DirectoriesAre
    <2>3. ASSUME NEW q \in K PROVE \E k \in F : q = h[k]
      <3>1. q \in Directories(Trials) /\ q[1] = t /\ Finalized(attempts[t][q[2]])
        BY <2>1 DEF Dir
      <3>2. q[2] \in F /\ q = <<t, q[2]>>
        BY <2>2, <3>1 DEF FinalOf
      <3> QED
        BY <1>3, <3>2
    <2>4. ASSUME NEW k \in F PROVE h[k] \in K
      <3>1. k \in 1..Len(attempts[t]) /\ Finalized(attempts[t][k])
        BY DEF FinalOf
      <3>2. <<t, k>> \in Directories(Trials)
        BY <3>1, DirectoriesAre
      <3>3. <<t, k>>[1] = t /\ Dir(<<t, k>>) = attempts[t][k]
        BY DEF Dir
      <3>4. <<t, k>> \in P
        BY <2>1, <3>1, <3>2, <3>3
      <3> QED
        BY <1>3, <3>3, <3>4
    <2> HIDE DEF h, F
    <2> QED
      BY <2>3, <2>4
  <1>7. \A j, k \in F : h[j] = h[k] => j = k
    BY <1>3
  <1>8. ASSUME NEW k \in F
        PROVE  /\ \A role \in Roles : isComplete(attempts[t][k].usage[role])
               /\ g[k] = s[h[k]] /\ s[h[k]] \in Int
    <2> DEFINE a == attempts[t][k]
               u == TierTokens(h[k], <<"strong", "coding">>)
               v == TierTokens(h[k], <<"strong", "compaction">>)
    <2>1. h[k] \in P /\ h[k] = <<t, k>>
      BY <1>3, <1>6
    <2>2. Dir(h[k]) = a /\ h[k][1] = t
      BY <2>1 DEF Dir
    <2>3. s[h[k]] = u + v /\ u \in Nat /\ v \in Nat
      BY <2>1, TierTokensAre, IdentitiesAre DEF OnStrong
    <2>4. (\A role \in Roles : isComplete(a.usage[role])) /\ g[k] =
            IF Tier(t, a) = "strong" THEN codingUsage(a).tokens ELSE 0
      BY <1>4 DEF StrongTokens
    <2>5. /\ codingUsage(a).tokens = a.usage["coding"].tokens + a.usage["compaction"].tokens
          /\ u = IF Tier(t, a) = "strong" THEN a.usage["coding"].tokens ELSE 0
          /\ v = IF Tier(t, a) = "strong" THEN a.usage["compaction"].tokens ELSE 0
      BY <2>2 DEF TierTokens, OnIdentity, codingUsage, Plus
    <2> HIDE DEF g, h, a, u, v
    <2>6. g[k] = u + v
      BY <2>3, <2>4, <2>5
    <2> QED
      BY <2>3, <2>4, <2>6 DEF a
  <1>9. \A q \in Directories({t}) : Reported(Dir(q), Roles)
    <2> SUFFICES ASSUME NEW q \in Directories({t}) PROVE Reported(Dir(q), Roles)
      OBVIOUS
    <2>1. q[2] \in 1..Len(attempts[t]) /\ Dir(q) = attempts[t][q[2]]
      BY DirectoriesAre
    <2>2. q[2] \in F /\ Finalized(Dir(q))
      BY <1>2, <2>1 DEF FinalOf
    <2> QED
      BY <1>8, <2>1, <2>2 DEF Reported
  <1> HIDE DEF F, g, h
  <1>10. \A k \in F : g[k] = s[h[k]]
    BY <1>8
  <1>11. \A q \in K : s[q] \in Int
    BY <1>6, <1>8
  <1>12. IsFiniteSet(F)
    BY <1>1
  <1>13. SumFunctionOnSet(g, F) = SumFunctionOnSet(s, K)
    BY ONLY <1>6, <1>7, <1>10, <1>11, <1>12, SumImage
  <1> QED
    BY <1>2, <1>5, <1>9, <1>13

LEMMA StrongTotal ==
  ASSUME IInv, NEW trials \in {Loaded}, \A t \in Trials : strongIdentityTokens(t, trials[t]) # None
  PROVE  IdentityTokens(trials, <<"strong", "coding">>) + IdentityTokens(trials, <<"strong", "compaction">>)
           = SumFunction([t \in Trials |-> strongIdentityTokens(t, trials[t])])
  <1> DEFINE P == Physical(trials)
             u == [q \in P |-> TierTokens(q, <<"strong", "coding">>)]
             v == [q \in P |-> TierTokens(q, <<"strong", "compaction">>)]
             s == [q \in P |-> OnStrong(q)]
             n == [t \in Trials |-> strongIdentityTokens(t, trials[t])]
             K == [t \in Trials |-> {q \in P : q[1] = t}]
  <1>1. IsFiniteSet(P) /\ \A q \in P : q[1] \in Trials
    BY PhysicalIs
  <1>2. \A q \in P : /\ s[q] = OnStrong(q) /\ u[q] = TierTokens(q, <<"strong", "coding">>)
                     /\ v[q] = TierTokens(q, <<"strong", "compaction">>)
    OBVIOUS
  <1>3. \A t \in Trials : K[t] = {q \in P : q[1] = t}
    OBVIOUS
  <1>4. SumFunction(n) = SumFunctionOnSet(n, Trials) /\ \A t \in Trials : n[t] = strongIdentityTokens(t, trials[t])
    BY DEF SumFunction
  <1>5. Splits(K, Trials, P)
    <2>1. \A t \in Trials : IsFiniteSet(K[t])
      BY <1>1, <1>3, FS_Subset
    <2> QED
      BY <1>1, <2>1 DEF Splits
  <1> HIDE DEF P, s, u, v, K
  <1>6. ASSUME NEW t \in Trials
        PROVE  /\ \A q \in Directories({t}) : Reported(Dir(q), Roles)
               /\ n[t] = SumFunctionOnSet(s, K[t])
    <2>1. strongIdentityTokens(t, trials[t]) # None
      OBVIOUS
    <2>2. K[t] \in SUBSET Physical(trials) /\ \A q \in Physical(trials) : q \in K[t] <=> q[1] = t
      BY <1>3 DEF P
    <2>3. \A q \in Physical(trials) : s[q] = OnStrong(q)
      BY <1>2 DEF P
    <2> DEFINE L == K[t]
    <2> HIDE DEF L
    <2>4. /\ \A q \in Directories({t}) : Reported(Dir(q), Roles)
          /\ strongIdentityTokens(t, trials[t]) = SumFunctionOnSet(s, L)
      <3>1. L \in SUBSET Physical(trials) /\ \A q \in Physical(trials) : q \in L <=> q[1] = t
        BY <2>2 DEF L
      <3>2. IInv /\ trials \in {Loaded} /\ t \in Trials
        OBVIOUS
      <3> QED
        BY ONLY <2>1, <2>3, <3>1, <3>2, StrongTrial
    <2> QED
      BY <1>4, <2>4 DEF L
  <1>7. \A q \in Physical(trials) : Reported(Dir(q), Roles)
    <2> SUFFICES ASSUME NEW q \in Physical(trials) PROVE Reported(Dir(q), Roles)
      OBVIOUS
    <2>1. q \in Directories(Trials)
      BY PhysicalDirectories
    <2>2. q[1] \in Trials /\ q[2] \in 1..Len(attempts[q[1]]) /\ q = <<q[1], q[2]>>
      BY <2>1, DirectoriesAre
    <2>3. <<q[1], q[2]>> \in Directories({q[1]})
      BY <2>2, DirectoriesAre
    <2>4. q \in Directories({q[1]})
      BY <2>2, <2>3, Zenon
    <2> QED
      BY <1>6, <2>2, <2>4
  <1>8. /\ IdentityTokens(trials, <<"strong", "coding">>) = SumFunctionOnSet(u, P)
        /\ IdentityTokens(trials, <<"strong", "compaction">>) = SumFunctionOnSet(v, P)
    <2>1. /\ \A q \in Physical(trials) : u[q] = TierTokens(q, <<"strong", "coding">>)
          /\ \A q \in Physical(trials) : v[q] = TierTokens(q, <<"strong", "compaction">>)
      BY <1>2 DEF P
    <2>2. <<"strong", "coding">> \in Identities /\ <<"strong", "compaction">> \in Identities
      BY IdentitiesAre
    <2> QED
      BY <1>7, <2>1, <2>2, TierSum DEF P
  <1>9. \A q \in P : u[q] \in Int /\ v[q] \in Int /\ s[q] = u[q] + v[q] /\ s[q] \in Int
    <2> SUFFICES ASSUME NEW q \in P PROVE u[q] \in Int /\ v[q] \in Int /\ s[q] = u[q] + v[q] /\ s[q] \in Int
      OBVIOUS
    <2>1. u[q] \in Nat /\ v[q] \in Nat
      BY <1>2, TierTokensAre, IdentitiesAre DEF P
    <2>2. s[q] = u[q] + v[q]
      BY <1>2 DEF OnStrong
    <2> QED
      BY <2>1, <2>2
  <1> HIDE DEF n
  <1>10. \A t \in Trials : n[t] = SumFunctionOnSet(s, K[t])
    BY <1>6
  <1>11. SumFunctionOnSet(n, Trials) = SumFunctionOnSet(s, P)
    BY <1>5, <1>9, <1>10, PairsFinite, SumClasses
  <1>12. SumFunctionOnSet(s, P) = SumFunctionOnSet(u, P) + SumFunctionOnSet(v, P)
    BY <1>1, <1>9, SumAdd
  <1> QED
    BY <1>4, <1>8, <1>11, <1>12 DEF n

LEMMA Costed ==
  ASSUME IInv
  PROVE  CostsComplete
  <1> SUFFICES ASSUME NEW trials \in {Loaded}
               PROVE
    LET r == aggregateExperiment(trials)
        sides(p) == {In(p, "routed"), In(p, "strong-only")}
        matched  == {p \in Pairs : \A t \in sides(p) : HasOutcome(t)}
        priced   == {p \in matched : FullyPriced(sides(p), Roles)}
        strong(t) == strongIdentityTokens(t, trials[t])
        by      == r.usage.byIdentity
    IN /\ r.physical + r.interrupted = Cardinality(Directories(Trials))
       /\ \A t \in Trials : strong(t) # None =>
            \A q \in Directories({t}) : Reported(Dir(q), Roles)
       /\ (\A t \in Trials : strong(t) # None) =>
            by[<<"strong", "coding">>] + by[<<"strong", "compaction">>]
              = SumFunction([t \in Trials |-> strong(t)])
       /\ r.spend = IF FullyPriced(Trials, Roles) THEN Billed(Trials, Roles) ELSE None
       /\ r.usage.total # None =>
            /\ \A q \in Directories(Trials) : Finalized(Dir(q))
            /\ r.usage.total = Observed(Trials)
            /\ (\A i \in Identities : by[i] # None) => r.usage.total = SumFunction(by)
       /\ r.savings.pairs = Cardinality(priced)
       /\ r.savings.omitted = Cardinality(matched) - Cardinality(priced)
       /\ r.savings.numerator =
            SumFunction([p \in priced |->
                           Billed({In(p, "strong-only")}, Roles)
                             - Billed({In(p, "routed")}, Roles)])
       /\ \A h \in REPLAY_THRESHOLDS :
            LET replay == replayThresholds(trials, h)
                routed == {In(p, "routed") : p \in Pairs}
                bases  == {Baseline(p, IF p \in replay.weak THEN "weak" ELSE "strong") :
                             p \in Pairs}
            IN replay.cost # None =>
                 /\ FullyPriced(bases, Roles) /\ FullyPriced(routed, {"classifier"})
                 /\ replay.cost = Billed(bases, Roles) + Billed(routed, {"classifier"})
    BY DEF CostsComplete
  <1> DEFINE r == aggregateExperiment(trials)
             sides(p) == {In(p, "routed"), In(p, "strong-only")}
             matched  == {p \in Pairs : \A t \in sides(p) : HasOutcome(t)}
             priced   == {p \in matched : FullyPriced(sides(p), Roles)}
             strong(t) == strongIdentityTokens(t, trials[t])
             by == r.usage.byIdentity
  <1>1. /\ r.physical = Cardinality(Physical(trials)) /\ r.interrupted = Interrupted(trials)
        /\ r.usage = aggregateUsage(trials) /\ r.spend = spend(trials) /\ r.savings = Savings(trials)
    BY AggregateIs DEF AggregateOf
  <1>2. matched = Matched /\ priced = PricedPairs
    BY DEF Matched, PricedPairs, Sides
  <1>3. by = aggregateUsage(trials).byIdentity /\ \A i \in Identities : by[i] = IdentityTokens(trials, i)
    BY <1>1 DEF aggregateUsage
  <1>4. r.physical + r.interrupted = Cardinality(Directories(Trials))
    BY <1>1, DirectoryCount
  <1>5. ASSUME NEW t \in Trials, strong(t) # None
        PROVE  \A q \in Directories({t}) : Reported(Dir(q), Roles)
    <2> DEFINE K == {q \in Physical(trials) : q[1] = t}
               s == [q \in Physical(trials) |-> OnStrong(q)]
    <2>1. /\ K \in SUBSET Physical(trials) /\ \A q \in Physical(trials) : q \in K <=> q[1] = t
          /\ \A q \in Physical(trials) : s[q] = OnStrong(q)
      OBVIOUS
    <2>2. strongIdentityTokens(t, trials[t]) # None
      BY <1>5
    <2> HIDE DEF K, s
    <2> QED
      BY <2>1, <2>2, StrongTrial
  <1>6. (\A t \in Trials : strong(t) # None) =>
          by[<<"strong", "coding">>] + by[<<"strong", "compaction">>]
            = SumFunction([t \in Trials |-> strong(t)])
    BY <1>3, StrongTotal, IdentitiesAre
  <1>7. r.spend = IF FullyPriced(Trials, Roles) THEN Billed(Trials, Roles) ELSE None
    BY <1>1, SpendIs
  <1>8. ASSUME r.usage.total # None
        PROVE  /\ \A q \in Directories(Trials) : Finalized(Dir(q))
               /\ r.usage.total = Observed(Trials)
               /\ (\A i \in Identities : by[i] # None) => r.usage.total = SumFunction(by)
    <2>1. aggregateUsage(trials).total # None /\ r.usage.total = aggregateUsage(trials).total
      BY <1>1, <1>8
    <2> HIDE DEF r, by
    <2> QED
      BY <1>3, <2>1, UsageTotal
  <1>9. /\ r.savings.pairs = Cardinality(priced)
        /\ r.savings.omitted = Cardinality(matched) - Cardinality(priced)
        /\ r.savings.numerator =
             SumFunction([p \in priced |-> Billed({In(p, "strong-only")}, Roles)
                                             - Billed({In(p, "routed")}, Roles)])
    BY <1>1, <1>2, SavingsAre
  <1>10. \A h \in REPLAY_THRESHOLDS :
          LET replay == replayThresholds(trials, h)
              routed == {In(p, "routed") : p \in Pairs}
              bases  == {Baseline(p, IF p \in replay.weak THEN "weak" ELSE "strong") : p \in Pairs}
          IN replay.cost # None =>
               /\ FullyPriced(bases, Roles) /\ FullyPriced(routed, {"classifier"})
               /\ replay.cost = Billed(bases, Roles) + Billed(routed, {"classifier"})
    <2> TAKE h \in REPLAY_THRESHOLDS
    <2> DEFINE replay == replayThresholds(trials, h)
               w      == replay.weak
               routed == {In(p, "routed") : p \in Pairs}
               bases  == {Baseline(p, IF p \in replay.weak THEN "weak" ELSE "strong") : p \in Pairs}
    <2> SUFFICES ASSUME replay.cost # None
                 PROVE  /\ FullyPriced(bases, Roles) /\ FullyPriced(routed, {"classifier"})
                        /\ replay.cost = Billed(bases, Roles) + Billed(routed, {"classifier"})
      OBVIOUS
    <2>1. bases = {Base(w, p) : p \in Pairs}
      BY DEF Base
    <2>2. routed = {In(p, "routed") : p \in Pairs} /\ w = replayThresholds(trials, h).weak
      OBVIOUS
    <2>3. replayThresholds(trials, h).cost # None /\ trials \in {Loaded}
      OBVIOUS
    <2> HIDE DEF w, routed, bases
    <2>4. /\ FullyPriced(bases, Roles) /\ FullyPriced(routed, {"classifier"})
          /\ replayThresholds(trials, h).cost = Billed(bases, Roles) + Billed(routed, {"classifier"})
      BY ONLY IInv, <2>1, <2>2, <2>3, ReplayCost
    <2> QED
      BY <2>4
  <1> HIDE DEF r, by
  <1>11. by = r.usage.byIdentity
    BY DEF by
  <1> QED
    BY <1>4, <1>5, <1>6, <1>7, <1>8, <1>9, <1>10, <1>11 DEF r, by

\* CostsComplete for any schedule, number of trials and attempts, and any usage each
\* role's calls may have left: in aggregateExperiment, costSavings and
\* replayThresholds, the calls of every attempt directory are in a reported sum of
\* money, or the sum is reported as unknown; a reported number of tokens is what was
\* observed in all directories, and none of them was interrupted.
THEOREM CostsAreComplete == Spec => []CostsComplete
  <1>1. IInv => CostsComplete
    BY Costed
  <1> QED
    BY <1>1, Inductive, PTL
=============================================================================
