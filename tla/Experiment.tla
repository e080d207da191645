----------------------------- MODULE Experiment -----------------------------
(***************************************************************************)
(* What the evaluation runner promises about an experiment directory, and  *)
(* all that its readers rely on: trials are run in the order of the        *)
(* manifest's schedule, each in at most MaxAttempts attempt directories,   *)
(* the next one only when the last left no capability outcome, and a       *)
(* recorded result changes only when a run that awaited its validation is  *)
(* validated.  EvalSchedule implements it; Reports reads it.               *)
(***************************************************************************)
EXTENDS Integers, Sequences

CONSTANTS
  NumTrials,    \* length of the manifest's schedule
  MaxAttempts,  \* MAX_ATTEMPTS_PER_TRIAL
  Result(_)     \* what a finalized attempt of a trial may record

VARIABLE attempts  \* per trial, the attempt directories in order

Trials == 1..NumTrials

\* What readAttempt and classifyTrialOutcome make of a directory: nothing yet
\* ("void": readAttempt throws), an event log only ("open"), a cancelled run, a
\* completed run without a validation, an infrastructure failure, an outcome.
Raw == {"void", "open", "cancelled", "unvalidated", "unavailable", "pass", "fail"}

Decided(a) == a.raw \in {"pass", "fail"}

HasOutcome(t) == \E k \in DOMAIN attempts[t] : Decided(attempts[t][k])

LastAttempt(t) == attempts[t][Len(attempts[t])]

\* The directory of the next attempt at trial t is made, unless an earlier one
\* cannot be read.
StartAttempt(t) ==
  /\ \A u \in 1..(t - 1) : HasOutcome(u)
  /\ ~HasOutcome(t)
  /\ \A k \in DOMAIN attempts[t] : attempts[t][k].raw # "void"
  /\ Len(attempts[t]) < MaxAttempts
  /\ attempts' = [attempts EXCEPT ![t] = Append(@, [raw |-> "void"])]

\* The evidence of the last attempt is collected: its event log only, or its
\* result as well.
CollectAttempt(t, r) ==
  /\ attempts[t] # <<>> /\ LastAttempt(t).raw \in {"void", "open"}
  /\ attempts' = [attempts EXCEPT ![t][Len(attempts[t])] = r]

\* The validation of a completed run is attached.
AttachValidation(t, outcome) ==
  /\ attempts[t] # <<>> /\ LastAttempt(t).raw = "unvalidated"
  /\ attempts' = [attempts EXCEPT ![t][Len(attempts[t])].raw = outcome]

Init == attempts = [t \in Trials |-> <<>>]

Next ==
  \E t \in Trials :
    \/ StartAttempt(t)
    \/ \E r \in Result(t) \cup {[raw |-> "open"]} : CollectAttempt(t, r)
    \/ \E outcome \in {"pass", "fail", "unavailable"} : AttachValidation(t, outcome)

Spec == Init /\ [][Next]_attempts
=============================================================================
