--------------------------- MODULE DecisionLedger ---------------------------
(***************************************************************************)
(* What session routing promises, without processes, handlers or files:    *)
(* a session gets at most one decision, which stays, and a provider is     *)
(* asked only for the model of the decision of the session that asks.      *)
(***************************************************************************)
CONSTANTS Sessions, Decision, None

VARIABLES decision, calls

Init ==
  /\ decision = [s \in Sessions |-> None]
  /\ calls = {}

\* The decision of s becomes known.
Decide(s) ==
  /\ decision[s] = None
  /\ decision'[s] \in Decision
  /\ decision' = [decision EXCEPT ![s] = decision'[s]]
  /\ UNCHANGED calls

\* A provider is asked on behalf of s.
Call(s) ==
  /\ decision[s] # None
  /\ calls' = calls \cup {<<s, decision[s].tier>>}
  /\ UNCHANGED decision

Next == \E s \in Sessions : Decide(s) \/ Call(s)

Spec == Init /\ [][Next]_<<decision, calls>>
=============================================================================
