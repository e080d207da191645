------------------------------- MODULE Bridge -------------------------------
(***************************************************************************)
(* The stdio protocol between SwitchyardBridgeClient (src/bridge/client.ts)*)
(* and the Rust bridge process (rust/switchyard-bridge/src/main.rs): two   *)
(* pipes of frames, a client that resolves one decision at a time, asks    *)
(* the classifier through Pi when the bridge calls for it, and may be      *)
(* aborted at any moment, and a bridge that handles one decision at a time *)
(* and can die.                                                            *)
(*                                                                         *)
(* A frame is its type, its decision identity and what the receiver acts   *)
(* on.  The call identity is "call-1" in every decision, so comparing      *)
(* decisions is comparing calls.                                           *)
(***************************************************************************)
EXTENDS Naturals, Sequences

CONSTANTS
  Decisions,   \* decision identities; each is resolved at most once
  None

VARIABLES
  \* The client.
  client,     \* "starting", "idle", "reading", "calling" or "failed"
  active,     \* the decision being resolved, or None
  called,     \* classifierCalled
  closed,     \* dispose() was called
  aborted,    \* decisions whose signal is aborted
  \* The pipes and the bridge.
  stdin, stdout,
  serving,    \* the decision whose model result the bridge awaits, or None
  alive,
  \* Observations.
  outcome,    \* what resolveDecision returned or threw
  verdict,    \* what the classifier answered
  cancelled,  \* decisions cancelled before their classifier answer was written
  cause       \* decisions refused, failed or cut by their own circumstances

pipes == <<stdin, stdout>>
observed == <<outcome, verdict, cancelled, cause>>
vars == <<client, active, called, closed, aborted, pipes, serving, alive,
          observed>>

Verdicts == {"weak", "strong", "invalid"}
Tiers    == {"weak", "strong"}
Causes   == {"busy", "closed", "oversize", "unwritten", "model_error", "deadline"}

ASSUME NoneAssumption == None \notin Decisions \cup Verdicts

ToBridge ==
  [type : {"start", "model_error", "cancel"}, id : Decisions]
    \cup [type : {"model_result"}, id : Decisions, text : Verdicts]
ToClient ==
  [type : {"ready", "error"}, id : {None}]
    \cup [type : {"call_model", "error"}, id : Decisions]
    \cup [type : {"decision"}, id : Decisions, alias : Tiers]

\* Every variable has its type.
TypeOK ==
  /\ client \in {"starting", "idle", "reading", "calling", "failed"}
  /\ active \in Decisions \cup {None}
  /\ called \in BOOLEAN
  /\ closed \in BOOLEAN
  /\ aborted \in SUBSET Decisions
  /\ stdin \in Seq(ToBridge)
  /\ stdout \in Seq(ToClient)
  /\ serving \in Decisions \cup {None}
  /\ alive \in BOOLEAN
  /\ outcome \in [Decisions -> {"none", "error", "limit"} \cup Tiers]
  /\ verdict \in [Decisions -> Verdicts \cup {None}]
  /\ cancelled \in SUBSET Decisions
  /\ cause \in [Decisions -> SUBSET Causes]

-----------------------------------------------------------------------------
(* The client. *)

Frame(type, d) == [type |-> type, id |-> d]

\* resolveDecision returns or throws: the finally block.
End(d, result) ==
  /\ outcome' = [outcome EXCEPT ![d] = result]
  /\ active' = None
  /\ client' = "idle"

Blame(d, c) == cause' = [cause EXCEPT ![d] = @ \cup {c}]

\* start(): the ready frame arrives.
start_ready ==
  /\ client = "starting"
  /\ stdout # <<>>
  /\ stdout' = Tail(stdout)
  /\ client' = "idle"
  /\ UNCHANGED <<active, called, closed, aborted, stdin, serving, alive,
                 observed>>

\* start(): the ready timeout, or an exit before the ready frame.
start_fails ==
  /\ client = "starting"
  /\ client' = "failed"
  /\ closed' = TRUE /\ alive' = FALSE
  /\ UNCHANGED <<active, called, aborted, pipes, serving, observed>>

\* The early throws of resolveDecision; the running decision goes on.
resolve_refused(d) ==
  /\ client \in {"idle", "reading", "calling"} /\ outcome[d] = "none"
  /\ active # d
  /\ \/ closed /\ Blame(d, "closed")
     \/ ~closed /\ active # None /\ Blame(d, "busy")
     \/ ~closed /\ active = None /\ d \in aborted /\ UNCHANGED cause
  /\ outcome' = [outcome EXCEPT ![d] = "error"]
  /\ UNCHANGED <<client, active, called, closed, aborted, pipes, serving,
                 alive, verdict, cancelled>>

\* resolveDecision writes the start frame and reads.
resolve_start(d) ==
  /\ client = "idle" /\ ~closed /\ outcome[d] = "none" /\ d \notin aborted
  /\ stdin' = Append(stdin, Frame("start", d))
  /\ active' = d
  /\ called' = FALSE
  /\ client' = "reading"
  /\ UNCHANGED <<closed, aborted, stdout, serving, alive, observed>>

\* writeFrame throws: on backpressure although the pipe has taken the frame, or
\* because the frame is too long, and then nothing is written.
resolve_unwritten(d) ==
  /\ client = "idle" /\ ~closed /\ outcome[d] = "none" /\ d \notin aborted
  /\ \/ stdin' = Append(stdin, Frame("start", d)) /\ Blame(d, "unwritten")
     \/ UNCHANGED stdin /\ Blame(d, "oversize")
  /\ outcome' = [outcome EXCEPT ![d] = "error"]
  /\ UNCHANGED <<client, active, called, closed, aborted, stdout, serving,
                 alive, verdict, cancelled>>

\* The caller's signal is aborted; onAbort writes a cancel frame.
onAbort(d) ==
  /\ d \notin aborted /\ outcome[d] = "none"
  /\ aborted' = aborted \cup {d}
  /\ stdin' = IF active = d THEN Append(stdin, Frame("cancel", d)) ELSE stdin
  /\ cancelled' = IF active = d /\ verdict[d] = None
                  THEN cancelled \cup {d} ELSE cancelled
  /\ UNCHANGED <<client, active, called, closed, stdout, serving, alive,
                 outcome, verdict, cause>>

\* parseFrame and the identity check refuse the frame: an error frame without
\* a decision identity is invalid, and so is one of another decision.
Foreign(f) == f.id # active

\* nextFrame, and the loop body up to the next await.
read_frame ==
  LET f == Head(stdout) IN
  /\ client = "reading" /\ stdout # <<>>
  /\ stdout' = Tail(stdout)
  /\ \/ /\ Foreign(f) \/ f.type = "error" \/ (f.type = "call_model" /\ called)
          \/ (f.type = "decision" /\ ~called)
        /\ End(active, "error")
        /\ UNCHANGED called
     \/ /\ ~Foreign(f) /\ f.type = "call_model" /\ ~called
        /\ called' = TRUE
        /\ client' = "calling"
        /\ UNCHANGED <<active, outcome>>
     \/ /\ ~Foreign(f) /\ f.type = "decision" /\ called
        /\ End(active, f.alias)
        /\ UNCHANGED called
  /\ UNCHANGED <<closed, aborted, stdin, serving, alive, verdict, cancelled,
                 cause>>

\* The output ended: the process exited, or dispose() closed the reader.
read_end ==
  /\ client = "reading"
  /\ closed \/ (~alive /\ stdout = <<>>)
  /\ End(active, "error")
  /\ UNCHANGED <<called, closed, aborted, pipes, serving, alive, verdict,
                 cancelled, cause>>

\* callClassifierThroughPi returned a text.
classifier_result(text) ==
  /\ client = "calling"
  /\ verdict' = [verdict EXCEPT ![active] = text]
  /\ stdin' = Append(stdin, [type |-> "model_result", id |-> active,
                             text |-> text])
  /\ client' = "reading"
  /\ UNCHANGED <<active, called, closed, aborted, stdout, serving, alive,
                 outcome, cancelled, cause>>

\* callClassifierThroughPi returned an error; an aborted signal ends there.
classifier_error ==
  /\ client = "calling"
  /\ stdin' = Append(stdin, Frame("model_error", active))
  /\ Blame(active, "model_error")
  /\ client' = "reading"
  /\ UNCHANGED <<active, called, closed, aborted, stdout, serving, alive,
                 outcome, verdict, cancelled>>

\* The reply to the bridge; text is None for an error.
Reply(text) ==
  IF text = None THEN Frame("model_error", active)
  ELSE [type |-> "model_result", id |-> active, text |-> text]

\* writeFrame throws for the reply, as above: that ends the resolution, and the
\* bridge still has the decision.
classifier_unwritten(text) ==
  /\ client = "calling"
  /\ verdict' = [verdict EXCEPT ![active] = text]
  /\ stdin' \in {stdin, Append(stdin, Reply(text))}
  /\ Blame(active, "unwritten")
  /\ End(active, "error")
  /\ UNCHANGED <<called, closed, aborted, stdout, serving, alive, cancelled>>

\* The classifier request hit its deadline: the ExecutionLimitError leaves
\* resolveDecision without an answer to the bridge.
classifier_deadline ==
  /\ client = "calling" /\ active \notin aborted
  /\ Blame(active, "deadline")
  /\ End(active, "limit")
  /\ UNCHANGED <<called, closed, aborted, pipes, serving, alive, verdict,
                 cancelled>>

\* dispose(): close the reader and terminate the process.
dispose ==
  /\ client \notin {"starting", "failed"} /\ ~closed
  /\ closed' = TRUE /\ alive' = FALSE
  /\ UNCHANGED <<client, active, called, aborted, pipes, serving, observed>>

-----------------------------------------------------------------------------
(* The bridge process. *)

\* Mutant: an unusable verdict selects the weak model.
selected_weak(text) == IF text = "strong" THEN "strong" ELSE "weak"

\* Switchyard's choice: an invalid verdict falls back to strong.
selected(text) == IF text = "weak" THEN "weak" ELSE "strong"

Send(f) == stdout' = Append(stdout, f)

\* The main loop: a start frame calls for the model, anything else is refused
\* with an error frame that names no decision.
bridge_main ==
  LET f == Head(stdin) IN
  /\ alive /\ serving = None /\ stdin # <<>>
  /\ stdin' = Tail(stdin)
  /\ \/ /\ f.type = "start"
        /\ serving' = f.id
        /\ Send(Frame("call_model", f.id))
     \/ /\ f.type # "start"
        /\ Send(Frame("error", None))
        /\ UNCHANGED serving
  /\ UNCHANGED <<client, active, called, closed, aborted, alive, observed>>

\* Mutant: a cancel frame is skipped while the model result is awaited.
bridge_reply_uncancelled ==
  LET f == Head(stdin) IN
  /\ alive /\ serving # None /\ stdin # <<>>
  /\ stdin' = Tail(stdin)
  /\ serving' = IF f.type = "cancel" THEN serving ELSE None
  /\ IF f.type = "model_result" /\ f.id = serving
     THEN Send([type |-> "decision", id |-> serving, alias |-> selected(f.text)])
     ELSE IF f.type = "cancel" THEN UNCHANGED stdout
     ELSE Send(Frame("error", serving))
  /\ UNCHANGED <<client, active, called, closed, aborted, alive, observed>>

\* Mutant: a refused reply is dropped without an error frame.
bridge_reply_silent ==
  LET f == Head(stdin) IN
  /\ alive /\ serving # None /\ stdin # <<>>
  /\ stdin' = Tail(stdin)
  /\ serving' = None
  /\ IF f.type = "model_result" /\ f.id = serving
     THEN Send([type |-> "decision", id |-> serving, alias |-> selected(f.text)])
     ELSE UNCHANGED stdout
  /\ UNCHANGED <<client, active, called, closed, aborted, alive, observed>>

\* Mutant: after a refused reply the bridge goes on awaiting one.
bridge_reply_stuck ==
  LET f == Head(stdin) IN
  /\ alive /\ serving # None /\ stdin # <<>>
  /\ stdin' = Tail(stdin)
  /\ IF f.type = "model_result" /\ f.id = serving
     THEN /\ Send([type |-> "decision", id |-> serving,
                   alias |-> selected(f.text)])
          /\ serving' = None
     ELSE Send(Frame("error", serving)) /\ UNCHANGED serving
  /\ UNCHANGED <<client, active, called, closed, aborted, alive, observed>>

\* The callback of drive_with_decision reads one frame: the matching result
\* leads to the decision, everything else to an error of this decision.
bridge_reply ==
  LET f == Head(stdin) IN
  /\ alive /\ serving # None /\ stdin # <<>>
  /\ stdin' = Tail(stdin)
  /\ serving' = None
  /\ \/ /\ f.type = "model_result" /\ f.id = serving
        /\ Send([type |-> "decision", id |-> serving, alias |-> selected(f.text)])
     \/ /\ ~(f.type = "model_result" /\ f.id = serving)
        /\ Send(Frame("error", serving))
  /\ UNCHANGED <<client, active, called, closed, aborted, alive, observed>>

\* The process dies; what it has written stays readable.
bridge_dies ==
  /\ alive /\ client # "starting"
  /\ alive' = FALSE
  /\ UNCHANGED <<client, active, called, closed, aborted, pipes, serving,
                 observed>>

-----------------------------------------------------------------------------
Init ==
  /\ client = "starting" /\ active = None /\ called = FALSE /\ closed = FALSE
  /\ aborted = {}
  /\ stdin = <<>> /\ stdout = <<Frame("ready", None)>>
  /\ serving = None /\ alive = TRUE
  /\ outcome = [d \in Decisions |-> "none"]
  /\ verdict = [d \in Decisions |-> None]
  /\ cancelled = {}
  /\ cause = [d \in Decisions |-> {}]

ClientStep ==
  \/ start_ready \/ start_fails \/ read_frame \/ read_end
  \/ \E text \in Verdicts : classifier_result(text)
  \/ \E text \in Verdicts \cup {None} : classifier_unwritten(text)
  \/ classifier_error \/ classifier_deadline

BridgeStep == bridge_main \/ bridge_reply

CallerStep ==
  \/ \E d \in Decisions : resolve_refused(d) \/ resolve_start(d)
                            \/ resolve_unwritten(d) \/ onAbort(d)
  \/ dispose

Next == ClientStep \/ BridgeStep \/ CallerStep \/ bridge_dies

Spec == Init /\ [][Next]_vars

\* The client's promises settle (every classifier request has a deadline) and
\* a live bridge reads its input.  The caller, the signal and the death of the
\* process owe nothing.
Fairness == WF_vars(ClientStep) /\ WF_vars(BridgeStep)

FairSpec == Spec /\ Fairness

-----------------------------------------------------------------------------
(* Properties. *)

\* A tier that resolveDecision returns is Switchyard's choice on the verdict
\* the classifier gave for that very decision, whatever stale frames earlier
\* decisions left in the pipes.
NoCrossTalk ==
  \A d \in Decisions : outcome[d] \in Tiers =>
    verdict[d] # None /\ (outcome[d] = "weak" <=> verdict[d] = "weak")

\* A decision whose cancel frame went out before its classifier answer never
\* selects a tier.
CancelledNeverDecides ==
  \A d \in cancelled : outcome[d] \notin Tiers

\* The decision failed for a reason of its own.
OwnCause(d) == d \in aborted \/ cause[d] # {} \/ closed \/ ~alive

\* The decision was cut: its resolution ended while the bridge still had, or
\* was about to produce, frames of it.
Cut(d) == d \in aborted \/ cause[d] \cap {"deadline", "unwritten"} # {}

\* As long as no decision was cut, a decision fails only for a reason of its
\* own: model errors, refusals and verdicts leave the two sides in step.
FailureHasCause ==
  \A d \in Decisions :
    outcome[d] = "error" => OwnCause(d) \/ \E e \in Decisions : Cut(e)

\* A decision fails only for a reason of its own, also when an earlier one was
\* aborted or hit its deadline; only a write that was reported as failed with
\* the decision already at the bridge is left out.  It does not hold (README, 5).
FailureIsOwn ==
  \A d \in Decisions : outcome[d] = "error" =>
    OwnCause(d) \/ \E e \in Decisions : "unwritten" \in cause[e]

\* resolveDecision always returns or throws, also out of step with the bridge.
ResolveEnds ==
  \A d \in Decisions : active = d ~> active # d
=============================================================================
