---------------------------- MODULE RunArtifacts ----------------------------
(***************************************************************************)
(* The evidence of one agent process: AttemptArtifactStore                 *)
(* (src/artifacts/run-artifacts.ts), RuntimeArtifactRecorder with its Pi   *)
(* extension (src/artifacts/runtime-recorder.ts), the usage ledger         *)
(* (src/artifacts/usage.ts) and the part of createContainerRuntime that    *)
(* gives each Pi session an attempt and hands it the routing events        *)
(* (src/container/session-runtime.ts).                                     *)
(*                                                                         *)
(* The recorder of a session logs events through a queue of writes,        *)
(* summarises them in run.json when the session is left or the process     *)
(* quits, and refuses events from then on.  Routing events go to whichever *)
(* recorder is current when they are emitted: an input handler that still  *)
(* awaits its classifier when its session is shut down, and a request      *)
(* timer that was never cleared, emit theirs later.                        *)
(*                                                                         *)
(* A session has at most one decision (see SessionRouting), so a decision  *)
(* is identified by its session.  Payloads, token counts and prices are    *)
(* left out: of a call the ledger keeps whether its usage is complete, of  *)
(* a cost whether it is known.                                             *)
(***************************************************************************)
EXTENDS Integers, SequencesExt

CONSTANTS
  Sessions,     \* Pi session identifiers
  MaxAttempts,  \* bound: attempts started by the process
  MaxCalls,     \* bound: model calls dispatched
  MaxEvents,    \* bound: events of one attempt before its finalization
  Faults,       \* writes may fail and the process may be killed
  None          \* JavaScript's null

ASSUME ArtifactsAssumption ==
  /\ MaxAttempts \in Nat \ {0}
  /\ MaxCalls \in Nat
  /\ MaxEvents \in Nat \ {0}
  /\ Faults \in BOOLEAN

Attempts == 1..MaxAttempts
Calls    == 1..MaxCalls

\* "start" and "end" are model-call events, "compaction-failed" is the error event
\* of that action, "plain" stands for tool, auth, lifecycle and the routing events
\* without a decision.
Kinds == {"startup", "start", "end", "compaction-failed", "decision", "error",
          "plain", "shutdown", "failure", "finalization"}

\* An event of one of these kinds goes with each entry of the usage ledger.
Ends == {"end", "compaction-failed"}

\* The calls in a usage ledger; 0 is one that was recorded as ended, under a
\* random identifier, but had been blocked before it was dispatched.
Accountable == {0} \cup Calls

\* Events whose append is awaited where it is made; track() sees to the others.
Awaited == {"startup", "shutdown", "failure", "finalization"}

\* of is the session whose activity the event reports.
Event == [seq : Nat, kind : Kinds, of : Sessions]

\* Execution statuses: limitFailure, else lastError, else completed.
Status == {"completed", "error", "limit"}

\* run.json: the decision, the calls in the usage summaries, whether the cost
\* is known, and the execution status.
Result == [decision : Sessions \cup {None}, calls : SUBSET Accountable,
           known : BOOLEAN, status : Status]

\* The number in a run ID, and the session's prefix; the first run has none.
RunId == (Sessions \cup {None}) \X Nat

ASSUME NoneAssumption == None \notin Sessions \cup Result \cup RunId

Recorder ==
  [of : Sessions, log : Seq(Event), tail : BOOLEAN, run : Result \cup {None},
   seq : Nat, skipped : BOOLEAN, queue : Seq(Event), broken : BOOLEAN,
   stored : Sessions \cup {None}, decision : Sessions \cup {None},
   complete : SUBSET Accountable, missing : SUBSET Accountable, status : Status,
   writeError : BOOLEAN, finalized : BOOLEAN, lost : SUBSET Kinds]

VARIABLES
  recs,       \* the attempts started, in order: directory, store and recorder
  artifacts,  \* the current recorder
  recorders,  \* artifactRecorders: the recorder of each session
  runIds,     \* attemptRunIds: the number in the run ID of each session
  counts,     \* attemptCounts
  ids,        \* the run ID of each attempt
  phase,      \* where the process is
  active,     \* the attached session, or None
  fin,        \* how far the finalization of the current attempt is
  mark,       \* the write it awaits, as a position in the log
  snapshot,   \* the input of finalizeAttempt
  runError,   \* the driver ends with an error
  decided,    \* sessions with a decision in the decision store
  handler,    \* the input handler of each session
  asking,     \* its classifier call
  coding,     \* the coding or compaction call in flight
  stray,      \* sessions that were left with a request timer running
  calls,      \* every call dispatched: its session and attempt
  mishaps     \* what has gone wrong that the properties tell apart

stores   == <<recs, artifacts, recorders, runIds, counts, ids>>
driver   == <<phase, active, fin, mark, snapshot, runError>>
sessions == <<decided, handler, asking, coding, stray, calls>>
vars     == <<stores, driver, sessions, mishaps>>

HandlerStates == {"idle", "asking", "writing", "written"}
Phases        == {"switch", "starting", "run", "closing", "quitting",
                  "disposing", "ok", "error", "collided", "down"}
FinStates     == {"no", "closing", "patching", "flushing", "draining",
                  "finalizing", "renamed"}


\* Every variable has its type.
TypeOK ==
  /\ recs \in Seq(Recorder) /\ Len(recs) <= MaxAttempts
  /\ artifacts \in 0..Len(recs)
  /\ recorders \in [Sessions -> 0..Len(recs)]
  /\ runIds \in [Sessions -> RunId \cup {None}]
  /\ counts \in [Sessions -> Nat]
  /\ ids \in Seq(RunId) /\ Len(ids) = Len(recs)
  /\ phase \in Phases
  /\ active \in Sessions \cup {None}
  /\ fin \in FinStates
  /\ mark \in Nat
  /\ snapshot \in Result \cup {None}
  /\ runError \in BOOLEAN
  /\ decided \in SUBSET Sessions
  /\ handler \in [Sessions -> HandlerStates]
  /\ asking \in [Sessions -> 0..MaxCalls]
  /\ coding \in 0..MaxCalls
  /\ stray \in SUBSET Sessions
  /\ calls \in Seq([of : Sessions, at : Attempts]) /\ Len(calls) <= MaxCalls
  /\ mishaps \in SUBSET {"cut", "refused"}

-----------------------------------------------------------------------------
(* The store and the recorder of one attempt, as functions of its state. *)

Running == phase \notin {"collided", "down"}

\* Appends of these kinds are rejected; track() keeps the rejection in
\* writeError.
Rejected(r, kinds) ==
  [r EXCEPT !.lost = @ \cup kinds,
            !.writeError = @ \/ ~(kinds \subseteq Awaited)]

\* appendEvent: rejected after finalization, and when a write before it has
\* failed.
appendEvent(r, kind, s) ==
  IF r.finalized THEN Rejected(r, {kind})
  ELSE IF r.broken THEN Rejected([r EXCEPT !.seq = @ + 1], {kind})
    ELSE [r EXCEPT !.seq = @ + 1,
                   !.queue = Append(@, [seq |-> r.seq + 1, kind |-> kind,
                                        of |-> s])]

\* appendEvent with a payload that assertEvent refuses: it throws once the number
\* is taken, before there is a promise that track() could see to.
refuseEvent(r, kind) ==
  IF r.finalized THEN Rejected(r, {kind})
  ELSE [r EXCEPT !.seq = @ + 1, !.skipped = TRUE]

\* recordRoutingEvent for a decision, and recordDecision: a second decision is
\* refused, the same one is logged once.
recordDecision(r, s) ==
  LET marked == [r EXCEPT !.decision = s]
  IN IF r.stored \notin {None, s} THEN [marked EXCEPT !.writeError = TRUE]
     ELSE IF r.stored = s THEN marked
     ELSE appendEvent([marked EXCEPT !.stored = s], "decision", s)

\* Mutant: lastError is not set.
recordError_unset(r, s, limit) ==
  appendEvent([r EXCEPT !.status = IF limit THEN "limit" ELSE @], "error", s)

\* recordRoutingEvent for a routing_error, with or without executionStatus.
recordError(r, s, limit) ==
  appendEvent([r EXCEPT !.status = IF limit \/ @ = "limit" THEN "limit"
                                   ELSE "error"], "error", s)

\* Mutant: a call that failed is left out of the ledger.
recordUsage_success(r, c, s, complete) ==
  appendEvent([r EXCEPT !.complete = IF complete THEN @ \cup {c} ELSE @],
              "end", s)

\* UsageLedger.record and the model-call event at the end of call c.
recordUsage(r, c, s, complete) ==
  appendEvent([r EXCEPT !.complete = IF complete THEN @ \cup {c} ELSE @,
                        !.missing  = IF complete THEN @ ELSE @ \cup {c}],
              "end", s)

\* calculateWithPricing: the cost of a summary is known if no call in it lacks
\* complete usage; without calls it is zero.
CostKnown(r) == r.missing = {}

\* The argument of finalizeAttempt.
FinalizeInput(r) ==
  [decision |-> r.decision, calls |-> r.complete \cup r.missing,
   known |-> CostKnown(r), status |-> r.status]

\* RuntimeArtifactRecorder.start: the directory with an empty log, and the
\* startup event, which is awaited.
NewRecorder(s) ==
  [of |-> s, log |-> <<[seq |-> 1, kind |-> "startup", of |-> s]>>,
   tail |-> FALSE, run |-> None, seq |-> 1, skipped |-> FALSE, queue |-> <<>>,
   broken |-> FALSE, stored |-> None, decision |-> None, complete |-> {}, missing |-> {},
   status |-> "completed", writeError |-> FALSE, finalized |-> FALSE,
   lost |-> {}]

\* The events written and those in the queue: an await of the queue is for all.
Size(r) == Len(r.log) + Len(r.queue)

\* Mutant: an await of a write is not told of its rejection.
Settled_written(r, n) == Len(r.log) >= n

\* The write marked by an await has been made, or the queue has rejected it.
Settled(r, n) == r.broken \/ Len(r.log) >= n

Current == recs[artifacts]
Set(r)  == recs' = [recs EXCEPT ![artifacts] = r]

\* The current recorder takes another event within the bound.
Room ==
  /\ Running /\ artifacts # 0
  /\ Current.seq < MaxEvents \/ Current.finalized

-----------------------------------------------------------------------------
(* Attempts and sessions: createContainerRuntime. *)

\* runIdForSession(s), with the entries of attemptRunIds that are left.
runIdForSession(s, left) ==
  IF left[s] # None THEN left[s]
  ELSE IF \A q \in Sessions : left[q] = None THEN <<None, 0>>
  ELSE <<s, counts[s] + 1>>

\* existing && !existing.isFinalized
reusable(s) == recorders[s] # 0 /\ ~recs[recorders[s]].finalized

\* The session factory.  It finds the session's recorder, or starts an attempt
\* in a directory of its own, which must not exist.
factory(s) ==
  /\ phase = "switch"
  /\ UNCHANGED <<fin, mark, snapshot, runError, sessions, mishaps>>
  /\ IF reusable(s)
       THEN /\ artifacts' = recorders[s]
            /\ phase' = "starting" /\ active' = s
            /\ UNCHANGED <<recs, recorders, runIds, counts, ids>>
       ELSE LET left == [runIds EXCEPT ![s] = None]
                id   == runIdForSession(s, left)
            IN /\ Len(recs) < MaxAttempts
               /\ counts' = [counts EXCEPT ![s] = @ + 1]
               /\ runIds' = [left EXCEPT ![s] = id]
               /\ IF \E a \in DOMAIN ids : ids[a] = id
                    THEN /\ phase' = "collided"
                         /\ UNCHANGED <<recs, artifacts, recorders, ids, active>>
                    ELSE /\ recs' = Append(recs, NewRecorder(s))
                         /\ ids' = Append(ids, id)
                         /\ artifacts' = Len(recs')
                         /\ recorders' = [recorders EXCEPT ![s] = Len(recs')]
                         /\ phase' = "starting" /\ active' = s

\* The session_start handler of the routing extension: a decided session
\* reports its decision, or why it could not be restored.  Its events of the
\* "session" and "pending" kinds are left to hook.
session_start(ok) ==
  /\ phase = "starting" /\ Room
  /\ phase' = "run"
  /\ Set(IF ~ok THEN recordError(Current, active, FALSE)
         ELSE IF active \in decided THEN recordDecision(Current, active)
         ELSE Current)
  /\ UNCHANGED <<artifacts, recorders, runIds, counts, ids, active, fin, mark,
                 snapshot, runError, sessions, mishaps>>

\* The work of s that its shutdown cuts off.
Busy(s) == handler[s] # "idle" \/ coding # 0

\* session_shutdown of both extensions for new, resume and fork.  The input
\* handler runs on; Pi disposes the session, so the answer of a coding call
\* never reaches the recorder.
session_shutdown ==
  /\ phase = "run" /\ Room
  /\ Set(appendEvent(Current, "shutdown", active))
  /\ phase' = "closing" /\ active' = None
  /\ fin' = "closing" /\ mark' = Size(Current) + 1
  /\ stray' = IF coding # 0 THEN stray \cup {active} ELSE stray
  /\ coding' = 0
  /\ mishaps' = IF Busy(active) THEN mishaps \cup {"cut"} ELSE mishaps
  /\ UNCHANGED <<artifacts, recorders, runIds, counts, ids, snapshot, runError,
                 decided, handler, asking, calls>>

\* Interactive or scripted mode returns, or throws; the driver captures the
\* patch and finalizes.  A scripted prompt returns only when it is settled.
quit(error) ==
  /\ phase = "run"
  /\ phase' = "quitting" /\ active' = None
  /\ fin' = "patching" /\ runError' = error
  /\ coding' = 0
  /\ stray' = IF coding # 0 THEN stray \cup {active} ELSE stray
  /\ mishaps' = IF Busy(active) THEN mishaps \cup {"cut"} ELSE mishaps
  /\ UNCHANGED <<stores, mark, snapshot, decided, handler, asking, calls>>

\* The process is killed; the write in progress may leave half a line.
Kill(torn) ==
  /\ Faults /\ phase # "down"
  /\ phase' = "down" /\ active' = None
  /\ fin' = "no" /\ mark' = 0 /\ snapshot' = None
  /\ torn => Len(recs) > 0 /\ Current.queue # <<>>
  /\ recs' = IF torn THEN [recs EXCEPT ![artifacts].tail = TRUE] ELSE recs
  /\ handler' = [s \in Sessions |-> "idle"]
  /\ asking' = [s \in Sessions |-> 0]
  /\ coding' = 0 /\ stray' = {}
  /\ UNCHANGED <<artifacts, recorders, runIds, counts, ids, runError, decided,
                 calls, mishaps>>

-----------------------------------------------------------------------------
(* The queue of writes. *)

\* The next event is written and synced.
write(a) ==
  /\ Running /\ recs[a].queue # <<>>
  /\ recs' = [recs EXCEPT ![a].log = Append(@, Head(recs[a].queue)),
                          ![a].queue = Tail(@)]
  /\ UNCHANGED <<artifacts, recorders, runIds, counts, ids, driver, sessions,
                 mishaps>>

\* Mutant: a failed write does not reject the writes queued after it.
write_fails_skipped(a, torn) ==
  /\ Faults /\ Running /\ recs[a].queue # <<>>
  /\ recs' = [recs EXCEPT ![a].queue = Tail(@), ![a].writeError = TRUE]
  /\ UNCHANGED <<artifacts, recorders, runIds, counts, ids, driver, sessions,
                 mishaps>>

\* A write fails, perhaps half-way.  The rejected promise is what every later
\* write is chained to: the whole queue is rejected for good.
write_fails(a, torn) ==
  /\ Faults /\ Running /\ recs[a].queue # <<>>
  /\ recs' = [recs EXCEPT ![a] =
               Rejected([@ EXCEPT !.broken = TRUE, !.queue = <<>>,
                                  !.tail = torn],
                        {e.kind : e \in Range(recs[a].queue)})]
  /\ UNCHANGED <<artifacts, recorders, runIds, counts, ids, driver, sessions,
                 mishaps>>

-----------------------------------------------------------------------------
(* The routing controller: events reach the current recorder. *)

\* A model call is dispatched under the current attempt.
Dispatch(s) ==
  /\ Len(calls) < MaxCalls
  /\ calls' = Append(calls, [of |-> s, at |-> artifacts])
  /\ Set(appendEvent(Current, "start", s))

\* The input handler fails before it asks anyone: preflightAuth, or setModel in
\* a decided session.
input_refused(s) ==
  /\ phase = "run" /\ active = s /\ handler[s] = "idle" /\ Room
  /\ Set(recordError(Current, s, FALSE))
  /\ UNCHANGED <<artifacts, recorders, runIds, counts, ids, driver, sessions,
                 mishaps>>

\* The input handler of an undecided session asks the classifier ...
input_routed(s) ==
  /\ phase = "run" /\ active = s /\ s \notin decided /\ handler[s] = "idle"
  /\ Room /\ Dispatch(s)
  /\ handler' = [handler EXCEPT ![s] = "asking"]
  /\ asking' = [asking EXCEPT ![s] = Len(calls')]
  /\ UNCHANGED <<artifacts, recorders, runIds, counts, ids, driver, decided,
                 coding, stray, mishaps>>

\* ... or, in a fixed baseline, writes its decision at once.
input_fixed(s) ==
  /\ phase = "run" /\ active = s /\ s \notin decided /\ handler[s] = "idle"
  /\ handler' = [handler EXCEPT ![s] = "writing"]
  /\ UNCHANGED <<stores, driver, decided, asking, coding, stray, calls, mishaps>>

\* The classifier answered, with complete usage or without.
classifier_success(s, complete) ==
  /\ handler[s] = "asking" /\ Room
  /\ Set(recordUsage(Current, asking[s], s, complete))
  /\ handler' = [handler EXCEPT ![s] = "writing"]
  /\ asking' = [asking EXCEPT ![s] = 0]
  /\ UNCHANGED <<artifacts, recorders, runIds, counts, ids, driver, decided,
                 coding, stray, calls, mishaps>>

\* The classifier call failed, was aborted or hit its deadline.
classifier_error(s, limit) ==
  /\ handler[s] = "asking" /\ Room
  /\ Set(recordError(recordUsage(Current, asking[s], s, FALSE), s, limit))
  /\ handler' = [handler EXCEPT ![s] = "idle"]
  /\ asking' = [asking EXCEPT ![s] = 0]
  /\ UNCHANGED <<artifacts, recorders, runIds, counts, ids, driver, decided,
                 coding, stray, calls, mishaps>>

\* RoutingDecisionStore.write.
store_write(s) ==
  /\ Running /\ handler[s] = "writing"
  /\ decided' = decided \cup {s}
  /\ handler' = [handler EXCEPT ![s] = "written"]
  /\ UNCHANGED <<stores, driver, asking, coding, stray, calls, mishaps>>

\* The model is applied and the decision reported; late: the wall time is used
\* up by then.
input_persisted(s, late) ==
  /\ handler[s] = "written" /\ Room
  /\ LET r == recordDecision(Current, s)
     IN Set(IF late THEN recordError(r, s, TRUE) ELSE r)
  /\ handler' = [handler EXCEPT ![s] = "idle"]
  /\ UNCHANGED <<artifacts, recorders, runIds, counts, ids, driver, decided,
                 asking, coding, stray, calls, mishaps>>

\* The decision could not be written, or its model not be applied.
input_fails(s) ==
  /\ handler[s] \in {"writing", "written"} /\ Room
  /\ Set(recordError(Current, s, FALSE))
  /\ handler' = [handler EXCEPT ![s] = "idle"]
  /\ UNCHANGED <<artifacts, recorders, runIds, counts, ids, driver, decided,
                 asking, coding, stray, calls, mishaps>>

\* stopForLimit in the attached session: the turn limit or a timer.
stopForLimit ==
  /\ phase = "run" /\ Room
  /\ Set(recordError(Current, active, TRUE))
  /\ UNCHANGED <<artifacts, recorders, runIds, counts, ids, driver, sessions,
                 mishaps>>

\* The request timer of a session that was shut down fires.
stray_timer(s) ==
  /\ s \in stray /\ Room
  /\ Set(recordError(Current, s, TRUE))
  /\ stray' = stray \ {s}
  /\ UNCHANGED <<artifacts, recorders, runIds, counts, ids, driver, decided,
                 handler, asking, coding, calls, mishaps>>

-----------------------------------------------------------------------------
(* The recorder's own extension in the attached session. *)

\* agent-start, agent-settled, tool and compaction-start events.
hook ==
  /\ phase = "run" /\ active \in decided /\ Room
  /\ Set(appendEvent(Current, "plain", active))
  /\ UNCHANGED <<artifacts, recorders, runIds, counts, ids, driver, sessions,
                 mishaps>>

\* A tool event without a tool name or call identifier: the schema refuses it.
tool_refused ==
  /\ phase = "run" /\ active \in decided /\ Room
  /\ Set(refuseEvent(Current, "plain"))
  /\ UNCHANGED <<artifacts, recorders, runIds, counts, ids, driver, sessions,
                 mishaps>>

\* before_provider_request, for a coding or a compaction request.
before_provider_request ==
  /\ phase = "run" /\ active \in decided /\ coding = 0
  /\ handler[active] = "idle"
  /\ Room /\ Dispatch(active)
  /\ coding' = Len(calls')
  /\ UNCHANGED <<artifacts, recorders, runIds, counts, ids, driver, decided,
                 handler, asking, stray, mishaps>>

\* message_end or session_compact.  An answer that stopped early leaves the usage
\* incomplete, with an error message or without; so does the answer that Pi makes
\* up for a request that was blocked.
message_end(complete, message) ==
  /\ phase = "run" /\ active \in decided /\ Room
  /\ coding = 0 => handler[active] = "idle" /\ ~complete
  /\ message => ~complete
  /\ LET r == recordUsage(Current, coding, active, complete)
     IN Set([r EXCEPT !.status = IF message /\ @ = "completed" THEN "error"
                                 ELSE @])
  /\ coding' = 0
  /\ UNCHANGED <<artifacts, recorders, runIds, counts, ids, driver, decided,
                 handler, asking, stray, calls, mishaps>>

\* session_compact_failed, for a compaction whose request was dispatched or one
\* that was cancelled or blocked before: a missing call, an error event, but no
\* lastError.
session_compact_failed ==
  /\ phase = "run" /\ Room
  /\ Set(appendEvent([Current EXCEPT !.missing = @ \cup {coding}],
                     "compaction-failed", active))
  /\ coding' = 0
  /\ UNCHANGED <<artifacts, recorders, runIds, counts, ids, driver, decided,
                 handler, asking, stray, calls, mishaps>>

\* recordAssistantMessage throws: the answer has another model's identity, or
\* normalizeUsage refuses its token counts.  The run is aborted.
message_refused(mismatch) ==
  /\ phase = "run" /\ active \in decided
  /\ coding = 0 => handler[active] = "idle" /\ mismatch
  /\ Set([Current EXCEPT !.status = IF mismatch /\ @ = "completed" THEN "error"
                                    ELSE @])
  /\ coding' = 0
  /\ mishaps' = IF coding # 0 THEN mishaps \cup {"refused"} ELSE mishaps
  /\ UNCHANGED <<artifacts, recorders, runIds, counts, ids, driver, decided,
                 handler, asking, stray, calls>>

-----------------------------------------------------------------------------
(* Finalization of the current attempt: finalize and finalizeAttempt. *)

\* It is over: Pi goes on to the next session, or the driver disposes.
Over(ok) ==
  /\ fin' = "no" /\ mark' = 0 /\ snapshot' = None
  /\ phase' = IF phase = "closing" THEN "switch"
              ELSE IF ok /\ ~runError THEN "disposing" ELSE "error"

\* flush() returns.
Flushed(r) == ~r.broken /\ ~r.writeError

\* The step that fin is at throws: a rejected write, or a patch or run.json
\* that cannot be written.
finalize_throws ==
  /\ \/ fin \in {"closing", "flushing"} /\ Settled(Current, mark)
        /\ ~Flushed(Current)
     \/ fin \in {"draining", "finalizing"} /\ Current.broken
     \/ Faults /\ fin = "patching"
     \/ Faults /\ fin = "finalizing" /\ Settled(Current, mark)
  /\ Over(FALSE)
  /\ UNCHANGED <<stores, active, runError, sessions, mishaps>>

\* session_shutdown: the append and the flush that follows it.
close_flushed ==
  /\ fin = "closing" /\ Settled(Current, mark) /\ Flushed(Current)
  /\ fin' = "patching"
  /\ UNCHANGED <<stores, phase, active, mark, snapshot, runError, sessions,
                 mishaps>>

\* captureWorkspacePatch, then finalize(runError) up to its flush.
capture_patch ==
  /\ fin = "patching"
  /\ LET r == IF runError THEN appendEvent([Current EXCEPT !.status =
                                  IF @ = "limit" THEN @ ELSE "error"],
                                 "failure", Current.of)
              ELSE Current
     IN Set(r) /\ mark' = Size(r)
  /\ fin' = "flushing"
  /\ UNCHANGED <<artifacts, recorders, runIds, counts, ids, phase, active,
                 snapshot, runError, sessions, mishaps>>

\* The flush is over: decision, usage and status are read, and finalizeAttempt
\* awaits what has been queued meanwhile.
summarize ==
  /\ fin = "flushing" /\ Settled(Current, mark) /\ Flushed(Current)
  /\ snapshot' = FinalizeInput(Current)
  /\ fin' = "draining" /\ mark' = Size(Current)
  /\ UNCHANGED <<stores, phase, active, runError, sessions, mishaps>>

\* The finalization event.  The decision of the input is the stored one: a
\* recorder with two has failed its flush.
append_finalization ==
  /\ fin = "draining" /\ Settled(Current, mark) /\ ~Current.broken
  /\ Set(appendEvent(Current, "finalization", Current.of))
  /\ fin' = "finalizing" /\ mark' = Size(Current) + 1
  /\ UNCHANGED <<artifacts, recorders, runIds, counts, ids, phase, active,
                 snapshot, runError, sessions, mishaps>>

\* Mutant: the finalization event is not awaited.
write_result_early ==
  /\ fin = "finalizing"
  /\ Set([Current EXCEPT !.run = snapshot])
  /\ fin' = "renamed"
  /\ UNCHANGED <<artifacts, recorders, runIds, counts, ids, phase, active,
                 mark, snapshot, runError, sessions, mishaps>>

\* durableWrite renames run.json into place.
write_result ==
  /\ fin = "finalizing" /\ Settled(Current, mark) /\ ~Current.broken
  /\ Set([Current EXCEPT !.run = snapshot])
  /\ fin' = "renamed"
  /\ UNCHANGED <<artifacts, recorders, runIds, counts, ids, phase, active,
                 mark, snapshot, runError, sessions, mishaps>>

\* finalizeAttempt returns; only now are further events refused.
set_finalized ==
  /\ fin = "renamed"
  /\ Set([Current EXCEPT !.finalized = TRUE])
  /\ Over(TRUE)
  /\ UNCHANGED <<artifacts, recorders, runIds, counts, ids, active, runError,
                 sessions, mishaps>>

\* Mutant: only the current recorder is flushed.
Disposed_current == {artifacts}

\* The recorders that dispose() flushes.
Disposed == {recorders[s] : s \in Sessions} \ {0}

\* sessionRuntime.dispose: the process succeeds if every flush returns.
dispose ==
  /\ phase = "disposing"
  /\ \A a \in Disposed : Settled(recs[a], Size(recs[a]))
  /\ phase' = IF \E a \in Disposed : recs[a].writeError THEN "error" ELSE "ok"
  /\ UNCHANGED <<stores, active, fin, mark, snapshot, runError, sessions,
                 mishaps>>

-----------------------------------------------------------------------------
Init ==
  /\ recs = <<>> /\ artifacts = 0
  /\ recorders = [s \in Sessions |-> 0]
  /\ runIds = [s \in Sessions |-> None]
  /\ counts = [s \in Sessions |-> 0]
  /\ ids = <<>>
  /\ phase = "switch" /\ active = None
  /\ fin = "no" /\ mark = 0 /\ snapshot = None /\ runError = FALSE
  /\ decided \in SUBSET Sessions
  /\ handler = [s \in Sessions |-> "idle"]
  /\ asking = [s \in Sessions |-> 0]
  /\ coding = 0 /\ stray = {} /\ calls = <<>> /\ mishaps = {}

Finalize ==
  \/ close_flushed \/ capture_patch \/ summarize \/ append_finalization
  \/ write_result \/ set_finalized \/ finalize_throws \/ dispose

Handler(s) ==
  \/ input_refused(s) \/ input_routed(s) \/ input_fixed(s) \/ store_write(s)
  \/ input_fails(s) \/ stray_timer(s)
  \/ \E b \in BOOLEAN :
       classifier_success(s, b) \/ classifier_error(s, b) \/ input_persisted(s, b)

Extension ==
  \/ hook \/ tool_refused \/ before_provider_request \/ stopForLimit
  \/ session_compact_failed
  \/ \E b \in BOOLEAN : message_refused(b) \/ \E m \in BOOLEAN : message_end(b, m)

Process ==
  \/ session_shutdown
  \/ \E s \in Sessions : factory(s)
  \/ \E b \in BOOLEAN : session_start(b) \/ quit(b) \/ Kill(b)

Writes ==
  \E a \in DOMAIN recs : write(a) \/ \E torn \in BOOLEAN : write_fails(a, torn)

Next ==
  Process \/ Writes \/ Extension \/ Finalize \/ \E s \in Sessions : Handler(s)

Spec == Init /\ [][Next]_vars

-----------------------------------------------------------------------------
(* Properties. *)

\* What readAttempt asks of the whole lines: numbers from 1 without a gap.
Readable(log) == \A i \in DOMAIN log : log[i].seq = i

\* Whatever write fails and whenever the process is killed, readAttempt accepts
\* the event log, unless an event's payload was refused after its number had been
\* taken; even then no number is used twice and the order is kept.
LogReadable ==
  \A a \in DOMAIN recs :
    /\ ~recs[a].skipped => Readable(recs[a].log)
    /\ \A i, j \in DOMAIN recs[a].log :
         i < j => recs[a].log[i].seq < recs[a].log[j].seq

\* readAttempt accepts every log.  It does not hold (README, 5).
LogAlwaysReadable == \A a \in DOMAIN recs : Readable(recs[a].log)

\* The positions of the events of some kinds in the log of an attempt.
Logged(r, kinds) == {i \in DOMAIN r.log : r.log[i].kind \in kinds}

\* run.json never claims more than the log holds: its finalization event is
\* there, after the decision it names and, for each of its calls, the event of
\* the call's end or of the compaction that failed.
ResultIsBacked ==
  \A a \in DOMAIN recs :
    LET r == recs[a] IN
    r.run # None =>
      \E k \in Logged(r, {"finalization"}) :
        /\ r.run.decision # None =>
             \E i \in Logged(r, {"decision"}) :
               i < k /\ r.log[i].of = r.run.decision
        /\ Cardinality({i \in Logged(r, Ends) : i < k}) >= Cardinality(r.run.calls)

\* As long as no work was cut off by a shutdown, the log and the result of an
\* attempt speak of its own session only, a run whose log has an error other than
\* a failed compaction is not reported as completed, and one with a failed
\* compaction does not claim to know its cost.
EvidenceIsOwn ==
  "cut" \notin mishaps =>
    \A a \in DOMAIN recs :
      LET r == recs[a] IN
      /\ \A i \in DOMAIN r.log : r.log[i].of = r.of
      /\ r.run # None =>
           /\ r.run.decision \in {None, r.of}
           /\ r.run.status = "completed" => Logged(r, {"error"}) = {}
           /\ r.run.known => Logged(r, {"compaction-failed"}) = {}

\* An attempt accounts for its own calls only, and its cost is known only if
\* every call dispatched under it is accounted for.
OwnAccounting(a) ==
  recs[a].run # None =>
    /\ \A c \in recs[a].run.calls \ {0} : calls[c].of = recs[a].of
    /\ recs[a].run.known =>
         \A c \in DOMAIN calls : calls[c].at = a => c \in recs[a].run.calls

\* The accounting holds through failed calls, failed writes, switches and
\* resumes, as long as no work was cut off and no answer refused.
AccountingIsOwn == mishaps = {} => \A a \in DOMAIN recs : OwnAccounting(a)

\* docs/architecture.md:121: every physical attempt retains its own accounting,
\* also when a session is left with a call under way.  It does not hold (README,
\* 5).
AccountingThroughCuts ==
  "refused" \notin mishaps => \A a \in DOMAIN recs : OwnAccounting(a)

\* docs/architecture.md:123: a missing dispatched response is unknown, also when
\* the recorder refuses the response it got.  It does not hold (README, 5).
AccountingThroughRefusals ==
  "cut" \notin mishaps => \A a \in DOMAIN recs : OwnAccounting(a)

\* A process that ends well has the result of its last attempt, and no attempt
\* has lost an event of its session's work that the schema had accepted.
SuccessIsWritten ==
  phase = "ok" /\ "cut" \notin mishaps =>
    /\ Current.run # None
    /\ \A a \in DOMAIN recs : recs[a].lost \subseteq Awaited

\* A session that is opened gets a recorder: its run ID is not one of an attempt
\* that exists.  It does not hold (README, 5).
RunIdIsFresh == phase # "collided"

\* The write that an await is chained to has settled, or is in the queue.
Coming(r, n) == Settled(r, n) \/ n <= Size(r)

\* Pi awaits the shutdown handler and the driver its finalization: neither ever
\* waits for what nothing will bring, whatever writes failed before and whatever
\* events arrive late.
FinalizationProceeds ==
  /\ fin # "no" => Running /\ artifacts # 0
  /\ fin \in {"closing", "flushing", "draining", "finalizing"} =>
       Coming(Current, mark)
=============================================================================
