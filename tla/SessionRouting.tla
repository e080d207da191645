--------------------------- MODULE SessionRouting ---------------------------
(***************************************************************************)
(* The routing extension of one project: SessionRoutingController, its     *)
(* durable RoutingDecisionStore and the closure that extension() installs  *)
(* for the attached Pi session (src/pi/session-routing.ts), driven by the  *)
(* session events of Pi and by the lifecycle of the agent process          *)
(* (src/container/session-runtime.ts).                                     *)
(*                                                                         *)
(* One agent process runs at a time.  It attaches one Pi session at a time *)
(* and may switch to another, be killed at any step, and be restarted with *)
(* another mode or configuration.  Handlers are cut at their awaits: every *)
(* action is a piece of code that runs without yielding.  An input handler *)
(* that is awaiting when its session is shut down runs on as an orphan:    *)
(* its own closure is garbage, but the decision store, the session file    *)
(* and the controller's error fields are still within its reach.           *)
(*                                                                         *)
(* A decision is a record of what the guards compare: its identity, the    *)
(* selected tier, and the mode and configuration (fingerprint and auth     *)
(* profile) it was made under.                                             *)
(***************************************************************************)
EXTENDS Naturals, FiniteSets

CONSTANTS
  Sessions,      \* Pi session identifiers
  Configs,       \* (fingerprint, auth profile) pairs a process may run with
  Modes,         \* LAB_MODE values a process may run with
  MaxTurns,      \* config.execution.maxAgentTurns
  MaxDecisions,  \* bound: decisions created in a behaviour
  Steering,      \* inputs may arrive during a run (interactive mode)
  None           \* JavaScript's null

Tiers    == {"weak", "strong"}
Models   == Tiers \cup {"classifier"}
Decision == [id : Nat, tier : Tiers, mode : Modes, config : Configs]
Process  == [mode : Modes, config : Configs]

ASSUME ConstantsAssumption ==
  /\ Modes \subseteq {"routed", "weak-only", "strong-only"}
  /\ MaxTurns \in Nat
  /\ MaxDecisions \in Nat
  /\ Steering \in BOOLEAN
  /\ None \notin Sessions
  /\ None \notin Decision
  /\ None \notin Process

VARIABLES
  \* Durable: the project-state volume.
  store,      \* routing-decisions/<session>.json, or None
  own,        \* the session's own decisions among its custom entries
  coded,      \* the session file holds messages of the session's own runs
  inherited,  \* the session file was forked with messages of its parent
  used,       \* session identifiers handed out
  nextId,     \* decision identities handed out
  \* The agent process and its controller.
  proc,       \* mode and configuration of the process, or None
  active,     \* the attached session, or None
  lastError,  \* controller.lastError is set
  limitError, \* the status of controller.limitError, or "none"
  \* The input handler of each session.
  pc, pending, orphans,
  \* The extension closure of the attached session.
  current, blocked, model, repairing, runTimer, reqTimer, turns,
  strayTimer, \* a request timer armed by a session that was shut down
  \* Pi's agent loop and compaction in the attached session.
  agent, compact,
  \* Observations.
  outcome,    \* what the last input handler answered
  requests,   \* coding requests since the last accepted input
  calls       \* <<session, model>> of every request sent to a provider

durable   == <<store, own, coded, inherited, used, nextId>>
control   == <<proc, active, lastError, limitError>>
handlers  == <<pc, pending, orphans>>
closure   == <<current, blocked, model, repairing, runTimer, reqTimer, turns,
               strayTimer>>
loop      == <<agent, compact>>
observed  == <<outcome, requests, calls>>
vars == <<durable, control, handlers, closure, loop, observed>>

Creating  == {"create", "resolving", "writing", "written"}
Pcs       == Creating \cup {"idle", "apply", "restore"}
RunStates == {"starting", "between", "turn", "waiting", "tool"}

\* Which wall-time timer is armed: two names tell a timer from its replacement.
Timers == {"first", "second"}

FlagsOK ==
  /\ lastError \in BOOLEAN
  /\ blocked \in BOOLEAN
  /\ repairing \in BOOLEAN
  /\ reqTimer \in BOOLEAN
  /\ strayTimer \in BOOLEAN

TypesOK ==
  /\ store \in [Sessions -> Decision \cup {None}]
  /\ own \in [Sessions -> SUBSET Decision]
  /\ coded \in [Sessions -> BOOLEAN]
  /\ inherited \in [Sessions -> BOOLEAN]
  /\ used \in SUBSET Sessions
  /\ nextId \in Nat
  /\ proc \in Process \cup {None}
  /\ active \in Sessions \cup {None}
  /\ limitError \in {"none", "timeout", "budget-exhausted"}
  /\ pc \in [Sessions -> Pcs]
  /\ pending \in [Sessions -> Decision \cup {None}]
  /\ orphans \in SUBSET Sessions
  /\ current \in Decision \cup {None}
  /\ model \in Models
  /\ turns \in Nat
  /\ runTimer \in Timers \cup {"off"}
  /\ agent \in RunStates \cup {"idle", "settling"}
  /\ compact \in {"no", "requested", "waiting"}
  /\ outcome \in {"none", "continue", "handled"}
  /\ requests \in Nat
  /\ calls \in SUBSET (Sessions \X Models)

\* Every variable has its type.
TypeOK == FlagsOK /\ TypesOK

-----------------------------------------------------------------------------
(* Helpers. *)

hasCodingHistory(s) == coded[s] \/ inherited[s]

\* Mutant: one decision slot shared by the sessions of the process.
Mine_shared(s) == active # None /\ (current # None \/ pc[s] = "written")

\* The running input handler of s belongs to the attached closure.
Mine(s) == active = s /\ s \notin orphans

\* this.limitError ??= new ExecutionLimitError(status, ...)
FirstLimit(status) == IF limitError = "none" THEN status ELSE limitError

\* context.abort(): a run in progress stops issuing requests and settles.
Aborted == IF agent \in RunStates THEN "settling" ELSE agent

\* Mutant: the limit is recorded but the run goes on.
stopForLimit_noAbort(status) ==
  /\ limitError' = FirstLimit(status)
  /\ lastError' = TRUE
  /\ UNCHANGED agent

stopForLimit(status) ==
  /\ limitError' = FirstLimit(status)
  /\ lastError' = TRUE
  /\ agent' = Aborted

\* Mutant: no timer is armed.
startRequestTimer_missing == UNCHANGED reqTimer

startRequestTimer == reqTimer' = TRUE

\* Mutant: the model of the request is not compared with the lock.
RequestAllowed_unlocked == limitError = "none" /\ current # None

\* before_provider_request lets the request through.
RequestAllowed ==
  /\ limitError = "none"
  /\ current # None
  /\ model = current.tier

\* A fresh Pi session with its extension closure; d is its decision.
FreshClosure(d, error, m) ==
  /\ current' = d /\ blocked' = error /\ model' = m
  /\ repairing' = FALSE /\ runTimer' = "off" /\ reqTimer' = FALSE
  /\ turns' = 0 /\ agent' = "idle" /\ compact' = "no"
  /\ outcome' = "none" /\ requests' = 0

-----------------------------------------------------------------------------
(* Starting, switching and losing sessions. *)

\* The throws of load().
loadError(s, reason, p) ==
  \/ Cardinality(own[s]) > 1
  \/ /\ reason \in {"new", "fork"}
     /\ store[s] # None
  \/ /\ reason \in {"startup", "resume"}
     /\ store[s] = None
     /\ own[s] # {} \/ hasCodingHistory(s)
  \/ /\ reason \in {"startup", "resume"}
     /\ store[s] # None
     /\ \/ store[s].config # p.config
        \/ store[s].mode # p.mode
        \/ own[s] = {} /\ hasCodingHistory(s)
        \/ \E d \in own[s] : d # store[s]

\* What load() returns when it does not throw.
loaded(s, reason) == IF reason \in {"new", "fork"} THEN None ELSE store[s]

\* The session_start handler.  restored: preflightAuth and setModel succeed.
session_start(s, reason, p, restored, errorBefore) ==
  LET failed  == loadError(s, reason, p)
      d       == IF failed THEN None ELSE loaded(s, reason)
      applied == d # None /\ restored
  IN /\ active' = s
     /\ used' = used \cup {s}
     /\ FreshClosure(d, failed, IF applied THEN d.tier ELSE "strong")
     /\ lastError' = (errorBefore \/ failed \/ (d # None /\ ~restored))

\* The session file that Pi lists for a resume.
FileExists(s) == own[s] # {} \/ hasCodingHistory(s)

\* createContainerRuntime: a new process opens a fresh session, or the session
\* of --resume from its file or, without one, from its stored decision.
StartProcess(s, reason, p, restored) ==
  /\ proc = None
  /\ \/ reason = "startup" /\ s \notin used
     \/ reason = "resume" /\ s \in used /\ (FileExists(s) \/ store[s] # None)
  /\ proc' = p
  /\ session_start(s, reason, p, restored, FALSE)
  /\ UNCHANGED <<store, own, coded, inherited, nextId, limitError, handlers,
                 strayTimer, calls>>

\* Pi's newSession, fork and switchSession, once the old session is shut down.
\* A fork with messages copies those of a session that holds some.  Model
\* application takes only local calls, so a handler that was applying its
\* model is over before the user can pick its session again.
SwitchSession(s, reason, copied, restored) ==
  /\ proc # None /\ active = None
  /\ \/ reason = "new" /\ s \notin used /\ ~copied
     \/ /\ reason = "fork" /\ s \notin used
        /\ copied => \E p \in used : hasCodingHistory(p)
     \/ /\ reason = "resume" /\ s \in used /\ FileExists(s) /\ ~copied
        /\ pc[s] \notin {"apply", "restore"}
  /\ inherited' = [inherited EXCEPT ![s] = @ \/ copied]
  /\ session_start(s, reason, proc, restored, lastError)
  /\ UNCHANGED <<store, own, coded, nextId, proc, limitError, handlers,
                 strayTimer, calls>>

\* The session_shutdown handler; Pi then disposes the session, so none of its
\* events follow.  The run timer is cleared, the request timer is not.
session_shutdown ==
  /\ active # None
  /\ active' = None
  /\ orphans' = IF pc[active] = "idle" THEN orphans ELSE orphans \cup {active}
  /\ strayTimer' = (strayTimer \/ reqTimer)
  /\ FreshClosure(None, FALSE, "strong")
  /\ UNCHANGED <<durable, proc, lastError, limitError, pc, pending, calls>>

\* The process ends or is killed.  A decision file is fsynced and renamed into
\* place; the session file is an append-only log that may lose a suffix.
ProcessEnds(kept) ==
  /\ proc # None
  /\ proc' = None /\ active' = None
  /\ lastError' = FALSE /\ limitError' = "none" /\ strayTimer' = FALSE
  /\ own' = [s \in Sessions |-> IF kept[s] = "none" THEN {} ELSE own[s]]
  /\ coded' = [s \in Sessions |-> coded[s] /\ kept[s] = "all"]
  /\ pc' = [s \in Sessions |-> "idle"]
  /\ pending' = [s \in Sessions |-> None]
  /\ orphans' = {}
  /\ FreshClosure(None, FALSE, "strong")
  /\ UNCHANGED <<store, inherited, used, nextId, calls>>

-----------------------------------------------------------------------------
(* The input handler. *)

\* An input to a session whose start-up failed is swallowed.
BlockedInput ==
  /\ active # None /\ blocked
  /\ outcome' = "handled"
  /\ UNCHANGED <<durable, control, handlers, closure, loop, requests, calls>>

\* Mutant: a session whose start-up failed accepts inputs.
AcceptsInput_always == active # None

\* The startupError check.
AcceptsInput == active # None /\ ~blocked

\* clearTimeout(runTimer), then a new setTimeout with the whole wall time.
rearmRunTimer == runTimer' = IF runTimer = "first" THEN "second" ELSE "first"

\* Up to the first await: reset the errors, replace the run timer.  Pi hands
\* over one input at a time; while a run is in progress only an interactive
\* session can, and during compaction the text waits in the editor.
input(s) ==
  /\ active = s /\ AcceptsInput /\ pc[s] = "idle" /\ compact = "no"
  /\ Steering \/ agent = "idle"
  /\ lastError' = FALSE
  /\ limitError' = "none"
  /\ rearmRunTimer
  /\ outcome' = "none"
  /\ pc' = [pc EXCEPT ![s] = IF current = None THEN "create" ELSE "restore"]
  /\ UNCHANGED <<durable, proc, active, pending, orphans, current, blocked,
                 model, repairing, reqTimer, turns, strayTimer, loop, requests,
                 calls>>

\* The decision record built by create().
NewDecision(tier) ==
  [id |-> nextId, tier |-> tier, mode |-> proc.mode, config |-> proc.config]

\* Mutant: the custom entry is appended before the decision is stored.
DecisionReady_entryFirst(s, tier) ==
  /\ nextId < MaxDecisions
  /\ pending' = [pending EXCEPT ![s] = NewDecision(tier)]
  /\ own' = [own EXCEPT ![s] = @ \cup {NewDecision(tier)}]
  /\ nextId' = nextId + 1
  /\ pc' = [pc EXCEPT ![s] = "writing"]
  /\ UNCHANGED <<store, coded, inherited, used, control, orphans, closure,
                 loop, observed>>

\* Mutant: the strong tier is stored as a fallback until the decision is written.
DecisionReady_fallback(s, tier) ==
  /\ nextId < MaxDecisions
  /\ pending' = [pending EXCEPT ![s] = NewDecision(tier)]
  /\ store' = [store EXCEPT ![s] = NewDecision("strong")]
  /\ nextId' = nextId + 1
  /\ pc' = [pc EXCEPT ![s] = "writing"]
  /\ UNCHANGED <<own, coded, inherited, used, control, orphans, closure, loop,
                 observed>>

\* create() has its tier and starts to write the decision.
DecisionReady(s, tier) ==
  /\ nextId < MaxDecisions
  /\ pending' = [pending EXCEPT ![s] = NewDecision(tier)]
  /\ nextId' = nextId + 1
  /\ pc' = [pc EXCEPT ![s] = "writing"]
  /\ UNCHANGED <<store, own, coded, inherited, used, control, orphans, closure,
                 loop, observed>>



\* create() in a fixed baseline, after preflightAuth.
create_fixed(s) ==
  /\ pc[s] = "create" /\ proc.mode # "routed"
  /\ DecisionReady(s, IF proc.mode = "weak-only" THEN "weak" ELSE "strong")

\* create() in routed mode asks the bridge.
create_routed(s) ==
  /\ pc[s] = "create" /\ proc.mode = "routed"
  /\ pc' = [pc EXCEPT ![s] = "resolving"]
  /\ UNCHANGED <<durable, control, pending, orphans, closure, loop, observed>>

\* The bridge answered with a tier.
create_resolved(s, tier) ==
  /\ pc[s] = "resolving"
  /\ DecisionReady(s, tier)

\* Mutant: the write is not awaited, and fails.
store_write_lost(s) ==
  /\ pc[s] = "writing"
  /\ pc' = [pc EXCEPT ![s] = "written"]
  /\ UNCHANGED <<durable, control, pending, orphans, closure, loop, observed>>

\* RoutingDecisionStore.write: the rename makes the decision durable.
store_write(s) ==
  /\ pc[s] = "writing"
  /\ store' = [store EXCEPT ![s] = pending[s]]
  /\ pc' = [pc EXCEPT ![s] = "written"]
  /\ UNCHANGED <<own, coded, inherited, used, nextId, control, pending,
                 orphans, closure, loop, observed>>

\* current = await create(); pi.appendEntry(current).
input_created(s) ==
  /\ pc[s] = "written" /\ Mine(s)
  /\ current' = pending[s]
  /\ own' = [own EXCEPT ![s] = @ \cup {pending[s]}]
  /\ pending' = [pending EXCEPT ![s] = None]
  /\ pc' = [pc EXCEPT ![s] = "apply"]
  /\ UNCHANGED <<store, coded, inherited, used, nextId, control, orphans,
                 blocked, model, repairing, runTimer, reqTimer, turns,
                 strayTimer, loop, observed>>

\* applySelectedModel succeeded and the wall time is not used up: continue.
\* Pi starts a run, or queues the text for the run in progress.
input_continue(s) ==
  /\ pc[s] \in {"apply", "restore"} /\ Mine(s)
  /\ model' = current.tier
  /\ turns' = 0
  /\ requests' = 0
  /\ outcome' = "continue"
  /\ pc' = [pc EXCEPT ![s] = "idle"]
  /\ agent' = IF agent = "idle" THEN "starting" ELSE agent
  /\ UNCHANGED <<durable, control, pending, orphans, current, blocked,
                 repairing, runTimer, reqTimer, strayTimer, compact, calls>>

\* Mutant: the catch block does not record its error.
input_catch_quiet(s) ==
  /\ UNCHANGED lastError
  /\ runTimer' = IF Mine(s) THEN "off" ELSE runTimer
  /\ outcome' = IF Mine(s) THEN "handled" ELSE outcome
  /\ pending' = [pending EXCEPT ![s] = None]
  /\ pc' = [pc EXCEPT ![s] = "idle"]
  /\ orphans' = orphans \ {s}

\* The catch block; the closure is touched only while it is the attached one.
input_catch(s) ==
  /\ lastError' = TRUE
  /\ runTimer' = IF Mine(s) THEN "off" ELSE runTimer
  /\ outcome' = IF Mine(s) THEN "handled" ELSE outcome
  /\ pending' = [pending EXCEPT ![s] = None]
  /\ pc' = [pc EXCEPT ![s] = "idle"]
  /\ orphans' = orphans \ {s}

\* Authentication, the bridge, the decision write or setModel failed.
input_fail(s) ==
  /\ \/ pc[s] \in {"create", "resolving", "writing"}
     \/ pc[s] \in {"apply", "restore"} /\ Mine(s)
  /\ input_catch(s)
  /\ UNCHANGED <<durable, proc, active, limitError, current, blocked, model,
                 repairing, reqTimer, turns, strayTimer, loop, requests, calls>>

\* The classifier request hit its own deadline: an ExecutionLimitError.
input_limit(s) ==
  /\ pc[s] = "resolving"
  /\ input_catch(s)
  /\ limitError' = FirstLimit("timeout")
  /\ agent' = IF Mine(s) THEN Aborted ELSE agent
  /\ UNCHANGED <<durable, proc, active, current, blocked, model, repairing,
                 reqTimer, turns, strayTimer, compact, requests, calls>>

\* Routing used up the wall time: the model is applied, the input is refused.
input_late(s) ==
  /\ pc[s] \in {"apply", "restore"} /\ Mine(s)
  /\ model' = current.tier
  /\ input_catch(s)
  /\ limitError' = FirstLimit("timeout")
  /\ agent' = Aborted
  /\ UNCHANGED <<durable, proc, active, current, blocked, repairing, reqTimer,
                 turns, strayTimer, compact, requests, calls>>

\* The rest of the handler in a session that was shut down: appendEntry may
\* still reach the session file, and any of the handler's endings may follow.
orphan_ends(s, appended, ending) ==
  /\ s \in orphans /\ pc[s] \in {"written", "apply", "restore"}
  /\ own' = [own EXCEPT ![s] =
               IF appended /\ pc[s] = "written" THEN @ \cup {pending[s]} ELSE @]
  /\ lastError' = (lastError \/ ending # "continue")
  /\ limitError' = IF ending = "late" THEN FirstLimit("timeout") ELSE limitError
  /\ pending' = [pending EXCEPT ![s] = None]
  /\ pc' = [pc EXCEPT ![s] = "idle"]
  /\ orphans' = orphans \ {s}
  /\ UNCHANGED <<store, coded, inherited, used, nextId, proc, active, closure,
                 loop, observed>>

-----------------------------------------------------------------------------
(* Timers. *)

\* The session wall-time timer t.
RunTimerFires(t) ==
  /\ runTimer = t
  /\ runTimer' = "off"
  /\ stopForLimit("timeout")
  /\ UNCHANGED <<durable, proc, active, handlers, current, blocked, model,
                 repairing, reqTimer, turns, strayTimer, compact, observed>>

\* The timer of a coding or compaction request of the attached session.
RequestTimerFires ==
  /\ reqTimer
  /\ reqTimer' = FALSE
  /\ stopForLimit("timeout")
  /\ UNCHANGED <<durable, proc, active, handlers, current, blocked, model,
                 repairing, runTimer, turns, strayTimer, compact, observed>>

\* A request timer that outlived its session.
StrayTimerFires ==
  /\ strayTimer
  /\ strayTimer' = FALSE
  /\ limitError' = FirstLimit("timeout")
  /\ lastError' = TRUE
  /\ UNCHANGED <<durable, proc, active, handlers, current, blocked, model,
                 repairing, runTimer, reqTimer, turns, loop, observed>>

-----------------------------------------------------------------------------
(* Pi's agent loop, as the extension's handlers see it. *)

\* before_agent_start; then the user message enters the session file.
before_agent_start ==
  /\ agent = "starting" /\ compact = "no"
  /\ agent' = IF current = None THEN "settling" ELSE "between"
  /\ lastError' = (lastError \/ current = None)
  /\ coded' = [coded EXCEPT ![active] = @ \/ current # None]
  /\ UNCHANGED <<store, own, inherited, used, nextId, proc, active, limitError,
                 handlers, closure, compact, observed>>

\* Mutant: the limit is compared with the turns before this one.
OverBudget_late == turns > MaxTurns

\* turnCount, once incremented, exceeds maxAgentTurns.
OverBudget == turns + 1 > MaxTurns

\* turnCount saturates one above the limit: from there on nothing changes.
turn_start ==
  /\ agent = "between"
  /\ turns' = IF turns > MaxTurns THEN turns ELSE turns + 1
  /\ \/ /\ OverBudget
        /\ stopForLimit("budget-exhausted")
        /\ UNCHANGED reqTimer
     \/ /\ ~OverBudget
        /\ startRequestTimer
        /\ agent' = "turn"
        /\ UNCHANGED <<lastError, limitError>>
  /\ UNCHANGED <<durable, proc, active, handlers, current, blocked, model,
                 repairing, runTimer, strayTimer, compact, observed>>

\* before_provider_request of a coding turn; its throw fails the run.
before_provider_request ==
  /\ agent = "turn"
  /\ \/ /\ RequestAllowed
        /\ calls' = calls \cup {<<active, model>>}
        /\ requests' = requests + 1
        /\ agent' = "waiting"
     \/ /\ ~RequestAllowed
        /\ agent' = "settling"
        /\ UNCHANGED <<calls, requests>>
  /\ UNCHANGED <<durable, control, handlers, closure, compact, outcome>>

\* message_end of the assistant message: tool calls follow, or the end.
message_end(tools) ==
  /\ agent = "waiting"
  /\ reqTimer' = FALSE
  /\ agent' = IF tools THEN "tool" ELSE "settling"
  /\ UNCHANGED <<durable, control, handlers, current, blocked, model,
                 repairing, runTimer, turns, strayTimer, compact, observed>>

\* turn_end, when the tools are done.
turn_end ==
  /\ agent = "tool"
  /\ reqTimer' = FALSE
  /\ agent' = "between"
  /\ UNCHANGED <<durable, control, handlers, current, blocked, model,
                 repairing, runTimer, turns, strayTimer, compact, observed>>

agent_settled ==
  /\ agent = "settling" /\ compact = "no"
  /\ agent' = "idle"
  /\ reqTimer' = FALSE
  /\ runTimer' = "off"
  /\ UNCHANGED <<durable, control, handlers, current, blocked, model,
                 repairing, turns, strayTimer, compact, observed>>

\* session_before_compact restores the model, or cancels the compaction.
session_before_compact(restored) ==
  /\ active # None /\ compact = "no"
  /\ agent \in {"idle", "starting", "settling"}
  /\ ~blocked /\ current # None
  /\ \/ /\ restored
        /\ model' = current.tier
        /\ startRequestTimer
        /\ compact' = "requested"
        /\ UNCHANGED lastError
     \/ /\ ~restored
        /\ lastError' = TRUE
        /\ UNCHANGED <<model, reqTimer, compact>>
  /\ UNCHANGED <<durable, proc, active, limitError, handlers, current, blocked,
                 repairing, runTimer, turns, strayTimer, agent, observed>>

\* The summarisation request; a refused one ends in session_compact_failed.
compact_request ==
  /\ compact = "requested"
  /\ \/ /\ RequestAllowed
        /\ calls' = calls \cup {<<active, model>>}
        /\ compact' = "waiting"
        /\ UNCHANGED reqTimer
     \/ /\ ~RequestAllowed
        /\ compact' = "no"
        /\ reqTimer' = FALSE
        /\ UNCHANGED calls
  /\ UNCHANGED <<durable, control, handlers, current, blocked, model,
                 repairing, runTimer, turns, strayTimer, agent, outcome,
                 requests>>

\* session_compact or session_compact_failed.  After a context overflow Pi
\* carries on with the run that overflowed.
session_compact(retry) ==
  /\ compact = "waiting"
  /\ compact' = "no"
  /\ reqTimer' = FALSE
  /\ agent' = IF retry /\ agent = "settling" THEN "between" ELSE agent
  /\ UNCHANGED <<durable, control, handlers, current, blocked, model,
                 repairing, runTimer, turns, strayTimer, observed>>

-----------------------------------------------------------------------------
(* The model lock. *)

\* The user picks a model; model_select starts a repair unless one is running.
model_select(m) ==
  /\ active # None /\ m # model
  /\ model' = m
  /\ repairing' = (repairing \/ (current # None /\ m # current.tier))
  /\ UNCHANGED <<durable, control, handlers, current, blocked, runTimer,
                 reqTimer, turns, strayTimer, loop, observed>>

\* The repair's setModel takes effect.
RepairModel ==
  /\ repairing /\ model # current.tier
  /\ model' = current.tier
  /\ UNCHANGED <<durable, control, handlers, current, blocked, repairing,
                 runTimer, reqTimer, turns, strayTimer, loop, observed>>

\* The finally block, after setModel succeeded or was refused.
RepairEnds ==
  /\ repairing
  /\ repairing' = FALSE
  /\ UNCHANGED <<durable, control, handlers, current, blocked, model,
                 runTimer, reqTimer, turns, strayTimer, loop, observed>>

-----------------------------------------------------------------------------
Init ==
  /\ store = [s \in Sessions |-> None] /\ own = [s \in Sessions |-> {}]
  /\ coded = [s \in Sessions |-> FALSE] /\ inherited = [s \in Sessions |-> FALSE]
  /\ used = {} /\ nextId = 0
  /\ proc = None /\ active = None /\ lastError = FALSE /\ limitError = "none"
  /\ pc = [s \in Sessions |-> "idle"] /\ pending = [s \in Sessions |-> None]
  /\ orphans = {}
  /\ current = None /\ blocked = FALSE /\ model = "strong"
  /\ repairing = FALSE /\ runTimer = "off" /\ reqTimer = FALSE /\ turns = 0
  /\ strayTimer = FALSE /\ agent = "idle" /\ compact = "no"
  /\ outcome = "none" /\ requests = 0 /\ calls = {}

\* One step of an input handler that is under way.
InputStep(s) ==
  \/ create_fixed(s)
  \/ create_routed(s)
  \/ \E tier \in Tiers : create_resolved(s, tier)
  \/ store_write(s)
  \/ input_created(s)
  \/ input_continue(s)
  \/ input_fail(s)
  \/ input_limit(s)
  \/ input_late(s)
  \/ \E appended \in BOOLEAN, ending \in {"continue", "fail", "late"} :
        orphan_ends(s, appended, ending)

\* What Pi's loop does by itself, without the provider or a tool.
AgentStep ==
  \/ before_agent_start
  \/ turn_start
  \/ before_provider_request
  \/ compact_request
  \/ agent_settled

\* What Pi's loop does when the provider or a tool answers.
AnswerStep ==
  \/ \E tools \in BOOLEAN : message_end(tools)
  \/ turn_end
  \/ \E retry \in BOOLEAN : session_compact(retry)

TimerStep ==
  \/ \E t \in Timers : RunTimerFires(t)
  \/ RequestTimerFires
  \/ StrayTimerFires

RepairStep == RepairModel \/ RepairEnds

UserStep ==
  \/ \E s \in Sessions : input(s)
  \/ BlockedInput
  \/ \E m \in Models : model_select(m)
  \/ \E restored \in BOOLEAN : session_before_compact(restored)
  \/ session_shutdown

LifecycleStep ==
  \/ \E s \in Sessions, reason \in {"startup", "resume"}, p \in Process,
        restored \in BOOLEAN : StartProcess(s, reason, p, restored)
  \/ \E s \in Sessions, reason \in {"new", "fork", "resume"},
        copied \in BOOLEAN, restored \in BOOLEAN :
        SwitchSession(s, reason, copied, restored)
  \/ \E kept \in [Sessions -> {"all", "entries", "none"}] : ProcessEnds(kept)

Next ==
  \/ \E s \in Sessions : InputStep(s)
  \/ AgentStep
  \/ AnswerStep
  \/ TimerStep
  \/ RepairStep
  \/ UserStep
  \/ LifecycleStep

Spec == Init /\ [][Next]_vars

\* A timer fires unless it is cleared or replaced, promises of local calls and
\* of the bridge settle (Bridge), and Pi's loop advances.  Inputs that replace
\* the wall-time timer for ever keep it from firing.  Providers, tools, users
\* and kills are under no obligation.
Fairness ==
  /\ \A s \in Sessions : WF_vars(InputStep(s))
  /\ WF_vars(AgentStep)
  /\ \A t \in Timers : WF_vars(RunTimerFires(t))
  /\ WF_vars(RequestTimerFires)

FairSpec == Spec /\ Fairness

-----------------------------------------------------------------------------
(* What the routing lock promises. *)

\* Every request that reached a provider, in whatever process and after
\* whatever crashes, was for the model of the session's one durable decision:
\* before_provider_request and RoutingDecisionStore.write together.
CodingUnderLock ==
  \A c \in calls : store[c[1]] # None /\ store[c[1]].tier = c[2]

\* The durable store and the requests sent implement the abstract ledger: one
\* decision per session for good, and no request but for its model.
Ledger == INSTANCE DecisionLedger WITH decision <- store
LedgerSpec == Ledger!Spec

\* A decision on disk is never replaced: no restart, switch, fork or handler
\* orphaned by a shutdown leads create() to a second write for a session.
DecisionImmutable ==
  [][\A s \in Sessions : store[s] # None => store'[s] = store[s]]_vars

\* The classifier is consulted only for sessions without a decision on disk:
\* the input handler's create branch is never taken for a session that some
\* earlier process, or an orphaned handler, has already routed.
NoReclassification ==
  \A s \in Sessions : pc[s] \in {"create", "resolving"} => store[s] = None

\* Initial routing is persisted before coding: a session file with messages
\* of the session's own runs has a stored decision, and its own custom entries
\* never disagree with it.
PersistedBeforeCoding ==
  \A s \in Sessions : coded[s] => store[s] # None /\ own[s] \subseteq {store[s]}

\* The process runs with the mode and configuration of the session's decision.
Fits(s, p) ==
  store[s] # None => p = [mode |-> store[s].mode, config |-> store[s].config]

\* load() accepts the session in every process that fits it.
Loadable(s) == \A p \in Process : Fits(s, p) => ~loadError(s, "resume", p)

\* Wherever the process is killed between the write of the decision, the
\* custom entry and the first message, and whatever suffix of the session file
\* is lost, load() refuses a session in a process that fits it exactly when its
\* file holds messages and no decision: without messages it always resumes.
ResumableExactly ==
  \A s \in used, p \in Process : Fits(s, p) =>
    (loadError(s, "resume", p) <=> hasCodingHistory(s) /\ own[s] = {})

\* A session that has coded can be resumed with its decision and model.
CodedSessionLoads ==
  \A s \in used : coded[s] => Loadable(s)

\* A fork that copied messages can be resumed.  It does not hold (README, 5).
ForkLoads ==
  \A s \in used : inherited[s] => Loadable(s)

\* No more than maxAgentTurns coding requests follow an accepted input, across
\* aborts, compaction retries and repairs of the model.  A steering input that
\* resets turnCount between turn_start and the turn's request adds one.
TurnBudget == requests <= MaxTurns + (IF Steering THEN 1 ELSE 0)

\* An input that the handler swallowed leaves lastError set, which is all that
\* runContainerScriptedMode looks at to tell a refused prompt from a finished
\* one.
SwallowedInputReported == outcome = "handled" => lastError

\* Whatever is waiting for a provider has a timer running: a coding request, from
\* turn_start on, and a compaction, unless its timer has fired.  requestTimer is
\* one variable, so the two are never under way together.
RequestTimed ==
  /\ agent \in {"turn", "waiting"} => reqTimer /\ compact = "no"
  /\ compact # "no" => reqTimer \/ limitError # "none"

\* A coding request that the provider never answers is cut by its timer.
RequestBounded == agent = "waiting" ~> agent # "waiting"

\* A run whose tool never returns is stopped by the wall-time timer t that is
\* armed, unless an input comes first: an input in between restarts the whole
\* wall time on another timer, and one that is refused disarms it altogether.
ToolBounded ==
  \A t \in Timers :
    agent = "tool" /\ runTimer = t
      ~> agent # "tool" \/ outcome = "handled" \/ runTimer \in Timers \ {t}

\* While a tool runs, the wall-time timer of the run is armed, unless the limit
\* has been recorded already.  It does not hold with Steering (README, 5).
WallTimerArmed == agent = "tool" => runTimer # "off" \/ limitError # "none"
=============================================================================
