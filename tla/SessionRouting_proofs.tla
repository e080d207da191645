----------------------- MODULE SessionRouting_proofs ------------------------
(***************************************************************************)
(* Proofs about SessionRouting for any sessions, configurations, modes and *)
(* bounds.  The safety properties follow from one inductive invariant that *)
(* says where a session's one decision is at every step: nowhere while     *)
(* create() runs, in the store from the rename on, and in the closure only *)
(* as a copy of the store.                                                 *)
(***************************************************************************)
EXTENDS SessionRouting, FiniteSetTheorems, TLAPS

\* A decision under construction belongs to a session that has none.
CreatingIsFirst ==
  \A s \in Sessions :
    /\ pc[s] \in Creating => own[s] = {} /\ ~coded[s]
    /\ pc[s] \in {"create", "resolving", "writing"} => store[s] = None
    /\ pc[s] \in {"writing", "written"} => pending[s] # None
    /\ pc[s] = "written" => store[s] = pending[s]

\* Custom entries and coded messages come after the store.
StoreIsFirst ==
  \A s \in Sessions :
    /\ own[s] \subseteq {store[s]}
    /\ coded[s] => store[s] # None

\* A session identifier that was not handed out is untouched.
UnusedIsFresh ==
  \A s \in Sessions \ used :
    store[s] = None /\ own[s] = {} /\ ~coded[s] /\ ~inherited[s] /\ pc[s] = "idle"

\* A handler that is no orphan belongs to the attached, accepting closure, and
\* applies a decision only when the closure has one.
HandlerIsAttached ==
  /\ \A s \in Sessions : pc[s] # "idle" /\ s \notin orphans =>
       /\ active = s /\ ~blocked
       /\ pc[s] \in Creating => current = None
       /\ pc[s] \in {"apply", "restore"} => current # None
  /\ \A s \in orphans : pc[s] # "idle" /\ (active = s => blocked)
  /\ active # None \/ orphans # {} => proc # None

\* A run, a compaction or a repair is under way.
Busy == repairing \/ compact # "no" \/ agent # "idle"

\* The closure's decision is the stored one; without one, and unless the
\* session is blocked or being routed, there is none on disk.
ClosureIsStored ==
  /\ current # None => active # None /\ ~blocked /\ current = store[active]
  /\ active # None => active \in used
  /\ active # None /\ current = None /\ ~blocked /\ pc[active] = "idle" =>
       store[active] = None /\ own[active] = {}
  /\ Busy => current # None

\* The inductive invariant.
IInv ==
  /\ TypeOK
  /\ CreatingIsFirst
  /\ StoreIsFirst
  /\ UnusedIsFresh
  /\ HandlerIsAttached
  /\ ClosureIsStored
  /\ CodingUnderLock

-----------------------------------------------------------------------------
(* The steps that leave decisions and handlers alone share one argument. *)

\* What the invariant is about, apart from the requests sent.
quiet == <<durable, proc, active, handlers, current, blocked>>

\* A step that changes nothing in quiet keeps the invariant when it starts
\* nothing without a decision and sends nothing outside the lock.
LEMMA QuietFrame ==
  ASSUME IInv, TypeOK', UNCHANGED quiet, Busy' => current # None,
         CodingUnderLock'
  PROVE  IInv'
  BY SMT DEF IInv, quiet, Busy, durable, handlers, CreatingIsFirst,
     StoreIsFirst, UnusedIsFresh, HandlerIsAttached, ClosureIsStored

-----------------------------------------------------------------------------
(* Each action preserves the invariant. *)

\* The decision of a fixed mode is built for a session that has none.
LEMMA CreateFixedInv ==
  ASSUME IInv, NEW s \in Sessions, create_fixed(s)
  PROVE  IInv'
<1>1. FlagsOK'
  BY Zenon DEF create_fixed, DecisionReady, IInv, TypeOK, FlagsOK, control,
     closure
<1>2. TypesOK'
  BY ConstantsAssumption, SMT DEF create_fixed, DecisionReady, NewDecision,
     IInv, TypeOK, TypesOK, HandlerIsAttached, control, closure, loop,
     observed, Creating, Pcs, Tiers, Decision, Process
<1>3. CreatingIsFirst'
  BY ConstantsAssumption, SMT DEF create_fixed, DecisionReady, NewDecision,
     IInv, TypeOK, TypesOK, CreatingIsFirst, StoreIsFirst, HandlerIsAttached,
     Tiers, Decision, Process
<1>4. StoreIsFirst'
  BY SMT DEF create_fixed, DecisionReady, IInv, StoreIsFirst
<1>5. UnusedIsFresh'
  BY SMT DEF create_fixed, DecisionReady, IInv, UnusedIsFresh
<1>6. HandlerIsAttached'
  BY SMT DEF create_fixed, DecisionReady, IInv, CreatingIsFirst,
     HandlerIsAttached, ClosureIsStored, control, closure
<1>7. ClosureIsStored'
  BY SMT DEF create_fixed, DecisionReady, IInv, ClosureIsStored, Busy,
     control, closure, loop
<1>8. CodingUnderLock'
  BY SMT DEF create_fixed, DecisionReady, IInv, CodingUnderLock, observed
<1>. QED  BY <1>1, <1>2, <1>3, <1>4, <1>5, <1>6, <1>7, <1>8 DEF IInv, TypeOK

\* Asking the bridge leaves everything durable alone.
LEMMA CreateRoutedInv ==
  ASSUME IInv, NEW s \in Sessions, create_routed(s)
  PROVE  IInv'
<1>1. FlagsOK'
  BY Zenon DEF create_routed, IInv, TypeOK, FlagsOK, control, closure
<1>2. TypesOK'
  BY SMT DEF create_routed, IInv, TypeOK, TypesOK, durable, control, closure,
     loop, observed, Creating, Pcs
<1>3. CreatingIsFirst'
  BY ConstantsAssumption, SMT DEF create_routed, IInv, TypeOK, TypesOK,
     CreatingIsFirst, StoreIsFirst, durable
<1>4. StoreIsFirst'
  BY SMT DEF create_routed, IInv, StoreIsFirst, durable
<1>5. UnusedIsFresh'
  BY SMT DEF create_routed, IInv, UnusedIsFresh, durable
<1>6. HandlerIsAttached'
  BY SMT DEF create_routed, IInv, CreatingIsFirst, HandlerIsAttached,
     ClosureIsStored, control, closure
<1>7. ClosureIsStored'
  BY SMT DEF create_routed, IInv, ClosureIsStored, Busy, durable, control,
     closure, loop
<1>8. CodingUnderLock'
  BY SMT DEF create_routed, IInv, CodingUnderLock, durable, observed
<1>. QED  BY <1>1, <1>2, <1>3, <1>4, <1>5, <1>6, <1>7, <1>8 DEF IInv, TypeOK

\* The decision from the bridge is built for a session that has none.
LEMMA CreateResolvedInv ==
  ASSUME IInv,
         NEW s \in Sessions,
         NEW tier \in Tiers,
         create_resolved(s, tier)
  PROVE  IInv'
<1>1. FlagsOK'
  BY Zenon DEF create_resolved, DecisionReady, IInv, TypeOK, FlagsOK, control,
     closure
<1>2. TypesOK'
  BY ConstantsAssumption, SMT DEF create_resolved, DecisionReady, NewDecision,
     IInv, TypeOK, TypesOK, HandlerIsAttached, control, closure, loop,
     observed, Creating, Pcs, Decision, Process
<1>3. CreatingIsFirst'
  BY ConstantsAssumption, SMT DEF create_resolved, DecisionReady, NewDecision,
     IInv, TypeOK, TypesOK, CreatingIsFirst, StoreIsFirst, HandlerIsAttached,
     Decision, Process
<1>4. StoreIsFirst'
  BY SMT DEF create_resolved, DecisionReady, IInv, StoreIsFirst
<1>5. UnusedIsFresh'
  BY SMT DEF create_resolved, DecisionReady, IInv, UnusedIsFresh
<1>6. HandlerIsAttached'
  BY SMT DEF create_resolved, DecisionReady, IInv, CreatingIsFirst,
     HandlerIsAttached, ClosureIsStored, control, closure
<1>7. ClosureIsStored'
  BY SMT DEF create_resolved, DecisionReady, IInv, ClosureIsStored, Busy,
     control, closure, loop
<1>8. CodingUnderLock'
  BY SMT DEF create_resolved, DecisionReady, IInv, CodingUnderLock, observed
<1>. QED  BY <1>1, <1>2, <1>3, <1>4, <1>5, <1>6, <1>7, <1>8 DEF IInv, TypeOK

\* The rename stores the pending decision where there was none.
LEMMA StoreWriteInv ==
  ASSUME IInv, NEW s \in Sessions, store_write(s)
  PROVE  IInv'
<1>1. FlagsOK'
  BY Zenon DEF store_write, IInv, TypeOK, FlagsOK, control, closure
<1>2. TypesOK'
  BY SMT DEF store_write, IInv, TypeOK, TypesOK, control, closure, loop,
     observed, Creating, Pcs
<1>3. CreatingIsFirst'
  BY ConstantsAssumption, SMT DEF store_write, IInv, TypeOK, TypesOK,
     CreatingIsFirst, StoreIsFirst
<1>4. StoreIsFirst'
  BY ConstantsAssumption, SMT DEF store_write, IInv, TypeOK, TypesOK,
     CreatingIsFirst, StoreIsFirst
<1>5. UnusedIsFresh'
  BY SMT DEF store_write, IInv, UnusedIsFresh
<1>6. HandlerIsAttached'
  BY SMT DEF store_write, IInv, CreatingIsFirst, HandlerIsAttached,
     ClosureIsStored, control, closure
<1>7. ClosureIsStored'
  BY SMT DEF store_write, IInv, CreatingIsFirst, ClosureIsStored, Busy,
     control, closure, loop
<1>8. CodingUnderLock'
  BY SMT DEF store_write, IInv, CreatingIsFirst, CodingUnderLock, observed
<1>. QED  BY <1>1, <1>2, <1>3, <1>4, <1>5, <1>6, <1>7, <1>8 DEF IInv, TypeOK

\* The closure and the custom entry take over the decision just stored.
LEMMA InputCreatedInv ==
  ASSUME IInv, NEW s \in Sessions, input_created(s)
  PROVE  IInv'
<1>1. FlagsOK'
  BY Zenon DEF input_created, IInv, TypeOK, FlagsOK, control
<1>2. TypesOK'
  BY SMT DEF input_created, IInv, TypeOK, TypesOK, CreatingIsFirst, control,
     loop, observed, Pcs
<1>3. CreatingIsFirst'
  BY SMT DEF input_created, IInv, TypeOK, TypesOK, CreatingIsFirst, Creating
<1>4. StoreIsFirst'
  BY SMT DEF input_created, IInv, CreatingIsFirst, StoreIsFirst
<1>5. UnusedIsFresh'
  BY SMT DEF input_created, IInv, UnusedIsFresh
<1>6. HandlerIsAttached'
  BY SMT DEF input_created, Mine, IInv, TypeOK, TypesOK, CreatingIsFirst,
     HandlerIsAttached, control, Creating
<1>7. ClosureIsStored'
  BY ConstantsAssumption, SMT DEF input_created, Mine, IInv, CreatingIsFirst,
     HandlerIsAttached, ClosureIsStored, control
<1>8. CodingUnderLock'
  BY SMT DEF input_created, IInv, CodingUnderLock, observed
<1>. QED  BY <1>1, <1>2, <1>3, <1>4, <1>5, <1>6, <1>7, <1>8 DEF IInv, TypeOK

\* An accepted input has a decision in its closure.
LEMMA InputContinueInv ==
  ASSUME IInv, NEW s \in Sessions, input_continue(s)
  PROVE  IInv'
<1>1. FlagsOK'
  BY Zenon DEF input_continue, IInv, TypeOK, FlagsOK, control
<1>2. TypesOK'
  BY SMT DEF input_continue, Mine, IInv, TypeOK, TypesOK, HandlerIsAttached,
     durable, control, Pcs, RunStates, Models, Decision
<1>3. CreatingIsFirst'
  BY SMT DEF input_continue, IInv, CreatingIsFirst, durable, Creating
<1>4. StoreIsFirst'
  BY SMT DEF input_continue, IInv, StoreIsFirst, durable
<1>5. UnusedIsFresh'
  BY SMT DEF input_continue, IInv, UnusedIsFresh, durable
<1>6. HandlerIsAttached'
  BY SMT DEF input_continue, Mine, IInv, HandlerIsAttached, control
<1>7. ClosureIsStored'
  BY SMT DEF input_continue, Mine, IInv, HandlerIsAttached, ClosureIsStored,
     durable, control
<1>8. CodingUnderLock'
  BY SMT DEF input_continue, IInv, CodingUnderLock, durable
<1>. QED  BY <1>1, <1>2, <1>3, <1>4, <1>5, <1>6, <1>7, <1>8 DEF IInv, TypeOK

\* The catch block abandons the handler and no stored decision.
LEMMA InputFailInv ==
  ASSUME IInv, NEW s \in Sessions, input_fail(s)
  PROVE  IInv'
<1>1. FlagsOK'
  BY Zenon DEF input_fail, input_catch, IInv, TypeOK, FlagsOK
<1>2. TypesOK'
  BY SMT DEF input_fail, input_catch, IInv, TypeOK, TypesOK, durable, loop,
     Pcs
<1>3. CreatingIsFirst'
  BY SMT DEF input_fail, input_catch, IInv, TypeOK, TypesOK, CreatingIsFirst,
     durable, Creating
<1>4. StoreIsFirst'
  BY SMT DEF input_fail, IInv, StoreIsFirst, durable
<1>5. UnusedIsFresh'
  BY SMT DEF input_fail, input_catch, IInv, UnusedIsFresh, durable
<1>6. HandlerIsAttached'
  BY SMT DEF input_fail, input_catch, IInv, TypeOK, TypesOK, HandlerIsAttached
<1>7. ClosureIsStored'
  BY ConstantsAssumption, SMT DEF input_fail, input_catch, IInv, TypeOK,
     TypesOK, CreatingIsFirst, StoreIsFirst, HandlerIsAttached,
     ClosureIsStored, Busy, durable, loop
<1>8. CodingUnderLock'
  BY SMT DEF input_fail, IInv, CodingUnderLock, durable
<1>. QED  BY <1>1, <1>2, <1>3, <1>4, <1>5, <1>6, <1>7, <1>8 DEF IInv, TypeOK

\* A classifier deadline abandons the handler and no stored decision.
LEMMA InputLimitInv ==
  ASSUME IInv, NEW s \in Sessions, input_limit(s)
  PROVE  IInv'
<1>1. FlagsOK'
  BY Zenon DEF input_limit, input_catch, IInv, TypeOK, FlagsOK
<1>2. TypesOK'
  BY SMT DEF input_limit, input_catch, FirstLimit, Aborted, IInv, TypeOK,
     TypesOK, durable, Pcs
<1>3. CreatingIsFirst'
  BY ConstantsAssumption, SMT DEF input_limit, input_catch, IInv, TypeOK,
     TypesOK, CreatingIsFirst, StoreIsFirst, durable
<1>4. StoreIsFirst'
  BY SMT DEF input_limit, IInv, StoreIsFirst, durable
<1>5. UnusedIsFresh'
  BY SMT DEF input_limit, input_catch, IInv, UnusedIsFresh, durable
<1>6. HandlerIsAttached'
  BY SMT DEF input_limit, input_catch, IInv, TypeOK, TypesOK,
     HandlerIsAttached
<1>7. ClosureIsStored'
  BY ConstantsAssumption, SMT DEF input_limit, input_catch, Aborted, IInv,
     TypeOK, TypesOK, CreatingIsFirst, StoreIsFirst, ClosureIsStored, Busy,
     durable, RunStates
<1>8. CodingUnderLock'
  BY SMT DEF input_limit, IInv, CodingUnderLock, durable
<1>. QED  BY <1>1, <1>2, <1>3, <1>4, <1>5, <1>6, <1>7, <1>8 DEF IInv, TypeOK

\* Refusing an input for its wall time keeps the decision and its model.
LEMMA InputLateInv ==
  ASSUME IInv, NEW s \in Sessions, input_late(s)
  PROVE  IInv'
<1>1. FlagsOK'
  BY Zenon DEF input_late, input_catch, IInv, TypeOK, FlagsOK
<1>2. TypesOK'
  BY SMT DEF input_late, input_catch, Mine, FirstLimit, Aborted, IInv, TypeOK,
     TypesOK, HandlerIsAttached, durable, Pcs, Models, Decision
<1>3. CreatingIsFirst'
  BY SMT DEF input_late, input_catch, IInv, CreatingIsFirst, durable, Creating
<1>4. StoreIsFirst'
  BY SMT DEF input_late, IInv, StoreIsFirst, durable
<1>5. UnusedIsFresh'
  BY SMT DEF input_late, input_catch, IInv, UnusedIsFresh, durable
<1>6. HandlerIsAttached'
  BY SMT DEF input_late, input_catch, Mine, IInv, HandlerIsAttached
<1>7. ClosureIsStored'
  BY SMT DEF input_late, Mine, IInv, HandlerIsAttached, ClosureIsStored,
     durable
<1>8. CodingUnderLock'
  BY SMT DEF input_late, IInv, CodingUnderLock, durable
<1>. QED  BY <1>1, <1>2, <1>3, <1>4, <1>5, <1>6, <1>7, <1>8 DEF IInv, TypeOK

\* A handler that outlived its session appends at most the stored decision.
LEMMA OrphanEndsInv ==
  ASSUME IInv,
         NEW s \in Sessions,
         NEW appended \in BOOLEAN,
         NEW ending \in {"continue", "fail", "late"},
         orphan_ends(s, appended, ending)
  PROVE  IInv'
<1>1. FlagsOK'
  BY Zenon DEF orphan_ends, IInv, TypeOK, FlagsOK, closure
<1>2. TypesOK'
  BY SMT DEF orphan_ends, FirstLimit, IInv, TypeOK, TypesOK, CreatingIsFirst,
     closure, loop, observed, Pcs
<1>3. CreatingIsFirst'
  BY SMT DEF orphan_ends, IInv, TypeOK, TypesOK, CreatingIsFirst, Creating
<1>4. StoreIsFirst'
  BY SMT DEF orphan_ends, IInv, CreatingIsFirst, StoreIsFirst
<1>5. UnusedIsFresh'
  BY SMT DEF orphan_ends, IInv, UnusedIsFresh
<1>6. HandlerIsAttached'
  BY SMT DEF orphan_ends, IInv, TypeOK, TypesOK, HandlerIsAttached, closure
<1>7. ClosureIsStored'
  BY SMT DEF orphan_ends, IInv, HandlerIsAttached, ClosureIsStored, Busy,
     closure, loop
<1>8. CodingUnderLock'
  BY SMT DEF orphan_ends, IInv, CodingUnderLock, observed
<1>. QED  BY <1>1, <1>2, <1>3, <1>4, <1>5, <1>6, <1>7, <1>8 DEF IInv, TypeOK

\* Messages enter the session file only with a decision in the closure.
LEMMA BeforeAgentStartInv ==
  ASSUME IInv, before_agent_start
  PROVE  IInv'
<1>1. FlagsOK'
  BY Zenon DEF before_agent_start, IInv, TypeOK, FlagsOK, closure
<1>2. TypesOK'
  BY SMT DEF before_agent_start, IInv, TypeOK, TypesOK, ClosureIsStored, Busy,
     handlers, closure, observed, RunStates
<1>3. CreatingIsFirst'
  BY SMT DEF before_agent_start, IInv, TypeOK, TypesOK, CreatingIsFirst,
     HandlerIsAttached, ClosureIsStored, handlers, Creating
<1>4. StoreIsFirst'
  BY SMT DEF before_agent_start, IInv, TypeOK, TypesOK, StoreIsFirst,
     ClosureIsStored
<1>5. UnusedIsFresh'
  BY ConstantsAssumption, SMT DEF before_agent_start, IInv, UnusedIsFresh,
     ClosureIsStored, handlers
<1>6. HandlerIsAttached'
  BY SMT DEF before_agent_start, IInv, HandlerIsAttached, handlers, closure
<1>7. ClosureIsStored'
  BY SMT DEF before_agent_start, IInv, ClosureIsStored, Busy, closure
<1>8. CodingUnderLock'
  BY SMT DEF before_agent_start, IInv, CodingUnderLock, observed
<1>. QED  BY <1>1, <1>2, <1>3, <1>4, <1>5, <1>6, <1>7, <1>8 DEF IInv, TypeOK

\* A closure without a decision starts create() only for an unrouted session.
LEMMA InputInv ==
  ASSUME IInv, NEW s \in Sessions, input(s)
  PROVE  IInv'
<1>1. FlagsOK'
  BY Zenon DEF input, IInv, TypeOK, FlagsOK
<1>2. TypesOK'
  BY SMT DEF input, rearmRunTimer, Timers, IInv, TypeOK, TypesOK, durable,
     loop, Creating, Pcs
<1>3. CreatingIsFirst'
  BY SMT DEF input, AcceptsInput, IInv, CreatingIsFirst, StoreIsFirst,
     ClosureIsStored, durable, Creating
<1>4. StoreIsFirst'
  BY SMT DEF input, IInv, StoreIsFirst, durable
<1>5. UnusedIsFresh'
  BY ConstantsAssumption, SMT DEF input, IInv, UnusedIsFresh, ClosureIsStored,
     durable
<1>6. HandlerIsAttached'
  BY SMT DEF input, AcceptsInput, IInv, HandlerIsAttached, Creating
<1>7. ClosureIsStored'
  BY SMT DEF input, IInv, ClosureIsStored, Busy, durable, loop
<1>8. CodingUnderLock'
  BY SMT DEF input, IInv, CodingUnderLock, durable
<1>. QED  BY <1>1, <1>2, <1>3, <1>4, <1>5, <1>6, <1>7, <1>8 DEF IInv, TypeOK

\* A shutdown turns the running handler into an orphan.
LEMMA SessionShutdownInv ==
  ASSUME IInv, session_shutdown
  PROVE  IInv'
<1>1. FlagsOK'
  BY Zenon DEF session_shutdown, FreshClosure, IInv, TypeOK, FlagsOK
<1>2. TypesOK'
  BY SMT DEF session_shutdown, FreshClosure, IInv, TypeOK, TypesOK, durable,
     Tiers, Models
<1>3. CreatingIsFirst'
  BY SMT DEF session_shutdown, IInv, CreatingIsFirst, durable
<1>4. StoreIsFirst'
  BY SMT DEF session_shutdown, IInv, StoreIsFirst, durable
<1>5. UnusedIsFresh'
  BY SMT DEF session_shutdown, IInv, UnusedIsFresh, durable
<1>6. HandlerIsAttached'
  BY ConstantsAssumption, SMT DEF session_shutdown, IInv, TypeOK, TypesOK,
     HandlerIsAttached
<1>7. ClosureIsStored'
  BY SMT DEF session_shutdown, FreshClosure, ClosureIsStored, Busy
<1>8. CodingUnderLock'
  BY SMT DEF session_shutdown, IInv, CodingUnderLock, durable
<1>. QED  BY <1>1, <1>2, <1>3, <1>4, <1>5, <1>6, <1>7, <1>8 DEF IInv, TypeOK

\* A start or resume takes its decision from the store, or is blocked.
LEMMA StartProcessInv ==
  ASSUME IInv,
         NEW s \in Sessions,
         NEW reason \in {"startup", "resume", "new", "fork"},
         NEW p \in Process,
         NEW restored \in BOOLEAN,
         StartProcess(s, reason, p, restored)
  PROVE  IInv'
<1>1. FlagsOK'
  BY Zenon DEF StartProcess, session_start, FreshClosure, loadError, IInv,
     TypeOK, FlagsOK
<1>2. TypesOK'
  BY SMT DEF StartProcess, session_start, FreshClosure, loaded, IInv, TypeOK,
     TypesOK, handlers, Tiers, Models, Decision
<1>3. CreatingIsFirst'
  BY SMT DEF StartProcess, IInv, CreatingIsFirst, handlers
<1>4. StoreIsFirst'
  BY SMT DEF StartProcess, IInv, StoreIsFirst
<1>5. UnusedIsFresh'
  BY SMT DEF StartProcess, session_start, IInv, UnusedIsFresh, handlers
<1>6. HandlerIsAttached'
  BY ConstantsAssumption, SMT DEF StartProcess, IInv, HandlerIsAttached,
     handlers
<1>7. ClosureIsStored'
  BY ConstantsAssumption, SMT DEF StartProcess, session_start, FreshClosure,
     loadError, loaded, ClosureIsStored, Busy
<1>8. CodingUnderLock'
  BY SMT DEF StartProcess, IInv, CodingUnderLock
<1>. QED  BY <1>1, <1>2, <1>3, <1>4, <1>5, <1>6, <1>7, <1>8 DEF IInv, TypeOK

\* A switch takes its decision from the store, or is blocked; an orphan of
\* the session can only be one whose decision is not stored yet or whose entry
\* is missing, and either blocks it.
LEMMA SwitchSessionInv ==
  ASSUME IInv,
         NEW s \in Sessions,
         NEW reason \in {"startup", "resume", "new", "fork"},
         NEW copied \in BOOLEAN,
         NEW restored \in BOOLEAN,
         SwitchSession(s, reason, copied, restored)
  PROVE  IInv'
<1>1. FlagsOK'
  BY Zenon DEF SwitchSession, session_start, FreshClosure, loadError, IInv,
     TypeOK, FlagsOK
<1>2. TypesOK'
  BY SMT DEF SwitchSession, session_start, FreshClosure, loaded, IInv, TypeOK,
     TypesOK, handlers, Tiers, Models, Decision
<1>3. CreatingIsFirst'
  BY SMT DEF SwitchSession, IInv, CreatingIsFirst, handlers
<1>4. StoreIsFirst'
  BY SMT DEF SwitchSession, IInv, StoreIsFirst
<1>5. UnusedIsFresh'
  BY SMT DEF SwitchSession, session_start, IInv, UnusedIsFresh, handlers
<1>6. HandlerIsAttached'
  BY ConstantsAssumption, SMT DEF SwitchSession, session_start, FreshClosure,
     loadError, FileExists, IInv, TypeOK, TypesOK, CreatingIsFirst,
     UnusedIsFresh, HandlerIsAttached, handlers, Pcs
<1>7. ClosureIsStored'
  BY ConstantsAssumption, SMT DEF SwitchSession, session_start, FreshClosure,
     loadError, loaded, IInv, TypeOK, TypesOK, StoreIsFirst, ClosureIsStored,
     Busy
<1>8. CodingUnderLock'
  BY SMT DEF SwitchSession, IInv, CodingUnderLock
<1>. QED  BY <1>1, <1>2, <1>3, <1>4, <1>5, <1>6, <1>7, <1>8 DEF IInv, TypeOK

\* A kill leaves the store, and loses only what comes after it.
LEMMA ProcessEndsInv ==
  ASSUME IInv,
         NEW kept \in [Sessions -> {"all", "entries", "none"}],
         ProcessEnds(kept)
  PROVE  IInv'
<1>1. FlagsOK'
  BY Zenon DEF ProcessEnds, FreshClosure, FlagsOK
<1>2. TypesOK'
  BY SMT DEF ProcessEnds, FreshClosure, IInv, TypeOK, TypesOK, Pcs, Tiers,
     Models
<1>3. CreatingIsFirst'
  BY SMT DEF ProcessEnds, CreatingIsFirst, Creating
<1>4. StoreIsFirst'
  BY SMT DEF ProcessEnds, IInv, TypeOK, TypesOK, StoreIsFirst
<1>5. UnusedIsFresh'
  BY SMT DEF ProcessEnds, IInv, TypeOK, TypesOK, UnusedIsFresh
<1>6. HandlerIsAttached'
  BY SMT DEF ProcessEnds, HandlerIsAttached
<1>7. ClosureIsStored'
  BY SMT DEF ProcessEnds, FreshClosure, ClosureIsStored, Busy
<1>8. CodingUnderLock'
  BY SMT DEF ProcessEnds, IInv, CodingUnderLock
<1>. QED  BY <1>1, <1>2, <1>3, <1>4, <1>5, <1>6, <1>7, <1>8 DEF IInv, TypeOK

\* A turn changes the counters and timers of the run only.
LEMMA TurnStartInv ==
  ASSUME IInv, turn_start
  PROVE  IInv'
<1>1. FlagsOK'
  BY Zenon DEF turn_start, stopForLimit, startRequestTimer, IInv, TypeOK,
     FlagsOK
<1>2. TypesOK'
  BY SMT DEF turn_start, stopForLimit, FirstLimit, Aborted, IInv, TypeOK,
     TypesOK, durable, handlers, observed, RunStates
<1>3. UNCHANGED quiet
  BY SMT DEF quiet, turn_start
<1>4. Busy' => current # None
  BY SMT DEF turn_start, IInv, ClosureIsStored, Busy
<1>5. CodingUnderLock'
  BY SMT DEF turn_start, IInv, CodingUnderLock, durable, observed
<1>. QED  BY <1>1, <1>2, <1>3, <1>4, <1>5, QuietFrame DEF TypeOK

\* A request goes out for the tier of the closure, which is the stored one.
LEMMA BeforeProviderRequestInv ==
  ASSUME IInv, before_provider_request
  PROVE  IInv'
<1>1. FlagsOK'
  BY Zenon DEF before_provider_request, IInv, TypeOK, FlagsOK, control,
     closure
<1>2. TypesOK'
  BY SMT DEF before_provider_request, RequestAllowed, IInv, TypeOK, TypesOK,
     ClosureIsStored, durable, control, handlers, closure, RunStates
<1>3. UNCHANGED quiet
  BY SMT DEF quiet, before_provider_request, control, closure
<1>4. Busy' => current # None
  BY SMT DEF before_provider_request, IInv, ClosureIsStored, Busy
<1>5. CodingUnderLock'
  BY SMT DEF before_provider_request, RequestAllowed, IInv, ClosureIsStored,
     CodingUnderLock, durable
<1>. QED  BY <1>1, <1>2, <1>3, <1>4, <1>5, QuietFrame DEF TypeOK

\* A summarisation request goes out for the stored tier.
LEMMA CompactRequestInv ==
  ASSUME IInv, compact_request
  PROVE  IInv'
<1>1. FlagsOK'
  BY Zenon DEF compact_request, IInv, TypeOK, FlagsOK, control
<1>2. TypesOK'
  BY SMT DEF compact_request, RequestAllowed, IInv, TypeOK, TypesOK,
     ClosureIsStored, durable, control, handlers
<1>3. UNCHANGED quiet
  BY SMT DEF quiet, compact_request, control
<1>4. Busy' => current # None
  BY SMT DEF compact_request, IInv, ClosureIsStored, Busy
<1>5. CodingUnderLock'
  BY SMT DEF compact_request, RequestAllowed, IInv, ClosureIsStored,
     CodingUnderLock, durable
<1>. QED  BY <1>1, <1>2, <1>3, <1>4, <1>5, QuietFrame DEF TypeOK

\* The end of a run changes timers only.
LEMMA AgentSettledInv ==
  ASSUME IInv, agent_settled
  PROVE  IInv'
<1>1. FlagsOK'
  BY Zenon DEF agent_settled, IInv, TypeOK, FlagsOK, control
<1>2. TypesOK'
  BY SMT DEF agent_settled, IInv, TypeOK, TypesOK, durable, control, handlers,
     observed
<1>3. UNCHANGED quiet
  BY SMT DEF quiet, agent_settled, control
<1>4. Busy' => current # None
  BY SMT DEF agent_settled, IInv, ClosureIsStored, Busy
<1>5. CodingUnderLock'
  BY SMT DEF agent_settled, IInv, CodingUnderLock, durable, observed
<1>. QED  BY <1>1, <1>2, <1>3, <1>4, <1>5, QuietFrame DEF TypeOK

\* An answer changes timers only.
LEMMA MessageEndInv ==
  ASSUME IInv, NEW tools \in BOOLEAN, message_end(tools)
  PROVE  IInv'
<1>1. FlagsOK'
  BY Zenon DEF message_end, IInv, TypeOK, FlagsOK, control
<1>2. TypesOK'
  BY SMT DEF message_end, IInv, TypeOK, TypesOK, durable, control, handlers,
     observed, RunStates
<1>3. UNCHANGED quiet
  BY SMT DEF quiet, message_end, control
<1>4. Busy' => current # None
  BY SMT DEF message_end, IInv, ClosureIsStored, Busy
<1>5. CodingUnderLock'
  BY SMT DEF message_end, IInv, CodingUnderLock, durable, observed
<1>. QED  BY <1>1, <1>2, <1>3, <1>4, <1>5, QuietFrame DEF TypeOK

\* The end of a turn changes timers only.
LEMMA TurnEndInv ==
  ASSUME IInv, turn_end
  PROVE  IInv'
<1>1. FlagsOK'
  BY Zenon DEF turn_end, IInv, TypeOK, FlagsOK, control
<1>2. TypesOK'
  BY SMT DEF turn_end, IInv, TypeOK, TypesOK, durable, control, handlers,
     observed, RunStates
<1>3. UNCHANGED quiet
  BY SMT DEF quiet, turn_end, control
<1>4. Busy' => current # None
  BY SMT DEF turn_end, IInv, ClosureIsStored, Busy
<1>5. CodingUnderLock'
  BY SMT DEF turn_end, IInv, CodingUnderLock, durable, observed
<1>. QED  BY <1>1, <1>2, <1>3, <1>4, <1>5, QuietFrame DEF TypeOK

\* The end of a compaction returns to a run that has its decision.
LEMMA SessionCompactInv ==
  ASSUME IInv, NEW retry \in BOOLEAN, session_compact(retry)
  PROVE  IInv'
<1>1. FlagsOK'
  BY Zenon DEF session_compact, IInv, TypeOK, FlagsOK, control
<1>2. TypesOK'
  BY SMT DEF session_compact, IInv, TypeOK, TypesOK, durable, control,
     handlers, observed, RunStates
<1>3. UNCHANGED quiet
  BY SMT DEF quiet, session_compact, control
<1>4. Busy' => current # None
  BY SMT DEF session_compact, IInv, ClosureIsStored, Busy
<1>5. CodingUnderLock'
  BY SMT DEF session_compact, IInv, CodingUnderLock, durable, observed
<1>. QED  BY <1>1, <1>2, <1>3, <1>4, <1>5, QuietFrame DEF TypeOK

\* The wall-time limit aborts the run and touches no decision.
LEMMA RunTimerFiresInv ==
  ASSUME IInv, NEW t \in Timers, RunTimerFires(t)
  PROVE  IInv'
<1>1. FlagsOK'
  BY Zenon DEF RunTimerFires, stopForLimit, IInv, TypeOK, FlagsOK
<1>2. TypesOK'
  BY SMT DEF RunTimerFires, stopForLimit, FirstLimit, Aborted, IInv, TypeOK,
     TypesOK, durable, handlers, observed
<1>3. UNCHANGED quiet
  BY SMT DEF quiet, RunTimerFires
<1>4. Busy' => current # None
  BY SMT DEF RunTimerFires, stopForLimit, Aborted, IInv, ClosureIsStored,
     Busy, RunStates
<1>5. CodingUnderLock'
  BY SMT DEF RunTimerFires, IInv, CodingUnderLock, durable, observed
<1>. QED  BY <1>1, <1>2, <1>3, <1>4, <1>5, QuietFrame DEF TypeOK

\* The request limit aborts the run and touches no decision.
LEMMA RequestTimerFiresInv ==
  ASSUME IInv, RequestTimerFires
  PROVE  IInv'
<1>1. FlagsOK'
  BY Zenon DEF RequestTimerFires, stopForLimit, IInv, TypeOK, FlagsOK
<1>2. TypesOK'
  BY SMT DEF RequestTimerFires, stopForLimit, FirstLimit, Aborted, IInv,
     TypeOK, TypesOK, durable, handlers, observed
<1>3. UNCHANGED quiet
  BY SMT DEF quiet, RequestTimerFires
<1>4. Busy' => current # None
  BY SMT DEF RequestTimerFires, stopForLimit, Aborted, IInv, ClosureIsStored,
     Busy, RunStates
<1>5. CodingUnderLock'
  BY SMT DEF RequestTimerFires, IInv, CodingUnderLock, durable, observed
<1>. QED  BY <1>1, <1>2, <1>3, <1>4, <1>5, QuietFrame DEF TypeOK

\* A timer of an earlier session touches no decision.
LEMMA StrayTimerFiresInv ==
  ASSUME IInv, StrayTimerFires
  PROVE  IInv'
<1>1. FlagsOK'
  BY Zenon DEF StrayTimerFires, IInv, TypeOK, FlagsOK
<1>2. TypesOK'
  BY SMT DEF StrayTimerFires, FirstLimit, IInv, TypeOK, TypesOK, durable,
     handlers, loop, observed
<1>3. UNCHANGED quiet
  BY SMT DEF quiet, StrayTimerFires
<1>4. Busy' => current # None
  BY SMT DEF StrayTimerFires, loop, IInv, ClosureIsStored, Busy
<1>5. CodingUnderLock'
  BY SMT DEF StrayTimerFires, IInv, CodingUnderLock, durable, observed
<1>. QED  BY <1>1, <1>2, <1>3, <1>4, <1>5, QuietFrame DEF TypeOK

\* The repair sets the model of the lock.
LEMMA RepairModelInv ==
  ASSUME IInv, RepairModel
  PROVE  IInv'
<1>1. FlagsOK'
  BY Zenon DEF RepairModel, IInv, TypeOK, FlagsOK, control
<1>2. TypesOK'
  BY SMT DEF RepairModel, IInv, TypeOK, TypesOK, ClosureIsStored, Busy,
     durable, control, handlers, loop, observed, Models, Decision
<1>3. UNCHANGED quiet
  BY SMT DEF quiet, RepairModel, control
<1>4. Busy' => current # None
  BY SMT DEF RepairModel, IInv, ClosureIsStored, Busy
<1>5. CodingUnderLock'
  BY SMT DEF RepairModel, IInv, CodingUnderLock, durable, observed
<1>. QED  BY <1>1, <1>2, <1>3, <1>4, <1>5, QuietFrame DEF TypeOK

\* The end of a repair touches no decision.
LEMMA RepairEndsInv ==
  ASSUME IInv, RepairEnds
  PROVE  IInv'
<1>1. FlagsOK'
  BY Zenon DEF RepairEnds, IInv, TypeOK, FlagsOK, control
<1>2. TypesOK'
  BY SMT DEF RepairEnds, IInv, TypeOK, TypesOK, durable, control, handlers,
     loop, observed
<1>3. UNCHANGED quiet
  BY SMT DEF quiet, RepairEnds, control
<1>4. Busy' => current # None
  BY SMT DEF RepairEnds, IInv, ClosureIsStored, Busy
<1>5. CodingUnderLock'
  BY SMT DEF RepairEnds, IInv, CodingUnderLock, durable, observed
<1>. QED  BY <1>1, <1>2, <1>3, <1>4, <1>5, QuietFrame DEF TypeOK

\* A swallowed input touches no decision.
LEMMA BlockedInputInv ==
  ASSUME IInv, BlockedInput
  PROVE  IInv'
<1>1. FlagsOK'
  BY Zenon DEF BlockedInput, IInv, TypeOK, FlagsOK, control, closure
<1>2. TypesOK'
  BY SMT DEF BlockedInput, IInv, TypeOK, TypesOK, durable, control, handlers,
     closure, loop
<1>3. UNCHANGED quiet
  BY SMT DEF quiet, BlockedInput, control, closure
<1>4. Busy' => current # None
  BY SMT DEF BlockedInput, closure, loop, IInv, ClosureIsStored, Busy
<1>5. CodingUnderLock'
  BY SMT DEF BlockedInput, IInv, CodingUnderLock, durable
<1>. QED  BY <1>1, <1>2, <1>3, <1>4, <1>5, QuietFrame DEF TypeOK

\* A model picked by the user starts a repair only under a decision.
LEMMA ModelSelectInv ==
  ASSUME IInv, NEW m \in Models, model_select(m)
  PROVE  IInv'
<1>1. FlagsOK'
  BY Zenon DEF model_select, IInv, TypeOK, FlagsOK, control
<1>2. TypesOK'
  BY SMT DEF model_select, IInv, TypeOK, TypesOK, durable, control, handlers,
     loop, observed
<1>3. UNCHANGED quiet
  BY SMT DEF quiet, model_select, control
<1>4. Busy' => current # None
  BY SMT DEF model_select, loop, IInv, ClosureIsStored, Busy, TypeOK, FlagsOK
<1>5. CodingUnderLock'
  BY SMT DEF model_select, IInv, CodingUnderLock, durable, observed
<1>. QED  BY <1>1, <1>2, <1>3, <1>4, <1>5, QuietFrame DEF TypeOK

\* A compaction starts only under a decision.
LEMMA SessionBeforeCompactInv ==
  ASSUME IInv, NEW restored \in BOOLEAN, session_before_compact(restored)
  PROVE  IInv'
<1>1. FlagsOK'
  BY Zenon DEF session_before_compact, startRequestTimer, IInv, TypeOK,
     FlagsOK
<1>2. TypesOK'
  BY SMT DEF session_before_compact, IInv, TypeOK, TypesOK, durable, handlers,
     observed, Models, Decision
<1>3. UNCHANGED quiet
  BY SMT DEF quiet, session_before_compact
<1>4. Busy' => current # None
  BY SMT DEF session_before_compact
<1>5. CodingUnderLock'
  BY SMT DEF session_before_compact, IInv, CodingUnderLock, durable, observed
<1>. QED  BY <1>1, <1>2, <1>3, <1>4, <1>5, QuietFrame DEF TypeOK

-----------------------------------------------------------------------------
(* The invariant holds. *)

\* An empty project satisfies the invariant.
LEMMA InitInv == Init => IInv
<1>. SUFFICES ASSUME Init PROVE IInv
  OBVIOUS
<1>1. FlagsOK
  BY Zenon DEF Init, FlagsOK
<1>2. TypesOK
  BY SMT DEF Init, TypesOK, Pcs, Models, Tiers
<1>3. CreatingIsFirst /\ StoreIsFirst /\ UnusedIsFresh
  BY SMT DEF Init, CreatingIsFirst, StoreIsFirst, UnusedIsFresh
<1>4. HandlerIsAttached /\ ClosureIsStored
  BY SMT DEF Init, HandlerIsAttached, ClosureIsStored, Busy
<1>5. CodingUnderLock
  BY Zenon DEF Init, CodingUnderLock
<1>. QED  BY <1>1, <1>2, <1>3, <1>4, <1>5 DEF IInv, TypeOK

\* Every step of every actor preserves the invariant.
LEMMA NextInv == IInv /\ [Next]_vars => IInv'
<1>. SUFFICES ASSUME IInv, [Next]_vars PROVE IInv'
  OBVIOUS
<1>1. ASSUME NEW s \in Sessions, InputStep(s) PROVE IInv'
  <2>1. CASE create_fixed(s)
    BY <2>1, CreateFixedInv
  <2>2. CASE create_routed(s)
    BY <2>2, CreateRoutedInv
  <2>3. ASSUME NEW tier \in Tiers,
               create_resolved(s, tier)
        PROVE  IInv'
    BY <2>3, CreateResolvedInv
  <2>4. CASE store_write(s)
    BY <2>4, StoreWriteInv
  <2>5. CASE input_created(s)
    BY <2>5, InputCreatedInv
  <2>6. CASE input_continue(s)
    BY <2>6, InputContinueInv
  <2>7. CASE input_fail(s)
    BY <2>7, InputFailInv
  <2>8. CASE input_limit(s)
    BY <2>8, InputLimitInv
  <2>9. CASE input_late(s)
    BY <2>9, InputLateInv
  <2>10. ASSUME NEW appended \in BOOLEAN,
               NEW ending \in {"continue", "fail", "late"},
               orphan_ends(s, appended, ending)
        PROVE  IInv'
    BY <2>10, OrphanEndsInv
  <2>. QED  BY <1>1, <2>1, <2>2, <2>3, <2>4, <2>5, <2>6, <2>7, <2>8, <2>9,
     <2>10 DEF InputStep
<1>2. ASSUME AgentStep PROVE IInv'
  <2>1. CASE before_agent_start
    BY <2>1, BeforeAgentStartInv
  <2>2. CASE turn_start
    BY <2>2, TurnStartInv
  <2>3. CASE before_provider_request
    BY <2>3, BeforeProviderRequestInv
  <2>4. CASE compact_request
    BY <2>4, CompactRequestInv
  <2>5. CASE agent_settled
    BY <2>5, AgentSettledInv
  <2>. QED  BY <1>2, <2>1, <2>2, <2>3, <2>4, <2>5 DEF AgentStep
<1>3. ASSUME AnswerStep PROVE IInv'
  <2>1. ASSUME NEW tools \in BOOLEAN,
               message_end(tools)
        PROVE  IInv'
    BY <2>1, MessageEndInv
  <2>2. CASE turn_end
    BY <2>2, TurnEndInv
  <2>3. ASSUME NEW retry \in BOOLEAN,
               session_compact(retry)
        PROVE  IInv'
    BY <2>3, SessionCompactInv
  <2>. QED  BY <1>3, <2>1, <2>2, <2>3 DEF AnswerStep
<1>4. ASSUME TimerStep PROVE IInv'
  <2>1. ASSUME NEW t \in Timers, RunTimerFires(t)
        PROVE  IInv'
    BY <2>1, RunTimerFiresInv
  <2>2. CASE RequestTimerFires
    BY <2>2, RequestTimerFiresInv
  <2>3. CASE StrayTimerFires
    BY <2>3, StrayTimerFiresInv
  <2>. QED  BY <1>4, <2>1, <2>2, <2>3 DEF TimerStep
<1>5. ASSUME RepairStep PROVE IInv'
  <2>1. CASE RepairModel
    BY <2>1, RepairModelInv
  <2>2. CASE RepairEnds
    BY <2>2, RepairEndsInv
  <2>. QED  BY <1>5, <2>1, <2>2 DEF RepairStep
<1>6. ASSUME UserStep PROVE IInv'
  <2>1. ASSUME NEW s \in Sessions,
               input(s)
        PROVE  IInv'
    BY <2>1, InputInv
  <2>2. CASE BlockedInput
    BY <2>2, BlockedInputInv
  <2>3. ASSUME NEW m \in Models,
               model_select(m)
        PROVE  IInv'
    BY <2>3, ModelSelectInv
  <2>4. ASSUME NEW restored \in BOOLEAN,
               session_before_compact(restored)
        PROVE  IInv'
    BY <2>4, SessionBeforeCompactInv
  <2>5. CASE session_shutdown
    BY <2>5, SessionShutdownInv
  <2>. QED  BY <1>6, <2>1, <2>2, <2>3, <2>4, <2>5 DEF UserStep
<1>7. ASSUME LifecycleStep PROVE IInv'
  <2>1. ASSUME NEW s \in Sessions,
               NEW reason \in {"startup", "resume"},
               NEW p \in Process,
               NEW restored \in BOOLEAN,
               StartProcess(s, reason, p, restored)
        PROVE  IInv'
    BY <2>1, StartProcessInv
  <2>2. ASSUME NEW s \in Sessions,
               NEW reason \in {"new", "fork", "resume"},
               NEW copied \in BOOLEAN,
               NEW restored \in BOOLEAN,
               SwitchSession(s, reason, copied, restored)
        PROVE  IInv'
    BY <2>2, SwitchSessionInv
  <2>3. ASSUME NEW kept \in [Sessions -> {"all", "entries", "none"}],
               ProcessEnds(kept)
        PROVE  IInv'
    BY <2>3, ProcessEndsInv
  <2>. QED  BY <1>7, <2>1, <2>2, <2>3 DEF LifecycleStep
<1>8. CASE UNCHANGED vars
  <2>1. FlagsOK'
    BY <1>8, Zenon DEF IInv, TypeOK, FlagsOK, vars, control, closure
  <2>2. TypesOK'
    BY <1>8, SMT DEF IInv, TypeOK, TypesOK, vars, durable, control, handlers,
       closure, loop, observed
  <2>3. UNCHANGED quiet /\ (Busy' <=> Busy) /\ UNCHANGED calls
    BY <1>8, Zenon DEF quiet, Busy, vars, control, closure, loop, observed
  <2>4. Busy' => current # None
    BY <2>3, Zenon DEF IInv, ClosureIsStored
  <2>5. CodingUnderLock'
    BY <2>3, SMT DEF IInv, CodingUnderLock, quiet, durable
  <2>. QED  BY <2>1, <2>2, <2>3, <2>4, <2>5, QuietFrame DEF TypeOK
<1>. QED  BY <1>1, <1>2, <1>3, <1>4, <1>5, <1>6, <1>7, <1>8, Zenon DEF Next

-----------------------------------------------------------------------------
(* Refinement of the ledger. *)

\* Every step is a decision, a call or a stutter of the ledger: the rename of
\* RoutingDecisionStore.write decides, and a request that
\* before_provider_request lets through is a call.
LEMMA LedgerStep ==
  IInv /\ [Next]_vars => [Ledger!Next]_<<store, calls>>
<1>. SUFFICES ASSUME IInv, [Next]_vars PROVE [Ledger!Next]_<<store, calls>>
  OBVIOUS
<1>1. ASSUME NEW s \in Sessions, InputStep(s) PROVE [Ledger!Next]_<<store, calls>>
  <2>1. CASE create_fixed(s)
    BY <2>1, SMT DEF create_fixed, DecisionReady, observed
  <2>2. CASE create_routed(s)
    BY <2>2, SMT DEF create_routed, durable, observed
  <2>3. ASSUME NEW tier \in Tiers,
               create_resolved(s, tier)
        PROVE  [Ledger!Next]_<<store, calls>>
    BY <2>3, SMT DEF create_resolved, DecisionReady, observed
  <2>4. CASE store_write(s)
    <3>1. store[s] = None /\ pending[s] \in Decision
      BY <2>4, SMT DEF IInv, TypeOK, TypesOK, CreatingIsFirst, store_write
    <3>2. store' = [store EXCEPT ![s] = pending[s]] /\ store'[s] = pending[s]
      BY <2>4, SMT DEF IInv, TypeOK, TypesOK, store_write
    <3>3. Ledger!Decide(s)
      BY <2>4, <3>1, <3>2, Zenon DEF Ledger!Decide, store_write, observed
    <3>. QED  BY <3>3, Zenon DEF Ledger!Next
  <2>5. CASE input_created(s)
    BY <2>5, SMT DEF input_created, observed
  <2>6. CASE input_continue(s)
    BY <2>6, SMT DEF input_continue, durable
  <2>7. CASE input_fail(s)
    BY <2>7, SMT DEF input_fail, durable
  <2>8. CASE input_limit(s)
    BY <2>8, SMT DEF input_limit, durable
  <2>9. CASE input_late(s)
    BY <2>9, SMT DEF input_late, durable
  <2>10. ASSUME NEW appended \in BOOLEAN,
               NEW ending \in {"continue", "fail", "late"},
               orphan_ends(s, appended, ending)
        PROVE  [Ledger!Next]_<<store, calls>>
    BY <2>10, SMT DEF orphan_ends, observed
  <2>. QED  BY <1>1, <2>1, <2>2, <2>3, <2>4, <2>5, <2>6, <2>7, <2>8, <2>9,
     <2>10 DEF InputStep
<1>2. ASSUME AgentStep PROVE [Ledger!Next]_<<store, calls>>
  <2>1. CASE before_agent_start
    BY <2>1, SMT DEF before_agent_start, observed
  <2>2. CASE turn_start
    BY <2>2, SMT DEF turn_start, durable, observed
  <2>3. CASE before_provider_request
    BY <2>3, SMT DEF IInv, ClosureIsStored, TypeOK, TypesOK,
       before_provider_request, RequestAllowed, durable, Ledger!Next,
       Ledger!Call
  <2>4. CASE compact_request
    BY <2>4, SMT DEF IInv, ClosureIsStored, TypeOK, TypesOK, compact_request,
       RequestAllowed, durable, Ledger!Next, Ledger!Call
  <2>5. CASE agent_settled
    BY <2>5, SMT DEF agent_settled, durable, observed
  <2>. QED  BY <1>2, <2>1, <2>2, <2>3, <2>4, <2>5 DEF AgentStep
<1>3. ASSUME AnswerStep PROVE [Ledger!Next]_<<store, calls>>
  <2>1. ASSUME NEW tools \in BOOLEAN,
               message_end(tools)
        PROVE  [Ledger!Next]_<<store, calls>>
    BY <2>1, SMT DEF message_end, durable, observed
  <2>2. CASE turn_end
    BY <2>2, SMT DEF turn_end, durable, observed
  <2>3. ASSUME NEW retry \in BOOLEAN,
               session_compact(retry)
        PROVE  [Ledger!Next]_<<store, calls>>
    BY <2>3, SMT DEF session_compact, durable, observed
  <2>. QED  BY <1>3, <2>1, <2>2, <2>3 DEF AnswerStep
<1>4. ASSUME TimerStep PROVE [Ledger!Next]_<<store, calls>>
  <2>1. ASSUME NEW t \in Timers, RunTimerFires(t)
        PROVE  [Ledger!Next]_<<store, calls>>
    BY <2>1, SMT DEF RunTimerFires, durable, observed
  <2>2. CASE RequestTimerFires
    BY <2>2, SMT DEF RequestTimerFires, durable, observed
  <2>3. CASE StrayTimerFires
    BY <2>3, SMT DEF StrayTimerFires, durable, observed
  <2>. QED  BY <1>4, <2>1, <2>2, <2>3 DEF TimerStep
<1>5. ASSUME RepairStep PROVE [Ledger!Next]_<<store, calls>>
  <2>1. CASE RepairModel
    BY <2>1, SMT DEF RepairModel, durable, observed
  <2>2. CASE RepairEnds
    BY <2>2, SMT DEF RepairEnds, durable, observed
  <2>. QED  BY <1>5, <2>1, <2>2 DEF RepairStep
<1>6. ASSUME UserStep PROVE [Ledger!Next]_<<store, calls>>
  <2>1. ASSUME NEW s \in Sessions,
               input(s)
        PROVE  [Ledger!Next]_<<store, calls>>
    BY <2>1, SMT DEF input, durable
  <2>2. CASE BlockedInput
    BY <2>2, SMT DEF BlockedInput, durable
  <2>3. ASSUME NEW m \in Models,
               model_select(m)
        PROVE  [Ledger!Next]_<<store, calls>>
    BY <2>3, SMT DEF model_select, durable, observed
  <2>4. ASSUME NEW restored \in BOOLEAN,
               session_before_compact(restored)
        PROVE  [Ledger!Next]_<<store, calls>>
    BY <2>4, SMT DEF session_before_compact, durable, observed
  <2>5. CASE session_shutdown
    BY <2>5, SMT DEF session_shutdown, durable
  <2>. QED  BY <1>6, <2>1, <2>2, <2>3, <2>4, <2>5 DEF UserStep
<1>7. ASSUME LifecycleStep PROVE [Ledger!Next]_<<store, calls>>
  <2>1. ASSUME NEW s \in Sessions,
               NEW reason \in {"startup", "resume"},
               NEW p \in Process,
               NEW restored \in BOOLEAN,
               StartProcess(s, reason, p, restored)
        PROVE  [Ledger!Next]_<<store, calls>>
    BY <2>1, SMT DEF StartProcess
  <2>2. ASSUME NEW s \in Sessions,
               NEW reason \in {"new", "fork", "resume"},
               NEW copied \in BOOLEAN,
               NEW restored \in BOOLEAN,
               SwitchSession(s, reason, copied, restored)
        PROVE  [Ledger!Next]_<<store, calls>>
    BY <2>2, SMT DEF SwitchSession
  <2>3. ASSUME NEW kept \in [Sessions -> {"all", "entries", "none"}],
               ProcessEnds(kept)
        PROVE  [Ledger!Next]_<<store, calls>>
    BY <2>3, SMT DEF ProcessEnds
  <2>. QED  BY <1>7, <2>1, <2>2, <2>3 DEF LifecycleStep
<1>8. CASE UNCHANGED vars
  BY <1>8, SMT DEF vars, durable, observed
<1>. QED  BY <1>1, <1>2, <1>3, <1>4, <1>5, <1>6, <1>7, <1>8, Zenon DEF Next

-----------------------------------------------------------------------------
(* The properties. *)

\* The invariant holds throughout.
THEOREM Invariance == Spec => []IInv
<1>. QED  BY InitInv, NextInv, PTL DEF Spec

\* Every variable keeps its type, for every value of the constants.
THEOREM TypeCorrect == Spec => []TypeOK
<1>1. IInv => TypeOK
  BY DEF IInv
<1>. QED  BY <1>1, Invariance, PTL

\* Every request sent to a provider was for the model of the session's stored
\* decision, in any number of sessions, processes, crashes and switches.
THEOREM LockHolds == Spec => []CodingUnderLock
<1>1. IInv => CodingUnderLock
  BY DEF IInv
<1>. QED  BY <1>1, Invariance, PTL

\* create() runs, and the classifier is asked, only for a session without a
\* stored decision.
THEOREM RoutedOnce == Spec => []NoReclassification
<1>1. IInv => NoReclassification
  BY SMT DEF IInv, CreatingIsFirst, NoReclassification
<1>. QED  BY <1>1, Invariance, PTL

\* Messages of a session's runs are in its file only when its decision is in the
\* store, and its custom entries are that decision.
THEOREM StoreBeforeCode == Spec => []PersistedBeforeCoding
<1>1. IInv => PersistedBeforeCoding
  BY DEF IInv, StoreIsFirst, PersistedBeforeCoding
<1>. QED  BY <1>1, Invariance, PTL

\* The routing extension implements the abstract decision ledger.
THEOREM LedgerRefined == Spec => LedgerSpec
<1>1. Init => Ledger!Init
  BY DEF Init, Ledger!Init
<1>. QED  BY <1>1, LedgerStep, Invariance, PTL DEF Spec, LedgerSpec,
   Ledger!Spec

\* A decision on disk is never replaced or removed.
THEOREM DecisionsStay == Spec => DecisionImmutable
<1>1. ASSUME IInv, [Ledger!Next]_<<store, calls>>
      PROVE  \A s \in Sessions : store[s] # None => store'[s] = store[s]
  BY <1>1, SMT DEF IInv, TypeOK, TypesOK, Ledger!Next, Ledger!Decide,
     Ledger!Call
<1>2. IInv /\ [Next]_vars =>
        [\A s \in Sessions : store[s] # None => store'[s] = store[s]]_vars
  BY <1>1, LedgerStep
<1>. QED  BY <1>2, Invariance, PTL DEF Spec, DecisionImmutable

\* A session's custom entries hold nothing or its one stored decision, so load()
\* never finds two.
LEMMA OwnAtMostOne ==
  ASSUME IInv, NEW s \in Sessions
  PROVE  /\ own[s] = {} \/ (store[s] # None /\ own[s] = {store[s]})
         /\ ~(Cardinality(own[s]) > 1)
<1>1. own[s] = {} \/ (store[s] # None /\ own[s] = {store[s]})
  BY ConstantsAssumption, SMT DEF IInv, TypeOK, TypesOK, StoreIsFirst
<1>2. Cardinality(own[s]) = 0 \/ Cardinality(own[s]) = 1
  BY <1>1, FS_EmptySet, FS_Singleton
<1>. QED  BY <1>1, <1>2

\* Wherever the last process was killed, load() refuses a session in a process that
\* fits it exactly when its file has messages and no decision.
THEOREM ResumesExactly == Spec => []ResumableExactly
<1>1. ASSUME IInv PROVE ResumableExactly
  <2>1. SUFFICES ASSUME NEW s \in used, NEW p \in Process, Fits(s, p)
                 PROVE  loadError(s, "resume", p)
                          <=> hasCodingHistory(s) /\ own[s] = {}
    BY DEF ResumableExactly
  <2>2. s \in Sessions
    BY <1>1 DEF IInv, TypeOK, TypesOK
  <2>3. own[s] = {} \/ (store[s] # None /\ own[s] = {store[s]})
    BY <1>1, <2>2, OwnAtMostOne
  <2>4. ~(Cardinality(own[s]) > 1)
    BY <1>1, <2>2, OwnAtMostOne
  <2>5. store[s] # None => p.mode = store[s].mode /\ p.config = store[s].config
    BY <2>1 DEF Fits
  <2>. QED  BY <2>3, <2>4, <2>5 DEF loadError
<1>. QED  BY <1>1, Invariance, PTL

-----------------------------------------------------------------------------
(* Two properties with a strengthening of their own. *)

\* A closure blocked by a failed start-up has its error recorded too.
Reported == (blocked => lastError) /\ SwallowedInputReported

\* Every step keeps a refused input's error recorded: lastError is reset only
\* by the input handler, which then has not answered yet, and with the process.
LEMMA ReportedStep == IInv /\ Reported /\ [Next]_vars => Reported'
<1>. SUFFICES ASSUME IInv, Reported, [Next]_vars PROVE Reported'
  OBVIOUS
<1>1. ASSUME NEW s \in Sessions, InputStep(s) PROVE Reported'
  <2>1. CASE create_fixed(s)
    BY <2>1, Zenon DEF create_fixed, DecisionReady, Reported,
       SwallowedInputReported, control, closure, observed
  <2>2. CASE create_routed(s)
    BY <2>2, Zenon DEF create_routed, Reported, SwallowedInputReported,
       control, closure, observed
  <2>3. ASSUME NEW tier \in Tiers,
               create_resolved(s, tier)
        PROVE  Reported'
    BY <2>3, Zenon DEF create_resolved, DecisionReady, Reported,
       SwallowedInputReported, control, closure, observed
  <2>4. CASE store_write(s)
    BY <2>4, Zenon DEF store_write, Reported, SwallowedInputReported, control,
       closure, observed
  <2>5. CASE input_created(s)
    BY <2>5, Zenon DEF input_created, Reported, SwallowedInputReported,
       control, observed
  <2>6. CASE input_continue(s)
    BY <2>6, Zenon DEF input_continue, Reported, SwallowedInputReported,
       control
  <2>7. CASE input_fail(s)
    BY <2>7, Zenon DEF input_fail, input_catch, Reported,
       SwallowedInputReported
  <2>8. CASE input_limit(s)
    BY <2>8, Zenon DEF input_limit, input_catch, Reported,
       SwallowedInputReported
  <2>9. CASE input_late(s)
    BY <2>9, Zenon DEF input_late, input_catch, Reported,
       SwallowedInputReported
  <2>10. ASSUME NEW appended \in BOOLEAN,
               NEW ending \in {"continue", "fail", "late"},
               orphan_ends(s, appended, ending)
        PROVE  Reported'
    BY <2>10, Zenon DEF orphan_ends, Reported, SwallowedInputReported,
       closure, observed
  <2>. QED  BY <1>1, <2>1, <2>2, <2>3, <2>4, <2>5, <2>6, <2>7, <2>8, <2>9,
     <2>10 DEF InputStep
<1>2. ASSUME AgentStep PROVE Reported'
  <2>1. CASE before_agent_start
    BY <2>1, Zenon DEF before_agent_start, Reported, SwallowedInputReported,
       closure, observed
  <2>2. CASE turn_start
    BY <2>2, Zenon DEF turn_start, stopForLimit, Reported,
       SwallowedInputReported, observed
  <2>3. CASE before_provider_request
    BY <2>3, Zenon DEF before_provider_request, Reported,
       SwallowedInputReported, control, closure
  <2>4. CASE compact_request
    BY <2>4, Zenon DEF compact_request, Reported, SwallowedInputReported,
       control
  <2>5. CASE agent_settled
    BY <2>5, Zenon DEF agent_settled, Reported, SwallowedInputReported,
       control, observed
  <2>. QED  BY <1>2, <2>1, <2>2, <2>3, <2>4, <2>5 DEF AgentStep
<1>3. ASSUME AnswerStep PROVE Reported'
  <2>1. ASSUME NEW tools \in BOOLEAN,
               message_end(tools)
        PROVE  Reported'
    BY <2>1, Zenon DEF message_end, Reported, SwallowedInputReported, control,
       observed
  <2>2. CASE turn_end
    BY <2>2, Zenon DEF turn_end, Reported, SwallowedInputReported, control,
       observed
  <2>3. ASSUME NEW retry \in BOOLEAN,
               session_compact(retry)
        PROVE  Reported'
    BY <2>3, Zenon DEF session_compact, Reported, SwallowedInputReported,
       control, observed
  <2>. QED  BY <1>3, <2>1, <2>2, <2>3 DEF AnswerStep
<1>4. ASSUME TimerStep PROVE Reported'
  <2>1. ASSUME NEW t \in Timers, RunTimerFires(t)
        PROVE  Reported'
    BY <2>1, Zenon DEF RunTimerFires, stopForLimit, Reported,
       SwallowedInputReported
  <2>2. CASE RequestTimerFires
    BY <2>2, Zenon DEF RequestTimerFires, stopForLimit, Reported,
       SwallowedInputReported
  <2>3. CASE StrayTimerFires
    BY <2>3, Zenon DEF StrayTimerFires, Reported, SwallowedInputReported
  <2>. QED  BY <1>4, <2>1, <2>2, <2>3 DEF TimerStep
<1>5. ASSUME RepairStep PROVE Reported'
  <2>1. CASE RepairModel
    BY <2>1, Zenon DEF RepairModel, Reported, SwallowedInputReported, control,
       observed
  <2>2. CASE RepairEnds
    BY <2>2, Zenon DEF RepairEnds, Reported, SwallowedInputReported, control,
       observed
  <2>. QED  BY <1>5, <2>1, <2>2 DEF RepairStep
<1>6. ASSUME UserStep PROVE Reported'
  <2>1. ASSUME NEW s \in Sessions,
               input(s)
        PROVE  Reported'
    BY <2>1, Zenon DEF input, AcceptsInput, Reported, SwallowedInputReported
  <2>2. CASE BlockedInput
    BY <2>2, Zenon DEF BlockedInput, Reported, SwallowedInputReported, control
  <2>3. ASSUME NEW m \in Models,
               model_select(m)
        PROVE  Reported'
    BY <2>3, Zenon DEF model_select, Reported, SwallowedInputReported,
       control, observed
  <2>4. ASSUME NEW restored \in BOOLEAN,
               session_before_compact(restored)
        PROVE  Reported'
    BY <2>4, SMT DEF session_before_compact, Reported, SwallowedInputReported,
       observed
  <2>5. CASE session_shutdown
    BY <2>5, Zenon DEF session_shutdown, FreshClosure, Reported,
       SwallowedInputReported
  <2>. QED  BY <1>6, <2>1, <2>2, <2>3, <2>4, <2>5 DEF UserStep
<1>7. ASSUME LifecycleStep PROVE Reported'
  <2>1. ASSUME NEW s \in Sessions,
               NEW reason \in {"startup", "resume"},
               NEW p \in Process,
               NEW restored \in BOOLEAN,
               StartProcess(s, reason, p, restored)
        PROVE  Reported'
    BY <2>1, Zenon DEF StartProcess, session_start, FreshClosure, Reported,
       SwallowedInputReported
  <2>2. ASSUME NEW s \in Sessions,
               NEW reason \in {"new", "fork", "resume"},
               NEW copied \in BOOLEAN,
               NEW restored \in BOOLEAN,
               SwitchSession(s, reason, copied, restored)
        PROVE  Reported'
    BY <2>2, Zenon DEF SwitchSession, session_start, FreshClosure, Reported,
       SwallowedInputReported
  <2>3. ASSUME NEW kept \in [Sessions -> {"all", "entries", "none"}],
               ProcessEnds(kept)
        PROVE  Reported'
    BY <2>3, Zenon DEF ProcessEnds, FreshClosure, Reported,
       SwallowedInputReported
  <2>. QED  BY <1>7, <2>1, <2>2, <2>3 DEF LifecycleStep
<1>8. CASE UNCHANGED vars
  BY <1>8, Zenon DEF vars, control, closure, observed, Reported,
     SwallowedInputReported
<1>. QED  BY <1>1, <1>2, <1>3, <1>4, <1>5, <1>6, <1>7, <1>8, Zenon DEF Next

\* An input that the handler swallowed leaves lastError set.
THEOREM RefusalsReported == Spec => []SwallowedInputReported
<1>1. Init => Reported
  BY DEF Init, Reported, SwallowedInputReported
<1>2. Reported => SwallowedInputReported
  BY DEF Reported
<1>. QED  BY <1>1, <1>2, ReportedStep, Invariance, PTL DEF Spec

\* The request that a steering input may add between turn_start and the request.
Slack == IF Steering THEN 1 ELSE 0

\* Requests never outnumber the turns counted, a turn in progress has room for
\* one more, and without steering no input is accepted during a run.
Budgeted ==
  /\ TurnBudget
  /\ requests <= turns + Slack
  /\ agent = "turn" => turns <= MaxTurns /\ requests + 1 <= turns + Slack
  /\ ~Steering => \A s \in Sessions :
       pc[s] # "idle" /\ s \notin orphans => agent = "idle"

\* Every step keeps the count: turn_start makes room for the one request that
\* before_provider_request lets through.
LEMMA BudgetStep == IInv /\ Budgeted /\ [Next]_vars => Budgeted'
<1>. SUFFICES ASSUME IInv, Budgeted, [Next]_vars PROVE Budgeted'
  OBVIOUS
<1>1. ASSUME NEW s \in Sessions, InputStep(s) PROVE Budgeted'
  <2>1. CASE create_fixed(s)
    BY <2>1, SMT DEF create_fixed, DecisionReady, Budgeted, TurnBudget,
       closure, loop, observed
  <2>2. CASE create_routed(s)
    BY <2>2, SMT DEF create_routed, Budgeted, TurnBudget, closure, loop,
       observed
  <2>3. ASSUME NEW tier \in Tiers,
               create_resolved(s, tier)
        PROVE  Budgeted'
    BY <2>3, SMT DEF create_resolved, DecisionReady, Budgeted, TurnBudget,
       closure, loop, observed
  <2>4. CASE store_write(s)
    BY <2>4, SMT DEF store_write, Budgeted, TurnBudget, closure, loop,
       observed
  <2>5. CASE input_created(s)
    BY <2>5, SMT DEF input_created, Budgeted, TurnBudget, loop, observed
  <2>6. CASE input_continue(s)
    BY <2>6, ConstantsAssumption, SMT DEF input_continue, Mine, IInv, TypeOK,
       TypesOK, Budgeted, TurnBudget, Slack, HandlerIsAttached
  <2>7. CASE input_fail(s)
    BY <2>7, SMT DEF input_fail, input_catch, IInv, TypeOK, TypesOK, Budgeted,
       TurnBudget, loop
  <2>8. CASE input_limit(s)
    BY <2>8, SMT DEF input_limit, input_catch, Mine, Aborted, IInv, TypeOK,
       TypesOK, Budgeted, TurnBudget, HandlerIsAttached
  <2>9. CASE input_late(s)
    BY <2>9, SMT DEF input_late, input_catch, Mine, Aborted, IInv, TypeOK,
       TypesOK, Budgeted, TurnBudget, HandlerIsAttached
  <2>10. ASSUME NEW appended \in BOOLEAN,
               NEW ending \in {"continue", "fail", "late"},
               orphan_ends(s, appended, ending)
        PROVE  Budgeted'
    BY <2>10, SMT DEF orphan_ends, IInv, TypeOK, TypesOK, Budgeted,
       TurnBudget, closure, loop, observed
  <2>. QED  BY <1>1, <2>1, <2>2, <2>3, <2>4, <2>5, <2>6, <2>7, <2>8, <2>9,
     <2>10 DEF InputStep
<1>2. ASSUME AgentStep PROVE Budgeted'
  <2>1. CASE before_agent_start
    BY <2>1, SMT DEF before_agent_start, Budgeted, TurnBudget, handlers,
       closure, observed
  <2>2. CASE turn_start
    BY <2>2, ConstantsAssumption, SMT DEF turn_start, stopForLimit, Aborted,
       OverBudget, IInv, TypeOK, TypesOK, Budgeted, TurnBudget, Slack,
       handlers, observed
  <2>3. CASE before_provider_request
    BY <2>3, ConstantsAssumption, SMT DEF before_provider_request, IInv,
       TypeOK, TypesOK, Budgeted, TurnBudget, Slack, handlers, closure
  <2>4. CASE compact_request
    BY <2>4, SMT DEF compact_request, Budgeted, TurnBudget, handlers
  <2>5. CASE agent_settled
    BY <2>5, SMT DEF agent_settled, Budgeted, TurnBudget, observed
  <2>. QED  BY <1>2, <2>1, <2>2, <2>3, <2>4, <2>5 DEF AgentStep
<1>3. ASSUME AnswerStep PROVE Budgeted'
  <2>1. ASSUME NEW tools \in BOOLEAN,
               message_end(tools)
        PROVE  Budgeted'
    BY <2>1, SMT DEF message_end, Budgeted, TurnBudget, handlers, observed
  <2>2. CASE turn_end
    BY <2>2, SMT DEF turn_end, Budgeted, TurnBudget, handlers, observed
  <2>3. ASSUME NEW retry \in BOOLEAN,
               session_compact(retry)
        PROVE  Budgeted'
    BY <2>3, SMT DEF session_compact, Budgeted, TurnBudget, handlers, observed
  <2>. QED  BY <1>3, <2>1, <2>2, <2>3 DEF AnswerStep
<1>4. ASSUME TimerStep PROVE Budgeted'
  <2>1. ASSUME NEW t \in Timers, RunTimerFires(t)
        PROVE  Budgeted'
    BY <2>1, SMT DEF RunTimerFires, stopForLimit, Aborted, Budgeted,
       TurnBudget, handlers, observed, RunStates
  <2>2. CASE RequestTimerFires
    BY <2>2, SMT DEF RequestTimerFires, stopForLimit, Aborted, Budgeted,
       TurnBudget, handlers, observed, RunStates
  <2>3. CASE StrayTimerFires
    BY <2>3, SMT DEF StrayTimerFires, Budgeted, TurnBudget, handlers, loop,
       observed
  <2>. QED  BY <1>4, <2>1, <2>2, <2>3 DEF TimerStep
<1>5. ASSUME RepairStep PROVE Budgeted'
  <2>1. CASE RepairModel
    BY <2>1, SMT DEF RepairModel, Budgeted, TurnBudget, handlers, loop,
       observed
  <2>2. CASE RepairEnds
    BY <2>2, SMT DEF RepairEnds, Budgeted, TurnBudget, handlers, loop,
       observed
  <2>. QED  BY <1>5, <2>1, <2>2 DEF RepairStep
<1>6. ASSUME UserStep PROVE Budgeted'
  <2>1. ASSUME NEW s \in Sessions,
               input(s)
        PROVE  Budgeted'
    BY <2>1, SMT DEF input, Budgeted, TurnBudget, loop
  <2>2. CASE BlockedInput
    BY <2>2, SMT DEF BlockedInput, Budgeted, TurnBudget, handlers, closure,
       loop
  <2>3. ASSUME NEW m \in Models,
               model_select(m)
        PROVE  Budgeted'
    BY <2>3, SMT DEF model_select, Budgeted, TurnBudget, handlers, loop,
       observed
  <2>4. ASSUME NEW restored \in BOOLEAN,
               session_before_compact(restored)
        PROVE  Budgeted'
    BY <2>4, SMT DEF session_before_compact, Budgeted, TurnBudget, handlers,
       observed
  <2>5. CASE session_shutdown
    BY <2>5, ConstantsAssumption, SMT DEF session_shutdown, FreshClosure,
       Budgeted, TurnBudget, Slack
  <2>. QED  BY <1>6, <2>1, <2>2, <2>3, <2>4, <2>5 DEF UserStep
<1>7. ASSUME LifecycleStep PROVE Budgeted'
  <2>1. ASSUME NEW s \in Sessions,
               NEW reason \in {"startup", "resume"},
               NEW p \in Process,
               NEW restored \in BOOLEAN,
               StartProcess(s, reason, p, restored)
        PROVE  Budgeted'
    BY <2>1, ConstantsAssumption, SMT DEF StartProcess, session_start,
       FreshClosure, Budgeted, TurnBudget, Slack
  <2>2. ASSUME NEW s \in Sessions,
               NEW reason \in {"new", "fork", "resume"},
               NEW copied \in BOOLEAN,
               NEW restored \in BOOLEAN,
               SwitchSession(s, reason, copied, restored)
        PROVE  Budgeted'
    BY <2>2, ConstantsAssumption, SMT DEF SwitchSession, session_start,
       FreshClosure, Budgeted, TurnBudget, Slack
  <2>3. ASSUME NEW kept \in [Sessions -> {"all", "entries", "none"}],
               ProcessEnds(kept)
        PROVE  Budgeted'
    BY <2>3, ConstantsAssumption, SMT DEF ProcessEnds, FreshClosure, Budgeted,
       TurnBudget, Slack
  <2>. QED  BY <1>7, <2>1, <2>2, <2>3 DEF LifecycleStep
<1>8. CASE UNCHANGED vars
  BY <1>8, SMT DEF vars, handlers, closure, loop, observed, Budgeted,
     TurnBudget
<1>. QED  BY <1>1, <1>2, <1>3, <1>4, <1>5, <1>6, <1>7, <1>8, Zenon DEF Next

\* At most maxAgentTurns coding requests follow an accepted input, one more if
\* steering is possible.
THEOREM TurnsBounded == Spec => []TurnBudget
<1>1. Init => Budgeted
  BY ConstantsAssumption, SMT DEF Init, Budgeted, TurnBudget, Slack
<1>2. Budgeted => TurnBudget
  BY DEF Budgeted
<1>. QED  BY <1>1, <1>2, BudgetStep, Invariance, PTL DEF Spec

-----------------------------------------------------------------------------
(* Timers.  That a silent provider or tool is cut (RequestBounded, ToolBounded) *)
(* rests on a timer being armed whenever one is waited for.                     *)

\* RequestTimed, and no compaction during a turn, whose end clears the same timer.
Timed ==
  /\ RequestTimed
  /\ agent \in {"between", "turn", "waiting", "tool"} => compact = "no"

\* Turns and compactions arm and clear one timer, but never while the other needs it.
LEMMA TimedStep == IInv /\ Timed /\ [Next]_vars => Timed'
<1>. SUFFICES ASSUME IInv, Timed, [Next]_vars PROVE Timed'
  OBVIOUS
<1>1. ASSUME NEW s \in Sessions, InputStep(s) PROVE Timed'
  <2>1. CASE create_fixed(s)
    BY <2>1, Zenon DEF create_fixed, DecisionReady, Timed, RequestTimed,
       control, closure, loop
  <2>2. CASE create_routed(s)
    BY <2>2, Zenon DEF create_routed, Timed, RequestTimed, control, closure,
       loop
  <2>3. ASSUME NEW tier \in Tiers,
               create_resolved(s, tier)
        PROVE  Timed'
    BY <2>3, Zenon DEF create_resolved, DecisionReady, Timed, RequestTimed,
       control, closure, loop
  <2>4. CASE store_write(s)
    BY <2>4, Zenon DEF store_write, Timed, RequestTimed, control, closure,
       loop
  <2>5. CASE input_created(s)
    BY <2>5, Zenon DEF input_created, Mine, Timed, RequestTimed, control, loop
  <2>6. CASE input_continue(s)
    BY <2>6, Zenon DEF input_continue, Mine, Timed, RequestTimed, control
  <2>7. CASE input_fail(s)
    BY <2>7, Zenon DEF input_fail, input_catch, Mine, Timed, RequestTimed,
       loop
  <2>8. CASE input_limit(s)
    BY <2>8, Zenon DEF input_limit, Aborted, RunStates, FirstLimit,
       input_catch, Mine, Timed, RequestTimed
  <2>9. CASE input_late(s)
    BY <2>9, Zenon DEF input_late, Aborted, RunStates, FirstLimit,
       input_catch, Mine, Timed, RequestTimed
  <2>10. ASSUME NEW appended \in BOOLEAN,
               NEW ending \in {"continue", "fail", "late"},
               orphan_ends(s, appended, ending)
        PROVE  Timed'
    BY <2>10, Zenon DEF orphan_ends, FirstLimit, Timed, RequestTimed, closure,
       loop
  <2>. QED  BY <1>1, <2>1, <2>2, <2>3, <2>4, <2>5, <2>6, <2>7, <2>8, <2>9,
     <2>10 DEF InputStep
<1>2. ASSUME AgentStep PROVE Timed'
  <2>1. CASE before_agent_start
    BY <2>1, Zenon DEF before_agent_start, Timed, RequestTimed, closure
  <2>2. CASE turn_start
    BY <2>2, Zenon DEF turn_start, stopForLimit, Aborted, RunStates,
       FirstLimit, startRequestTimer, Timed, RequestTimed
  <2>3. CASE before_provider_request
    BY <2>3, Zenon DEF before_provider_request, Timed, RequestTimed, control,
       closure
  <2>4. CASE compact_request
    BY <2>4, Zenon DEF compact_request, Timed, RequestTimed, control
  <2>5. CASE agent_settled
    BY <2>5, Zenon DEF agent_settled, Timed, RequestTimed, control
  <2>. QED  BY <1>2, <2>1, <2>2, <2>3, <2>4, <2>5 DEF AgentStep
<1>3. ASSUME AnswerStep PROVE Timed'
  <2>1. ASSUME NEW tools \in BOOLEAN,
               message_end(tools)
        PROVE  Timed'
    BY <2>1, Zenon DEF message_end, Timed, RequestTimed, control
  <2>2. CASE turn_end
    BY <2>2, Zenon DEF turn_end, Timed, RequestTimed, control
  <2>3. ASSUME NEW retry \in BOOLEAN,
               session_compact(retry)
        PROVE  Timed'
    BY <2>3, Zenon DEF session_compact, Timed, RequestTimed, control
  <2>. QED  BY <1>3, <2>1, <2>2, <2>3 DEF AnswerStep
<1>4. ASSUME TimerStep PROVE Timed'
  <2>1. ASSUME NEW t \in Timers, RunTimerFires(t)
        PROVE  Timed'
    BY <2>1, Zenon DEF RunTimerFires, stopForLimit, Aborted, RunStates,
       FirstLimit, Timed, RequestTimed
  <2>2. CASE RequestTimerFires
    BY <2>2, Zenon DEF RequestTimerFires, stopForLimit, Aborted, RunStates,
       FirstLimit, Timed, RequestTimed
  <2>3. CASE StrayTimerFires
    BY <2>3, Zenon DEF StrayTimerFires, FirstLimit, Timed, RequestTimed, loop
  <2>. QED  BY <1>4, <2>1, <2>2, <2>3 DEF TimerStep
<1>5. ASSUME RepairStep PROVE Timed'
  <2>1. CASE RepairModel
    BY <2>1, Zenon DEF RepairModel, Timed, RequestTimed, control, loop
  <2>2. CASE RepairEnds
    BY <2>2, Zenon DEF RepairEnds, Timed, RequestTimed, control, loop
  <2>. QED  BY <1>5, <2>1, <2>2 DEF RepairStep
<1>6. ASSUME UserStep PROVE Timed'
  <2>1. ASSUME NEW s \in Sessions,
               input(s)
        PROVE  Timed'
    BY <2>1, Zenon DEF input, AcceptsInput, Timed, RequestTimed, loop
  <2>2. CASE BlockedInput
    BY <2>2, Zenon DEF BlockedInput, Timed, RequestTimed, control, closure,
       loop
  <2>3. ASSUME NEW m \in Models,
               model_select(m)
        PROVE  Timed'
    BY <2>3, Zenon DEF model_select, Timed, RequestTimed, control, loop
  <2>4. ASSUME NEW restored \in BOOLEAN,
               session_before_compact(restored)
        PROVE  Timed'
    BY <2>4, Zenon DEF session_before_compact, startRequestTimer, Timed,
       RequestTimed
  <2>5. CASE session_shutdown
    BY <2>5, Zenon DEF session_shutdown, FreshClosure, Timed, RequestTimed
  <2>. QED  BY <1>6, <2>1, <2>2, <2>3, <2>4, <2>5 DEF UserStep
<1>7. ASSUME LifecycleStep PROVE Timed'
  <2>1. ASSUME NEW s \in Sessions,
               NEW reason \in {"startup", "resume"},
               NEW p \in Process,
               NEW restored \in BOOLEAN,
               StartProcess(s, reason, p, restored)
        PROVE  Timed'
    BY <2>1, Zenon DEF StartProcess, session_start, FreshClosure, Timed,
       RequestTimed
  <2>2. ASSUME NEW s \in Sessions,
               NEW reason \in {"new", "fork", "resume"},
               NEW copied \in BOOLEAN,
               NEW restored \in BOOLEAN,
               SwitchSession(s, reason, copied, restored)
        PROVE  Timed'
    BY <2>2, Zenon DEF SwitchSession, session_start, FreshClosure, Timed,
       RequestTimed
  <2>3. ASSUME NEW kept \in [Sessions -> {"all", "entries", "none"}],
               ProcessEnds(kept)
        PROVE  Timed'
    BY <2>3, Zenon DEF ProcessEnds, FreshClosure, Timed, RequestTimed
  <2>. QED  BY <1>7, <2>1, <2>2, <2>3 DEF LifecycleStep
<1>8. CASE UNCHANGED vars
  BY <1>8, Zenon DEF vars, control, closure, loop, Timed, RequestTimed
<1>. QED  BY <1>1, <1>2, <1>3, <1>4, <1>5, <1>6, <1>7, <1>8, Zenon DEF Next

\* Whatever requests, compactions, timers, aborts and inputs are interleaved, a
\* request that is under way has its timer.
THEOREM RequestsAreTimed == Spec => []RequestTimed
<1>1. Init => Timed
  BY DEF Init, Timed, RequestTimed
<1>2. Timed => RequestTimed
  BY DEF Timed
<1>. QED  BY <1>1, <1>2, TimedStep, Invariance, PTL DEF Spec

\* A run is under way, or an input handler that will start one.
Attended == agent # "idle" \/ \E s \in Sessions : pc[s] # "idle" /\ s \notin orphans

\* From the input that starts it until it is settled, a run has its wall-time timer or
\* is over its limit.
WallTimed == Attended => runTimer # "off" \/ limitError # "none"

\* Without steering the only handler that clears the timer has no run beside it.
LEMMA WallTimedStep ==
  ~Steering => (IInv /\ Budgeted /\ WallTimed /\ [Next]_vars => WallTimed')
<1>. SUFFICES ASSUME ~Steering, IInv, Budgeted, WallTimed, [Next]_vars PROVE WallTimed'
  OBVIOUS
<1>1. ASSUME NEW s \in Sessions, InputStep(s) PROVE WallTimed'
  <2>1. CASE create_fixed(s)
    BY <2>1, SMT DEF create_fixed, DecisionReady, WallTimed, Attended,
       control, closure, loop
  <2>2. CASE create_routed(s)
    BY <2>2, SMT DEF create_routed, WallTimed, Attended, control, closure,
       loop
  <2>3. ASSUME NEW tier \in Tiers,
               create_resolved(s, tier)
        PROVE  WallTimed'
    BY <2>3, SMT DEF create_resolved, DecisionReady, WallTimed, Attended,
       control, closure, loop
  <2>4. CASE store_write(s)
    BY <2>4, SMT DEF store_write, WallTimed, Attended, control, closure, loop
  <2>5. CASE input_created(s)
    BY <2>5, SMT DEF input_created, Mine, WallTimed, Attended, control, loop
  <2>6. CASE input_continue(s)
    BY <2>6, SMT DEF input_continue, Mine, WallTimed, Attended, control
  <2>7. CASE input_fail(s)
    <3>1. /\ pc' = [pc EXCEPT ![s] = "idle"] /\ orphans' = orphans \ {s}
          /\ agent' = agent /\ limitError' = limitError /\ pc[s] # "idle"
      BY <2>7 DEF input_fail, input_catch, loop
    <3>2. pc'[s] = "idle" /\ \A t \in Sessions \ {s} : pc'[t] = pc[t]
      BY <3>1 DEF IInv, TypeOK, TypesOK
    <3>3. CASE Mine(s)
      <4>1. agent = "idle"
        BY <3>1, <3>3 DEF Mine, Budgeted
      <4>2. \A t \in Sessions \ {s} : pc[t] = "idle" \/ t \in orphans
        BY <3>3 DEF Mine, IInv, HandlerIsAttached
      <4> QED
        BY <3>1, <3>2, <4>1, <4>2 DEF WallTimed, Attended
    <3>4. CASE ~Mine(s)
      <4>1. runTimer # "off" => runTimer' # "off"
        BY <2>7, <3>4, Zenon DEF input_fail, input_catch
      <4> QED
        BY <3>1, <3>2, <4>1 DEF WallTimed, Attended
    <3> QED
      BY <3>3, <3>4
  <2>8. CASE input_limit(s)
    BY <2>8, SMT DEF input_limit, Aborted, RunStates, FirstLimit, input_catch,
       Mine, WallTimed, Attended
  <2>9. CASE input_late(s)
    BY <2>9, SMT DEF input_late, Aborted, RunStates, FirstLimit, input_catch,
       Mine, WallTimed, Attended
  <2>10. ASSUME NEW appended \in BOOLEAN,
               NEW ending \in {"continue", "fail", "late"},
               orphan_ends(s, appended, ending)
        PROVE  WallTimed'
    BY <2>10, SMT DEF orphan_ends, FirstLimit, WallTimed, Attended, IInv,
       TypeOK, TypesOK, closure, loop
  <2>. QED  BY <1>1, <2>1, <2>2, <2>3, <2>4, <2>5, <2>6, <2>7, <2>8, <2>9,
     <2>10 DEF InputStep
<1>2. ASSUME AgentStep PROVE WallTimed'
  <2>1. CASE before_agent_start
    BY <2>1, SMT DEF before_agent_start, WallTimed, Attended, handlers,
       closure
  <2>2. CASE turn_start
    BY <2>2, SMT DEF turn_start, stopForLimit, Aborted, RunStates, FirstLimit,
       startRequestTimer, WallTimed, Attended, handlers
  <2>3. CASE before_provider_request
    BY <2>3, SMT DEF before_provider_request, WallTimed, Attended, control,
       handlers, closure
  <2>4. CASE compact_request
    BY <2>4, SMT DEF compact_request, WallTimed, Attended, control, handlers
  <2>5. CASE agent_settled
    BY <2>5, SMT DEF agent_settled, WallTimed, Attended, Budgeted, control,
       handlers
  <2>. QED  BY <1>2, <2>1, <2>2, <2>3, <2>4, <2>5 DEF AgentStep
<1>3. ASSUME AnswerStep PROVE WallTimed'
  <2>1. ASSUME NEW tools \in BOOLEAN,
               message_end(tools)
        PROVE  WallTimed'
    BY <2>1, SMT DEF message_end, WallTimed, Attended, control, handlers
  <2>2. CASE turn_end
    BY <2>2, SMT DEF turn_end, WallTimed, Attended, control, handlers
  <2>3. ASSUME NEW retry \in BOOLEAN,
               session_compact(retry)
        PROVE  WallTimed'
    BY <2>3, SMT DEF session_compact, WallTimed, Attended, control, handlers
  <2>. QED  BY <1>3, <2>1, <2>2, <2>3 DEF AnswerStep
<1>4. ASSUME TimerStep PROVE WallTimed'
  <2>1. ASSUME NEW t \in Timers, RunTimerFires(t)
        PROVE  WallTimed'
    BY <2>1, SMT DEF RunTimerFires, stopForLimit, Aborted, RunStates,
       FirstLimit, WallTimed, Attended, handlers
  <2>2. CASE RequestTimerFires
    BY <2>2, SMT DEF RequestTimerFires, stopForLimit, Aborted, RunStates,
       FirstLimit, WallTimed, Attended, handlers
  <2>3. CASE StrayTimerFires
    BY <2>3, SMT DEF StrayTimerFires, FirstLimit, WallTimed, Attended,
       handlers, loop
  <2>. QED  BY <1>4, <2>1, <2>2, <2>3 DEF TimerStep
<1>5. ASSUME RepairStep PROVE WallTimed'
  <2>1. CASE RepairModel
    BY <2>1, SMT DEF RepairModel, WallTimed, Attended, control, handlers, loop
  <2>2. CASE RepairEnds
    BY <2>2, SMT DEF RepairEnds, WallTimed, Attended, control, handlers, loop
  <2>. QED  BY <1>5, <2>1, <2>2 DEF RepairStep
<1>6. ASSUME UserStep PROVE WallTimed'
  <2>1. ASSUME NEW s \in Sessions,
               input(s)
        PROVE  WallTimed'
    BY <2>1, SMT DEF input, rearmRunTimer, AcceptsInput, WallTimed, Attended,
       loop
  <2>2. CASE BlockedInput
    BY <2>2, SMT DEF BlockedInput, WallTimed, Attended, control, handlers,
       closure, loop
  <2>3. ASSUME NEW m \in Models,
               model_select(m)
        PROVE  WallTimed'
    BY <2>3, SMT DEF model_select, WallTimed, Attended, control, handlers,
       loop
  <2>4. ASSUME NEW restored \in BOOLEAN,
               session_before_compact(restored)
        PROVE  WallTimed'
    BY <2>4, SMT DEF session_before_compact, startRequestTimer, WallTimed,
       Attended, handlers
  <2>5. CASE session_shutdown
    BY <2>5, SMT DEF session_shutdown, FreshClosure, WallTimed, Attended,
       IInv, HandlerIsAttached
  <2>. QED  BY <1>6, <2>1, <2>2, <2>3, <2>4, <2>5 DEF UserStep
<1>7. ASSUME LifecycleStep PROVE WallTimed'
  <2>1. ASSUME NEW s \in Sessions,
               NEW reason \in {"startup", "resume"},
               NEW p \in Process,
               NEW restored \in BOOLEAN,
               StartProcess(s, reason, p, restored)
        PROVE  WallTimed'
    BY <2>1, ConstantsAssumption, SMT DEF StartProcess, session_start,
       FreshClosure, WallTimed, Attended, IInv, HandlerIsAttached, handlers
  <2>2. ASSUME NEW s \in Sessions,
               NEW reason \in {"new", "fork", "resume"},
               NEW copied \in BOOLEAN,
               NEW restored \in BOOLEAN,
               SwitchSession(s, reason, copied, restored)
        PROVE  WallTimed'
    BY <2>2, ConstantsAssumption, SMT DEF SwitchSession, session_start,
       FreshClosure, WallTimed, Attended, IInv, HandlerIsAttached, handlers
  <2>3. ASSUME NEW kept \in [Sessions -> {"all", "entries", "none"}],
               ProcessEnds(kept)
        PROVE  WallTimed'
    BY <2>3, SMT DEF ProcessEnds, FreshClosure, WallTimed, Attended
  <2>. QED  BY <1>7, <2>1, <2>2, <2>3 DEF LifecycleStep
<1>8. CASE UNCHANGED vars
  BY <1>8, SMT DEF vars, control, handlers, closure, loop, WallTimed, Attended
<1>. QED  BY <1>1, <1>2, <1>3, <1>4, <1>5, <1>6, <1>7, <1>8, Zenon DEF Next

\* In a scripted session, where no input arrives during a run, a run with a tool under
\* way always has its wall-time timer, unless its limit is recorded already.
THEOREM ScriptedRunsAreTimed == ~Steering => (Spec => []WallTimerArmed)
<1>. SUFFICES ASSUME ~Steering PROVE Spec => []WallTimerArmed
  OBVIOUS
<1>1. Init => Budgeted /\ WallTimed
  BY ConstantsAssumption, SMT DEF Init, Budgeted, TurnBudget, Slack, WallTimed, Attended
<1>2. IInv /\ Budgeted /\ WallTimed /\ [Next]_vars => Budgeted' /\ WallTimed'
  BY BudgetStep, WallTimedStep
<1>3. WallTimed => WallTimerArmed
  BY DEF WallTimed, Attended, WallTimerArmed
<1>. QED  BY <1>1, <1>2, <1>3, Invariance, PTL DEF Spec
=============================================================================
