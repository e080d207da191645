------------------------- MODULE RunArtifacts_proofs -------------------------
(***************************************************************************)
(* The evidence of one agent process, for any number of sessions,          *)
(* attempts, calls and events, with or without faults.                     *)
(***************************************************************************)
EXTENDS RunArtifacts, SequenceTheorems, FiniteSetTheorems, TLAPS

-----------------------------------------------------------------------------
(* One recorder: the events in its log and, after them, in its queue. *)

Ev(r, n) == IF n <= Len(r.log) THEN r.log[n] ELSE r.queue[n - Len(r.log)]

\* The positions of the ends of calls among the first n events.
EndsTo(r, n) == {i \in 1..n : Ev(r, i).kind \in Ends}

Accounted(r) == r.complete \cup r.missing

\* The events are numbered in the order of the log and the queue, without a gap
\* unless a number was taken in vain.
Ordered(r) ==
  /\ r.broken => r.queue = <<>>
  /\ \A i \in 1..Size(r) : Ev(r, i).seq <= r.seq
  /\ \A i, j \in 1..Size(r) : i < j => Ev(r, i).seq < Ev(r, j).seq
  /\ ~r.skipped => /\ \A i \in 1..Size(r) : Ev(r, i).seq = i
                   /\ r.broken \/ r.seq = Size(r)

HasDecision(r, n, s) == \E i \in 1..n : Ev(r, i).kind = "decision" /\ Ev(r, i).of = s

\* Unless a write error is on record, every decision and every call that the recorder
\* has taken note of has its event, and only awaited events were lost.
Faithful(r) ==
  ~r.writeError =>
    /\ r.lost \subseteq Awaited
    /\ r.stored = r.decision
    /\ r.decision # None => HasDecision(r, Size(r), r.decision)
    /\ Cardinality(EndsTo(r, Size(r))) >= Cardinality(Accounted(r))

Sound(r) == Ordered(r) /\ Faithful(r)

AllSound == \A a \in 1..Len(recs) : Sound(recs[a])

-----------------------------------------------------------------------------
(* The driver and the result. *)

\* The phases fit together.
Driven ==
  /\ active # None <=> phase \in {"starting", "run"}
  /\ fin # "no" <=> phase \in {"closing", "quitting"}
  /\ phase \in {"starting", "run", "closing", "quitting", "disposing", "ok"} => artifacts # 0
  /\ phase \in {"starting", "run"} \/ fin # "no" => ~Current.finalized
  /\ snapshot # None <=> fin \in {"draining", "finalizing", "renamed"}
  /\ coding # 0 => phase = "run"
  /\ coding <= Len(calls)
  /\ \A s \in Sessions :
       asking[s] <= Len(calls) /\ (handler[s] = "asking" <=> asking[s] # 0)

\* A result is there from the rename on; of each session only the last recorder may
\* not be finalized.
Finalized ==
  /\ \A a \in 1..Len(recs) :
       /\ recs[a].run # None =>
            recs[a].finalized \/ (a = artifacts /\ fin = "renamed") \/ phase = "down"
       /\ recs[a].finalized => recs[a].run # None
       /\ recs[a].finalized \/ recorders[recs[a].of] = a
  /\ fin = "renamed" \/ phase \in {"disposing", "ok"} => Current.run # None

\* The recorder registered for a session is one of its own.
Registered == \A s \in Sessions : recorders[s] # 0 => recs[recorders[s]].of = s

\* The first n events of r hold what the result says.
Backs(r, res, n) ==
  /\ n \in 0..Size(r)
  /\ res.decision # None => HasDecision(r, n, res.decision)
  /\ Cardinality(EndsTo(r, n)) >= Cardinality(res.calls)

Backed ==
  /\ \A a \in 1..Len(recs) :
       recs[a].run # None =>
         \E k \in 1..Len(recs[a].log) :
           recs[a].log[k].kind = "finalization" /\ Backs(recs[a], recs[a].run, k - 1)
  /\ fin = "draining" /\ ~Current.broken => Backs(Current, snapshot, mark)
  /\ fin = "finalizing" /\ ~Current.broken =>
       /\ mark \in 1..Size(Current) /\ Ev(Current, mark).kind = "finalization"
       /\ Backs(Current, snapshot, mark - 1)

-----------------------------------------------------------------------------
(* As long as no work was cut off. *)

\* The kinds of event that r's notes rule out: an error while the run still counts
\* as completed, a failed compaction while no call is missing.
Excluded(r) ==
  (IF r.status = "completed" THEN {"error"} ELSE {})
    \cup (IF r.missing = {} THEN {"compaction-failed"} ELSE {})

OwnEvents(r) ==
  /\ r.decision \in {None, r.of}
  /\ \A i \in 1..Size(r) : Ev(r, i).of = r.of /\ Ev(r, i).kind \notin Excluded(r)

\* A result is what the recorder says now, and nothing is left to write.
Settles(r) ==
  r.run # None => r.run = FinalizeInput(r) /\ ~r.writeError /\ r.queue = <<>>

\* Only the attached session works, at its own recorder.
OwnActors ==
  /\ stray = {}
  /\ \A s \in Sessions : handler[s] # "idle" => phase = "run" /\ s = active
  /\ phase \in {"starting", "run"} => Current.of = active

\* While an attempt is summarised it is left alone.
OwnSummary ==
  /\ fin \in {"flushing", "finalizing"} => Current.broken \/ mark = Size(Current)
  /\ fin \in {"draining", "finalizing"} =>
       snapshot = FinalizeInput(Current) /\ ~Current.writeError
  /\ fin = "draining" => Current.queue = <<>>
  /\ fin = "finalizing" =>
       \A i \in 1..Len(Current.queue) : Current.queue[i].kind = "finalization"

OwnBooks == \A a \in 1..Len(recs) : OwnEvents(recs[a]) /\ Settles(recs[a])

\* A process that ends well has nothing left to write.
OwnEnd ==
  phase = "ok" => \A a \in 1..Len(recs) : recs[a].lost \subseteq Awaited /\ recs[a].queue = <<>>

Own == "cut" \notin mishaps => OwnActors /\ OwnSummary /\ OwnBooks /\ OwnEnd

\* Calls are accounted for where they were dispatched, or under way.
CallAll ==
  /\ \A a \in 1..Len(recs) : \A c \in Accounted(recs[a]) \ {0} :
       c \in 1..Len(calls) /\ calls[c].of = recs[a].of
  /\ coding # 0 => calls[coding] = [of |-> active, at |-> artifacts]
  /\ \A s \in Sessions : asking[s] # 0 => calls[asking[s]] = [of |-> s, at |-> artifacts]
  /\ \A c \in 1..Len(calls) :
       /\ calls[c].at \in 1..Len(recs)
       /\ \/ c \in Accounted(recs[calls[c].at])
          \/ phase = "run" /\ c \in {coding, asking[active]}
          \/ phase = "down" /\ recs[calls[c].at].run = None

Calling == mishaps = {} => CallAll

-----------------------------------------------------------------------------
(* The events of a recorder. *)

\* Positions and events have their types.
LEMMA EvType ==
  ASSUME NEW r \in Recorder
  PROVE  /\ Len(r.log) \in Nat /\ Len(r.queue) \in Nat /\ Size(r) \in Nat
         /\ \A i \in 1..Size(r) : Ev(r, i) \in Event
         /\ \A i \in 1..Len(r.log) : Ev(r, i) = r.log[i]
         /\ \A i \in 1..Len(r.queue) : Ev(r, Len(r.log) + i) = r.queue[i]
  <1>1. r.log \in Seq(Event) /\ r.queue \in Seq(Event)
    BY DEF Recorder
  <1>2. Len(r.log) \in Nat /\ Len(r.queue) \in Nat /\ Size(r) \in Nat
    BY <1>1 DEF Size, Recorder
  <1>3. \A i \in 1..Len(r.log) : r.log[i] \in Event
    BY <1>1, ElementOfSeq
  <1>4. \A i \in 1..Len(r.queue) : r.queue[i] \in Event
    BY <1>1, ElementOfSeq
  <1>5. \A i \in 1..Size(r) : Ev(r, i) \in Event
    <2> TAKE i \in 1..Size(r)
    <2>1. CASE i <= Len(r.log)
      BY <2>1, <1>2, <1>3 DEF Ev
    <2>2. CASE ~(i <= Len(r.log))
      <3>1. i - Len(r.log) \in 1..Len(r.queue)
        BY <2>2, <1>2 DEF Size, Recorder
      <3> QED
        BY <2>2, <3>1, <1>4 DEF Ev
    <2> QED
      BY <2>1, <2>2
  <1> QED
    BY <1>2, <1>5 DEF Ev

\* Nothing of an attempt changes but its queue and what the recorder notes.
SameFiles(r, q) ==
  /\ q.of = r.of /\ q.log = r.log /\ q.tail = r.tail /\ q.run = r.run
  /\ q.broken = r.broken /\ q.finalized = r.finalized

\* What it notes does not change either.
SameNotes(r, q) ==
  /\ q.stored = r.stored /\ q.decision = r.decision /\ q.complete = r.complete
  /\ q.missing = r.missing /\ q.status = r.status /\ q.skipped = r.skipped

\* An event of kind k is rejected ...
Rejects(r, q, k) ==
  /\ q.queue = r.queue /\ q.lost = r.lost \cup {k}
  /\ q.writeError <=> (r.writeError \/ k \notin Awaited)
  /\ r.finalized => q.seq = r.seq

\* ... or queued behind all others.
Queues(r, q, k, s) ==
  /\ q.queue = Append(r.queue, [seq |-> r.seq + 1, kind |-> k, of |-> s])
  /\ q.seq = r.seq + 1 /\ q.lost = r.lost /\ q.writeError = r.writeError

\* A rejection is remembered, and shows in writeError if track() sees it.
LEMMA RejectedIs ==
  ASSUME NEW r \in Recorder, NEW K \in SUBSET Kinds, NEW q, q = Rejected(r, K)
  PROVE  /\ q \in Recorder /\ SameFiles(r, q) /\ SameNotes(r, q)
         /\ q.seq = r.seq /\ q.queue = r.queue
         /\ q.lost = r.lost \cup K
         /\ q.writeError <=> (r.writeError \/ ~(K \subseteq Awaited))
  BY DEF Rejected, Recorder, SameFiles, SameNotes

\* appendEvent rejects an event after the finalization and after a failed write.
LEMMA AppendIs ==
  ASSUME NEW r \in Recorder, NEW k \in Kinds, NEW s \in Sessions,
         NEW q, q = appendEvent(r, k, s)
  PROVE  /\ q \in Recorder /\ SameFiles(r, q) /\ SameNotes(r, q)
         /\ r.finalized \/ r.broken => Rejects(r, q, k)
         /\ ~r.finalized /\ ~r.broken => Queues(r, q, k, s)
  <1> DEFINE e == [seq |-> r.seq + 1, kind |-> k, of |-> s]
             n == r.seq + 1
  <1>0. n \in Nat
    BY DEF Recorder
  <1>1. e \in Event
    BY DEF Event, Recorder
  <1>2. {k} \in SUBSET Kinds /\ ({k} \subseteq Awaited <=> k \in Awaited)
    OBVIOUS
  <1> HIDE DEF n
  <1>3. CASE r.finalized
    <2>1. q = Rejected(r, {k})
      BY <1>3 DEF appendEvent
    <2>2. /\ q \in Recorder /\ SameFiles(r, q) /\ SameNotes(r, q)
          /\ q.seq = r.seq /\ q.queue = r.queue /\ q.lost = r.lost \cup {k}
          /\ q.writeError <=> (r.writeError \/ ~({k} \subseteq Awaited))
      BY <1>2, <2>1, RejectedIs
    <2>3. Rejects(r, q, k)
      BY <1>2, <2>2 DEF Rejects
    <2> QED
      BY <1>3, <2>2, <2>3
  <1>4. CASE ~r.finalized /\ r.broken
    <2> DEFINE p == [r EXCEPT !.seq = n]
    <2>1. p \in Recorder
      BY <1>0 DEF Recorder
    <2>2. q = Rejected(p, {k})
      BY <1>4 DEF appendEvent, n
    <2>3. /\ SameFiles(r, p) /\ SameNotes(r, p)
          /\ p.queue = r.queue /\ p.lost = r.lost /\ p.writeError = r.writeError
      BY DEF Recorder, SameFiles, SameNotes
    <2> HIDE DEF p
    <2>4. /\ q \in Recorder /\ SameFiles(p, q) /\ SameNotes(p, q)
          /\ q.seq = p.seq /\ q.queue = p.queue /\ q.lost = p.lost \cup {k}
          /\ q.writeError <=> (p.writeError \/ ~({k} \subseteq Awaited))
      BY <1>2, <2>1, <2>2, RejectedIs
    <2>5. SameFiles(r, q) /\ SameNotes(r, q)
      BY <2>3, <2>4 DEF SameFiles, SameNotes
    <2>6. Rejects(r, q, k)
      BY <1>2, <1>4, <2>3, <2>4 DEF Rejects
    <2> QED
      BY <1>4, <2>4, <2>5, <2>6
  <1>5. CASE ~r.finalized /\ ~r.broken
    <2> DEFINE Q == Append(r.queue, e)
    <2>0. Q \in Seq(Event)
      BY <1>1, AppendProperties DEF Recorder
    <2> HIDE DEF e, Q
    <2>1. q = [r EXCEPT !.seq = n, !.queue = Q]
      BY <1>5 DEF appendEvent, e, n, Q
    <2>2. q \in Recorder
      BY <2>0, <2>1, <1>0 DEF Recorder
    <2>3. /\ q.queue = Q /\ q.seq = n /\ q.lost = r.lost /\ q.writeError = r.writeError
          /\ SameFiles(r, q) /\ SameNotes(r, q)
      BY <2>1 DEF Recorder, SameFiles, SameNotes
    <2>4. Queues(r, q, k, s)
      BY <2>3 DEF Queues, Q, e, n
    <2> QED
      BY <1>5, <2>2, <2>3, <2>4
  <1> QED
    BY <1>3, <1>4, <1>5

\* r's events are the first ones of q.
Later(r, q) == Size(r) <= Size(q) /\ \A i \in 1..Size(r) : Ev(q, i) = Ev(r, i)

\* The queue with an event at its end.
LEMMA QueueGrows ==
  ASSUME NEW r \in Recorder, NEW q \in Recorder, NEW e \in Event,
         q.log = r.log, q.queue = Append(r.queue, e)
  PROVE  Later(r, q) /\ Size(q) = Size(r) + 1 /\ Ev(q, Size(q)) = e
  <1> DEFINE l == r.log
             x == r.queue
             y == q.queue
  <1>1. l \in Seq(Event) /\ x \in Seq(Event) /\ y \in Seq(Event)
    BY DEF Recorder
  <1>2. Size(r) = Len(l) + Len(x) /\ Size(q) = Len(l) + Len(y)
    BY DEF Size
  <1>3. \A i : Ev(r, i) = (IF i <= Len(l) THEN l[i] ELSE x[i - Len(l)])
    BY DEF Ev
  <1>4. \A i : Ev(q, i) = (IF i <= Len(l) THEN l[i] ELSE y[i - Len(l)])
    BY DEF Ev
  <1>5. y = Append(x, e)
    OBVIOUS
  <1> HIDE DEF l, x, y
  <1>6. /\ Len(y) = Len(x) + 1 /\ Len(x) \in Nat /\ Len(l) \in Nat
        /\ y[Len(x) + 1] = e
        /\ \A i \in 1..Len(x) : y[i] = x[i]
    BY <1>1, <1>5, AppendProperties
  <1>7. \A i \in 1..Size(r) : Ev(q, i) = Ev(r, i)
    <2> TAKE i \in 1..Size(r)
    <2>1. CASE i <= Len(l)
      BY <2>1, <1>3, <1>4
    <2>2. CASE ~(i <= Len(l))
      <3>1. i - Len(l) \in 1..Len(x)
        BY <2>2, <1>2, <1>6
      <3> QED
        BY <2>2, <3>1, <1>3, <1>4, <1>6
    <2> QED
      BY <2>1, <2>2
  <1>8. Ev(q, Size(q)) = e
    BY <1>2, <1>4, <1>6
  <1>9. Size(q) = Size(r) + 1 /\ Size(r) <= Size(q)
    BY <1>2, <1>6
  <1> QED
    BY <1>7, <1>8, <1>9 DEF Later

\* Without a change of the queue there are the same events.
LEMMA QueueSame ==
  ASSUME NEW r \in Recorder, NEW q \in Recorder, q.log = r.log, q.queue = r.queue
  PROVE  Size(q) = Size(r) /\ (\A i : Ev(q, i) = Ev(r, i)) /\ Later(r, q)
  <1>1. Size(q) = Size(r) /\ \A i : Ev(q, i) = Ev(r, i)
    BY DEF Size, Ev
  <1>2. Size(r) <= Size(q)
    BY <1>1, EvType
  <1> QED
    BY <1>1, <1>2 DEF Later

\* Finite sets of positions and of calls.
LEMMA EndsFinite ==
  ASSUME NEW r \in Recorder, NEW n \in Nat
  PROVE  /\ IsFiniteSet(EndsTo(r, n)) /\ Cardinality(EndsTo(r, n)) \in Nat
         /\ IsFiniteSet(Accounted(r)) /\ Cardinality(Accounted(r)) \in Nat
  <1>1. IsFiniteSet(1..n) /\ EndsTo(r, n) \subseteq 1..n
    BY FS_Interval DEF EndsTo
  <1>2. IsFiniteSet(0..MaxCalls) /\ Accounted(r) \subseteq 0..MaxCalls
    <2>1. IsFiniteSet(0..MaxCalls)
      BY FS_Interval, ArtifactsAssumption
    <2>2. r.complete \subseteq 0..MaxCalls /\ r.missing \subseteq 0..MaxCalls
      BY ArtifactsAssumption DEF Recorder, Calls, Accountable
    <2> QED
      BY <2>1, <2>2 DEF Accounted
  <1> QED
    BY <1>1, <1>2, FS_Subset, FS_CardinalityType

\* More events hold more ends of calls.
LEMMA EndsGrow ==
  ASSUME NEW r \in Recorder, NEW q \in Recorder, NEW n \in Nat, NEW m \in Nat,
         n <= m, \A i \in 1..n : Ev(q, i) = Ev(r, i)
  PROVE  Cardinality(EndsTo(r, n)) <= Cardinality(EndsTo(q, m))
  <1>1. EndsTo(r, n) \subseteq EndsTo(q, m)
    BY DEF EndsTo
  <1> QED
    BY <1>1, EndsFinite, FS_Subset

\* A decision that is among the first n events is among more of them.
LEMMA DecisionStays ==
  ASSUME NEW r \in Recorder, NEW q \in Recorder, NEW n \in Nat, NEW m \in Nat,
         n <= m, \A i \in 1..n : Ev(q, i) = Ev(r, i), NEW s, HasDecision(r, n, s)
  PROVE  HasDecision(q, m, s)
  BY DEF HasDecision

-----------------------------------------------------------------------------
(* What the recorder does for the activity of a session s. *)

\* The events it adds report s and are of no excluded kind.
Added(r, q, s) ==
  \A i \in 1..Size(q) : i > Size(r) =>
    Ev(q, i).of = s /\ Ev(q, i).kind \notin Excluded(q)

Touch(r, q, s) ==
  /\ q \in Recorder
  /\ SameFiles(r, q) /\ Later(r, q) /\ Added(r, q, s)
  /\ q.decision \in {r.decision, s}
  /\ Excluded(q) \subseteq Excluded(r)
  /\ Sound(r) => Sound(q)

\* It may do so again.
LEMMA TouchTrans ==
  ASSUME NEW r \in Recorder, NEW p, NEW q, NEW s, Touch(r, p, s), Touch(p, q, s)
  PROVE  Touch(r, q, s)
  <1>1. p \in Recorder /\ q \in Recorder
    BY DEF Touch
  <1>2. Size(r) \in Nat /\ Size(p) \in Nat /\ Size(q) \in Nat
    BY <1>1, EvType
  <1>3. Size(r) <= Size(p) /\ Size(p) <= Size(q)
    BY DEF Touch, Later
  <1>4. Later(r, q)
    BY <1>2, <1>3 DEF Touch, Later
  <1>5. Added(r, q, s)
    <2> SUFFICES ASSUME NEW i \in 1..Size(q), i > Size(r)
                 PROVE  Ev(q, i).of = s /\ Ev(q, i).kind \notin Excluded(q)
      BY DEF Added
    <2>1. CASE i > Size(p)
      BY <2>1 DEF Touch, Added
    <2>2. CASE ~(i > Size(p))
      <3>1. i \in 1..Size(p) /\ Ev(q, i) = Ev(p, i)
        BY <2>2, <1>2 DEF Touch, Later
      <3>2. Ev(p, i).of = s /\ Ev(p, i).kind \notin Excluded(p)
        BY <3>1 DEF Touch, Added
      <3> QED
        BY <3>1, <3>2 DEF Touch
    <2> QED
      BY <2>1, <2>2
  <1>6. SameFiles(r, q)
    BY DEF Touch, SameFiles
  <1> QED
    BY <1>1, <1>4, <1>5, <1>6 DEF Touch

\* Ordered is kept by appendEvent.
LEMMA AppendOrdered ==
  ASSUME NEW r \in Recorder, NEW k \in Kinds, NEW s \in Sessions,
         NEW q, q = appendEvent(r, k, s), Ordered(r)
  PROVE  Ordered(q)
  <1>0. r.seq \in Nat /\ r.skipped \in BOOLEAN /\ r.broken \in BOOLEAN
    BY DEF Recorder
  <1>1. CASE r.finalized
    <2>0. q \in Recorder /\ SameFiles(r, q) /\ SameNotes(r, q) /\ Rejects(r, q, k)
      BY <1>1, AppendIs, Zenon
    <2>1. /\ q.queue = r.queue /\ q.log = r.log /\ q.broken = r.broken
          /\ q.skipped = r.skipped /\ q.seq = r.seq
      BY <1>1, <2>0 DEF SameFiles, SameNotes, Rejects
    <2>2. Size(q) = Size(r) /\ \A i : Ev(q, i) = Ev(r, i)
      BY <2>0, <2>1, QueueSame
    <2> QED
      BY <2>1, <2>2 DEF Ordered
  <1>2. CASE ~r.finalized /\ r.broken
    <2>0. q \in Recorder /\ SameFiles(r, q) /\ SameNotes(r, q) /\ Rejects(r, q, k)
      BY <1>2, AppendIs, Zenon
    <2>1. /\ q.queue = r.queue /\ q.log = r.log /\ q.broken
          /\ q.skipped = r.skipped /\ q.seq = r.seq + 1
      <3>1. q = Rejected([r EXCEPT !.seq = @ + 1], {k})
        BY <1>2 DEF appendEvent
      <3>2. q.seq = r.seq + 1
        BY <3>1 DEF Rejected, Recorder
      <3> QED
        BY <1>2, <2>0, <3>2 DEF SameFiles, SameNotes, Rejects
    <2>2. Size(q) = Size(r) /\ \A i : Ev(q, i) = Ev(r, i)
      BY <2>0, <2>1, QueueSame
    <2>3. \A i \in 1..Size(r) : Ev(r, i).seq <= r.seq /\ Ev(r, i).seq \in Nat
      BY EvType DEF Ordered, Event
    <2>4. \A i \in 1..Size(q) : Ev(q, i).seq <= q.seq
      BY <2>1, <2>2, <2>3, <1>0
    <2> QED
      BY <1>2, <2>1, <2>2, <2>4 DEF Ordered
  <1>3. CASE ~r.finalized /\ ~r.broken
    <2> DEFINE e == [seq |-> r.seq + 1, kind |-> k, of |-> s]
    <2>1. /\ q \in Recorder /\ q.log = r.log /\ q.queue = Append(r.queue, e)
          /\ q.broken = r.broken /\ q.skipped = r.skipped /\ q.seq = r.seq + 1
      <3>1. q \in Recorder /\ SameFiles(r, q) /\ SameNotes(r, q) /\ Queues(r, q, k, s)
        BY <1>3, AppendIs, Zenon
      <3> QED
        BY <3>1 DEF SameFiles, SameNotes, Queues
    <2>2. e \in Event /\ e.seq = r.seq + 1
      BY <1>0 DEF Event
    <2> HIDE DEF e
    <2>3. Later(r, q) /\ Size(q) = Size(r) + 1 /\ Ev(q, Size(q)) = e
      BY <2>1, <2>2, QueueGrows
    <2>4. \A i \in 1..Size(r) : Ev(q, i) = Ev(r, i) /\ Ev(r, i).seq <= r.seq /\ Ev(r, i).seq \in Nat
      BY <2>3, EvType DEF Ordered, Event, Later
    <2>5. Size(r) \in Nat
      BY EvType
    <2>6. \A i \in 1..Size(q) : i \in 1..Size(r) \/ i = Size(q)
      BY <2>3, <2>5
    <2>7. \A i \in 1..Size(q) : Ev(q, i).seq <= q.seq
      BY <2>1, <2>2, <2>3, <2>4, <2>6, <1>0
    <2>8. \A i, j \in 1..Size(q) : i < j => Ev(q, i).seq < Ev(q, j).seq
      <3> TAKE i, j \in 1..Size(q)
      <3> HAVE i < j
      <3>1. i \in 1..Size(r)
        BY <2>3, <2>5
      <3>2. CASE j \in 1..Size(r)
        BY <3>1, <3>2, <2>4 DEF Ordered
      <3>3. CASE j = Size(q)
        BY <3>1, <3>3, <2>2, <2>3, <2>4, <1>0
      <3> QED
        BY <3>2, <3>3, <2>6
    <2>9. ~q.skipped => /\ \A i \in 1..Size(q) : Ev(q, i).seq = i
                        /\ q.broken \/ q.seq = Size(q)
      <3> HAVE ~q.skipped
      <3>1. r.seq = Size(r) /\ \A i \in 1..Size(r) : Ev(r, i).seq = i
        BY <1>3, <2>1 DEF Ordered
      <3>2. \A i \in 1..Size(q) : Ev(q, i).seq = i
        BY <3>1, <2>2, <2>3, <2>4, <2>6
      <3> QED
        BY <3>1, <3>2, <2>1, <2>3
    <2>10. q.broken => q.queue = <<>>
      BY <1>3, <2>1
    <2> QED
      BY <2>7, <2>8, <2>9, <2>10 DEF Ordered
  <1> QED
    BY <1>1, <1>2, <1>3

\* What the recorder notes before it appends an event of kind k.
Notes(r, p, k, s) ==
  /\ p \in Recorder /\ SameFiles(r, p)
  /\ p.seq = r.seq /\ p.queue = r.queue /\ p.lost = r.lost /\ p.writeError = r.writeError
  /\ p.skipped = r.skipped
  /\ IF k = "decision" THEN p.stored = s /\ p.decision = s
                       ELSE p.stored = r.stored /\ p.decision = r.decision
  /\ IF k \in Ends THEN \E c \in Accountable : Accounted(p) = Accounted(r) \cup {c}
                   ELSE Accounted(p) = Accounted(r)
  /\ Excluded(p) \subseteq Excluded(r) \ {k}

\* A call more in the accounts.
LEMMA OneCallMore ==
  ASSUME NEW r \in Recorder, NEW p \in Recorder, NEW c, Accounted(p) = Accounted(r) \cup {c}
  PROVE  Cardinality(Accounted(p)) <= Cardinality(Accounted(r)) + 1
  <1>1. IsFiniteSet(Accounted(r)) /\ Cardinality(Accounted(r)) \in Nat
    BY EndsFinite
  <1> QED
    BY <1>1, FS_AddElement

\* An end of a call more among the events.
LEMMA OneEndMore ==
  ASSUME NEW r \in Recorder, NEW q \in Recorder, Later(r, q), Size(q) = Size(r) + 1,
         Ev(q, Size(q)).kind \in Ends
  PROVE  Cardinality(EndsTo(q, Size(q))) >= Cardinality(EndsTo(r, Size(r))) + 1
  <1>1. Size(r) \in Nat /\ Size(q) \in Nat
    BY EvType
  <1> DEFINE E == EndsTo(r, Size(r))
             F == EndsTo(q, Size(q))
  <1>2. IsFiniteSet(E) /\ Cardinality(E) \in Nat /\ IsFiniteSet(F) /\ Cardinality(F) \in Nat
    BY <1>1, EndsFinite
  <1>3. Size(q) \notin E /\ E \cup {Size(q)} \subseteq F
    BY <1>1 DEF EndsTo, Later
  <1> HIDE DEF E, F
  <1>4. /\ Cardinality(E \cup {Size(q)}) = Cardinality(E) + 1
        /\ IsFiniteSet(E \cup {Size(q)})
    BY <1>2, <1>3, FS_AddElement
  <1>5. Cardinality(E \cup {Size(q)}) <= Cardinality(F)
    BY <1>2, <1>3, FS_Subset
  <1>6. Cardinality(F) >= Cardinality(E) + 1
    BY <1>2, <1>4, <1>5
  <1> QED
    BY <1>6 DEF E, F

\* Noting and appending keep what the recorder says true.
LEMMA NotesFaithful ==
  ASSUME NEW r \in Recorder, NEW k \in Kinds, NEW s \in Sessions,
         NEW p, Notes(r, p, k, s), NEW q, q = appendEvent(p, k, s), Faithful(r)
  PROVE  Faithful(q)
  <1> SUFFICES ASSUME ~q.writeError
               PROVE  /\ q.lost \subseteq Awaited
                      /\ q.stored = q.decision
                      /\ q.decision # None => HasDecision(q, Size(q), q.decision)
                      /\ Cardinality(EndsTo(q, Size(q))) >= Cardinality(Accounted(q))
    BY DEF Faithful
  <1>1. /\ p \in Recorder /\ p.log = r.log /\ p.queue = r.queue /\ p.lost = r.lost
        /\ p.broken = r.broken /\ p.finalized = r.finalized /\ p.writeError = r.writeError
    BY DEF Notes, SameFiles
  <1>2. /\ q \in Recorder /\ SameFiles(p, q) /\ SameNotes(p, q)
        /\ p.finalized \/ p.broken => Rejects(p, q, k)
        /\ ~p.finalized /\ ~p.broken => Queues(p, q, k, s)
    BY <1>1, AppendIs, Zenon
  <1>3. q.log = r.log /\ q.stored = p.stored /\ q.decision = p.decision /\ Accounted(q) = Accounted(p)
    BY <1>1, <1>2 DEF SameFiles, SameNotes, Accounted
  <1>4. Size(r) \in Nat /\ Size(q) \in Nat
    BY <1>2, EvType
  <1>5. CASE p.finalized \/ p.broken
    <2>1. k \in Awaited /\ ~p.writeError /\ q.queue = p.queue /\ q.lost = p.lost \cup {k}
      BY <1>2, <1>5 DEF Rejects
    <2>2. k # "decision" /\ k \notin Ends
      BY <2>1 DEF Awaited, Ends
    <2>3. p.stored = r.stored /\ p.decision = r.decision /\ Accounted(p) = Accounted(r)
      BY <2>2 DEF Notes
    <2>4. /\ r.lost \subseteq Awaited /\ r.stored = r.decision
          /\ r.decision # None => HasDecision(r, Size(r), r.decision)
          /\ Cardinality(EndsTo(r, Size(r))) >= Cardinality(Accounted(r))
      BY <2>1, <1>1 DEF Faithful
    <2>5. Size(q) = Size(r) /\ \A i : Ev(q, i) = Ev(r, i)
      BY <1>1, <1>2, <1>3, <2>1, QueueSame
    <2>6. EndsTo(q, Size(q)) = EndsTo(r, Size(r))
      BY <2>5 DEF EndsTo
    <2>7. q.decision # None => HasDecision(q, Size(q), q.decision)
      BY <1>3, <2>3, <2>4, <2>5 DEF HasDecision
    <2> QED
      BY <1>1, <1>3, <2>1, <2>3, <2>4, <2>6, <2>7
  <1>6. CASE ~p.finalized /\ ~p.broken
    <2> DEFINE e == [seq |-> p.seq + 1, kind |-> k, of |-> s]
    <2>1. q.queue = Append(p.queue, e) /\ q.lost = p.lost /\ ~p.writeError
      BY <1>2, <1>6 DEF Queues
    <2>2. e \in Event /\ e.kind = k /\ e.of = s
      BY <1>1 DEF Event, Recorder
    <2> HIDE DEF e
    <2>3. Later(r, q) /\ Size(q) = Size(r) + 1 /\ Ev(q, Size(q)) = e
      BY <1>1, <1>2, <1>3, <2>1, <2>2, QueueGrows
    <2>4. /\ r.lost \subseteq Awaited /\ r.stored = r.decision
          /\ r.decision # None => HasDecision(r, Size(r), r.decision)
          /\ Cardinality(EndsTo(r, Size(r))) >= Cardinality(Accounted(r))
      BY <2>1, <1>1 DEF Faithful
    <2>5. q.stored = q.decision
      BY <1>3, <2>4 DEF Notes
    <2>6. q.decision # None => HasDecision(q, Size(q), q.decision)
      <3>1. CASE k = "decision"
        <4>1. q.decision = s /\ Size(q) \in 1..Size(q)
          BY <3>1, <1>3, <1>4, <2>3 DEF Notes
        <4> QED
          BY <4>1, <3>1, <2>2, <2>3 DEF HasDecision
      <3>2. CASE k # "decision"
        <4>1. q.decision = r.decision
          BY <3>2, <1>3 DEF Notes
        <4> QED
          BY <4>1, <2>3, <2>4, <1>2, <1>4, DecisionStays DEF Later
      <3> QED
        BY <3>1, <3>2
    <2>7. Cardinality(EndsTo(q, Size(q))) >= Cardinality(Accounted(q))
      <3>0. /\ Cardinality(EndsTo(q, Size(q))) \in Nat /\ Cardinality(EndsTo(r, Size(r))) \in Nat
            /\ Cardinality(Accounted(q)) \in Nat /\ Cardinality(Accounted(r)) \in Nat
        BY <1>2, <1>4, EndsFinite
      <3>1. CASE k \in Ends
        <4>1. Cardinality(EndsTo(q, Size(q))) >= Cardinality(EndsTo(r, Size(r))) + 1
          BY <3>1, <1>2, <2>2, <2>3, OneEndMore
        <4>2. PICK c \in Accountable : Accounted(p) = Accounted(r) \cup {c}
          BY <3>1 DEF Notes
        <4>3. Cardinality(Accounted(p)) <= Cardinality(Accounted(r)) + 1
          BY <4>2, <1>1, OneCallMore
        <4> QED
          BY <4>1, <4>3, <3>0, <2>4, <1>3
      <3>2. CASE k \notin Ends
        <4>1. Accounted(q) = Accounted(r)
          BY <3>2, <1>3 DEF Notes
        <4>2. Cardinality(EndsTo(r, Size(r))) <= Cardinality(EndsTo(q, Size(q)))
          BY <2>3, <1>2, <1>4, EndsGrow DEF Later
        <4> QED
          BY <4>1, <4>2, <3>0, <2>4
      <3> QED
        BY <3>1, <3>2
    <2> QED
      BY <1>1, <2>1, <2>4, <2>5, <2>6, <2>7
  <1> QED
    BY <1>5, <1>6

\* Noting and appending is what Touch allows.
LEMMA NotesTouch ==
  ASSUME NEW r \in Recorder, NEW k \in Kinds, NEW s \in Sessions,
         NEW p, Notes(r, p, k, s), NEW q, q = appendEvent(p, k, s)
  PROVE  Touch(r, q, s) /\ Accounted(q) = Accounted(p)
  <1>1. /\ p \in Recorder /\ SameFiles(r, p) /\ p.log = r.log /\ p.queue = r.queue
        /\ p.seq = r.seq /\ p.broken = r.broken /\ p.skipped = r.skipped
    BY DEF Notes, SameFiles
  <1>2. /\ q \in Recorder /\ SameFiles(p, q) /\ SameNotes(p, q)
        /\ p.finalized \/ p.broken => Rejects(p, q, k)
        /\ ~p.finalized /\ ~p.broken => Queues(p, q, k, s)
    BY <1>1, AppendIs, Zenon
  <1>3. SameFiles(r, q) /\ q.log = r.log /\ Accounted(q) = Accounted(p)
    BY <1>1, <1>2 DEF SameFiles, SameNotes, Accounted
  <1>4. /\ q.decision = p.decision
        /\ q.decision \in {r.decision, s}
        /\ Excluded(q) \subseteq Excluded(r) \ {k}
    BY <1>2 DEF SameNotes, Notes, Excluded
  <1>5. Size(r) \in Nat /\ Size(q) \in Nat
    BY <1>2, EvType
  <1>6. Later(r, q) /\ Added(r, q, s)
    <2>1. CASE p.finalized \/ p.broken
      <3>1. q.queue = r.queue
        BY <2>1, <1>1, <1>2 DEF Rejects
      <3>2. Size(q) = Size(r) /\ Later(r, q)
        BY <3>1, <1>2, <1>3, QueueSame
      <3> QED
        BY <3>2, <1>5 DEF Added
    <2>2. CASE ~p.finalized /\ ~p.broken
      <3> DEFINE e == [seq |-> p.seq + 1, kind |-> k, of |-> s]
      <3>1. q.queue = Append(r.queue, e)
        BY <2>2, <1>1, <1>2 DEF Queues
      <3>2. e \in Event /\ e.kind = k /\ e.of = s
        BY <1>1 DEF Event, Recorder
      <3> HIDE DEF e
      <3>3. Later(r, q) /\ Size(q) = Size(r) + 1 /\ Ev(q, Size(q)) = e
        BY <1>2, <1>3, <3>1, <3>2, QueueGrows
      <3>4. Added(r, q, s)
        <4> SUFFICES ASSUME NEW i \in 1..Size(q), i > Size(r)
                     PROVE  Ev(q, i).of = s /\ Ev(q, i).kind \notin Excluded(q)
          BY DEF Added
        <4>1. i = Size(q)
          BY <1>5, <3>3
        <4> QED
          BY <4>1, <3>2, <3>3, <1>4
      <3> QED
        BY <3>3, <3>4
    <2> QED
      BY <2>1, <2>2
  <1>7. Sound(r) => Sound(q)
    <2>1. ASSUME Ordered(r) PROVE Ordered(q)
      <3>1. Size(p) = Size(r) /\ \A i : Ev(p, i) = Ev(r, i)
        BY <1>1, QueueSame
      <3>2. Ordered(p)
        BY <2>1, <3>1, <1>1 DEF Ordered
      <3> QED
        BY <3>2, <1>1, AppendOrdered
    <2> QED
      BY <2>1, NotesFaithful DEF Sound
  <1> QED
    BY <1>2, <1>3, <1>4, <1>6, <1>7 DEF Touch

\* A plain append, of an event that is no decision, end of a call or error.
LEMMA AppendTouch ==
  ASSUME NEW r \in Recorder, NEW k \in Kinds \ (Ends \cup {"decision", "error"}),
         NEW s \in Sessions
  PROVE  Touch(r, appendEvent(r, k, s), s) /\ Accounted(appendEvent(r, k, s)) = Accounted(r)
  <1>1. Notes(r, r, k, s)
    BY DEF Notes, SameFiles, Excluded, Ends
  <1> QED
    BY <1>1, NotesTouch

\* recordError.
LEMMA ErrorTouch ==
  ASSUME NEW r \in Recorder, NEW s \in Sessions, NEW limit \in BOOLEAN
  PROVE  /\ Touch(r, recordError(r, s, limit), s)
         /\ Accounted(recordError(r, s, limit)) = Accounted(r)
  <1> DEFINE p == [r EXCEPT !.status = IF limit \/ @ = "limit" THEN "limit" ELSE "error"]
  <1>1. /\ p \in Recorder /\ SameFiles(r, p) /\ p.status # "completed"
        /\ p.seq = r.seq /\ p.queue = r.queue /\ p.lost = r.lost /\ p.writeError = r.writeError
        /\ p.stored = r.stored /\ p.decision = r.decision
        /\ p.complete = r.complete /\ p.missing = r.missing /\ p.skipped = r.skipped
    BY DEF Recorder, Status, SameFiles
  <1>2. recordError(r, s, limit) = appendEvent(p, "error", s) /\ "error" \in Kinds
    BY DEF recordError, Kinds
  <1> HIDE DEF p
  <1>3. Notes(r, p, "error", s)
    BY <1>1 DEF Notes, Accounted, Excluded, Ends
  <1>4. Accounted(p) = Accounted(r)
    BY <1>1 DEF Accounted
  <1> QED
    BY <1>2, <1>3, <1>4, NotesTouch

\* recordUsage.
LEMMA UsageTouch ==
  ASSUME NEW r \in Recorder, NEW c \in Accountable, NEW s \in Sessions, NEW complete \in BOOLEAN
  PROVE  /\ Touch(r, recordUsage(r, c, s, complete), s)
         /\ Accounted(recordUsage(r, c, s, complete)) = Accounted(r) \cup {c}
  <1> DEFINE p == [r EXCEPT !.complete = IF complete THEN @ \cup {c} ELSE @,
                            !.missing  = IF complete THEN @ ELSE @ \cup {c}]
  <1>1. /\ p \in Recorder /\ SameFiles(r, p) /\ p.status = r.status
        /\ p.seq = r.seq /\ p.queue = r.queue /\ p.lost = r.lost /\ p.writeError = r.writeError
        /\ p.stored = r.stored /\ p.decision = r.decision
        /\ p.complete = (IF complete THEN r.complete \cup {c} ELSE r.complete)
        /\ p.missing = (IF complete THEN r.missing ELSE r.missing \cup {c})
        /\ p.skipped = r.skipped
    BY DEF Recorder, Status, SameFiles
  <1>2. recordUsage(r, c, s, complete) = appendEvent(p, "end", s) /\ "end" \in Kinds
    BY DEF recordUsage, Kinds
  <1> HIDE DEF p
  <1>3. Accounted(p) = Accounted(r) \cup {c}
    BY <1>1 DEF Accounted
  <1>4. Notes(r, p, "end", s)
    <2>1. Excluded(p) \subseteq Excluded(r) \ {"end"}
      BY <1>1 DEF Excluded
    <2> QED
      BY <1>1, <1>3, <2>1 DEF Notes, Ends
  <1> QED
    BY <1>2, <1>3, <1>4, NotesTouch

\* A failed compaction: a missing call and an event of its own kind.
LEMMA CompactionTouch ==
  ASSUME NEW r \in Recorder, NEW c \in Accountable, NEW s \in Sessions,
         NEW q, q = appendEvent([r EXCEPT !.missing = @ \cup {c}], "compaction-failed", s)
  PROVE  Touch(r, q, s) /\ Accounted(q) = Accounted(r) \cup {c}
  <1> DEFINE p == [r EXCEPT !.missing = @ \cup {c}]
  <1>1. /\ p \in Recorder /\ SameFiles(r, p) /\ p.status = r.status
        /\ p.seq = r.seq /\ p.queue = r.queue /\ p.lost = r.lost /\ p.writeError = r.writeError
        /\ p.stored = r.stored /\ p.decision = r.decision
        /\ p.complete = r.complete /\ p.missing = r.missing \cup {c}
        /\ p.skipped = r.skipped
    BY DEF Recorder, SameFiles
  <1>2. q = appendEvent(p, "compaction-failed", s) /\ "compaction-failed" \in Kinds
    BY DEF Kinds
  <1> HIDE DEF p
  <1>3. Accounted(p) = Accounted(r) \cup {c}
    BY <1>1 DEF Accounted
  <1>4. Notes(r, p, "compaction-failed", s)
    <2>1. Excluded(p) \subseteq Excluded(r) \ {"compaction-failed"}
      BY <1>1 DEF Excluded
    <2> QED
      BY <1>1, <1>3, <2>1 DEF Notes, Ends
  <1>5. Touch(r, q, s) /\ Accounted(q) = Accounted(p)
    <2>1. \A k \in Kinds : Notes(r, p, k, s) => Touch(r, appendEvent(p, k, s), s)
                              /\ Accounted(appendEvent(p, k, s)) = Accounted(p)
      BY NotesTouch
    <2> QED
      BY <1>2, <1>4, <2>1
  <1> QED
    BY <1>3, <1>5

\* The notes change and no event is added.
LEMMA QuietTouch ==
  ASSUME NEW r \in Recorder, NEW q \in Recorder, NEW s, SameFiles(r, q),
         q.queue = r.queue, r.seq <= q.seq, r.skipped => q.skipped,
         ~q.skipped => q.seq = r.seq,
         q.decision \in {r.decision, s}, Excluded(q) \subseteq Excluded(r),
         Faithful(r) => Faithful(q)
  PROVE  Touch(r, q, s)
  <1>1. /\ Size(q) = Size(r) /\ Later(r, q) /\ Size(r) \in Nat
        /\ \A i : Ev(q, i) = Ev(r, i)
    BY QueueSame, EvType DEF SameFiles
  <1>2. Added(r, q, s)
    BY <1>1 DEF Added
  <1>3. Ordered(r) => Ordered(q)
    <2> HAVE Ordered(r)
    <2>1. \A i \in 1..Size(r) : Ev(r, i).seq <= r.seq /\ Ev(r, i).seq \in Nat
      BY EvType DEF Ordered, Event
    <2>2. \A i \in 1..Size(q) : Ev(q, i).seq <= q.seq
      BY <1>1, <2>1 DEF Recorder
    <2> QED
      BY <1>1, <2>2 DEF Ordered, SameFiles
  <1> QED
    BY <1>1, <1>2, <1>3 DEF Touch, Sound

\* Nothing changes at all.
LEMMA NothingTouch ==
  ASSUME NEW r \in Recorder, NEW s
  PROVE  Touch(r, r, s)
  <1>1. r.seq <= r.seq
    BY DEF Recorder
  <1> QED
    BY <1>1, QuietTouch DEF SameFiles

\* A number taken in vain, or an event rejected after the finalization.
LEMMA RefuseTouch ==
  ASSUME NEW r \in Recorder, NEW s
  PROVE  /\ Touch(r, refuseEvent(r, "plain"), s)
         /\ Accounted(refuseEvent(r, "plain")) = Accounted(r)
  <1> DEFINE q == refuseEvent(r, "plain")
  <1>0. {"plain"} \in SUBSET Kinds /\ ~({"plain"} \subseteq Awaited)
    BY DEF Kinds, Awaited
  <1>1. CASE r.finalized
    <2>1. q = Rejected(r, {"plain"})
      BY <1>1 DEF refuseEvent
    <2> HIDE DEF q
    <2>2. /\ q \in Recorder /\ SameFiles(r, q) /\ SameNotes(r, q)
          /\ q.seq = r.seq /\ q.queue = r.queue /\ q.writeError
      BY <1>0, <2>1, RejectedIs
    <2>3. Faithful(q)
      BY <2>2 DEF Faithful
    <2>4. /\ Excluded(q) = Excluded(r) /\ Accounted(q) = Accounted(r)
          /\ q.skipped = r.skipped /\ q.decision = r.decision
      BY <2>2 DEF Excluded, Accounted, SameNotes
    <2>5. r.seq <= q.seq
      BY <2>2 DEF Recorder
    <2>6. Touch(r, q, s)
      BY <2>2, <2>3, <2>4, <2>5, QuietTouch
    <2> QED
      BY <2>4, <2>6 DEF q
  <1>2. CASE ~r.finalized
    <2> DEFINE n == r.seq + 1
    <2>0. n \in Nat /\ r.seq <= n
      BY DEF Recorder
    <2>1. q = [r EXCEPT !.seq = n, !.skipped = TRUE]
      BY <1>2 DEF refuseEvent
    <2> HIDE DEF q, n
    <2>2. /\ q \in Recorder /\ SameFiles(r, q) /\ q.status = r.status
          /\ q.writeError = r.writeError /\ q.lost = r.lost /\ q.stored = r.stored
          /\ q.seq = n /\ q.queue = r.queue /\ q.decision = r.decision
          /\ q.log = r.log /\ q.complete = r.complete /\ q.missing = r.missing
          /\ q.skipped
      BY <2>0, <2>1 DEF Recorder, SameFiles
    <2>3. Accounted(q) = Accounted(r) /\ Excluded(q) = Excluded(r)
      BY <2>2 DEF Accounted, Excluded
    <2>4. Size(q) = Size(r) /\ \A i : Ev(q, i) = Ev(r, i)
      BY <2>2, QueueSame
    <2>5. Faithful(r) => Faithful(q)
      BY <2>2, <2>3, <2>4 DEF Faithful, HasDecision, EndsTo
    <2>6. r.seq <= q.seq
      BY <2>0, <2>2
    <2>7. Touch(r, q, s)
      BY <2>2, <2>3, <2>5, <2>6, QuietTouch
    <2> QED
      BY <2>3, <2>7 DEF q
  <1> QED
    BY <1>1, <1>2

\* The status alone changes.
LEMMA StatusTouch ==
  ASSUME NEW r \in Recorder, NEW t \in Status, t = "completed" => r.status = "completed", NEW s
  PROVE  /\ Touch(r, [r EXCEPT !.status = t], s)
         /\ Accounted([r EXCEPT !.status = t]) = Accounted(r)
  <1> DEFINE q == [r EXCEPT !.status = t]
  <1>1. /\ q \in Recorder /\ SameFiles(r, q) /\ q.status = t
        /\ q.seq = r.seq /\ q.queue = r.queue /\ q.lost = r.lost /\ q.writeError = r.writeError
        /\ q.stored = r.stored /\ q.decision = r.decision
        /\ q.complete = r.complete /\ q.missing = r.missing /\ q.log = r.log
        /\ q.skipped = r.skipped /\ r.seq <= q.seq
    BY DEF Recorder, SameFiles
  <1> HIDE DEF q
  <1>2. Accounted(q) = Accounted(r)
    BY <1>1 DEF Accounted
  <1>3. Size(q) = Size(r) /\ \A i : Ev(q, i) = Ev(r, i)
    BY <1>1, QueueSame
  <1>4. Faithful(r) => Faithful(q)
    BY <1>1, <1>2, <1>3 DEF Faithful, HasDecision, EndsTo
  <1>5. Excluded(q) \subseteq Excluded(r)
    BY <1>1 DEF Excluded
  <1>6. Touch(r, q, s)
    BY <1>1, <1>4, <1>5, QuietTouch
  <1> QED
    BY <1>2, <1>6 DEF q

\* recordDecision.
LEMMA DecisionTouch ==
  ASSUME NEW r \in Recorder, NEW s \in Sessions
  PROVE  Touch(r, recordDecision(r, s), s) /\ Accounted(recordDecision(r, s)) = Accounted(r)
  <1> DEFINE q == recordDecision(r, s)
  <1>0. s # None /\ r.stored \in Sessions \cup {None}
    BY NoneAssumption DEF Recorder
  <1>1. CASE r.stored \notin {None, s}
    <2>1. q = [r EXCEPT !.decision = s, !.writeError = TRUE]
      BY <1>1 DEF recordDecision, Recorder
    <2>2. /\ q \in Recorder /\ SameFiles(r, q) /\ q.status = r.status /\ q.writeError
          /\ q.seq = r.seq /\ q.queue = r.queue /\ q.decision = s
          /\ q.complete = r.complete /\ q.missing = r.missing
          /\ q.skipped = r.skipped
      BY <2>1 DEF Recorder, SameFiles
    <2>0. r.seq <= q.seq
      BY <2>2 DEF Recorder
    <2> HIDE DEF q
    <2>3. Faithful(q) /\ Accounted(q) = Accounted(r)
      BY <2>2 DEF Faithful, Accounted
    <2>4. Excluded(q) = Excluded(r)
      BY <2>2 DEF Excluded
    <2>5. Touch(r, q, s)
      BY <2>0, <2>2, <2>3, <2>4, QuietTouch
    <2> QED
      BY <2>3, <2>5 DEF q
  <1>2. CASE r.stored = s
    <2>1. q = [r EXCEPT !.decision = s]
      BY <1>2 DEF recordDecision
    <2>2. /\ q \in Recorder /\ SameFiles(r, q) /\ q.status = r.status
          /\ q.writeError = r.writeError /\ q.lost = r.lost /\ q.stored = r.stored
          /\ q.seq = r.seq /\ q.queue = r.queue /\ q.decision = s /\ q.log = r.log
          /\ q.complete = r.complete /\ q.missing = r.missing
          /\ q.skipped = r.skipped
      BY <2>1 DEF Recorder, SameFiles
    <2>0. r.seq <= q.seq
      BY <2>2 DEF Recorder
    <2> HIDE DEF q
    <2>3. Accounted(q) = Accounted(r)
      BY <2>2 DEF Accounted
    <2>4. Size(q) = Size(r) /\ \A i : Ev(q, i) = Ev(r, i)
      BY <2>2, QueueSame
    <2>5. Faithful(r) => Faithful(q)
      <3> SUFFICES ASSUME Faithful(r), ~q.writeError PROVE Faithful(q)
        BY DEF Faithful
      <3>1. r.decision = s
        BY <1>2, <2>2 DEF Faithful
      <3> QED
        BY <3>1, <2>2, <2>3, <2>4 DEF Faithful, HasDecision, EndsTo
    <2>6. Excluded(q) = Excluded(r)
      BY <2>2 DEF Excluded
    <2>7. Touch(r, q, s)
      BY <2>0, <2>2, <2>5, <2>6, QuietTouch
    <2> QED
      BY <2>3, <2>7 DEF q
  <1>3. CASE r.stored = None
    <2> DEFINE p == [r EXCEPT !.decision = s, !.stored = s]
    <2>1. /\ p \in Recorder /\ SameFiles(r, p) /\ p.status = r.status
          /\ p.seq = r.seq /\ p.queue = r.queue /\ p.lost = r.lost /\ p.writeError = r.writeError
          /\ p.stored = s /\ p.decision = s
          /\ p.complete = r.complete /\ p.missing = r.missing /\ p.skipped = r.skipped
      BY DEF Recorder, SameFiles
    <2>2. q = appendEvent(p, "decision", s) /\ "decision" \in Kinds
      BY <1>0, <1>3 DEF recordDecision, Kinds
    <2> HIDE DEF p, q
    <2>3. Accounted(p) = Accounted(r)
      BY <2>1 DEF Accounted
    <2>4. Notes(r, p, "decision", s)
      BY <2>1, <2>3 DEF Notes, Excluded, Ends
    <2>5. Touch(r, q, s) /\ Accounted(q) = Accounted(r)
      BY <2>2, <2>3, <2>4, NotesTouch
    <2> QED
      BY <2>5 DEF q
  <1> QED
    BY <1>1, <1>2, <1>3

-----------------------------------------------------------------------------
(* What the queue of writes does. *)

\* Nothing but the files changes, and no result is written.
SameRecord(r, q) ==
  /\ q.of = r.of /\ q.run = r.run /\ q.finalized = r.finalized /\ q.seq = r.seq
  /\ SameNotes(r, q)

\* The first event of the queue moves to the log.
Written(r) == [r EXCEPT !.log = Append(@, Head(r.queue)), !.queue = Tail(@)]

\* A write that fails rejects the whole queue.
Unwritten(r, torn) ==
  Rejected([r EXCEPT !.broken = TRUE, !.queue = <<>>, !.tail = torn],
           {e.kind : e \in Range(r.queue)})

\* A write changes neither the events nor what else the recorder holds.
LEMMA WriteIs ==
  ASSUME NEW r \in Recorder, r.queue # <<>>,
         NEW q, q = Written(r)
  PROVE  /\ q \in Recorder /\ SameRecord(r, q)
         /\ q.broken = r.broken /\ q.writeError = r.writeError /\ q.lost = r.lost
         /\ Len(q.log) = Len(r.log) + 1 /\ Size(q) = Size(r)
         /\ \A i \in 1..Size(r) : Ev(q, i) = Ev(r, i)
         /\ \A i \in 1..Len(q.queue) : q.queue[i] = r.queue[i + 1]
         /\ \A i \in 1..Len(r.log) : q.log[i] = r.log[i]
         /\ Ordered(r) => Ordered(q)
  <1> DEFINE l == r.log
             x == r.queue
             m == Append(l, Head(x))
             y == Tail(x)
  <1>1. l \in Seq(Event) /\ x \in Seq(Event) /\ x # <<>>
    BY DEF Recorder
  <1>2. Head(x) \in Event /\ y \in Seq(Event) /\ m \in Seq(Event)
    BY <1>1
  <1>3. /\ Len(y) = Len(x) - 1 /\ Len(x) \in Nat /\ Len(x) > 0 /\ Len(l) \in Nat
        /\ Head(x) = x[1] /\ \A i \in 1..Len(y) : y[i] = x[i + 1]
    BY <1>1
  <1>4. /\ Len(m) = Len(l) + 1 /\ m[Len(l) + 1] = x[1]
        /\ \A i \in 1..Len(l) : m[i] = l[i]
    BY <1>1, <1>2, <1>3, AppendProperties
  <1> HIDE DEF m, y
  <1>5. q = [r EXCEPT !.log = m, !.queue = y]
    BY DEF m, y, Written
  <1>6. q \in Recorder /\ q.log = m /\ q.queue = y
    BY <1>2, <1>5 DEF Recorder
  <1>7. /\ SameRecord(r, q)
        /\ q.broken = r.broken /\ q.writeError = r.writeError /\ q.lost = r.lost
    BY <1>5 DEF Recorder, SameRecord, SameNotes
  <1>8. Size(r) = Len(l) + Len(x) /\ Size(q) = Len(m) + Len(y)
    BY <1>6 DEF Size
  <1>9. \A i : Ev(r, i) = IF i <= Len(l) THEN l[i] ELSE x[i - Len(l)]
    BY DEF Ev
  <1>10. \A i : Ev(q, i) = IF i <= Len(m) THEN m[i] ELSE y[i - Len(m)]
    <2>1. \A i : Ev(q, i) = IF i <= Len(q.log) THEN q.log[i] ELSE q.queue[i - Len(q.log)]
      BY DEF Ev
    <2> QED
      BY <2>1, <1>6, Zenon
  <1> HIDE DEF l, x
  <1>15. Size(q) = Size(r)
    BY <1>3, <1>4, <1>8
  <1>16. \A i \in 1..Size(r) : Ev(q, i) = Ev(r, i)
    <2> TAKE i \in 1..Size(r)
    <2>1. CASE i <= Len(l)
      BY <2>1, <1>3, <1>4, <1>8, <1>9, <1>10
    <2>2. CASE i = Len(l) + 1
      BY <2>2, <1>3, <1>4, <1>8, <1>9, <1>10
    <2>3. CASE i > Len(l) + 1
      <3>1. i - Len(m) \in 1..Len(y) /\ (i - Len(m)) + 1 = i - Len(l)
        BY <2>3, <1>3, <1>4, <1>8
      <3>2. y[i - Len(m)] = x[i - Len(l)]
        BY <3>1, <1>3
      <3> QED
        BY <2>3, <3>2, <1>3, <1>4, <1>9, <1>10
    <2> QED
      BY <2>1, <2>2, <2>3, <1>3, <1>8
  <1>17. Ordered(r) => Ordered(q)
    <2> HAVE Ordered(r)
    <2>1. ~r.broken /\ q.broken = r.broken /\ q.seq = r.seq /\ q.skipped = r.skipped
      BY <1>7 DEF Ordered, SameRecord, SameNotes
    <2> QED
      BY <2>1, <1>15, <1>16 DEF Ordered
  <1> QED
    BY <1>3, <1>4, <1>6, <1>7, <1>15, <1>16, <1>17 DEF l, x

\* A write keeps what the recorder says true.
LEMMA WriteSound ==
  ASSUME NEW r \in Recorder, r.queue # <<>>, Sound(r),
         NEW q, q = Written(r)
  PROVE  Sound(q)
  <1>1. /\ q \in Recorder /\ SameRecord(r, q)
        /\ q.writeError = r.writeError /\ q.lost = r.lost
        /\ Size(q) = Size(r) /\ (\A i \in 1..Size(r) : Ev(q, i) = Ev(r, i))
        /\ Ordered(q)
    <2>1. Ordered(r)
      BY DEF Sound
    <2> QED
      BY <2>1, WriteIs, Zenon
  <1>2. EndsTo(q, Size(q)) = EndsTo(r, Size(r)) /\ Accounted(q) = Accounted(r)
    BY <1>1 DEF EndsTo, Accounted, SameRecord, SameNotes
  <1>3. \A s : HasDecision(r, Size(r), s) => HasDecision(q, Size(q), s)
    BY <1>1 DEF HasDecision
  <1>4. q.stored = r.stored /\ q.decision = r.decision
    BY <1>1 DEF SameRecord, SameNotes
  <1> QED
    BY <1>1, <1>2, <1>3, <1>4 DEF Sound, Faithful

\* A failed write drops the queue; what it drops is known to be lost.
LEMMA FailIs ==
  ASSUME NEW r \in Recorder, NEW torn \in BOOLEAN, NEW q, q = Unwritten(r, torn)
  PROVE  /\ q \in Recorder /\ SameRecord(r, q) /\ q.log = r.log
         /\ q.broken /\ q.queue = <<>> /\ Size(q) = Len(r.log)
         /\ \A i \in 1..Len(r.log) : Ev(q, i) = Ev(r, i)
         /\ r.writeError => q.writeError
         /\ ~q.writeError => /\ \A i \in 1..Len(r.queue) : r.queue[i].kind \in Awaited
                             /\ q.lost \subseteq r.lost \cup Awaited
         /\ (\A i \in 1..Len(r.queue) : r.queue[i].kind \in Awaited) =>
              q.writeError = r.writeError
  <1> DEFINE x == r.queue
             K == {e.kind : e \in Range(x)}
             p == [r EXCEPT !.broken = TRUE, !.queue = <<>>, !.tail = torn]
  <1>1. x \in Seq(Event) /\ r.log \in Seq(Event)
    BY DEF Recorder
  <1>2. \A i \in 1..Len(x) : x[i] \in Event
    BY <1>1, ElementOfSeq
  <1>3. K = {x[i].kind : i \in 1..Len(x)}
    BY <1>1 DEF Range
  <1> HIDE DEF K
  <1>4. K \in SUBSET Kinds
    BY <1>2, <1>3 DEF Event
  <1>5. /\ p \in Recorder /\ p.log = r.log /\ p.queue = <<>> /\ p.broken
        /\ p.writeError = r.writeError /\ p.lost = r.lost
        /\ SameRecord(r, p)
    <2> DEFINE z == <<>>
    <2>1. z \in Seq(Event)
      OBVIOUS
    <2>2. p = [r EXCEPT !.broken = TRUE, !.queue = z, !.tail = torn]
      OBVIOUS
    <2> HIDE DEF z, p
    <2>3. /\ p \in Recorder /\ p.log = r.log /\ p.queue = z /\ p.broken
          /\ p.writeError = r.writeError /\ p.lost = r.lost
          /\ SameRecord(r, p)
      BY <2>1, <2>2 DEF Recorder, SameRecord, SameNotes
    <2> QED
      BY <2>3 DEF z
  <1>6. q = Rejected(p, K)
    BY DEF Unwritten, K
  <1> HIDE DEF p
  <1>7. /\ q \in Recorder /\ SameFiles(p, q) /\ SameNotes(p, q)
        /\ q.seq = p.seq /\ q.queue = p.queue
        /\ q.lost = p.lost \cup K
        /\ q.writeError <=> (p.writeError \/ ~(K \subseteq Awaited))
    BY <1>4, <1>5, <1>6, RejectedIs, Zenon
  <1>8. SameRecord(r, q) /\ q.log = r.log /\ q.broken /\ q.queue = <<>>
    BY <1>5, <1>7 DEF SameFiles, SameRecord, SameNotes
  <1>9. Len(q.queue) = 0
    BY <1>8
  <1>10. Size(q) = Len(r.log)
    BY <1>1, <1>7, <1>8, <1>9 DEF Size, Recorder
  <1>11. \A i \in 1..Len(r.log) : Ev(q, i) = Ev(r, i)
    BY <1>7, <1>8, EvType
  <1>12. K \subseteq Awaited <=> \A i \in 1..Len(r.queue) : r.queue[i].kind \in Awaited
    BY <1>3
  <1>13. q.writeError \in BOOLEAN /\ r.writeError \in BOOLEAN
    BY <1>7 DEF Recorder
  <1>14. r.writeError => q.writeError
    BY <1>5, <1>7
  <1>15. ~q.writeError => K \subseteq Awaited /\ q.lost \subseteq r.lost \cup Awaited
    BY <1>5, <1>7
  <1>16. K \subseteq Awaited => q.writeError = r.writeError
    BY <1>5, <1>7, <1>13
  <1> HIDE DEF x
  <1> QED
    BY <1>7, <1>8, <1>10, <1>11, <1>12, <1>14, <1>15, <1>16

\* A failed write keeps what the recorder says true.
LEMMA FailSound ==
  ASSUME NEW r \in Recorder, NEW torn \in BOOLEAN, Sound(r), NEW q, q = Unwritten(r, torn)
  PROVE  Sound(q)
  <1>1. /\ q \in Recorder /\ SameRecord(r, q) /\ q.log = r.log
        /\ q.broken /\ q.queue = <<>> /\ Size(q) = Len(r.log)
        /\ \A i \in 1..Len(r.log) : Ev(q, i) = Ev(r, i)
        /\ r.writeError => q.writeError
        /\ ~q.writeError => /\ \A i \in 1..Len(r.queue) : r.queue[i].kind \in Awaited
                            /\ q.lost \subseteq r.lost \cup Awaited
    BY FailIs, Zenon
  <1>2. Ordered(q)
    <2>1. \A i \in 1..Len(r.log) : i \in 1..Size(r)
      <3> DEFINE l == Len(r.log)
                 x == Len(r.queue)
                 n == Size(r)
      <3>1. l \in Nat /\ x \in Nat /\ n = l + x
        BY EvType DEF Size
      <3> HIDE DEF l, x, n
      <3>2. \A i \in 1..l : i \in 1..n
        BY <3>1
      <3> QED
        BY <3>2 DEF l, n
    <2>2. q.seq = r.seq /\ q.skipped = r.skipped
      BY <1>1 DEF SameRecord, SameNotes
    <2> QED
      BY <1>1, <2>1, <2>2 DEF Sound, Ordered
  <1>3. Faithful(q)
    <2> SUFFICES ASSUME ~q.writeError
                 PROVE  /\ q.lost \subseteq Awaited
                        /\ q.stored = q.decision
                        /\ q.decision # None => HasDecision(q, Size(q), q.decision)
                        /\ Cardinality(EndsTo(q, Size(q))) >= Cardinality(Accounted(q))
      BY DEF Faithful
    <2>1. /\ r.lost \subseteq Awaited /\ r.stored = r.decision
          /\ r.decision # None => HasDecision(r, Size(r), r.decision)
          /\ Cardinality(EndsTo(r, Size(r))) >= Cardinality(Accounted(r))
      BY <1>1 DEF Sound, Faithful
    <2>2. q.stored = r.stored /\ q.decision = r.decision /\ Accounted(q) = Accounted(r)
      BY <1>1 DEF SameRecord, SameNotes, Accounted
    <2>3. /\ Len(r.log) \in Nat /\ Len(r.queue) \in Nat /\ Size(r) = Len(r.log) + Len(r.queue)
          /\ \A i \in 1..Len(r.queue) : Ev(r, Len(r.log) + i) = r.queue[i]
      BY EvType DEF Size
    <2> DEFINE L == Len(r.log)
               N == Len(r.queue)
    <2>4. /\ \A i \in 1..N : Ev(r, L + i).kind \in Awaited
          /\ L \in Nat /\ N \in Nat /\ Size(r) = L + N
          /\ Size(q) = L /\ \A i \in 1..L : Ev(q, i) = Ev(r, i)
      BY <1>1, <2>3
    <2> HIDE DEF L, N
    <2>5. \A i \in 1..Size(r) : i > L => Ev(r, i).kind \notin Ends \cup {"decision"}
      <3> SUFFICES ASSUME NEW i \in 1..Size(r), i > L
                   PROVE  Ev(r, i).kind \in Awaited
        BY DEF Awaited, Ends
      <3>1. i - L \in 1..N /\ L + (i - L) = i
        BY <2>4
      <3> QED
        BY <3>1, <2>4
    <2>6. EndsTo(q, Size(q)) = EndsTo(r, Size(r))
      BY <2>4, <2>5 DEF EndsTo
    <2>7. \A s : HasDecision(r, Size(r), s) => HasDecision(q, Size(q), s)
      BY <2>4, <2>5 DEF HasDecision
    <2> QED
      BY <1>1, <2>1, <2>2, <2>6, <2>7
  <1> QED
    BY <1>2, <1>3 DEF Sound

\* What no step undoes: the log only grows, and so do the events unless a failed
\* write has dropped the queue.
Grows(r, q) ==
  /\ q \in Recorder /\ q.of = r.of
  /\ Len(r.log) <= Len(q.log) /\ \A i \in 1..Len(r.log) : q.log[i] = r.log[i]
  /\ r.broken => q.broken
  /\ q.broken \/ Later(r, q)
  /\ Sound(r) => Sound(q)

LEMMA SameGrows ==
  ASSUME NEW r \in Recorder
  PROVE  Grows(r, r)
  BY EvType DEF Grows, Later

LEMMA TouchGrows ==
  ASSUME NEW r \in Recorder, NEW q, NEW s, Touch(r, q, s)
  PROVE  Grows(r, q) /\ q.run = r.run /\ q.finalized = r.finalized
  <1>1. Len(r.log) \in Nat /\ q.log = r.log
    BY EvType DEF Touch, SameFiles
  <1> QED
    BY <1>1 DEF Grows, Touch, SameFiles

LEMMA WriteGrows ==
  ASSUME NEW r \in Recorder, r.queue # <<>>, NEW q, q = Written(r)
  PROVE  Grows(r, q) /\ q.run = r.run /\ q.finalized = r.finalized
  <1>1. /\ q \in Recorder /\ SameRecord(r, q)
        /\ q.broken = r.broken
        /\ Len(q.log) = Len(r.log) + 1 /\ Size(q) = Size(r)
        /\ \A i \in 1..Size(r) : Ev(q, i) = Ev(r, i)
        /\ \A i \in 1..Len(r.log) : q.log[i] = r.log[i]
    BY WriteIs, Zenon
  <1>2. Len(r.log) \in Nat /\ Size(r) \in Nat
    BY EvType
  <1>3. Len(r.log) <= Len(q.log)
    BY <1>1, <1>2
  <1>4. Later(r, q)
    BY <1>1, <1>2 DEF Later
  <1> QED
    BY <1>1, <1>3, <1>4, WriteSound DEF Grows, SameRecord

LEMMA FailGrows ==
  ASSUME NEW r \in Recorder, NEW torn \in BOOLEAN, NEW q, q = Unwritten(r, torn)
  PROVE  Grows(r, q) /\ q.run = r.run /\ q.finalized = r.finalized
  <1>1. q \in Recorder /\ SameRecord(r, q) /\ q.log = r.log /\ q.broken
    BY FailIs, Zenon
  <1>2. Len(r.log) \in Nat
    BY EvType
  <1> QED
    BY <1>1, <1>2, FailSound DEF Grows, SameRecord

-----------------------------------------------------------------------------
(* Steps on behalf of a session, at the current recorder. *)

\* The current recorder is touched for s, and the calls C are accounted for.
Touches(s, C) ==
  /\ artifacts # 0
  /\ \E q : /\ Touch(Current, q, s) /\ Accounted(q) = Accounted(Current) \cup C
            /\ recs' = [recs EXCEPT ![artifacts] = q]

LEMMA CurrentIs ==
  ASSUME TypeOK, artifacts # 0
  PROVE  artifacts \in 1..Len(recs) /\ Current \in Recorder /\ Current = recs[artifacts]
  <1>1. recs \in Seq(Recorder) /\ artifacts \in 1..Len(recs)
    BY DEF TypeOK
  <1> QED
    BY <1>1, ElementOfSeq DEF Current

\* One attempt is replaced.
LEMMA ReplaceOne ==
  ASSUME TypeOK, NEW a \in 1..Len(recs), NEW q \in Recorder, recs' = [recs EXCEPT ![a] = q]
  PROVE  /\ recs' \in Seq(Recorder) /\ Len(recs') = Len(recs) /\ recs'[a] = q
         /\ \A b \in 1..Len(recs) : b # a => recs'[b] = recs[b]
  <1>1. recs \in Seq(Recorder)
    BY DEF TypeOK
  <1> QED
    BY <1>1, ExceptSeq

LEMMA TouchesIs ==
  ASSUME TypeOK, NEW s, NEW C, Touches(s, C)
  PROVE  /\ recs' \in Seq(Recorder) /\ Len(recs') = Len(recs)
         /\ artifacts \in 1..Len(recs) /\ recs[artifacts] \in Recorder
         /\ Touch(recs[artifacts], recs'[artifacts], s)
         /\ Accounted(recs'[artifacts]) = Accounted(recs[artifacts]) \cup C
         /\ \A a \in 1..Len(recs) : a # artifacts => recs'[a] = recs[a]
  <1>1. artifacts \in 1..Len(recs) /\ Current \in Recorder /\ Current = recs[artifacts]
    BY CurrentIs DEF Touches
  <1>2. PICK q : /\ Touch(Current, q, s) /\ Accounted(q) = Accounted(Current) \cup C
                 /\ recs' = [recs EXCEPT ![artifacts] = q]
    BY DEF Touches
  <1>3. q \in Recorder
    BY <1>2 DEF Touch
  <1>4. /\ recs' \in Seq(Recorder) /\ Len(recs') = Len(recs) /\ recs'[artifacts] = q
        /\ \A b \in 1..Len(recs) : b # artifacts => recs'[b] = recs[b]
    BY <1>1, <1>2, <1>3, ReplaceOne
  <1> QED
    BY <1>1, <1>2, <1>4

\* Who acts, and at which recorder.
LEMMA Actors ==
  ASSUME TypeOK, Driven
  PROVE  /\ phase \in {"starting", "run"} => active \in Sessions /\ artifacts # 0
         /\ coding \in Accountable /\ (coding # 0 => phase = "run")
         /\ \A s \in Sessions : handler[s] = "asking" => asking[s] \in Calls
         /\ fin # "no" => artifacts # 0 /\ ~Current.finalized
  BY ArtifactsAssumption DEF TypeOK, Driven, Calls, Accountable

LEMMA SessionStartTouches ==
  ASSUME TypeOK, Driven, NEW ok \in BOOLEAN, session_start(ok)
  PROVE  Touches(active, {})
  <1>1. active \in Sessions /\ artifacts # 0
    BY Actors DEF session_start
  <1>2. Current \in Recorder
    BY <1>1, CurrentIs
  <1> DEFINE q == IF ~ok THEN recordError(Current, active, FALSE)
                  ELSE IF active \in decided THEN recordDecision(Current, active)
                  ELSE Current
  <1>3. Touch(Current, Current, active)
    BY <1>2, NothingTouch
  <1>4. /\ Touch(Current, recordError(Current, active, FALSE), active)
        /\ Accounted(recordError(Current, active, FALSE)) = Accounted(Current)
    BY <1>1, <1>2, ErrorTouch
  <1>5. /\ Touch(Current, recordDecision(Current, active), active)
        /\ Accounted(recordDecision(Current, active)) = Accounted(Current)
    BY <1>1, <1>2, DecisionTouch
  <1>6. Touch(Current, q, active) /\ Accounted(q) = Accounted(Current) \cup {}
    BY <1>3, <1>4, <1>5
  <1>7. recs' = [recs EXCEPT ![artifacts] = q]
    BY DEF session_start, Set
  <1> HIDE DEF q
  <1> QED
    BY <1>1, <1>6, <1>7 DEF Touches

\* The steps that append one event that is no decision, end of a call or error.
LEMMA AppendTouches ==
  ASSUME TypeOK, artifacts # 0, NEW k \in Kinds \ (Ends \cup {"decision", "error"}),
         NEW s \in Sessions, Set(appendEvent(Current, k, s))
  PROVE  Touches(s, {})
  <1>1. Current \in Recorder
    BY CurrentIs
  <1>2. /\ Touch(Current, appendEvent(Current, k, s), s)
        /\ Accounted(appendEvent(Current, k, s)) = Accounted(Current)
    BY <1>1, AppendTouch
  <1> QED
    BY <1>2 DEF Touches, Set

\* The steps that record an error.
LEMMA ErrorTouches ==
  ASSUME TypeOK, artifacts # 0, NEW s \in Sessions, NEW limit \in BOOLEAN,
         Set(recordError(Current, s, limit))
  PROVE  Touches(s, {})
  <1>1. Current \in Recorder
    BY CurrentIs
  <1>2. /\ Touch(Current, recordError(Current, s, limit), s)
        /\ Accounted(recordError(Current, s, limit)) = Accounted(Current)
    BY <1>1, ErrorTouch
  <1> QED
    BY <1>2 DEF Touches, Set

LEMMA HandlerTouches ==
  ASSUME TypeOK, Driven, NEW s \in Sessions
  PROVE  /\ input_refused(s) \/ input_fails(s) \/ stray_timer(s) \/ input_routed(s) =>
              Touches(s, {})
         /\ \A b \in BOOLEAN : input_persisted(s, b) => Touches(s, {})
         /\ \A b \in BOOLEAN : classifier_success(s, b) \/ classifier_error(s, b) =>
              asking[s] \in Calls /\ Touches(s, {asking[s]})
  <1>1. ASSUME input_refused(s) \/ input_fails(s) \/ stray_timer(s) PROVE Touches(s, {})
    <2>1. \E limit \in BOOLEAN : Set(recordError(Current, s, limit)) /\ artifacts # 0
      BY <1>1 DEF input_refused, input_fails, stray_timer, Room
    <2> QED
      BY <2>1, ErrorTouches
  <1>2. ASSUME input_routed(s) PROVE Touches(s, {})
    <2>1. Set(appendEvent(Current, "start", s)) /\ artifacts # 0
      BY <1>2 DEF input_routed, Dispatch, Room
    <2> QED
      BY <2>1, AppendTouches DEF Kinds, Ends
  <1>3. ASSUME NEW b \in BOOLEAN, input_persisted(s, b) PROVE Touches(s, {})
    <2> DEFINE r == recordDecision(Current, s)
               q == IF b THEN recordError(r, s, TRUE) ELSE r
    <2>1. artifacts # 0 /\ Current \in Recorder
      BY <1>3, CurrentIs DEF input_persisted, Room
    <2>2. recs' = [recs EXCEPT ![artifacts] = q]
      BY <1>3 DEF input_persisted, Set
    <2>3. Touch(Current, r, s) /\ Accounted(r) = Accounted(Current)
      BY <2>1, DecisionTouch
    <2> HIDE DEF r
    <2>4. r \in Recorder
      BY <2>3 DEF Touch
    <2>5. /\ Touch(r, recordError(r, s, TRUE), s)
          /\ Accounted(recordError(r, s, TRUE)) = Accounted(r)
      BY <2>4, ErrorTouch
    <2>6. Touch(Current, recordError(r, s, TRUE), s)
      BY <2>1, <2>3, <2>5, TouchTrans
    <2>7. Touch(Current, q, s) /\ Accounted(q) = Accounted(Current) \cup {}
      BY <2>3, <2>5, <2>6
    <2> HIDE DEF q
    <2> QED
      BY <2>1, <2>2, <2>7 DEF Touches
  <1>4. ASSUME NEW b \in BOOLEAN, classifier_success(s, b)
        PROVE  asking[s] \in Calls /\ Touches(s, {asking[s]})
    <2>1. artifacts # 0 /\ Current \in Recorder /\ asking[s] \in Calls
      BY <1>4, CurrentIs, Actors DEF classifier_success, Room
    <2>2. Set(recordUsage(Current, asking[s], s, b))
      BY <1>4 DEF classifier_success
    <2>3. /\ Touch(Current, recordUsage(Current, asking[s], s, b), s)
          /\ Accounted(recordUsage(Current, asking[s], s, b)) = Accounted(Current) \cup {asking[s]}
      BY <2>1, UsageTouch DEF Accountable
    <2> QED
      BY <2>1, <2>2, <2>3 DEF Touches, Set
  <1>5. ASSUME NEW b \in BOOLEAN, classifier_error(s, b)
        PROVE  asking[s] \in Calls /\ Touches(s, {asking[s]})
    <2> DEFINE r == recordUsage(Current, asking[s], s, FALSE)
               q == recordError(r, s, b)
    <2>1. artifacts # 0 /\ Current \in Recorder /\ asking[s] \in Calls
      BY <1>5, CurrentIs, Actors DEF classifier_error, Room
    <2>2. recs' = [recs EXCEPT ![artifacts] = q]
      BY <1>5 DEF classifier_error, Set
    <2>3. Touch(Current, r, s) /\ Accounted(r) = Accounted(Current) \cup {asking[s]}
      BY <2>1, UsageTouch DEF Accountable
    <2> HIDE DEF r
    <2>4. r \in Recorder
      BY <2>3 DEF Touch
    <2>5. Touch(r, q, s) /\ Accounted(q) = Accounted(r)
      BY <2>4, ErrorTouch
    <2> HIDE DEF q
    <2>6. Touch(Current, q, s)
      BY <2>1, <2>3, <2>5, TouchTrans
    <2> QED
      BY <2>1, <2>2, <2>3, <2>5, <2>6 DEF Touches
  <1> QED
    BY <1>1, <1>2, <1>3, <1>4, <1>5

LEMMA ExtensionTouches ==
  ASSUME TypeOK, Driven
  PROVE  /\ hook \/ before_provider_request \/ stopForLimit \/ session_shutdown => Touches(active, {})
         /\ tool_refused => Touches(active, {})
         /\ \A b \in BOOLEAN : message_refused(b) => Touches(active, {})
         /\ session_compact_failed => Touches(active, {coding})
         /\ \A b, m \in BOOLEAN : message_end(b, m) => Touches(active, {coding})
  <1>1. ASSUME hook \/ before_provider_request \/ session_shutdown PROVE Touches(active, {})
    <2>1. active \in Sessions /\ artifacts # 0
      BY <1>1, Actors DEF hook, before_provider_request, session_shutdown
    <2>2. \E k \in Kinds \ (Ends \cup {"decision", "error"}) : Set(appendEvent(Current, k, active))
      BY <1>1 DEF hook, before_provider_request, session_shutdown, Dispatch, Kinds, Ends
    <2> QED
      BY <2>1, <2>2, AppendTouches
  <1>2. ASSUME stopForLimit PROVE Touches(active, {})
    <2>1. active \in Sessions /\ artifacts # 0
      BY <1>2, Actors DEF stopForLimit
    <2>2. Set(recordError(Current, active, TRUE))
      BY <1>2 DEF stopForLimit
    <2> QED
      BY <2>1, <2>2, ErrorTouches
  <1>3. ASSUME NEW b \in BOOLEAN, message_refused(b) PROVE Touches(active, {})
    <2> DEFINE t == IF b /\ Current.status = "completed" THEN "error" ELSE Current.status
    <2>1. active \in Sessions /\ artifacts # 0
      BY <1>3, Actors DEF message_refused
    <2>2. Current \in Recorder
      BY <2>1, CurrentIs
    <2>3. t \in Status /\ (t = "completed" => Current.status = "completed")
      BY <2>2 DEF Recorder, Status
    <2>4. recs' = [recs EXCEPT ![artifacts] = [Current EXCEPT !.status = t]]
      BY <1>3 DEF message_refused, Set
    <2> HIDE DEF t
    <2>5. /\ Touch(Current, [Current EXCEPT !.status = t], active)
          /\ Accounted([Current EXCEPT !.status = t]) = Accounted(Current)
      BY <2>2, <2>3, StatusTouch
    <2> QED
      BY <2>1, <2>4, <2>5 DEF Touches
  <1>4. ASSUME NEW b \in BOOLEAN, NEW m \in BOOLEAN, message_end(b, m)
        PROVE  Touches(active, {coding})
    <2> DEFINE r == recordUsage(Current, coding, active, b)
               t == IF m /\ r.status = "completed" THEN "error" ELSE r.status
               q == [r EXCEPT !.status = t]
    <2>1. active \in Sessions /\ artifacts # 0 /\ coding \in Accountable
      BY <1>4, Actors DEF message_end
    <2>2. Current \in Recorder
      BY <2>1, CurrentIs
    <2>3. recs' = [recs EXCEPT ![artifacts] = q]
      BY <1>4 DEF message_end, Set
    <2>4. Touch(Current, r, active) /\ Accounted(r) = Accounted(Current) \cup {coding}
      BY <2>1, <2>2, UsageTouch
    <2> HIDE DEF r
    <2>5. r \in Recorder
      BY <2>4 DEF Touch
    <2>6. t \in Status /\ (t = "completed" => r.status = "completed")
      BY <2>5 DEF Recorder, Status
    <2> HIDE DEF t
    <2>7. Touch(r, q, active) /\ Accounted(q) = Accounted(r)
      BY <2>5, <2>6, StatusTouch
    <2> HIDE DEF q
    <2>8. Touch(Current, q, active)
      BY <2>2, <2>4, <2>7, TouchTrans
    <2> QED
      BY <2>1, <2>3, <2>4, <2>7, <2>8 DEF Touches
  <1>5. ASSUME tool_refused PROVE Touches(active, {})
    <2>1. artifacts # 0
      BY <1>5 DEF tool_refused, Room
    <2>2. Current \in Recorder
      BY <2>1, CurrentIs
    <2>3. recs' = [recs EXCEPT ![artifacts] = refuseEvent(Current, "plain")]
      BY <1>5 DEF tool_refused, Set
    <2>4. /\ Touch(Current, refuseEvent(Current, "plain"), active)
          /\ Accounted(refuseEvent(Current, "plain")) = Accounted(Current) \cup {}
      BY <2>2, RefuseTouch
    <2> QED
      BY <2>1, <2>3, <2>4 DEF Touches
  <1>6. ASSUME session_compact_failed PROVE Touches(active, {coding})
    <2> DEFINE q == appendEvent([Current EXCEPT !.missing = @ \cup {coding}],
                                "compaction-failed", active)
    <2>1. active \in Sessions /\ artifacts # 0 /\ coding \in Accountable
      BY <1>6, Actors DEF session_compact_failed
    <2>2. Current \in Recorder
      BY <2>1, CurrentIs
    <2>3. recs' = [recs EXCEPT ![artifacts] = q]
      BY <1>6 DEF session_compact_failed, Set
    <2>4. Touch(Current, q, active) /\ Accounted(q) = Accounted(Current) \cup {coding}
      BY <2>1, <2>2, CompactionTouch
    <2> HIDE DEF q
    <2> QED
      BY <2>1, <2>3, <2>4 DEF Touches
  <1> QED
    BY <1>1, <1>2, <1>3, <1>4, <1>5, <1>6

\* The failure event of a run that ends with an error.
LEMMA PatchTouches ==
  ASSUME TypeOK, Driven, capture_patch
  PROVE  /\ Touches(Current.of, {}) /\ mark' = Size(recs'[artifacts])
  <1> DEFINE t == IF Current.status = "limit" THEN Current.status ELSE "error"
             p == [Current EXCEPT !.status = t]
             q == IF runError THEN appendEvent(p, "failure", Current.of) ELSE Current
  <1>1. artifacts # 0
    BY Actors DEF capture_patch
  <1>2. Current \in Recorder /\ artifacts \in 1..Len(recs)
    BY <1>1, CurrentIs
  <1>3. Current.of \in Sessions
    BY <1>2 DEF Recorder
  <1>4. recs' = [recs EXCEPT ![artifacts] = q] /\ mark' = Size(q)
    BY DEF capture_patch, Set
  <1>5. t \in Status /\ t # "completed"
    BY <1>2 DEF Recorder, Status
  <1>6. Touch(Current, Current, Current.of)
    BY <1>2, NothingTouch
  <1> HIDE DEF t
  <1>7. Touch(Current, p, Current.of) /\ Accounted(p) = Accounted(Current)
    BY <1>2, <1>5, StatusTouch
  <1> HIDE DEF p
  <1>8. p \in Recorder
    BY <1>7 DEF Touch
  <1>9. /\ Touch(p, appendEvent(p, "failure", Current.of), Current.of)
        /\ Accounted(appendEvent(p, "failure", Current.of)) = Accounted(p)
    BY <1>3, <1>8, AppendTouch DEF Kinds, Ends
  <1>10. Touch(Current, appendEvent(p, "failure", Current.of), Current.of)
    BY <1>2, <1>7, <1>9, TouchTrans
  <1>11. Touch(Current, q, Current.of) /\ Accounted(q) = Accounted(Current) \cup {}
    BY <1>6, <1>7, <1>9, <1>10
  <1> HIDE DEF q
  <1>12. q \in Recorder
    BY <1>11 DEF Touch
  <1>13. recs'[artifacts] = q
    BY <1>2, <1>4, <1>12, ReplaceOne
  <1> QED
    BY <1>1, <1>4, <1>11, <1>13 DEF Touches

\* The finalization event comes last in the queue, and its position is marked.
LEMMA FinalizationTouches ==
  ASSUME TypeOK, Driven, AllSound, append_finalization
  PROVE  /\ Touches(Current.of, {})
         /\ SameNotes(recs[artifacts], recs'[artifacts])
         /\ recs'[artifacts].writeError = recs[artifacts].writeError
         /\ mark' = Size(recs[artifacts]) + 1 /\ mark' = Size(recs'[artifacts])
         /\ Ev(recs'[artifacts], mark').kind = "finalization"
         /\ \E e : e.kind = "finalization" /\ recs'[artifacts].queue = Append(recs[artifacts].queue, e)
  <1> DEFINE r == recs[artifacts]
             s == r.of
             q == appendEvent(r, "finalization", s)
             e == [seq |-> r.seq + 1, kind |-> "finalization", of |-> s]
  <1>1. artifacts # 0 /\ ~Current.finalized /\ ~Current.broken
    BY Actors DEF append_finalization
  <1>2. r \in Recorder /\ artifacts \in 1..Len(recs) /\ Current = r
    BY <1>1, CurrentIs
  <1>3. s \in Sessions /\ "finalization" \in Kinds
    BY <1>2 DEF Recorder, Kinds
  <1>4. recs' = [recs EXCEPT ![artifacts] = q] /\ mark' = Size(r) + 1
    BY <1>2 DEF append_finalization, Set
  <1>5. Touches(Current.of, {})
    <2>1. Set(appendEvent(Current, "finalization", Current.of))
      BY DEF append_finalization
    <2> QED
      BY <1>1, <1>2, <1>3, <2>1, AppendTouches DEF Kinds, Ends
  <1>7. e \in Event /\ e.kind = "finalization"
    BY <1>2, <1>3 DEF Event, Recorder
  <1> HIDE DEF q, r
  <1>8. q \in Recorder /\ SameFiles(r, q) /\ SameNotes(r, q) /\ Queues(r, q, "finalization", s)
    BY <1>1, <1>2, <1>3, AppendIs DEF q
  <1>9. q.queue = Append(r.queue, e) /\ q.seq = r.seq + 1 /\ q.log = r.log /\ q.writeError = r.writeError
    BY <1>8 DEF Queues, SameFiles
  <1> HIDE DEF e
  <1>10. Size(q) = Size(r) + 1 /\ Ev(q, Size(q)) = e
    BY <1>2, <1>7, <1>8, <1>9, QueueGrows
  <1>11. recs'[artifacts] = q
    BY <1>2, <1>4, <1>8, ReplaceOne
  <1> QED
    BY <1>4, <1>5, <1>7, <1>8, <1>9, <1>10, <1>11 DEF r

-----------------------------------------------------------------------------
(* The other steps on the attempts. *)

\* The files but run.json, the queue and the notes are the same.
SameBook(r, q) ==
  /\ q.of = r.of /\ q.log = r.log /\ q.queue = r.queue /\ q.broken = r.broken
  /\ q.seq = r.seq /\ q.lost = r.lost /\ q.writeError = r.writeError /\ SameNotes(r, q)

LEMMA BookGrows ==
  ASSUME NEW r \in Recorder, NEW q \in Recorder, SameBook(r, q)
  PROVE  /\ Grows(r, q) /\ Accounted(q) = Accounted(r)
         /\ Size(q) = Size(r) /\ \A i : Ev(q, i) = Ev(r, i)
  <1>1. Size(q) = Size(r) /\ (\A i : Ev(q, i) = Ev(r, i)) /\ Later(r, q)
    BY QueueSame DEF SameBook
  <1>2. Accounted(q) = Accounted(r) /\ q.stored = r.stored /\ q.decision = r.decision
    BY DEF SameBook, SameNotes, Accounted
  <1>3. Faithful(r) => Faithful(q)
    BY <1>1, <1>2 DEF SameBook, Faithful, HasDecision, EndsTo
  <1>4. Ordered(r) => Ordered(q)
    BY <1>1 DEF SameBook, SameNotes, Ordered
  <1>5. Len(r.log) \in Nat
    BY EvType
  <1> QED
    BY <1>1, <1>2, <1>3, <1>4, <1>5 DEF Grows, SameBook, Sound

\* run.json appears.
LEMMA ResultIs ==
  ASSUME NEW r \in Recorder, NEW x \in Result \cup {None}, NEW q, q = [r EXCEPT !.run = x]
  PROVE  q \in Recorder /\ SameBook(r, q) /\ q.run = x /\ q.finalized = r.finalized
  BY DEF Recorder, SameBook, SameNotes

LEMMA FinalIs ==
  ASSUME NEW r \in Recorder, NEW q, q = [r EXCEPT !.finalized = TRUE]
  PROVE  q \in Recorder /\ SameBook(r, q) /\ q.run = r.run /\ q.finalized
  BY DEF Recorder, SameBook, SameNotes

LEMMA TornIs ==
  ASSUME NEW r \in Recorder, NEW q, q = [r EXCEPT !.tail = TRUE]
  PROVE  q \in Recorder /\ SameBook(r, q) /\ q.run = r.run /\ q.finalized = r.finalized
  BY DEF Recorder, SameBook, SameNotes

\* A new attempt has logged its startup.
LEMMA NewIs ==
  ASSUME NEW s \in Sessions, NEW q, q = NewRecorder(s)
  PROVE  /\ q \in Recorder /\ Sound(q) /\ q.of = s /\ q.run = None /\ ~q.finalized /\ ~q.broken
         /\ q.queue = <<>> /\ q.decision = None /\ Accounted(q) = {} /\ Size(q) = 1
         /\ Ev(q, 1).of = s /\ Ev(q, 1).kind = "startup" /\ ~q.writeError /\ q.lost = {}
  <1> DEFINE e == [seq |-> 1, kind |-> "startup", of |-> s]
             l == <<e>>
             z == <<>>
             n == {}
  <1>1. e \in Event /\ e.of = s /\ e.kind = "startup" /\ e.seq = 1
    BY DEF Event, Kinds
  <1>2. q = [of |-> s, log |-> l, tail |-> FALSE, run |-> None, seq |-> 1, skipped |-> FALSE,
             queue |-> z, broken |-> FALSE, stored |-> None, decision |-> None, complete |-> n,
             missing |-> n, status |-> "completed", writeError |-> FALSE,
             finalized |-> FALSE, lost |-> n]
    BY DEF NewRecorder
  <1> HIDE DEF e
  <1>3. l \in Seq(Event) /\ Len(l) = 1 /\ l[1] = e
    BY <1>1
  <1>4. z \in Seq(Event) /\ Len(z) = 0
    OBVIOUS
  <1>5. n \in SUBSET Accountable /\ n \in SUBSET Kinds /\ n \cup n = {}
    OBVIOUS
  <1>0. z = <<>> /\ n = {}
    OBVIOUS
  <1> HIDE DEF l, z, n
  <1>6. q \in Recorder
    BY <1>2, <1>3, <1>4, <1>5 DEF Recorder, Status
  <1>7. /\ q.of = s /\ q.run = None /\ ~q.finalized /\ ~q.broken /\ q.log = l
        /\ q.queue = z /\ q.decision = None /\ q.seq = 1 /\ q.lost = n /\ ~q.writeError
        /\ ~q.skipped
        /\ q.complete = n /\ q.missing = n /\ q.stored = None
    BY <1>2
  <1>8. Accounted(q) = {}
    BY <1>5, <1>7 DEF Accounted
  <1>9. Size(q) = 1
    <2>1. Size(q) = Len(l) + Len(z)
      BY <1>7 DEF Size
    <2> QED
      BY <2>1, <1>3, <1>4
  <1>10. Ev(q, 1) = e
    <2>1. 1 \in 1..Len(q.log)
      <3>1. 1 \in 1..Len(l)
        BY <1>3
      <3> QED
        BY <3>1, <1>7, Zenon
    <2>2. Ev(q, 1) = q.log[1]
      BY <2>1, <1>6, EvType
    <2> QED
      BY <2>2, <1>3, <1>7
  <1>11. Ordered(q)
    <2>1. \A i \in 1..Size(q) : i = 1 /\ Ev(q, i).seq = 1
      BY <1>1, <1>9, <1>10
    <2> QED
      BY <2>1, <1>7, <1>9 DEF Ordered
  <1>12. Faithful(q)
    <2>1. Cardinality(EndsTo(q, Size(q))) \in Nat
      BY <1>6, <1>9, EndsFinite
    <2>2. Cardinality(Accounted(q)) = 0
      BY <1>8, FS_EmptySet
    <2>3. Cardinality(EndsTo(q, Size(q))) >= Cardinality(Accounted(q))
      BY <2>1, <2>2
    <2> QED
      BY <2>3, <1>0, <1>7 DEF Faithful
  <1> QED
    BY <1>0, <1>1, <1>6, <1>7, <1>8, <1>9, <1>10, <1>11, <1>12 DEF Sound

\* Every step of the system, as a step on the attempts.
RecordStep ==
  \/ recs' = recs
  \/ \E s \in Sessions, C \in SUBSET Accountable : Touches(s, C)
  \/ \E a \in 1..Len(recs) :
       recs[a].queue # <<>> /\ recs' = [recs EXCEPT ![a] = Written(recs[a])]
  \/ \E a \in 1..Len(recs), torn \in BOOLEAN : recs' = [recs EXCEPT ![a] = Unwritten(recs[a], torn)]
  \/ write_result
  \/ set_finalized
  \/ Kill(TRUE)
  \/ \E s \in Sessions : factory(s) /\ recs' = Append(recs, NewRecorder(s))

LEMMA Steps ==
  ASSUME TypeOK, Driven, Next
  PROVE  RecordStep
  <1>0. recs \in Seq(Recorder) /\ DOMAIN recs = 1..Len(recs)
    BY DEF TypeOK
  <1>1. CASE Process
    <2>1. CASE session_shutdown
      <3>1. active \in Sessions
        BY <2>1, Actors DEF session_shutdown
      <3>2. Touches(active, {})
        BY <2>1, ExtensionTouches
      <3> QED
        BY <3>1, <3>2 DEF RecordStep
    <2>2. ASSUME NEW s \in Sessions, factory(s) PROVE RecordStep
      BY <2>2 DEF factory, RecordStep
    <2>3. ASSUME NEW b \in BOOLEAN, session_start(b) PROVE RecordStep
      <3>1. active \in Sessions
        BY <2>3, Actors DEF session_start
      <3>2. Touches(active, {})
        BY <2>3, SessionStartTouches
      <3> QED
        BY <3>1, <3>2 DEF RecordStep
    <2>4. ASSUME NEW b \in BOOLEAN, quit(b) PROVE RecordStep
      BY <2>4 DEF quit, RecordStep, stores
    <2>5. ASSUME NEW b \in BOOLEAN, Kill(b) PROVE RecordStep
      <3>1. CASE b = TRUE
        BY <2>5, <3>1 DEF RecordStep
      <3>2. CASE b = FALSE
        BY <2>5, <3>2 DEF RecordStep, Kill
      <3> QED
        BY <3>1, <3>2
    <2> QED
      BY <1>1, <2>1, <2>2, <2>3, <2>4, <2>5 DEF Process
  <1>2. CASE Writes
    <2>1. PICK a \in 1..Len(recs) : write(a) \/ \E torn \in BOOLEAN : write_fails(a, torn)
      BY <1>0, <1>2 DEF Writes
    <2>2. recs[a] \in Recorder
      BY <1>0
    <2>3. CASE write(a)
      <3>1. recs' = [recs EXCEPT ![a] = Written(recs[a])]
        BY <1>0, <2>2, <2>3 DEF write, Written
      <3> QED
        BY <2>3, <3>1 DEF write, RecordStep
    <2>4. ASSUME NEW torn \in BOOLEAN, write_fails(a, torn) PROVE RecordStep
      <3>1. recs' = [recs EXCEPT ![a] = Unwritten(recs[a], torn)]
        BY <2>4 DEF write_fails, Unwritten
      <3> QED
        BY <3>1 DEF RecordStep
    <2> QED
      BY <2>1, <2>3, <2>4
  <1>3. CASE Extension
    <2>0. coding \in Accountable
      BY DEF TypeOK, Accountable, Calls
    <2>1. CASE hook \/ tool_refused \/ before_provider_request \/ stopForLimit
      <3>1. active \in Sessions
        BY <2>1, Actors DEF hook, tool_refused, before_provider_request, stopForLimit
      <3>2. Touches(active, {})
        BY <2>1, ExtensionTouches
      <3> QED
        BY <3>1, <3>2 DEF RecordStep
    <2>2. ASSUME NEW b \in BOOLEAN, message_refused(b) PROVE RecordStep
      <3>1. active \in Sessions
        BY <2>2, Actors DEF message_refused
      <3>2. Touches(active, {})
        BY <2>2, ExtensionTouches
      <3> QED
        BY <3>1, <3>2 DEF RecordStep
    <2>3. CASE session_compact_failed \/ \E b, m \in BOOLEAN : message_end(b, m)
      <3>1. active \in Sessions
        BY <2>3, Actors DEF message_end, session_compact_failed
      <3>2. Touches(active, {coding})
        BY <2>3, ExtensionTouches
      <3>3. {coding} \in SUBSET Accountable
        BY <2>0
      <3> QED
        BY <3>1, <3>2, <3>3 DEF RecordStep
    <2> QED
      BY <1>3, <2>1, <2>2, <2>3 DEF Extension
  <1>4. CASE Finalize
    <2>1. CASE close_flushed \/ summarize \/ finalize_throws \/ dispose
      BY <2>1 DEF close_flushed, summarize, finalize_throws, dispose, stores, RecordStep
    <2>2. CASE write_result \/ set_finalized
      BY <2>2 DEF RecordStep
    <2>3. CASE capture_patch \/ append_finalization
      <3>1. artifacts # 0
        BY <2>3, Actors DEF capture_patch, append_finalization
      <3>2. Current \in Recorder
        BY <3>1, CurrentIs
      <3>3. Current.of \in Sessions
        BY <3>2 DEF Recorder
      <3>4. Touches(Current.of, {})
        <4>1. CASE capture_patch
          BY <4>1, PatchTouches
        <4>2. CASE append_finalization
          <5>1. Set(appendEvent(Current, "finalization", Current.of))
            BY <4>2 DEF append_finalization
          <5> QED
            BY <3>1, <3>3, <5>1, AppendTouches DEF Kinds, Ends
        <4> QED
          BY <2>3, <4>1, <4>2
      <3> QED
        BY <3>3, <3>4 DEF RecordStep
    <2> QED
      BY <1>4, <2>1, <2>2, <2>3 DEF Finalize
  <1>5. ASSUME NEW s \in Sessions, Handler(s) PROVE RecordStep
    <2>1. CASE input_refused(s) \/ input_fails(s) \/ stray_timer(s) \/ input_routed(s)
      <3>1. Touches(s, {})
        BY <2>1, HandlerTouches
      <3> QED
        BY <3>1 DEF RecordStep
    <2>2. ASSUME NEW b \in BOOLEAN, input_persisted(s, b) PROVE RecordStep
      <3>1. Touches(s, {})
        BY <2>2, HandlerTouches
      <3> QED
        BY <3>1 DEF RecordStep
    <2>3. ASSUME NEW b \in BOOLEAN, classifier_success(s, b) \/ classifier_error(s, b)
          PROVE  RecordStep
      <3>1. asking[s] \in Calls /\ Touches(s, {asking[s]})
        BY <2>3, HandlerTouches
      <3>2. {asking[s]} \in SUBSET Accountable
        BY <3>1 DEF Accountable
      <3> QED
        BY <3>1, <3>2 DEF RecordStep
    <2>4. CASE input_fixed(s) \/ store_write(s)
      BY <2>4 DEF input_fixed, store_write, stores, RecordStep
    <2> QED
      BY <1>5, <2>1, <2>2, <2>3, <2>4 DEF Handler
  <1> QED
    BY <1>1, <1>2, <1>3, <1>4, <1>5 DEF Next

\* What a step leaves of the attempts: each of them grows, results come from
\* write_result and finalizations from set_finalized only, and new attempts are fresh.
Attempted(r, q, a) ==
  /\ Grows(r, q)
  /\ q.run = r.run \/ (write_result /\ a = artifacts)
  /\ q.finalized = r.finalized \/ (set_finalized /\ a = artifacts)

Evolves ==
  /\ recs' \in Seq(Recorder) /\ Len(recs) <= Len(recs')
  /\ \A a \in 1..Len(recs) : Attempted(recs[a], recs'[a], a)
  /\ \A a \in 1..Len(recs') : a > Len(recs) =>
       \E s \in Sessions : factory(s) /\ recs'[a] = NewRecorder(s)

\* The attempts evolve when one of them grows.
LEMMA OneGrows ==
  ASSUME TypeOK, NEW a \in 1..Len(recs), NEW q, recs' = [recs EXCEPT ![a] = q],
         Attempted(recs[a], q, a)
  PROVE  Evolves
  <1>0. recs \in Seq(Recorder) /\ Len(recs) \in Nat
    BY DEF TypeOK
  <1>1. q \in Recorder
    BY DEF Attempted, Grows
  <1>2. /\ recs' \in Seq(Recorder) /\ Len(recs') = Len(recs) /\ recs'[a] = q
        /\ \A b \in 1..Len(recs) : b # a => recs'[b] = recs[b]
    BY <1>1, ReplaceOne
  <1>3. \A b \in 1..Len(recs) : b # a => Attempted(recs[b], recs'[b], b)
    <2> TAKE b \in 1..Len(recs)
    <2> HAVE b # a
    <2>1. recs[b] \in Recorder /\ recs'[b] = recs[b]
      BY <1>0, <1>2, ElementOfSeq
    <2>2. Grows(recs[b], recs[b])
      BY <2>1, SameGrows
    <2> QED
      BY <2>1, <2>2 DEF Attempted
  <1> QED
    BY <1>0, <1>2, <1>3 DEF Evolves

LEMMA Evolution ==
  ASSUME TypeOK, Driven, [Next]_vars
  PROVE  Evolves
  <1>0. recs \in Seq(Recorder) /\ Len(recs) \in Nat
    BY DEF TypeOK
  <1>1. \A a \in 1..Len(recs) : recs[a] \in Recorder /\ Grows(recs[a], recs[a])
    BY <1>0, ElementOfSeq, SameGrows
  <1>2. CASE recs' = recs
    BY <1>0, <1>1, <1>2 DEF Evolves, Attempted
  <1>3. ASSUME NEW s \in Sessions, NEW C \in SUBSET Accountable, Touches(s, C) PROVE Evolves
    <2>1. PICK q : Touch(Current, q, s) /\ recs' = [recs EXCEPT ![artifacts] = q]
      BY <1>3 DEF Touches
    <2>2. artifacts \in 1..Len(recs) /\ Current \in Recorder /\ Current = recs[artifacts]
      BY <1>3, CurrentIs DEF Touches
    <2>3. Grows(Current, q) /\ q.run = Current.run /\ q.finalized = Current.finalized
      BY <2>1, <2>2, TouchGrows
    <2>4. Attempted(recs[artifacts], q, artifacts)
      BY <2>2, <2>3 DEF Attempted
    <2> QED
      BY <2>1, <2>2, <2>4, OneGrows
  <1>4. ASSUME NEW a \in 1..Len(recs), recs[a].queue # <<>>,
               recs' = [recs EXCEPT ![a] = Written(recs[a])]
        PROVE  Evolves
    <2> DEFINE q == Written(recs[a])
    <2>1. Grows(recs[a], q) /\ q.run = recs[a].run /\ q.finalized = recs[a].finalized
      BY <1>1, <1>4, WriteGrows
    <2> HIDE DEF q
    <2>2. Attempted(recs[a], q, a)
      BY <2>1 DEF Attempted
    <2> QED
      BY <1>4, <2>2, OneGrows DEF q
  <1>5. ASSUME NEW a \in 1..Len(recs), NEW torn \in BOOLEAN,
               recs' = [recs EXCEPT ![a] = Unwritten(recs[a], torn)]
        PROVE  Evolves
    <2> DEFINE q == Unwritten(recs[a], torn)
    <2>1. Grows(recs[a], q) /\ q.run = recs[a].run /\ q.finalized = recs[a].finalized
      BY <1>1, FailGrows
    <2> HIDE DEF q
    <2>2. Attempted(recs[a], q, a)
      BY <2>1 DEF Attempted
    <2> QED
      BY <1>5, <2>2, OneGrows DEF q
  <1>6. CASE write_result
    <2> DEFINE q == [Current EXCEPT !.run = snapshot]
    <2>1. artifacts # 0 /\ recs' = [recs EXCEPT ![artifacts] = q]
      BY <1>6, Actors DEF write_result, Set
    <2>2. artifacts \in 1..Len(recs) /\ Current \in Recorder /\ Current = recs[artifacts]
      BY <2>1, CurrentIs
    <2>3. q \in Recorder /\ SameBook(Current, q) /\ q.finalized = Current.finalized
      <3>1. snapshot \in Result \cup {None}
        BY DEF TypeOK
      <3> QED
        BY <2>2, <3>1, ResultIs
    <2> HIDE DEF q
    <2>4. Grows(Current, q)
      BY <2>2, <2>3, BookGrows
    <2>5. Attempted(recs[artifacts], q, artifacts)
      BY <1>6, <2>2, <2>3, <2>4 DEF Attempted
    <2> QED
      BY <2>1, <2>2, <2>5, OneGrows
  <1>7. CASE set_finalized
    <2> DEFINE q == [Current EXCEPT !.finalized = TRUE]
    <2>1. artifacts # 0 /\ recs' = [recs EXCEPT ![artifacts] = q]
      BY <1>7, Actors DEF set_finalized, Set
    <2>2. artifacts \in 1..Len(recs) /\ Current \in Recorder /\ Current = recs[artifacts]
      BY <2>1, CurrentIs
    <2>3. q \in Recorder /\ SameBook(Current, q) /\ q.run = Current.run
      BY <2>2, FinalIs
    <2> HIDE DEF q
    <2>4. Grows(Current, q)
      BY <2>2, <2>3, BookGrows
    <2>5. Attempted(recs[artifacts], q, artifacts)
      BY <1>7, <2>2, <2>3, <2>4 DEF Attempted
    <2> QED
      BY <2>1, <2>2, <2>5, OneGrows
  <1>8. CASE Kill(TRUE)
    <2>1. CASE artifacts = 0
      <3>1. recs' = recs
        BY <1>0, <1>8, <2>1 DEF Kill
      <3> QED
        BY <1>2, <3>1
    <2>2. CASE artifacts # 0
      <3> DEFINE q == [recs[artifacts] EXCEPT !.tail = TRUE]
      <3>1. artifacts \in 1..Len(recs) /\ recs[artifacts] \in Recorder
        BY <2>2, CurrentIs
      <3>2. recs' = [recs EXCEPT ![artifacts] = q]
        BY <1>0, <1>8, <3>1 DEF Kill
      <3>3. /\ q \in Recorder /\ SameBook(recs[artifacts], q)
            /\ q.run = recs[artifacts].run /\ q.finalized = recs[artifacts].finalized
        BY <3>1, TornIs
      <3> HIDE DEF q
      <3>4. Grows(recs[artifacts], q)
        BY <3>1, <3>3, BookGrows
      <3>5. Attempted(recs[artifacts], q, artifacts)
        BY <3>3, <3>4 DEF Attempted
      <3> QED
        BY <3>1, <3>2, <3>5, OneGrows
    <2> QED
      BY <2>1, <2>2
  <1>9. ASSUME NEW s \in Sessions, factory(s), recs' = Append(recs, NewRecorder(s)) PROVE Evolves
    <2> DEFINE q == NewRecorder(s)
    <2>1. q \in Recorder
      BY NewIs
    <2> HIDE DEF q
    <2>2. /\ recs' \in Seq(Recorder) /\ Len(recs') = Len(recs) + 1 /\ recs'[Len(recs) + 1] = q
          /\ \A a \in 1..Len(recs) : recs'[a] = recs[a]
      BY <1>0, <1>9, <2>1, AppendProperties DEF q
    <2>3. \A a \in 1..Len(recs) : Attempted(recs[a], recs'[a], a)
      BY <1>1, <2>2 DEF Attempted
    <2>4. \A a \in 1..Len(recs') : a > Len(recs) => a = Len(recs) + 1
      BY <1>0, <2>2
    <2>5. Len(recs) <= Len(recs')
      BY <1>0, <2>2
    <2> QED
      BY <1>9, <2>2, <2>3, <2>4, <2>5 DEF Evolves, q
  <1>10. CASE UNCHANGED vars
    <2>1. recs' = recs
      BY <1>10 DEF vars, stores
    <2> QED
      BY <1>2, <2>1
  <1>11. CASE Next
    BY <1>11, Steps, <1>2, <1>3, <1>4, <1>5, <1>6, <1>7, <1>8, <1>9 DEF RecordStep
  <1> QED
    BY <1>10, <1>11

-----------------------------------------------------------------------------
(* Types. *)

\* Only the session factory starts an attempt or changes which one is current.
LEMMA StoresKept ==
  ASSUME [Next]_vars
  PROVE  (\E s \in Sessions : factory(s)) \/ UNCHANGED <<artifacts, recorders, runIds, counts, ids>>
  <1>1. CASE UNCHANGED vars
    BY <1>1 DEF vars, stores
  <1>2. CASE Process
    BY <1>2 DEF Process, session_shutdown, session_start, quit, Kill, stores
  <1>3. CASE Writes
    BY <1>3 DEF Writes, write, write_fails
  <1>4. CASE Extension
    BY <1>4 DEF Extension, hook, tool_refused, session_compact_failed, before_provider_request, stopForLimit, message_refused, message_end
  <1>5. CASE Finalize
    BY <1>5 DEF Finalize, close_flushed, capture_patch, summarize, append_finalization,
                write_result, set_finalized, finalize_throws, dispose, stores
  <1>6. ASSUME NEW s \in Sessions, Handler(s)
        PROVE  UNCHANGED <<artifacts, recorders, runIds, counts, ids>>
    BY <1>6 DEF Handler, input_refused, input_routed, input_fixed, store_write, input_fails,
                stray_timer, classifier_success, classifier_error, input_persisted, stores
  <1> QED
    BY <1>1, <1>2, <1>3, <1>4, <1>5, <1>6 DEF Next

\* With the attempts' run IDs, the number of attempts stays.
LEMMA LengthKept ==
  ASSUME TypeOK, Driven, [Next]_vars, ids' = ids
  PROVE  Len(recs') = Len(recs)
  <1>1. Evolves
    BY Evolution
  <1>2. Len(recs) \in Nat /\ Len(recs') \in Nat /\ ids \in Seq(RunId)
    BY <1>1 DEF Evolves, TypeOK
  <1> SUFFICES ASSUME Len(recs') > Len(recs) PROVE FALSE
    BY <1>1, <1>2 DEF Evolves
  <1>3. PICK s \in Sessions : factory(s)
    BY <1>1, <1>2 DEF Evolves
  <1>4. PICK id : ids' = Append(ids, id)
    BY <1>2, <1>3 DEF factory
  <1>5. ids \in Seq(RunId \cup {id})
    BY <1>2
  <1>6. Len(Append(ids, id)) = Len(ids) + 1 /\ Len(ids) \in Nat
    BY <1>5, AppendProperties
  <1> QED
    BY <1>4, <1>6

LEMMA StoresTyped ==
  ASSUME TypeOK, Driven, [Next]_vars
  PROVE  /\ recs' \in Seq(Recorder) /\ Len(recs') <= MaxAttempts
         /\ artifacts' \in 0..Len(recs')
         /\ recorders' \in [Sessions -> 0..Len(recs')]
         /\ runIds' \in [Sessions -> RunId \cup {None}]
         /\ counts' \in [Sessions -> Nat]
         /\ ids' \in Seq(RunId) /\ Len(ids') = Len(recs')
  <1>1. Evolves
    BY Evolution
  <1>2. recs' \in Seq(Recorder) /\ Len(recs') \in Nat /\ Len(recs) \in Nat
    BY <1>1 DEF Evolves, TypeOK
  <1>3. CASE UNCHANGED <<artifacts, recorders, runIds, counts, ids>>
    <2>1. Len(recs') = Len(recs)
      BY <1>3, LengthKept
    <2> QED
      BY <1>2, <1>3, <2>1 DEF TypeOK
  <1>4. ASSUME NEW s \in Sessions, factory(s)
        PROVE  /\ Len(recs') <= MaxAttempts
               /\ artifacts' \in 0..Len(recs')
               /\ recorders' \in [Sessions -> 0..Len(recs')]
               /\ runIds' \in [Sessions -> RunId \cup {None}]
               /\ counts' \in [Sessions -> Nat]
               /\ ids' \in Seq(RunId) /\ Len(ids') = Len(recs')
    <2>1. CASE reusable(s)
      BY <1>2, <1>4, <2>1 DEF factory, TypeOK
    <2>2. CASE ~reusable(s)
      <3> DEFINE left == [runIds EXCEPT ![s] = None]
                 id   == runIdForSession(s, left)
      <3>1. left \in [Sessions -> RunId \cup {None}] /\ counts[s] + 1 \in Nat
        BY DEF TypeOK
      <3> HIDE DEF left
      <3>2. id \in RunId
        BY <3>1 DEF runIdForSession, RunId
      <3> HIDE DEF id
      <3>3. /\ Len(recs) < MaxAttempts
            /\ counts' = [counts EXCEPT ![s] = @ + 1]
            /\ runIds' = [left EXCEPT ![s] = id]
            /\ \/ UNCHANGED <<recs, artifacts, recorders, ids>>
               \/ /\ recs' = Append(recs, NewRecorder(s)) /\ ids' = Append(ids, id)
                  /\ artifacts' = Len(recs')
                  /\ recorders' = [recorders EXCEPT ![s] = Len(recs')]
        BY <1>4, <2>2 DEF factory, left, id
      <3>4. counts' \in [Sessions -> Nat] /\ runIds' \in [Sessions -> RunId \cup {None}]
        BY <3>1, <3>2, <3>3 DEF TypeOK
      <3>5. CASE UNCHANGED <<recs, artifacts, recorders, ids>>
        BY <3>4, <3>5 DEF TypeOK
      <3>6. CASE /\ recs' = Append(recs, NewRecorder(s)) /\ ids' = Append(ids, id)
                 /\ artifacts' = Len(recs')
                 /\ recorders' = [recorders EXCEPT ![s] = Len(recs')]
        <4>1. NewRecorder(s) \in Recorder /\ recs \in Seq(Recorder) /\ ids \in Seq(RunId)
          BY NewIs DEF TypeOK
        <4>2. Len(recs') = Len(recs) + 1
          BY <3>6, <4>1, AppendProperties
        <4>3. ids' \in Seq(RunId) /\ Len(ids') = Len(ids) + 1
          BY <3>2, <3>6, <4>1, AppendProperties
        <4>4. Len(recs') <= MaxAttempts /\ artifacts' \in 0..Len(recs')
          BY <1>2, <3>3, <3>6, <4>2, ArtifactsAssumption
        <4>5. recorders' \in [Sessions -> 0..Len(recs')]
          <5>1. recorders \in [Sessions -> 0..Len(recs')] /\ Len(recs') \in 0..Len(recs')
            BY <1>2, <4>2 DEF TypeOK
          <5> QED
            BY <5>1, <3>6
        <4> QED
          BY <3>4, <4>2, <4>3, <4>4, <4>5 DEF TypeOK
      <3> QED
        BY <3>3, <3>5, <3>6
    <2> QED
      BY <2>1, <2>2
  <1> QED
    BY <1>2, <1>3, <1>4, StoresKept

\* The driver's and the sessions' part of the types.
RestTyped ==
  /\ phase \in Phases
  /\ active \in Sessions \cup {None}
  /\ fin \in FinStates
  /\ mark \in Nat
  /\ snapshot \in Result \cup {None}
  /\ runError \in BOOLEAN
  /\ decided \in SUBSET Sessions
  /\ handler \in [Sessions -> HandlerStates]
  /\ asking \in [Sessions -> 0..MaxCalls]
  /\ coding \in 0..MaxCalls
  /\ stray \in SUBSET Sessions
  /\ calls \in Seq([of : Sessions, at : Attempts]) /\ Len(calls) <= MaxCalls
  /\ mishaps \in SUBSET {"cut", "refused"}

\* A call is dispatched.
LEMMA DispatchTyped ==
  ASSUME TypeOK, NEW s \in Sessions, artifacts # 0, Dispatch(s)
  PROVE  /\ calls' \in Seq([of : Sessions, at : Attempts]) /\ Len(calls') <= MaxCalls
         /\ Len(calls') = Len(calls) + 1 /\ Len(calls') \in 1..MaxCalls
         /\ calls'[Len(calls')] = [of |-> s, at |-> artifacts]
         /\ \A c \in 1..Len(calls) : calls'[c] = calls[c]
  <1> DEFINE d == [of |-> s, at |-> artifacts]
             S == [of : Sessions, at : Attempts]
  <1>1. Len(recs) \in Nat /\ MaxAttempts \in Nat /\ MaxCalls \in Nat
    BY ArtifactsAssumption DEF TypeOK
  <1>2. artifacts \in Attempts
    BY <1>1 DEF TypeOK, Attempts
  <1>3. d \in S
    BY <1>2
  <1>4. calls \in Seq(S) /\ calls' = Append(calls, d) /\ Len(calls) < MaxCalls
    BY DEF TypeOK, Dispatch
  <1> HIDE DEF d, S
  <1>5. /\ calls' \in Seq(S) /\ Len(calls') = Len(calls) + 1 /\ Len(calls) \in Nat
        /\ calls'[Len(calls) + 1] = d
        /\ \A c \in 1..Len(calls) : calls'[c] = calls[c]
    BY <1>3, <1>4, AppendProperties
  <1> QED
    BY <1>1, <1>4, <1>5 DEF d, S

LEMMA RestTypedStep ==
  ASSUME TypeOK, Driven, Next
  PROVE  RestTyped'
  <1>0. RestTyped
    BY DEF TypeOK, RestTyped
  <1>6. 0 \in 0..MaxCalls
    BY ArtifactsAssumption
  <1>1. CASE Process
    <2>1. CASE session_shutdown
      <3>1. active \in Sessions /\ artifacts # 0
        BY <2>1, Actors DEF session_shutdown
      <3>2. Current \in Recorder
        BY <3>1, CurrentIs
      <3>3. Size(Current) + 1 \in Nat
        BY <3>2, EvType
      <3> QED
        BY <1>0, <1>6, <2>1, <3>1, <3>3 DEF session_shutdown, RestTyped, Phases, FinStates
    <2>2. ASSUME NEW s \in Sessions, factory(s) PROVE RestTyped'
      BY <1>0, <2>2 DEF factory, sessions, RestTyped, Phases
    <2>3. ASSUME NEW b \in BOOLEAN, session_start(b) PROVE RestTyped'
      BY <1>0, <2>3 DEF session_start, sessions, RestTyped, Phases
    <2>4. ASSUME NEW b \in BOOLEAN, quit(b) PROVE RestTyped'
      <3>1. active \in Sessions
        BY <2>4, Actors DEF quit
      <3> QED
        BY <1>0, <1>6, <2>4, <3>1 DEF quit, RestTyped, Phases, FinStates
    <2>5. ASSUME NEW b \in BOOLEAN, Kill(b) PROVE RestTyped'
      BY <1>0, <1>6, <2>5 DEF Kill, RestTyped, Phases, FinStates, HandlerStates
    <2> QED
      BY <1>1, <2>1, <2>2, <2>3, <2>4, <2>5 DEF Process
  <1>2. CASE Writes
    BY <1>0, <1>2 DEF Writes, write, write_fails, driver, sessions, RestTyped
  <1>3. CASE Extension
    <2>1. CASE hook \/ tool_refused \/ stopForLimit
      BY <1>0, <2>1 DEF hook, tool_refused, stopForLimit, driver, sessions, RestTyped
    <2>5. CASE session_compact_failed
      BY <1>0, <1>6, <2>5 DEF session_compact_failed, driver, RestTyped
    <2>2. CASE before_provider_request
      <3>1. active \in Sessions /\ artifacts # 0
        BY <2>2, Actors DEF before_provider_request
      <3>2. /\ calls' \in Seq([of : Sessions, at : Attempts]) /\ Len(calls') <= MaxCalls
            /\ Len(calls') \in 1..MaxCalls
        BY <2>2, <3>1, DispatchTyped DEF before_provider_request
      <3> QED
        BY <1>0, <2>2, <3>2 DEF before_provider_request, driver, RestTyped
    <2>3. ASSUME NEW b \in BOOLEAN, message_refused(b) PROVE RestTyped'
      BY <1>0, <1>6, <2>3 DEF message_refused, driver, RestTyped
    <2>4. ASSUME NEW b \in BOOLEAN, NEW m \in BOOLEAN, message_end(b, m) PROVE RestTyped'
      BY <1>0, <1>6, <2>4 DEF message_end, driver, RestTyped
    <2> QED
      BY <1>3, <2>1, <2>2, <2>3, <2>4, <2>5 DEF Extension
  <1>4. CASE Finalize
    <2>1. CASE close_flushed
      BY <1>0, <2>1 DEF close_flushed, sessions, RestTyped, FinStates
    <2>2. CASE capture_patch
      <3>1. mark' = Size(recs'[artifacts]) /\ artifacts # 0
        BY <2>2, PatchTouches, Actors DEF capture_patch
      <3>2. artifacts \in 1..Len(recs') /\ recs' \in Seq(Recorder)
        BY <2>2, <3>1, StoresTyped DEF Next, Finalize, TypeOK, capture_patch
      <3>3. recs'[artifacts] \in Recorder
        BY <3>2, ElementOfSeq
      <3>4. mark' \in Nat
        BY <3>1, <3>3, EvType
      <3> QED
        BY <1>0, <2>2, <3>4 DEF capture_patch, sessions, RestTyped, FinStates
    <2>3. CASE summarize
      <3>1. Current \in Recorder
        BY <2>3, Actors, CurrentIs DEF summarize
      <3>2. Size(Current) \in Nat /\ FinalizeInput(Current) \in Result
        BY <3>1, EvType DEF Recorder, FinalizeInput, Result, CostKnown
      <3> QED
        BY <1>0, <2>3, <3>2 DEF summarize, sessions, RestTyped, FinStates
    <2>4. CASE append_finalization
      <3>1. Current \in Recorder
        BY <2>4, Actors, CurrentIs DEF append_finalization
      <3>2. Size(Current) + 1 \in Nat
        BY <3>1, EvType
      <3> QED
        BY <1>0, <2>4, <3>2 DEF append_finalization, sessions, RestTyped, FinStates
    <2>5. CASE write_result
      BY <1>0, <2>5 DEF write_result, sessions, RestTyped, FinStates
    <2>6. CASE set_finalized
      BY <1>0, <2>6 DEF set_finalized, Over, sessions, RestTyped, FinStates, Phases
    <2>7. CASE finalize_throws
      BY <1>0, <2>7 DEF finalize_throws, Over, sessions, RestTyped, FinStates, Phases
    <2>8. CASE dispose
      BY <1>0, <2>8 DEF dispose, sessions, RestTyped, Phases
    <2> QED
      BY <1>4, <2>1, <2>2, <2>3, <2>4, <2>5, <2>6, <2>7, <2>8 DEF Finalize
  <1>5. ASSUME NEW s \in Sessions, Handler(s) PROVE RestTyped'
    <2>1. CASE input_refused(s) \/ input_fixed(s) \/ store_write(s) \/ input_fails(s) \/ stray_timer(s)
      BY <1>0, <2>1 DEF input_refused, input_fixed, store_write, input_fails, stray_timer,
                        driver, sessions, RestTyped, HandlerStates
    <2>2. CASE input_routed(s)
      <3>1. /\ calls' \in Seq([of : Sessions, at : Attempts]) /\ Len(calls') <= MaxCalls
            /\ Len(calls') \in 1..MaxCalls
        BY <2>2, DispatchTyped DEF input_routed, Room
      <3> QED
        BY <1>0, <2>2, <3>1 DEF input_routed, driver, RestTyped, HandlerStates
    <2>3. ASSUME NEW b \in BOOLEAN,
                 classifier_success(s, b) \/ classifier_error(s, b) \/ input_persisted(s, b)
          PROVE  RestTyped'
      <3>1. /\ UNCHANGED <<driver, decided, coding, stray, calls, mishaps>>
            /\ handler' \in [Sessions -> HandlerStates]
        BY <1>0, <2>3 DEF classifier_success, classifier_error, input_persisted, RestTyped,
                          HandlerStates
      <3>2. asking' = asking \/ asking' = [asking EXCEPT ![s] = 0]
        BY <2>3 DEF classifier_success, classifier_error, input_persisted
      <3> QED
        BY <1>0, <1>6, <3>1, <3>2 DEF driver, RestTyped
    <2> QED
      BY <1>5, <2>1, <2>2, <2>3 DEF Handler
  <1> QED
    BY <1>1, <1>2, <1>3, <1>4, <1>5 DEF Next

LEMMA TypeStep ==
  ASSUME TypeOK, Driven, [Next]_vars
  PROVE  TypeOK'
  <1>1. CASE Next
    <2>1. RestTyped'
      BY <1>1, RestTypedStep
    <2> QED
      BY <2>1, StoresTyped DEF RestTyped, TypeOK
  <1>2. CASE UNCHANGED vars
    BY <1>2 DEF vars, stores, driver, sessions, TypeOK
  <1> QED
    BY <1>1, <1>2

-----------------------------------------------------------------------------
(* The recorders stay sound and the driver in step. *)

LEMMA SoundStep ==
  ASSUME TypeOK, Driven, AllSound, [Next]_vars
  PROVE  AllSound'
  <1>1. Evolves
    BY Evolution
  <1> SUFFICES ASSUME NEW a \in 1..Len(recs') PROVE Sound(recs'[a])
    BY DEF AllSound
  <1>2. Len(recs) \in Nat /\ Len(recs') \in Nat
    BY <1>1 DEF TypeOK, Evolves
  <1>3. CASE a <= Len(recs)
    BY <1>1, <1>2, <1>3 DEF Evolves, Attempted, Grows, AllSound
  <1>4. CASE a > Len(recs)
    BY <1>1, <1>4, NewIs DEF Evolves
  <1> QED
    BY <1>2, <1>3, <1>4

\* The current attempt is finalized by set_finalized only.
LEMMA CurrentKept ==
  ASSUME TypeOK, Driven, [Next]_vars, artifacts' = artifacts, artifacts # 0
  PROVE  /\ artifacts \in 1..Len(recs)
         /\ Grows(Current, Current')
         /\ Current'.run = Current.run \/ write_result
         /\ Current'.finalized = Current.finalized \/ set_finalized
  <1>1. Evolves
    BY Evolution
  <1>2. artifacts \in 1..Len(recs)
    BY CurrentIs
  <1>3. Attempted(recs[artifacts], recs'[artifacts], artifacts)
    BY <1>1, <1>2 DEF Evolves
  <1> QED
    BY <1>2, <1>3 DEF Attempted, Current

\* The current attempt takes events while its session runs or it is summarised.
Open == phase \in {"starting", "run"} \/ fin # "no" => ~Current.finalized

LEMMA OpenStep ==
  ASSUME TypeOK, Driven, [Next]_vars
  PROVE  Open'
  <1> SUFFICES ASSUME phase' \in {"starting", "run"} \/ fin' # "no" PROVE ~Current'.finalized
    BY DEF Open
  <1>0. Open /\ TypeOK
    BY DEF Driven, Open
  <1>1. ASSUME NEW s \in Sessions, factory(s) PROVE ~Current'.finalized
    <2>1. fin' = "no" /\ phase' # "collided"
      BY <1>1 DEF factory, Driven
    <2>2. CASE reusable(s)
      BY <1>1, <2>2 DEF factory, reusable, Current
    <2>3. CASE ~reusable(s)
      <3>1. recs' = Append(recs, NewRecorder(s)) /\ artifacts' = Len(recs')
        BY <1>1, <2>1, <2>3 DEF factory
      <3>2. NewRecorder(s) \in Recorder /\ ~NewRecorder(s).finalized /\ recs \in Seq(Recorder)
        BY NewIs DEF TypeOK
      <3>3. Len(recs') = Len(recs) + 1 /\ recs'[Len(recs) + 1] = NewRecorder(s)
        BY <3>1, <3>2, AppendProperties
      <3>4. Current' = NewRecorder(s)
        BY <3>1, <3>3 DEF Current
      <3> QED
        BY <3>2, <3>4
    <2> QED
      BY <2>2, <2>3
  <1>2. CASE UNCHANGED artifacts /\ ~\E s \in Sessions : factory(s)
    <2>1. (phase \in {"starting", "run"} \/ fin # "no") /\ ~set_finalized
      <3>1. CASE UNCHANGED vars
        BY <3>1 DEF vars, driver, set_finalized, Over
      <3>2. CASE Process
        BY <1>2, <3>2 DEF Process, session_shutdown, session_start, quit, Kill, set_finalized, Over
      <3>3. CASE Writes
        BY <3>3 DEF Writes, write, write_fails, driver, set_finalized, Over
      <3>4. CASE Extension
        BY <3>4 DEF Extension, hook, tool_refused, session_compact_failed, before_provider_request, stopForLimit, message_refused,
                    message_end, driver, set_finalized, Over
      <3>5. CASE Finalize
        BY <3>5 DEF Finalize, close_flushed, capture_patch, summarize, append_finalization,
                write_result, set_finalized, finalize_throws, dispose, Over, Driven
      <3>6. ASSUME NEW s \in Sessions, Handler(s)
            PROVE  (phase \in {"starting", "run"} \/ fin # "no") /\ ~set_finalized
        BY <3>6 DEF Handler, input_refused, input_routed, input_fixed, store_write, input_fails,
                stray_timer, classifier_success, classifier_error, input_persisted, driver,
                set_finalized, Over
      <3> QED
        BY <3>1, <3>2, <3>3, <3>4, <3>5, <3>6 DEF Next
    <2>2. artifacts # 0
      BY <2>1, Actors
    <2> QED
      BY <1>0, <1>2, <2>1, <2>2, CurrentKept DEF Open
  <1> QED
    BY <1>1, <1>2, StoresKept

LEMMA DrivenStep ==
  ASSUME TypeOK, Driven, [Next]_vars
  PROVE  Driven'
  <1>1. Open' /\ TypeOK
    BY OpenStep
  <1>2. CASE UNCHANGED vars
    BY <1>2 DEF vars, stores, driver, sessions, Driven, Current
  <1>3. CASE Process
    <2>1. CASE session_shutdown
      BY <1>1, <2>1 DEF session_shutdown, Driven, Open
    <2>2. ASSUME NEW s \in Sessions, factory(s) PROVE Driven'
      <3>1. s # None
        BY NoneAssumption
      <3>2. phase' = "starting" => artifacts' # 0
        <4>1. CASE reusable(s)
          BY <2>2, <4>1 DEF factory, reusable
        <4>2. CASE ~reusable(s) /\ phase' = "starting"
          <5>1. recs' = Append(recs, NewRecorder(s)) /\ artifacts' = Len(recs')
            BY <2>2, <4>2 DEF factory
          <5>2. NewRecorder(s) \in Recorder /\ recs \in Seq(Recorder)
            BY NewIs DEF TypeOK
          <5>3. Len(recs') = Len(recs) + 1 /\ Len(recs) \in Nat
            BY <5>1, <5>2, AppendProperties
          <5> QED
            BY <5>1, <5>3
        <4> QED
          BY <4>1, <4>2
      <3>3. phase' \in {"starting", "collided"} /\ (phase' = "starting" => active' = s)
            /\ (phase' = "collided" => active' = active)
        BY <2>2 DEF factory
      <3> QED
        BY <1>1, <2>2, <3>1, <3>2, <3>3 DEF factory, sessions, Driven, Open
    <2>3. ASSUME NEW b \in BOOLEAN, session_start(b) PROVE Driven'
      BY <1>1, <2>3 DEF session_start, sessions, Driven, Open
    <2>4. ASSUME NEW b \in BOOLEAN, quit(b) PROVE Driven'
      BY <1>1, <2>4 DEF quit, stores, Driven, Open
    <2>5. ASSUME NEW b \in BOOLEAN, Kill(b) PROVE Driven'
      BY <1>1, <2>5 DEF Kill, Driven, Open, TypeOK
    <2> QED
      BY <1>3, <2>1, <2>2, <2>3, <2>4, <2>5 DEF Process
  <1>4. CASE Writes
    BY <1>1, <1>4 DEF Writes, write, write_fails, driver, sessions, Driven, Open
  <1>5. CASE Extension
    <2>1. CASE hook \/ tool_refused \/ stopForLimit
      BY <1>1, <2>1 DEF hook, tool_refused, stopForLimit, driver, sessions, Driven, Open
    <2>5. CASE session_compact_failed
      BY <1>1, <2>5 DEF session_compact_failed, driver, Driven, Open, TypeOK
    <2>2. CASE before_provider_request
      <3>1. active \in Sessions /\ artifacts # 0 /\ Len(calls) \in Nat
        BY <2>2, Actors DEF before_provider_request, TypeOK
      <3>2. Len(calls') = Len(calls) + 1
        BY <2>2, <3>1, DispatchTyped DEF before_provider_request
      <3>3. asking \in [Sessions -> 0..MaxCalls]
        BY DEF TypeOK
      <3>4. \A s \in Sessions : asking[s] <= Len(calls')
        BY <3>1, <3>2, <3>3 DEF Driven
      <3> QED
        BY <1>1, <2>2, <3>1, <3>2, <3>4 DEF before_provider_request, driver, Driven, Open
    <2>3. ASSUME NEW b \in BOOLEAN, message_refused(b) PROVE Driven'
      BY <1>1, <2>3 DEF message_refused, driver, Driven, Open, TypeOK
    <2>4. ASSUME NEW b \in BOOLEAN, NEW m \in BOOLEAN, message_end(b, m) PROVE Driven'
      BY <1>1, <2>4 DEF message_end, driver, Driven, Open, TypeOK
    <2> QED
      BY <1>5, <2>1, <2>2, <2>3, <2>4, <2>5 DEF Extension
  <1>6. CASE Finalize
    <2>1. CASE close_flushed
      BY <1>1, <2>1 DEF close_flushed, stores, sessions, Driven, Open
    <2>2. CASE capture_patch
      BY <1>1, <2>2 DEF capture_patch, sessions, Driven, Open
    <2>3. CASE summarize
      <3>1. Current \in Recorder
        BY <2>3, Actors, CurrentIs DEF summarize
      <3>2. FinalizeInput(Current) \in Result
        BY <3>1 DEF Recorder, FinalizeInput, Result, CostKnown
      <3>3. snapshot' # None
        BY <2>3, <3>2, NoneAssumption DEF summarize
      <3> QED
        BY <1>1, <2>3, <3>3 DEF summarize, stores, sessions, Driven, Open
    <2>4. CASE append_finalization
      BY <1>1, <2>4 DEF append_finalization, sessions, Driven, Open
    <2>5. CASE write_result
      BY <1>1, <2>5 DEF write_result, sessions, Driven, Open
    <2>6. CASE set_finalized
      BY <1>1, <2>6 DEF set_finalized, Over, sessions, Driven, Open
    <2>7. CASE finalize_throws
      BY <1>1, <2>7 DEF finalize_throws, Over, stores, sessions, Driven, Open
    <2>8. CASE dispose
      BY <1>1, <2>8 DEF dispose, stores, sessions, Driven, Open
    <2> QED
      BY <1>6, <2>1, <2>2, <2>3, <2>4, <2>5, <2>6, <2>7, <2>8 DEF Finalize
  <1>7. ASSUME NEW s \in Sessions, Handler(s) PROVE Driven'
    <2>1. CASE input_refused(s) \/ input_fixed(s) \/ store_write(s) \/ input_fails(s) \/ stray_timer(s)
      BY <1>1, <2>1 DEF input_refused, input_fixed, store_write, input_fails, stray_timer,
                        stores, driver, sessions, Driven, Open, TypeOK
    <2>2. CASE input_routed(s)
      <3>1. Len(calls') = Len(calls) + 1 /\ Len(calls) \in Nat
        <4>1. Len(calls') = Len(calls) + 1
          BY <2>2, DispatchTyped DEF input_routed, Room
        <4> QED
          BY <4>1 DEF TypeOK
      <3>2. asking \in [Sessions -> 0..MaxCalls] /\ coding \in 0..MaxCalls
            /\ handler \in [Sessions -> HandlerStates]
        BY DEF TypeOK
      <3>3. coding <= Len(calls')
        BY <3>1, <3>2 DEF Driven
      <3>4. \A t \in Sessions : asking'[t] <= Len(calls') /\ (handler'[t] = "asking" <=> asking'[t] # 0)
        BY <2>2, <3>1, <3>2 DEF input_routed, Driven
      <3> QED
        BY <1>1, <2>2, <3>3, <3>4 DEF input_routed, driver, Driven, Open
    <2>3. ASSUME NEW b \in BOOLEAN,
                 classifier_success(s, b) \/ classifier_error(s, b) \/ input_persisted(s, b)
          PROVE  Driven'
      <3>1. asking \in [Sessions -> 0..MaxCalls] /\ Len(calls) \in Nat
            /\ handler \in [Sessions -> HandlerStates]
        BY DEF TypeOK
      <3>2. \A t \in Sessions : asking'[t] <= Len(calls') /\ (handler'[t] = "asking" <=> asking'[t] # 0)
        <4>1. CASE classifier_success(s, b) \/ classifier_error(s, b)
          <5>1. PICK h \in {"writing", "idle"} :
                  /\ handler' = [handler EXCEPT ![s] = h] /\ asking' = [asking EXCEPT ![s] = 0]
                  /\ calls' = calls
            BY <4>1 DEF classifier_success, classifier_error
          <5>2. \A t \in Sessions : asking[t] <= Len(calls) /\ (handler[t] = "asking" <=> asking[t] # 0)
            BY DEF Driven
          <5>3. handler'[s] = h /\ asking'[s] = 0 /\ 0 <= Len(calls')
            BY <5>1, <3>1
          <5>4. \A t \in Sessions : t # s => handler'[t] = handler[t] /\ asking'[t] = asking[t]
            BY <5>1, <3>1
          <5>5. \A t \in Sessions : t # s =>
                  asking'[t] <= Len(calls') /\ (handler'[t] = "asking" <=> asking'[t] # 0)
            BY <5>1, <5>2, <5>4
          <5> QED
            BY <5>3, <5>5
        <4>2. CASE input_persisted(s, b)
          BY <4>2, <3>1 DEF input_persisted, Driven
        <4> QED
          BY <2>3, <4>1, <4>2
      <3> QED
        BY <1>1, <2>3, <3>2 DEF classifier_success, classifier_error, input_persisted,
                              driver, Driven, Open
    <2> QED
      BY <1>7, <2>1, <2>2, <2>3 DEF Handler
  <1> QED
    BY <1>2, <1>3, <1>4, <1>5, <1>6, <1>7 DEF Next

-----------------------------------------------------------------------------
(* Results and finalization. *)

\* No other step begins or ends the rename, and a killed process does nothing.
LEMMA RenameKept ==
  ASSUME Driven, [Next]_vars, ~write_result, ~set_finalized, ~\E s \in Sessions : factory(s)
  PROVE  /\ fin = "renamed" => fin' = "renamed" \/ phase' = "down"
         /\ phase = "down" => phase' = "down"
         /\ fin' = "renamed" => fin = "renamed"
         /\ phase' \in {"disposing", "ok"} => phase \in {"disposing", "ok"}
  <1>1. CASE UNCHANGED vars
    BY <1>1 DEF vars, driver
  <1>2. CASE Process
    BY <1>2 DEF Process, session_shutdown, session_start, quit, Kill, Driven
  <1>3. CASE Writes
    BY <1>3 DEF Writes, write, write_fails, driver
  <1>4. CASE Extension
    BY <1>4 DEF Extension, hook, tool_refused, session_compact_failed, before_provider_request, stopForLimit, message_refused,
                message_end, driver
  <1>5. CASE Finalize
    BY <1>5 DEF Finalize, close_flushed, capture_patch, summarize, append_finalization,
                finalize_throws, dispose, Over, Driven
  <1>6. ASSUME NEW s \in Sessions, Handler(s)
        PROVE  fin' = fin /\ phase' = phase
    BY <1>6 DEF Handler, input_refused, input_routed, input_fixed, store_write, input_fails,
                stray_timer, classifier_success, classifier_error, input_persisted, driver
  <1> QED
    BY <1>1, <1>2, <1>3, <1>4, <1>5, <1>6 DEF Next

LEMMA FinalizedStep ==
  ASSUME TypeOK, Driven, Finalized, [Next]_vars
  PROVE  Finalized'
  <1>1. Evolves
    BY Evolution
  <1>2. recs \in Seq(Recorder) /\ Len(recs) \in Nat /\ Len(recs') \in Nat
    BY <1>1 DEF Evolves, TypeOK
  <1>3. \A a \in 1..Len(recs) :
          /\ recs'[a].of = recs[a].of
          /\ recs'[a].run = recs[a].run \/ (write_result /\ a = artifacts)
          /\ recs'[a].finalized = recs[a].finalized \/ (set_finalized /\ a = artifacts)
    BY <1>1 DEF Evolves, Attempted, Grows
  <1>4. CASE write_result
    <2> DEFINE q == [Current EXCEPT !.run = snapshot]
    <2>1. /\ artifacts # 0 /\ recs' = [recs EXCEPT ![artifacts] = q]
          /\ snapshot # None /\ snapshot \in Result \cup {None}
      BY <1>4, Actors DEF write_result, Set, Driven, TypeOK
    <2>2. artifacts \in 1..Len(recs) /\ Current \in Recorder /\ Current = recs[artifacts]
      BY <2>1, CurrentIs
    <2>3. q \in Recorder /\ q.run = snapshot /\ q.finalized = Current.finalized
      BY <2>1, <2>2, ResultIs
    <2> HIDE DEF q
    <2>4. recs'[artifacts] = q /\ Len(recs') = Len(recs)
      BY <2>1, <2>2, <2>3, ReplaceOne
    <2>5. /\ artifacts' = artifacts /\ recorders' = recorders /\ fin' = "renamed"
          /\ fin = "finalizing" /\ phase' = phase /\ ~set_finalized /\ phase # "down"
      BY <1>4 DEF write_result, set_finalized, Driven
    <2>6. Current'.run # None
      BY <2>1, <2>3, <2>4, <2>5 DEF Current
    <2>7. ASSUME NEW a \in 1..Len(recs')
          PROVE  /\ recs'[a].run # None => recs'[a].finalized \/ (a = artifacts' /\ fin' = "renamed")
                 /\ recs'[a].finalized => recs'[a].run # None
                 /\ recs'[a].finalized \/ recorders'[recs'[a].of] = a
      <3>1. CASE a = artifacts
        BY <3>1, <1>3, <2>1, <2>2, <2>3, <2>4, <2>5 DEF Finalized
      <3>2. CASE a # artifacts
        BY <3>2, <1>3, <2>4, <2>5 DEF Finalized
      <3> QED
        BY <3>1, <3>2
    <2> QED
      BY <2>6, <2>7 DEF Finalized
  <1>5. CASE set_finalized
    <2> DEFINE q == [Current EXCEPT !.finalized = TRUE]
    <2>1. artifacts # 0 /\ recs' = [recs EXCEPT ![artifacts] = q]
      BY <1>5, Actors DEF set_finalized, Set
    <2>2. artifacts \in 1..Len(recs) /\ Current \in Recorder /\ Current = recs[artifacts]
      BY <2>1, CurrentIs
    <2>3. q \in Recorder /\ q.run = Current.run /\ q.finalized
      BY <2>2, FinalIs
    <2> HIDE DEF q
    <2>4. recs'[artifacts] = q /\ Len(recs') = Len(recs)
      BY <2>1, <2>2, <2>3, ReplaceOne
    <2>5. /\ artifacts' = artifacts /\ recorders' = recorders /\ fin = "renamed"
          /\ fin' = "no" /\ phase # "down" /\ ~write_result
      BY <1>5 DEF set_finalized, Over, Driven, write_result
    <2>6. Current.run # None /\ Current'.run # None
      BY <2>3, <2>4, <2>5 DEF Current, Finalized
    <2>7. ASSUME NEW a \in 1..Len(recs')
          PROVE  /\ recs'[a].run # None => recs'[a].finalized
                 /\ recs'[a].finalized => recs'[a].run # None
                 /\ recs'[a].finalized \/ recorders'[recs'[a].of] = a
      <3>1. CASE a = artifacts
        BY <3>1, <2>2, <2>3, <2>4, <2>6
      <3>2. CASE a # artifacts
        BY <3>2, <1>3, <2>4, <2>5 DEF Finalized
      <3> QED
        BY <3>1, <3>2
    <2> QED
      BY <2>6, <2>7 DEF Finalized
  <1>6. ASSUME NEW s \in Sessions, factory(s) PROVE Finalized'
    <2>1. /\ phase = "switch" /\ fin = "no" /\ fin' = "no" /\ phase' \in {"starting", "collided"}
          /\ ~write_result /\ ~set_finalized
      BY <1>6 DEF factory, Driven, write_result, set_finalized
    <2>2. \A a \in 1..Len(recs) :
            /\ recs'[a].of = recs[a].of /\ recs'[a].run = recs[a].run
            /\ recs'[a].finalized = recs[a].finalized
      BY <1>3, <2>1
    <2>3. \A a \in 1..Len(recs) :
            /\ recs[a].run # None => recs[a].finalized
            /\ recs[a].finalized => recs[a].run # None
            /\ recs[a].finalized \/ recorders[recs[a].of] = a
      BY <2>1 DEF Finalized
    <2>4. CASE UNCHANGED <<recs, recorders>>
      BY <2>1, <2>3, <2>4 DEF Finalized
    <2>5. CASE /\ ~reusable(s) /\ recs' = Append(recs, NewRecorder(s))
               /\ recorders' = [recorders EXCEPT ![s] = Len(recs')]
      <3> DEFINE q == NewRecorder(s)
      <3>1. q \in Recorder /\ q.of = s /\ q.run = None /\ ~q.finalized
        BY NewIs
      <3> HIDE DEF q
      <3>2. Len(recs') = Len(recs) + 1 /\ recs'[Len(recs) + 1] = q
        BY <1>2, <2>5, <3>1, AppendProperties DEF q
      <3>3. recorders \in [Sessions -> 0..Len(recs)]
        BY DEF TypeOK
      <3>4. ASSUME NEW a \in 1..Len(recs')
            PROVE  /\ recs'[a].run # None => recs'[a].finalized
                   /\ recs'[a].finalized => recs'[a].run # None
                   /\ recs'[a].finalized \/ recorders'[recs'[a].of] = a
        <4>1. CASE a = Len(recs) + 1
          BY <4>1, <2>5, <3>1, <3>2, <3>3
        <4>2. CASE a \in 1..Len(recs)
          <5>1. recs[a] \in Recorder /\ recs[a].of \in Sessions
            <6>1. recs[a] \in Recorder
              BY <1>2, <4>2, ElementOfSeq
            <6> QED
              BY <6>1 DEF Recorder
          <5>2. recs[a].of = s => recs[a].finalized
            BY <2>3, <2>5, <4>2 DEF reusable
          <5> QED
            BY <2>2, <2>3, <2>5, <3>3, <4>2, <5>1, <5>2
        <4> QED
          BY <4>1, <4>2, <1>2, <3>2
      <3> QED
        BY <2>1, <3>4 DEF Finalized
    <2> QED
      BY <1>6, <2>4, <2>5 DEF factory
  <1>7. CASE ~write_result /\ ~set_finalized /\ ~\E s \in Sessions : factory(s)
    <2>1. artifacts' = artifacts /\ recorders' = recorders /\ ids' = ids
      BY <1>7, StoresKept
    <2>2. Len(recs') = Len(recs)
      BY <2>1, LengthKept
    <2>3. /\ fin = "renamed" => fin' = "renamed" \/ phase' = "down"
          /\ phase = "down" => phase' = "down"
          /\ fin' = "renamed" => fin = "renamed"
          /\ phase' \in {"disposing", "ok"} => phase \in {"disposing", "ok"}
      BY <1>7, RenameKept
    <2>4. ASSUME NEW a \in 1..Len(recs')
          PROVE  /\ recs'[a].run # None =>
                      recs'[a].finalized \/ (a = artifacts' /\ fin' = "renamed") \/ phase' = "down"
                 /\ recs'[a].finalized => recs'[a].run # None
                 /\ recs'[a].finalized \/ recorders'[recs'[a].of] = a
      BY <1>3, <1>7, <2>1, <2>2, <2>3 DEF Finalized
    <2>5. ASSUME fin' = "renamed" \/ phase' \in {"disposing", "ok"} PROVE Current'.run # None
      <3>1. Current.run # None /\ artifacts # 0
        BY <2>3, <2>5 DEF Finalized, Driven
      <3> QED
        BY <1>7, <2>1, <3>1, CurrentKept
    <2> QED
      BY <2>4, <2>5 DEF Finalized
  <1> QED
    BY <1>4, <1>5, <1>6, <1>7

\* Events that back a result go on backing it.
LEMMA BacksGrow ==
  ASSUME NEW r \in Recorder, NEW q \in Recorder, NEW res \in Result,
         NEW n \in Nat, NEW m \in Nat, n <= m, m <= Size(q),
         \A i \in 1..n : Ev(q, i) = Ev(r, i), Backs(r, res, n)
  PROVE  Backs(q, res, m)
  <1>1. res.calls \subseteq 0..MaxCalls
    BY ArtifactsAssumption DEF Result, Calls, Accountable
  <1>2. IsFiniteSet(0..MaxCalls)
    BY FS_Interval, ArtifactsAssumption
  <1>3. Cardinality(res.calls) \in Nat
    BY <1>1, <1>2, FS_Subset, FS_CardinalityType
  <1>4. Cardinality(EndsTo(r, n)) \in Nat /\ Cardinality(EndsTo(q, m)) \in Nat
    BY EndsFinite
  <1>5. Cardinality(EndsTo(r, n)) <= Cardinality(EndsTo(q, m))
    BY EndsGrow
  <1>6. Cardinality(EndsTo(q, m)) >= Cardinality(res.calls)
    BY <1>3, <1>4, <1>5 DEF Backs
  <1>7. res.decision # None => HasDecision(q, m, res.decision)
    BY DecisionStays DEF Backs
  <1>8. m \in 0..Size(q)
    BY EvType
  <1> QED
    BY <1>6, <1>7, <1>8 DEF Backs

\* What the recorder says is backed by all its events.
LEMMA InputBacked ==
  ASSUME NEW r \in Recorder, Sound(r), ~r.writeError
  PROVE  Backs(r, FinalizeInput(r), Size(r)) /\ FinalizeInput(r) \in Result
  <1>1. /\ r.decision # None => HasDecision(r, Size(r), r.decision)
        /\ Cardinality(EndsTo(r, Size(r))) >= Cardinality(Accounted(r))
    BY DEF Sound, Faithful
  <1>2. /\ FinalizeInput(r).decision = r.decision
        /\ FinalizeInput(r).calls = Accounted(r)
    BY DEF FinalizeInput, Accounted
  <1>3. Size(r) \in 0..Size(r)
    BY EvType
  <1>4. FinalizeInput(r) \in Result
    BY DEF Recorder, FinalizeInput, Result, CostKnown
  <1> QED
    BY <1>1, <1>2, <1>3, <1>4 DEF Backs

\* The log of r holds a finalization event, and before it what its result says.
LogBacks(r) ==
  \E k \in 1..Len(r.log) : r.log[k].kind = "finalization" /\ Backs(r, r.run, k - 1)

LEMMA LogBacksGrows ==
  ASSUME NEW r \in Recorder, NEW q, Grows(r, q), q.run = r.run, r.run # None, LogBacks(r)
  PROVE  LogBacks(q)
  <1>1. PICK k \in 1..Len(r.log) : r.log[k].kind = "finalization" /\ Backs(r, r.run, k - 1)
    BY DEF LogBacks
  <1>2. q \in Recorder /\ Len(r.log) <= Len(q.log) /\ \A i \in 1..Len(r.log) : q.log[i] = r.log[i]
    BY DEF Grows
  <1>3. r.run \in Result
    BY DEF Recorder
  <1>4. /\ Len(r.log) \in Nat /\ Len(q.log) \in Nat /\ Len(q.queue) \in Nat
        /\ Size(q) = Len(q.log) + Len(q.queue)
        /\ \A i \in 1..Len(r.log) : Ev(r, i) = r.log[i]
        /\ \A i \in 1..Len(q.log) : Ev(q, i) = q.log[i]
    BY <1>2, EvType DEF Size
  <1> DEFINE L == Len(r.log)
             M == Len(q.log)
             N == Len(q.queue)
  <1>5. /\ L \in Nat /\ M \in Nat /\ N \in Nat /\ L <= M /\ Size(q) = M + N /\ k \in 1..L
        /\ \A i \in 1..L : Ev(r, i) = r.log[i] /\ q.log[i] = r.log[i]
        /\ \A i \in 1..M : Ev(q, i) = q.log[i]
    BY <1>2, <1>4
  <1>6. q.log[k].kind = "finalization"
    BY <1>1, <1>5
  <1> HIDE DEF L, M, N
  <1>7. k - 1 \in Nat /\ k - 1 <= Size(q) /\ k \in 1..M
        /\ \A i \in 1..(k - 1) : Ev(q, i) = Ev(r, i)
    BY <1>5
  <1>8. Backs(q, r.run, k - 1)
    BY <1>1, <1>2, <1>3, <1>7, BacksGrow
  <1>9. k \in 1..Len(q.log)
    BY <1>7 DEF M
  <1> QED
    BY <1>6, <1>8, <1>9 DEF LogBacks

\* While a finalization is under way, it is for the same result.
LEMMA DrainKept ==
  ASSUME Driven, [Next]_vars
  PROVE  /\ fin' = "draining" => summarize \/ UNCHANGED <<fin, mark, snapshot, artifacts>>
         /\ fin' = "finalizing" => append_finalization \/ UNCHANGED <<fin, mark, snapshot, artifacts>>
  <1>1. CASE UNCHANGED vars
    BY <1>1 DEF vars, stores, driver
  <1>2. CASE Process
    BY <1>2 DEF Process, factory, session_shutdown, session_start, quit, Kill, Driven
  <1>3. CASE Writes
    BY <1>3 DEF Writes, write, write_fails, driver
  <1>4. CASE Extension
    BY <1>4 DEF Extension, hook, tool_refused, session_compact_failed, before_provider_request, stopForLimit, message_refused,
                message_end, driver
  <1>5. CASE Finalize
    <2>1. CASE summarize
      <3>1. fin' = "draining"
        BY <2>1 DEF summarize
      <3> QED
        BY <2>1, <3>1
    <2>2. CASE append_finalization
      <3>1. fin' = "finalizing"
        BY <2>2 DEF append_finalization
      <3> QED
        BY <2>2, <3>1
    <2> QED
      BY <1>5, <2>1, <2>2 DEF Finalize, close_flushed, capture_patch, write_result,
                set_finalized, finalize_throws, dispose, Over, Driven, stores
  <1>6. ASSUME NEW s \in Sessions, Handler(s)
        PROVE  UNCHANGED <<fin, mark, snapshot, artifacts>>
    BY <1>6 DEF Handler, input_refused, input_routed, input_fixed, store_write, input_fails,
                stray_timer, classifier_success, classifier_error, input_persisted, driver, stores
  <1> QED
    BY <1>1, <1>2, <1>3, <1>4, <1>5, <1>6 DEF Next

LEMMA BackedStep ==
  ASSUME TypeOK, Driven, AllSound, Backed, [Next]_vars
  PROVE  Backed'
  <1>1. Evolves
    BY Evolution
  <1>2. recs \in Seq(Recorder) /\ Len(recs) \in Nat /\ Len(recs') \in Nat
    BY <1>1 DEF Evolves, TypeOK
  <1>3. ASSUME NEW a \in 1..Len(recs'), recs'[a].run # None PROVE LogBacks(recs'[a])
    <2>1. CASE a > Len(recs)
      BY <1>1, <1>3, <2>1, NewIs DEF Evolves
    <2>2. CASE a \in 1..Len(recs) /\ recs'[a].run = recs[a].run
      <3>1. recs[a] \in Recorder /\ Grows(recs[a], recs'[a])
        BY <1>1, <1>2, <2>2, ElementOfSeq DEF Evolves, Attempted
      <3>2. LogBacks(recs[a])
        BY <1>3, <2>2 DEF Backed, LogBacks
      <3> QED
        BY <1>3, <2>2, <3>1, <3>2, LogBacksGrows
    <2>3. CASE a \in 1..Len(recs) /\ write_result /\ a = artifacts
      <3> DEFINE r == recs[a]
                 q == [r EXCEPT !.run = snapshot]
      <3>1. recs[a] \in Recorder /\ Current = recs[a] /\ artifacts # 0
        BY <1>2, <2>3, ElementOfSeq DEF Current
      <3>2. /\ recs' = [recs EXCEPT ![a] = q] /\ snapshot # None /\ snapshot \in Result \cup {None}
            /\ fin = "finalizing" /\ Settled(r, mark) /\ ~r.broken
        BY <2>3, <3>1 DEF write_result, Set, Driven, TypeOK
      <3>3. snapshot \in Result
        BY <3>2
      <3>4. q \in Recorder /\ SameBook(r, q) /\ q.run = snapshot
        BY <3>1, <3>2, ResultIs
      <3> HIDE DEF q
      <3>5. recs'[a] = q
        BY <2>3, <3>2, <3>4, ReplaceOne
      <3>6. /\ mark \in 1..Size(r) /\ Ev(r, mark).kind = "finalization"
            /\ Backs(r, snapshot, mark - 1) /\ Len(r.log) >= mark
        BY <3>1, <3>2 DEF Backed, Settled
      <3>7. Size(q) = Size(r) /\ (\A i : Ev(q, i) = Ev(r, i)) /\ q.log = r.log
        BY <3>1, <3>4, BookGrows DEF SameBook
      <3>8. Size(r) \in Nat /\ Len(r.log) \in Nat
        BY <3>1, EvType
      <3>9. mark \in 1..Len(r.log)
        BY <3>6, <3>8
      <3>10. mark - 1 \in Nat /\ mark - 1 <= Size(q)
        BY <3>6, <3>7, <3>8
      <3>11. Backs(q, snapshot, mark - 1)
        BY <3>1, <3>3, <3>4, <3>6, <3>7, <3>10, BacksGrow
      <3>12. q.log[mark].kind = "finalization"
        BY <3>1, <3>6, <3>7, <3>9, EvType
      <3>13. LogBacks(q)
        BY <3>4, <3>7, <3>9, <3>11, <3>12 DEF LogBacks
      <3> QED
        BY <3>5, <3>13
    <2>4. a \in 1..Len(recs) => recs'[a].run = recs[a].run \/ (write_result /\ a = artifacts)
      BY <1>1 DEF Evolves, Attempted
    <2> QED
      BY <1>2, <2>1, <2>2, <2>3, <2>4
  <1>4. ASSUME fin' = "draining", ~Current'.broken PROVE Backs(Current', snapshot', mark')
    <2>1. CASE summarize
      <3>1. artifacts # 0 /\ ~Current.writeError /\ ~Current.broken
        BY <2>1, Actors DEF summarize, Flushed
      <3>2. artifacts \in 1..Len(recs) /\ Current \in Recorder /\ Current = recs[artifacts]
        BY <3>1, CurrentIs
      <3>3. Sound(Current)
        BY <3>2 DEF AllSound
      <3>5. Backs(Current, FinalizeInput(Current), Size(Current))
        BY <3>1, <3>2, <3>3, InputBacked
      <3>6. Current' = Current /\ snapshot' = FinalizeInput(Current) /\ mark' = Size(Current)
        BY <2>1 DEF summarize, stores, Current, Size
      <3> QED
        BY <3>5, <3>6
    <2>2. CASE UNCHANGED <<fin, mark, snapshot, artifacts>>
      <3>1. artifacts # 0 /\ snapshot # None
        BY <1>4, <2>2, Actors DEF Driven
      <3>2. Current \in Recorder /\ Grows(Current, Current')
        BY <2>2, <3>1, CurrentIs, CurrentKept
      <3>3. ~Current.broken /\ Later(Current, Current') /\ Current' \in Recorder
        BY <1>4, <3>2 DEF Grows
      <3>4. Backs(Current, snapshot, mark) /\ mark \in 0..Size(Current)
        BY <1>4, <2>2, <3>3 DEF Backed, Backs
      <3>5. Size(Current) \in Nat /\ Size(Current') \in Nat
        BY <3>2, <3>3, EvType
      <3>6. mark \in Nat /\ mark <= Size(Current') /\ \A i \in 1..mark : Ev(Current', i) = Ev(Current, i)
        BY <3>3, <3>4, <3>5 DEF Later
      <3>7. snapshot \in Result
        BY <3>1 DEF TypeOK
      <3>8. Backs(Current', snapshot, mark)
        BY <3>2, <3>3, <3>4, <3>6, <3>7, BacksGrow
      <3> QED
        BY <2>2, <3>8
    <2> QED
      BY <1>4, <2>1, <2>2, DrainKept
  <1>5. ASSUME fin' = "finalizing", ~Current'.broken
        PROVE  /\ mark' \in 1..Size(Current') /\ Ev(Current', mark').kind = "finalization"
               /\ Backs(Current', snapshot', mark' - 1)
    <2>1. CASE append_finalization
      <3> DEFINE r == recs[artifacts]
                 q == recs'[artifacts]
      <3>1. artifacts # 0 /\ ~Current.broken /\ snapshot # None
        BY <2>1, Actors DEF append_finalization, Driven
      <3>2. artifacts \in 1..Len(recs) /\ r \in Recorder /\ Current = r
        BY <3>1, CurrentIs
      <3>3. Current' = q /\ snapshot' = snapshot
        BY <2>1 DEF append_finalization, Current
      <3>4. /\ mark' = Size(r) + 1 /\ mark' = Size(q) /\ Ev(q, mark').kind = "finalization"
            /\ Touches(Current.of, {})
        BY <2>1, FinalizationTouches
      <3>5. q \in Recorder /\ Later(r, q)
        BY <3>4, TouchesIs DEF Touch
      <3>6. Backs(r, snapshot, mark) /\ mark \in 0..Size(r)
        BY <2>1, <3>1, <3>2 DEF append_finalization, Backed, Backs
      <3> HIDE DEF r, q
      <3>7. Size(r) \in Nat /\ Size(q) \in Nat
        BY <3>2, <3>5, EvType
      <3>8. /\ mark \in Nat /\ mark <= Size(r) /\ Size(r) <= Size(q)
            /\ \A i \in 1..mark : Ev(q, i) = Ev(r, i)
        BY <3>5, <3>6, <3>7 DEF Later
      <3>9. snapshot \in Result
        BY <3>1 DEF TypeOK
      <3>10. Backs(q, snapshot, Size(r))
        BY <3>2, <3>5, <3>6, <3>7, <3>8, <3>9, BacksGrow
      <3>11. mark' - 1 = Size(r) /\ mark' \in 1..Size(q)
        BY <3>4, <3>7
      <3> QED
        BY <3>3, <3>4, <3>10, <3>11
    <2>2. CASE UNCHANGED <<fin, mark, snapshot, artifacts>>
      <3>1. artifacts # 0 /\ snapshot # None
        BY <1>5, <2>2, Actors DEF Driven
      <3>2. Current \in Recorder /\ Grows(Current, Current')
        BY <2>2, <3>1, CurrentIs, CurrentKept
      <3>3. ~Current.broken /\ Later(Current, Current') /\ Current' \in Recorder
        BY <1>5, <3>2 DEF Grows
      <3>4. /\ Backs(Current, snapshot, mark - 1) /\ mark \in 1..Size(Current)
            /\ Ev(Current, mark).kind = "finalization"
        BY <1>5, <2>2, <3>3 DEF Backed
      <3>5. Size(Current) \in Nat /\ Size(Current') \in Nat
        BY <3>2, <3>3, EvType
      <3>6. /\ mark - 1 \in Nat /\ mark - 1 <= Size(Current') /\ mark \in 1..Size(Current')
            /\ Ev(Current', mark) = Ev(Current, mark)
            /\ \A i \in 1..(mark - 1) : Ev(Current', i) = Ev(Current, i)
        BY <3>3, <3>4, <3>5 DEF Later
      <3>7. snapshot \in Result
        BY <3>1 DEF TypeOK
      <3>8. Backs(Current', snapshot, mark - 1)
        BY <3>2, <3>3, <3>4, <3>6, <3>7, BacksGrow
      <3> QED
        BY <2>2, <3>4, <3>6, <3>8
    <2> QED
      BY <1>5, <2>1, <2>2, DrainKept
  <1> QED
    BY <1>3, <1>4, <1>5 DEF Backed, LogBacks

LEMMA RegisteredStep ==
  ASSUME TypeOK, Driven, Registered, [Next]_vars
  PROVE  Registered'
  <1>1. Evolves
    BY Evolution
  <1>2. /\ recs \in Seq(Recorder) /\ Len(recs) \in Nat
        /\ recorders \in [Sessions -> 0..Len(recs)]
    BY DEF TypeOK
  <1>3. \A a \in 1..Len(recs) : recs'[a].of = recs[a].of
    BY <1>1 DEF Evolves, Attempted, Grows
  <1>4. CASE recorders' = recorders
    BY <1>2, <1>3, <1>4 DEF Registered
  <1>5. ASSUME NEW s \in Sessions, factory(s), recorders' # recorders PROVE Registered'
    <2> DEFINE q == NewRecorder(s)
    <2>1. recs' = Append(recs, q) /\ recorders' = [recorders EXCEPT ![s] = Len(recs')]
      BY <1>5 DEF factory
    <2>2. q \in Recorder /\ q.of = s
      BY NewIs
    <2> HIDE DEF q
    <2>3. Len(recs') = Len(recs) + 1 /\ recs'[Len(recs) + 1] = q
      BY <1>2, <2>1, <2>2, AppendProperties
    <2> SUFFICES ASSUME NEW t \in Sessions, recorders'[t] # 0
                 PROVE  recs'[recorders'[t]].of = t
      BY DEF Registered
    <2>4. CASE t = s
      BY <2>4, <1>2, <2>1, <2>2, <2>3
    <2>5. CASE t # s
      BY <2>5, <1>2, <1>3, <2>1 DEF Registered
    <2> QED
      BY <2>4, <2>5
  <1> QED
    BY <1>4, <1>5, StoresKept

-----------------------------------------------------------------------------
(* As long as no work was cut off: the books of each attempt. *)

\* What is said of its events stays true of fewer of them.
LEMMA EventsKept ==
  ASSUME NEW r \in Recorder, NEW q \in Recorder, OwnEvents(r),
         Size(q) <= Size(r), \A i \in 1..Size(q) : Ev(q, i) = Ev(r, i),
         q.of = r.of, q.decision = r.decision, q.status = r.status, q.missing = r.missing
  PROVE  OwnEvents(q)
  <1>1. Size(r) \in Nat /\ Size(q) \in Nat
    BY EvType
  <1>2. \A i \in 1..Size(q) : i \in 1..Size(r)
    BY <1>1
  <1>3. Excluded(q) = Excluded(r)
    BY DEF Excluded
  <1> QED
    BY <1>2, <1>3 DEF OwnEvents

\* A recorder without a result is touched for its own session.
LEMMA TouchOwn ==
  ASSUME NEW r \in Recorder, NEW q, Touch(r, q, r.of), OwnEvents(r), r.run = None
  PROVE  OwnEvents(q) /\ Settles(q)
  <1>1. q \in Recorder /\ q.run = None /\ q.of = r.of
    BY DEF Touch, SameFiles
  <1>2. Size(r) \in Nat /\ Size(q) \in Nat
    BY <1>1, EvType
  <1>3. ASSUME NEW i \in 1..Size(q)
        PROVE  Ev(q, i).of = q.of /\ Ev(q, i).kind \notin Excluded(q)
    <2>1. CASE i <= Size(r)
      <3>1. i \in 1..Size(r)
        BY <2>1, <1>2
      <3>2. Ev(q, i) = Ev(r, i)
        BY <3>1 DEF Touch, Later
      <3> QED
        BY <3>1, <3>2, <1>1 DEF OwnEvents, Touch
    <2>2. CASE i > Size(r)
      BY <2>2, <1>1 DEF Touch, Added
    <2> QED
      BY <1>2, <2>1, <2>2
  <1>4. q.decision \in {None, q.of}
    BY <1>1 DEF Touch, OwnEvents
  <1>5. OwnEvents(q)
    BY <1>3, <1>4 DEF OwnEvents
  <1> QED
    BY <1>1, <1>5 DEF Settles

\* The attempts after a step of the current one's session.
LEMMA TouchesOwn ==
  ASSUME TypeOK, Driven, OwnBooks, NEW C, Touches(Current.of, C), Current.run = None
  PROVE  OwnBooks' /\ recs'[artifacts].of = Current.of
  <1>1. /\ Len(recs') = Len(recs) /\ artifacts \in 1..Len(recs) /\ recs[artifacts] \in Recorder
        /\ Touch(recs[artifacts], recs'[artifacts], Current.of)
        /\ \A a \in 1..Len(recs) : a # artifacts => recs'[a] = recs[a]
    BY TouchesIs
  <1>2. Current = recs[artifacts]
    BY DEF Current
  <1>3. OwnEvents(recs'[artifacts]) /\ Settles(recs'[artifacts])
    BY <1>1, <1>2, TouchOwn DEF OwnBooks
  <1>4. recs'[artifacts].of = Current.of
    BY <1>1, <1>2 DEF Touch, SameFiles
  <1> QED
    BY <1>1, <1>3, <1>4 DEF OwnBooks

\* The current attempt has no result while its session runs and until the rename.
LEMMA NoResultYet ==
  ASSUME TypeOK, Driven, Finalized, phase \in {"starting", "run"} \/ fin # "no", fin # "renamed"
  PROVE  Current.run = None /\ artifacts \in 1..Len(recs) /\ Current \in Recorder
  <1>1. ~Current.finalized /\ phase # "down" /\ artifacts # 0
    BY DEF Driven
  <1>2. artifacts \in 1..Len(recs) /\ Current \in Recorder /\ Current = recs[artifacts]
    BY <1>1, CurrentIs
  <1> QED
    BY <1>1, <1>2 DEF Finalized

\* A queue that has been awaited to its end is empty.
LEMMA Drained ==
  ASSUME NEW r \in Recorder, Sound(r), Settled(r, Size(r))
  PROVE  r.queue = <<>>
  <1>1. CASE r.broken
    BY <1>1 DEF Sound, Ordered
  <1>2. CASE ~r.broken
    <2> DEFINE l == r.log
               x == r.queue
    <2>1. l \in Seq(Event) /\ x \in Seq(Event)
      BY DEF Recorder
    <2>2. Len(l) >= Len(l) + Len(x)
      BY <1>2 DEF Settled, Size
    <2> HIDE DEF l, x
    <2>3. Len(x) = 0
      BY <2>1, <2>2
    <2>4. x = <<>>
      BY <2>1, <2>3
    <2> QED
      BY <2>4 DEF x
  <1> QED
    BY <1>1, <1>2

\* What went wrong stays on record.
LEMMA MishapsGrow ==
  ASSUME [Next]_vars
  PROVE  mishaps \subseteq mishaps'
  <1>1. CASE UNCHANGED vars
    BY <1>1 DEF vars
  <1>2. CASE Process
    BY <1>2 DEF Process, factory, session_shutdown, session_start, quit, Kill
  <1>3. CASE Writes
    BY <1>3 DEF Writes, write, write_fails
  <1>4. CASE Extension
    BY <1>4 DEF Extension, hook, tool_refused, session_compact_failed, before_provider_request, stopForLimit, message_refused, message_end
  <1>5. CASE Finalize
    BY <1>5 DEF Finalize, close_flushed, capture_patch, summarize, append_finalization,
                write_result, set_finalized, finalize_throws, dispose
  <1>6. ASSUME NEW s \in Sessions, Handler(s)
        PROVE  mishaps \subseteq mishaps'
    BY <1>6 DEF Handler, input_refused, input_routed, input_fixed, store_write, input_fails,
                stray_timer, classifier_success, classifier_error, input_persisted
  <1> QED
    BY <1>1, <1>2, <1>3, <1>4, <1>5, <1>6 DEF Next

OwnAll == OwnActors /\ OwnSummary /\ OwnBooks /\ OwnEnd

\* The attached session and its handler.
LEMMA OwnWork ==
  ASSUME TypeOK, Driven, Finalized, OwnAll,
         \/ \E s \in Sessions : Handler(s)
         \/ Extension
         \/ \E b \in BOOLEAN : session_start(b)
         \/ session_shutdown /\ "cut" \notin mishaps'
  PROVE  OwnAll'
  <1>0. OwnActors /\ OwnBooks
    BY DEF OwnAll
  <1>1. phase \in {"starting", "run"}
    <2>1. ASSUME NEW s \in Sessions, Handler(s) PROVE phase = "run"
      BY <1>0, <2>1 DEF OwnActors, Handler, input_refused, input_routed, input_fixed, store_write,
              input_fails, stray_timer, classifier_success, classifier_error, input_persisted
    <2> QED
      BY <2>1 DEF Extension, hook, tool_refused, session_compact_failed, before_provider_request, stopForLimit, message_refused,
                  message_end, session_start, session_shutdown
  <1>2. active \in Sessions /\ Current.of = active /\ artifacts # 0 /\ fin = "no"
    BY <1>0, <1>1, Actors DEF OwnActors, Driven
  <1>3. Current.run = None
    BY <1>1, <1>2, NoResultYet
  <1>4. recs' = recs \/ \E C : Touches(active, C)
    <2>1. ASSUME NEW s \in Sessions, Handler(s) PROVE recs' = recs \/ \E C : Touches(active, C)
      <3>1. s = active
        BY <1>0, <2>1 DEF OwnActors, Handler, input_refused, input_routed, input_fixed, store_write,
                input_fails, stray_timer, classifier_success, classifier_error, input_persisted
      <3>2. CASE input_fixed(s) \/ store_write(s)
        BY <3>2 DEF input_fixed, store_write, stores
      <3> QED
        BY <2>1, <3>1, <3>2, HandlerTouches DEF Handler
    <2>2. ASSUME Extension PROVE \E C : Touches(active, C)
      BY <2>2, ExtensionTouches DEF Extension
    <2>3. ASSUME NEW b \in BOOLEAN, session_start(b) PROVE \E C : Touches(active, C)
      BY <2>3, SessionStartTouches
    <2>4. ASSUME session_shutdown PROVE \E C : Touches(active, C)
      BY <2>4, ExtensionTouches
    <2> QED
      BY <2>1, <2>2, <2>3, <2>4
  <1>5. OwnBooks' /\ recs'[artifacts].of = active
    <2>1. CASE recs' = recs
      BY <1>0, <1>2, <2>1 DEF OwnBooks, Current
    <2>2. ASSUME NEW C, Touches(active, C) PROVE OwnBooks' /\ recs'[artifacts].of = active
      BY <1>0, <1>2, <1>3, <2>2, TouchesOwn
    <2> QED
      BY <1>4, <2>1, <2>2
  <1>6. artifacts' = artifacts
    BY DEF Extension, hook, tool_refused, session_compact_failed, before_provider_request, stopForLimit, message_refused,
           message_end, session_start, session_shutdown, Handler, input_refused, input_routed,
           input_fixed, store_write, input_fails, stray_timer, classifier_success,
           classifier_error, input_persisted, stores
  <1>7. /\ fin' \in {"no", "closing"} /\ phase' # "ok"
        /\ phase' \in {"starting", "run"} => active' = active
    <2>1. ASSUME NEW s \in Sessions, Handler(s)
          PROVE  phase' = phase /\ fin' = fin /\ active' = active
      BY <2>1 DEF Handler, input_refused, input_routed, input_fixed, store_write, input_fails,
           stray_timer, classifier_success, classifier_error, input_persisted, driver
    <2> QED
      BY <1>1, <1>2, <2>1 DEF Extension, hook, tool_refused, session_compact_failed, before_provider_request, stopForLimit,
           message_refused, message_end, session_start, session_shutdown, driver
  <1>8. OwnSummary' /\ OwnEnd'
    BY <1>7 DEF OwnSummary, OwnEnd
  <1>9. stray' = {} /\ \A s \in Sessions : handler'[s] # "idle" => phase' = "run" /\ s = active'
    <2>1. handler \in [Sessions -> HandlerStates]
      BY DEF TypeOK
    <2>2. ASSUME NEW s \in Sessions, Handler(s)
          PROVE  stray' = {} /\ \A t \in Sessions : handler'[t] # "idle" => phase' = "run" /\ t = active'
      <3>1. s = active /\ phase = "run" /\ stray' = {} /\ phase' = phase /\ active' = active
        BY <1>0, <2>2 DEF OwnActors, Handler, input_refused, input_routed, input_fixed, store_write,
                input_fails, stray_timer, classifier_success, classifier_error, input_persisted,
                driver, sessions
      <3>2. \A t \in Sessions : t # s => handler'[t] = handler[t]
        BY <2>1, <2>2 DEF Handler, input_refused, input_routed, input_fixed, store_write,
                input_fails, stray_timer, classifier_success, classifier_error, input_persisted,
                sessions
      <3> QED
        BY <1>0, <3>1, <3>2 DEF OwnActors
    <2>3. ASSUME Extension \/ \E b \in BOOLEAN : session_start(b)
          PROVE  /\ stray' = stray /\ handler' = handler /\ active' = active
                 /\ phase' = phase \/ phase' = "run"
      BY <2>3 DEF Extension, hook, tool_refused, session_compact_failed, before_provider_request, stopForLimit, message_refused,
                  message_end, session_start, driver, sessions
    <2>4. ASSUME session_shutdown, "cut" \notin mishaps'
          PROVE  stray' = {} /\ \A t \in Sessions : handler'[t] = "idle"
      <3>1. ~Busy(active)
        BY <2>4 DEF session_shutdown
      <3> QED
        BY <1>0, <2>4, <3>1 DEF session_shutdown, Busy, OwnActors
    <2> QED
      BY <1>0, <2>2, <2>3, <2>4 DEF OwnActors
  <1> QED
    BY <1>5, <1>6, <1>7, <1>8, <1>9 DEF OwnAll, OwnActors, Current

\* The queue of writes.
LEMMA OwnWrites ==
  ASSUME TypeOK, Driven, AllSound, OwnAll, Writes
  PROVE  OwnAll'
  <1>0. /\ recs \in Seq(Recorder) /\ DOMAIN recs = 1..Len(recs)
        /\ OwnActors /\ OwnSummary /\ OwnBooks /\ OwnEnd
    BY DEF TypeOK, OwnAll
  <1>1. PICK a \in 1..Len(recs) : write(a) \/ \E torn \in BOOLEAN : write_fails(a, torn)
    BY <1>0 DEF Writes
  <1> DEFINE r == recs[a]
             q == recs'[a]
  <1>2. r \in Recorder /\ r.queue # <<>>
    BY <1>0, <1>1, ElementOfSeq DEF write, write_fails
  <1>3. q = Written(r) \/ \E torn \in BOOLEAN : q = Unwritten(r, torn)
    <2>1. CASE write(a)
      <3>1. recs' = [recs EXCEPT ![a] = Written(recs[a])]
        BY <1>0, <1>2, <2>1 DEF write, Written
      <3> QED
        BY <1>0, <3>1
    <2>2. ASSUME NEW torn \in BOOLEAN, write_fails(a, torn) PROVE q = Unwritten(r, torn)
      <3>1. recs' = [recs EXCEPT ![a] = Unwritten(recs[a], torn)]
        BY <2>2 DEF write_fails, Unwritten
      <3> QED
        BY <1>0, <3>1
    <2> QED
      BY <1>1, <2>1, <2>2
  <1>4. /\ Len(recs') = Len(recs) /\ (\A b \in 1..Len(recs) : b # a => recs'[b] = recs[b])
        /\ UNCHANGED <<artifacts, fin, mark, snapshot, phase, active, stray, handler>>
    <2>1. UNCHANGED <<artifacts, ids, fin, mark, snapshot, phase, active, stray, handler>>
      BY <1>1 DEF write, write_fails, driver, sessions
    <2>2. Len(recs') = Len(recs)
      BY <2>1, LengthKept DEF Next
    <2>3. \A b \in 1..Len(recs) : b # a => recs'[b] = recs[b]
      BY <1>0, <1>1 DEF write, write_fails
    <2> QED
      BY <2>1, <2>2, <2>3
  <1> HIDE DEF r, q
  <1>5. /\ q \in Recorder /\ SameRecord(r, q) /\ Size(q) <= Size(r)
        /\ \A i \in 1..Size(q) : Ev(q, i) = Ev(r, i)
    <2>1. CASE q = Written(r)
      <3>1. /\ q \in Recorder /\ SameRecord(r, q) /\ Size(q) = Size(r)
            /\ \A i \in 1..Size(r) : Ev(q, i) = Ev(r, i)
        BY <1>2, <2>1, WriteIs, Zenon
      <3>2. Size(r) \in Nat
        BY <1>2, EvType
      <3> QED
        BY <3>1, <3>2
    <2>2. ASSUME NEW torn \in BOOLEAN, q = Unwritten(r, torn)
          PROVE  /\ q \in Recorder /\ SameRecord(r, q) /\ Size(q) <= Size(r)
                 /\ \A i \in 1..Size(q) : Ev(q, i) = Ev(r, i)
      <3>1. /\ q \in Recorder /\ SameRecord(r, q) /\ Size(q) = Len(r.log)
            /\ \A i \in 1..Len(r.log) : Ev(q, i) = Ev(r, i)
        BY <1>2, <2>2, FailIs, Zenon
      <3>2. Len(r.log) <= Size(r)
        BY <1>2 DEF Size, Recorder
      <3> QED
        BY <3>1, <3>2
    <2> QED
      BY <1>3, <2>1, <2>2
  <1>6. r.run = None
    BY <1>0, <1>2 DEF OwnBooks, Settles, r
  <1>7. OwnEvents(q) /\ Settles(q)
    <2>1. /\ q.of = r.of /\ q.decision = r.decision /\ q.status = r.status /\ q.run = r.run
          /\ q.missing = r.missing
      BY <1>5 DEF SameRecord, SameNotes
    <2>2. OwnEvents(r)
      BY <1>0 DEF OwnBooks, r
    <2> QED
      BY <1>2, <1>5, <1>6, <2>1, <2>2, EventsKept DEF Settles
  <1>8. OwnBooks'
    BY <1>0, <1>4, <1>7 DEF OwnBooks, q
  <1>9. OwnEnd'
    <2>1. phase # "ok"
      BY <1>0, <1>2 DEF OwnEnd, r
    <2> QED
      BY <1>4, <2>1 DEF OwnEnd
  <1>10. OwnActors'
    <2>1. phase \in {"starting", "run"} => artifacts \in 1..Len(recs)
      BY Actors, CurrentIs
    <2>2. \A b \in 1..Len(recs) : recs'[b].of = recs[b].of
      BY <1>4, <1>5 DEF SameRecord, r, q
    <2>3. phase \in {"starting", "run"} => Current'.of = Current.of
      BY <1>4, <2>1, <2>2 DEF Current
    <2> QED
      BY <1>0, <1>4, <2>3 DEF OwnActors
  <1>11. OwnSummary'
    <2>1. CASE fin = "no"
      BY <1>4, <2>1 DEF OwnSummary
    <2>2. CASE fin # "no" /\ a # artifacts
      <3>1. artifacts \in 1..Len(recs)
        BY <2>2, Actors, CurrentIs
      <3>2. Current' = Current
        BY <1>4, <2>2, <3>1 DEF Current
      <3> QED
        BY <1>0, <1>4, <3>2 DEF OwnSummary
    <2>3. CASE fin # "no" /\ a = artifacts
      <3>1. Current = r /\ Current' = q
        BY <1>4, <2>3 DEF Current, r, q
      <3>2. fin # "draining"
        BY <1>0, <1>2, <3>1 DEF OwnSummary
      <3>3. FinalizeInput(q) = FinalizeInput(r)
        BY <1>5 DEF SameRecord, SameNotes, FinalizeInput, CostKnown
      <3>5. q.broken \/ (q.broken = r.broken /\ Size(q) = Size(r))
        <4>1. CASE q = Written(r)
          BY <1>2, <4>1, WriteIs, Zenon
        <4>2. ASSUME NEW torn \in BOOLEAN, q = Unwritten(r, torn) PROVE q.broken
          BY <1>2, <4>2, FailIs, Zenon
        <4> QED
          BY <1>3, <4>1, <4>2
      <3>4. ASSUME fin = "finalizing"
            PROVE  q.writeError = r.writeError /\ \A i \in 1..Len(q.queue) : q.queue[i].kind = "finalization"
        <4>1. \A i \in 1..Len(r.queue) : r.queue[i].kind = "finalization"
          BY <1>0, <3>1, <3>4 DEF OwnSummary
        <4>2. CASE q = Written(r)
          <5>1. /\ q.writeError = r.writeError /\ q.broken = r.broken /\ q \in Recorder
                /\ Len(q.log) = Len(r.log) + 1 /\ Size(q) = Size(r)
                /\ \A i \in 1..Len(q.queue) : q.queue[i] = r.queue[i + 1]
            BY <1>2, <4>2, WriteIs, Zenon
          <5>2. /\ Len(q.queue) \in Nat /\ Len(r.queue) \in Nat /\ Len(r.log) \in Nat
                /\ Size(q) = Len(q.log) + Len(q.queue) /\ Size(r) = Len(r.log) + Len(r.queue)
            BY <1>2, <5>1, EvType DEF Size
          <5> DEFINE x == r.queue
                     y == q.queue
                     l == Len(r.log)
          <5>3. Len(y) \in Nat /\ Len(x) \in Nat /\ l \in Nat /\ (l + 1) + Len(y) = l + Len(x)
            BY <5>1, <5>2, Zenon
          <5>4. /\ \A i \in 1..Len(y) : y[i] = x[i + 1]
                /\ \A i \in 1..Len(x) : x[i].kind = "finalization"
            BY <4>1, <5>1
          <5> HIDE DEF x, y, l
          <5>5. \A i \in 1..Len(y) : i + 1 \in 1..Len(x)
            BY <5>3
          <5>6. \A i \in 1..Len(y) : y[i].kind = "finalization"
            BY <5>4, <5>5
          <5> QED
            BY <5>1, <5>6 DEF y
        <4>3. ASSUME NEW torn \in BOOLEAN, q = Unwritten(r, torn)
              PROVE  q.writeError = r.writeError /\ \A i \in 1..Len(q.queue) : q.queue[i].kind = "finalization"
          <5>1. \A i \in 1..Len(r.queue) : r.queue[i].kind \in Awaited
            BY <4>1 DEF Awaited
          <5>2. q.writeError = r.writeError /\ q.queue = <<>>
            BY <1>2, <4>3, <5>1, FailIs, Zenon
          <5>3. Len(q.queue) = 0
            BY <5>2
          <5> QED
            BY <5>2, <5>3
        <4> QED
          BY <1>3, <4>2, <4>3
      <3> QED
        BY <1>0, <1>4, <3>1, <3>2, <3>3, <3>4, <3>5 DEF OwnSummary
    <2> QED
      BY <2>1, <2>2, <2>3
  <1> QED
    BY <1>8, <1>9, <1>10, <1>11 DEF OwnAll

\* Notes that are the same are summarised the same way.
LEMMA SameInput ==
  ASSUME NEW r, NEW q, SameNotes(r, q)
  PROVE  FinalizeInput(q) = FinalizeInput(r)
  BY DEF SameNotes, FinalizeInput, CostKnown

\* The attempts when only run.json, the finalized flag or the tail of one changes.
LEMMA BookOwn ==
  ASSUME TypeOK, OwnBooks, NEW a \in 1..Len(recs), NEW q \in Recorder,
         recs' = [recs EXCEPT ![a] = q], SameBook(recs[a], q), Settles(q)
  PROVE  OwnBooks' /\ recs'[a] = q /\ Len(recs') = Len(recs)
  <1>0. recs \in Seq(Recorder)
    BY DEF TypeOK
  <1>1. recs[a] \in Recorder
    BY <1>0, ElementOfSeq
  <1>2. /\ Len(recs') = Len(recs) /\ recs'[a] = q
        /\ \A b \in 1..Len(recs) : b # a => recs'[b] = recs[b]
    BY ReplaceOne
  <1>3. Size(q) = Size(recs[a]) /\ (\A i : Ev(q, i) = Ev(recs[a], i)) /\ Size(recs[a]) \in Nat
    BY <1>1, BookGrows, EvType
  <1>4. /\ q.of = recs[a].of /\ q.decision = recs[a].decision /\ q.status = recs[a].status
        /\ q.missing = recs[a].missing
    BY DEF SameBook, SameNotes
  <1>5. OwnEvents(recs[a]) /\ Size(q) <= Size(recs[a])
    BY <1>3 DEF OwnBooks
  <1>6. OwnEvents(q)
    BY <1>1, <1>3, <1>4, <1>5, EventsKept
  <1> QED
    BY <1>2, <1>6 DEF OwnBooks

\* The finalization of the current attempt.
LEMMA OwnFinalize ==
  ASSUME TypeOK, Driven, AllSound, Finalized, OwnAll, Finalize
  PROVE  OwnAll'
  <1>0. OwnActors /\ OwnSummary /\ OwnBooks /\ OwnEnd
    BY DEF OwnAll
  <1>1. phase \notin {"starting", "run"} /\ UNCHANGED <<stray, handler>> /\ phase' \notin {"starting", "run"}
    BY DEF Finalize, close_flushed, capture_patch, summarize, append_finalization, write_result,
           set_finalized, finalize_throws, dispose, Over, sessions, Driven
  <1>2. OwnActors'
    BY <1>0, <1>1 DEF OwnActors
  <1>3. CASE close_flushed
    BY <1>0, <1>2, <1>3 DEF close_flushed, stores, OwnSummary, OwnBooks, OwnEnd, OwnAll
  <1>4. CASE finalize_throws
    <2>1. recs' = recs /\ fin' = "no" /\ phase' # "ok"
      BY <1>4 DEF finalize_throws, Over, stores
    <2> QED
      BY <1>0, <1>2, <2>1 DEF OwnSummary, OwnBooks, OwnEnd, OwnAll
  <1>5. CASE capture_patch
    <2>1. Touches(Current.of, {}) /\ mark' = Size(recs'[artifacts]) /\ Current.run = None
      BY <1>5, PatchTouches, NoResultYet DEF capture_patch
    <2>2. OwnBooks'
      BY <1>0, <2>1, TouchesOwn
    <2>3. fin' = "flushing" /\ phase' # "ok" /\ artifacts' = artifacts
      BY <1>5 DEF capture_patch, Driven
    <2> QED
      BY <1>2, <2>1, <2>2, <2>3 DEF OwnSummary, OwnEnd, OwnAll, Current
  <1>6. CASE summarize
    <2>1. artifacts \in 1..Len(recs) /\ Current \in Recorder /\ Current = recs[artifacts]
      BY <1>6, Actors, CurrentIs DEF summarize
    <2>2. /\ Settled(Current, Size(Current)) /\ ~Current.writeError /\ fin' = "draining"
          /\ snapshot' = FinalizeInput(Current) /\ recs' = recs /\ artifacts' = artifacts
          /\ phase' # "ok"
      BY <1>0, <1>6 DEF summarize, Flushed, OwnSummary, Driven, stores
    <2>3. Sound(Current)
      BY <2>1 DEF AllSound
    <2>4. Current.queue = <<>>
      BY <2>1, <2>2, <2>3, Drained
    <2> QED
      BY <1>0, <1>2, <2>2, <2>4 DEF OwnSummary, OwnBooks, OwnEnd, OwnAll, Current
  <1>7. CASE append_finalization
    <2> DEFINE r == recs[artifacts]
               q == recs'[artifacts]
    <2>1. /\ Touches(Current.of, {}) /\ SameNotes(r, q) /\ q.writeError = r.writeError
          /\ mark' = Size(q)
      BY <1>7, FinalizationTouches
    <2>2. PICK e : e.kind = "finalization" /\ q.queue = Append(r.queue, e)
      BY <1>7, FinalizationTouches
    <2>3. Current.run = None
      BY <1>7, NoResultYet DEF append_finalization
    <2>4. OwnBooks'
      BY <1>0, <2>1, <2>3, TouchesOwn
    <2>5. /\ fin = "draining" /\ fin' = "finalizing" /\ phase' # "ok" /\ artifacts' = artifacts
          /\ snapshot' = snapshot
      BY <1>7 DEF append_finalization, Driven
    <2>6. r = Current /\ q = Current'
      BY <2>5 DEF Current
    <2> HIDE DEF r, q
    <2>7. snapshot = FinalizeInput(r) /\ ~r.writeError /\ r.queue = <<>>
      BY <1>0, <2>5, <2>6 DEF OwnSummary
    <2>8. FinalizeInput(q) = FinalizeInput(r)
      BY <2>1, SameInput
    <2>9. \A i \in 1..Len(q.queue) : q.queue[i].kind = "finalization"
      <3>1. q.queue = <<e>>
        BY <2>2, <2>7
      <3> QED
        BY <2>2, <3>1
    <2> QED
      BY <1>2, <2>1, <2>4, <2>5, <2>6, <2>7, <2>8, <2>9 DEF OwnSummary, OwnEnd, OwnAll
  <1>8. CASE write_result
    <2> DEFINE r == recs[artifacts]
               q == [r EXCEPT !.run = snapshot]
    <2>1. artifacts \in 1..Len(recs) /\ r \in Recorder /\ Current = r
      BY <1>8, Actors, CurrentIs DEF write_result
    <2>2. /\ recs' = [recs EXCEPT ![artifacts] = q] /\ snapshot \in Result \cup {None}
          /\ Settled(r, Size(r)) /\ snapshot = FinalizeInput(r) /\ ~r.writeError
          /\ fin' = "renamed" /\ phase' # "ok"
      BY <1>0, <1>8, <2>1 DEF write_result, Set, OwnSummary, Driven, TypeOK
    <2>3. q \in Recorder /\ SameBook(r, q) /\ q.run = snapshot
      BY <2>1, <2>2, ResultIs
    <2> HIDE DEF q
    <2>4. Sound(r)
      BY <2>1 DEF AllSound
    <2>5. r.queue = <<>>
      BY <2>1, <2>2, <2>4, Drained
    <2>6. FinalizeInput(q) = FinalizeInput(r)
      BY <2>3, SameInput DEF SameBook
    <2>7. Settles(q)
      BY <2>2, <2>3, <2>5, <2>6 DEF Settles, SameBook
    <2>8. OwnBooks'
      BY <1>0, <2>1, <2>2, <2>3, <2>7, BookOwn
    <2> QED
      BY <1>2, <2>2, <2>8 DEF OwnSummary, OwnEnd, OwnAll
  <1>9. CASE set_finalized
    <2> DEFINE r == recs[artifacts]
               q == [r EXCEPT !.finalized = TRUE]
    <2>1. artifacts \in 1..Len(recs) /\ r \in Recorder /\ Current = r
      BY <1>9, Actors, CurrentIs DEF set_finalized
    <2>2. recs' = [recs EXCEPT ![artifacts] = q] /\ fin' = "no" /\ phase' # "ok"
      BY <1>9, <2>1 DEF set_finalized, Set, Over
    <2>3. q \in Recorder /\ SameBook(r, q) /\ q.run = r.run
      BY <2>1, FinalIs
    <2> HIDE DEF q
    <2>4. FinalizeInput(q) = FinalizeInput(r) /\ Settles(r)
      BY <1>0, <2>1, <2>3, SameInput DEF SameBook, OwnBooks
    <2>5. Settles(q)
      BY <2>3, <2>4 DEF Settles, SameBook
    <2>6. OwnBooks'
      BY <1>0, <2>1, <2>2, <2>3, <2>5, BookOwn
    <2> QED
      BY <1>2, <2>2, <2>6 DEF OwnSummary, OwnEnd, OwnAll
  <1>10. CASE dispose
    <2>1. recs' = recs /\ artifacts' = artifacts /\ fin' = "no" /\ phase = "disposing"
      BY <1>10 DEF dispose, stores, Driven
    <2>2. ASSUME phase' = "ok", NEW a \in 1..Len(recs)
          PROVE  recs[a].lost \subseteq Awaited /\ recs[a].queue = <<>>
      <3>1. recs[a] \in Recorder
        BY ElementOfSeq DEF TypeOK
      <3>2. Sound(recs[a]) /\ recs[a].of \in Sessions
        BY <3>1 DEF AllSound, Recorder
      <3>3. ~recs[a].writeError /\ recs[a].queue = <<>>
        <4>1. CASE recs[a].finalized
          BY <1>0, <4>1 DEF Finalized, OwnBooks, Settles
        <4>2. CASE ~recs[a].finalized
          <5>1. recorders[recs[a].of] = a
            BY <4>2 DEF Finalized
          <5>2. a \in Disposed
            BY <3>2, <5>1 DEF Disposed
          <5>3. Settled(recs[a], Size(recs[a])) /\ ~recs[a].writeError
            BY <1>10, <2>2, <5>2 DEF dispose
          <5> QED
            BY <3>1, <3>2, <5>3, Drained
        <4> QED
          BY <4>1, <4>2
      <3> QED
        BY <3>2, <3>3 DEF Sound, Faithful
    <2>3. OwnEnd'
      BY <2>1, <2>2 DEF OwnEnd
    <2> QED
      BY <1>0, <1>2, <2>1, <2>3 DEF OwnSummary, OwnBooks, OwnAll
  <1> QED
    BY <1>3, <1>4, <1>5, <1>6, <1>7, <1>8, <1>9, <1>10 DEF Finalize

\* Sessions come and go.
LEMMA OwnProcess ==
  ASSUME TypeOK, Driven, Registered, OwnAll,
         \/ \E s \in Sessions : factory(s)
         \/ \E b \in BOOLEAN : Kill(b)
         \/ (\E b \in BOOLEAN : quit(b)) /\ "cut" \notin mishaps'
  PROVE  OwnAll'
  <1>0. OwnActors /\ OwnSummary /\ OwnBooks /\ OwnEnd
    BY DEF OwnAll
  <1>1. ASSUME NEW b \in BOOLEAN, quit(b), "cut" \notin mishaps' PROVE OwnAll'
    <2>1. ~Busy(active) /\ fin' = "patching" /\ phase' = "quitting" /\ handler' = handler
      BY <1>1 DEF quit
    <2>2. OwnActors'
      BY <1>0, <1>1, <2>1 DEF quit, Busy, OwnActors
    <2>3. OwnBooks'
      BY <1>0, <1>1 DEF quit, stores, OwnBooks
    <2> QED
      BY <2>1, <2>2, <2>3 DEF OwnSummary, OwnEnd, OwnAll
  <1>2. ASSUME NEW b \in BOOLEAN, Kill(b) PROVE OwnAll'
    <2>1. OwnActors' /\ OwnSummary' /\ OwnEnd'
      BY <1>2 DEF Kill, OwnActors, OwnSummary, OwnEnd
    <2>2. OwnBooks'
      <3>1. CASE recs' = recs
        BY <1>0, <3>1 DEF OwnBooks
      <3>2. CASE recs' # recs
        <4> DEFINE r == recs[artifacts]
                   q == [r EXCEPT !.tail = TRUE]
        <4>0. recs \in Seq(Recorder)
          BY DEF TypeOK
        <4>1. artifacts \in 1..Len(recs)
          BY <1>2, <3>2, <4>0 DEF Kill, TypeOK
        <4>2. r \in Recorder
          BY <4>0, <4>1, ElementOfSeq
        <4>3. recs' = [recs EXCEPT ![artifacts] = q]
          BY <1>2, <3>2, <4>0, <4>1 DEF Kill
        <4>4. q \in Recorder /\ SameBook(r, q) /\ q.run = r.run
          BY <4>2, TornIs
        <4> HIDE DEF q
        <4>5. FinalizeInput(q) = FinalizeInput(r) /\ Settles(r)
          BY <1>0, <4>1, <4>4, SameInput DEF SameBook, OwnBooks
        <4>6. Settles(q)
          BY <4>4, <4>5 DEF Settles, SameBook
        <4> QED
          BY <1>0, <4>1, <4>3, <4>4, <4>6, BookOwn
      <3> QED
        BY <3>1, <3>2
    <2> QED
      BY <2>1, <2>2 DEF OwnAll
  <1>3. ASSUME NEW s \in Sessions, factory(s) PROVE OwnAll'
    <2>1. /\ phase = "switch" /\ fin = "no" /\ fin' = "no" /\ stray' = {} /\ handler' = handler
          /\ phase' \in {"starting", "collided"} /\ \A t \in Sessions : handler[t] = "idle"
      BY <1>0, <1>3 DEF factory, sessions, Driven, OwnActors
    <2>2. OwnSummary' /\ OwnEnd'
      BY <2>1 DEF OwnSummary, OwnEnd
    <2>3. OwnBooks' /\ (phase' = "starting" => Current'.of = active')
      <3>1. CASE recs' = recs
        <4>1. OwnBooks'
          BY <1>0, <3>1 DEF OwnBooks
        <4>2. phase' = "starting" => artifacts' = recorders[s] /\ recorders[s] # 0 /\ active' = s
          <5>1. CASE reusable(s)
            BY <1>3, <5>1 DEF factory, reusable
          <5>2. CASE ~reusable(s) /\ phase' = "starting"
            <6>1. recs' = Append(recs, NewRecorder(s)) /\ NewRecorder(s) \in Recorder
                  /\ recs \in Seq(Recorder)
              BY <1>3, <5>2, NewIs DEF factory, TypeOK
            <6>2. Len(recs') = Len(recs) + 1 /\ Len(recs) \in Nat
              BY <6>1, AppendProperties
            <6> QED
              BY <3>1, <6>2
          <5> QED
            BY <5>1, <5>2
        <4> QED
          BY <3>1, <4>1, <4>2 DEF Current, Registered
      <3>2. CASE recs' # recs
        <4> DEFINE q == NewRecorder(s)
        <4>1. recs' = Append(recs, q) /\ artifacts' = Len(recs') /\ active' = s
          BY <1>3, <3>2 DEF factory
        <4>2. /\ q \in Recorder /\ q.of = s /\ q.run = None /\ q.decision = None /\ Size(q) = 1
              /\ Ev(q, 1).of = s /\ Ev(q, 1).kind = "startup"
          BY NewIs
        <4> HIDE DEF q
        <4>3. OwnEvents(q) /\ Settles(q)
          <5>1. \A i \in 1..Size(q) : i = 1
            BY <4>2
          <5>2. "startup" \notin Excluded(q)
            BY DEF Excluded
          <5> QED
            BY <4>2, <5>1, <5>2 DEF OwnEvents, Settles
        <4>4. /\ Len(recs') = Len(recs) + 1 /\ recs'[Len(recs) + 1] = q /\ Len(recs) \in Nat
              /\ \A a \in 1..Len(recs) : recs'[a] = recs[a]
          BY <4>1, <4>2, AppendProperties DEF TypeOK
        <4>5. \A a \in 1..Len(recs') : a \in 1..Len(recs) \/ a = Len(recs) + 1
          BY <4>4
        <4>6. OwnBooks'
          BY <1>0, <4>3, <4>4, <4>5 DEF OwnBooks
        <4> QED
          BY <4>1, <4>2, <4>4, <4>6 DEF Current
      <3> QED
        BY <3>1, <3>2
    <2> QED
      BY <2>1, <2>2, <2>3 DEF OwnActors, OwnAll
  <1> QED
    BY <1>1, <1>2, <1>3

LEMMA OwnStep ==
  ASSUME TypeOK, Driven, AllSound, Finalized, Registered, Own, [Next]_vars
  PROVE  Own'
  <1> SUFFICES ASSUME "cut" \notin mishaps' PROVE OwnAll'
    BY DEF Own, OwnAll
  <1>1. OwnAll
    BY MishapsGrow DEF Own, OwnAll
  <1>2. CASE UNCHANGED vars
    BY <1>1, <1>2 DEF vars, stores, driver, sessions, OwnAll, OwnActors, OwnSummary, OwnBooks,
                      OwnEnd, Current
  <1>3. CASE Process
    BY <1>1, <1>3, OwnProcess, OwnWork DEF Process
  <1>4. CASE Writes
    BY <1>1, <1>4, OwnWrites
  <1>5. CASE Extension
    BY <1>1, <1>5, OwnWork
  <1>6. CASE Finalize
    BY <1>1, <1>6, OwnFinalize
  <1>7. ASSUME NEW s \in Sessions, Handler(s) PROVE OwnAll'
    BY <1>1, <1>7, OwnWork
  <1> QED
    BY <1>2, <1>3, <1>4, <1>5, <1>6, <1>7 DEF Next

-----------------------------------------------------------------------------
(* As long as nothing went wrong: the accounts of each attempt. *)

\* The calls C are accounted for at the current attempt, and no others anywhere.
Accounts(C) ==
  /\ Len(recs') = Len(recs)
  /\ \A a \in 1..Len(recs) :
       /\ recs'[a].of = recs[a].of
       /\ Accounted(recs'[a]) = IF a = artifacts THEN Accounted(recs[a]) \cup C
                                                 ELSE Accounted(recs[a])

LEMMA TouchesAccounts ==
  ASSUME TypeOK, NEW s, NEW C, Touches(s, C)
  PROVE  Accounts(C)
  <1>1. /\ Len(recs') = Len(recs)
        /\ Touch(recs[artifacts], recs'[artifacts], s)
        /\ Accounted(recs'[artifacts]) = Accounted(recs[artifacts]) \cup C
        /\ \A a \in 1..Len(recs) : a # artifacts => recs'[a] = recs[a]
    BY TouchesIs
  <1>2. recs'[artifacts].of = recs[artifacts].of
    BY <1>1 DEF Touch, SameFiles
  <1> QED
    BY <1>1, <1>2 DEF Accounts

\* One attempt is replaced by one with the same accounts.
LEMMA ReplaceAccounts ==
  ASSUME TypeOK, NEW a \in 1..Len(recs), NEW q \in Recorder, recs' = [recs EXCEPT ![a] = q],
         q.of = recs[a].of, SameNotes(recs[a], q)
  PROVE  Accounts({})
  <1>1. /\ Len(recs') = Len(recs) /\ recs'[a] = q
        /\ \A b \in 1..Len(recs) : b # a => recs'[b] = recs[b]
    BY ReplaceOne
  <1>2. Accounted(q) = Accounted(recs[a])
    BY DEF Accounted, SameNotes
  <1> QED
    BY <1>1, <1>2 DEF Accounts

\* The steps that account for no call and start no attempt.
LEMMA AccountsKept ==
  ASSUME TypeOK, Driven, Writes \/ Finalize \/ \E b \in BOOLEAN : quit(b) \/ Kill(b)
  PROVE  Accounts({})
  <1>0. recs \in Seq(Recorder) /\ DOMAIN recs = 1..Len(recs)
    BY DEF TypeOK
  <1>1. ASSUME recs' = recs PROVE Accounts({})
    BY <1>1 DEF Accounts
  <1>2. CASE Writes
    <2>1. PICK a \in 1..Len(recs) : write(a) \/ \E torn \in BOOLEAN : write_fails(a, torn)
      BY <1>0, <1>2 DEF Writes
    <2>2. recs[a] \in Recorder
      BY <1>0, ElementOfSeq
    <2>3. CASE write(a)
      <3> DEFINE q == Written(recs[a])
      <3>1. recs' = [recs EXCEPT ![a] = q] /\ recs[a].queue # <<>>
        BY <1>0, <2>2, <2>3 DEF write, Written
      <3>2. q \in Recorder /\ SameRecord(recs[a], q)
        BY <2>2, <3>1, WriteIs, Zenon
      <3> HIDE DEF q
      <3> QED
        BY <3>1, <3>2, ReplaceAccounts DEF SameRecord
    <2>4. ASSUME NEW torn \in BOOLEAN, write_fails(a, torn) PROVE Accounts({})
      <3> DEFINE q == Unwritten(recs[a], torn)
      <3>1. recs' = [recs EXCEPT ![a] = q]
        BY <2>4 DEF write_fails, Unwritten
      <3>2. q \in Recorder /\ SameRecord(recs[a], q)
        BY <2>2, FailIs, Zenon
      <3> HIDE DEF q
      <3> QED
        BY <3>1, <3>2, ReplaceAccounts DEF SameRecord
    <2> QED
      BY <2>1, <2>3, <2>4
  <1>3. CASE Finalize
    <2>1. CASE close_flushed \/ summarize \/ finalize_throws \/ dispose
      BY <1>1, <2>1 DEF close_flushed, summarize, finalize_throws, dispose, stores
    <2>2. CASE write_result \/ set_finalized
      <3>1. artifacts # 0
        BY <2>2, Actors DEF write_result, set_finalized
      <3>2. artifacts \in 1..Len(recs) /\ Current \in Recorder /\ Current = recs[artifacts]
        BY <3>1, CurrentIs
      <3>3. snapshot \in Result \cup {None}
        BY DEF TypeOK
      <3>4. PICK q : /\ recs' = [recs EXCEPT ![artifacts] = q]
                     /\ q = [Current EXCEPT !.run = snapshot] \/ q = [Current EXCEPT !.finalized = TRUE]
        BY <2>2 DEF write_result, set_finalized, Set
      <3>5. q \in Recorder /\ SameBook(Current, q)
        BY <3>2, <3>3, <3>4, ResultIs, FinalIs
      <3> QED
        BY <3>2, <3>4, <3>5, ReplaceAccounts DEF SameBook
    <2>3. CASE capture_patch
      BY <2>3, PatchTouches, TouchesAccounts
    <2>4. CASE append_finalization
      <3>1. artifacts # 0
        BY <2>4, Actors DEF append_finalization
      <3>2. Current \in Recorder
        BY <3>1, CurrentIs
      <3>3. Current.of \in Sessions
        BY <3>2 DEF Recorder
      <3>4. Set(appendEvent(Current, "finalization", Current.of))
        BY <2>4 DEF append_finalization
      <3>5. Touches(Current.of, {})
        BY <3>1, <3>3, <3>4, AppendTouches DEF Kinds, Ends
      <3> QED
        BY <3>5, TouchesAccounts
    <2> QED
      BY <1>3, <2>1, <2>2, <2>3, <2>4 DEF Finalize
  <1>4. ASSUME NEW b \in BOOLEAN, quit(b) PROVE Accounts({})
    BY <1>1, <1>4 DEF quit, stores
  <1>5. ASSUME NEW b \in BOOLEAN, Kill(b) PROVE Accounts({})
    <2>1. CASE recs' # recs
      <3> DEFINE r == recs[artifacts]
                 q == [r EXCEPT !.tail = TRUE]
      <3>1. artifacts \in 1..Len(recs)
        BY <1>0, <1>5, <2>1 DEF Kill, TypeOK
      <3>2. r \in Recorder
        BY <1>0, <3>1, ElementOfSeq
      <3>3. recs' = [recs EXCEPT ![artifacts] = q]
        BY <1>0, <1>5, <2>1, <3>1 DEF Kill
      <3>4. q \in Recorder /\ SameBook(r, q)
        BY <3>2, TornIs
      <3> HIDE DEF q
      <3> QED
        BY <3>1, <3>3, <3>4, ReplaceAccounts DEF SameBook
    <2> QED
      BY <1>1, <2>1
  <1> QED
    BY <1>2, <1>3, <1>4, <1>5

\* The accounts when no call begins or ends.
LEMMA CallSame ==
  ASSUME TypeOK, Driven, CallAll, Accounts({}), UNCHANGED <<calls, artifacts, coding, asking>>,
         phase # "down", phase = "run" => phase' = "run" /\ active' = active
  PROVE  CallAll'
  <1>1. \A a \in 1..Len(recs) : recs'[a].of = recs[a].of /\ Accounted(recs'[a]) = Accounted(recs[a])
    BY DEF Accounts
  <1>2. coding # 0 => active' = active
    BY DEF Driven
  <1>3. Len(recs') = Len(recs)
    BY DEF Accounts
  <1> QED
    BY <1>1, <1>2, <1>3 DEF CallAll

\* A killed process takes no step.
LEMMA NotDown ==
  ASSUME Driven, Next
  PROVE  phase # "down"
  <1> SUFFICES ASSUME phase = "down" PROVE FALSE
    OBVIOUS
  <1>1. fin = "no" /\ ~Running /\ ~Room
    BY DEF Driven, Running, Room
  <1>2. CASE Process
    BY <1>2 DEF Process, factory, session_shutdown, session_start, quit, Kill
  <1>3. CASE Writes
    BY <1>1, <1>3 DEF Writes, write, write_fails
  <1>4. CASE Extension
    BY <1>4 DEF Extension, hook, tool_refused, session_compact_failed, before_provider_request, stopForLimit, message_refused, message_end
  <1>5. CASE Finalize
    BY <1>1, <1>5 DEF Finalize, close_flushed, capture_patch, summarize, append_finalization,
                      write_result, set_finalized, finalize_throws, dispose
  <1>6. ASSUME NEW s \in Sessions, Handler(s) PROVE FALSE
    BY <1>1, <1>6 DEF Handler, input_refused, input_routed, input_fixed, store_write, input_fails,
                      stray_timer, classifier_success, classifier_error, input_persisted
  <1> QED
    BY <1>2, <1>3, <1>4, <1>5, <1>6 DEF Next

\* A call is dispatched: it is the one under way from then on.
LEMMA CallBegins ==
  ASSUME TypeOK, Driven, CallAll, NEW s \in Sessions, artifacts # 0, active = s, Dispatch(s),
         Accounts({}), UNCHANGED <<artifacts, phase, active>>, phase = "run",
         \/ asking[s] = 0 /\ asking' = [asking EXCEPT ![s] = Len(calls')] /\ coding' = coding
         \/ coding = 0 /\ coding' = Len(calls') /\ asking' = asking
  PROVE  CallAll'
  <1> DEFINE n == Len(calls)
  <1>1. /\ Len(calls') = n + 1 /\ calls'[n + 1] = [of |-> s, at |-> artifacts]
        /\ \A c \in 1..n : calls'[c] = calls[c]
    BY DispatchTyped
  <1>2. n \in Nat /\ coding \in Nat /\ asking \in [Sessions -> Nat] /\ artifacts \in 1..Len(recs)
    BY DEF TypeOK
  <1>3. coding <= n /\ \A t \in Sessions : asking[t] <= n
    BY DEF Driven
  <1> HIDE DEF n
  <1>4. /\ Len(recs') = Len(recs)
        /\ \A a \in 1..Len(recs) : recs'[a].of = recs[a].of /\ Accounted(recs'[a]) = Accounted(recs[a])
    BY DEF Accounts
  <1>5. \A a \in 1..Len(recs) : \A c \in Accounted(recs[a]) \ {0} :
          c \in 1..n /\ calls[c].of = recs[a].of
    BY DEF CallAll, n
  <1>6. \A a \in 1..Len(recs') : \A c \in Accounted(recs'[a]) \ {0} :
          c \in 1..Len(calls') /\ calls'[c].of = recs'[a].of
    <2> TAKE a \in 1..Len(recs')
    <2> TAKE c \in Accounted(recs'[a]) \ {0}
    <2>1. a \in 1..Len(recs) /\ c \in Accounted(recs[a]) \ {0} /\ recs'[a].of = recs[a].of
      BY <1>4
    <2>2. c \in 1..n /\ calls[c].of = recs[a].of
      BY <1>5, <2>1
    <2> QED
      BY <1>1, <1>2, <2>1, <2>2
  <1>7. coding' # 0 => calls'[coding'] = [of |-> active', at |-> artifacts']
    BY <1>1, <1>2, <1>3 DEF CallAll
  <1>8. \A t \in Sessions : asking'[t] # 0 => calls'[asking'[t]] = [of |-> t, at |-> artifacts']
    BY <1>1, <1>2, <1>3 DEF CallAll
  <1>9. \A c \in 1..n : calls[c].at \in 1..Len(recs) /\
          (c \in Accounted(recs[calls[c].at]) \/ c \in {coding, asking[s]})
    BY DEF CallAll, n
  <1>10. ASSUME NEW c \in 1..Len(calls')
         PROVE  /\ calls'[c].at \in 1..Len(recs')
                /\ c \in Accounted(recs'[calls'[c].at]) \/ c \in {coding', asking'[s]}
    <2>1. CASE c \in 1..n
      <3>1. calls'[c] = calls[c] /\ calls[c].at \in 1..Len(recs)
        BY <1>1, <1>9, <2>1
      <3>2. CASE c \in Accounted(recs[calls[c].at])
        BY <1>4, <3>1, <3>2
      <3>3. CASE c \in {coding, asking[s]}
        BY <1>2, <1>4, <3>1, <3>3
      <3> QED
        BY <1>9, <2>1, <3>2, <3>3
    <2>2. CASE c = n + 1
      BY <1>1, <1>2, <1>4, <2>2
    <2> QED
      BY <1>1, <1>2, <2>1, <2>2
  <1> QED
    BY <1>6, <1>7, <1>8, <1>10 DEF CallAll

\* The usage of the call under way is recorded at the attempt it was dispatched under;
\* if none is, the one that never was dispatched.
LEMMA CallEnds ==
  ASSUME TypeOK, Driven, CallAll, NEW s \in Sessions, artifacts # 0, active = s, Current.of = s,
         NEW d \in Accountable, Accounts({d}), UNCHANGED <<calls, artifacts, phase, active>>,
         phase = "run",
         \/ d = asking[s] /\ asking' = [asking EXCEPT ![s] = 0] /\ coding' = coding
         \/ d = coding /\ coding' = 0 /\ asking' = asking
  PROVE  CallAll'
  <1> DEFINE n == Len(calls)
  <1>1. n \in Nat /\ coding \in Nat /\ asking \in [Sessions -> Nat] /\ artifacts \in 1..Len(recs)
    BY DEF TypeOK
  <1>2. d # 0 => d \in 1..n /\ calls[d] = [of |-> s, at |-> artifacts]
    BY <1>1 DEF CallAll, Driven
  <1> HIDE DEF n
  <1>3. /\ Len(recs') = Len(recs)
        /\ \A a \in 1..Len(recs) : recs'[a].of = recs[a].of
        /\ \A a \in 1..Len(recs) : a # artifacts => Accounted(recs'[a]) = Accounted(recs[a])
        /\ Accounted(recs'[artifacts]) = Accounted(recs[artifacts]) \cup {d}
    BY <1>1 DEF Accounts
  <1>4. \A a \in 1..Len(recs') : \A c \in Accounted(recs'[a]) \ {0} :
          c \in 1..Len(calls') /\ calls'[c].of = recs'[a].of
    <2> TAKE a \in 1..Len(recs')
    <2> TAKE c \in Accounted(recs'[a]) \ {0}
    <2>1. CASE c \in Accounted(recs[a])
      BY <1>3, <2>1 DEF CallAll
    <2>2. CASE c \notin Accounted(recs[a])
      <3>1. a = artifacts /\ c = d
        BY <1>3, <2>2
      <3> QED
        BY <1>1, <1>2, <1>3, <3>1 DEF Current, n
    <2> QED
      BY <2>1, <2>2
  <1>5. coding' # 0 => calls'[coding'] = [of |-> active', at |-> artifacts']
    BY DEF CallAll
  <1>6. \A t \in Sessions : asking'[t] # 0 => calls'[asking'[t]] = [of |-> t, at |-> artifacts']
    BY <1>1 DEF CallAll
  <1>7. ASSUME NEW c \in 1..Len(calls')
        PROVE  /\ calls'[c].at \in 1..Len(recs')
               /\ c \in Accounted(recs'[calls'[c].at]) \/ c \in {coding', asking'[s]}
    <2>1. /\ calls[c].at \in 1..Len(recs)
          /\ c \in Accounted(recs[calls[c].at]) \/ c \in {coding, asking[s]}
      BY DEF CallAll
    <2>2. CASE c \in Accounted(recs[calls[c].at])
      BY <1>3, <2>1, <2>2
    <2>3. CASE c = d
      <3>1. calls'[c].at = artifacts
        BY <1>2, <2>3
      <3>2. c \in Accounted(recs'[artifacts])
        BY <1>3, <2>3
      <3> QED
        BY <1>1, <1>3, <3>1, <3>2
    <2>4. CASE c \in {coding, asking[s]} /\ c # d
      BY <1>1, <1>3, <2>1, <2>4
    <2> QED
      BY <2>1, <2>2, <2>3, <2>4
  <1> QED
    BY <1>4, <1>5, <1>6, <1>7 DEF CallAll

\* The input handler of the attached session.
LEMMA CallHandler ==
  ASSUME TypeOK, Driven, OwnActors, CallAll, NEW s \in Sessions, Handler(s), phase # "down"
  PROVE  CallAll'
  <1>1. CASE input_refused(s) \/ input_fails(s) \/ \E b \in BOOLEAN : input_persisted(s, b)
    <2>1. Accounts({})
      BY <1>1, HandlerTouches, TouchesAccounts
    <2>2. UNCHANGED <<calls, artifacts, coding, asking, phase, active>>
      BY <1>1 DEF input_refused, input_fails, input_persisted, driver, sessions
    <2> QED
      BY <2>1, <2>2, CallSame
  <1>2. CASE input_fixed(s) \/ store_write(s)
    <2>1. UNCHANGED <<recs, calls, artifacts, coding, asking, phase, active>>
      BY <1>2 DEF input_fixed, store_write, stores, driver
    <2>2. Accounts({})
      BY <2>1 DEF Accounts
    <2> QED
      BY <2>1, <2>2, CallSame
  <1>3. CASE stray_timer(s)
    BY <1>3 DEF stray_timer, OwnActors
  <1>4. CASE input_routed(s)
    <2>1. Accounts({})
      BY <1>4, HandlerTouches, TouchesAccounts
    <2>2. /\ UNCHANGED <<artifacts, phase, active, coding>> /\ phase = "run" /\ active = s
          /\ artifacts # 0 /\ Dispatch(s) /\ asking' = [asking EXCEPT ![s] = Len(calls')]
      BY <1>4 DEF input_routed, driver, Room
    <2>3. asking[s] = 0
      BY <1>4 DEF input_routed, Driven
    <2> QED
      BY <2>1, <2>2, <2>3, CallBegins
  <1>5. ASSUME NEW b \in BOOLEAN, classifier_success(s, b) \/ classifier_error(s, b)
        PROVE  CallAll'
    <2>1. asking[s] \in Accountable /\ Accounts({asking[s]})
      BY <1>5, HandlerTouches, TouchesAccounts DEF Accountable
    <2>2. /\ UNCHANGED <<calls, artifacts, phase, active, coding>> /\ artifacts # 0
          /\ handler[s] = "asking" /\ asking' = [asking EXCEPT ![s] = 0]
      BY <1>5 DEF classifier_success, classifier_error, driver, Room
    <2>3. phase = "run" /\ active = s /\ Current.of = s
      BY <2>2 DEF OwnActors
    <2> QED
      BY <2>1, <2>2, <2>3, CallEnds
  <1> QED
    BY <1>1, <1>2, <1>3, <1>4, <1>5 DEF Handler

\* The extension in the attached session, and its start.
LEMMA CallExtension ==
  ASSUME TypeOK, Driven, OwnActors, CallAll, mishaps' = {}, phase # "down",
         Extension \/ \E b \in BOOLEAN : session_start(b)
  PROVE  CallAll'
  <1>1. CASE hook \/ tool_refused \/ stopForLimit \/ \E b \in BOOLEAN : session_start(b)
    <2>1. Accounts({})
      BY <1>1, ExtensionTouches, SessionStartTouches, TouchesAccounts
    <2>2. UNCHANGED <<calls, artifacts, coding, asking, active>>
      BY <1>1 DEF hook, tool_refused, stopForLimit, session_start, driver, sessions
    <2>3. phase' = "run"
      BY <1>1 DEF hook, tool_refused, stopForLimit, session_start, driver
    <2> QED
      BY <2>1, <2>2, <2>3, CallSame
  <1>2. CASE before_provider_request
    <2>1. Accounts({})
      BY <1>2, ExtensionTouches, TouchesAccounts
    <2>2. /\ UNCHANGED <<artifacts, phase, active, asking>> /\ phase = "run"
          /\ artifacts # 0 /\ Dispatch(active) /\ coding = 0 /\ coding' = Len(calls')
      BY <1>2 DEF before_provider_request, driver, Room
    <2>3. active \in Sessions
      BY <2>2, Actors
    <2> QED
      BY <2>1, <2>2, <2>3, CallBegins
  <1>3. CASE session_compact_failed \/ \E b, m \in BOOLEAN : message_end(b, m)
    <2>1. coding \in Accountable /\ Accounts({coding})
      <3>1. Touches(active, {coding})
        BY <1>3, ExtensionTouches
      <3> QED
        BY <3>1, TouchesAccounts DEF TypeOK, Accountable, Calls
    <2>2. /\ UNCHANGED <<calls, artifacts, phase, active, asking>> /\ phase = "run" /\ coding' = 0
      BY <1>3 DEF message_end, session_compact_failed, driver
    <2>3. active \in Sessions /\ artifacts # 0 /\ Current.of = active
      BY <2>2, Actors DEF OwnActors
    <2> QED
      BY <2>1, <2>2, <2>3, CallEnds
  <1>4. ASSUME NEW b \in BOOLEAN, message_refused(b) PROVE CallAll'
    <2>1. Accounts({})
      BY <1>4, ExtensionTouches, TouchesAccounts
    <2>2. UNCHANGED <<calls, artifacts, phase, active, asking>> /\ coding' = 0 /\ coding = 0
      BY <1>4 DEF message_refused, driver
    <2> QED
      BY <2>1, <2>2, CallSame
  <1> QED
    BY <1>1, <1>2, <1>3, <1>4 DEF Extension

\* No call is under way when a session is left that is not cut off ...
LEMMA CallLeaves ==
  ASSUME TypeOK, Driven, OwnActors, CallAll, mishaps' = {},
         session_shutdown \/ \E b \in BOOLEAN : quit(b)
  PROVE  CallAll'
  <1>1. /\ phase = "run" /\ UNCHANGED <<calls, artifacts, asking>> /\ ~Busy(active) /\ coding' = 0
    BY DEF session_shutdown, quit, stores
  <1>2. active \in Sessions /\ handler[active] = "idle" /\ coding = 0 /\ asking[active] = 0
    BY <1>1, Actors DEF Busy, Driven
  <1>3. Accounts({})
    BY AccountsKept, ExtensionTouches, TouchesAccounts
  <1>4. \A c \in 1..Len(calls) :
          calls[c].at \in 1..Len(recs) /\ c \in Accounted(recs[calls[c].at])
    BY <1>1, <1>2 DEF CallAll
  <1>5. /\ Len(recs') = Len(recs)
        /\ \A a \in 1..Len(recs) : recs'[a].of = recs[a].of /\ Accounted(recs'[a]) = Accounted(recs[a])
    BY <1>3 DEF Accounts
  <1> QED
    BY <1>1, <1>4, <1>5 DEF CallAll

\* ... nor when the next one is opened.
LEMMA CallFactory ==
  ASSUME TypeOK, Driven, OwnActors, CallAll, NEW s \in Sessions, factory(s)
  PROVE  CallAll'
  <1>1. phase = "switch" /\ UNCHANGED <<calls, coding, asking, handler>>
    BY DEF factory, sessions
  <1>2. coding = 0 /\ \A t \in Sessions : handler[t] = "idle" /\ asking[t] = 0
    BY <1>1 DEF Driven, OwnActors
  <1>3. \A c \in 1..Len(calls) :
          calls[c].at \in 1..Len(recs) /\ c \in Accounted(recs[calls[c].at])
    BY <1>1 DEF CallAll
  <1>4. CASE recs' = recs
    BY <1>1, <1>2, <1>3, <1>4 DEF CallAll
  <1>5. CASE recs' # recs
    <2> DEFINE q == NewRecorder(s)
    <2>1. recs' = Append(recs, q)
      BY <1>5 DEF factory
    <2>2. q \in Recorder /\ Accounted(q) = {}
      BY NewIs
    <2> HIDE DEF q
    <2>3. /\ Len(recs') = Len(recs) + 1 /\ recs'[Len(recs) + 1] = q /\ Len(recs) \in Nat
          /\ \A a \in 1..Len(recs) : recs'[a] = recs[a]
      BY <2>1, <2>2, AppendProperties DEF TypeOK
    <2>4. \A a \in 1..Len(recs') : a \in 1..Len(recs) \/ a = Len(recs) + 1
      BY <2>3
    <2>5. \A a \in 1..Len(recs') : \A c \in Accounted(recs'[a]) \ {0} :
            c \in 1..Len(calls') /\ calls'[c].of = recs'[a].of
      BY <1>1, <2>2, <2>3, <2>4 DEF CallAll
    <2>6. \A c \in 1..Len(calls') :
            calls'[c].at \in 1..Len(recs') /\ c \in Accounted(recs'[calls'[c].at])
      BY <1>1, <1>3, <2>3
    <2> QED
      BY <1>1, <1>2, <2>5, <2>6 DEF CallAll
  <1> QED
    BY <1>4, <1>5

\* A call that a killed process had under way belongs to an attempt without a result.
LEMMA CallKilled ==
  ASSUME TypeOK, Driven, Finalized, OwnActors, CallAll, NEW b \in BOOLEAN, Kill(b)
  PROVE  CallAll'
  <1>1. /\ phase # "down" /\ phase' = "down" /\ UNCHANGED <<calls, artifacts>> /\ coding' = 0
        /\ \A t \in Sessions : asking'[t] = 0
    BY DEF Kill
  <1>2. Accounts({})
    BY AccountsKept
  <1>3. /\ Len(recs') = Len(recs)
        /\ \A a \in 1..Len(recs) : recs'[a].of = recs[a].of /\ Accounted(recs'[a]) = Accounted(recs[a])
    BY <1>2 DEF Accounts
  <1>4. ASSUME NEW c \in 1..Len(calls)
        PROVE  /\ calls[c].at \in 1..Len(recs)
               /\ c \in Accounted(recs'[calls[c].at]) \/ recs'[calls[c].at].run = None
    <2>1. /\ calls[c].at \in 1..Len(recs)
          /\ c \in Accounted(recs[calls[c].at]) \/ (phase = "run" /\ c \in {coding, asking[active]})
      BY <1>1 DEF CallAll
    <2>2. CASE c \in Accounted(recs[calls[c].at])
      BY <1>3, <2>1, <2>2
    <2>3. CASE phase = "run" /\ c \in {coding, asking[active]}
      <3>1. active \in Sessions /\ artifacts # 0
        BY <2>3, Actors
      <3>2. calls[c].at = artifacts
        <4>1. c # 0
          BY DEF TypeOK
        <4>2. calls[c] = [of |-> active, at |-> artifacts]
          BY <2>3, <3>1, <4>1 DEF CallAll
        <4> QED
          BY <4>2
      <3>3. Current.run = None
        BY <2>3, NoResultYet DEF Driven
      <3>4. Next
        BY DEF Next, Process
      <3>5. ~write_result
        BY <2>3 DEF write_result, Driven
      <3>6. Current'.run = Current.run
        BY <1>1, <3>1, <3>4, <3>5, CurrentKept
      <3> QED
        BY <1>1, <2>1, <3>2, <3>3, <3>6 DEF Current
    <2> QED
      BY <2>1, <2>2, <2>3
  <1> QED
    BY <1>1, <1>3, <1>4 DEF CallAll

LEMMA CallingStep ==
  ASSUME TypeOK, Driven, Finalized, Own, Calling, [Next]_vars
  PROVE  Calling'
  <1> SUFFICES ASSUME mishaps' = {} PROVE CallAll'
    BY DEF Calling
  <1>1. OwnActors /\ CallAll
    BY MishapsGrow DEF Own, Calling
  <1>2. CASE UNCHANGED vars
    BY <1>1, <1>2 DEF vars, stores, driver, sessions, CallAll
  <1>3. CASE Next
    <2>1. phase # "down"
      BY <1>3, NotDown
    <2>2. CASE Process
      BY <1>1, <2>1, <2>2, CallExtension, CallLeaves, CallFactory, CallKilled DEF Process
    <2>3. CASE Writes \/ Finalize
      <3>1. Accounts({})
        BY <2>3, AccountsKept
      <3>2. CASE Writes
        <4>1. UNCHANGED <<calls, artifacts, coding, asking, phase, active>>
          BY <3>2 DEF Writes, write, write_fails, sessions, driver
        <4> QED
          BY <1>1, <2>1, <3>1, <4>1, CallSame
      <3>3. CASE Finalize
        <4>1. UNCHANGED <<calls, artifacts, coding, asking>>
          BY <3>3 DEF Finalize, close_flushed, capture_patch, summarize, append_finalization,
                      write_result, set_finalized, finalize_throws, dispose, stores, sessions
        <4>2. phase # "run"
          BY <3>3 DEF Finalize, close_flushed, capture_patch, summarize, append_finalization,
                      write_result, set_finalized, finalize_throws, dispose, Driven
        <4> QED
          BY <1>1, <2>1, <3>1, <4>1, <4>2, CallSame
      <3> QED
        BY <2>3, <3>2, <3>3
    <2>4. CASE Extension
      BY <1>1, <2>1, <2>4, CallExtension
    <2>5. ASSUME NEW s \in Sessions, Handler(s) PROVE CallAll'
      BY <1>1, <2>1, <2>5, CallHandler
    <2> QED
      BY <1>3, <2>2, <2>3, <2>4, <2>5 DEF Next
  <1> QED
    BY <1>2, <1>3

-----------------------------------------------------------------------------
(* The theorems. *)

IInv ==
  TypeOK /\ Driven /\ AllSound /\ Finalized /\ Registered /\ Backed /\ Own /\ Calling

LEMMA InitInv ==
  ASSUME Init
  PROVE  IInv
  <1>0. /\ recs = <<>> /\ Len(recs) = 0 /\ recs \in Seq(Recorder) /\ 1..Len(recs) = {}
        /\ ids = <<>> /\ Len(ids) = 0 /\ ids \in Seq(RunId)
        /\ calls = <<>> /\ Len(calls) = 0 /\ 1..Len(calls) = {}
        /\ calls \in Seq([of : Sessions, at : Attempts])
    BY DEF Init
  <1>1. TypeOK
    <2>1. 0 \in 0..Len(recs) /\ 0 \in 0..MaxCalls /\ Len(recs) <= MaxAttempts /\ Len(calls) <= MaxCalls
      BY <1>0, ArtifactsAssumption
    <2> QED
      BY <1>0, <2>1 DEF Init, TypeOK, Phases, FinStates, HandlerStates
  <1>2. Driven
    BY <1>0 DEF Init, Driven
  <1>3. AllSound /\ Finalized /\ Registered /\ Backed
    BY <1>0 DEF Init, AllSound, Finalized, Registered, Backed
  <1>4. OwnActors /\ OwnSummary /\ OwnBooks /\ OwnEnd
    BY <1>0 DEF Init, OwnActors, OwnSummary, OwnBooks, OwnEnd
  <1>5. CallAll
    BY <1>0 DEF Init, CallAll
  <1> QED
    BY <1>1, <1>2, <1>3, <1>4, <1>5 DEF IInv, Own, Calling

LEMMA Inductive == Spec => []IInv
  <1>1. Init => IInv
    BY InitInv
  <1>2. IInv /\ [Next]_vars => IInv'
    BY TypeStep, DrivenStep, SoundStep, FinalizedStep, RegisteredStep, BackedStep, OwnStep,
       CallingStep DEF IInv
  <1> QED
    BY <1>1, <1>2, PTL DEF Spec

\* The log is the first part of the events.
LEMMA LogIsFirst ==
  ASSUME NEW r \in Recorder
  PROVE  \A i \in DOMAIN r.log : i \in 1..Size(r) /\ Ev(r, i) = r.log[i]
  <1> DEFINE l == r.log
             x == r.queue
  <1>1. l \in Seq(Event) /\ x \in Seq(Event) /\ Size(r) = Len(l) + Len(x)
    BY DEF Recorder, Size
  <1>2. \A i \in 1..Len(l) : Ev(r, i) = l[i]
    BY EvType
  <1> HIDE DEF l, x
  <1>3. DOMAIN l = 1..Len(l) /\ Len(l) \in Nat /\ Len(x) \in Nat
    BY <1>1
  <1> QED
    BY <1>1, <1>2, <1>3 DEF l

\* Every variable keeps its type: attempts never outnumber their bound, a current
\* recorder exists, and the calls in flight are calls that were dispatched.
THEOREM TypeCorrect == Spec => []TypeOK
  <1>1. IInv => TypeOK
    BY DEF IInv
  <1> QED
    BY <1>1, Inductive, PTL

\* Whatever write fails and whenever the process is killed, the log that readAttempt reads
\* is numbered from 1 without a gap, unless a payload was refused after its number had been
\* taken; the order of the numbers survives that too.
THEOREM LogIsReadable == Spec => []LogReadable
  <1>1. IInv => LogReadable
    <2> SUFFICES ASSUME IInv, NEW a \in DOMAIN recs
                 PROVE  /\ ~recs[a].skipped => Readable(recs[a].log)
                        /\ \A i, j \in DOMAIN recs[a].log :
                             i < j => recs[a].log[i].seq < recs[a].log[j].seq
      BY DEF LogReadable
    <2> DEFINE r == recs[a]
    <2>1. recs \in Seq(Recorder) /\ a \in 1..Len(recs)
      BY DEF IInv, TypeOK
    <2>2. r \in Recorder
      BY <2>1, ElementOfSeq
    <2>3. Ordered(r)
      BY <2>1 DEF IInv, AllSound, Sound
    <2> HIDE DEF r
    <2>4. \A i \in DOMAIN r.log : i \in 1..Size(r) /\ Ev(r, i) = r.log[i]
      BY <2>2, LogIsFirst
    <2>5. ~r.skipped => Readable(r.log)
      BY <2>3, <2>4 DEF Ordered, Readable
    <2>6. \A i, j \in DOMAIN r.log : i < j => r.log[i].seq < r.log[j].seq
      BY <2>3, <2>4 DEF Ordered
    <2> QED
      BY <2>5, <2>6 DEF r
  <1> QED
    BY <1>1, Inductive, PTL

\* run.json never claims more than the log holds, in any order of writes, failures, late
\* events and kills.
THEOREM ResultsAreBacked == Spec => []ResultIsBacked
  <1>1. IInv => ResultIsBacked
    <2> SUFFICES ASSUME IInv, NEW a \in DOMAIN recs, recs[a].run # None
                 PROVE  \E k \in Logged(recs[a], {"finalization"}) :
                          /\ recs[a].run.decision # None =>
                               \E i \in Logged(recs[a], {"decision"}) :
                                 i < k /\ recs[a].log[i].of = recs[a].run.decision
                          /\ Cardinality({i \in Logged(recs[a], Ends) : i < k})
                               >= Cardinality(recs[a].run.calls)
      BY DEF ResultIsBacked
    <2> DEFINE r == recs[a]
    <2>1. recs \in Seq(Recorder) /\ a \in 1..Len(recs)
      BY DEF IInv, TypeOK
    <2>2. r \in Recorder
      BY <2>1, ElementOfSeq
    <2>3. PICK k \in 1..Len(r.log) : r.log[k].kind = "finalization" /\ Backs(r, r.run, k - 1)
      BY <2>1 DEF IInv, Backed
    <2>4. /\ Len(r.log) \in Nat /\ DOMAIN r.log = 1..Len(r.log)
          /\ \A i \in 1..Len(r.log) : Ev(r, i) = r.log[i]
      <3>1. r.log \in Seq(Event)
        BY <2>2 DEF Recorder
      <3> QED
        BY <2>2, <3>1, EvType
    <2> HIDE DEF r
    <2>5. k \in Logged(r, {"finalization"})
      BY <2>3, <2>4 DEF Logged
    <2>6. \A i \in 1..(k - 1) : i \in DOMAIN r.log /\ i < k /\ Ev(r, i) = r.log[i]
      BY <2>4
    <2>7. r.run.decision # None =>
            \E i \in Logged(r, {"decision"}) : i < k /\ r.log[i].of = r.run.decision
      BY <2>3, <2>6 DEF Backs, HasDecision, Logged
    <2>8. Cardinality({i \in Logged(r, Ends) : i < k}) >= Cardinality(r.run.calls)
      <3> DEFINE E == {i \in Logged(r, Ends) : i < k}
      <3>1. EndsTo(r, k - 1) \subseteq E
        BY <2>6 DEF EndsTo, Logged
      <3>2. E \subseteq 1..Len(r.log)
        BY <2>4 DEF Logged
      <3> HIDE DEF E
      <3>3. IsFiniteSet(E)
        <4>1. IsFiniteSet(1..Len(r.log))
          BY <2>4, FS_Interval
        <4> QED
          BY <3>2, <4>1, FS_Subset
      <3>4. /\ Cardinality(EndsTo(r, k - 1)) <= Cardinality(E)
            /\ Cardinality(E) \in Nat /\ Cardinality(EndsTo(r, k - 1)) \in Nat
        BY <3>1, <3>3, FS_Subset, FS_CardinalityType
      <3>5. Cardinality(EndsTo(r, k - 1)) >= Cardinality(r.run.calls)
        BY <2>3 DEF Backs
      <3>6. Cardinality(r.run.calls) \in Nat
        <4>1. r.run \in Result
          BY <2>2 DEF Recorder, r
        <4>2. r.run.calls \subseteq 0..MaxCalls
          BY <4>1, ArtifactsAssumption DEF Result, Calls, Accountable
        <4>3. IsFiniteSet(0..MaxCalls)
          BY ArtifactsAssumption, FS_Interval
        <4> QED
          BY <4>2, <4>3, FS_Subset, FS_CardinalityType
      <3> QED
        BY <3>4, <3>5, <3>6 DEF E
    <2> QED
      BY <2>5, <2>7, <2>8 DEF r
  <1> QED
    BY <1>1, Inductive, PTL

\* As long as no work was cut off by a shutdown, the log and the result of an attempt speak
\* of its own session only, a run with an error in its log, other than a failed compaction,
\* is not called completed, and one with a failed compaction does not know its cost.
THEOREM EvidenceIsItsOwn == Spec => []EvidenceIsOwn
  <1>1. IInv => EvidenceIsOwn
    <2> SUFFICES ASSUME IInv, "cut" \notin mishaps, NEW a \in DOMAIN recs
                 PROVE  /\ \A i \in DOMAIN recs[a].log : recs[a].log[i].of = recs[a].of
                        /\ recs[a].run # None =>
                             /\ recs[a].run.decision \in {None, recs[a].of}
                             /\ recs[a].run.status = "completed" => Logged(recs[a], {"error"}) = {}
                             /\ recs[a].run.known => Logged(recs[a], {"compaction-failed"}) = {}
      BY DEF EvidenceIsOwn
    <2> DEFINE r == recs[a]
    <2>1. recs \in Seq(Recorder) /\ a \in 1..Len(recs)
      BY DEF IInv, TypeOK
    <2>2. r \in Recorder
      BY <2>1, ElementOfSeq
    <2>3. OwnEvents(r) /\ Settles(r)
      BY <2>1 DEF IInv, Own, OwnBooks
    <2> HIDE DEF r
    <2>4. \A i \in DOMAIN r.log : i \in 1..Size(r) /\ Ev(r, i) = r.log[i]
      BY <2>2, LogIsFirst
    <2>5. ASSUME r.run # None
          PROVE  /\ r.run.decision = r.decision /\ r.run.status = r.status
                 /\ r.run.known = (r.missing = {})
      BY <2>3, <2>5 DEF Settles, FinalizeInput, CostKnown
    <2>6. \A i \in DOMAIN r.log : r.log[i].of = r.of /\ r.log[i].kind \notin Excluded(r)
      BY <2>3, <2>4 DEF OwnEvents
    <2>7. r.decision \in {None, r.of}
      BY <2>3 DEF OwnEvents
    <2>8. r.status = "completed" => Logged(r, {"error"}) = {}
      BY <2>6 DEF Excluded, Logged
    <2>9. r.missing = {} => Logged(r, {"compaction-failed"}) = {}
      BY <2>6 DEF Excluded, Logged
    <2> QED
      BY <2>5, <2>6, <2>7, <2>8, <2>9 DEF r
  <1> QED
    BY <1>1, Inductive, PTL

\* As long as nothing was cut off or refused, an attempt with a result accounts for its own
\* calls only, and for every call dispatched under it.
THEOREM AccountsAreOwn == Spec => []AccountingIsOwn
  <1>1. IInv => AccountingIsOwn
    <2> SUFFICES ASSUME IInv, mishaps = {}, NEW a \in DOMAIN recs, recs[a].run # None
                 PROVE  /\ \A c \in recs[a].run.calls \ {0} : calls[c].of = recs[a].of
                        /\ \A c \in DOMAIN calls : calls[c].at = a => c \in recs[a].run.calls
      BY DEF AccountingIsOwn, OwnAccounting
    <2>0. TypeOK /\ Driven /\ Finalized /\ CallAll /\ OwnBooks
      BY DEF IInv, Calling, Own
    <2>1. a \in 1..Len(recs) /\ DOMAIN calls = 1..Len(calls)
      BY <2>0 DEF TypeOK
    <2>2. recs[a].run.calls = Accounted(recs[a])
      <3>1. recs[a].run = FinalizeInput(recs[a])
        BY <2>0, <2>1 DEF OwnBooks, Settles
      <3> QED
        BY <3>1 DEF FinalizeInput, Accounted
    <2>3. \A c \in Accounted(recs[a]) \ {0} : calls[c].of = recs[a].of
      BY <2>0, <2>1 DEF CallAll
    <2>4. ASSUME NEW c \in 1..Len(calls), calls[c].at = a PROVE c \in Accounted(recs[a])
      <3>1. \/ c \in Accounted(recs[a])
            \/ phase = "run" /\ c \in {coding, asking[active]}
        BY <2>0, <2>4 DEF CallAll
      <3>2. CASE phase = "run" /\ c \in {coding, asking[active]}
        <4>1. active \in Sessions /\ c # 0
          BY <2>0, <3>2, Actors
        <4>2. calls[c] = [of |-> active, at |-> artifacts]
          BY <2>0, <3>2, <4>1 DEF CallAll
        <4>3. a = artifacts
          BY <2>4, <4>2
        <4>4. Current.run = None
          BY <2>0, <3>2, NoResultYet DEF Driven
        <4> QED
          BY <4>3, <4>4 DEF Current
      <3> QED
        BY <3>1, <3>2
    <2> QED
      BY <2>1, <2>2, <2>3, <2>4
  <1> QED
    BY <1>1, Inductive, PTL

\* A process that reports success has the result of its last attempt, and unless work was cut
\* off, none of its attempts has lost an event of its session's work.
THEOREM SuccessMeansWritten == Spec => []SuccessIsWritten
  <1>1. IInv => SuccessIsWritten
    <2> SUFFICES ASSUME IInv, phase = "ok", "cut" \notin mishaps
                 PROVE  /\ Current.run # None
                        /\ \A a \in DOMAIN recs : recs[a].lost \subseteq Awaited
      BY DEF SuccessIsWritten
    <2>1. DOMAIN recs = 1..Len(recs)
      BY DEF IInv, TypeOK
    <2>2. Current.run # None
      BY DEF IInv, Finalized
    <2>3. \A a \in 1..Len(recs) : recs[a].lost \subseteq Awaited
      BY DEF IInv, Own, OwnEnd
    <2> QED
      BY <2>1, <2>2, <2>3
  <1> QED
    BY <1>1, Inductive, PTL

-----------------------------------------------------------------------------
(* What a finalization waits for. *)

Waiting == {"closing", "flushing", "draining", "finalizing"}

\* An event with the marked position has been queued, unless the queue is rejected.
Marked == fin \in Waiting => Current.broken \/ mark <= Size(Current)

\* A mark is set when its event is queued, and stays until the await is over.
LEMMA MarkKept ==
  ASSUME Driven, [Next]_vars, fin' \in Waiting
  PROVE  \/ session_shutdown \/ capture_patch \/ summarize \/ append_finalization
         \/ UNCHANGED <<fin, mark, artifacts>>
  <1>1. CASE UNCHANGED vars
    BY <1>1 DEF vars, stores, driver
  <1>2. CASE Process
    BY <1>2 DEF Process, factory, session_start, quit, Kill, Driven, Waiting
  <1>3. CASE Writes
    BY <1>3 DEF Writes, write, write_fails, driver
  <1>4. CASE Extension
    BY <1>4 DEF Extension, hook, tool_refused, session_compact_failed, before_provider_request, stopForLimit, message_refused,
                message_end, driver
  <1>5. CASE Finalize
    <2>1. CASE close_flushed \/ write_result \/ set_finalized \/ finalize_throws
      <3>1. fin' \in {"patching", "renamed", "no"}
        BY <2>1 DEF close_flushed, write_result, set_finalized, finalize_throws, Over
      <3> QED
        BY <3>1 DEF Waiting
    <2>2. CASE dispose
      BY <2>2 DEF dispose, stores
    <2> QED
      BY <1>5, <2>1, <2>2 DEF Finalize
  <1>6. ASSUME NEW s \in Sessions, Handler(s) PROVE UNCHANGED <<fin, mark, artifacts>>
    BY <1>6 DEF Handler, input_refused, input_routed, input_fixed, store_write, input_fails,
                stray_timer, classifier_success, classifier_error, input_persisted, driver, stores
  <1> QED
    BY <1>1, <1>2, <1>3, <1>4, <1>5, <1>6 DEF Next

\* The shutdown event takes the next position, unless its append is rejected.
LEMMA ShutdownMark ==
  ASSUME TypeOK, Driven, session_shutdown
  PROVE  /\ artifacts # 0 /\ artifacts' = artifacts
         /\ recs'[artifacts].broken \/ mark' = Size(recs'[artifacts])
  <1> DEFINE q == appendEvent(Current, "shutdown", active)
  <1>1. artifacts # 0 /\ active \in Sessions /\ ~Current.finalized
    BY Actors DEF session_shutdown, Driven
  <1>2. artifacts \in 1..Len(recs) /\ Current \in Recorder
    BY <1>1, CurrentIs
  <1>3. mark' = Size(Current) + 1 /\ recs' = [recs EXCEPT ![artifacts] = q] /\ artifacts' = artifacts
    BY DEF session_shutdown, Set, Size
  <1>4. "shutdown" \in Kinds
    BY DEF Kinds
  <1>5. /\ q \in Recorder /\ SameFiles(Current, q)
        /\ ~Current.broken => Queues(Current, q, "shutdown", active)
    BY <1>1, <1>2, <1>4, AppendIs
  <1>6. q.broken \/ Size(q) = Size(Current) + 1
    <2> DEFINE e == [seq |-> Current.seq + 1, kind |-> "shutdown", of |-> active]
    <2>1. e \in Event
      BY <1>1, <1>2, <1>4 DEF Event, Recorder
    <2> HIDE DEF q
    <2>2. ~Current.broken => q.log = Current.log /\ q.queue = Append(Current.queue, e)
      BY <1>5 DEF Queues, SameFiles
    <2> HIDE DEF e
    <2>3. ~Current.broken => Size(q) = Size(Current) + 1
      BY <1>2, <1>5, <2>1, <2>2, QueueGrows
    <2>4. q.broken = Current.broken
      BY <1>5 DEF SameFiles
    <2> QED
      BY <2>3, <2>4
  <1> HIDE DEF q
  <1>7. recs'[artifacts] = q
    BY <1>2, <1>3, <1>5, ReplaceOne
  <1> QED
    BY <1>1, <1>3, <1>6, <1>7

LEMMA MarkedStep ==
  ASSUME TypeOK, Driven, AllSound, Marked, [Next]_vars
  PROVE  Marked'
  <1> SUFFICES ASSUME fin' \in Waiting, ~Current'.broken PROVE mark' <= Size(Current')
    BY DEF Marked
  <1>1. CASE mark' = Size(Current') /\ artifacts' = artifacts /\ artifacts # 0
    <2>1. TypeOK'
      BY TypeStep
    <2>2. recs' \in Seq(Recorder) /\ artifacts' \in 1..Len(recs')
      BY <1>1, <2>1 DEF TypeOK
    <2>3. Current' \in Recorder
      BY <2>2, ElementOfSeq DEF Current
    <2>4. Size(Current') \in Nat
      BY <2>3, EvType
    <2> QED
      BY <1>1, <2>4
  <1>2. CASE session_shutdown
    BY <1>1, <1>2, ShutdownMark DEF Current
  <1>3. CASE capture_patch
    <2>1. artifacts # 0 /\ artifacts' = artifacts
      BY <1>3, Actors DEF capture_patch
    <2> QED
      BY <1>1, <1>3, <2>1, PatchTouches DEF Current
  <1>4. CASE summarize
    <2>1. artifacts # 0 /\ artifacts' = artifacts /\ recs' = recs /\ mark' = Size(Current)
      BY <1>4, Actors DEF summarize, stores
    <2> QED
      BY <1>1, <2>1 DEF Current, Size
  <1>5. CASE append_finalization
    <2>1. artifacts # 0 /\ artifacts' = artifacts
      BY <1>5, Actors DEF append_finalization
    <2> QED
      BY <1>1, <1>5, <2>1, FinalizationTouches DEF Current
  <1>6. CASE UNCHANGED <<fin, mark, artifacts>>
    <2>1. artifacts # 0
      BY <1>6, Actors DEF Waiting
    <2>2. Current \in Recorder /\ Grows(Current, Current')
      BY <1>6, <2>1, CurrentIs, CurrentKept
    <2>3. ~Current.broken /\ Size(Current) <= Size(Current') /\ Current' \in Recorder
      BY <2>2 DEF Grows, Later
    <2>4. Size(Current) \in Nat /\ Size(Current') \in Nat /\ mark \in Nat
      BY <2>2, <2>3, EvType DEF TypeOK
    <2>5. mark <= Size(Current)
      BY <1>6, <2>3 DEF Marked
    <2> QED
      BY <1>6, <2>3, <2>4, <2>5
  <1> QED
    BY <1>2, <1>3, <1>4, <1>5, <1>6, MarkKept

\* No shutdown and no finalization hangs on a write: what it awaits is made, rejected or
\* queued, for any number of sessions, late events and failures.
THEOREM FinalizationsProceed == Spec => []FinalizationProceeds
  <1>1. Init => Marked
    BY DEF Init, Marked, Waiting
  <1>2. IInv /\ Marked /\ [Next]_vars => Marked'
    BY MarkedStep DEF IInv
  <1>3. IInv /\ Marked => FinalizationProceeds
    <2> SUFFICES ASSUME IInv, Marked PROVE FinalizationProceeds
      OBVIOUS
    <2>1. fin # "no" => Running /\ artifacts # 0
      BY DEF IInv, Driven, Running
    <2>2. ASSUME fin \in Waiting PROVE Coming(Current, mark)
      BY <2>2 DEF Marked, Coming, Settled
    <2> QED
      BY <2>1, <2>2 DEF FinalizationProceeds, Waiting
  <1> QED
    BY <1>1, <1>2, <1>3, Inductive, PTL DEF Spec

-----------------------------------------------------------------------------
(* When a run ID is taken (RunIdIsFresh). *)

\* Only the first attempt of a process has a run ID without a session in it.
Names(cs, s, id) == id = <<None, 0>> \/ \E k \in 1..cs[s] : id = <<s, k>>

\* The run IDs of a session's attempts are numbered up to its count, and it has one on
\* record; a collision meets attempts of one session only.
Numbered ==
  /\ \A a \in 1..Len(recs) : Names(counts, recs[a].of, ids[a]) /\ runIds[recs[a].of] # None
  /\ phase = "collided" =>
       recs # <<>> /\ \A a, b \in 1..Len(recs) : recs[a].of = recs[b].of

LEMMA NumberedStep ==
  ASSUME TypeOK, Driven, Numbered, [Next]_vars
  PROVE  Numbered'
  <1>0. /\ recs \in Seq(Recorder) /\ Len(recs) \in Nat /\ ids \in Seq(RunId) /\ Len(ids) = Len(recs)
        /\ runIds \in [Sessions -> RunId \cup {None}] /\ counts \in [Sessions -> Nat]
    BY DEF TypeOK
  <1>1. Evolves
    BY Evolution
  <1>2. \A a \in 1..Len(recs) : recs'[a].of = recs[a].of /\ recs[a].of \in Sessions
    <2> TAKE a \in 1..Len(recs)
    <2>1. recs[a] \in Recorder
      BY <1>0, ElementOfSeq
    <2> QED
      BY <1>1, <2>1 DEF Evolves, Attempted, Grows, Recorder
  <1>3. ASSUME UNCHANGED <<artifacts, recorders, runIds, counts, ids>>, ~\E s \in Sessions : factory(s)
        PROVE  Numbered'
    <2>1. Len(recs') = Len(recs)
      BY <1>3, LengthKept
    <2>2. \A a \in 1..Len(recs') : Names(counts', recs'[a].of, ids'[a]) /\ runIds'[recs'[a].of] # None
      BY <1>2, <1>3, <2>1 DEF Numbered
    <2>3. phase' = "collided" => phase = "collided"
      <3>1. CASE UNCHANGED vars
        BY <3>1 DEF vars, driver
      <3>2. CASE Process
        BY <1>3, <3>2 DEF Process, session_shutdown, session_start, quit, Kill
      <3>3. CASE Writes
        BY <3>3 DEF Writes, write, write_fails, driver
      <3>4. CASE Extension
        BY <3>4 DEF Extension, hook, tool_refused, session_compact_failed, before_provider_request, stopForLimit, message_refused,
                    message_end, driver
      <3>5. CASE Finalize
        BY <3>5 DEF Finalize, close_flushed, capture_patch, summarize, append_finalization,
                    write_result, set_finalized, finalize_throws, dispose, Over
      <3>6. ASSUME NEW s \in Sessions, Handler(s) PROVE phase' = phase
        BY <3>6 DEF Handler, input_refused, input_routed, input_fixed, store_write, input_fails,
                stray_timer, classifier_success, classifier_error, input_persisted, driver
      <3> QED
        BY <3>1, <3>2, <3>3, <3>4, <3>5, <3>6 DEF Next
    <2>4. recs # <<>> <=> Len(recs) # 0
      BY <1>0
    <2>5. recs' # <<>> <=> Len(recs') # 0
      BY <1>1 DEF Evolves
    <2> QED
      BY <1>2, <2>1, <2>2, <2>3, <2>4, <2>5 DEF Numbered
  <1>4. ASSUME NEW s \in Sessions, factory(s) PROVE Numbered'
    <2>1. CASE reusable(s)
      BY <1>4, <2>1 DEF factory, Numbered
    <2>2. CASE ~reusable(s)
      <3> DEFINE left == [runIds EXCEPT ![s] = None]
                 id   == runIdForSession(s, left)
                 q    == NewRecorder(s)
      <3>1. /\ counts' = [counts EXCEPT ![s] = @ + 1] /\ runIds' = [left EXCEPT ![s] = id]
            /\ IF \E a \in DOMAIN ids : ids[a] = id
               THEN UNCHANGED <<recs, ids>>
               ELSE phase' = "starting" /\ recs' = Append(recs, q) /\ ids' = Append(ids, id)
        BY <1>4, <2>2 DEF factory
      <3>2. left \in [Sessions -> RunId \cup {None}] /\ left[s] = None
            /\ \A t \in Sessions \ {s} : left[t] = runIds[t]
        BY <1>0
      <3> HIDE DEF left
      <3>3. /\ id = <<None, 0>> /\ \A t \in Sessions \ {s} : runIds[t] = None
            \/ id = <<s, counts[s] + 1>>
        BY <3>2 DEF runIdForSession
      <3>4. id \in RunId /\ id # None
        BY <1>0, <3>3, NoneAssumption DEF RunId
      <3> HIDE DEF id
      <3>5. /\ counts'[s] = counts[s] + 1 /\ runIds'[s] = id
            /\ \A t \in Sessions \ {s} : counts'[t] = counts[t] /\ runIds'[t] = runIds[t]
        BY <1>0, <3>1, <3>2
      <3>6. \A t \in Sessions : \A i : Names(counts, t, i) => Names(counts', t, i)
        <4>1. \A t \in Sessions : counts[t] \in Nat /\ counts'[t] \in Nat /\ counts[t] <= counts'[t]
          BY <1>0, <3>5
        <4> QED
          BY <4>1 DEF Names
      <3>7. \A t \in Sessions : runIds[t] # None => runIds'[t] # None
        BY <3>4, <3>5
      <3>8. CASE \E a \in DOMAIN ids : ids[a] = id
        <4>1. PICK a \in 1..Len(recs) : ids[a] = id
          BY <1>0, <3>8
        <4>2. id # <<s, counts[s] + 1>>
          <5> SUFFICES ASSUME id = <<s, counts[s] + 1>> PROVE FALSE
            OBVIOUS
          <5>1. Names(counts, recs[a].of, id)
            BY <4>1 DEF Numbered
          <5>2. s # None /\ counts[s] \in Nat
            BY <1>0, NoneAssumption
          <5> QED
            BY <5>1, <5>2 DEF Names
        <4>3. \A t \in Sessions \ {s} : runIds[t] = None
          BY <3>3, <4>2
        <4>4. \A b \in 1..Len(recs) : recs[b].of = s
          BY <1>2, <4>3 DEF Numbered
        <4>5. recs' = recs /\ ids' = ids /\ recs # <<>>
          BY <1>0, <3>1, <3>8, <4>1
        <4> QED
          BY <1>2, <3>6, <3>7, <4>4, <4>5 DEF Numbered
      <3>9. CASE ~\E a \in DOMAIN ids : ids[a] = id
        <4>1. recs' = Append(recs, q) /\ ids' = Append(ids, id) /\ phase' = "starting"
          BY <3>1, <3>9
        <4>2. q \in Recorder /\ q.of = s
          BY NewIs
        <4> HIDE DEF q
        <4>3. /\ Len(recs') = Len(recs) + 1 /\ recs'[Len(recs) + 1] = q
              /\ ids'[Len(recs) + 1] = id
              /\ \A a \in 1..Len(recs) : recs'[a] = recs[a] /\ ids'[a] = ids[a]
          BY <1>0, <3>4, <4>1, <4>2, AppendProperties
        <4>4. Names(counts', s, id)
          <5>1. counts'[s] \in Nat /\ counts'[s] >= 1
            BY <1>0, <3>5
          <5>2. id = <<None, 0>> \/ id = <<s, counts'[s]>>
            BY <3>3, <3>5
          <5> QED
            BY <5>1, <5>2 DEF Names
        <4>5. \A a \in 1..Len(recs') : Names(counts', recs'[a].of, ids'[a]) /\ runIds'[recs'[a].of] # None
          <5> TAKE a \in 1..Len(recs')
          <5>1. CASE a = Len(recs) + 1
            BY <3>4, <3>5, <4>2, <4>3, <4>4, <5>1
          <5>2. CASE a \in 1..Len(recs)
            BY <1>2, <3>6, <3>7, <4>3, <5>2 DEF Numbered
          <5> QED
            BY <1>0, <4>3, <5>1, <5>2
        <4> QED
          BY <4>1, <4>5 DEF Numbered
      <3> QED
        BY <3>8, <3>9
    <2> QED
      BY <2>1, <2>2
  <1> QED
    BY <1>3, <1>4, StoresKept

\* A session is refused a recorder only if every attempt of the process so far is of one
\* session: once two sessions have attempts, run IDs stay fresh.
CollisionIsAlone ==
  phase = "collided" => recs # <<>> /\ \A a, b \in DOMAIN recs : recs[a].of = recs[b].of

\* For any number of sessions and attempts, the repetition of the first run ID is the only
\* way to a collision.
THEOREM CollisionsAreAlone == Spec => []CollisionIsAlone
  <1>1. Init => Numbered
    BY DEF Init, Numbered
  <1>2. IInv /\ Numbered /\ [Next]_vars => Numbered'
    BY NumberedStep DEF IInv
  <1>3. IInv /\ Numbered => CollisionIsAlone
    BY DEF IInv, TypeOK, Numbered, CollisionIsAlone
  <1> QED
    BY <1>1, <1>2, <1>3, Inductive, PTL DEF Spec
=============================================================================
