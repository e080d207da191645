------------------------- MODULE WriterLock_proofs --------------------------
(***************************************************************************)
(* Launchers that do not overlap on the writer lock exclude each other,    *)
(* for any number of them, either order of the release, and kills at any   *)
(* command.                                                                *)
(***************************************************************************)
EXTENDS WriterLock, TLAPS

Busy == Acquiring \cup Releasing

\* q writes, or is about to.
Holder(q) == q \in agents \/ pc[q] \in {"start_agent", "running"}

\* At most one launcher is at work on the lock.
OneBusy == \A p, q \in Launchers : pc[p] \in Busy /\ pc[q] \in Busy => p = q

\* The lock names its holder, whose guard shows that it lives.
HolderNamed ==
  \A q \in Launchers : Holder(q) =>
    /\ dir /\ invocation = q /\ container = q /\ q \in guards
    /\ pc[q] \in {"start_agent", "running", "signalled", "cleanup", "dead"}

\* What p has read of the lock is true of a holder, as long as there is one.
SeenHolder ==
  \A p, q \in Launchers : Holder(q) =>
    /\ pc[p] = "read_container" => seen[p].inv = q
    /\ pc[p] = "inspect_running" => seen[p].inv = q /\ seen[p].con = q
    /\ pc[p] = "inspect_label" =>
         seen[p].inv = q /\ seen[p].con = q /\ seen[p].up = "true"

\* The commands that change the lock meet no holder, and p has its guard.
NoHolder ==
  \A p \in Launchers :
    /\ pc[p] \in {"rm_invocation", "rm_container", "rmdir", "mkdir_again",
                  "write_invocation", "write_container", "unlink_invocation",
                  "unlink_container", "unlink_dir"}
         => \A q \in Launchers : ~Holder(q)
    /\ pc[p] \in Acquiring => p \in guards
    /\ pc[p] = "write_container" => invocation = p

LockInv == raced = "no" => OneBusy /\ HolderNamed /\ SeenHolder /\ NoHolder

IInv == TypeOK /\ LockInv

-----------------------------------------------------------------------------
(* The steps. *)

\* A step after which nothing has overlapped followed one like it, and leaves at
\* most one launcher at work.
LEMMA ApartStep ==
  ASSUME TypeOK, NEW p \in Launchers, NEW l, Goto(p, l), raced' = "no"
  PROVE  raced = "no" /\ OneBusy'
<1>1. raced = "no" /\ ~Overlap(Busy)
  BY DEF Goto, Busy
<1>2. QED
  BY <1>1 DEF Overlap, OneBusy

\* docker run of the guard puts a launcher to work on a lock it has not seen yet.
LEMMA run_guardInv ==
  ASSUME IInv, NEW p \in Launchers, run_guard(p)
  PROVE  IInv'
<1>1. TypeOK'
  BY DEF IInv, TypeOK, run_guard, Goto, files, Acquiring
<1>2. SUFFICES ASSUME raced' = "no"
               PROVE  HolderNamed' /\ SeenHolder' /\ NoHolder' /\ OneBusy'
  BY <1>1 DEF IInv, LockInv
<1>3. raced = "no" /\ OneBusy'
  BY <1>2, ApartStep DEF IInv, run_guard
<1>4. HolderNamed /\ SeenHolder /\ NoHolder /\ OneBusy /\ TypeOK
  BY <1>3 DEF IInv, LockInv
<1>5. HolderNamed'
  BY <1>3, <1>4 DEF HolderNamed, Holder, run_guard, Goto, files
<1>6. SeenHolder'
  BY <1>3, <1>4 DEF SeenHolder, Holder, run_guard, Goto
<1>7. NoHolder'
  BY <1>3, <1>4 DEF NoHolder, OneBusy, Busy, Acquiring, TypeOK, run_guard,
     Goto
<1>8. QED
  BY <1>3, <1>5, <1>6, <1>7

\* The first mkdir finds the lock taken, or takes one that nobody holds.
LEMMA mkdirInv ==
  ASSUME IInv, NEW p \in Launchers, mkdir(p)
  PROVE  IInv'
<1>1. TypeOK'
  BY DEF IInv, TypeOK, mkdir, Goto, Acquiring
<1>2. SUFFICES ASSUME raced' = "no"
               PROVE  HolderNamed' /\ SeenHolder' /\ NoHolder' /\ OneBusy'
  BY <1>1 DEF IInv, LockInv
<1>3. raced = "no" /\ OneBusy'
  BY <1>2, ApartStep DEF IInv, mkdir
<1>4. HolderNamed /\ SeenHolder /\ NoHolder /\ OneBusy /\ TypeOK
  BY <1>3 DEF IInv, LockInv
<1>5. HolderNamed'
  BY <1>3, <1>4 DEF HolderNamed, Holder, mkdir, Goto
<1>6. SeenHolder'
  BY <1>3, <1>4 DEF SeenHolder, OneBusy, Busy, Acquiring, mkdir, Goto
<1>7. NoHolder'
  BY <1>3, <1>4 DEF HolderNamed, NoHolder, Acquiring, Holder, mkdir, Goto
<1>8. QED
  BY <1>3, <1>5, <1>6, <1>7

\* What is read from the invocation file names the holder, if there is one.
LEMMA read_invocationInv ==
  ASSUME IInv, NEW p \in Launchers, read_invocation(p)
  PROVE  IInv'
<1>1. TypeOK'
  BY DEF IInv, TypeOK, read_invocation, Goto, files, Acquiring
<1>2. SUFFICES ASSUME raced' = "no"
               PROVE  HolderNamed' /\ SeenHolder' /\ NoHolder' /\ OneBusy'
  BY <1>1 DEF IInv, LockInv
<1>3. raced = "no" /\ OneBusy'
  BY <1>2, ApartStep DEF IInv, read_invocation
<1>4. HolderNamed /\ SeenHolder /\ NoHolder /\ OneBusy /\ TypeOK
  BY <1>3 DEF IInv, LockInv
<1>5. HolderNamed'
  BY <1>3, <1>4 DEF HolderNamed, Holder, read_invocation, Goto, files
<1>6. SeenHolder'
  BY <1>3, <1>4 DEF HolderNamed, SeenHolder, Holder, TypeOK, read_invocation,
     Goto
<1>7. NoHolder'
  BY <1>3, <1>4 DEF NoHolder, OneBusy, Busy, Acquiring, Releasing,
     read_invocation, Goto
<1>8. QED
  BY <1>3, <1>5, <1>6, <1>7

\* What is read from the container file names the holder, if there is one.
LEMMA read_containerInv ==
  ASSUME IInv, NEW p \in Launchers, read_container(p)
  PROVE  IInv'
<1>1. TypeOK'
  BY DEF IInv, TypeOK, read_container, Goto, files, Acquiring
<1>2. SUFFICES ASSUME raced' = "no"
               PROVE  HolderNamed' /\ SeenHolder' /\ NoHolder' /\ OneBusy'
  BY <1>1 DEF IInv, LockInv
<1>3. raced = "no" /\ OneBusy'
  BY <1>2, ApartStep DEF IInv, read_container
<1>4. HolderNamed /\ SeenHolder /\ NoHolder /\ OneBusy /\ TypeOK
  BY <1>3 DEF IInv, LockInv
<1>5. HolderNamed'
  BY <1>3, <1>4 DEF HolderNamed, Holder, read_container, Goto, files
<1>6. SeenHolder'
  BY <1>3, <1>4 DEF HolderNamed, SeenHolder, Holder, TypeOK, read_container,
     Goto
<1>7. NoHolder'
  BY <1>3, <1>4 DEF NoHolder, OneBusy, Busy, Acquiring, Releasing,
     read_container, Goto
<1>8. QED
  BY <1>3, <1>5, <1>6, <1>7

\* docker inspect finds the guard of a holder running.
LEMMA inspect_runningInv ==
  ASSUME IInv, NEW p \in Launchers, inspect_running(p)
  PROVE  IInv'
<1>1. TypeOK'
  BY DEF IInv, TypeOK, inspect_running, Goto, files, Acquiring
<1>2. SUFFICES ASSUME raced' = "no"
               PROVE  HolderNamed' /\ SeenHolder' /\ NoHolder' /\ OneBusy'
  BY <1>1 DEF IInv, LockInv
<1>3. raced = "no" /\ OneBusy'
  BY <1>2, ApartStep DEF IInv, inspect_running
<1>4. HolderNamed /\ SeenHolder /\ NoHolder /\ OneBusy /\ TypeOK
  BY <1>3 DEF IInv, LockInv
<1>5. HolderNamed'
  BY <1>3, <1>4 DEF HolderNamed, Holder, inspect_running, Goto, files
<1>6. SeenHolder'
  BY <1>3, <1>4 DEF HolderNamed, SeenHolder, Holder, TypeOK, inspect_running,
     Goto
<1>7. NoHolder'
  BY <1>3, <1>4 DEF NoHolder, OneBusy, Busy, Acquiring, Releasing,
     inspect_running, Goto
<1>8. QED
  BY <1>3, <1>5, <1>6, <1>7

\* A launcher that goes on past the label check has met no holder.
LEMMA inspect_labelInv ==
  ASSUME IInv, NEW p \in Launchers, inspect_label(p)
  PROVE  IInv'
<1>1. TypeOK'
  BY DEF IInv, TypeOK, inspect_label, Goto, files, Acquiring, Releasing
<1>2. SUFFICES ASSUME raced' = "no"
               PROVE  HolderNamed' /\ SeenHolder' /\ NoHolder' /\ OneBusy'
  BY <1>1 DEF IInv, LockInv
<1>3. raced = "no" /\ OneBusy'
  BY <1>2, ApartStep DEF IInv, inspect_label
<1>4. HolderNamed /\ SeenHolder /\ NoHolder /\ OneBusy /\ TypeOK
  BY <1>3 DEF IInv, LockInv
<1>5. HolderNamed'
  BY <1>3, <1>4 DEF HolderNamed, Holder, inspect_label, Goto, files
<1>6. SeenHolder'
  BY <1>3, <1>4 DEF SeenHolder, Holder, inspect_label, Goto
<1>7. NoHolder'
  BY <1>3, <1>4, LockAssumption DEF HolderNamed, SeenHolder, NoHolder,
     OneBusy, Busy, Acquiring, Holder, inspect_label, Goto, Owned
<1>8. QED
  BY <1>3, <1>5, <1>6, <1>7

\* A stale lock that is being removed has no holder.
LEMMA rm_invocationInv ==
  ASSUME IInv, NEW p \in Launchers, rm_invocation(p)
  PROVE  IInv'
<1>1. TypeOK'
  BY DEF IInv, TypeOK, rm_invocation, Goto, Acquiring, Owner
<1>2. SUFFICES ASSUME raced' = "no"
               PROVE  HolderNamed' /\ SeenHolder' /\ NoHolder' /\ OneBusy'
  BY <1>1 DEF IInv, LockInv
<1>3. raced = "no" /\ OneBusy'
  BY <1>2, ApartStep DEF IInv, rm_invocation
<1>4. HolderNamed /\ SeenHolder /\ NoHolder /\ OneBusy /\ TypeOK
  BY <1>3 DEF IInv, LockInv
<1>5. HolderNamed'
  BY <1>3, <1>4 DEF HolderNamed, NoHolder, Holder, rm_invocation, Goto
<1>6. SeenHolder'
  BY <1>3, <1>4 DEF SeenHolder, OneBusy, Busy, Acquiring, rm_invocation, Goto
<1>7. NoHolder'
  BY <1>3, <1>4 DEF NoHolder, OneBusy, Busy, Acquiring, Holder, rm_invocation,
     Goto
<1>8. QED
  BY <1>3, <1>5, <1>6, <1>7

\* A stale lock that is being removed has no holder.
LEMMA rm_containerInv ==
  ASSUME IInv, NEW p \in Launchers, rm_container(p)
  PROVE  IInv'
<1>1. TypeOK'
  BY DEF IInv, TypeOK, rm_container, Goto, Acquiring, Owner
<1>2. SUFFICES ASSUME raced' = "no"
               PROVE  HolderNamed' /\ SeenHolder' /\ NoHolder' /\ OneBusy'
  BY <1>1 DEF IInv, LockInv
<1>3. raced = "no" /\ OneBusy'
  BY <1>2, ApartStep DEF IInv, rm_container
<1>4. HolderNamed /\ SeenHolder /\ NoHolder /\ OneBusy /\ TypeOK
  BY <1>3 DEF IInv, LockInv
<1>5. HolderNamed'
  BY <1>3, <1>4 DEF HolderNamed, NoHolder, Holder, rm_container, Goto
<1>6. SeenHolder'
  BY <1>3, <1>4 DEF SeenHolder, OneBusy, Busy, Acquiring, rm_container, Goto
<1>7. NoHolder'
  BY <1>3, <1>4 DEF NoHolder, Acquiring, Holder, rm_container, Goto
<1>8. QED
  BY <1>3, <1>5, <1>6, <1>7

\* A stale lock that is being removed has no holder.
LEMMA rmdirInv ==
  ASSUME IInv, NEW p \in Launchers, rmdir(p)
  PROVE  IInv'
<1>1. TypeOK'
  BY DEF IInv, TypeOK, rmdir, Goto, Acquiring, Releasing
<1>2. SUFFICES ASSUME raced' = "no"
               PROVE  HolderNamed' /\ SeenHolder' /\ NoHolder' /\ OneBusy'
  BY <1>1 DEF IInv, LockInv
<1>3. raced = "no" /\ OneBusy'
  BY <1>2, ApartStep DEF IInv, rmdir
<1>4. HolderNamed /\ SeenHolder /\ NoHolder /\ OneBusy /\ TypeOK
  BY <1>3 DEF IInv, LockInv
<1>5. HolderNamed'
  BY <1>3, <1>4 DEF HolderNamed, NoHolder, Holder, TypeOK, rmdir, Goto
<1>6. SeenHolder'
  BY <1>3, <1>4 DEF SeenHolder, OneBusy, Busy, TypeOK, rmdir, Goto
<1>7. NoHolder'
  BY <1>3, <1>4 DEF NoHolder, Acquiring, Holder, TypeOK, rmdir, Goto
<1>8. QED
  BY <1>3, <1>5, <1>6, <1>7

\* The second mkdir takes a lock without a holder, or gives up.
LEMMA mkdir_againInv ==
  ASSUME IInv, NEW p \in Launchers, mkdir_again(p)
  PROVE  IInv'
<1>1. TypeOK'
  BY DEF IInv, TypeOK, mkdir_again, Goto, Acquiring, Releasing
<1>2. SUFFICES ASSUME raced' = "no"
               PROVE  HolderNamed' /\ SeenHolder' /\ NoHolder' /\ OneBusy'
  BY <1>1 DEF IInv, LockInv
<1>3. raced = "no" /\ OneBusy'
  BY <1>2, ApartStep DEF IInv, mkdir_again
<1>4. HolderNamed /\ SeenHolder /\ NoHolder /\ OneBusy /\ TypeOK
  BY <1>3 DEF IInv, LockInv
<1>5. HolderNamed'
  BY <1>3, <1>4 DEF HolderNamed, Holder, mkdir_again, Goto
<1>6. SeenHolder'
  BY <1>3, <1>4 DEF SeenHolder, OneBusy, Busy, Acquiring, mkdir_again, Goto
<1>7. NoHolder'
  BY <1>3, <1>4 DEF NoHolder, Acquiring, Holder, mkdir_again, Goto
<1>8. QED
  BY <1>3, <1>5, <1>6, <1>7

\* The invocation file names the launcher that is taking the lock.
LEMMA write_invocationInv ==
  ASSUME IInv, NEW p \in Launchers, write_invocation(p)
  PROVE  IInv'
<1>1. TypeOK'
  BY DEF IInv, TypeOK, write_invocation, Goto, Acquiring, Releasing, Owner
<1>2. SUFFICES ASSUME raced' = "no"
               PROVE  HolderNamed' /\ SeenHolder' /\ NoHolder' /\ OneBusy'
  BY <1>1 DEF IInv, LockInv
<1>3. raced = "no" /\ OneBusy'
  BY <1>2, ApartStep DEF IInv, write_invocation
<1>4. HolderNamed /\ SeenHolder /\ NoHolder /\ OneBusy /\ TypeOK
  BY <1>3 DEF IInv, LockInv
<1>5. HolderNamed'
  BY <1>3, <1>4 DEF HolderNamed, NoHolder, Holder, TypeOK, write_invocation,
     Goto
<1>6. SeenHolder'
  BY <1>3, <1>4 DEF SeenHolder, OneBusy, Busy, TypeOK, write_invocation, Goto
<1>7. NoHolder'
  BY <1>3, <1>4 DEF NoHolder, OneBusy, Busy, Acquiring, Holder, TypeOK,
     write_invocation, Goto
<1>8. QED
  BY <1>3, <1>5, <1>6, <1>7

\* With its second file written, the lock names its new holder.
LEMMA write_containerInv ==
  ASSUME IInv, NEW p \in Launchers, write_container(p)
  PROVE  IInv'
<1>1. TypeOK'
  BY DEF IInv, TypeOK, write_container, Goto, Releasing, Owner
<1>2. SUFFICES ASSUME raced' = "no"
               PROVE  HolderNamed' /\ SeenHolder' /\ NoHolder' /\ OneBusy'
  BY <1>1 DEF IInv, LockInv
<1>3. raced = "no" /\ OneBusy'
  BY <1>2, ApartStep DEF IInv, write_container
<1>4. HolderNamed /\ SeenHolder /\ NoHolder /\ OneBusy /\ TypeOK
  BY <1>3 DEF IInv, LockInv
<1>5. HolderNamed'
  BY <1>3, <1>4 DEF HolderNamed, NoHolder, Acquiring, Holder, TypeOK,
     write_container, Goto
<1>6. SeenHolder'
  BY <1>3, <1>4 DEF SeenHolder, OneBusy, Busy, TypeOK, write_container, Goto
<1>7. NoHolder'
  BY <1>3, <1>4 DEF NoHolder, OneBusy, Busy, Acquiring, TypeOK,
     write_container, Goto
<1>8. QED
  BY <1>3, <1>5, <1>6, <1>7

\* The agent that starts belongs to the holder the lock names.
LEMMA start_agentInv ==
  ASSUME IInv, NEW p \in Launchers, start_agent(p)
  PROVE  IInv'
<1>1. TypeOK'
  BY DEF IInv, TypeOK, start_agent, Goto, files
<1>2. SUFFICES ASSUME raced' = "no"
               PROVE  HolderNamed' /\ SeenHolder' /\ NoHolder' /\ OneBusy'
  BY <1>1 DEF IInv, LockInv
<1>3. raced = "no" /\ OneBusy'
  BY <1>2, ApartStep DEF IInv, start_agent
<1>4. HolderNamed /\ SeenHolder /\ NoHolder /\ OneBusy /\ TypeOK
  BY <1>3 DEF IInv, LockInv
<1>5. HolderNamed'
  BY <1>3, <1>4 DEF HolderNamed, Holder, start_agent, Goto, files
<1>6. SeenHolder'
  BY <1>3, <1>4 DEF SeenHolder, Holder, start_agent, Goto
<1>7. NoHolder'
  BY <1>3, <1>4 DEF HolderNamed, NoHolder, Holder, start_agent, Goto
<1>8. QED
  BY <1>3, <1>5, <1>6, <1>7

\* An agent that ends leaves the lock to its launcher's cleanup.
LEMMA agent_endsInv ==
  ASSUME IInv, NEW p \in Launchers, agent_ends(p)
  PROVE  IInv'
<1>1. TypeOK'
  BY DEF IInv, TypeOK, agent_ends, Goto, files, Releasing
<1>2. SUFFICES ASSUME raced' = "no"
               PROVE  HolderNamed' /\ SeenHolder' /\ NoHolder' /\ OneBusy'
  BY <1>1 DEF IInv, LockInv
<1>3. raced = "no" /\ OneBusy'
  BY <1>2, ApartStep DEF IInv, agent_ends
<1>4. HolderNamed /\ SeenHolder /\ NoHolder /\ OneBusy /\ TypeOK
  BY <1>3 DEF IInv, LockInv
<1>5. HolderNamed'
  BY <1>3, <1>4 DEF HolderNamed, Holder, TypeOK, agent_ends, Goto
<1>6. SeenHolder'
  BY <1>3, <1>4 DEF SeenHolder, Holder, agent_ends, Goto
<1>7. NoHolder'
  BY <1>3, <1>4 DEF HolderNamed, NoHolder, Holder, agent_ends, Goto
<1>8. QED
  BY <1>3, <1>5, <1>6, <1>7

\* A signal sends a launcher to its cleanup, whatever it was at.
LEMMA SignalInv ==
  ASSUME IInv, NEW p \in Launchers, Signal(p)
  PROVE  IInv'
<1>1. TypeOK'
  BY DEF IInv, TypeOK, Signal, Goto, files, Releasing
<1>2. SUFFICES ASSUME raced' = "no"
               PROVE  HolderNamed' /\ SeenHolder' /\ NoHolder' /\ OneBusy'
  BY <1>1 DEF IInv, LockInv
<1>3. raced = "no" /\ OneBusy'
  BY <1>2, ApartStep DEF IInv, Signal
<1>4. HolderNamed /\ SeenHolder /\ NoHolder /\ OneBusy /\ TypeOK
  BY <1>3 DEF IInv, LockInv
<1>5. HolderNamed'
  BY <1>3, <1>4 DEF HolderNamed, Holder, Signal, Goto, files
<1>6. SeenHolder'
  BY <1>3, <1>4 DEF SeenHolder, Holder, Signal, Goto
<1>7. NoHolder'
  BY <1>3, <1>4 DEF NoHolder, OneBusy, Busy, Acquiring, Releasing, TypeOK,
     Signal, Goto
<1>8. QED
  BY <1>3, <1>5, <1>6, <1>7

\* cleanup removes the containers of the launcher, and with them its claim.
LEMMA cleanupInv ==
  ASSUME IInv, NEW p \in Launchers, cleanup(p)
  PROVE  IInv'
<1>1. TypeOK'
  BY DEF IInv, TypeOK, cleanup, Goto, files, Releasing
<1>2. SUFFICES ASSUME raced' = "no"
               PROVE  HolderNamed' /\ SeenHolder' /\ NoHolder' /\ OneBusy'
  BY <1>1 DEF IInv, LockInv
<1>3. raced = "no" /\ OneBusy'
  BY <1>2, ApartStep DEF IInv, cleanup
<1>4. HolderNamed /\ SeenHolder /\ NoHolder /\ OneBusy /\ TypeOK
  BY <1>3 DEF IInv, LockInv
<1>5. HolderNamed'
  BY <1>3, <1>4 DEF HolderNamed, Holder, cleanup, Goto, files
<1>6. SeenHolder'
  BY <1>3, <1>4 DEF SeenHolder, OneBusy, Busy, Acquiring, Releasing, cleanup,
     Goto
<1>7. NoHolder'
  BY <1>3, <1>4 DEF NoHolder, OneBusy, Busy, Acquiring, Releasing, cleanup,
     Goto
<1>8. QED
  BY <1>3, <1>5, <1>6, <1>7

\* cleanup_lock goes on only with a lock that names its launcher.
LEMMA ownerInv ==
  ASSUME IInv, NEW p \in Launchers, owner(p)
  PROVE  IInv'
<1>1. TypeOK'
  BY DEF IInv, TypeOK, owner, Goto, AfterLock, files, Releasing
<1>2. SUFFICES ASSUME raced' = "no"
               PROVE  HolderNamed' /\ SeenHolder' /\ NoHolder' /\ OneBusy'
  BY <1>1 DEF IInv, LockInv
<1>3. raced = "no" /\ OneBusy'
  BY <1>2, ApartStep DEF IInv, owner
<1>4. HolderNamed /\ SeenHolder /\ NoHolder /\ OneBusy /\ TypeOK
  BY <1>3 DEF IInv, LockInv
<1>5. HolderNamed'
  BY <1>3, <1>4 DEF HolderNamed, Holder, owner, Goto, AfterLock, files
<1>6. SeenHolder'
  BY <1>3, <1>4 DEF SeenHolder, OneBusy, Busy, Acquiring, Releasing, owner,
     Goto, AfterLock
<1>7. NoHolder'
  BY <1>3, <1>4 DEF HolderNamed, NoHolder, OneBusy, Busy, Acquiring,
     Releasing, Holder, owner, Goto, AfterLock
<1>8. QED
  BY <1>3, <1>5, <1>6, <1>7

\* A lock that is being released has no holder.
LEMMA unlink_invocationInv ==
  ASSUME IInv, NEW p \in Launchers, unlink_invocation(p)
  PROVE  IInv'
<1>1. TypeOK'
  BY DEF IInv, TypeOK, unlink_invocation, Goto, Releasing, Owner
<1>2. SUFFICES ASSUME raced' = "no"
               PROVE  HolderNamed' /\ SeenHolder' /\ NoHolder' /\ OneBusy'
  BY <1>1 DEF IInv, LockInv
<1>3. raced = "no" /\ OneBusy'
  BY <1>2, ApartStep DEF IInv, unlink_invocation
<1>4. HolderNamed /\ SeenHolder /\ NoHolder /\ OneBusy /\ TypeOK
  BY <1>3 DEF IInv, LockInv
<1>5. HolderNamed'
  BY <1>3, <1>4 DEF HolderNamed, NoHolder, Holder, unlink_invocation, Goto
<1>6. SeenHolder'
  BY <1>3, <1>4 DEF SeenHolder, OneBusy, Busy, Acquiring, Releasing,
     unlink_invocation, Goto
<1>7. NoHolder'
  BY <1>3, <1>4 DEF NoHolder, OneBusy, Busy, Acquiring, Releasing, Holder,
     unlink_invocation, Goto
<1>8. QED
  BY <1>3, <1>5, <1>6, <1>7

\* A lock that is being released has no holder.
LEMMA unlink_containerInv ==
  ASSUME IInv, NEW p \in Launchers, unlink_container(p)
  PROVE  IInv'
<1>1. TypeOK'
  BY DEF IInv, TypeOK, unlink_container, Goto, Releasing, Owner
<1>2. SUFFICES ASSUME raced' = "no"
               PROVE  HolderNamed' /\ SeenHolder' /\ NoHolder' /\ OneBusy'
  BY <1>1 DEF IInv, LockInv
<1>3. raced = "no" /\ OneBusy'
  BY <1>2, ApartStep DEF IInv, unlink_container
<1>4. HolderNamed /\ SeenHolder /\ NoHolder /\ OneBusy /\ TypeOK
  BY <1>3 DEF IInv, LockInv
<1>5. HolderNamed'
  BY <1>3, <1>4 DEF HolderNamed, NoHolder, Holder, unlink_container, Goto
<1>6. SeenHolder'
  BY <1>3, <1>4 DEF SeenHolder, OneBusy, Busy, Acquiring, Releasing,
     unlink_container, Goto
<1>7. NoHolder'
  BY <1>3, <1>4 DEF NoHolder, Acquiring, Holder, unlink_container, Goto
<1>8. QED
  BY <1>3, <1>5, <1>6, <1>7

\* A lock that is being released has no holder.
LEMMA unlink_dirInv ==
  ASSUME IInv, NEW p \in Launchers, unlink_dir(p)
  PROVE  IInv'
<1>1. TypeOK'
  BY DEF IInv, TypeOK, unlink_dir, Goto, AfterLock, Releasing
<1>2. SUFFICES ASSUME raced' = "no"
               PROVE  HolderNamed' /\ SeenHolder' /\ NoHolder' /\ OneBusy'
  BY <1>1 DEF IInv, LockInv
<1>3. raced = "no" /\ OneBusy'
  BY <1>2, ApartStep DEF IInv, unlink_dir
<1>4. HolderNamed /\ SeenHolder /\ NoHolder /\ OneBusy /\ TypeOK
  BY <1>3 DEF IInv, LockInv
<1>5. HolderNamed'
  BY <1>3, <1>4 DEF HolderNamed, NoHolder, Holder, unlink_dir, Goto, AfterLock
<1>6. SeenHolder'
  BY <1>3, <1>4 DEF SeenHolder, NoHolder, OneBusy, Busy, Acquiring, Releasing,
     Holder, unlink_dir, Goto
<1>7. NoHolder'
  BY <1>3, <1>4 DEF NoHolder, Acquiring, Holder, unlink_dir, Goto, AfterLock
<1>8. QED
  BY <1>3, <1>5, <1>6, <1>7

\* The guard that is removed last is no holder's.
LEMMA rm_guardInv ==
  ASSUME IInv, NEW p \in Launchers, rm_guard(p)
  PROVE  IInv'
<1>1. TypeOK'
  BY DEF IInv, TypeOK, rm_guard, Goto, files
<1>2. SUFFICES ASSUME raced' = "no"
               PROVE  HolderNamed' /\ SeenHolder' /\ NoHolder' /\ OneBusy'
  BY <1>1 DEF IInv, LockInv
<1>3. raced = "no" /\ OneBusy'
  BY <1>2, ApartStep DEF IInv, rm_guard
<1>4. HolderNamed /\ SeenHolder /\ NoHolder /\ OneBusy /\ TypeOK
  BY <1>3 DEF IInv, LockInv
<1>5. HolderNamed'
  BY <1>3, <1>4 DEF HolderNamed, Holder, rm_guard, Goto, files
<1>6. SeenHolder'
  BY <1>3, <1>4 DEF SeenHolder, OneBusy, Busy, Acquiring, Releasing, rm_guard,
     Goto
<1>7. NoHolder'
  BY <1>3, <1>4 DEF NoHolder, OneBusy, Busy, Acquiring, Releasing, rm_guard,
     Goto
<1>8. QED
  BY <1>3, <1>5, <1>6, <1>7

\* A killed launcher leaves its lock, guard and agent as they are.
LEMMA KillInv ==
  ASSUME IInv, NEW p \in Launchers, Kill(p)
  PROVE  IInv'
<1>1. TypeOK'
  BY DEF IInv, TypeOK, Kill, Goto, files
<1>2. SUFFICES ASSUME raced' = "no"
               PROVE  HolderNamed' /\ SeenHolder' /\ NoHolder' /\ OneBusy'
  BY <1>1 DEF IInv, LockInv
<1>3. raced = "no" /\ OneBusy'
  BY <1>2, ApartStep DEF IInv, Kill
<1>4. HolderNamed /\ SeenHolder /\ NoHolder /\ OneBusy /\ TypeOK
  BY <1>3 DEF IInv, LockInv
<1>5. HolderNamed'
  BY <1>3, <1>4 DEF HolderNamed, Holder, Kill, Goto, files
<1>6. SeenHolder'
  BY <1>3, <1>4 DEF SeenHolder, Holder, Kill, Goto
<1>7. NoHolder'
  BY <1>3, <1>4 DEF NoHolder, OneBusy, Busy, Acquiring, Holder, TypeOK, Kill,
     Goto
<1>8. QED
  BY <1>3, <1>5, <1>6, <1>7

\* A holder whose containers Docker loses is none any more.
LEMMA ContainersLostInv ==
  ASSUME IInv, NEW p \in Launchers, ContainersLost(p)
  PROVE  IInv'
<1>1. TypeOK'
  BY DEF IInv, TypeOK, ContainersLost, files
<1>2. LockInv'
  BY DEF IInv, LockInv, HolderNamed, SeenHolder, NoHolder, OneBusy, Holder,
     Acquiring, ContainersLost, files
<1>3. QED
  BY <1>1, <1>2 DEF IInv

\* No launcher has started, and there is no lock.
LEMMA InitInv == Init => IInv
<1>1. Init => TypeOK
  <2> SUFFICES ASSUME Init PROVE TypeOK
    OBVIOUS
  <2>1. seen \in [Launchers -> [inv : Owner, con : Owner, up : {"true", "false"}]]
    BY DEF Init, Owner
  <2>2. pc \in [Launchers -> {"off"}] /\ dir \in BOOLEAN
    BY DEF Init
  <2>3. QED
    BY <2>1, <2>2 DEF Init, TypeOK, Owner
<1>2. Init => LockInv
  <2> SUFFICES ASSUME Init PROVE LockInv
    OBVIOUS
  <2>1. \A p \in Launchers : pc[p] = "off" /\ ~Holder(p)
    BY DEF Init, Holder
  <2>2. QED
    BY <2>1 DEF LockInv, OneBusy, HolderNamed, SeenHolder, NoHolder, Busy,
       Acquiring, Releasing
<1>3. QED
  BY <1>1, <1>2 DEF IInv

\* Every step of every launcher keeps the invariant.
LEMMA NextInv == IInv /\ [Next]_vars => IInv'
<1> SUFFICES ASSUME IInv, [Next]_vars PROVE IInv'
  OBVIOUS
<1>1. CASE UNCHANGED vars
  BY <1>1 DEF vars, files, IInv, LockInv, TypeOK, OneBusy, HolderNamed,
     SeenHolder, NoHolder, Holder
<1>2. CASE Next
  <2>1. PICK p \in Launchers :
          \/ run_guard(p) \/ Acquire(p) \/ agent_ends(p) \/ Signal(p)
          \/ Release(p) \/ Kill(p) \/ ContainersLost(p)
    BY <1>2 DEF Next
  <2>2. CASE Acquire(p)
    BY <2>2, mkdirInv, read_invocationInv, read_containerInv,
       inspect_runningInv, inspect_labelInv, rm_invocationInv,
       rm_containerInv, rmdirInv, mkdir_againInv, write_invocationInv,
       write_containerInv, start_agentInv DEF Acquire
  <2>3. CASE Release(p)
    BY <2>3, cleanupInv, ownerInv, unlink_invocationInv, unlink_containerInv,
       unlink_dirInv, rm_guardInv DEF Release
  <2>4. QED
    BY <2>1, <2>2, <2>3, run_guardInv, agent_endsInv, SignalInv, KillInv,
       ContainersLostInv
<1>3. QED
  BY <1>1, <1>2

-----------------------------------------------------------------------------
(* The theorems. *)

\* The inductive invariant holds in every reachable state.
THEOREM Invariance == Spec => []IInv
<1>1. Init => IInv
  BY InitInv
<1>2. IInv /\ [Next]_vars => IInv'
  BY NextInv
<1>3. QED
  BY <1>1, <1>2, PTL DEF Spec

\* Every variable of the lock keeps its type.
THEOREM TypeCorrect == Spec => []TypeOK
<1>1. IInv => TypeOK
  BY DEF IInv
<1>2. QED
  BY <1>1, Invariance, PTL

\* While no two launchers overlap on the lock, it names the launcher of every
\* running agent, and that launcher's guard is running.
THEOREM LockNamesWriter == Spec => []WriterIsNamed
<1>1. IInv => WriterIsNamed
  BY DEF IInv, LockInv, HolderNamed, Holder, WriterIsNamed, TypeOK
<1>2. QED
  BY <1>1, Invariance, PTL

\* While no two launchers overlap on the lock, at most one agent is running.
THEOREM ApartExcludes == Spec => []OneWriterApart
<1>1. WriterIsNamed => OneWriterApart
  BY DEF WriterIsNamed, OneWriterApart, OneWriter
<1>2. QED
  BY <1>1, LockNamesWriter, PTL

-----------------------------------------------------------------------------
(* Refusals.  That a stale lock is no obstacle (StaleLockReclaimed) rests on    *)
(* "already open" being said only of a lock whose owner lives.                  *)

Early == {"off"} \cup (Acquiring \ {"write_container"})

\* Only a launcher itself writes its name, at the end of its acquisition.
Unwritten ==
  \A p \in Launchers :
    /\ pc[p] \in Early \cup {"write_container"} => container # p
    /\ pc[p] \in Early => invocation # p

\* What an acquiring launcher has read, removed or made is still so.
View ==
  \A p \in Launchers :
    /\ pc[p] \in Acquiring \ {"mkdir", "mkdir_again"} => dir
    /\ pc[p] = "mkdir_again" => ~dir
    /\ pc[p] \in {"read_container", "inspect_running", "inspect_label"} =>
         seen[p].inv = invocation
    /\ pc[p] \in {"inspect_running", "inspect_label"} => seen[p].con = container
    /\ pc[p] \in {"rm_container", "rmdir"} => invocation = None
    /\ pc[p] = "rmdir" => container = None

ViewInv == Unwritten /\ (raced = "no" => View)

\* While launchers do not overlap nobody else touches the lock in between.
LEMMA ViewStep == IInv /\ ViewInv /\ [Next]_vars => ViewInv'
<1> SUFFICES ASSUME IInv, ViewInv, [Next]_vars PROVE ViewInv'
  OBVIOUS
<1>1. TypeOK /\ Unwritten
  BY DEF IInv, ViewInv
<1>2. ASSUME NEW p \in Launchers, Acquire(p) PROVE ViewInv'
  <2>1. CASE mkdir(p)
    <3>1. Unwritten'
      BY <1>1, <2>1, LockAssumption DEF mkdir, Goto, files, Unwritten, Early,
         Acquiring, Releasing, TypeOK
    <3>2. ASSUME raced' = "no" PROVE View'
      <4>1. raced = "no" /\ OneBusy' /\ View /\ OneBusy
        BY <2>1, <3>2, ApartStep DEF mkdir, IInv, LockInv, ViewInv
      <4> QED
        BY <1>1, <2>1, <4>1 DEF mkdir, Goto, files, View, OneBusy, Busy,
           Acquiring, Releasing, TypeOK
    <3> QED
      BY <3>1, <3>2 DEF ViewInv
  <2>2. CASE read_invocation(p)
    <3>1. Unwritten'
      BY <1>1, <2>2, LockAssumption DEF read_invocation, Goto, files,
         Unwritten, Early, Acquiring, Releasing, TypeOK
    <3>2. ASSUME raced' = "no" PROVE View'
      <4>1. raced = "no" /\ OneBusy' /\ View /\ OneBusy
        BY <2>2, <3>2, ApartStep DEF read_invocation, IInv, LockInv, ViewInv
      <4> QED
        BY <1>1, <2>2, <4>1 DEF read_invocation, Goto, files, View, OneBusy,
           Busy, Acquiring, Releasing, TypeOK
    <3> QED
      BY <3>1, <3>2 DEF ViewInv
  <2>3. CASE read_container(p)
    <3>1. Unwritten'
      BY <1>1, <2>3, LockAssumption DEF read_container, Goto, files,
         Unwritten, Early, Acquiring, Releasing, TypeOK
    <3>2. ASSUME raced' = "no" PROVE View'
      <4>1. raced = "no" /\ OneBusy' /\ View /\ OneBusy
        BY <2>3, <3>2, ApartStep DEF read_container, IInv, LockInv, ViewInv
      <4> QED
        BY <1>1, <2>3, <4>1 DEF read_container, Goto, files, View, OneBusy,
           Busy, Acquiring, Releasing, TypeOK
    <3> QED
      BY <3>1, <3>2 DEF ViewInv
  <2>4. CASE inspect_running(p)
    <3>1. Unwritten'
      BY <1>1, <2>4, LockAssumption DEF inspect_running, Goto, files,
         Unwritten, Early, Acquiring, Releasing, TypeOK
    <3>2. ASSUME raced' = "no" PROVE View'
      <4>1. raced = "no" /\ OneBusy' /\ View /\ OneBusy
        BY <2>4, <3>2, ApartStep DEF inspect_running, IInv, LockInv, ViewInv
      <4> QED
        BY <1>1, <2>4, <4>1 DEF inspect_running, Goto, files, View, OneBusy,
           Busy, Acquiring, Releasing, TypeOK
    <3> QED
      BY <3>1, <3>2 DEF ViewInv
  <2>5. CASE inspect_label(p)
    <3>1. Unwritten'
      BY <1>1, <2>5, LockAssumption DEF inspect_label, Goto, files, Unwritten,
         Early, Acquiring, Releasing, TypeOK
    <3>2. ASSUME raced' = "no" PROVE View'
      <4>1. raced = "no" /\ OneBusy' /\ View /\ OneBusy
        BY <2>5, <3>2, ApartStep DEF inspect_label, IInv, LockInv, ViewInv
      <4> QED
        BY <1>1, <2>5, <4>1 DEF inspect_label, Goto, files, View, OneBusy,
           Busy, Acquiring, Releasing, TypeOK
    <3> QED
      BY <3>1, <3>2 DEF ViewInv
  <2>6. CASE rm_invocation(p)
    <3>1. Unwritten'
      BY <1>1, <2>6, LockAssumption DEF rm_invocation, Goto, files, Unwritten,
         Early, Acquiring, Releasing, TypeOK
    <3>2. ASSUME raced' = "no" PROVE View'
      <4>1. raced = "no" /\ OneBusy' /\ View /\ OneBusy
        BY <2>6, <3>2, ApartStep DEF rm_invocation, IInv, LockInv, ViewInv
      <4> QED
        BY <1>1, <2>6, <4>1 DEF rm_invocation, Goto, files, View, OneBusy,
           Busy, Acquiring, Releasing, TypeOK
    <3> QED
      BY <3>1, <3>2 DEF ViewInv
  <2>7. CASE rm_container(p)
    <3>1. Unwritten'
      BY <1>1, <2>7, LockAssumption DEF rm_container, Goto, files, Unwritten,
         Early, Acquiring, Releasing, TypeOK
    <3>2. ASSUME raced' = "no" PROVE View'
      <4>1. raced = "no" /\ OneBusy' /\ View /\ OneBusy
        BY <2>7, <3>2, ApartStep DEF rm_container, IInv, LockInv, ViewInv
      <4> QED
        BY <1>1, <2>7, <4>1 DEF rm_container, Goto, files, View, OneBusy,
           Busy, Acquiring, Releasing, TypeOK
    <3> QED
      BY <3>1, <3>2 DEF ViewInv
  <2>8. CASE rmdir(p)
    <3>1. Unwritten'
      BY <1>1, <2>8, LockAssumption DEF rmdir, Goto, files, Unwritten, Early,
         Acquiring, Releasing, Empty, TypeOK
    <3>2. ASSUME raced' = "no" PROVE View'
      <4>1. raced = "no" /\ OneBusy' /\ View /\ OneBusy
        BY <2>8, <3>2, ApartStep DEF rmdir, IInv, LockInv, ViewInv
      <4> QED
        BY <1>1, <2>8, <4>1 DEF rmdir, Goto, files, View, OneBusy, Busy,
           Acquiring, Releasing, Empty, TypeOK
    <3> QED
      BY <3>1, <3>2 DEF ViewInv
  <2>9. CASE mkdir_again(p)
    <3>1. Unwritten'
      BY <1>1, <2>9, LockAssumption DEF mkdir_again, Goto, files, Unwritten,
         Early, Acquiring, Releasing, TypeOK
    <3>2. ASSUME raced' = "no" PROVE View'
      <4>1. raced = "no" /\ OneBusy' /\ View /\ OneBusy
        BY <2>9, <3>2, ApartStep DEF mkdir_again, IInv, LockInv, ViewInv
      <4> QED
        BY <1>1, <2>9, <4>1 DEF mkdir_again, Goto, files, View, OneBusy, Busy,
           Acquiring, Releasing, TypeOK
    <3> QED
      BY <3>1, <3>2 DEF ViewInv
  <2>10. CASE write_invocation(p)
    <3>1. Unwritten'
      BY <1>1, <2>10, LockAssumption DEF write_invocation, Goto, files,
         Unwritten, Early, Acquiring, Releasing, TypeOK
    <3>2. ASSUME raced' = "no" PROVE View'
      <4>1. raced = "no" /\ OneBusy' /\ View /\ OneBusy
        BY <2>10, <3>2, ApartStep DEF write_invocation, IInv, LockInv, ViewInv
      <4> QED
        BY <1>1, <2>10, <4>1 DEF write_invocation, Goto, files, View, OneBusy,
           Busy, Acquiring, Releasing, TypeOK
    <3> QED
      BY <3>1, <3>2 DEF ViewInv
  <2>11. CASE write_container(p)
    <3>1. Unwritten'
      BY <1>1, <2>11, LockAssumption DEF write_container, Goto, files,
         Unwritten, Early, Acquiring, Releasing, TypeOK
    <3>2. ASSUME raced' = "no" PROVE View'
      <4>1. raced = "no" /\ OneBusy' /\ View /\ OneBusy
        BY <2>11, <3>2, ApartStep DEF write_container, IInv, LockInv, ViewInv
      <4> QED
        BY <1>1, <2>11, <4>1 DEF write_container, Goto, files, View, OneBusy,
           Busy, Acquiring, Releasing, TypeOK
    <3> QED
      BY <3>1, <3>2 DEF ViewInv
  <2>12. CASE start_agent(p)
    <3>1. Unwritten'
      BY <1>1, <2>12, LockAssumption DEF start_agent, Goto, files, Unwritten,
         Early, Acquiring, Releasing, TypeOK
    <3>2. ASSUME raced' = "no" PROVE View'
      <4>1. raced = "no" /\ OneBusy' /\ View /\ OneBusy
        BY <2>12, <3>2, ApartStep DEF start_agent, IInv, LockInv, ViewInv
      <4> QED
        BY <1>1, <2>12, <4>1 DEF start_agent, Goto, files, View, OneBusy,
           Busy, Acquiring, Releasing, TypeOK
    <3> QED
      BY <3>1, <3>2 DEF ViewInv
  <2> QED
    BY <1>2, <2>1, <2>2, <2>3, <2>4, <2>5, <2>6, <2>7, <2>8, <2>9, <2>10,
       <2>11, <2>12 DEF Acquire
<1>3. ASSUME NEW p \in Launchers, Release(p) PROVE ViewInv'
  <2>1. CASE cleanup(p)
    <3>1. Unwritten'
      BY <1>1, <2>1, LockAssumption DEF cleanup, Goto, files, Unwritten,
         Early, Acquiring, Releasing, TypeOK
    <3>2. ASSUME raced' = "no" PROVE View'
      <4>1. raced = "no" /\ OneBusy' /\ View /\ OneBusy
        BY <2>1, <3>2, ApartStep DEF cleanup, IInv, LockInv, ViewInv
      <4> QED
        BY <1>1, <2>1, <4>1 DEF cleanup, Goto, files, View, OneBusy, Busy,
           Acquiring, Releasing, TypeOK
    <3> QED
      BY <3>1, <3>2 DEF ViewInv
  <2>2. CASE owner(p)
    <3>1. Unwritten'
      BY <1>1, <2>2, LockAssumption DEF owner, Goto, files, Unwritten, Early,
         Acquiring, Releasing, AfterLock, TypeOK
    <3>2. ASSUME raced' = "no" PROVE View'
      <4>1. raced = "no" /\ OneBusy' /\ View /\ OneBusy
        BY <2>2, <3>2, ApartStep DEF owner, IInv, LockInv, ViewInv
      <4> QED
        BY <1>1, <2>2, <4>1 DEF owner, Goto, files, View, OneBusy, Busy,
           Acquiring, Releasing, AfterLock, TypeOK
    <3> QED
      BY <3>1, <3>2 DEF ViewInv
  <2>3. CASE unlink_invocation(p)
    <3>1. Unwritten'
      BY <1>1, <2>3, LockAssumption DEF unlink_invocation, Goto, files,
         Unwritten, Early, Acquiring, Releasing, TypeOK
    <3>2. ASSUME raced' = "no" PROVE View'
      <4>1. raced = "no" /\ OneBusy' /\ View /\ OneBusy
        BY <2>3, <3>2, ApartStep DEF unlink_invocation, IInv, LockInv, ViewInv
      <4> QED
        BY <1>1, <2>3, <4>1 DEF unlink_invocation, Goto, files, View, OneBusy,
           Busy, Acquiring, Releasing, TypeOK
    <3> QED
      BY <3>1, <3>2 DEF ViewInv
  <2>4. CASE unlink_container(p)
    <3>1. Unwritten'
      BY <1>1, <2>4, LockAssumption DEF unlink_container, Goto, files,
         Unwritten, Early, Acquiring, Releasing, TypeOK
    <3>2. ASSUME raced' = "no" PROVE View'
      <4>1. raced = "no" /\ OneBusy' /\ View /\ OneBusy
        BY <2>4, <3>2, ApartStep DEF unlink_container, IInv, LockInv, ViewInv
      <4> QED
        BY <1>1, <2>4, <4>1 DEF unlink_container, Goto, files, View, OneBusy,
           Busy, Acquiring, Releasing, TypeOK
    <3> QED
      BY <3>1, <3>2 DEF ViewInv
  <2>5. CASE unlink_dir(p)
    <3>1. Unwritten'
      BY <1>1, <2>5, LockAssumption DEF unlink_dir, Goto, files, Unwritten,
         Early, Acquiring, Releasing, AfterLock, Empty, TypeOK
    <3>2. ASSUME raced' = "no" PROVE View'
      <4>1. raced = "no" /\ OneBusy' /\ View /\ OneBusy
        BY <2>5, <3>2, ApartStep DEF unlink_dir, IInv, LockInv, ViewInv
      <4> QED
        BY <1>1, <2>5, <4>1 DEF unlink_dir, Goto, files, View, OneBusy, Busy,
           Acquiring, Releasing, AfterLock, Empty, TypeOK
    <3> QED
      BY <3>1, <3>2 DEF ViewInv
  <2>6. CASE rm_guard(p)
    <3>1. Unwritten'
      BY <1>1, <2>6, LockAssumption DEF rm_guard, Goto, files, Unwritten,
         Early, Acquiring, Releasing, TypeOK
    <3>2. ASSUME raced' = "no" PROVE View'
      <4>1. raced = "no" /\ OneBusy' /\ View /\ OneBusy
        BY <2>6, <3>2, ApartStep DEF rm_guard, IInv, LockInv, ViewInv
      <4> QED
        BY <1>1, <2>6, <4>1 DEF rm_guard, Goto, files, View, OneBusy, Busy,
           Acquiring, Releasing, TypeOK
    <3> QED
      BY <3>1, <3>2 DEF ViewInv
  <2> QED
    BY <1>3, <2>1, <2>2, <2>3, <2>4, <2>5, <2>6 DEF Release
<1>4. ASSUME NEW p \in Launchers,
             run_guard(p) \/ agent_ends(p) \/ Signal(p) \/ Kill(p)
      PROVE  ViewInv'
  <2>1. CASE run_guard(p)
    <3>1. Unwritten'
      BY <1>1, <2>1, LockAssumption DEF run_guard, Goto, files, Unwritten,
         Early, Acquiring, Releasing, TypeOK
    <3>2. ASSUME raced' = "no" PROVE View'
      <4>1. raced = "no" /\ OneBusy' /\ View /\ OneBusy
        BY <2>1, <3>2, ApartStep DEF run_guard, IInv, LockInv, ViewInv
      <4> QED
        BY <1>1, <2>1, <4>1 DEF run_guard, Goto, files, View, OneBusy, Busy,
           Acquiring, Releasing, TypeOK
    <3> QED
      BY <3>1, <3>2 DEF ViewInv
  <2>2. CASE agent_ends(p)
    <3>1. Unwritten'
      BY <1>1, <2>2, LockAssumption DEF agent_ends, Goto, files, Unwritten,
         Early, Acquiring, Releasing, TypeOK
    <3>2. ASSUME raced' = "no" PROVE View'
      <4>1. raced = "no" /\ OneBusy' /\ View /\ OneBusy
        BY <2>2, <3>2, ApartStep DEF agent_ends, IInv, LockInv, ViewInv
      <4> QED
        BY <1>1, <2>2, <4>1 DEF agent_ends, Goto, files, View, OneBusy, Busy,
           Acquiring, Releasing, TypeOK
    <3> QED
      BY <3>1, <3>2 DEF ViewInv
  <2>3. CASE Signal(p)
    <3>1. Unwritten'
      BY <1>1, <2>3, LockAssumption DEF Signal, Goto, files, Unwritten, Early,
         Acquiring, Releasing, TypeOK
    <3>2. ASSUME raced' = "no" PROVE View'
      <4>1. raced = "no" /\ OneBusy' /\ View /\ OneBusy
        BY <2>3, <3>2, ApartStep DEF Signal, IInv, LockInv, ViewInv
      <4> QED
        BY <1>1, <2>3, <4>1 DEF Signal, Goto, files, View, OneBusy, Busy,
           Acquiring, Releasing, TypeOK
    <3> QED
      BY <3>1, <3>2 DEF ViewInv
  <2>4. CASE Kill(p)
    <3>1. Unwritten'
      BY <1>1, <2>4, LockAssumption DEF Kill, Goto, files, Unwritten, Early,
         Acquiring, Releasing, TypeOK
    <3>2. ASSUME raced' = "no" PROVE View'
      <4>1. raced = "no" /\ OneBusy' /\ View /\ OneBusy
        BY <2>4, <3>2, ApartStep DEF Kill, IInv, LockInv, ViewInv
      <4> QED
        BY <1>1, <2>4, <4>1 DEF Kill, Goto, files, View, OneBusy, Busy,
           Acquiring, Releasing, TypeOK
    <3> QED
      BY <3>1, <3>2 DEF ViewInv
  <2> QED
    BY <1>4, <2>1, <2>2, <2>3, <2>4
<1>5. ASSUME NEW p \in Launchers, ContainersLost(p) PROVE ViewInv'
  BY <1>5 DEF ContainersLost, files, ViewInv, View, Unwritten
<1>6. CASE UNCHANGED vars
  BY <1>6 DEF vars, files, ViewInv, View, Unwritten
<1> QED
  BY <1>2, <1>3, <1>4, <1>5, <1>6 DEF Next

\* A launcher that gives up has met the lock of another whose guard is running: it
\* has both names, and they agree.
RefusalIsDue ==
  \A p \in Launchers :
    pc[p] \in Acquiring /\ pc'[p] = "cleanup" /\ raced' = "no" =>
      \E q \in Launchers \ {p} :
        q \in guards /\ dir /\ invocation = q /\ container = q

\* Of the commands that give up only the label check can, the others find the lock
\* as their launcher left it.
LEMMA RefusalStep == IInv /\ ViewInv /\ [Next]_vars => RefusalIsDue
<1> SUFFICES ASSUME IInv, ViewInv, [Next]_vars, NEW p \in Launchers,
                    pc[p] \in Acquiring, pc'[p] = "cleanup", raced' = "no"
             PROVE  \E q \in Launchers \ {p} :
                      q \in guards /\ dir /\ invocation = q /\ container = q
  BY DEF RefusalIsDue
<1>1. TypeOK /\ Unwritten
  BY DEF IInv, ViewInv
<1>2. PICK r \in Launchers :
        \/ run_guard(r) \/ Acquire(r) \/ agent_ends(r) \/ Signal(r) \/ Release(r)
        \/ Kill(r) \/ ContainersLost(r)
  BY DEF Next, vars, Acquiring
<1>3. Acquire(p) /\ raced = "no"
  <2>1. ~ContainersLost(r)
    BY DEF ContainersLost, Acquiring
  <2>2. PICK l : Goto(r, l)
    BY <1>2, <2>1 DEF run_guard, Acquire, agent_ends, Signal, Release, Kill, mkdir,
       read_invocation, read_container, inspect_running, inspect_label,
       rm_invocation, rm_container, rmdir, mkdir_again, write_invocation,
       write_container, start_agent, cleanup, owner, unlink_invocation,
       unlink_container, unlink_dir, rm_guard
  <2>3. r = p /\ raced = "no"
    BY <1>1, <2>2, ApartStep DEF Goto, TypeOK, Acquiring
  <2>4. ~run_guard(p) /\ ~agent_ends(p) /\ ~Release(p)
    BY DEF run_guard, agent_ends, Release, cleanup, owner, unlink_invocation,
       unlink_container, unlink_dir, rm_guard, Acquiring
  <2>5. ~Signal(p) /\ ~Kill(p)
    BY <1>1 DEF Signal, Kill, Goto, TypeOK
  <2> QED
    BY <1>2, <2>1, <2>3, <2>4, <2>5
<1>4. View
  BY <1>3 DEF ViewInv
<1>5. inspect_label(p) /\ Owned(p)
  <2>1. ~mkdir(p) /\ ~read_invocation(p) /\ ~read_container(p) /\ ~inspect_running(p)
        /\ ~rm_invocation(p) /\ ~rm_container(p) /\ ~start_agent(p)
    BY <1>1 DEF mkdir, read_invocation, read_container, inspect_running,
       rm_invocation, rm_container, start_agent, Goto, TypeOK
  <2>2. ~rmdir(p) /\ ~mkdir_again(p)
    BY <1>1, <1>4 DEF rmdir, mkdir_again, Goto, TypeOK, View, Empty, Acquiring
  <2>3. ~write_invocation(p) /\ ~write_container(p)
    BY <1>1, <1>4 DEF write_invocation, write_container, Goto, TypeOK, View, Acquiring
  <2>4. inspect_label(p)
    BY <1>3, <2>1, <2>2, <2>3 DEF Acquire
  <2> QED
    BY <1>1, <2>4 DEF inspect_label, Goto, TypeOK
<1>6. seen[p].inv = invocation /\ seen[p].con = container /\ dir
  BY <1>4, <1>5 DEF inspect_label, View, Acquiring
<1>7. invocation # None /\ container = invocation /\ container \in guards
  BY <1>5, <1>6 DEF Owned
<1>8. invocation # p
  BY <1>1, <1>5 DEF Unwritten, Early, inspect_label, Acquiring
<1> QED
  BY <1>1, <1>6, <1>7, <1>8 DEF TypeOK

\* As long as no two launchers overlap on the lock, "already open" is true: whatever
\* launchers that were killed have left behind, none is refused for it.
THEOREM RefusalsAreDue == Spec => [][RefusalIsDue]_vars
<1>1. Init => ViewInv
  BY LockAssumption DEF Init, ViewInv, Unwritten, View, Early, Acquiring
<1>2. IInv /\ ViewInv /\ [Next]_vars => ViewInv'
  BY ViewStep
<1>3. IInv /\ ViewInv /\ [Next]_vars => [RefusalIsDue]_vars
  BY RefusalStep
<1>4. QED
  BY <1>1, <1>2, <1>3, Invariance, PTL DEF Spec
=============================================================================
