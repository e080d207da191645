----------------------------- MODULE WriterLock -----------------------------
(***************************************************************************)
(* The writer lock of the launcher (route-agent): a directory with two     *)
(* files, invocation and container, and a guard container that shows that  *)
(* its owner lives.  One protocol serves a project (acquire_project_lock,  *)
(* cleanup, cleanup_lock) and an experiment (acquire_eval_lock,            *)
(* cleanup_eval_lock); they differ in when the guard is removed.           *)
(*                                                                         *)
(* Every shell command is a step, and rm -f of two files is two.  A signal *)
(* runs the exit trap; a kill leaves the directory, the guard and the      *)
(* agent container behind, until Docker loses the containers.              *)
(***************************************************************************)
EXTENDS FiniteSets

CONSTANTS
  Launchers,    \* invocations of route-agent on one project or experiment
  GuardFirst,   \* TRUE for the project lock, FALSE for the experiment lock
  None

ASSUME LockAssumption == None \notin Launchers /\ GuardFirst \in BOOLEAN

VARIABLES
  pc,          \* per launcher, its next command
  dir,         \* the lock directory exists
  invocation,  \* contents of its two files
  container,
  seen,        \* per launcher: old_invocation, old_container, old_running
  guards,      \* launchers whose guard container is running
  agents,      \* launchers whose agent container is running: the writers
  raced        \* observed: "no", "release" or "acquire" (see Goto)

files == <<dir, invocation, container>>
vars == <<pc, files, seen, guards, agents, raced>>

Acquiring ==
  {"mkdir", "read_invocation", "read_container", "inspect_running",
   "inspect_label", "rm_invocation", "rm_container", "rmdir", "mkdir_again",
   "write_invocation", "write_container"}
Releasing == {"signalled", "cleanup", "owner", "unlink_invocation",
              "unlink_container", "unlink_dir", "rm_guard"}
Owner == Launchers \cup {None}

\* Every variable has its type.
TypeOK ==
  /\ pc \in [Launchers -> Acquiring \cup Releasing
                            \cup {"off", "start_agent", "running", "done", "dead"}]
  /\ dir \in BOOLEAN
  /\ invocation \in Owner /\ container \in Owner
  /\ seen \in [Launchers -> [inv : Owner, con : Owner, up : {"true", "false"}]]
  /\ guards \in SUBSET Launchers /\ agents \in SUBSET Launchers
  /\ raced \in {"no", "release", "acquire"}

\* Some two launchers are at work on the lock, in the phases S, after this step.
Overlap(S) ==
  \E p, q \in Launchers : p # q /\ pc'[p] \in S /\ pc'[q] \in S

\* p comes to its next command, and the observer looks.
Goto(p, l) ==
  /\ pc' = [pc EXCEPT ![p] = l]
  /\ raced' = CASE raced = "acquire" \/ Overlap(Acquiring) -> "acquire"
                [] raced # "acquire" /\ ~Overlap(Acquiring) ->
                     IF Overlap(Acquiring \cup Releasing) THEN "release"
                     ELSE raced

-----------------------------------------------------------------------------
(* acquire_project_lock, acquire_eval_lock. *)

\* docker run --detach of the guard.
run_guard(p) ==
  /\ pc[p] = "off"
  /\ guards' = guards \cup {p}
  /\ Goto(p, "mkdir")
  /\ UNCHANGED <<files, seen, agents>>

mkdir(p) ==
  /\ pc[p] = "mkdir"
  /\ dir' = TRUE
  /\ Goto(p, IF dir THEN "read_invocation" ELSE "write_invocation")
  /\ UNCHANGED <<invocation, container, seen, guards, agents>>

read_invocation(p) ==
  /\ pc[p] = "read_invocation"
  /\ seen' = [seen EXCEPT ![p].inv = invocation]
  /\ Goto(p, "read_container")
  /\ UNCHANGED <<files, guards, agents>>

read_container(p) ==
  /\ pc[p] = "read_container"
  /\ seen' = [seen EXCEPT ![p].con = container]
  /\ Goto(p, "inspect_running")
  /\ UNCHANGED <<files, guards, agents>>

inspect_running(p) ==
  /\ pc[p] = "inspect_running"
  /\ seen' = [seen EXCEPT ![p].up = IF seen[p].con \in guards
                                    THEN "true" ELSE "false"]
  /\ Goto(p, "inspect_label")
  /\ UNCHANGED <<files, guards, agents>>

\* The guard is labelled with its owner's invocation; a container that has gone
\* shows no label.
Owned(p) ==
  LET label == IF seen[p].con \in guards THEN seen[p].con ELSE None
  IN seen[p].up = "true" /\ seen[p].inv # None /\ label = seen[p].inv

\* The second inspection, and the verdict: already open, or stale.
inspect_label(p) ==
  /\ pc[p] = "inspect_label"
  /\ Goto(p, IF Owned(p) THEN "cleanup" ELSE "rm_invocation")
  /\ UNCHANGED <<files, seen, guards, agents>>

rm_invocation(p) ==
  /\ pc[p] = "rm_invocation"
  /\ invocation' = None
  /\ Goto(p, "rm_container")
  /\ UNCHANGED <<dir, container, seen, guards, agents>>

\* Mutant: only the first file of a stale lock is removed.
rm_container_kept(p) ==
  /\ pc[p] = "rm_container"
  /\ Goto(p, "rmdir")
  /\ UNCHANGED <<files, seen, guards, agents>>

rm_container(p) ==
  /\ pc[p] = "rm_container"
  /\ container' = None
  /\ Goto(p, "rmdir")
  /\ UNCHANGED <<dir, invocation, seen, guards, agents>>

Empty == dir /\ invocation = None /\ container = None

rmdir(p) ==
  /\ pc[p] = "rmdir"
  /\ \/ Empty /\ dir' = FALSE /\ Goto(p, "mkdir_again")
     \/ ~Empty /\ UNCHANGED dir /\ Goto(p, "cleanup")
  /\ UNCHANGED <<invocation, container, seen, guards, agents>>

mkdir_again(p) ==
  /\ pc[p] = "mkdir_again"
  /\ dir' = TRUE
  /\ Goto(p, IF dir THEN "cleanup" ELSE "write_invocation")
  /\ UNCHANGED <<invocation, container, seen, guards, agents>>

\* A redirection into a directory that has gone fails, and set -e ends it.
write_invocation(p) ==
  /\ pc[p] = "write_invocation"
  /\ \/ dir /\ invocation' = p /\ Goto(p, "write_container")
     \/ ~dir /\ UNCHANGED invocation /\ Goto(p, "cleanup")
  /\ UNCHANGED <<dir, container, seen, guards, agents>>

write_container(p) ==
  /\ pc[p] = "write_container"
  /\ \/ dir /\ container' = p /\ Goto(p, "start_agent")
     \/ ~dir /\ UNCHANGED container /\ Goto(p, "cleanup")
  /\ UNCHANGED <<dir, invocation, seen, guards, agents>>

-----------------------------------------------------------------------------
(* The owner works, and the exit trap. *)

\* The agent container starts, in an experiment once per trial.
start_agent(p) ==
  /\ pc[p] = "start_agent"
  /\ agents' = agents \cup {p}
  /\ Goto(p, "running")
  /\ UNCHANGED <<files, seen, guards>>

agent_ends(p) ==
  /\ pc[p] = "running"
  /\ agents' = agents \ {p}
  /\ Goto(p, "cleanup")
  /\ UNCHANGED <<files, seen, guards>>

\* INT, HUP or TERM.
Signal(p) ==
  /\ pc[p] \in Acquiring \cup {"start_agent", "running"}
  /\ Goto(p, "signalled")
  /\ UNCHANGED <<files, seen, guards, agents>>

\* The containers go; the project's guard with them, the experiment's last.
cleanup(p) ==
  /\ pc[p] \in {"signalled", "cleanup"}
  /\ agents' = agents \ {p}
  /\ guards' = IF GuardFirst THEN guards \ {p} ELSE guards
  /\ Goto(p, "owner")
  /\ UNCHANGED <<files, seen>>

AfterLock == IF GuardFirst THEN "done" ELSE "rm_guard"

\* Mutant: cleanup removes whatever lock there is.
owner_any(p) ==
  /\ pc[p] = "owner"
  /\ Goto(p, IF dir THEN "unlink_invocation" ELSE AfterLock)
  /\ UNCHANGED <<files, seen, guards, agents>>

\* The lock is removed only by the invocation that it names.
owner(p) ==
  /\ pc[p] = "owner"
  /\ Goto(p, IF dir /\ invocation = p THEN "unlink_invocation" ELSE AfterLock)
  /\ UNCHANGED <<files, seen, guards, agents>>

unlink_invocation(p) ==
  /\ pc[p] = "unlink_invocation"
  /\ invocation' = None
  /\ Goto(p, "unlink_container")
  /\ UNCHANGED <<dir, container, seen, guards, agents>>

unlink_container(p) ==
  /\ pc[p] = "unlink_container"
  /\ container' = None
  /\ Goto(p, "unlink_dir")
  /\ UNCHANGED <<dir, invocation, seen, guards, agents>>

\* rmdir || true.
unlink_dir(p) ==
  /\ pc[p] = "unlink_dir"
  /\ dir' = (dir /\ ~Empty)
  /\ Goto(p, AfterLock)
  /\ UNCHANGED <<invocation, container, seen, guards, agents>>

rm_guard(p) ==
  /\ pc[p] = "rm_guard"
  /\ guards' = guards \ {p}
  /\ Goto(p, "done")
  /\ UNCHANGED <<files, seen, agents>>

\* SIGKILL, or a second signal during the cleanup: no trap runs.
Kill(p) ==
  /\ pc[p] \notin {"off", "done", "dead"}
  /\ Goto(p, "dead")
  /\ UNCHANGED <<files, seen, guards, agents>>

\* Docker stops, or somebody removes, the containers of a killed launcher.
ContainersLost(p) ==
  /\ pc[p] = "dead" /\ p \in guards
  /\ guards' = guards \ {p} /\ agents' = agents \ {p}
  /\ UNCHANGED <<pc, files, seen, raced>>

-----------------------------------------------------------------------------
Init ==
  /\ pc = [p \in Launchers |-> "off"]
  /\ dir = FALSE /\ invocation = None /\ container = None
  /\ seen = [p \in Launchers |-> [inv |-> None, con |-> None, up |-> "false"]]
  /\ guards = {} /\ agents = {}
  /\ raced = "no"

Acquire(p) ==
  \/ mkdir(p) \/ read_invocation(p) \/ read_container(p)
  \/ inspect_running(p) \/ inspect_label(p) \/ rm_invocation(p)
  \/ rm_container(p) \/ rmdir(p) \/ mkdir_again(p)
  \/ write_invocation(p) \/ write_container(p) \/ start_agent(p)

Release(p) ==
  \/ cleanup(p) \/ owner(p) \/ unlink_invocation(p) \/ unlink_container(p)
  \/ unlink_dir(p) \/ rm_guard(p)

Next ==
  \E p \in Launchers :
    \/ run_guard(p) \/ Acquire(p) \/ agent_ends(p) \/ Signal(p) \/ Release(p)
    \/ Kill(p) \/ ContainersLost(p)

Spec == Init /\ [][Next]_vars

\* A launcher that lives runs its next command; the agent may run for ever.
FairSpec == Spec /\ \A p \in Launchers : WF_vars(Acquire(p) \/ Release(p))

-----------------------------------------------------------------------------
(* Properties. *)

\* At most one writer's agent is running, whatever launchers start, stop or
\* are killed.
OneWriter == \A p, q \in agents : p = q

\* The same as long as no two launchers are taking the lock at the same time;
\* releases may overlap with the rest.  It does not hold (README, 5).
OneWriterSerial == raced # "acquire" => OneWriter

\* The same as long as no two launchers are taking or releasing the lock at the
\* same time, kills and reclaimed locks included.
OneWriterApart == raced = "no" => OneWriter

\* Under the same condition the lock names every agent's launcher in both
\* files and its guard is running, so that whoever comes next is refused; in
\* particular there is at most one agent, OneWriterApart.
WriterIsNamed ==
  raced = "no" =>
    \A p \in agents : dir /\ invocation = p /\ container = p /\ p \in guards

\* The lock of a launcher that is gone, whatever it left behind, is no
\* obstacle: a launcher that is alone starts its agent, unless it is stopped.
Alone(p) ==
  \A q \in Launchers \ {p} : pc[q] \in {"off", "done", "dead"} /\ q \notin guards

StaleLockReclaimed ==
  \A p \in Launchers :
    pc[p] = "mkdir" /\ Alone(p)
      ~> p \in agents \/ ~Alone(p) \/ pc[p] \in {"signalled", "dead"}
=============================================================================
