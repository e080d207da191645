------------------------------ MODULE Evidence ------------------------------
(***************************************************************************)
(* How evidence becomes a readiness verdict: a development experiment, the *)
(* policy frozen from it, the held-out experiment run under that policy,   *)
(* an engineering verification of the same source and images, and the      *)
(* assessment of both (eval run, resume, freeze, verify and assess in      *)
(* route-agent; src/evaluation/benchmark.ts, verification.ts, readiness.ts *)
(* and the manifest and policy code of smoke.ts and analysis.ts).          *)
(*                                                                         *)
(* All of it rests on files and image tags that the operator may change    *)
(* meanwhile: the source tree, the configuration file, the images.  A      *)
(* configuration is told apart by its threshold, an image by its build;    *)
(* the commands run concurrently, at most one on each experiment.          *)
(***************************************************************************)
EXTENDS Integers, Sequences, FiniteSetsExt

CONSTANTS
  Configs,    \* contents of the configuration file
  Flaws,      \* per content of the source tree, the checks that fail on it
  Size,       \* per experiment, the number of trials in its schedule
  MaxTries,   \* bound: attempts of one experiment
  MaxBuilds,  \* bound: builds of the images
  MaxEdits,   \* bound: edits of the source tree and the configuration file
  Quiet,      \* the source tree and the images change only while no command runs
  Freezers,   \* invocations of eval freeze
  None        \* null, undefined, a file that does not exist

Sources     == DOMAIN Flaws
Experiments == {"dev", "heldout"}

\* The required checks; contracts stands for the tests of the source tree that
\* both levels run, mock-smoke for those of the images, all-tests for the rest.
QUICK_CHECKS == <<"source-images", "contracts", "mock-smoke">>
FULL_CHECKS  == QUICK_CHECKS \o <<"all-tests">>

ASSUME EvidenceAssumption ==
  /\ Flaws \in [Sources -> SUBSET {FULL_CHECKS[i] : i \in 2..Len(FULL_CHECKS)}]
  /\ Size \in [Experiments -> Nat \ {0}]
  /\ {MaxTries, MaxEdits} \subseteq Nat /\ MaxBuilds \in Nat \ {0}
  /\ Quiet \in BOOLEAN

VARIABLES
  source, config,  \* the source tree and the configuration file
  image,           \* what the image tags name: a build, and the source it was made from
  edits,           \* edits so far
  exp,             \* per experiment, its manifest and attempts
  run,             \* per experiment, the run or resume command at work on it
  policy,          \* policy.json of the development experiment
  freezer,         \* per eval freeze, the policy it is about to write
  verification,    \* the verification report that is assessed
  verifying        \* eval verify is at work

vars == <<source, config, image, edits, exp, run, policy, freezer,
          verification, verifying>>

Image == [source : Sources, build : 1..MaxBuilds]

\* The protocol of a benchmark policy.
Benchmark == [config : Configs, source : Sources, image : Image, exposure : BOOLEAN]

Policy == [config : Configs, benchmark : Benchmark \cup {None}]

Attempt == [config : Configs, image : Image, outcome : {"evaluated", "unavailable"}]

\* An experiment: its manifest, with the configuration and the fingerprint that the
\* config check took of it, and its attempts.
Manifest ==
  [config : Configs, fp : Configs, source : Sources, image : Image,
   benchmark : Benchmark \cup {None}, attempts : Seq(Attempt)]

\* A command at work on an experiment.
Run == [pc : {"off", "verify", "create", "resume", "dispatch"}, fp : Configs \cup {None},
        source : Sources \cup {None}, own : BOOLEAN]

Verification == [level : {"quick", "full"}, source : Sources, image : Image,
                 checks : Seq(BOOLEAN)]

\* None is nothing else.
ASSUME NoneAssumption ==
  /\ None \notin Sources \cup Configs \cup {"PASS", "FAIL", "INCONCLUSIVE"}
  /\ None \notin Benchmark \cup Policy \cup Manifest \cup Verification

\* Every variable has its type.
TypeOK ==
  /\ source \in Sources /\ config \in Configs /\ image \in Image
  /\ edits \in 0..MaxEdits
  /\ exp \in [Experiments -> Manifest \cup {None}]
  /\ run \in [Experiments -> Run]
  /\ policy \in Policy \cup {None}
  /\ freezer \in [Freezers -> Policy \cup {None}]
  /\ verification \in Verification \cup {None} /\ verifying \in BOOLEAN

-----------------------------------------------------------------------------
(* The operator. *)

Idle ==
  /\ \A e \in Experiments : run[e].pc = "off"
  /\ \A f \in Freezers : freezer[f] = None
  /\ ~verifying

EditConfig(c) ==
  /\ edits < MaxEdits /\ c # config
  /\ config' = c /\ edits' = edits + 1
  /\ UNCHANGED <<source, image, exp, run, policy, freezer, verification, verifying>>

EditSource(s) ==
  /\ Quiet => Idle
  /\ edits < MaxEdits /\ s # source
  /\ source' = s /\ edits' = edits + 1
  /\ UNCHANGED <<config, image, exp, run, policy, freezer, verification, verifying>>

\* route-agent build: the tags name new images, made from the tree as it is.
build ==
  /\ Quiet => Idle
  /\ image.build < MaxBuilds
  /\ image' = [source |-> source, build |-> image.build + 1]
  /\ UNCHANGED <<source, config, edits, exp, run, policy, freezer, verification, verifying>>

-----------------------------------------------------------------------------
(* Running an experiment. *)

Off == [pc |-> "off", fp |-> None, source |-> None, own |-> FALSE]

World == <<source, config, image, edits>>
Others == <<policy, freezer, verification, verifying>>

\* The command on e goes on as r; nothing else changes.
Continue(e, r) ==
  /\ run' = [run EXCEPT ![e] = r]
  /\ UNCHANGED <<World, exp, Others>>

Evaluated(x) == Quantify(DOMAIN x.attempts, LAMBDA i : x.attempts[i].outcome = "evaluated")

Done(e) == Evaluated(exp[e]) = Size[e]

\* The images were built from the tree as it is.
verify_source_images == image.source = source

\* Mutant: the protocol is compared with the configuration only.
verifyBenchmarkExecution_config(b, s) == b.config = config

\* The protocol b agrees with the configuration file, the images and the source s.
verifyBenchmarkExecution(b, s) == b.config = config /\ b.source = s /\ b.image = image

\* eval run starts with the config check, whose fingerprints are kept.
eval_run(e) ==
  /\ exp[e] = None /\ run[e].pc = "off"
  /\ e = "heldout" => policy # None
  /\ Continue(e, [Off EXCEPT !.pc = "verify", !.fp = config])

\* The source and the images are compared and, for a held-out run, the policy is
\* verified.
verify(e) ==
  /\ run[e].pc = "verify"
  /\ LET accepted ==
           /\ verify_source_images
           /\ e = "heldout" =>
                /\ policy.config = config
                /\ policy.benchmark # None => verifyBenchmarkExecution(policy.benchmark, source)
     IN Continue(e, IF accepted THEN [run[e] EXCEPT !.pc = "create", !.source = source] ELSE Off)

\* createSmokeManifest reads the configuration, the images and the policy again.
create(e) ==
  LET benchmark == IF e = "heldout" THEN policy.benchmark ELSE None
  IN /\ run[e].pc = "create"
     /\ \/ /\ benchmark # None /\ ~verifyBenchmarkExecution(benchmark, run[e].source)
           /\ Continue(e, Off)
        \/ /\ benchmark # None => verifyBenchmarkExecution(benchmark, run[e].source)
           /\ exp' = [exp EXCEPT ![e] =
                        [config |-> config, fp |-> run[e].fp, source |-> run[e].source,
                         image |-> image, benchmark |-> benchmark, attempts |-> <<>>]]
           /\ run' = [run EXCEPT ![e] = [Off EXCEPT !.pc = "dispatch", !.own = TRUE]]
           /\ UNCHANGED <<World, Others>>

\* The configuration the command on e uses: the file it was given, or the copy
\* that resume restores from the manifest.
ConfigOf(e, own) == IF own THEN config ELSE exp[e].config

\* eval resume, with the restored configuration or with --config.
eval_resume(e, own) ==
  /\ exp[e] # None /\ run[e].pc = "off"
  /\ Continue(e, [Off EXCEPT !.pc = "resume", !.fp = ConfigOf(e, own), !.own = own])

\* Mutant: the image identities are not compared.
verifyResumeCompatibility_images(e) ==
  /\ ConfigOf(e, run[e].own) = exp[e].config
  /\ run[e].fp = exp[e].fp
  /\ source = exp[e].source

verifyResumeCompatibility(e) ==
  /\ ConfigOf(e, run[e].own) = exp[e].config
  /\ run[e].fp = exp[e].fp
  /\ source = exp[e].source
  /\ image = exp[e].image

verify_resume(e) ==
  /\ run[e].pc = "resume"
  /\ Continue(e, IF verify_source_images /\ verifyResumeCompatibility(e)
                 THEN [Off EXCEPT !.pc = "dispatch", !.own = run[e].own] ELSE Off)

\* One attempt: the agent runs in the image that the tag names now, on the
\* configuration as it is now.  An infrastructure failure stops the dispatch.
eval_run_trial(e, outcome) ==
  /\ run[e].pc = "dispatch" /\ ~Done(e)
  /\ Len(exp[e].attempts) < MaxTries
  /\ exp' = [exp EXCEPT ![e].attempts =
               Append(@, [config |-> ConfigOf(e, run[e].own), image |-> image,
                          outcome |-> outcome])]
  /\ run' = [run EXCEPT ![e] = IF outcome = "evaluated" THEN @ ELSE Off]
  /\ UNCHANGED <<World, Others>>

\* The schedule is done, or the command was interrupted or killed.
Ends(e) ==
  /\ run[e].pc # "off"
  /\ Continue(e, Off)

-----------------------------------------------------------------------------
(* Freezing a policy.  eval freeze takes no lock. *)

\* loadExperimentRecords accepts every attempt: its configHash is the manifest's.
Loads(x) == \A i \in DOMAIN x.attempts : x.attempts[i].config = x.fp

\* No trial is without a finalized attempt.
NoneIncomplete(e) ==
  \/ Done(e)
  \/ /\ exp[e].attempts # <<>>
     /\ Evaluated(exp[e]) = Size[e] - 1
     /\ exp[e].attempts[Len(exp[e].attempts)].outcome = "unavailable"

makeBenchmarkProtocol(threshold, exposed) ==
  [config |-> threshold, source |-> exp["dev"].source, image |-> exp["dev"].image,
   exposure |-> exposed]

\* freezePolicy up to its look for an existing policy, which it never replaces.
freezePolicy(f, threshold, profile) ==
  /\ freezer[f] = None
  /\ exp["dev"] # None /\ Loads(exp["dev"]) /\ NoneIncomplete("dev")
  /\ profile # "none" => Done("dev")
  /\ policy = None
  /\ freezer' = [freezer EXCEPT ![f] =
       [config    |-> threshold,
        benchmark |-> IF profile = "none" THEN None
                      ELSE makeBenchmarkProtocol(threshold, profile = "exposed")]]
  /\ UNCHANGED <<World, exp, run, policy, verification, verifying>>

\* Its durableWrite, unless it was killed before.
durableWrite(f) ==
  /\ freezer[f] # None
  /\ policy' \in {freezer[f], policy}
  /\ freezer' = [freezer EXCEPT ![f] = None]
  /\ UNCHANGED <<World, exp, run, verification, verifying>>

-----------------------------------------------------------------------------
(* Verification and assessment. *)

initializeVerification(level) ==
  /\ verification = None
  /\ verifying' = TRUE
  /\ verification' = [level |-> level, source |-> source, image |-> image, checks |-> <<>>]
  /\ UNCHANGED <<World, exp, run, policy, freezer>>

Required(level) == IF level = "full" THEN FULL_CHECKS ELSE QUICK_CHECKS

\* What the check finds: tests run on the tree, the smoke run in the images.
Passes(check) ==
  CASE check = "source-images" -> image.source = verification.source
    [] check = "mock-smoke"    -> verify_source_images /\ check \notin Flaws[image.source]
    [] OTHER                   -> check \notin Flaws[source]

\* verification_step: the next check is run and recorded.  Without images of the
\* source no other check is run.
recordVerification ==
  LET n == Len(verification.checks) + 1
      passed == Passes(Required(verification.level)[n])
  IN /\ verifying
     /\ n <= Len(Required(verification.level))
     /\ verification' = [verification EXCEPT !.checks = Append(@, passed)]
     /\ verifying' = ((passed \/ n > 1) /\ n < Len(Required(verification.level)))
     /\ UNCHANGED <<World, exp, run, policy, freezer>>

VerifyKilled ==
  /\ verifying /\ verifying' = FALSE
  /\ UNCHANGED <<World, exp, run, policy, freezer, verification>>

\* The status of a verification report.
Status(v) ==
  CASE \E i \in DOMAIN v.checks : ~v.checks[i]    -> "FAIL"
    [] Len(v.checks) = Len(Required(v.level))
         /\ \A i \in DOMAIN v.checks : v.checks[i] -> "PASS"
    [] OTHER                                      -> "INCOMPLETE"

\* assessReadiness; metrics says how the confidence intervals lie to the targets,
\* "across" also where usage is missing.
assessReadiness(h, v, metrics) ==
  LET matches     == h.source = v.source /\ h.image = v.image
      engineering == CASE ~matches -> "INCONCLUSIVE"
                       [] matches /\ Status(v) = "FAIL" -> "FAIL"
                       [] matches /\ Status(v) = "PASS" /\ v.level = "full" -> "PASS"
                       [] OTHER -> "INCONCLUSIVE"
      eligible    == h.benchmark # None /\ ~h.benchmark.exposure
      complete    == Evaluated(h) = Size["heldout"]
  IN CASE engineering = "FAIL" -> "FAIL"
       [] engineering # "FAIL" /\ eligible /\ complete /\ metrics = "below" -> "FAIL"
       [] engineering = "PASS" /\ eligible /\ complete /\ metrics = "above" -> "PASS"
       [] OTHER -> "INCONCLUSIVE"

\* What generateReadiness makes of the two directories: it throws if the records
\* do not load, and changes neither.
generateReadiness(metrics) ==
  IF exp["heldout"] = None \/ verification = None \/ ~Loads(exp["heldout"]) THEN None
  ELSE assessReadiness(exp["heldout"], verification, metrics)

-----------------------------------------------------------------------------
Init ==
  /\ source \in Sources /\ config \in Configs
  /\ image = [source |-> source, build |-> 1]
  /\ edits = 0
  /\ exp = [e \in Experiments |-> None]
  /\ run = [e \in Experiments |-> Off]
  /\ policy = None
  /\ freezer = [f \in Freezers |-> None]
  /\ verification = None /\ verifying = FALSE

Operator ==
  \/ \E c \in Configs : EditConfig(c)
  \/ \E s \in Sources : EditSource(s)
  \/ build

Command(e) ==
  \/ eval_run(e)
  \/ verify(e)
  \/ create(e)
  \/ \E own \in BOOLEAN : eval_resume(e, own)
  \/ verify_resume(e)
  \/ \E outcome \in {"evaluated", "unavailable"} : eval_run_trial(e, outcome)
  \/ Ends(e)

Freeze(f) ==
  \/ \E threshold \in Configs, profile \in {"none", "harness-v1", "exposed"} :
       freezePolicy(f, threshold, profile)
  \/ durableWrite(f)

Verify ==
  \/ \E level \in {"quick", "full"} : initializeVerification(level)
  \/ recordVerification
  \/ VerifyKilled

Next ==
  \/ Operator
  \/ \E e \in Experiments : Command(e)
  \/ \E f \in Freezers : Freeze(f)
  \/ Verify

Spec == Init /\ [][Next]_vars

-----------------------------------------------------------------------------
(* What a verdict stands on. *)

\* A readiness PASS, whenever it is given, stands on what it says: every attempt of
\* both experiments ran in the one image whose source passes every check, under one
\* configuration for all attempts of an experiment, every held-out and development
\* trial was evaluated, and the configuration of the held-out attempts is the
\* protocol's unless the file was edited while the run was being launched (README, 5).
VerdictSound ==
  (\E metrics \in {"below", "across", "above"} : generateReadiness(metrics) = "PASS") =>
    LET h == exp["heldout"]
        d == exp["dev"]
        attemptsOf(x) == {x.attempts[i] : i \in DOMAIN x.attempts}
    IN /\ \A a \in attemptsOf(h) \cup attemptsOf(d) :
            a.image = h.image /\ Flaws[a.image.source] = {}
       /\ \A a \in attemptsOf(h) : a.config = h.fp
       /\ h.fp = h.config => \A a \in attemptsOf(h) : a.config = h.benchmark.config
       /\ Done("heldout") /\ Done("dev")

\* A benchmark binds the held-out experiment to the development experiment it was
\* frozen from, also when a second freeze replaces the policy or the configuration
\* is edited between the check of the policy and the creation of the manifest: same
\* source, same image, the frozen configuration, all development trials evaluated.
PolicyBindsHeldout ==
  LET h == exp["heldout"]
      d == exp["dev"]
  IN h # None /\ h.benchmark # None =>
       /\ h.config = h.benchmark.config
       /\ h.source = d.source /\ h.image = d.image
       /\ Loads(d) /\ Done("dev")

\* A frozen policy is never replaced.  It does not hold (README, 5).
PolicyIsImmutable == [][policy # None => policy' = policy]_policy
=============================================================================
