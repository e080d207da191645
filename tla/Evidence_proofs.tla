--------------------------- MODULE Evidence_proofs ---------------------------
(***************************************************************************)
(* What a readiness verdict stands on, for any number of configurations,   *)
(* sources, checks that fail on them, trials, freezes, builds and edits.   *)
(***************************************************************************)
EXTENDS Evidence, SequenceTheorems, TLAPS

\* A benchmark protocol speaks of the development experiment, which was complete
\* when the protocol was made and has not changed since.
Binds(b) ==
  /\ exp["dev"] # None
  /\ b.source = exp["dev"].source /\ b.image = exp["dev"].image
  /\ Loads(exp["dev"]) /\ Done("dev")

BenchmarksBind ==
  /\ policy # None /\ policy.benchmark # None => Binds(policy.benchmark)
  /\ \A f \in Freezers :
       freezer[f] # None /\ freezer[f].benchmark # None => Binds(freezer[f].benchmark)

\* A run creates the manifest it has not found, a resume and a dispatch have one; a
\* held-out run has a policy.
RunsSound ==
  /\ \A e \in Experiments :
       /\ run[e].pc \in {"verify", "create"} => exp[e] = None /\ run[e].fp \in Configs
       /\ run[e].pc = "create" => run[e].source \in Sources
       /\ run[e].pc \in {"resume", "dispatch"} => exp[e] # None
  /\ run["heldout"].pc \in {"verify", "create"} => policy # None

\* While a command is at work and the operator keeps still, the attempts of an
\* experiment are made in the image of its manifest.
ImagesKept ==
  \A e \in Experiments :
    /\ run[e].pc = "dispatch" => image = exp[e].image
    /\ exp[e] # None =>
         \A i \in 1..Len(exp[e].attempts) : exp[e].attempts[i].image = exp[e].image

\* A check that passed holds of the source and the image the verification names.
CheckHolds(v, check) ==
  CASE check = "source-images" -> v.image.source = v.source
    [] check = "mock-smoke"    -> check \notin Flaws[v.image.source]
    [] OTHER                   -> check \notin Flaws[v.source]

VerificationHolds ==
  verification # None =>
    /\ verifying => source = verification.source /\ image = verification.image
    /\ Len(verification.checks) <= Len(Required(verification.level))
    /\ \A i \in 1..Len(verification.checks) :
         verification.checks[i] =>
           CheckHolds(verification, Required(verification.level)[i])

Still == verifying => verification # None

\* A held-out experiment with a benchmark is the one the benchmark binds.
HeldoutBound ==
  LET h == exp["heldout"]
  IN h # None /\ h.benchmark # None =>
       /\ Binds(h.benchmark) /\ h.config = h.benchmark.config
       /\ h.source = h.benchmark.source /\ h.image = h.benchmark.image

IInv == /\ TypeOK /\ BenchmarksBind /\ RunsSound /\ HeldoutBound /\ Still
        /\ Quiet => ImagesKept /\ VerificationHolds

-----------------------------------------------------------------------------
(* Types. *)

LEMMA ExperimentsAre == "dev" \in Experiments /\ "heldout" \in Experiments
                        /\ \A e \in Experiments : e = "dev" \/ e = "heldout"
BY DEF Experiments

LEMMA OffRun == Off \in Run /\ Off.pc = "off"
BY DEF Off, Run

\* A step of the command on e that only moves the command on.
LEMMA ContinueType ==
  ASSUME TypeOK, NEW e \in Experiments, NEW r \in Run, Continue(e, r)
  PROVE  TypeOK'
BY DEF TypeOK, Continue, World, Others

\* A manifest is created where there was none, of the tree, the images and the
\* configuration as they are, and bound by the policy as it is.
LEMMA Creates ==
  ASSUME TypeOK, RunsSound, NEW e \in Experiments, create(e), ~Continue(e, Off)
  PROVE  /\ exp[e] = None /\ exp'[e] \in Manifest /\ exp'[e].attempts = <<>>
         /\ exp'[e].config = config /\ exp'[e].image = image
         /\ exp'[e].benchmark # None =>
              /\ e = "heldout" /\ policy # None /\ exp'[e].benchmark = policy.benchmark
              /\ exp'[e].benchmark.config = config
              /\ exp'[e].benchmark.source = exp'[e].source
              /\ exp'[e].benchmark.image = image
         /\ run'[e] \in Run /\ run'[e].pc = "dispatch"
         /\ exp' \in [Experiments -> Manifest \cup {None}] /\ run' \in [Experiments -> Run]
         /\ \A d \in Experiments \ {e} : exp'[d] = exp[d] /\ run'[d] = run[d]
         /\ UNCHANGED <<source, config, image, edits, policy, freezer, verification, verifying>>
<1> DEFINE b == IF e = "heldout" THEN policy.benchmark ELSE None
<1> DEFINE x == [config |-> config, fp |-> run[e].fp, source |-> run[e].source,
                 image |-> image, benchmark |-> b, attempts |-> <<>>]
<1>1. /\ exp' = [exp EXCEPT ![e] = x]
      /\ run' = [run EXCEPT ![e] = [Off EXCEPT !.pc = "dispatch", !.own = TRUE]]
      /\ UNCHANGED <<World, Others>> /\ run[e].pc = "create"
      /\ b # None => verifyBenchmarkExecution(b, run[e].source)
  BY DEF create
<1>2. b \in Benchmark \cup {None} /\ (e = "heldout" => policy # None)
  BY <1>1, ExperimentsAre DEF RunsSound, TypeOK, Policy
<1>3. run[e].fp \in Configs /\ run[e].source \in Sources /\ exp[e] = None
  BY <1>1 DEF RunsSound
<1>4. <<>> \in Seq(Attempt)
  OBVIOUS
<1>5. x \in Manifest
  BY <1>2, <1>3, <1>4 DEF TypeOK, Manifest
<1>6. LET r == [Off EXCEPT !.pc = "dispatch", !.own = TRUE] IN r \in Run /\ r.pc = "dispatch"
  BY DEF Off, Run
<1>7. /\ exp' \in [Experiments -> Manifest \cup {None}] /\ run' \in [Experiments -> Run]
      /\ \A d \in Experiments \ {e} : exp'[d] = exp[d] /\ run'[d] = run[d]
      /\ exp'[e] = x /\ run'[e] \in Run /\ run'[e].pc = "dispatch"
  BY <1>1, <1>5, <1>6 DEF TypeOK
<1>8. b # None => /\ e = "heldout" /\ b = policy.benchmark /\ b.config = config
                  /\ b.source = run[e].source /\ b.image = image
  BY <1>1 DEF verifyBenchmarkExecution
<1> HIDE DEF b
<1> QED
  BY <1>1, <1>2, <1>3, <1>5, <1>7, <1>8 DEF World, Others

\* An attempt is appended to an experiment that is not complete.
LEMMA Trials ==
  ASSUME TypeOK, RunsSound, NEW e \in Experiments,
         NEW outcome \in {"evaluated", "unavailable"}, eval_run_trial(e, outcome)
  PROVE  /\ exp[e] \in Manifest /\ run[e].pc = "dispatch" /\ ~Done(e)
         /\ \E a \in Attempt :
              /\ a.image = image
              /\ exp'[e] = [exp[e] EXCEPT !.attempts = Append(exp[e].attempts, a)]
         /\ exp'[e] \in Manifest
         /\ run'[e] = run[e] \/ run'[e] = Off
         /\ exp' \in [Experiments -> Manifest \cup {None}] /\ run' \in [Experiments -> Run]
         /\ \A d \in Experiments \ {e} : exp'[d] = exp[d] /\ run'[d] = run[d]
         /\ UNCHANGED <<source, config, image, edits, policy, freezer, verification, verifying>>
<1>1. exp[e] \in Manifest /\ run[e].pc = "dispatch"
  BY DEF eval_run_trial, RunsSound, TypeOK
<1> DEFINE a == [config |-> ConfigOf(e, run[e].own), image |-> image, outcome |-> outcome]
<1>2. a \in Attempt /\ a.image = image
  BY <1>1 DEF TypeOK, Attempt, ConfigOf, Manifest
<1> DEFINE x == [exp[e] EXCEPT !.attempts = Append(exp[e].attempts, a)]
<1>3. exp[e].attempts \in Seq(Attempt)
  BY <1>1 DEF Manifest
<1>4. Append(exp[e].attempts, a) \in Seq(Attempt)
  BY <1>2, <1>3, AppendProperties
<1>5. x \in Manifest
  BY <1>1, <1>4 DEF Manifest
<1>6. exp' = [exp EXCEPT ![e] = x]
  BY DEF eval_run_trial, TypeOK
<1>7. /\ exp' \in [Experiments -> Manifest \cup {None}] /\ exp'[e] = x
      /\ \A d \in Experiments \ {e} : exp'[d] = exp[d]
  BY <1>5, <1>6 DEF TypeOK
<1>8. /\ run' \in [Experiments -> Run] /\ (run'[e] = run[e] \/ run'[e] = Off)
      /\ \A d \in Experiments \ {e} : run'[d] = run[d]
  BY OffRun DEF TypeOK, eval_run_trial
<1>9. /\ UNCHANGED <<source, config, image, edits, policy, freezer, verification, verifying>>
      /\ ~Done(e)
  BY DEF eval_run_trial, World, Others
<1> HIDE DEF a
<1> QED
  BY <1>1, <1>2, <1>5, <1>7, <1>8, <1>9

LEMMA InitType == Init => TypeOK
<1> SUFFICES ASSUME Init PROVE TypeOK
  OBVIOUS
<1>1. image \in Image
  BY EvidenceAssumption DEF Init, Image
<1>2. run \in [Experiments -> Run]
  BY OffRun DEF Init
<1>3. verifying \in BOOLEAN
  BY DEF Init
<1>4. edits \in 0..MaxEdits
  BY EvidenceAssumption DEF Init
<1> QED
  BY <1>1, <1>2, <1>3, <1>4 DEF Init, TypeOK

LEMMA OperatorType == ASSUME TypeOK, Operator PROVE TypeOK'
<1>1. CASE \E c \in Configs : EditConfig(c)
  BY <1>1, EvidenceAssumption DEF TypeOK, EditConfig
<1>2. CASE \E s \in Sources : EditSource(s)
  BY <1>2, EvidenceAssumption DEF TypeOK, EditSource
<1>3. CASE build
  <2>1. image' \in Image
    BY <1>3, EvidenceAssumption DEF TypeOK, build, Image
  <2> QED
    BY <1>3, <2>1 DEF TypeOK, build
<1> QED
  BY <1>1, <1>2, <1>3 DEF Operator

LEMMA CommandType == ASSUME TypeOK, RunsSound, NEW e \in Experiments, Command(e) PROVE TypeOK'
<1>0. run[e] \in Run
  BY DEF TypeOK
<1>1. CASE eval_run(e)
  <2>1. [Off EXCEPT !.pc = "verify", !.fp = config] \in Run
    BY DEF Off, Run, TypeOK
  <2> QED
    BY <1>1, <2>1, ContinueType DEF eval_run
<1>2. CASE verify(e)
  <2>1. [run[e] EXCEPT !.pc = "create", !.source = source] \in Run
    BY <1>0 DEF Run, TypeOK
  <2>2. \E r \in Run : Continue(e, r)
    BY <1>2, <2>1, OffRun DEF verify
  <2> QED
    BY <2>2, ContinueType
<1>3. CASE create(e)
  <2>1. CASE Continue(e, Off)
    BY <2>1, OffRun, ContinueType
  <2>2. CASE ~Continue(e, Off)
    BY <1>3, <2>2, Creates DEF TypeOK
  <2> QED
    BY <2>1, <2>2
<1>4. CASE \E own \in BOOLEAN : eval_resume(e, own)
  <2>1. PICK own \in BOOLEAN : eval_resume(e, own)
    BY <1>4
  <2>2. ConfigOf(e, own) \in Configs
    BY <2>1 DEF eval_resume, ConfigOf, TypeOK, Manifest
  <2>3. [Off EXCEPT !.pc = "resume", !.fp = ConfigOf(e, own), !.own = own] \in Run
    BY <2>2 DEF Off, Run
  <2> QED
    BY <2>1, <2>3, ContinueType DEF eval_resume
<1>5. CASE verify_resume(e)
  <2>1. [Off EXCEPT !.pc = "dispatch", !.own = run[e].own] \in Run
    BY <1>0 DEF Off, Run
  <2>2. \E r \in Run : Continue(e, r)
    BY <1>5, <2>1, OffRun DEF verify_resume
  <2> QED
    BY <2>2, ContinueType
<1>6. CASE \E outcome \in {"evaluated", "unavailable"} : eval_run_trial(e, outcome)
  <2>1. PICK outcome \in {"evaluated", "unavailable"} : eval_run_trial(e, outcome)
    BY <1>6
  <2> QED
    BY <2>1, Trials DEF TypeOK
<1>7. CASE Ends(e)
  BY <1>7, OffRun, ContinueType DEF Ends
<1> QED
  BY <1>1, <1>2, <1>3, <1>4, <1>5, <1>6, <1>7 DEF Command

LEMMA FreezeType == ASSUME TypeOK, NEW f \in Freezers, Freeze(f) PROVE TypeOK'
<1>1. CASE \E threshold \in Configs, profile \in {"none", "harness-v1", "exposed"} :
             freezePolicy(f, threshold, profile)
  <2>1. PICK threshold \in Configs, profile \in {"none", "harness-v1", "exposed"} :
               freezePolicy(f, threshold, profile)
    BY <1>1
  <2>2. exp["dev"] \in Manifest
    BY <2>1, ExperimentsAre DEF freezePolicy, TypeOK
  <2>3. makeBenchmarkProtocol(threshold, profile = "exposed") \in Benchmark
    BY <2>2 DEF makeBenchmarkProtocol, Benchmark, Manifest
  <2>4. freezer' \in [Freezers -> Policy \cup {None}]
    BY <2>1, <2>3 DEF freezePolicy, TypeOK, Policy
  <2> QED
    BY <2>1, <2>4 DEF freezePolicy, TypeOK, World
<1>2. CASE durableWrite(f)
  BY <1>2 DEF durableWrite, TypeOK, World
<1> QED
  BY <1>1, <1>2 DEF Freeze

\* A check is recorded at the end of the report.
LEMMA Records ==
  ASSUME TypeOK, Still, recordVerification
  PROVE  LET n == Len(verification.checks) + 1
             passed == Passes(Required(verification.level)[n])
         IN /\ verification \in Verification /\ verification # None
            /\ passed \in BOOLEAN
            /\ verification' = [verification EXCEPT !.checks = Append(verification.checks, passed)]
            /\ verification' \in Verification
            /\ n <= Len(Required(verification.level)) /\ UNCHANGED <<source, image>>
<1>1. verification \in Verification /\ verification # None
  BY DEF recordVerification, Still, TypeOK
<1> DEFINE passed == Passes(Required(verification.level)[Len(verification.checks) + 1])
<1>2. passed \in BOOLEAN
  BY DEF Passes, verify_source_images
<1>3. verification.checks \in Seq(BOOLEAN)
  BY <1>1 DEF Verification
<1>4. Append(verification.checks, passed) \in Seq(BOOLEAN)
  BY <1>2, <1>3, AppendProperties
<1>5. verification' = [verification EXCEPT !.checks = Append(verification.checks, passed)]
  BY <1>1 DEF recordVerification
<1>6. verification' \in Verification
  BY <1>1, <1>4, <1>5 DEF Verification
<1> QED
  BY <1>1, <1>2, <1>5, <1>6 DEF recordVerification, World

LEMMA VerifyType == ASSUME TypeOK, Still, Verify PROVE TypeOK'
<1>1. CASE \E level \in {"quick", "full"} : initializeVerification(level)
  <2>1. <<>> \in Seq(BOOLEAN)
    OBVIOUS
  <2>2. verification' \in Verification
    BY <1>1, <2>1 DEF initializeVerification, Verification, TypeOK
  <2> QED
    BY <1>1, <2>2 DEF initializeVerification, TypeOK, World
<1>2. CASE recordVerification
  <2>1. verification' \in Verification
    BY <1>2, Records
  <2>2. verifying' \in BOOLEAN
    BY <1>2 DEF recordVerification
  <2> QED
    BY <1>2, <2>1, <2>2 DEF recordVerification, TypeOK, World
<1>3. CASE VerifyKilled
  BY <1>3 DEF VerifyKilled, TypeOK, World
<1> QED
  BY <1>1, <1>2, <1>3 DEF Verify

LEMMA TypeStep == ASSUME TypeOK, RunsSound, Still, [Next]_vars PROVE TypeOK'
<1>1. CASE UNCHANGED vars
  BY <1>1 DEF TypeOK, vars
<1> QED
  BY <1>1, OperatorType, CommandType, FreezeType, VerifyType DEF Next

-----------------------------------------------------------------------------
(* The commands. *)

\* Frame: what only moves the command on e.
LEMMA ContinueRuns ==
  ASSUME TypeOK, RunsSound, NEW e \in Experiments, NEW r \in Run, Continue(e, r),
         r.pc \in {"verify", "create"} => exp[e] = None /\ r.fp \in Configs,
         r.pc = "create" => r.source \in Sources,
         r.pc \in {"resume", "dispatch"} => exp[e] # None,
         e = "heldout" /\ r.pc \in {"verify", "create"} => policy # None
  PROVE  RunsSound'
BY ExperimentsAre DEF RunsSound, TypeOK, Continue, World, Others

LEMMA RunsStep == ASSUME IInv, [Next]_vars PROVE RunsSound'
<1> USE DEF IInv
<1>0. ASSUME UNCHANGED <<exp, run, policy>> PROVE RunsSound'
  BY <1>0 DEF RunsSound
<1>1. CASE UNCHANGED vars \/ Operator \/ Verify
  <2>1. UNCHANGED <<exp, run, policy>>
    BY <1>1 DEF vars, Operator, EditConfig, EditSource, build, Verify,
                initializeVerification, recordVerification, VerifyKilled
  <2> QED
    BY <2>1, <1>0
<1>2. ASSUME NEW f \in Freezers, Freeze(f) PROVE RunsSound'
  <2>1. CASE durableWrite(f)
    <3>1. UNCHANGED <<exp, run>> /\ (policy' = policy \/ policy' # None)
      BY <2>1 DEF durableWrite
    <3> QED
      BY <3>1 DEF RunsSound
  <2>2. CASE ~durableWrite(f)
    BY <1>2, <2>2, <1>0 DEF Freeze, freezePolicy
  <2> QED
    BY <2>1, <2>2
<1>3. ASSUME NEW e \in Experiments, Command(e) PROVE RunsSound'
  <2>0. run[e] \in Run
    BY DEF TypeOK
  <2>1. CASE eval_run(e)
    <3> DEFINE r == [Off EXCEPT !.pc = "verify", !.fp = config]
    <3>1. r \in Run /\ r.pc = "verify" /\ r.fp \in Configs
      BY DEF Off, Run, TypeOK
    <3>2. Continue(e, r) /\ exp[e] = None /\ (e = "heldout" => policy # None)
      BY <2>1 DEF eval_run
    <3> QED
      BY <3>1, <3>2, ContinueRuns
  <2>2. CASE verify(e)
    <3> DEFINE r == [run[e] EXCEPT !.pc = "create", !.source = source]
    <3>1. r \in Run /\ r.pc = "create" /\ r.source \in Sources /\ r.fp = run[e].fp
      BY <2>0 DEF Run, TypeOK
    <3>2. Continue(e, r) \/ Continue(e, Off)
      BY <2>2 DEF verify
    <3>3. exp[e] = None /\ run[e].fp \in Configs /\ (e = "heldout" => policy # None)
      BY <2>2 DEF verify, RunsSound
    <3>4. CASE Continue(e, r)
      BY <3>1, <3>3, <3>4, ContinueRuns
    <3>5. CASE Continue(e, Off)
      BY <3>5, OffRun, ContinueRuns
    <3> QED
      BY <3>2, <3>4, <3>5
  <2>3. CASE create(e)
    <3>1. CASE Continue(e, Off)
      BY <3>1, OffRun, ContinueRuns
    <3>2. CASE ~Continue(e, Off)
      <4>1. /\ run'[e].pc = "dispatch" /\ exp'[e] # None /\ policy' = policy
            /\ \A d \in Experiments \ {e} : exp'[d] = exp[d] /\ run'[d] = run[d]
        BY <2>3, <3>2, Creates, NoneAssumption
      <4> QED
        BY <4>1, ExperimentsAre DEF RunsSound
    <3> QED
      BY <3>1, <3>2
  <2>4. CASE \E own \in BOOLEAN : eval_resume(e, own)
    <3>1. PICK own \in BOOLEAN : eval_resume(e, own)
      BY <2>4
    <3> DEFINE r == [Off EXCEPT !.pc = "resume", !.fp = ConfigOf(e, own), !.own = own]
    <3>2. ConfigOf(e, own) \in Configs
      BY <3>1 DEF eval_resume, ConfigOf, TypeOK, Manifest
    <3>3. r \in Run /\ r.pc = "resume"
      BY <3>2 DEF Off, Run
    <3>4. Continue(e, r) /\ exp[e] # None
      BY <3>1 DEF eval_resume
    <3> QED
      BY <3>3, <3>4, ContinueRuns
  <2>5. CASE verify_resume(e)
    <3> DEFINE r == [Off EXCEPT !.pc = "dispatch", !.own = run[e].own]
    <3>1. r \in Run /\ r.pc = "dispatch"
      BY <2>0 DEF Off, Run
    <3>2. exp[e] # None /\ (Continue(e, r) \/ Continue(e, Off))
      BY <2>5 DEF verify_resume, RunsSound
    <3>3. CASE Continue(e, r)
      BY <3>1, <3>2, <3>3, ContinueRuns
    <3>4. CASE Continue(e, Off)
      BY <3>4, OffRun, ContinueRuns
    <3> QED
      BY <3>2, <3>3, <3>4
  <2>6. CASE \E outcome \in {"evaluated", "unavailable"} : eval_run_trial(e, outcome)
    <3>1. PICK outcome \in {"evaluated", "unavailable"} : eval_run_trial(e, outcome)
      BY <2>6
    <3>2. /\ run[e].pc = "dispatch" /\ exp'[e] # None /\ policy' = policy
          /\ run'[e] = run[e] \/ run'[e] = Off
          /\ \A d \in Experiments \ {e} : exp'[d] = exp[d] /\ run'[d] = run[d]
      BY <3>1, Trials, NoneAssumption
    <3> QED
      BY <3>2, OffRun, ExperimentsAre DEF RunsSound
  <2>7. CASE Ends(e)
    BY <2>7, OffRun, ContinueRuns DEF Ends
  <2> QED
    BY <1>3, <2>1, <2>2, <2>3, <2>4, <2>5, <2>6, <2>7 DEF Command
<1> QED
  BY <1>1, <1>2, <1>3 DEF Next

\* A command moves on, creates a manifest or makes an attempt.  It comes to dispatch
\* from a resume only after the images were compared.
LEMMA CommandCases ==
  ASSUME TypeOK, RunsSound, NEW e \in Experiments, Command(e)
  PROVE  \/ \E r \in Run : Continue(e, r) /\ (r.pc = "dispatch" => image = exp[e].image)
         \/ create(e) /\ ~Continue(e, Off)
         \/ \E outcome \in {"evaluated", "unavailable"} : eval_run_trial(e, outcome)
<1>0. run[e] \in Run
  BY DEF TypeOK
<1>1. CASE eval_run(e)
  <2> DEFINE r == [Off EXCEPT !.pc = "verify", !.fp = config]
  <2>1. r \in Run /\ r.pc = "verify"
    BY DEF Off, Run, TypeOK
  <2>2. Continue(e, r)
    BY <1>1 DEF eval_run
  <2> QED
    BY <2>1, <2>2
<1>2. CASE verify(e)
  <2> DEFINE r == [run[e] EXCEPT !.pc = "create", !.source = source]
  <2>1. r \in Run /\ r.pc = "create"
    BY <1>0 DEF Run, TypeOK
  <2>2. Continue(e, r) \/ Continue(e, Off)
    BY <1>2 DEF verify
  <2> QED
    BY <2>1, <2>2, OffRun
<1>3. CASE create(e)
  BY <1>3, OffRun
<1>4. CASE \E own \in BOOLEAN : eval_resume(e, own)
  <2>1. PICK own \in BOOLEAN : eval_resume(e, own)
    BY <1>4
  <2> DEFINE r == [Off EXCEPT !.pc = "resume", !.fp = ConfigOf(e, own), !.own = own]
  <2>2. ConfigOf(e, own) \in Configs
    BY <2>1 DEF eval_resume, ConfigOf, TypeOK, Manifest
  <2>3. r \in Run /\ r.pc = "resume"
    BY <2>2 DEF Off, Run
  <2>4. Continue(e, r)
    BY <2>1 DEF eval_resume
  <2> QED
    BY <2>3, <2>4
<1>5. CASE verify_resume(e)
  <2> DEFINE r == [Off EXCEPT !.pc = "dispatch", !.own = run[e].own]
  <2>1. r \in Run
    BY <1>0 DEF Off, Run
  <2>2. Continue(e, Off) \/ (Continue(e, r) /\ image = exp[e].image)
    BY <1>5 DEF verify_resume, verifyResumeCompatibility
  <2> QED
    BY <2>1, <2>2, OffRun
<1>7. CASE Ends(e)
  BY <1>7, OffRun DEF Ends
<1> QED
  BY <1>1, <1>2, <1>3, <1>4, <1>5, <1>7 DEF Command

-----------------------------------------------------------------------------
(* The policy and the held-out experiment. *)

\* An experiment that is complete changes no more, and one that exists is not
\* created again.
LEMMA CompleteKept ==
  ASSUME IInv, [Next]_vars, NEW e \in Experiments, exp[e] # None, Done(e)
  PROVE  exp'[e] = exp[e]
<1> USE DEF IInv
<1>1. CASE UNCHANGED vars \/ Operator \/ Verify
  BY <1>1 DEF vars, Operator, EditConfig, EditSource, build, Verify,
              initializeVerification, recordVerification, VerifyKilled
<1>2. ASSUME NEW f \in Freezers, Freeze(f) PROVE exp'[e] = exp[e]
  BY <1>2 DEF Freeze, freezePolicy, durableWrite
<1>3. ASSUME NEW d \in Experiments, Command(d) PROVE exp'[e] = exp[e]
  <2>1. CASE \E r \in Run : Continue(d, r)
    BY <2>1 DEF Continue
  <2>2. CASE create(d) /\ ~Continue(d, Off)
    BY <2>2, Creates
  <2>3. CASE \E outcome \in {"evaluated", "unavailable"} : eval_run_trial(d, outcome)
    BY <2>3, Trials
  <2> QED
    BY <1>3, <2>1, <2>2, <2>3, CommandCases
<1> QED
  BY <1>1, <1>2, <1>3 DEF Next

LEMMA BindsKept ==
  ASSUME IInv, [Next]_vars, NEW b, Binds(b)
  PROVE  Binds(b)'
<1>1. exp'["dev"] = exp["dev"]
  BY CompleteKept, ExperimentsAre DEF Binds
<1> QED
  BY <1>1 DEF Binds, Loads, Done

LEMMA BenchmarksStep == ASSUME IInv, [Next]_vars PROVE BenchmarksBind'
<1>0. ASSUME UNCHANGED <<policy, freezer>> PROVE BenchmarksBind'
  BY <1>0, BindsKept DEF IInv, BenchmarksBind
<1>1. CASE UNCHANGED vars \/ Operator \/ Verify
  <2>1. UNCHANGED <<policy, freezer>>
    BY <1>1 DEF vars, Operator, EditConfig, EditSource, build, Verify,
                initializeVerification, recordVerification, VerifyKilled
  <2> QED
    BY <2>1, <1>0
<1>2. ASSUME NEW e \in Experiments, Command(e) PROVE BenchmarksBind'
  <2>1. UNCHANGED <<policy, freezer>>
    <3>1. CASE \E r \in Run : Continue(e, r)
      BY <3>1 DEF Continue, Others
    <3>2. CASE create(e) /\ ~Continue(e, Off)
      BY <3>2, Creates DEF IInv
    <3>3. CASE \E outcome \in {"evaluated", "unavailable"} : eval_run_trial(e, outcome)
      BY <3>3, Trials DEF IInv
    <3> QED
      BY <1>2, <3>1, <3>2, <3>3, CommandCases DEF IInv
  <2> QED
    BY <2>1, <1>0
<1>3. ASSUME NEW f \in Freezers, Freeze(f) PROVE BenchmarksBind'
  <2>1. CASE \E threshold \in Configs, profile \in {"none", "harness-v1", "exposed"} :
               freezePolicy(f, threshold, profile)
    <3>1. PICK threshold \in Configs, profile \in {"none", "harness-v1", "exposed"} :
                 freezePolicy(f, threshold, profile)
      BY <2>1
    <3>2. /\ policy' = policy /\ \A g \in Freezers \ {f} : freezer'[g] = freezer[g]
          /\ freezer'[f].benchmark =
               IF profile = "none" THEN None
               ELSE makeBenchmarkProtocol(threshold, profile = "exposed")
      BY <3>1 DEF freezePolicy, IInv, TypeOK
    <3>3. profile # "none" => Binds(makeBenchmarkProtocol(threshold, profile = "exposed"))
      BY <3>1 DEF freezePolicy, Binds, makeBenchmarkProtocol
    <3>4. freezer'[f].benchmark # None => Binds(freezer'[f].benchmark)
      BY <3>2, <3>3
    <3>5. freezer'[f].benchmark # None => Binds(freezer[f].benchmark)'
      <4>1. ASSUME NEW b, Binds(b), b = freezer'[f].benchmark PROVE Binds(freezer[f].benchmark)'
        <5>1. Binds(b)'
          BY <4>1, BindsKept
        <5> QED
          BY <4>1, <5>1 DEF Binds
      <4> QED
        BY <3>4, <4>1
    <3>6. ASSUME NEW g \in Freezers \ {f}, freezer'[g] # None, freezer'[g].benchmark # None
          PROVE  Binds(freezer[g].benchmark)'
      <4>1. Binds(freezer[g].benchmark)
        BY <3>2, <3>6 DEF IInv, BenchmarksBind
      <4>2. PICK b : b = freezer[g].benchmark
        OBVIOUS
      <4>3. Binds(b)'
        BY <4>1, <4>2, BindsKept
      <4> QED
        BY <4>2, <4>3, <3>2 DEF Binds
    <3>7. policy # None /\ policy.benchmark # None => Binds(policy.benchmark)'
      <4>1. PICK b : b = policy.benchmark
        OBVIOUS
      <4>2. policy # None /\ b # None => Binds(b)'
        BY <4>1, BindsKept DEF IInv, BenchmarksBind
      <4> QED
        BY <4>1, <4>2, <3>2 DEF Binds
    <3> QED
      BY <3>2, <3>5, <3>6, <3>7 DEF BenchmarksBind
  <2>2. CASE durableWrite(f)
    <3>1. exp' = exp /\ policy' \in {freezer[f], policy}
          /\ freezer' = [freezer EXCEPT ![f] = None]
      BY <2>2 DEF durableWrite
    <3> QED
      BY <3>1 DEF IInv, TypeOK, BenchmarksBind, Binds, Loads, Done
  <2> QED
    BY <1>3, <2>1, <2>2 DEF Freeze
<1> QED
  BY <1>1, <1>2, <1>3 DEF Next

LEMMA HeldoutStep == ASSUME IInv, [Next]_vars PROVE HeldoutBound'
<1> USE DEF IInv
<1>0. ASSUME exp'["heldout"] = None \/ exp["heldout"] # None,
             \A k \in {"config", "source", "image", "benchmark"} :
               exp'["heldout"] # None => exp'["heldout"][k] = exp["heldout"][k]
      PROVE  HeldoutBound'
  <2> SUFFICES ASSUME exp'["heldout"] # None, exp'["heldout"].benchmark # None
               PROVE  HeldoutBound'
    BY DEF HeldoutBound
  <2> DEFINE h == exp["heldout"]
  <2>1. h # None /\ h.benchmark # None /\ h.config = exp'["heldout"].config
        /\ h.source = exp'["heldout"].source /\ h.image = exp'["heldout"].image
        /\ h.benchmark = exp'["heldout"].benchmark
    BY <1>0
  <2>2. PICK b : b = h.benchmark
    OBVIOUS
  <2>3. Binds(b) /\ h.config = b.config /\ h.source = b.source /\ h.image = b.image
    BY <2>1, <2>2 DEF HeldoutBound
  <2>4. Binds(b)'
    BY <2>3, BindsKept
  <2> QED
    BY <2>1, <2>2, <2>3, <2>4 DEF HeldoutBound, Binds
<1>a. ASSUME exp' = exp PROVE HeldoutBound'
  BY <1>a, <1>0
<1>1. CASE UNCHANGED vars \/ Operator \/ Verify
  <2>1. exp' = exp
    BY <1>1 DEF vars, Operator, EditConfig, EditSource, build, Verify,
                initializeVerification, recordVerification, VerifyKilled
  <2> QED
    BY <2>1, <1>a
<1>2. ASSUME NEW f \in Freezers, Freeze(f) PROVE HeldoutBound'
  BY <1>2, <1>a DEF Freeze, freezePolicy, durableWrite
<1>3. ASSUME NEW e \in Experiments, Command(e) PROVE HeldoutBound'
  <2>1. CASE \E r \in Run : Continue(e, r)
    BY <2>1, <1>a DEF Continue
  <2>2. CASE create(e) /\ ~Continue(e, Off)
    <3>1. CASE e = "dev"
      <4>1. exp'["heldout"] = exp["heldout"]
        BY <2>2, <3>1, Creates, ExperimentsAre
      <4> QED
        BY <4>1, <1>0
    <3>2. CASE e = "heldout"
      <4> SUFFICES ASSUME exp'["heldout"].benchmark # None PROVE HeldoutBound'
        BY DEF HeldoutBound
      <4>1. PICK b : b = policy.benchmark
        OBVIOUS
      <4>2. /\ exp'["heldout"].benchmark = b /\ policy # None
            /\ exp'["heldout"].config = b.config
            /\ exp'["heldout"].source = b.source /\ exp'["heldout"].image = b.image
        BY <2>2, <3>2, <4>1, Creates
      <4>3. Binds(b)
        BY <4>1, <4>2 DEF BenchmarksBind
      <4>4. Binds(b)'
        BY <4>3, BindsKept
      <4> QED
        BY <4>2, <4>4 DEF HeldoutBound, Binds
    <3> QED
      BY <3>1, <3>2, ExperimentsAre
  <2>3. CASE \E outcome \in {"evaluated", "unavailable"} : eval_run_trial(e, outcome)
    <3>1. PICK outcome \in {"evaluated", "unavailable"} : eval_run_trial(e, outcome)
      BY <2>3
    <3>2. /\ exp[e] \in Manifest
          /\ \E a \in Attempt :
               exp'[e] = [exp[e] EXCEPT !.attempts = Append(exp[e].attempts, a)]
          /\ \A d \in Experiments \ {e} : exp'[d] = exp[d]
      BY <3>1, Trials
    <3>3. \A k \in {"config", "source", "image", "benchmark"} : exp'[e][k] = exp[e][k]
      BY <3>2 DEF Manifest
    <3>4. exp[e] # None
      BY <3>2, NoneAssumption
    <3> QED
      BY <3>2, <3>3, <3>4, <1>0, ExperimentsAre
  <2> QED
    BY <1>3, <2>1, <2>2, <2>3, CommandCases
<1> QED
  BY <1>1, <1>2, <1>3 DEF Next

-----------------------------------------------------------------------------
(* The images, where the operator changes the tree and the images only while *)
(* no command is at work.                                                    *)

LEMMA ImagesStep == ASSUME IInv, Quiet, [Next]_vars PROVE ImagesKept'
<1> USE DEF IInv
<1>0. ASSUME UNCHANGED <<exp, run, image>> PROVE ImagesKept'
  BY <1>0 DEF ImagesKept
<1>1. CASE UNCHANGED vars \/ Verify \/ \E f \in Freezers : Freeze(f)
  <2>1. UNCHANGED <<exp, run, image>>
    BY <1>1 DEF vars, World, Verify, initializeVerification, recordVerification,
                VerifyKilled, Freeze, freezePolicy, durableWrite
  <2> QED
    BY <2>1, <1>0
<1>2. CASE Operator
  <2>1. UNCHANGED <<exp, run>> /\ (image' = image \/ Idle)
    BY <1>2 DEF Operator, EditConfig, EditSource, build
  <2> QED
    BY <2>1 DEF ImagesKept, Idle
<1>3. ASSUME NEW e \in Experiments, Command(e) PROVE ImagesKept'
  <2>1. CASE \E r \in Run : Continue(e, r) /\ (r.pc = "dispatch" => image = exp[e].image)
    <3>1. PICK r \in Run : Continue(e, r) /\ (r.pc = "dispatch" => image = exp[e].image)
      BY <2>1
    <3>2. run' = [run EXCEPT ![e] = r] /\ UNCHANGED <<exp, image>>
      BY <3>1 DEF Continue, World
    <3> QED
      BY <3>1, <3>2 DEF ImagesKept, TypeOK
  <2>2. CASE create(e) /\ ~Continue(e, Off)
    <3>1. /\ exp'[e].attempts = <<>> /\ exp'[e].image = image /\ image' = image
          /\ \A d \in Experiments \ {e} : exp'[d] = exp[d] /\ run'[d] = run[d]
      BY <2>2, Creates
    <3> QED
      BY <3>1 DEF ImagesKept
  <2>3. CASE \E outcome \in {"evaluated", "unavailable"} : eval_run_trial(e, outcome)
    <3>1. PICK outcome \in {"evaluated", "unavailable"} : eval_run_trial(e, outcome)
      BY <2>3
    <3>2. PICK a \in Attempt : /\ a.image = image
                               /\ exp'[e] = [exp[e] EXCEPT !.attempts = Append(exp[e].attempts, a)]
      BY <3>1, Trials
    <3>3. /\ exp[e] \in Manifest /\ run[e].pc = "dispatch" /\ image' = image
          /\ run'[e] = run[e] \/ run'[e] = Off
          /\ \A d \in Experiments \ {e} : exp'[d] = exp[d] /\ run'[d] = run[d]
      BY <3>1, Trials
    <3>4. image = exp[e].image /\ exp[e] # None
      BY <3>3, NoneAssumption DEF ImagesKept
    <3>5. exp'[e].image = image /\ exp'[e].attempts = Append(exp[e].attempts, a)
          /\ exp[e].attempts \in Seq(Attempt)
      BY <3>2, <3>3, <3>4 DEF Manifest
    <3>6. \A i \in 1..Len(exp'[e].attempts) : exp'[e].attempts[i].image = exp'[e].image
      <4> DEFINE s == exp[e].attempts
      <4>1. \A i \in 1..Len(s) : s[i].image = image
        BY <3>4 DEF ImagesKept
      <4>2. s \in Seq(Attempt) /\ exp'[e].attempts = Append(s, a)
        BY <3>5
      <4> HIDE DEF s
      <4>3. \A i \in 1..Len(Append(s, a)) : Append(s, a)[i].image = image
        BY <3>2, <4>1, <4>2, AppendProperties
      <4> QED
        BY <3>5, <4>2, <4>3
    <3> QED
      BY <3>3, <3>4, <3>5, <3>6, OffRun DEF ImagesKept
  <2> QED
    BY <1>3, <2>1, <2>2, <2>3, CommandCases
<1> QED
  BY <1>1, <1>2, <1>3 DEF Next

LEMMA StillStep == ASSUME IInv, [Next]_vars PROVE Still'
<1> USE DEF IInv
<1>1. CASE UNCHANGED vars \/ Operator
  BY <1>1 DEF Still, vars, Operator, EditConfig, EditSource, build
<1>2. ASSUME NEW f \in Freezers, Freeze(f) PROVE Still'
  BY <1>2 DEF Still, Freeze, freezePolicy, durableWrite
<1>3. ASSUME NEW e \in Experiments, Command(e) PROVE Still'
  <2>1. UNCHANGED <<verification, verifying>>
    BY <1>3, CommandCases, Creates, Trials DEF Continue, Others
  <2> QED
    BY <2>1 DEF Still
<1>4. CASE Verify
  <2>1. TypeOK'
    BY <1>4, TypeStep DEF Next
  <2>2. CASE VerifyKilled
    BY <2>2 DEF VerifyKilled, Still
  <2>3. CASE \E level \in {"quick", "full"} : initializeVerification(level)
    <3>1. verification' \in Verification
      <4>1. <<>> \in Seq(BOOLEAN)
        OBVIOUS
      <4> QED
        BY <2>3, <4>1 DEF initializeVerification, Verification, TypeOK
    <3> QED
      BY <3>1, NoneAssumption DEF Still
  <2>4. CASE recordVerification
    BY <2>4, Records, NoneAssumption DEF Still
  <2> QED
    BY <1>4, <2>2, <2>3, <2>4 DEF Verify
<1> QED
  BY <1>1, <1>2, <1>3, <1>4 DEF Next

-----------------------------------------------------------------------------
(* The verification. *)

LEMMA RequiredAre ==
  /\ Len(QUICK_CHECKS) = 3 /\ Len(FULL_CHECKS) = 4
  /\ FULL_CHECKS[1] = "source-images" /\ FULL_CHECKS[2] = "contracts"
  /\ FULL_CHECKS[3] = "mock-smoke" /\ FULL_CHECKS[4] = "all-tests"
<1> DEFINE last == <<"all-tests">>
<1> DEFINE S == {"source-images", "contracts", "mock-smoke", "all-tests"}
<1>1. QUICK_CHECKS \in Seq(S) /\ last \in Seq(S) /\ Len(last) = 1 /\ Len(QUICK_CHECKS) = 3
  <2>1. QUICK_CHECKS \in Seq(S)
    BY DEF QUICK_CHECKS
  <2>2. last \in Seq(S)
    OBVIOUS
  <2>3. Len(last) = 1
    OBVIOUS
  <2>4. Len(QUICK_CHECKS) = 3
    BY DEF QUICK_CHECKS
  <2> QED
    BY <2>1, <2>2, <2>3, <2>4
<1> HIDE DEF S
<1>2. FULL_CHECKS = QUICK_CHECKS \o last
  BY DEF FULL_CHECKS
<1>3. Len(FULL_CHECKS) = 4
      /\ \A i \in 1..4 : FULL_CHECKS[i] = IF i <= 3 THEN QUICK_CHECKS[i] ELSE last[i - 3]
  <2>1. ASSUME NEW s \in Seq(S), NEW t \in Seq(S), Len(s) = 3, Len(t) = 1
        PROVE  /\ Len(s \o t) = 4
               /\ \A i \in 1..4 : (s \o t)[i] = IF i <= 3 THEN s[i] ELSE t[i - 3]
    <3>1. Len(s \o t) = Len(s) + Len(t)
      BY ConcatProperties, Zenon
    <3>2. \A i \in 1..Len(s) + Len(t) : (s \o t)[i] = IF i <= Len(s) THEN s[i] ELSE t[i - Len(s)]
      BY ConcatProperties, Zenon
    <3> QED
      BY <2>1, <3>1, <3>2
  <2>2. /\ Len(QUICK_CHECKS \o last) = 4
        /\ \A i \in 1..4 : (QUICK_CHECKS \o last)[i] = IF i <= 3 THEN QUICK_CHECKS[i] ELSE last[i - 3]
    <3> HIDE DEF last
    <3> QED
      BY <1>1, <2>1, Zenon
  <2> QED
    BY <1>2, <2>2, Zenon
<1>4. last[4 - 3] = "all-tests"
  OBVIOUS
<1> QED
  BY <1>1, <1>3, <1>4 DEF QUICK_CHECKS

LEMMA VerificationStep == ASSUME IInv, Quiet, [Next]_vars PROVE VerificationHolds'
<1> USE DEF IInv
<1>0. ASSUME UNCHANGED <<source, image, verification, verifying>> PROVE VerificationHolds'
  BY <1>0 DEF VerificationHolds, CheckHolds
<1>1. CASE UNCHANGED vars
  BY <1>1, <1>0 DEF vars
<1>2. CASE Operator
  <2>1. UNCHANGED <<verification, verifying>> /\ (UNCHANGED <<source, image>> \/ ~verifying)
    BY <1>2 DEF Operator, EditConfig, EditSource, build, Idle
  <2> QED
    BY <2>1 DEF VerificationHolds, CheckHolds
<1>3. ASSUME NEW f \in Freezers, Freeze(f) PROVE VerificationHolds'
  BY <1>3, <1>0 DEF Freeze, freezePolicy, durableWrite, World
<1>4. ASSUME NEW e \in Experiments, Command(e) PROVE VerificationHolds'
  <2>1. UNCHANGED <<source, image, verification, verifying>>
    BY <1>4, CommandCases, Creates, Trials DEF Continue, Others, World
  <2> QED
    BY <2>1, <1>0
<1>5. CASE VerifyKilled
  BY <1>5 DEF VerifyKilled, VerificationHolds, CheckHolds, World
<1>6. CASE \E level \in {"quick", "full"} : initializeVerification(level)
  <2>1. PICK level \in {"quick", "full"} : initializeVerification(level)
    BY <1>6
  <2>2. verification' = [level |-> level, source |-> source, image |-> image, checks |-> <<>>]
        /\ UNCHANGED <<source, image>>
    BY <2>1 DEF initializeVerification, World
  <2>3. Len(Required(level)) \in Nat
    BY RequiredAre DEF Required
  <2> QED
    BY <2>2, <2>3 DEF VerificationHolds
<1>7. CASE recordVerification
  <2> DEFINE v == verification
             n == Len(v.checks) + 1
             check == Required(v.level)[n]
  <2>1. /\ v \in Verification /\ v # None
        /\ verification' = [v EXCEPT !.checks = Append(v.checks, Passes(check))]
        /\ n <= Len(Required(v.level)) /\ UNCHANGED <<source, image>>
    BY <1>7, Records
  <2>2. source = v.source /\ image = v.image
    BY <1>7, <2>1 DEF recordVerification, VerificationHolds
  <2>3. Passes(check) => CheckHolds(v, check)
    BY <2>2 DEF Passes, CheckHolds
  <2>4. Passes(check) \in BOOLEAN
    BY DEF Passes, verify_source_images
  <2>5. v.checks \in Seq(BOOLEAN) /\ Len(v.checks) \in Nat
    BY <2>1 DEF Verification
  <2>6. /\ verification'.checks = Append(v.checks, Passes(check))
        /\ verification'.level = v.level /\ verification'.source = v.source
        /\ verification'.image = v.image
    BY <2>1 DEF Verification
  <2>7. \A i \in 1..Len(v.checks) : v.checks[i] => CheckHolds(v, Required(v.level)[i])
    BY <2>1 DEF VerificationHolds
  <2>8. Len(verification'.checks) = n
        /\ \A i \in 1..n : verification'.checks[i] = IF i = n THEN Passes(check) ELSE v.checks[i]
    BY <2>4, <2>5, <2>6, AppendProperties
  <2>9. ASSUME NEW i \in 1..n, verification'.checks[i] PROVE CheckHolds(v, Required(v.level)[i])
    BY <2>3, <2>5, <2>7, <2>8, <2>9
  <2> QED
    BY <2>1, <2>2, <2>5, <2>6, <2>8, <2>9 DEF VerificationHolds, CheckHolds, Required
<1> QED
  BY <1>1, <1>2, <1>3, <1>4, <1>5, <1>6, <1>7 DEF Next, Verify

-----------------------------------------------------------------------------
(* The theorems. *)

LEMMA InitInvariant == Init => IInv
<1> SUFFICES ASSUME Init PROVE IInv
  OBVIOUS
<1>1. TypeOK
  BY InitType
<1>2. BenchmarksBind /\ HeldoutBound /\ Still /\ ImagesKept /\ VerificationHolds
  BY ExperimentsAre DEF Init, BenchmarksBind, HeldoutBound, Still, ImagesKept,
                        VerificationHolds, Off
<1>3. RunsSound
  BY ExperimentsAre, OffRun DEF Init, RunsSound
<1> QED
  BY <1>1, <1>2, <1>3 DEF IInv

LEMMA NextInvariant == IInv /\ [Next]_vars => IInv'
BY TypeStep, RunsStep, BenchmarksStep, HeldoutStep, StillStep, ImagesStep, VerificationStep
   DEF IInv

LEMMA Invariant == Spec => []IInv
BY InitInvariant, NextInvariant, PTL DEF Spec

\* Every variable keeps its type, whatever the operator edits and in whatever order
\* the commands run.
THEOREM TypeCorrect == Spec => []TypeOK
<1>1. IInv => TypeOK
  BY DEF IInv
<1> QED
  BY Invariant, <1>1, PTL

\* createSmokeManifest admits only a policy that speaks of the development experiment
\* as it stands, however freezes, edits and builds interleave with the launch.
THEOREM HeldoutIsBound == Spec => []PolicyBindsHeldout
<1>1. IInv => PolicyBindsHeldout
  BY DEF IInv, HeldoutBound, Binds, PolicyBindsHeldout
<1> QED
  BY Invariant, <1>1, PTL

\* What a PASS has passed through: the report of a full verification of the source
\* and the image of the held-out experiment, whose benchmark was not exposed.
LEMMA PassMeans ==
  ASSUME NEW metrics, generateReadiness(metrics) = "PASS"
  PROVE  LET h == exp["heldout"]
             v == verification
         IN /\ h # None /\ v # None /\ Loads(h)
            /\ h.source = v.source /\ h.image = v.image
            /\ v.level = "full" /\ Len(v.checks) = Len(FULL_CHECKS)
            /\ \A i \in DOMAIN v.checks : v.checks[i]
            /\ h.benchmark # None /\ Done("heldout")
<1> DEFINE h == exp["heldout"]
           v == verification
<1>1. h # None /\ v # None /\ Loads(h) /\ assessReadiness(h, v, metrics) = "PASS"
  BY NoneAssumption DEF generateReadiness
<1>2. /\ h.source = v.source /\ h.image = v.image
      /\ Status(v) = "PASS" /\ v.level = "full"
      /\ h.benchmark # None /\ Evaluated(h) = Size["heldout"]
  BY <1>1 DEF assessReadiness
<1>3. Len(v.checks) = Len(Required(v.level)) /\ \A i \in DOMAIN v.checks : v.checks[i]
  BY <1>2 DEF Status
<1> QED
  BY <1>1, <1>2, <1>3 DEF Required, Done

LEMMA VerdictFollows == ASSUME IInv, Quiet PROVE VerdictSound
<1> SUFFICES ASSUME NEW metrics, generateReadiness(metrics) = "PASS" PROVE VerdictSound
  BY DEF VerdictSound
<1> DEFINE h == exp["heldout"]
           d == exp["dev"]
           v == verification
<1>1. /\ h \in Manifest /\ v \in Verification /\ Loads(h)
      /\ h.source = v.source /\ h.image = v.image
      /\ v.level = "full" /\ Len(v.checks) = 4
      /\ \A i \in DOMAIN v.checks : v.checks[i]
      /\ h # None /\ v # None /\ h.benchmark # None /\ Done("heldout")
  BY PassMeans, RequiredAre, ExperimentsAre DEF IInv, TypeOK
<1>2. /\ d \in Manifest /\ d # None /\ Done("dev")
      /\ h.image = d.image /\ h.config = h.benchmark.config
  BY <1>1, ExperimentsAre DEF IInv, TypeOK, HeldoutBound, Binds
<1>3. \A i \in 1..4 : v.checks[i]
  BY <1>1 DEF Verification
<1>4. \A i \in 1..4 : CheckHolds(v, FULL_CHECKS[i])
  BY <1>1, <1>3 DEF IInv, VerificationHolds, Required
<1>5. /\ v.image.source = v.source
      /\ \A c \in {"contracts", "mock-smoke", "all-tests"} : c \notin Flaws[v.source]
  BY <1>4, RequiredAre DEF CheckHolds
<1>6. v.source \in Sources
  BY <1>1 DEF Verification
<1>7. Flaws[v.source] \subseteq {FULL_CHECKS[i] : i \in 2..Len(FULL_CHECKS)}
  BY <1>6, EvidenceAssumption
<1>8. \A c \in Flaws[v.source] : c \in {"contracts", "mock-smoke", "all-tests"}
  <2> TAKE c \in Flaws[v.source]
  <2>1. PICK i \in 2..Len(FULL_CHECKS) : c = FULL_CHECKS[i]
    BY <1>7
  <2>2. i = 2 \/ i = 3 \/ i = 4
    BY <2>1, RequiredAre
  <2> QED
    BY <2>1, <2>2, RequiredAre
<1>9. Flaws[h.image.source] = {}
  BY <1>1, <1>5, <1>8
<1>10. /\ \A i \in DOMAIN h.attempts : h.attempts[i].image = h.image
       /\ \A i \in DOMAIN d.attempts : d.attempts[i].image = h.image
  <2>1. DOMAIN h.attempts = 1..Len(h.attempts) /\ DOMAIN d.attempts = 1..Len(d.attempts)
    BY <1>1, <1>2 DEF Manifest
  <2> QED
    BY <1>1, <1>2, <2>1, ExperimentsAre DEF IInv, ImagesKept
<1>11. \A i \in DOMAIN h.attempts : h.attempts[i].config = h.fp
  BY <1>1 DEF Loads
<1> HIDE DEF h, d
<1>12. \A a \in {h.attempts[i] : i \in DOMAIN h.attempts} \cup {d.attempts[i] : i \in DOMAIN d.attempts} :
         a.image = h.image /\ Flaws[a.image.source] = {}
  BY <1>9, <1>10
<1> QED
  BY <1>1, <1>2, <1>11, <1>12 DEF VerdictSound, h, d

\* If the operator changes the tree and the images only while no command is at work,
\* a readiness PASS stands on what it says: one image, whose source passes every
\* check, for all attempts of both experiments, one configuration, the protocol's,
\* and no trial left out.
THEOREM PassIsSound == Quiet => (Spec => []VerdictSound)
<1> SUFFICES ASSUME Quiet PROVE Spec => []VerdictSound
  OBVIOUS
<1>1. IInv => VerdictSound
  BY VerdictFollows
<1> QED
  BY Invariant, <1>1, PTL

-----------------------------------------------------------------------------
(* Freezes one after another. *)

\* A freeze that is about to write has found no policy, and none has come since.
Unwritten == \A f \in Freezers : freezer[f] # None => policy = None

LEMMA UnwrittenStep ==
  ASSUME TypeOK, Unwritten, \A f, g \in Freezers : f = g, [Next]_vars
  PROVE  Unwritten' /\ (policy # None => policy' = policy)
<1>1. CASE UNCHANGED <<policy, freezer>>
  BY <1>1 DEF Unwritten
<1>2. ASSUME NEW f \in Freezers, NEW t \in Configs, NEW p, freezePolicy(f, t, p)
      PROVE  Unwritten' /\ policy' = policy
  BY <1>2 DEF freezePolicy, Unwritten
<1>3. ASSUME NEW f \in Freezers, durableWrite(f)
      PROVE  Unwritten' /\ policy = None
  <2>1. \A g \in Freezers : freezer'[g] = None
    BY <1>3 DEF durableWrite, TypeOK
  <2> QED
    BY <1>3, <2>1 DEF durableWrite, Unwritten
<1>4. CASE UNCHANGED vars
  BY <1>1, <1>4 DEF vars
<1>5. CASE Operator \/ Verify
  <2>1. UNCHANGED <<policy, freezer>>
    BY <1>5 DEF Operator, EditConfig, EditSource, build, Verify, initializeVerification,
                recordVerification, VerifyKilled
  <2> QED
    BY <1>1, <2>1
<1>6. ASSUME NEW e \in Experiments, Command(e) PROVE UNCHANGED <<policy, freezer>>
  BY <1>6 DEF Command, eval_run, verify, create, eval_resume, verify_resume, eval_run_trial,
              Ends, Continue, Others
<1>7. ASSUME NEW f \in Freezers, Freeze(f) PROVE Unwritten' /\ (policy # None => policy' = policy)
  BY <1>2, <1>3, <1>7 DEF Freeze
<1> QED
  BY <1>1, <1>4, <1>5, <1>6, <1>7 DEF Next

\* With at most one invocation of eval freeze at a time, a policy that is frozen stays as
\* it is: the replacement that the runs find takes two that overlap.
THEOREM OneFreezeIsFinal ==
  (\A f, g \in Freezers : f = g) => (Spec => PolicyIsImmutable)
<1> SUFFICES ASSUME \A f, g \in Freezers : f = g PROVE Spec => PolicyIsImmutable
  OBVIOUS
<1>1. Init => Unwritten
  BY DEF Init, Unwritten
<1>2. IInv /\ Unwritten /\ [Next]_vars => Unwritten' /\ [policy # None => policy' = policy]_policy
  BY UnwrittenStep DEF IInv
<1> QED
  BY <1>1, <1>2, Invariant, PTL DEF Spec, PolicyIsImmutable
=============================================================================
