---------------------------- MODULE Bridge_proofs ----------------------------
(***************************************************************************)
(* What the bridge protocol promises for any number of decisions: verdicts *)
(* and tiers are never exchanged, a cancelled decision selects nothing,    *)
(* and while no decision is cut the two sides stay in step.                *)
(***************************************************************************)
EXTENDS Bridge, SequenceTheorems, TLAPS

\* The decision being resolved has not ended, and the classifier is asked only
\* on its behalf.
ClientSound ==
  /\ client \in {"reading", "calling"} <=> active # None
  /\ active # None => outcome[active] = "none"
  /\ client = "calling" => called

\* A decision has a verdict only once its classifier call was answered.
AnswerSound ==
  \A d \in Decisions : verdict[d] # None =>
    outcome[d] # "none" \/ (d = active /\ called /\ client = "reading")

\* A result on its way to the bridge, and a decision on its way back, carry the
\* verdict of the decision they name.
FramesSound ==
  /\ \A i \in 1..Len(stdin) : stdin[i].type = "model_result" =>
       verdict[stdin[i].id] = stdin[i].text
  /\ \A i \in 1..Len(stdout) : stdout[i].type = "decision" =>
       /\ verdict[stdout[i].id] # None
       /\ stdout[i].alias = selected(verdict[stdout[i].id])

\* The cancel frame of d is still to be read: no result of d comes before it, and
\* d does not start after it.
CancelPending(d) ==
  \E j \in 1..Len(stdin) :
    /\ stdin[j] = Frame("cancel", d)
    /\ \A i \in 1..Len(stdin) : i < j =>
         ~(stdin[i].type = "model_result" /\ stdin[i].id = d)
    /\ \A i \in 1..Len(stdin) : i > j => stdin[i] # Frame("start", d)

\* The cancel frame of d has been read: the bridge will not serve d any more.
CancelRead(d) ==
  /\ serving # d
  /\ \A i \in 1..Len(stdin) : stdin[i] # Frame("start", d)

CancelSound ==
  /\ cancelled \subseteq aborted
  /\ \A d \in cancelled :
       /\ CancelPending(d) \/ CancelRead(d)
       /\ \A i \in 1..Len(stdout) : stdout[i].type = "decision" => stdout[i].id # d

\* Where the two sides stand when nothing was cut, as a function of the client.
InStep ==
  \/ /\ client = "starting"
     /\ stdin = <<>> /\ stdout = <<Frame("ready", None)>> /\ serving = None
  \/ /\ client = "idle"
     /\ stdin = <<>> /\ stdout = <<>> /\ serving = None
  \/ /\ client = "reading" /\ ~called
     /\ stdin = <<Frame("start", active)>> /\ stdout = <<>> /\ serving = None
  \/ /\ client = "reading" /\ ~called
     /\ stdin = <<>> /\ stdout = <<Frame("call_model", active)>> /\ serving = active
  \/ /\ client = "calling"
     /\ stdin = <<>> /\ stdout = <<>> /\ serving = active
  \/ /\ client = "reading" /\ called /\ stdout = <<>> /\ serving = active
     /\ \/ stdin = <<Frame("model_error", active)>> /\ cause[active] # {}
        \/ \E text \in Verdicts :
             stdin = <<[type |-> "model_result", id |-> active, text |-> text]>>
  \/ /\ client = "reading" /\ called /\ stdin = <<>> /\ serving = None
     /\ \/ stdout = <<Frame("error", active)>> /\ cause[active] # {}
        \/ \E tier \in Tiers :
             stdout = <<[type |-> "decision", id |-> active, alias |-> tier]>>

Uncut == alive /\ ~closed /\ \A e \in Decisions : ~Cut(e)

StepSound == Uncut => InStep

IInv == /\ TypeOK /\ ClientSound /\ AnswerSound /\ FramesSound /\ CancelSound
        /\ StepSound /\ NoCrossTalk /\ CancelledNeverDecides /\ FailureHasCause

-----------------------------------------------------------------------------

\* The frames there are.
LEMMA ToBridgeFacts ==
  /\ \A d \in Decisions :
       Frame("start", d) \in ToBridge /\ Frame("model_error", d) \in ToBridge
         /\ Frame("cancel", d) \in ToBridge
  /\ \A d \in Decisions, text \in Verdicts :
       [type |-> "model_result", id |-> d, text |-> text] \in ToBridge
  /\ \A f \in ToBridge :
       f.id \in Decisions /\ (f.type = "model_result" => f.text \in Verdicts)
BY DEF ToBridge, Frame

LEMMA ToClientFacts ==
  /\ \A d \in Decisions :
       Frame("call_model", d) \in ToClient /\ Frame("error", d) \in ToClient
  /\ Frame("ready", None) \in ToClient /\ Frame("error", None) \in ToClient
  /\ \A d \in Decisions, tier \in Tiers :
       [type |-> "decision", id |-> d, alias |-> tier] \in ToClient
  /\ \A f \in ToClient :
       f.type = "decision" => f.id \in Decisions /\ f.alias \in Tiers
BY DEF ToClient, Frame

LEMMA SelectedFacts == \A text : selected(text) \in Tiers
BY DEF selected, Tiers

\* The classifier's answer could not be reported as written.
Unwritten == \E text \in Verdicts \cup {None} : classifier_unwritten(text)

\* Its reply may be in the pipe all the same, and the decision is over.
LEMMA UnwrittenFacts ==
  ASSUME TypeOK, ClientSound, AnswerSound, Unwritten
  PROVE  /\ active \in Decisions /\ verdict[active] = None /\ client = "calling"
         /\ \E text \in Verdicts \cup {None} : verdict' = [verdict EXCEPT ![active] = text]
         /\ outcome' = [outcome EXCEPT ![active] = "error"]
         /\ active' = None /\ client' = "idle"
         /\ cause' = [cause EXCEPT ![active] = @ \cup {"unwritten"}]
         /\ UNCHANGED <<called, closed, aborted, stdout, serving, alive, cancelled>>
         /\ \/ stdin' = stdin
            \/ \E f \in ToBridge :
                 /\ stdin' = Append(stdin, f) /\ f.type # "start"
                 /\ f.type = "model_result" => f.id = active /\ f.text = verdict'[active]
<1> PICK text \in Verdicts \cup {None} : classifier_unwritten(text)
  BY DEF Unwritten
<1>1. active \in Decisions /\ verdict[active] = None /\ client = "calling"
  BY NoneAssumption DEF classifier_unwritten, ClientSound, AnswerSound, TypeOK
<1>2. verdict' = [verdict EXCEPT ![active] = text] /\ verdict'[active] = text
  BY <1>1 DEF classifier_unwritten, TypeOK
<1>3. Reply(text) \in ToBridge /\ Reply(text).type # "start"
  BY <1>1, ToBridgeFacts DEF Reply, Frame
<1>4. Reply(text).type = "model_result" => Reply(text).id = active /\ Reply(text).text = text
  BY DEF Reply, Frame
<1>5. stdin' = stdin \/ stdin' = Append(stdin, Reply(text))
  BY DEF classifier_unwritten
<1> QED
  BY <1>1, <1>2, <1>3, <1>4, <1>5 DEF classifier_unwritten, End, Blame

\* The first state of the protocol.
LEMMA InitHolds == Init => IInv
<1> SUFFICES ASSUME Init PROVE IInv
  OBVIOUS
<1>1. TypeOK
  <2>1. stdout \in Seq(ToClient)
    BY ToClientFacts DEF Init
  <2>2. cause \in [Decisions -> SUBSET Causes]
    BY DEF Init
  <2>3. verdict \in [Decisions -> Verdicts \cup {None}]
    BY DEF Init
  <2>4. outcome \in [Decisions -> {"none", "error", "limit"} \cup Tiers]
    BY DEF Init
  <2>5. stdin \in Seq(ToBridge)
    BY DEF Init
  <2> QED
    BY <2>1, <2>2, <2>3, <2>4, <2>5, Zenon DEF Init, TypeOK
<1>2. ClientSound /\ AnswerSound
  BY DEF Init, ClientSound, AnswerSound
<1>3. FramesSound /\ CancelSound
  BY DEF Init, FramesSound, CancelSound, Frame
<1>4. StepSound
  BY DEF Init, StepSound, InStep
<1>5. NoCrossTalk /\ CancelledNeverDecides /\ FailureHasCause
  BY DEF Init, NoCrossTalk, CancelledNeverDecides, FailureHasCause, Tiers
<1> QED
  BY <1>1, <1>2, <1>3, <1>4, <1>5 DEF IInv

\* Types, one action at a time.
LEMMA TypeStep == IInv /\ [Next]_vars => TypeOK'
<1> SUFFICES ASSUME IInv, [Next]_vars PROVE TypeOK'
  OBVIOUS
<1> USE NoneAssumption, ToBridgeFacts, ToClientFacts DEF IInv, TypeOK, pipes, observed
<1>1. CASE start_ready
  BY <1>1, HeadTailProperties DEF start_ready
<1>2. CASE start_fails
  BY <1>2 DEF start_fails
<1>3. CASE read_frame
  <2>1. Head(stdout) \in ToClient /\ Tail(stdout) \in Seq(ToClient)
    BY <1>3, HeadTailProperties DEF read_frame
  <2>2. active \in Decisions
    BY <1>3 DEF read_frame, ClientSound
  <2> QED
    BY <1>3, <2>1, <2>2 DEF read_frame, End, Tiers
<1>4. CASE read_end
  BY <1>4 DEF read_end, End, ClientSound
<1>5. CASE \E text \in Verdicts : classifier_result(text)
  <2> PICK text \in Verdicts : classifier_result(text)
    BY <1>5
  <2>1. active \in Decisions
    BY DEF classifier_result, ClientSound
  <2> QED
    BY <2>1, AppendProperties DEF classifier_result
<1>6. CASE classifier_error
  <2>1. active \in Decisions
    BY <1>6 DEF classifier_error, ClientSound
  <2> QED
    BY <1>6, <2>1, AppendProperties DEF classifier_error, Blame, Causes
<1>7. CASE classifier_deadline
  BY <1>7 DEF classifier_deadline, Blame, End, Causes, ClientSound
<1>8. CASE bridge_main
  <2>1. Head(stdin) \in ToBridge /\ Tail(stdin) \in Seq(ToBridge)
    BY <1>8, HeadTailProperties DEF bridge_main
  <2>2. stdout' \in Seq(ToClient)
    <3>1. \E f \in ToClient : stdout' = Append(stdout, f)
      BY <1>8, <2>1 DEF bridge_main, Send
    <3> QED
      BY <3>1, AppendProperties
  <2> QED
    BY <1>8, <2>1, <2>2 DEF bridge_main
<1>9. CASE bridge_reply
  <2>1. Head(stdin) \in ToBridge /\ Tail(stdin) \in Seq(ToBridge)
    BY <1>9, HeadTailProperties DEF bridge_reply
  <2>2. serving \in Decisions /\ selected(Head(stdin).text) \in Tiers
    BY <1>9, SelectedFacts DEF bridge_reply
  <2>3. stdout' \in Seq(ToClient)
    <3>1. \E f \in ToClient : stdout' = Append(stdout, f)
      BY <1>9, <2>2 DEF bridge_reply, Send
    <3> QED
      BY <3>1, AppendProperties
  <2> QED
    BY <1>9, <2>1, <2>3 DEF bridge_reply
<1>10. CASE \E d \in Decisions : resolve_refused(d)
  BY <1>10 DEF resolve_refused, Blame, Causes
<1>11. CASE \E d \in Decisions : resolve_start(d)
  <2> PICK d \in Decisions : resolve_start(d)
    BY <1>11
  <2>1. stdin' \in Seq(ToBridge)
    BY AppendProperties DEF resolve_start
  <2> QED
    BY <2>1 DEF resolve_start
<1>12. CASE \E d \in Decisions : resolve_unwritten(d)
  <2> PICK d \in Decisions : resolve_unwritten(d)
    BY <1>12
  <2>1. stdin' \in Seq(ToBridge)
    <3>1. stdin' = stdin \/ \E f \in ToBridge : stdin' = Append(stdin, f)
      BY DEF resolve_unwritten
    <3>2. CASE stdin' = stdin
      BY <3>2
    <3>3. CASE \E f \in ToBridge : stdin' = Append(stdin, f)
      BY <3>3, AppendProperties
    <3> QED
      BY <3>1, <3>2, <3>3
  <2>2. cause' \in [Decisions -> SUBSET Causes]
    BY DEF resolve_unwritten, Blame, Causes
  <2>3. outcome' \in [Decisions -> {"none", "error", "limit"} \cup Tiers]
    BY DEF resolve_unwritten
  <2> QED
    BY <2>1, <2>2, <2>3 DEF resolve_unwritten
<1>13. CASE \E d \in Decisions : onAbort(d)
  BY <1>13, AppendProperties DEF onAbort
<1>14. CASE dispose
  BY <1>14 DEF dispose
<1>15. CASE bridge_dies
  BY <1>15 DEF bridge_dies
<1>16. CASE UNCHANGED vars
  BY <1>16 DEF vars
<1>17. CASE Unwritten
  <2>1. stdin' \in Seq(ToBridge)
    <3>1. stdin' = stdin \/ \E f \in ToBridge : stdin' = Append(stdin, f)
      BY <1>17, UnwrittenFacts
    <3>2. CASE stdin' = stdin
      BY <3>2
    <3>3. CASE \E f \in ToBridge : stdin' = Append(stdin, f)
      BY <3>3, AppendProperties
    <3> QED
      BY <3>1, <3>2, <3>3
  <2>2. cause' \in [Decisions -> SUBSET Causes]
    BY <1>17, UnwrittenFacts DEF Causes
  <2>3. outcome' \in [Decisions -> {"none", "error", "limit"} \cup Tiers]
    BY <1>17, UnwrittenFacts
  <2>4. verdict' \in [Decisions -> Verdicts \cup {None}]
    BY <1>17, UnwrittenFacts
  <2> QED
    BY <1>17, <2>1, <2>2, <2>3, <2>4, UnwrittenFacts
<1> QED
  BY <1>1, <1>2, <1>3, <1>4, <1>5, <1>6, <1>7, <1>8, <1>9, <1>10, <1>11, <1>12,
     <1>13, <1>14, <1>15, <1>16, <1>17
     DEF Next, ClientStep, BridgeStep, CallerStep, Unwritten

\* The client's control and the verdicts.
LEMMA ClientStepSound == IInv /\ [Next]_vars => ClientSound' /\ AnswerSound'
<1> SUFFICES ASSUME IInv, [Next]_vars PROVE ClientSound' /\ AnswerSound'
  OBVIOUS
<1> USE NoneAssumption DEF IInv, TypeOK, ClientSound, AnswerSound, pipes, observed
<1>1. CASE start_ready
  BY <1>1 DEF start_ready
<1>2. CASE start_fails
  BY <1>2 DEF start_fails
<1>3. CASE read_frame
  <2>1. active \in Decisions /\ (Head(stdout).type = "decision" => Head(stdout).alias \in Tiers)
    BY <1>3, HeadTailProperties, ToClientFacts DEF read_frame
  <2> QED
    BY <1>3, <2>1 DEF read_frame, End, Tiers
<1>4. CASE read_end
  BY <1>4 DEF read_end, End
<1>5. CASE \E text \in Verdicts : classifier_result(text)
  BY <1>5 DEF classifier_result
<1>6. CASE classifier_error
  BY <1>6 DEF classifier_error
<1>7. CASE classifier_deadline
  BY <1>7 DEF classifier_deadline, End
<1>8. CASE bridge_main
  BY <1>8 DEF bridge_main
<1>9. CASE bridge_reply
  BY <1>9 DEF bridge_reply
<1>10. CASE \E d \in Decisions : resolve_refused(d)
  BY <1>10 DEF resolve_refused
<1>11. CASE \E d \in Decisions : resolve_start(d)
  BY <1>11 DEF resolve_start
<1>12. CASE \E d \in Decisions : resolve_unwritten(d)
  BY <1>12 DEF resolve_unwritten
<1>13. CASE \E d \in Decisions : onAbort(d)
  BY <1>13 DEF onAbort
<1>14. CASE dispose
  BY <1>14 DEF dispose
<1>15. CASE bridge_dies
  BY <1>15 DEF bridge_dies
<1>16. CASE UNCHANGED vars
  BY <1>16 DEF vars
<1>17. CASE Unwritten
  BY <1>17, UnwrittenFacts
<1> QED
  BY <1>1, <1>2, <1>3, <1>4, <1>5, <1>6, <1>7, <1>8, <1>9, <1>10, <1>11, <1>12,
     <1>13, <1>14, <1>15, <1>16, <1>17
     DEF Next, ClientStep, BridgeStep, CallerStep, Unwritten

\* What a pipe holds after a frame was taken from it or put into it.
LEMMA TailFrames ==
  ASSUME NEW S, NEW s \in Seq(S), s # <<>>
  PROVE  /\ Len(Tail(s)) = Len(s) - 1 /\ Len(s) \in Nat /\ Len(s) > 0
         /\ Head(s) = s[1]
         /\ \A i \in 1..Len(Tail(s)) : i + 1 \in 1..Len(s) /\ Tail(s)[i] = s[i + 1]
BY HeadTailProperties

LEMMA AppendFrames ==
  ASSUME NEW S, NEW s \in Seq(S), NEW f \in S
  PROVE  /\ Len(Append(s, f)) = Len(s) + 1 /\ Len(s) \in Nat
         /\ \A i \in 1..Len(Append(s, f)) :
              \/ i \in 1..Len(s) /\ Append(s, f)[i] = s[i]
              \/ i = Len(s) + 1 /\ Append(s, f)[i] = f
<1>1. Len(s) \in Nat
  OBVIOUS
<1> QED
  BY <1>1, AppendProperties

\* The frames in the pipes.  A verdict is given once, so the frames that carry it
\* stay true.
LEMMA FramesStep == IInv /\ [Next]_vars => FramesSound'
<1> SUFFICES ASSUME IInv, [Next]_vars PROVE FramesSound'
  OBVIOUS
<1> USE NoneAssumption DEF IInv, TypeOK, FramesSound, pipes, observed
<1>1. CASE start_ready
  <2>1. stdin' = stdin /\ verdict' = verdict /\ stdout # <<>> /\ stdout' = Tail(stdout)
    BY <1>1 DEF start_ready
  <2>2. \A i \in 1..Len(stdout') : i + 1 \in 1..Len(stdout) /\ stdout'[i] = stdout[i + 1]
    BY <2>1, TailFrames
  <2> QED
    BY <2>1, <2>2
<1>2. CASE start_fails
  BY <1>2 DEF start_fails
<1>3. CASE read_frame
  BY <1>3, TailFrames DEF read_frame
<1>4. CASE read_end
  BY <1>4 DEF read_end
<1>5. CASE \E text \in Verdicts : classifier_result(text)
  <2> PICK text \in Verdicts : classifier_result(text)
    BY <1>5
  <2>1. active \in Decisions /\ verdict[active] = None
    BY DEF classifier_result, ClientSound, AnswerSound
  <2> QED
    BY <2>1, AppendFrames, ToBridgeFacts DEF classifier_result
<1>6. CASE classifier_error
  BY <1>6, AppendFrames, ToBridgeFacts DEF classifier_error, ClientSound, Frame
<1>7. CASE classifier_deadline
  BY <1>7 DEF classifier_deadline
<1>8. CASE bridge_main
  <2>1. stdin # <<>> /\ stdin' = Tail(stdin) /\ verdict' = verdict
    BY <1>8 DEF bridge_main
  <2>2. Head(stdin) \in ToBridge
    BY <2>1, HeadTailProperties
  <2>3. PICK g \in ToClient : stdout' = Append(stdout, g) /\ g.type # "decision"
    <3>1. Head(stdin).id \in Decisions
      BY <2>2, ToBridgeFacts
    <3>2. \/ stdout' = Append(stdout, Frame("call_model", Head(stdin).id))
          \/ stdout' = Append(stdout, Frame("error", None))
      BY <1>8 DEF bridge_main, Send
    <3>3. \A d : Frame("call_model", d).type # "decision" /\ Frame("error", d).type # "decision"
      BY DEF Frame
    <3> QED
      BY <3>1, <3>2, <3>3, ToClientFacts, Zenon
  <2>4. \A i \in 1..Len(stdin') : stdin'[i].type = "model_result" =>
          verdict[stdin'[i].id] = stdin'[i].text
    BY <2>1, TailFrames
  <2>5. \A i \in 1..Len(stdout') : stdout'[i].type = "decision" =>
          /\ verdict[stdout'[i].id] # None
          /\ stdout'[i].alias = selected(verdict[stdout'[i].id])
    BY <2>3, AppendFrames
  <2> QED
    BY <2>1, <2>4, <2>5
<1>9. CASE bridge_reply
  <2> DEFINE f == Head(stdin)
  <2>1. /\ stdin # <<>> /\ stdin' = Tail(stdin) /\ verdict' = verdict
        /\ serving \in Decisions
    BY <1>9 DEF bridge_reply
  <2>2. f = stdin[1] /\ 1 \in 1..Len(stdin) /\ f \in ToBridge
    BY <2>1, TailFrames, HeadTailProperties
  <2>3. PICK g \in ToClient :
          /\ stdout' = Append(stdout, g)
          /\ g.type = "decision" =>
               /\ f.type = "model_result" /\ f.id = serving
               /\ g.id = serving /\ g.alias = selected(f.text)
    <3>1. CASE f.type = "model_result" /\ f.id = serving
      <4>1. [type |-> "decision", id |-> serving, alias |-> selected(f.text)] \in ToClient
        BY <2>1, SelectedFacts, ToClientFacts
      <4> QED
        BY <3>1, <4>1, <1>9 DEF bridge_reply, Send
    <3>2. CASE ~(f.type = "model_result" /\ f.id = serving)
      <4>1. Frame("error", serving) \in ToClient /\ Frame("error", serving).type = "error"
        BY <2>1, ToClientFacts DEF Frame
      <4> QED
        BY <3>2, <4>1, <1>9 DEF bridge_reply, Send
    <3> QED
      BY <3>1, <3>2
  <2>4. g.type = "decision" => verdict[g.id] # None /\ g.alias = selected(verdict[g.id])
    BY <2>2, <2>3, ToBridgeFacts
  <2>5. \A i \in 1..Len(stdin') : stdin'[i].type = "model_result" =>
          verdict[stdin'[i].id] = stdin'[i].text
    BY <2>1, TailFrames
  <2>6. \A i \in 1..Len(stdout') : stdout'[i].type = "decision" =>
          /\ verdict[stdout'[i].id] # None
          /\ stdout'[i].alias = selected(verdict[stdout'[i].id])
    BY <2>3, <2>4, AppendFrames
  <2> QED
    BY <2>1, <2>5, <2>6
<1>10. CASE \E d \in Decisions : resolve_refused(d)
  BY <1>10 DEF resolve_refused
<1>11. CASE \E d \in Decisions : resolve_start(d)
  <2> PICK d \in Decisions : resolve_start(d)
    BY <1>11
  <2>1. /\ stdin' = Append(stdin, Frame("start", d)) /\ verdict' = verdict
        /\ stdout' = stdout /\ Frame("start", d) \in ToBridge
        /\ Frame("start", d).type = "start"
    BY ToBridgeFacts DEF resolve_start, Frame
  <2> QED
    BY <2>1, AppendFrames
<1>12. CASE \E d \in Decisions : resolve_unwritten(d)
  <2> PICK d \in Decisions : resolve_unwritten(d)
    BY <1>12
  <2>1. /\ stdin' = stdin \/ stdin' = Append(stdin, Frame("start", d))
        /\ verdict' = verdict
        /\ stdout' = stdout /\ Frame("start", d) \in ToBridge
        /\ Frame("start", d).type = "start"
    BY ToBridgeFacts DEF resolve_unwritten, Frame
  <2>2. CASE stdin' = stdin
    BY <2>1, <2>2
  <2>3. CASE stdin' = Append(stdin, Frame("start", d))
    BY <2>1, <2>3, AppendFrames
  <2> QED
    BY <2>1, <2>2, <2>3
<1>13. CASE \E d \in Decisions : onAbort(d)
  <2> PICK d \in Decisions : onAbort(d)
    BY <1>13
  <2>1. Frame("cancel", d) \in ToBridge /\ Frame("cancel", d).type = "cancel"
    BY ToBridgeFacts DEF Frame
  <2>2. stdout' = stdout /\ verdict' = verdict
    BY DEF onAbort
  <2>3. CASE stdin' = stdin
    BY <2>2, <2>3
  <2>4. CASE stdin' = Append(stdin, Frame("cancel", d))
    BY <2>1, <2>2, <2>4, AppendFrames
  <2> QED
    BY <2>3, <2>4 DEF onAbort
<1>14. CASE dispose
  BY <1>14 DEF dispose
<1>15. CASE bridge_dies
  BY <1>15 DEF bridge_dies
<1>16. CASE UNCHANGED vars
  BY <1>16 DEF vars
<1>17. CASE Unwritten
  <2>1. /\ active \in Decisions /\ verdict[active] = None /\ stdout' = stdout
        /\ \A d \in Decisions : d # active => verdict'[d] = verdict[d]
    BY <1>17, UnwrittenFacts
  <2>2. \A i \in 1..Len(stdin) : stdin[i] \in ToBridge
    BY ElementOfSeq
  <2>3. \A i \in 1..Len(stdin) : stdin[i].type = "model_result" =>
          verdict'[stdin[i].id] = stdin[i].text
    BY <2>1, <2>2, ToBridgeFacts
  <2>4. \A i \in 1..Len(stdout') : stdout'[i].type = "decision" =>
          /\ verdict'[stdout'[i].id] # None
          /\ stdout'[i].alias = selected(verdict'[stdout'[i].id])
    <3>1. \A i \in 1..Len(stdout) : stdout[i] \in ToClient
      BY ElementOfSeq
    <3>2. \A i \in 1..Len(stdout) : stdout[i].type = "decision" =>
            stdout[i].id \in Decisions /\ stdout[i].id # active
      BY <2>1, <3>1, ToClientFacts
    <3> QED
      BY <2>1, <3>2
  <2>5. \A i \in 1..Len(stdin') : stdin'[i].type = "model_result" =>
          verdict'[stdin'[i].id] = stdin'[i].text
    <3>1. CASE stdin' = stdin
      BY <2>3, <3>1
    <3>2. CASE stdin' # stdin
      <4>1. PICK f \in ToBridge :
              /\ stdin' = Append(stdin, f)
              /\ f.type = "model_result" => f.id = active /\ f.text = verdict'[active]
        BY <1>17, <3>2, UnwrittenFacts
      <4> QED
        BY <2>3, <4>1, AppendFrames
    <3> QED
      BY <3>1, <3>2
  <2> QED
    BY <2>4, <2>5
<1> QED
  BY <1>1, <1>2, <1>3, <1>4, <1>5, <1>6, <1>7, <1>8, <1>9, <1>10, <1>11, <1>12,
     <1>13, <1>14, <1>15, <1>16, <1>17
     DEF Next, ClientStep, BridgeStep, CallerStep, Unwritten

\* The cancelled decisions.  A cancel frame enters the pipe before any result of its
\* decision; the bridge serves that decision no more once it has read the frame.
LEMMA CancelStep == IInv /\ [Next]_vars => CancelSound'
<1> SUFFICES ASSUME IInv, [Next]_vars PROVE CancelSound'
  OBVIOUS
<1> USE NoneAssumption DEF IInv, TypeOK, pipes, observed
<1>1. ASSUME UNCHANGED <<stdin, serving, cancelled>>, aborted \subseteq aborted',
             \A i \in 1..Len(stdout') : stdout'[i].type = "decision" =>
               \E k \in 1..Len(stdout) : stdout'[i] = stdout[k]
      PROVE  CancelSound'
  BY <1>1 DEF CancelSound, CancelPending, CancelRead
<1>2. ASSUME NEW f \in ToBridge, stdin' = Append(stdin, f),
             f.type = "start" => f.id \notin cancelled,
             UNCHANGED <<stdout, serving, cancelled>>, aborted \subseteq aborted'
      PROVE  CancelSound'
  <2> SUFFICES ASSUME NEW d \in cancelled
               PROVE  CancelPending(d)' \/ CancelRead(d)'
    BY <1>2 DEF CancelSound
  <2>0. f # Frame("start", d)
    BY <1>2 DEF Frame
  <2>1. CASE CancelPending(d)
    BY <1>2, <2>0, <2>1, AppendFrames, AppendProperties DEF CancelPending
  <2>2. CASE CancelRead(d)
    BY <1>2, <2>0, <2>2, AppendFrames DEF CancelRead
  <2> QED
    BY <2>1, <2>2 DEF CancelSound
<1>3. ASSUME stdin # <<>>, stdin' = Tail(stdin), UNCHANGED <<aborted, cancelled>>,
             NEW f, f = Head(stdin), NEW g \in ToClient, stdout' = Append(stdout, g),
             g.type = "decision" =>
               f.type = "model_result" /\ f.id = serving /\ g.id = serving,
             serving' \in Decisions =>
               serving = None /\ f = Frame("start", serving')
      PROVE  CancelSound'
  <2> SUFFICES ASSUME NEW d \in cancelled
               PROVE  /\ CancelPending(d)' \/ CancelRead(d)'
                      /\ g.type = "decision" => g.id # d
    BY <1>3, AppendFrames DEF CancelSound
  <2>0. /\ Len(stdin') = Len(stdin) - 1 /\ Len(stdin) \in Nat /\ Len(stdin) > 0
        /\ f = stdin[1]
        /\ \A i \in 1..Len(stdin') : i + 1 \in 1..Len(stdin) /\ stdin'[i] = stdin[i + 1]
    BY <1>3, TailFrames
  <2>1. CASE CancelPending(d)
    <3>1. PICK j \in 1..Len(stdin) :
            /\ stdin[j] = Frame("cancel", d)
            /\ \A i \in 1..Len(stdin) : i < j =>
                 ~(stdin[i].type = "model_result" /\ stdin[i].id = d)
            /\ \A i \in 1..Len(stdin) : i > j => stdin[i] # Frame("start", d)
      BY <2>1 DEF CancelPending
    <3>2. CASE j = 1
      <4>1. f = Frame("cancel", d) /\ f.type = "cancel"
        BY <2>0, <3>1, <3>2 DEF Frame
      <4>2. serving' # d
        BY <1>3, <4>1 DEF Frame
      <4> QED
        BY <1>3, <2>0, <3>1, <3>2, <4>1, <4>2 DEF CancelRead
    <3>3. CASE j > 1
      <4>1. ~(f.type = "model_result" /\ f.id = d)
        BY <2>0, <3>1, <3>3
      <4>2. j - 1 \in 1..Len(stdin') /\ stdin'[j - 1] = Frame("cancel", d)
        BY <2>0, <3>1, <3>3
      <4>3. \A i \in 1..Len(stdin') : i < j - 1 =>
              ~(stdin'[i].type = "model_result" /\ stdin'[i].id = d)
        BY <2>0, <3>1, <3>3
      <4>4. \A i \in 1..Len(stdin') : i > j - 1 => stdin'[i] # Frame("start", d)
        BY <2>0, <3>1, <3>3
      <4> QED
        BY <1>3, <4>1, <4>2, <4>3, <4>4 DEF CancelPending
    <3> QED
      BY <2>0, <3>2, <3>3
  <2>2. CASE CancelRead(d)
    <3>1. serving' # d
      BY <1>3, <2>0, <2>2 DEF CancelRead
    <3> QED
      BY <1>3, <2>0, <2>2, <3>1 DEF CancelRead
  <2> QED
    BY <2>1, <2>2 DEF CancelSound
<1>4. CASE start_ready
  BY <1>1, <1>4, TailFrames DEF start_ready
<1>5. CASE start_fails
  BY <1>1, <1>5 DEF start_fails
<1>6. CASE read_frame
  BY <1>1, <1>6, TailFrames DEF read_frame
<1>7. CASE read_end \/ classifier_deadline \/ dispose \/ bridge_dies
  BY <1>1, <1>7 DEF read_end, classifier_deadline, dispose, bridge_dies
<1>8. CASE \E text \in Verdicts : classifier_result(text)
  <2> PICK text \in Verdicts : classifier_result(text)
    BY <1>8
  <2> DEFINE f == [type |-> "model_result", id |-> active, text |-> text]
  <2>1. f \in ToBridge /\ f.type # "start"
    BY ToBridgeFacts DEF classifier_result, ClientSound
  <2> QED
    BY <1>2, <2>1 DEF classifier_result
<1>9. CASE classifier_error
  <2>1. Frame("model_error", active) \in ToBridge /\ Frame("model_error", active).type # "start"
    BY <1>9, ToBridgeFacts DEF classifier_error, ClientSound, Frame
  <2> QED
    BY <1>2, <1>9, <2>1 DEF classifier_error
<1>10. CASE bridge_main
  <2>1. Head(stdin) \in ToBridge
    BY <1>10, HeadTailProperties DEF bridge_main
  <2>2. PICK g \in ToClient : stdout' = Append(stdout, g) /\ g.type # "decision"
    BY <1>10, <2>1, ToBridgeFacts, ToClientFacts DEF bridge_main, Send, Frame
  <2>3. serving' \in Decisions => serving = None /\ Head(stdin) = Frame("start", serving')
    BY <1>10, <2>1 DEF bridge_main, Frame, ToBridge
  <2> QED
    BY <1>3, <1>10, <2>2, <2>3 DEF bridge_main
<1>11. CASE bridge_reply
  <2>1. serving \in Decisions /\ serving' = None
    BY <1>11 DEF bridge_reply
  <2>2. PICK g \in ToClient :
          /\ stdout' = Append(stdout, g)
          /\ g.type = "decision" =>
               /\ Head(stdin).type = "model_result" /\ Head(stdin).id = serving
               /\ g.id = serving
    <3>1. [type |-> "decision", id |-> serving, alias |-> selected(Head(stdin).text)] \in ToClient
      BY <2>1, SelectedFacts, ToClientFacts
    <3>2. Frame("error", serving) \in ToClient /\ Frame("error", serving).type = "error"
      BY <2>1, ToClientFacts DEF Frame
    <3> QED
      BY <1>11, <3>1, <3>2 DEF bridge_reply, Send
  <2> QED
    BY <1>3, <1>11, <2>1, <2>2 DEF bridge_reply
<1>12. CASE \E d \in Decisions : resolve_refused(d)
  BY <1>1, <1>12 DEF resolve_refused
<1>13. CASE \E d \in Decisions : resolve_start(d) \/ resolve_unwritten(d)
  <2> PICK d \in Decisions : resolve_start(d) \/ resolve_unwritten(d)
    BY <1>13
  <2>1. Frame("start", d) \in ToBridge /\ Frame("start", d).id = d
    BY ToBridgeFacts DEF Frame
  <2>2. d \notin cancelled
    BY DEF CancelSound, resolve_start, resolve_unwritten
  <2> QED
    BY <1>1, <1>2, <2>1, <2>2 DEF resolve_start, resolve_unwritten
<1>14. CASE \E d \in Decisions : onAbort(d)
  <2> PICK d \in Decisions : onAbort(d)
    BY <1>14
  <2>1. CASE active # d
    BY <1>1, <2>1 DEF onAbort
  <2>2. CASE active = d
    <3>1. Frame("cancel", d) \in ToBridge /\ Frame("cancel", d).type = "cancel"
      BY ToBridgeFacts DEF Frame
    <3>2. CASE verdict[d] # None
      BY <1>2, <2>2, <3>1, <3>2 DEF onAbort
    <3>3. CASE verdict[d] = None
      <4>1. /\ stdin' = Append(stdin, Frame("cancel", d)) /\ stdout' = stdout
            /\ cancelled' = cancelled \cup {d} /\ aborted' = aborted \cup {d}
            /\ serving' = serving
        BY <2>2, <3>3 DEF onAbort
      <4>2. \A i \in 1..Len(stdin) : ~(stdin[i].type = "model_result" /\ stdin[i].id = d)
        <5>1. \A i \in 1..Len(stdin) : stdin[i] \in ToBridge
          BY ElementOfSeq
        <5> QED
          BY <3>3, <5>1, ToBridgeFacts DEF FramesSound
      <4>3. \A i \in 1..Len(stdout) : stdout[i].type = "decision" => stdout[i].id # d
        BY <3>3 DEF FramesSound
      <4>4. CancelPending(d)'
        <5>1. /\ Len(stdin') = Len(stdin) + 1 /\ Len(stdin) \in Nat
              /\ stdin'[Len(stdin) + 1] = Frame("cancel", d)
              /\ \A i \in 1..Len(stdin') : i < Len(stdin) + 1 =>
                   i \in 1..Len(stdin) /\ stdin'[i] = stdin[i]
          BY <3>1, <4>1, AppendProperties
        <5>2. Len(stdin) + 1 \in 1..Len(stdin')
          BY <5>1
        <5>3. \A i \in 1..Len(stdin') : i < Len(stdin) + 1 =>
                ~(stdin'[i].type = "model_result" /\ stdin'[i].id = d)
          BY <4>2, <5>1
        <5>4. \A i \in 1..Len(stdin') : i > Len(stdin) + 1 => stdin'[i] # Frame("start", d)
          BY <5>1
        <5> QED
          BY <5>1, <5>2, <5>3, <5>4 DEF CancelPending
      <4>5. \A e \in cancelled : CancelPending(e)' \/ CancelRead(e)'
        <5> SUFFICES ASSUME NEW e \in cancelled PROVE CancelPending(e)' \/ CancelRead(e)'
          OBVIOUS
        <5>0. Frame("cancel", d) # Frame("start", e)
          BY DEF Frame
        <5>1. CASE CancelPending(e)
          <6>1. stdin' = Append(stdin, Frame("cancel", d))
            BY <4>1
          <6> QED
            BY <3>1, <5>0, <5>1, <6>1, AppendFrames, AppendProperties DEF CancelPending
        <5>2. CASE CancelRead(e)
          BY <3>1, <4>1, <5>0, <5>2, AppendFrames DEF CancelRead
        <5> QED
          BY <5>1, <5>2 DEF CancelSound
      <4> QED
        BY <4>1, <4>3, <4>4, <4>5 DEF CancelSound
    <3> QED
      BY <3>2, <3>3
  <2> QED
    BY <2>1, <2>2
<1>15. CASE UNCHANGED vars
  BY <1>1, <1>15 DEF vars
<1>16. CASE Unwritten
  BY <1>1, <1>2, <1>16, UnwrittenFacts
<1> QED
  BY <1>4, <1>5, <1>6, <1>7, <1>8, <1>9, <1>10, <1>11, <1>12, <1>13, <1>14, <1>15,
     <1>16 DEF Next, ClientStep, BridgeStep, CallerStep, Unwritten

\* A cause is added, and none taken away.
LEMMA BlameFacts ==
  ASSUME TypeOK, NEW d \in Decisions, NEW c, Blame(d, c)
  PROVE  c \in cause'[d] /\ \A e \in Decisions : cause[e] \subseteq cause'[e]
BY DEF TypeOK, Blame

\* Nothing cut is ever mended.
LEMMA CutStays ==
  IInv /\ [Next]_vars =>
    /\ Uncut' => Uncut
    /\ \A d \in Decisions : OwnCause(d) => OwnCause(d)'
    /\ \A d \in Decisions : Cut(d) => Cut(d)'
<1> SUFFICES ASSUME IInv, [Next]_vars
             PROVE  /\ alive' => alive
                    /\ closed => closed'
                    /\ aborted \subseteq aborted'
                    /\ \A d \in Decisions : cause[d] \subseteq cause'[d]
  BY DEF Uncut, Cut, OwnCause
<1> USE DEF IInv, TypeOK, pipes, observed
<1>1. CASE ClientStep
  <2>1. client \in {"reading", "calling"} => active \in Decisions
    BY DEF ClientSound
  <2>2. CASE classifier_error \/ classifier_deadline
    BY <2>1, <2>2, BlameFacts DEF classifier_error, classifier_deadline
  <2>3. CASE start_ready \/ start_fails \/ read_end
    BY <2>3 DEF start_ready, start_fails, read_end
  <2>4. CASE read_frame
    BY <2>4 DEF read_frame
  <2>5. CASE \E text \in Verdicts : classifier_result(text)
    BY <2>5 DEF classifier_result
  <2>6. CASE Unwritten
    BY <2>6, UnwrittenFacts
  <2> QED
    BY <1>1, <2>2, <2>3, <2>4, <2>5, <2>6 DEF ClientStep, Unwritten
<1>2. CASE BridgeStep \/ bridge_dies
  BY <1>2 DEF BridgeStep, bridge_main, bridge_reply, bridge_dies
<1>3. CASE CallerStep
  BY <1>3 DEF CallerStep, resolve_refused, resolve_start, resolve_unwritten,
     onAbort, dispose, Blame
<1>4. CASE UNCHANGED vars
  BY <1>4 DEF vars
<1> QED
  BY <1>1, <1>2, <1>3, <1>4 DEF Next

\* One frame in a pipe.
LEMMA OneFrame ==
  ASSUME NEW f
  PROVE  /\ Append(<<>>, f) = <<f>> /\ Head(<<f>>) = f /\ Tail(<<f>>) = <<>>
         /\ <<f>> # <<>>
OBVIOUS

\* The two sides in step.
LEMMA InStepStep == IInv /\ [Next]_vars => StepSound'
<1> SUFFICES ASSUME IInv, [Next]_vars, Uncut' PROVE InStep'
  BY DEF StepSound
<1>0. Uncut /\ InStep /\ alive' /\ ~closed'
  BY CutStays DEF IInv, StepSound, Uncut
<1> USE NoneAssumption, <1>0 DEF IInv, TypeOK, ClientSound, pipes, observed
<1>1. CASE start_ready
  BY <1>1, OneFrame DEF start_ready, InStep
<1>2. CASE start_fails
  BY <1>2 DEF start_fails
<1>3. CASE read_frame
  BY <1>3, OneFrame DEF read_frame, InStep, End, Foreign, Frame
<1>4. CASE read_end
  BY <1>4 DEF read_end, Uncut
<1>5. CASE \E text \in Verdicts : classifier_result(text)
  BY <1>5, OneFrame DEF classifier_result, InStep
<1>6. CASE classifier_error
  BY <1>6, OneFrame DEF classifier_error, InStep, Blame
<1>7. CASE classifier_deadline
  BY <1>7 DEF classifier_deadline, Uncut, Cut, Blame
<1>8. CASE bridge_main
  BY <1>8, OneFrame DEF bridge_main, InStep, Send, Frame
<1>9. CASE bridge_reply
  BY <1>9, OneFrame, SelectedFacts DEF bridge_reply, InStep, Send, Frame
<1>10. CASE \E d \in Decisions : resolve_refused(d)
  BY <1>10 DEF resolve_refused, InStep, Blame
<1>11. CASE \E d \in Decisions : resolve_start(d)
  BY <1>11, OneFrame DEF resolve_start, InStep
<1>12. CASE \E d \in Decisions : resolve_unwritten(d)
  BY <1>12, BlameFacts DEF resolve_unwritten, InStep, Uncut, Cut
<1>13. CASE \E d \in Decisions : onAbort(d)
  BY <1>13 DEF onAbort, Uncut, Cut
<1>14. CASE dispose \/ bridge_dies
  BY <1>14 DEF dispose, bridge_dies
<1>15. CASE UNCHANGED vars
  BY <1>15 DEF vars, InStep
<1>16. CASE Unwritten
  BY <1>16, UnwrittenFacts DEF Uncut, Cut
<1> QED
  BY <1>1, <1>2, <1>3, <1>4, <1>5, <1>6, <1>7, <1>8, <1>9, <1>10, <1>11, <1>12,
     <1>13, <1>14, <1>15, <1>16 DEF Next, ClientStep, BridgeStep, CallerStep, Unwritten

\* The outcomes: only read_frame gives a tier, to the decision it is reading for.
LEMMA OutcomeStep ==
  IInv /\ [Next]_vars => NoCrossTalk' /\ CancelledNeverDecides' /\ FailureHasCause'
<1> SUFFICES ASSUME IInv, [Next]_vars
             PROVE  NoCrossTalk' /\ CancelledNeverDecides' /\ FailureHasCause'
  OBVIOUS
<1> USE NoneAssumption DEF IInv, TypeOK, ClientSound, pipes, observed
<1>0. /\ (\A d \in Decisions : OwnCause(d) => OwnCause(d)')
      /\ (\A e \in Decisions : Cut(e) => Cut(e)')
  BY CutStays
<1>1. ASSUME outcome' = outcome,
             \A d \in Decisions : outcome[d] \in Tiers => verdict'[d] = verdict[d],
             \A d \in cancelled' \ cancelled : outcome[d] = "none"
      PROVE  NoCrossTalk' /\ CancelledNeverDecides' /\ FailureHasCause'
  BY <1>0, <1>1 DEF NoCrossTalk, CancelledNeverDecides, FailureHasCause, Tiers
<1>2. ASSUME NEW d \in Decisions, NEW r \in {"error", "limit"},
             outcome' = [outcome EXCEPT ![d] = r], UNCHANGED <<verdict, cancelled>>,
             r = "error" => OwnCause(d)' \/ \E e \in Decisions : Cut(e)'
      PROVE  NoCrossTalk' /\ CancelledNeverDecides' /\ FailureHasCause'
  BY <1>0, <1>2 DEF NoCrossTalk, CancelledNeverDecides, FailureHasCause, Tiers
<1>3. CASE start_ready \/ start_fails \/ classifier_error \/ bridge_main \/ bridge_reply
             \/ dispose \/ bridge_dies \/ UNCHANGED vars
  BY <1>1, <1>3 DEF start_ready, start_fails, classifier_error, bridge_main, bridge_reply,
     dispose, bridge_dies, vars
<1>4. CASE \E d \in Decisions : resolve_start(d) \/ onAbort(d)
  BY <1>1, <1>4 DEF resolve_start, onAbort
<1>5. CASE \E text \in Verdicts : classifier_result(text)
  BY <1>1, <1>5 DEF classifier_result, Tiers
<1>6. CASE read_frame
  <2> DEFINE f == Head(stdout)
  <2>1. /\ stdout # <<>> /\ active \in Decisions /\ UNCHANGED <<verdict, cancelled, cause, aborted>>
        /\ UNCHANGED <<closed, alive>>
    BY <1>6 DEF read_frame
  <2>2. f = stdout[1] /\ 1 \in 1..Len(stdout) /\ f \in ToClient
    BY <2>1, TailFrames, HeadTailProperties
  <2>3. CASE Foreign(f) \/ f.type = "error" \/ (f.type = "call_model" /\ called)
               \/ (f.type = "decision" /\ ~called)
    <3>1. Uncut => cause[active] # {}
      BY <1>6, <2>1, <2>3, OneFrame DEF read_frame, StepSound, InStep, Foreign, Frame
    <3>2. OwnCause(active) \/ \E e \in Decisions : Cut(e)
      BY <3>1 DEF Uncut, OwnCause
    <3> QED
      <4>1. outcome' = [outcome EXCEPT ![active] = "error"]
        BY <1>6, <2>3 DEF read_frame, End
      <4> QED
        BY <1>0, <1>2, <2>1, <3>2, <4>1
  <2>4. CASE ~Foreign(f) /\ f.type = "call_model" /\ ~called
    BY <1>1, <1>6, <2>1, <2>4 DEF read_frame
  <2>5. CASE ~Foreign(f) /\ f.type = "decision" /\ called
    <3>1. outcome' = [outcome EXCEPT ![active] = f.alias] /\ f.id = active
      BY <1>6, <2>5 DEF read_frame, End, Foreign
    <3>2. verdict[active] # None /\ f.alias = selected(verdict[active]) /\ active \notin cancelled
      BY <2>1, <2>2, <2>5, <3>1 DEF FramesSound, CancelSound
    <3>3. f.alias \in Tiers
      BY <3>2, SelectedFacts
    <3>4. NoCrossTalk'
      BY <2>1, <3>1, <3>2, <3>3 DEF NoCrossTalk, selected, Tiers
    <3>5. CancelledNeverDecides'
      BY <2>1, <3>1, <3>2 DEF CancelledNeverDecides
    <3>6. FailureHasCause'
      BY <1>0, <2>1, <3>1, <3>3 DEF FailureHasCause, Tiers
    <3> QED
      BY <3>4, <3>5, <3>6
  <2> QED
    BY <1>6, <2>3, <2>4, <2>5 DEF read_frame
<1>7. CASE read_end
  BY <1>2, <1>7 DEF read_end, End, OwnCause
<1>8. CASE classifier_deadline
  BY <1>2, <1>8 DEF classifier_deadline, End
<1>9. CASE \E d \in Decisions : resolve_refused(d) \/ resolve_unwritten(d)
  <2> PICK d \in Decisions : resolve_refused(d) \/ resolve_unwritten(d)
    BY <1>9
  <2>1. OwnCause(d)'
    BY BlameFacts DEF resolve_refused, resolve_unwritten, OwnCause
  <2> QED
    BY <1>2, <2>1 DEF resolve_refused, resolve_unwritten
<1>10. CASE Unwritten
  <2>1. /\ active \in Decisions /\ outcome' = [outcome EXCEPT ![active] = "error"]
        /\ cancelled' = cancelled /\ "unwritten" \in cause'[active]
        /\ \A d \in Decisions : d # active => verdict'[d] = verdict[d]
    BY <1>10, UnwrittenFacts
  <2>2. \E e \in Decisions : Cut(e)'
    BY <2>1 DEF Cut
  <2> QED
    BY <1>0, <2>1, <2>2 DEF NoCrossTalk, CancelledNeverDecides, FailureHasCause, Tiers
<1> QED
  BY <1>3, <1>4, <1>5, <1>6, <1>7, <1>8, <1>9, <1>10
     DEF Next, ClientStep, BridgeStep, CallerStep, Unwritten

-----------------------------------------------------------------------------

\* The invariant holds throughout.
LEMMA Invariance == Spec => []IInv
<1>1. IInv /\ [Next]_vars => IInv'
  BY TypeStep, ClientStepSound, FramesStep, CancelStep, InStepStep, OutcomeStep DEF IInv
<1> QED
  BY InitHolds, <1>1, PTL DEF Spec

\* Client, pipes and bridge hold what they should, in every interleaving.
THEOREM TypeCorrect == Spec => []TypeOK
<1>1. IInv => TypeOK
  BY DEF IInv
<1> QED
  BY Invariance, <1>1, PTL

\* A tier that resolveDecision returns was chosen on the verdict of that decision,
\* however many decisions have left frames in the pipes.
THEOREM OwnVerdictOnly == Spec => []NoCrossTalk
<1>1. IInv => NoCrossTalk
  BY DEF IInv
<1> QED
  BY Invariance, <1>1, PTL

\* A decision cancelled before its classifier answered never selects a tier.
THEOREM CancelledSelectsNothing == Spec => []CancelledNeverDecides
<1>1. IInv => CancelledNeverDecides
  BY DEF IInv
<1> QED
  BY Invariance, <1>1, PTL

\* As long as no decision is cut, a resolveDecision that throws has a reason of its
\* own: the client and the bridge are in step.
THEOREM UncutStaysInStep == Spec => []FailureHasCause
<1>1. IInv => FailureHasCause
  BY DEF IInv
<1> QED
  BY Invariance, <1>1, PTL

-----------------------------------------------------------------------------
(* Why a resolution ends (ResolveEnds), up to the fairness of the steps: client *)
(* and bridge never wait for each other, and every step of theirs uses up       *)
(* something that is not replaced.                                              *)

\* A client that awaits a frame is owed one: it is in the output pipe, or the bridge
\* has an input to answer.  Both sides never wait on empty pipes, in step or not.
NeverBothWaiting == client = "reading" => stdin # <<>> \/ stdout # <<>>

LEMMA WaitingStep == IInv /\ NeverBothWaiting /\ [Next]_vars => NeverBothWaiting'
<1> SUFFICES ASSUME IInv, NeverBothWaiting, [Next]_vars, client' = "reading"
             PROVE  stdin' # <<>> \/ stdout' # <<>>
  BY DEF NeverBothWaiting
<1>1. stdin \in Seq(ToBridge) /\ stdout \in Seq(ToClient)
  BY DEF IInv, TypeOK
<1>2. ASSUME NEW q, NEW S, q \in Seq(S), NEW x PROVE Append(q, x) # <<>>
  <2>1. Len(Append(q, x)) = Len(q) + 1 /\ Len(q) \in Nat
    BY <1>2
  <2> QED
    BY <2>1
<1>3. CASE UNCHANGED <<stdin, stdout, client>>
  BY <1>3 DEF NeverBothWaiting
<1>4. CASE \E f : stdin' = Append(stdin, f)
  BY <1>1, <1>2, <1>4
<1>5. CASE \E f : stdout' = Append(stdout, f)
  BY <1>1, <1>2, <1>5
<1>6. CASE start_ready \/ start_fails \/ read_frame \/ read_end \/ classifier_deadline
  BY <1>6 DEF start_ready, start_fails, read_frame, read_end, classifier_deadline, End
<1>7. CASE \E text \in Verdicts : classifier_result(text)
  BY <1>4, <1>7 DEF classifier_result
<1>8. CASE classifier_error
  BY <1>4, <1>8 DEF classifier_error
<1>9. CASE BridgeStep
  BY <1>5, <1>9 DEF BridgeStep, bridge_main, bridge_reply, Send
<1>10. CASE \E d \in Decisions : resolve_start(d)
  BY <1>4, <1>10 DEF resolve_start
<1>13. CASE \E d \in Decisions : resolve_unwritten(d)
  BY <1>3, <1>4, <1>13 DEF resolve_unwritten
<1>14. CASE Unwritten
  BY <1>14, UnwrittenFacts DEF IInv
<1>11. CASE \E d \in Decisions : resolve_refused(d) \/ onAbort(d)
  BY <1>3, <1>4, <1>11 DEF resolve_refused, onAbort, pipes
<1>12. CASE dispose \/ bridge_dies \/ UNCHANGED vars
  BY <1>3, <1>12 DEF dispose, bridge_dies, vars, pipes
<1> QED
  BY <1>6, <1>7, <1>8, <1>9, <1>10, <1>11, <1>12, <1>13, <1>14
     DEF Next, ClientStep, CallerStep, Unwritten

\* resolveDecision and the bridge's two loops never wait for each other, whatever
\* frames the decisions cut before have left in the pipes.
THEOREM NoMutualWait == Spec => []NeverBothWaiting
<1>1. Init => NeverBothWaiting
  BY DEF Init, NeverBothWaiting
<1> QED
  BY Invariance, <1>1, WaitingStep, PTL DEF Spec

\* What the resolution in progress has yet to go through: frames to be answered and
\* to be read, the classifier call, an abort.
Remaining ==
  2 * Len(stdin) + Len(stdout)
    + (IF called THEN 0 ELSE 4) + (IF client = "calling" THEN 3 ELSE 0)
    + (IF active \in aborted THEN 0 ELSE 3)

Advances ==
  active # None /\ active' = active =>
    /\ Remaining \in Nat /\ Remaining' <= Remaining
    /\ ClientStep \/ BridgeStep => Remaining' < Remaining

LEMMA AdvanceStep == IInv /\ [Next]_vars => Advances
<1> SUFFICES ASSUME IInv, [Next]_vars, active # None, active' = active
             PROVE  /\ Remaining \in Nat /\ Remaining' <= Remaining
                    /\ ClientStep \/ BridgeStep => Remaining' < Remaining
  BY DEF Advances
<1> DEFINE Rest(c, k, a) == (IF k THEN 0 ELSE 4) + (IF c = "calling" THEN 3 ELSE 0)
                              + (IF a THEN 0 ELSE 3)
<1>1. /\ stdin \in Seq(ToBridge) /\ stdout \in Seq(ToClient)
      /\ Len(stdin) \in Nat /\ Len(stdout) \in Nat
      /\ Remaining = 2 * Len(stdin) + Len(stdout) + Rest(client, called, active \in aborted)
      /\ Remaining' = 2 * Len(stdin') + Len(stdout')
                        + Rest(client', called', active \in aborted')
      /\ client \in {"reading", "calling"}
  BY DEF IInv, TypeOK, Remaining, ClientSound
<1>0. Remaining \in Nat
  BY <1>1
<1>2. ASSUME NEW q, NEW S, q \in Seq(S), NEW x PROVE Len(Append(q, x)) = Len(q) + 1
  BY <1>2
<1>3. ASSUME NEW q, NEW S, q \in Seq(S), q # <<>> PROVE Len(Tail(q)) = Len(q) - 1
  BY <1>3
<1>4. CASE start_ready \/ start_fails
  BY <1>1, <1>4 DEF start_ready, start_fails
<1>5. CASE read_end \/ classifier_deadline
  <2>1. active' = None
    BY <1>5 DEF read_end, classifier_deadline, End
  <2> QED
    BY <2>1
<1>6. CASE read_frame
  <2>1. Len(stdout') = Len(stdout) - 1 /\ stdin' = stdin /\ aborted' = aborted
    BY <1>1, <1>3, <1>6 DEF read_frame
  <2>2. /\ client = "reading" /\ ~called
        /\ client' = "calling" /\ called'
    BY <1>6 DEF read_frame, End
  <2> QED
    BY <1>1, <2>1, <2>2
<1>7. CASE (\E text \in Verdicts : classifier_result(text)) \/ classifier_error
  <2>1. Len(stdin') = Len(stdin) + 1 /\ stdout' = stdout
    BY <1>1, <1>2, <1>7 DEF classifier_result, classifier_error
  <2>2. /\ client = "calling" /\ client' = "reading"
        /\ called' = called /\ aborted' = aborted
    BY <1>7 DEF classifier_result, classifier_error
  <2> QED
    BY <1>1, <2>1, <2>2
<1>8. CASE BridgeStep
  <2>1. Len(stdin') = Len(stdin) - 1
    BY <1>1, <1>3, <1>8 DEF BridgeStep, bridge_main, bridge_reply
  <2>2. Len(stdout') = Len(stdout) + 1
    BY <1>1, <1>2, <1>8 DEF BridgeStep, bridge_main, bridge_reply, Send
  <2>3. UNCHANGED <<client, called, aborted>>
    BY <1>8 DEF BridgeStep, bridge_main, bridge_reply
  <2> QED
    BY <1>1, <2>1, <2>2, <2>3
<1>9. ASSUME CallerStep \/ bridge_dies \/ UNCHANGED vars PROVE Remaining' <= Remaining
  <2>1. CASE \E d \in Decisions : resolve_start(d) \/ resolve_unwritten(d)
    BY <1>1, <2>1, NoneAssumption DEF resolve_start, resolve_unwritten
  <2>2. CASE \E d \in Decisions : resolve_refused(d)
    <3>1. UNCHANGED <<client, called, aborted, stdin, stdout>>
      BY <2>2 DEF resolve_refused, pipes
    <3> QED
      BY <1>1, <3>1
  <2>3. CASE \E d \in Decisions : onAbort(d)
    <3> PICK d \in Decisions : onAbort(d)
      BY <2>3
    <3>1. UNCHANGED <<client, called, stdout>> /\ aborted' = aborted \cup {d} /\ d \notin aborted
      BY DEF onAbort
    <3>2. CASE active = d
      <4>1. Len(stdin') = Len(stdin) + 1
        BY <1>1, <1>2, <3>2 DEF onAbort
      <4> QED
        BY <1>1, <3>1, <3>2, <4>1
    <3>3. CASE active # d
      <4>1. stdin' = stdin
        BY <3>3 DEF onAbort
      <4> QED
        BY <1>1, <3>1, <3>3, <4>1
    <3> QED
      BY <3>2, <3>3
  <2>4. CASE dispose \/ bridge_dies \/ UNCHANGED vars
    <3>1. UNCHANGED <<client, called, aborted, stdin, stdout>>
      BY <2>4 DEF dispose, bridge_dies, vars, pipes
    <3> QED
      BY <1>1, <3>1
  <2> QED
    BY <1>9, <2>1, <2>2, <2>3, <2>4 DEF CallerStep
<1>10. CASE Unwritten
  BY <1>10, UnwrittenFacts DEF IInv
<1> QED
  BY <1>0, <1>4, <1>5, <1>6, <1>7, <1>8, <1>9, <1>10 DEF Next, ClientStep, Unwritten

\* A resolution in progress has only so many steps before it: those of the client and
\* of the bridge each bring it nearer to its end, and nothing that callers, signals or
\* the death of the bridge do takes it further away.
THEOREM ResolutionAdvances == Spec => [][Advances]_vars
<1>1. IInv /\ [Next]_vars => [Advances]_vars
  BY AdvanceStep
<1> QED
  BY Invariance, <1>1, PTL DEF Spec
=============================================================================
