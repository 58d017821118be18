---------------------------- MODULE SessionProofs -----------------------------
(***************************************************************************)
(* Proofs about adapters/bargein_vad.py for any number of thread names and *)
(* any onset, as long as a microphone read returns within the join of      *)
(* disarm; about the microphone's users in a turn; and about identify in   *)
(* adapters/speakerid_ecapa.py for any profiles, scores and settings.      *)
(***************************************************************************)
EXTENDS Session, SequenceTheorems, TLAPS

(* What the port needs to know: `thread` is set exactly from the start of  *)
(* the thread to the end of disarm, and a thread that still listens has    *)
(* not reported speech.                                                    *)
IInv ==
  /\ caller \in CallerStates
  /\ speaking \in BOOLEAN
  /\ listener \in [Listeners -> ListenerStates]
  /\ IF caller \in {"armed", "joining"} THEN thread \in Listeners
                                        ELSE thread = NoListener
  /\ caller \in {"cleared", "ready"} => ~speaking
  /\ \A l \in Listeners : Alive(l) => ~speaking
  /\ OneListener
  /\ ErrorMeansDeaf

(* Nothing listens at first.                                               *)
LEMMA InitIInv == Init => IInv
  BY ListenerAssumption
     DEF Init, IInv, CallerStates, ListenerStates, Alive, OneListener, ErrorMeansDeaf

(* Every step of the caller and of a listener keeps the invariant.         *)
LEMMA NextIInv == ReadsInTime /\ IInv /\ [Next]_vars => IInv'
<1> SUFFICES ASSUME ReadsInTime, IInv, [Next]_vars PROVE IInv'
  OBVIOUS
<1> USE ListenerAssumption
    DEF IInv, CallerStates, ListenerStates, Alive, OneListener, ErrorMeansDeaf,
        CallerGoes, Goes, flags, threads
<1>1. CASE ArmClear
  BY <1>1 DEF ArmClear
<1>2. CASE ArmReady
  BY <1>2 DEF ArmReady
<1>3. CASE ArmStart
  BY <1>3 DEF ArmStart
<1>4. CASE Disarm
  BY <1>4 DEF Disarm
<1>5. CASE Disarmed
  BY <1>5 DEF Disarmed, Joined
<1>6. ASSUME NEW l \in Listeners, Open(l) PROVE IInv'
  BY <1>6 DEF Open
<1>7. ASSUME NEW l \in Listeners, Frame(l) PROVE IInv'
  BY <1>7 DEF Frame
<1>8. ASSUME NEW l \in Listeners, Judge(l) PROVE IInv'
  BY <1>8 DEF Judge
<1>9. ASSUME NEW l \in Listeners, Fail(l) PROVE IInv'
  BY <1>9 DEF Fail
<1>10. CASE UNCHANGED vars
  BY <1>10 DEF vars
<1> QED
  BY <1>1, <1>2, <1>3, <1>4, <1>5, <1>6, <1>7, <1>8, <1>9, <1>10
     DEF Next, CallerStep, Listen

(* The invariant holds in every reachable state.                           *)
LEMMA Invariance == ReadsInTime /\ Spec => []IInv
<1>1. CASE ReadsInTime
  <2>1. IInv /\ [Next]_vars => IInv'
    BY <1>1, NextIInv
  <2> QED
    BY <2>1, InitIInv, PTL DEF Spec
<1>2. CASE ~ReadsInTime
  BY <1>2
<1> QED
  BY <1>1, <1>2

(* The microphone is watched by one thread at a time, and by none once     *)
(* disarm has returned.                                                    *)
THEOREM SingleListener == ReadsInTime /\ Spec => []OneListener
<1>1. IInv => OneListener
  BY DEF IInv
<1> QED
  BY <1>1, Invariance, PTL

(* An error is this reply's, and means that no speech was or will be heard *)
(* in it.                                                                  *)
THEOREM ErrorsAreOfThisReply == ReadsInTime /\ Spec => []ErrorMeansDeaf
<1>1. IInv => ErrorMeansDeaf
  BY DEF IInv
<1> QED
  BY <1>1, Invariance, PTL

(* Each step of the threads is a step of the port or invisible to it.      *)
LEMMA StepRefines == IInv /\ [Next]_vars => [D!Next]_D!detectorVars
<1> SUFFICES ASSUME IInv, [Next]_vars PROVE [D!Next]_D!detectorVars
  OBVIOUS
<1> USE ListenerAssumption
    DEF IInv, CallerStates, ListenerStates, Alive, OneListener, CallerGoes, Goes,
        flags, threads, D!Next, D!Arm, D!Hear, D!Disarm, D!detectorVars
<1>1. CASE ArmClear
  BY <1>1 DEF ArmClear
<1>2. CASE ArmReady
  BY <1>2 DEF ArmReady
<1>3. CASE ArmStart
  BY <1>3 DEF ArmStart
<1>4. CASE Disarm
  BY <1>4 DEF Disarm
<1>5. CASE Disarmed
  BY <1>5 DEF Disarmed
<1>6. ASSUME NEW l \in Listeners, Open(l) PROVE [D!Next]_D!detectorVars
  BY <1>6 DEF Open
<1>7. ASSUME NEW l \in Listeners, Frame(l) PROVE [D!Next]_D!detectorVars
  BY <1>7 DEF Frame
<1>8. ASSUME NEW l \in Listeners, Judge(l) PROVE [D!Next]_D!detectorVars
  BY <1>8 DEF Judge
<1>9. ASSUME NEW l \in Listeners, Fail(l) PROVE [D!Next]_D!detectorVars
  BY <1>9 DEF Fail
<1>10. CASE UNCHANGED vars
  BY <1>10 DEF vars
<1> QED
  BY <1>1, <1>2, <1>3, <1>4, <1>5, <1>6, <1>7, <1>8, <1>9, <1>10
     DEF Next, CallerStep, Listen

(* The adapter is a detector as the orchestrator's model assumes it: speech*)
(* is heard between arm and disarm only, and never left over.              *)
THEOREM ImplementsDetector == ReadsInTime /\ Spec => IsDetector
<1>1. Init => D!Init
  BY DEF Init, D!Init
<1> QED
  BY <1>1, StepRefines, Invariance, PTL DEF Spec, IsDetector, D!Spec

(* Speech that is reported during a reply was heard by the listener armed  *)
(* for it, which then ends: a microphone read that outlasts the join is the*)
(* only way for an older one to be heard.                                  *)
THEOREM HeardByItsOwn == ReadsInTime /\ Spec => HeardInThisReply
<1>1. IInv /\ [Next]_vars =>
        [caller = "armed" /\ ~speaking /\ speaking' =>
           Alive(thread) /\ listener'[thread] = "dead"]_vars
  <2> SUFFICES ASSUME IInv, [Next]_vars, ~speaking, speaking'
               PROVE  Alive(thread) /\ listener'[thread] = "dead"
    OBVIOUS
  <2>1. PICK l \in Listeners : Judge(l)
    BY DEF Next, CallerStep, ArmClear, ArmReady, ArmStart, Disarm, Disarmed, Listen, Open,
           Frame, Fail, vars, flags
  <2>2. /\ listener[l] = "judging"
        /\ listener' = [listener EXCEPT ![l] = "dead"]
    BY <2>1 DEF Judge, Goes
  <2>3. l = thread /\ listener \in [Listeners -> ListenerStates]
    BY <2>2 DEF IInv, OneListener, Alive
  <2> QED
    BY <2>2, <2>3 DEF Alive
<1> QED
  BY <1>1, Invariance, PTL DEF Spec, HeardInThisReply

(* From its call until it returns, disarm's _stop stays set: no arm() is   *)
(* under way.                                                              *)
StopStaysSet ==
  /\ listener \in [Listeners -> ListenerStates]
  /\ caller = "joining" => stop

LEMMA NextStop == StopStaysSet /\ [Next]_vars => StopStaysSet'
BY DEF StopStaysSet, ListenerStates, Next, CallerStep, ArmClear, ArmReady, ArmStart, Disarm,
       Disarmed, Listen, Open, Frame, Judge, Fail, CallerGoes, Goes, vars, flags, threads

(* disarm waits for two steps of the listener at most, as does a listener  *)
(* that an earlier disarm gave up: the safety half of DisarmReturns, for   *)
(* any number of listeners, whether reads are in time or not.              *)
THEOREM DisarmRunsOut == Spec => DisarmWindsDown
<1>1. Init => StopStaysSet
  BY DEF Init, StopStaysSet, ListenerStates
<1>2. StopStaysSet /\ [Next]_vars =>
        [caller = "joining" =>
           \A l \in Listeners :
             /\ ListenerStepsLeft(l)' <= ListenerStepsLeft(l)
             /\ Listen(l) => ListenerStepsLeft(l)' < ListenerStepsLeft(l)]_vars
  <2> SUFFICES ASSUME StopStaysSet, [Next]_vars, caller = "joining", NEW l \in Listeners
               PROVE  /\ ListenerStepsLeft(l)' <= ListenerStepsLeft(l)
                      /\ Listen(l) => ListenerStepsLeft(l)' < ListenerStepsLeft(l)
    OBVIOUS
  <2>1. ListenerStepsLeft(l) \in Int /\ ListenerStepsLeft(l)' \in Int
    BY DEF ListenerStepsLeft
  <2>2. CASE Listen(l)
    <3>1. \/ listener[l] \in {"opening", "judging"} /\ listener'[l] \in {"reading", "dead"}
          \/ listener[l] = "reading" /\ listener'[l] = "dead"
      BY <2>2 DEF StopStaysSet, ListenerStates, Listen, Open, Frame, Judge, Fail, Goes
    <3>2. ListenerStepsLeft(l)' < ListenerStepsLeft(l)
      BY <3>1 DEF ListenerStepsLeft
    <3> QED
      BY <2>1, <3>2
  <2>3. CASE ~Listen(l)
    <3>1. listener'[l] = listener[l]
      BY <2>3 DEF StopStaysSet, Next, CallerStep, ArmClear, ArmReady, ArmStart, Disarm,
                  Disarmed, Listen, Open, Frame, Judge, Fail, CallerGoes, Goes, vars, flags,
                  threads
    <3>2. ListenerStepsLeft(l)' = ListenerStepsLeft(l)
      BY <3>1 DEF ListenerStepsLeft
    <3> QED
      BY <2>1, <2>3, <3>2
  <2> QED
    BY <2>2, <2>3
<1> QED
  BY <1>1, <1>2, NextStop, PTL DEF Spec, DisarmWindsDown

(***************************************************************************)
(* The turn around the detector                                            *)
(***************************************************************************)
(* Each step of a turn is a step of the detector's caller, one of its      *)
(* threads, or invisible to both.                                          *)
LEMMA SessionStep == [SessionNext]_sessionVars => [Next]_vars
BY DEF SessionNext, sessionVars, Wake, CaptureFrame, Captured, Identifying, Transcribe, Answer,
       Reply, Over, GiveUp, MicThread, Tuning, Next, CallerStep

(* A turn uses the detector as the port allows.                            *)
THEOREM SessionUsesDetector == SessionSpec => Spec
<1>1. SessionInit => Init
  BY DEF SessionInit
<1> QED
  BY <1>1, SessionStep, PTL DEF SessionSpec, Spec

(* The detector is armed while a reply is streamed, and only then.         *)
OffBetween ==
  /\ pc \in {"waiting", "capturing", "identifying", "replying"}
  /\ pc # "replying" => caller = "off"

LEMMA NextOff == OffBetween /\ [SessionNext]_sessionVars => OffBetween'
<1> SUFFICES ASSUME OffBetween, [SessionNext]_sessionVars PROVE OffBetween'
  OBVIOUS
<1> USE DEF OffBetween, Turns, vars
<1>1. CASE Wake \/ CaptureFrame \/ Captured \/ Identifying \/ Transcribe \/ Answer \/ GiveUp
  BY <1>1 DEF Wake, CaptureFrame, Captured, Identifying, Transcribe, Answer, GiveUp
<1>2. CASE Reply
  BY <1>2 DEF Reply
<1>3. CASE Over
  BY <1>3 DEF Over, Disarmed, CallerGoes
<1>4. ASSUME NEW l \in Listeners, MicThread(l) PROVE OffBetween'
  <2>1. UNCHANGED <<pc, caller>>
    BY <1>4 DEF MicThread, Listen, Open, Frame, Judge, Fail
  <2> QED
    BY <2>1
<1>5. CASE Tuning \/ UNCHANGED sessionVars
  BY <1>5 DEF Tuning, sessionVars
<1> QED
  BY <1>1, <1>2, <1>3, <1>4, <1>5 DEF SessionNext

(* The wake word detector, the recorder and the barge-in detector never    *)
(* have two microphone streams open at once.                               *)
THEOREM MicrophoneShared == ReadsInTime /\ SessionSpec => []OneMicrophone
<1>1. SessionInit => OffBetween
  BY DEF SessionInit, Init, OffBetween
<1>2. IInv /\ OffBetween => OneMicrophone
  BY ListenerAssumption DEF IInv, OffBetween, OneMicrophone, OneListener, Alive
<1> QED
  BY <1>1, <1>2, NextOff, Invariance, SessionUsesDetector, PTL DEF SessionSpec

(***************************************************************************)
(* Identification                                                          *)
(***************************************************************************)
(* What is in force, or will be once the message is handled, has been set  *)
(* since identify began; a clip that passed the threshold did so with one  *)
(* that was -- with the one in force, if none was set since.               *)
Coming == IF tune = {} THEN {margin} ELSE tune
SpeakerInv ==
  /\ SpeakerTypeOK
  /\ identify \in {"scored", "passed"} => \A m \in Coming : <<threshold, m>> \in settings
  /\ identify = "passed" =>
       /\ \E s \in settings : \A p \in Found : Best(p) => scores[p] >= s[1]
       /\ ~torn => \A p \in Found : Best(p) => scores[p] >= threshold

LEMMA InitSpeaker == SpeakerInit => SpeakerInv
<1> SUFFICES ASSUME SpeakerInit PROVE SpeakerInv
  OBVIOUS
<1>1. scores \in [{} -> Scores]
  BY DEF SpeakerInit
<1> QED
  BY <1>1 DEF SpeakerInit, SpeakerInv, SpeakerTypeOK

LEMMA TuneInv == ASSUME SpeakerInv, Tune PROVE SpeakerInv'
<1>1. CASE \E t \in Thresholds, m \in Margins : TuneThreshold(t, m)
  <2>1. PICK t \in Thresholds, m \in Margins : TuneThreshold(t, m)
    BY <1>1
  <2>2. SpeakerTypeOK'
    BY <2>1 DEF SpeakerInv, SpeakerTypeOK, TuneThreshold, idVars
  <2>3. /\ identify' = identify /\ scores' = scores /\ settings \subseteq settings'
        /\ identify = "passed" => torn'
    BY <2>1 DEF TuneThreshold, idVars
  <2>4. identify' \in {"scored", "passed"} => \A n \in Coming' : <<threshold', n>> \in settings'
    BY <2>1, <2>3 DEF TuneThreshold, Coming
  <2> QED
    BY <2>2, <2>3, <2>4 DEF SpeakerInv, Found, Best
<1>2. CASE TuneMargin
  <2>1. SpeakerTypeOK'
    BY <1>2 DEF SpeakerInv, SpeakerTypeOK, TuneMargin, idVars
  <2>2. /\ UNCHANGED <<identify, scores, settings, threshold, torn>>
        /\ Coming' \subseteq Coming
    BY <1>2 DEF TuneMargin, idVars, Coming
  <2> QED
    BY <2>1, <2>2 DEF SpeakerInv, Found, Best
<1> QED
  BY <1>1, <1>2 DEF Tune

LEMMA ScoreInv == ASSUME SpeakerInv, Score PROVE SpeakerInv'
<1>1. SpeakerTypeOK'
  <2>1. \A m \in Coming : <<threshold, m>> \in Thresholds \X Margins
    BY DEF SpeakerInv, SpeakerTypeOK, Coming
  <2>2. settings' = {<<threshold, m>> : m \in Coming}
    BY DEF Score, Coming
  <2> QED
    BY <2>1, <2>2 DEF SpeakerInv, SpeakerTypeOK, Score, tuneVars
<1>2. \A m \in Coming' : <<threshold', m>> \in settings'
  BY DEF Score, tuneVars, Coming
<1> QED
  BY <1>1, <1>2 DEF SpeakerInv, Score

(* Nobody's score can be compared before it is a number.                   *)
LEMMA ScoresAreNumbers ==
  ASSUME SpeakerInv
  PROVE  /\ threshold \in Int /\ margin \in Int
         /\ \A p \in Found : scores[p] \in Int /\ p \in Enrolled
<1>1. threshold \in Thresholds /\ margin \in Margins
  BY DEF SpeakerInv, SpeakerTypeOK
<1>2. PICK found \in SUBSET Enrolled : scores \in [found -> Scores]
  BY DEF SpeakerInv, SpeakerTypeOK
<1>3. Found = found
  BY <1>2 DEF Found
<1>4. \A p \in found : scores[p] \in Scores
  BY <1>2
<1>5. /\ \A t \in Thresholds : t \in Int
      /\ \A m \in Margins : m \in Int
      /\ \A s \in Scores : s \in Int
  BY SpeakerAssumption
<1> QED
  BY <1>1, <1>3, <1>4, <1>5

LEMMA KnownType ==
  ASSUME SpeakerInv, NEW p \in Enrolled \cup {GUEST}, Known(p), UNCHANGED tuneVars
  PROVE  SpeakerInv'
<1>1. scores' \in [{} -> Scores]
  BY DEF Known
<1> QED
  BY <1>1 DEF SpeakerInv, SpeakerTypeOK, Known, tuneVars

LEMMA CheckThresholdInv == ASSUME SpeakerInv, CheckThreshold PROVE SpeakerInv'
<1>1. CASE Known(GUEST)
  BY <1>1, KnownType DEF CheckThreshold
<1>2. CASE ~Known(GUEST)
  <2>1. /\ identify = "scored" /\ identify' = "passed"
        /\ \A p \in Found : ~(Best(p) /\ scores[p] < threshold)
        /\ UNCHANGED <<threshold, margin, tune, scores, best_id, settings, torn>>
    BY <1>2 DEF CheckThreshold, tuneVars
  <2>2. \A p \in Found : Best(p) => scores[p] >= threshold
    BY <2>1, ScoresAreNumbers
  <2>3. \E m \in Coming : <<threshold, m>> \in settings
    BY <2>1 DEF SpeakerInv, Coming
  <2>4. \E s \in settings : s[1] = threshold
    BY <2>3
  <2>5. SpeakerTypeOK'
    BY <2>1 DEF SpeakerInv, SpeakerTypeOK
  <2>6. \A p \in Found' : Best(p)' => scores'[p] >= threshold'
    BY <2>1, <2>2 DEF Found, Best
  <2>7. \E s \in settings' : \A p \in Found' : Best(p)' => scores'[p] >= s[1]
    BY <2>1, <2>4, <2>6
  <2>8. \A m \in Coming' : <<threshold', m>> \in settings'
    BY <2>1 DEF SpeakerInv, Coming
  <2> QED
    BY <2>5, <2>6, <2>7, <2>8 DEF SpeakerInv
<1> QED
  BY <1>1, <1>2

LEMMA CheckThresholdFair ==
  ASSUME SpeakerInv, CheckThreshold, identify' = "known" PROVE Verdict(best_id')
<1>1. /\ identify = "scored" /\ best_id' = GUEST
      /\ Found = {} \/ \E p \in Found : Best(p) /\ scores[p] < threshold
  BY DEF CheckThreshold, Known
<1>2. \A q \in Found : ~(scores[q] >= threshold)
  BY <1>1, ScoresAreNumbers DEF Best
<1>3. PICK m \in Coming : <<threshold, m>> \in settings
  BY <1>1 DEF SpeakerInv, Coming
<1>4. \E s \in settings : s[1] = threshold
  BY <1>3
<1>5. \E s \in settings : Picks(s, GUEST)
  BY <1>2, <1>4 DEF Picks, Clear
<1> QED
  BY <1>1, <1>5 DEF Verdict

(* CheckMargin finds a closest p, and returns it or nobody.                *)
LEMMA CheckMarginFinds ==
  ASSUME CheckMargin
  PROVE  \E p \in Found :
           /\ Best(p)
           /\ \/ Known(GUEST) /\ \E q \in Found \ {p} : scores[p] - scores[q] < margin
              \/ Known(p) /\ ~\E q \in Found \ {p} : scores[p] - scores[q] < margin
BY DEF CheckMargin, RunnersUp

LEMMA CheckMarginInv == ASSUME SpeakerInv, CheckMargin PROVE SpeakerInv'
<1>1. PICK p \in Found : Known(GUEST) \/ Known(p)
  BY CheckMarginFinds
<1>2. p \in Enrolled
  BY <1>1, ScoresAreNumbers
<1> QED
  BY <1>1, <1>2, KnownType DEF CheckMargin

LEMMA CheckMarginFair == ASSUME SpeakerInv, CheckMargin PROVE Verdict(best_id')
<1>1. PICK p \in Found :
        /\ Best(p)
        /\ \/ Known(GUEST) /\ \E q \in Found \ {p} : scores[p] - scores[q] < margin
           \/ Known(p) /\ ~\E q \in Found \ {p} : scores[p] - scores[q] < margin
  BY CheckMarginFinds
<1>2. identify = "passed"
  BY DEF CheckMargin
<1>3. PICK s \in settings : \A q \in Found : Best(q) => scores[q] >= s[1]
  BY <1>2 DEF SpeakerInv
<1>4. ~Mixed => <<threshold, margin>> \in settings /\ scores[p] >= threshold
  BY <1>1, <1>2 DEF SpeakerInv, Coming, Mixed
<1>5. CASE Known(GUEST) /\ \E q \in Found \ {p} : scores[p] - scores[q] < margin
  <2>1. PICK q \in Found \ {p} : scores[p] - scores[q] < margin
    BY <1>5
  <2>2. ASSUME NEW r \in Found PROVE ~Clear(r, threshold, margin)
    <3> SUFFICES ASSUME Clear(r, threshold, margin) PROVE FALSE
      OBVIOUS
    <3>1. CASE r = p
      BY <2>1, <3>1, ScoresAreNumbers DEF Clear
    <3>2. CASE r # p
      <4>1. scores[r] - scores[p] >= margin /\ scores[r] <= scores[p] /\ scores[q] <= scores[p]
        BY <1>1, <2>1, <3>2 DEF Clear, Best
      <4> QED
        BY <2>1, <4>1, ScoresAreNumbers
    <3> QED
      BY <3>1, <3>2
  <2>3. Picks(<<threshold, margin>>, GUEST)
    BY <2>2 DEF Picks
  <2>4. best_id' = GUEST
    BY <1>5 DEF Known
  <2> QED
    BY <1>4, <2>3, <2>4 DEF Verdict
<1>6. CASE Known(p) /\ ~\E q \in Found \ {p} : scores[p] - scores[q] < margin
  <2>1. best_id' = p /\ p # GUEST
    BY <1>1, <1>6, ScoresAreNumbers, SpeakerAssumption DEF Known
  <2>2. ASSUME NEW q \in Found \ {p} PROVE scores[p] - scores[q] >= margin
    BY <1>1, <1>6, ScoresAreNumbers
  <2>3. ~Mixed => Picks(<<threshold, margin>>, p)
    BY <1>1, <1>4, <2>1, <2>2 DEF Picks, Clear
  <2>4. Best(p) /\ scores[p] >= s[1]
    BY <1>1, <1>3
  <2> QED
    BY <1>1, <1>3, <1>4, <2>1, <2>3, <2>4 DEF Verdict
<1> QED
  BY <1>1, <1>5, <1>6

LEMMA ReturnedInv == ASSUME SpeakerInv, Returned \/ ScoreFails PROVE SpeakerInv'
BY DEF SpeakerInv, SpeakerTypeOK, Returned, ScoreFails, tuneVars

(* Every step of the session is one of identify's, of the console's, or    *)
(* none of the speaker's business.                                         *)
LEMMA SpeakerSteps ==
  [SessionNext]_sessionVars => Identify \/ Returned \/ Tune \/ UNCHANGED speakerVars
BY DEF SessionNext, sessionVars, Wake, CaptureFrame, Captured, Identifying, Transcribe, Answer,
       Reply, Over, GiveUp, MicThread, Tuning

LEMMA NextSpeaker == SpeakerInv /\ [SessionNext]_sessionVars => SpeakerInv'
<1> SUFFICES ASSUME SpeakerInv, [SessionNext]_sessionVars PROVE SpeakerInv'
  OBVIOUS
<1>1. CASE Identify
  BY <1>1, ScoreInv, ReturnedInv, CheckThresholdInv, CheckMarginInv DEF Identify
<1>2. CASE UNCHANGED speakerVars
  BY <1>2
  DEF SpeakerInv, SpeakerTypeOK, Coming, Found, Best, speakerVars, tuneVars, idVars
<1> QED
  BY <1>1, <1>2, SpeakerSteps, ReturnedInv, TuneInv

LEMMA SpeakerFair ==
  SpeakerInv /\ [SessionNext]_sessionVars
    => [identify # "known" /\ identify' = "known" => Verdict(best_id')]_speakerVars
<1> SUFFICES ASSUME SpeakerInv, [SessionNext]_sessionVars, identify # "known", identify' = "known"
             PROVE  Verdict(best_id')
  OBVIOUS
<1>1. CheckThreshold \/ CheckMargin
  BY SpeakerSteps
  DEF Identify, Returned, Tune, TuneThreshold, TuneMargin, Score, ScoreFails, speakerVars, idVars
<1> QED
  BY <1>1, CheckThresholdFair, CheckMarginFair

(* identify against the console's tune, with any number of profiles and    *)
(* with none: whom it returns, and that it returns a guest, is as a pair of*)
(* threshold and margin has it that the console had set since it began; a  *)
(* pair torn between the comparisons may blur the margin, never recognise  *)
(* one who is not the closest and above a threshold in force.              *)
THEOREM IdentifiedFairly == SessionSpec => IdentifiedAsTuned
<1>1. SessionInit => SpeakerInv
  BY InitSpeaker DEF SessionInit
<1> QED
  BY <1>1, NextSpeaker, SpeakerFair, PTL DEF SessionSpec, IdentifiedAsTuned

(***************************************************************************)
(* The utterance                                                           *)
(***************************************************************************)
(* The last frame with speech ends the clip; since then `silent` frames    *)
(* have passed, and never silence_limit of them since the first.           *)
SpeechKept ==
  /\ \A i \in 1..Len(clip) : clip[i] \in 1..Len(heard) /\ heard[clip[i]]
  /\ \A j \in 1..Len(heard) : heard[j] => \E i \in 1..Len(clip) : clip[i] = j
  /\ \A i \in 1..Len(clip) : clip[i] <= clip[Len(clip)]
  /\ \A i \in 1..(Len(clip) - 1) : clip[i] < clip[i + 1]

CaptureInv ==
  /\ heard \in Seq(BOOLEAN) /\ clip \in Seq(Nat) /\ silent \in 0..SilenceLimit
  /\ SpeechKept
  /\ IF clip = << >> THEN silent = 0 ELSE silent = Len(heard) - clip[Len(clip)]
  /\ clip # << >> => \A k \in clip[1]..(Len(heard) - 1) : ~Pause(k)
  /\ pc = "identifying" => silent = SilenceLimit

LEMMA ListensInv == ASSUME Listens, pc' # "identifying" PROVE CaptureInv'
BY CaptureAssumption DEF Listens, CaptureInv, SpeechKept

LEMMA FrameInv == ASSUME CaptureInv, CaptureFrame PROVE CaptureInv'
<1> DEFINE n == Len(heard) + 1
<1>1. PICK is_speech \in BOOLEAN :
        /\ heard' = Append(heard, is_speech)
        /\ clip' = IF is_speech THEN Append(clip, Len(heard) + 1) ELSE clip
        /\ silent' = IF is_speech THEN 0 ELSE Silence(silent)
  BY DEF CaptureFrame
<1>2. pc = "capturing" /\ pc' = pc /\ silent < SilenceLimit
  BY DEF CaptureFrame
<1>3. /\ heard \in Seq(BOOLEAN) /\ clip \in Seq(Nat) /\ silent \in 0..SilenceLimit
      /\ Len(heard) \in Nat /\ Len(clip) \in Nat /\ n \in Nat
  BY DEF CaptureInv
<1>4. /\ heard' \in Seq(BOOLEAN) /\ Len(heard') = n /\ heard'[n] = is_speech
      /\ \A j \in 1..Len(heard) : heard'[j] = heard[j]
  BY <1>1, <1>3
<1>5. clip # << >> => \A k \in clip[1]..Len(heard) : ~Pause(k)'
  <2> SUFFICES ASSUME clip # << >>, NEW k \in clip[1]..Len(heard) PROVE ~Pause(k)'
    OBVIOUS
  <2>1. Len(clip) \in 1..Len(clip) /\ 1 \in 1..Len(clip)
    BY <1>3
  <2>2. clip[1] \in 1..Len(heard) /\ clip[Len(clip)] \in 1..Len(heard) /\ heard[clip[Len(clip)]]
    BY <2>1 DEF CaptureInv, SpeechKept
  <2>3. CASE k = Len(heard)
    <3>1. silent = Len(heard) - clip[Len(clip)]
      BY DEF CaptureInv
    <3>2. clip[Len(clip)] \in (k - SilenceLimit + 1)..k
      BY <1>2, <1>3, <2>2, <2>3, <3>1, CaptureAssumption
    <3>3. heard'[clip[Len(clip)]]
      BY <1>4, <2>2
    <3> QED
      BY <3>2, <3>3 DEF Pause
  <2>4. CASE k # Len(heard)
    <3>1. k \in clip[1]..(Len(heard) - 1) /\ k \in Int
      BY <2>2, <2>4
    <3>2. ~Pause(k)
      BY <3>1 DEF CaptureInv
    <3>3. PICK i \in (k - SilenceLimit + 1)..k : ~(i \in 1..Len(heard) /\ ~heard[i])
      BY <1>3, <3>2 DEF Pause
    <3>4. i \in Int /\ i <= Len(heard)
      BY <1>3, <3>1, <3>3, CaptureAssumption
    <3>5. ~(i \in 1..Len(heard') /\ ~heard'[i])
      BY <1>3, <1>4, <3>3, <3>4
    <3> QED
      BY <1>4, <3>3, <3>5 DEF Pause
  <2> QED
    BY <2>3, <2>4
<1>6. CASE is_speech
  <2>1. clip' = Append(clip, n) /\ silent' = 0
    BY <1>1, <1>6
  <2>2. /\ clip' \in Seq(Nat) /\ Len(clip') = Len(clip) + 1 /\ clip'[Len(clip')] = n
        /\ clip' # << >> /\ \A i \in 1..Len(clip) : clip'[i] = clip[i]
    BY <1>3, <2>1
  <2>3. \A i \in 1..Len(clip) : clip[i] \in 1..Len(heard)
    BY DEF CaptureInv, SpeechKept
  <2>4. SpeechKept'
    <3>1. ASSUME NEW i \in 1..Len(clip')
          PROVE  clip'[i] \in 1..n /\ heard'[clip'[i]] /\ clip'[i] <= clip'[Len(clip')]
      <4>1. CASE i = Len(clip')
        <5>1. clip'[i] = n
          BY <2>2, <4>1
        <5>2. heard'[clip'[i]]
          BY <1>4, <1>6, <5>1
        <5> QED
          BY <1>3, <2>2, <5>1, <5>2
      <4>2. CASE i \in 1..Len(clip)
        <5>1. clip'[i] = clip[i] /\ clip[i] \in 1..Len(heard)
          BY <2>2, <2>3, <4>2
        <5>2. heard[clip[i]]
          BY <4>2 DEF CaptureInv, SpeechKept
        <5>3. heard'[clip'[i]]
          BY <1>4, <5>1, <5>2
        <5> QED
          BY <1>3, <2>2, <5>1, <5>3
      <4> QED
        BY <1>3, <2>2, <4>1, <4>2
    <3>2. ASSUME NEW j \in 1..n, heard'[j]
          PROVE  \E i \in 1..Len(clip') : clip'[i] = j
      <4>1. CASE j = n
        BY <1>3, <2>2, <4>1
      <4>2. CASE j \in 1..Len(heard)
        <5>1. PICK i \in 1..Len(clip) : clip[i] = j
          BY <1>4, <3>2, <4>2 DEF CaptureInv, SpeechKept
        <5> QED
          BY <1>3, <2>2, <5>1
      <4> QED
        BY <1>3, <4>1, <4>2
    <3>3. ASSUME NEW i \in 1..(Len(clip') - 1) PROVE clip'[i] < clip'[i + 1]
      <4>1. CASE i = Len(clip)
        <5>1. i \in 1..Len(clip) /\ i + 1 = Len(clip')
          BY <1>3, <2>2, <3>3, <4>1
        <5>2. clip'[i] \in 1..Len(heard) /\ clip'[i + 1] = n
          BY <2>2, <2>3, <5>1
        <5> QED
          BY <1>3, <5>2
      <4>2. CASE i \in 1..(Len(clip) - 1)
        BY <1>3, <2>2, <4>2 DEF CaptureInv, SpeechKept
      <4> QED
        BY <1>3, <2>2, <4>1, <4>2
    <3> QED
      BY <1>4, <3>1, <3>2, <3>3 DEF SpeechKept
  <2>5. silent' \in 0..SilenceLimit /\ silent' = Len(heard') - clip'[Len(clip')]
    BY <1>3, <1>4, <2>1, <2>2, CaptureAssumption
  <2>6. \A k \in clip'[1]..(Len(heard') - 1) : ~Pause(k)'
    <3>1. CASE clip = << >>
      BY <1>3, <1>4, <2>2, <3>1
    <3>2. CASE clip # << >>
      <4>1. 1 \in 1..Len(clip)
        BY <1>3, <3>2
      <4>2. clip'[1] = clip[1] /\ Len(heard') - 1 = Len(heard)
        BY <1>3, <1>4, <2>2, <4>1
      <4> QED
        BY <1>5, <3>2, <4>2
    <3> QED
      BY <3>1, <3>2
  <2> QED
    BY <1>2, <1>4, <2>2, <2>4, <2>5, <2>6 DEF CaptureInv
<1>7. CASE ~is_speech
  <2>1. clip' = clip /\ silent' = Silence(silent)
    BY <1>1, <1>7
  <2>2. SpeechKept'
    <3>1. ASSUME NEW i \in 1..Len(clip')
          PROVE  clip'[i] \in 1..n /\ heard'[clip'[i]]
      BY <1>3, <1>4, <2>1 DEF CaptureInv, SpeechKept
    <3>2. ASSUME NEW j \in 1..n, heard'[j]
          PROVE  \E i \in 1..Len(clip') : clip'[i] = j
      <4>1. j \in 1..Len(heard) /\ heard[j]
        BY <1>3, <1>4, <1>7, <3>2
      <4> QED
        BY <2>1, <4>1 DEF CaptureInv, SpeechKept
    <3> QED
      BY <1>4, <2>1, <3>1, <3>2 DEF CaptureInv, SpeechKept
  <2>3. silent' \in 0..SilenceLimit
    BY <1>2, <1>3, <2>1, CaptureAssumption DEF Silence
  <2>4. CASE clip = << >>
    BY <1>2, <1>3, <1>4, <2>1, <2>2, <2>3, <2>4 DEF CaptureInv, Silence, Started
  <2>5. CASE clip # << >>
    <3>1. silent' = Len(heard') - clip'[Len(clip')]
      <4>1. clip[Len(clip)] \in Nat
        BY <1>3, <2>5
      <4> QED
        BY <1>3, <1>4, <2>1, <2>5, <4>1 DEF CaptureInv, Silence, Started
    <3>2. \A k \in clip'[1]..(Len(heard') - 1) : ~Pause(k)'
      BY <1>3, <1>4, <1>5, <2>1, <2>5
    <3> QED
      BY <1>2, <1>3, <1>4, <2>1, <2>2, <2>3, <2>5, <3>1, <3>2 DEF CaptureInv
  <2> QED
    BY <2>4, <2>5
<1> QED
  BY <1>6, <1>7

LEMMA NextCapture == CaptureInv /\ [SessionNext]_sessionVars => CaptureInv'
<1> SUFFICES ASSUME CaptureInv, [SessionNext]_sessionVars PROVE CaptureInv'
  OBVIOUS
<1>1. CASE Wake \/ Answer \/ Over \/ GiveUp
  <2>1. pc' # "identifying" /\ Listens
    BY <1>1 DEF Wake, Answer, Over, GiveUp, Turns
  <2> QED
    BY <2>1, ListensInv
<1>2. CASE CaptureFrame
  BY <1>2, FrameInv
<1>3. CASE Captured
  BY <1>3 DEF Captured, captureVars, CaptureInv, SpeechKept, Pause, Turns
<1>4. CASE UNCHANGED <<pc, captureVars>>
  BY <1>4 DEF captureVars, CaptureInv, SpeechKept, Pause
<1> QED
  BY <1>1, <1>2, <1>3, <1>4
  DEF SessionNext, sessionVars, Identifying, Transcribe, Reply, MicThread, Tuning

(* A clip that is complete in this sense is one that ends where it should. *)
LEMMA CapturedComplete == CaptureInv => ClipComplete
<1> SUFFICES ASSUME CaptureInv, pc = "identifying"
             PROVE  /\ Started
                    /\ {clip[i] : i \in DOMAIN clip} = {i \in DOMAIN heard : heard[i]}
                    /\ \A i \in 1..(Len(clip) - 1) : clip[i] < clip[i + 1]
                    /\ \A k \in clip[1]..Len(heard) : Pause(k) <=> k = Len(heard)
  BY DEF ClipComplete
<1>1. /\ heard \in Seq(BOOLEAN) /\ clip \in Seq(Nat) /\ silent = SilenceLimit
      /\ SilenceLimit \in Nat /\ SilenceLimit > 0
  BY CaptureAssumption DEF CaptureInv
<1>2. Started /\ silent = Len(heard) - clip[Len(clip)]
  BY <1>1 DEF CaptureInv, Started
<1>3. {clip[i] : i \in DOMAIN clip} = {i \in DOMAIN heard : heard[i]}
  <2>1. DOMAIN clip = 1..Len(clip) /\ DOMAIN heard = 1..Len(heard)
    BY <1>1
  <2>2. \A i \in DOMAIN clip : clip[i] \in DOMAIN heard /\ heard[clip[i]]
    BY <2>1 DEF CaptureInv, SpeechKept
  <2>3. \A j \in DOMAIN heard : heard[j] => \E i \in DOMAIN clip : clip[i] = j
    BY <2>1 DEF CaptureInv, SpeechKept
  <2> QED
    BY <2>2, <2>3
<1>4. Len(clip) \in 1..Len(clip) /\ clip[Len(clip)] \in 1..Len(heard) /\ clip[1] \in Nat
  BY <1>1, <1>2 DEF Started, CaptureInv, SpeechKept
<1>5. Pause(Len(heard))
  <2>1. ASSUME NEW i \in (Len(heard) - SilenceLimit + 1)..Len(heard)
        PROVE  i \in DOMAIN heard /\ ~heard[i]
    <3>1. i \in 1..Len(heard) /\ i > clip[Len(clip)]
      BY <1>1, <1>2, <1>4
    <3>2. \A j \in 1..Len(clip) : clip[j] # i
      BY <1>1, <1>4, <3>1 DEF CaptureInv, SpeechKept
    <3>3. heard[i] => \E j \in 1..Len(clip) : clip[j] = i
      BY <3>1 DEF CaptureInv, SpeechKept
    <3>4. DOMAIN heard = 1..Len(heard)
      BY <1>1
    <3> QED
      BY <3>1, <3>2, <3>3, <3>4
  <2> QED
    BY <2>1 DEF Pause
<1>6. ASSUME NEW k \in clip[1]..Len(heard), Pause(k) PROVE k = Len(heard)
  BY <1>1, <1>2, <1>4, <1>6 DEF CaptureInv, Started
<1> QED
  BY <1>2, <1>3, <1>5, <1>6 DEF CaptureInv, SpeechKept

(* VadCapture.capture: what is identified and transcribed is the           *)
(* speech of the whole capture, in order, up to the first pause, for any   *)
(* silence_limit and any length.                                           *)
THEOREM ClipIsComplete == SessionSpec => []ClipComplete
<1>1. SessionInit => CaptureInv
  BY CaptureAssumption DEF SessionInit, CaptureInv, SpeechKept
<1> QED
  BY <1>1, NextCapture, CapturedComplete, PTL DEF SessionSpec

(***************************************************************************)
(* Types of the whole session                                              *)
(***************************************************************************)
(* Why the count of frames in a row is bounded: a thread that still listens*)
(* has not reached the onset, for the frame that reaches it ends it.       *)
CountInv ==
  /\ TypeOK
  /\ \A l \in Listeners : Alive(l) => run[l] < Onset

(* No appeal to reads in time: an old listener counts for itself.          *)
LEMMA NextCount == CountInv /\ [Next]_vars => CountInv'
<1> SUFFICES ASSUME CountInv, [Next]_vars PROVE CountInv'
  OBVIOUS
<1> USE ListenerAssumption
    DEF CountInv, TypeOK, CallerStates, ListenerStates, Alive, CallerGoes, Goes, flags, threads
<1>1. CASE ArmClear \/ ArmReady \/ Disarm
  BY <1>1 DEF ArmClear, ArmReady, Disarm
<1>2. CASE ArmStart
  <2>1. PICK l \in Listeners :
          Goes(l, "dead", "opening") /\ thread' = l /\ run' = [run EXCEPT ![l] = 0]
    BY <1>2 DEF ArmStart
  <2>2. listener' \in [Listeners -> ListenerStates] /\ run' \in [Listeners -> 0..Onset]
    BY <2>1
  <2>3. \A k \in Listeners : Alive(k)' => run'[k] < Onset
    BY <2>1
  <2> QED
    BY <1>2, <2>1, <2>2, <2>3 DEF ArmStart
<1>3. CASE Disarmed
  BY <1>3 DEF Disarmed
<1>4. ASSUME NEW l \in Listeners, Open(l) \/ Frame(l) PROVE CountInv'
  BY <1>4 DEF Open, Frame
<1>5. ASSUME NEW l \in Listeners, Judge(l) PROVE CountInv'
  <2>1. PICK is_speech \in BOOLEAN :
          LET count == IF is_speech THEN run[l] + 1 ELSE 0
          IN  /\ Goes(l, "judging", IF IsOnset(count) THEN "dead" ELSE "reading")
              /\ run' = [run EXCEPT ![l] = count]
              /\ speaking' = (speaking \/ IsOnset(count))
              /\ UNCHANGED <<caller, stop, error, thread>>
    BY <1>5 DEF Judge
  <2> DEFINE count == IF is_speech THEN run[l] + 1 ELSE 0
  <2>2. count \in 0..Onset
    BY <2>1
  <2>3. listener' \in [Listeners -> ListenerStates] /\ run' \in [Listeners -> 0..Onset]
    BY <2>1, <2>2
  <2>4. \A k \in Listeners : Alive(k)' => run'[k] < Onset
    BY <2>1, <2>2, <2>3 DEF IsOnset
  <2>5. speaking' \in BOOLEAN
    BY <2>1 DEF IsOnset
  <2> QED
    BY <2>1, <2>3, <2>4, <2>5
<1>6. ASSUME NEW l \in Listeners, Fail(l) PROVE CountInv'
  BY <1>6 DEF Fail
<1>7. CASE UNCHANGED vars
  BY <1>7 DEF vars
<1> QED
  BY <1>1, <1>2, <1>3, <1>4, <1>5, <1>6, <1>7 DEF Next, CallerStep, Listen

(* What CaptureInv does not bound: the utterance, the transcript.          *)
TurnTypeInv ==
  /\ pc \in {"waiting", "capturing", "identifying", "replying"}
  /\ heard \in Seq(BOOLEAN) /\ Len(heard) <= MaxFrames
  /\ said \in {"pending"} \cup Transcripts

LEMMA NextTurnType == TurnTypeInv /\ [SessionNext]_sessionVars => TurnTypeInv'
<1> SUFFICES ASSUME TurnTypeInv, [SessionNext]_sessionVars PROVE TurnTypeInv'
  OBVIOUS
<1> USE CaptureAssumption DEF TurnTypeInv, Turns, Listens, Transcripts, captureVars
<1>1. CASE Wake \/ Answer \/ Over \/ GiveUp
  <2>1. Listens /\ pc' \in {"waiting", "capturing", "replying"}
    BY <1>1 DEF Wake, Answer, Over, GiveUp
  <2>2. heard' \in Seq(BOOLEAN) /\ Len(heard') = 0
    BY <2>1
  <2> QED
    BY <2>1, <2>2
<1>2. CASE CaptureFrame
  BY <1>2 DEF CaptureFrame
<1>3. CASE Captured
  BY <1>3 DEF Captured
<1>4. CASE Transcribe
  BY <1>4 DEF Transcribe
<1>5. CASE UNCHANGED <<pc, captureVars, said>>
  BY <1>5
<1> QED
  BY <1>1, <1>2, <1>3, <1>4, <1>5
  DEF SessionNext, sessionVars, Identifying, Reply, MicThread, Tuning

(* The clip numbers frames that were heard.                                *)
LEMMA ClipType == CaptureInv /\ TurnTypeInv => clip \in Seq(1..MaxFrames)
<1> SUFFICES ASSUME CaptureInv, TurnTypeInv PROVE clip \in Seq(1..MaxFrames)
  OBVIOUS
<1>1. clip \in Seq(Nat) /\ Len(clip) \in Nat /\ Len(heard) \in Nat /\ Len(heard) <= MaxFrames
  BY DEF CaptureInv, TurnTypeInv
<1>2. \A i \in 1..Len(clip) : clip[i] \in 1..MaxFrames
  BY <1>1, CaptureAssumption DEF CaptureInv, SpeechKept
<1>3. clip \in [1..Len(clip) -> 1..MaxFrames]
  BY <1>1, <1>2
<1>4. \E n \in Nat : clip \in [1..n -> 1..MaxFrames]
  BY <1>1, <1>3
<1> QED
  BY <1>4, SeqDef

(* Every variable of a turn, of the detector and of identify stays in its  *)
(* type, whether or not a microphone read returns in time: no count        *)
(* passes the limit it is compared with.                                   *)
THEOREM SessionTypeCorrect == SessionSpec => []SessionTypeOK
<1>1. SessionInit => CountInv /\ TurnTypeInv /\ CaptureInv /\ SpeakerInv
  <2> SUFFICES ASSUME SessionInit PROVE CountInv /\ TurnTypeInv /\ CaptureInv /\ SpeakerInv
    OBVIOUS
  <2>1. CountInv
    <3>1. listener \in [Listeners -> ListenerStates] /\ run \in [Listeners -> 0..Onset]
      BY ListenerAssumption DEF SessionInit, Init, ListenerStates
    <3>2. \A l \in Listeners : ~Alive(l)
      BY DEF SessionInit, Init, Alive
    <3> QED
      BY <3>1, <3>2 DEF SessionInit, Init, CountInv, TypeOK, CallerStates
  <2>2. TurnTypeInv /\ CaptureInv
    BY CaptureAssumption DEF SessionInit, TurnTypeInv, CaptureInv, SpeechKept
  <2> QED
    BY <2>1, <2>2, InitSpeaker DEF SessionInit
<1>2. CountInv /\ [SessionNext]_sessionVars => CountInv'
  BY SessionStep, NextCount
<1>3. CountInv /\ TurnTypeInv /\ CaptureInv /\ SpeakerInv => SessionTypeOK
  BY ClipType DEF CountInv, TurnTypeInv, CaptureInv, SpeakerInv, SessionTypeOK
<1> QED
  BY <1>1, <1>2, <1>3, NextTurnType, NextCapture, NextSpeaker, PTL DEF SessionSpec
===============================================================================
