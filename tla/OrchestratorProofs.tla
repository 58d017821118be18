-------------------------- MODULE OrchestratorProofs --------------------------
(***************************************************************************)
(* Proofs about core/orchestrator.py for any people, transcripts, threads  *)
(* and limits.                                                             *)
(***************************************************************************)
EXTENDS OrchestratorProps, TLAPS

(***************************************************************************)
(* The inductive invariant                                                 *)
(***************************************************************************)
TurnsOf(p) == {t \in Turns : t.person_id = p}

ValuesOK ==
  /\ pc \in Stages
  /\ outcome \in Outcomes
  /\ person_id \in Persons \cup {Pending, Failed}
  /\ said \in Utterances \cup {Noise, Pending, Failed}
  /\ sinceTurn \in Ages /\ sinceNow \in Ages /\ sinceAck \in Ages
  /\ enrolled \subseteq People

FlagsOK ==
  /\ skip_wake \in BOOLEAN /\ late \in BOOLEAN /\ barge \in BOOLEAN
  /\ unstamped \in BOOLEAN
  /\ armed \in BOOLEAN /\ speaking \in BOOLEAN /\ unannounced \in BOOLEAN

StreamOK ==
  /\ reply \in Seq(Nat) /\ streamed \in 0..MaxWords /\ left \in 0..streamed
  /\ overrun \in Nat
  /\ display \in [person : Persons, text : Seq(Nat)]

VoiceOK ==
  /\ player \in Players \cup {NoPlayer}
  /\ players \in [Players -> Voice!PlayerStates]
  /\ strays \subseteq Players

MemoryOK ==
  /\ recent \in [Persons -> Seq(Turns)]
  /\ \A p \in Persons :
       recent[p] \in Seq(TurnsOf(p)) /\ Len(recent[p]) <= HistoryLimit
  /\ pairs \in Seq(Turns)

InTurn == Replying \cup {"arm", "armed", "wrap"}

(* What a stage of the turn may rely on.                                   *)
StageOK ==
  /\ pc \in InTurn => person_id \in Persons /\ said \in Utterances
  /\ pc \in {"reveal", "word"} => left > 0
  /\ pc \in {"reveal", "word", "await", "join"} => player \in Players

(* Nobody writes the speaker's history between its reading and the filing. *)
ContextOK == pc \in InTurn => pairs = HistoryOf(person_id)

(* The waiver of the wake word is consumed as the turn begins.             *)
Waived == skip_wake => pc = "idle"

IInv ==
  /\ ValuesOK /\ FlagsOK /\ StreamOK /\ VoiceOK /\ MemoryOK
  /\ StageOK /\ ContextOK /\ Waived /\ ArmedOnlyInReply

(* save_turn then recent_turns(n): the new turn is there, as the last, and *)
(* no more than n come back.                                               *)
LEMMA RememberSeq ==
  ASSUME NEW S, NEW log \in Seq(S), NEW t \in S, Len(log) <= HistoryLimit
  PROVE  LET r == C!Remember(log, t)
         IN  /\ r \in Seq(S)
             /\ r # << >>
             /\ r[Len(r)] = t
             /\ Len(r) <= HistoryLimit
<1> DEFINE full == Append(log, t)
<1>1. full \in Seq(S) /\ Len(full) = Len(log) + 1 /\ full[Len(full)] = t
  OBVIOUS
<1>2. CASE Len(full) <= HistoryLimit
  <2>1. C!Remember(log, t) = full
    BY <1>2 DEF C!Remember
  <2> QED
    BY <1>1, <1>2, <2>1
<1>3. CASE ~(Len(full) <= HistoryLimit)
  <2>1. C!Remember(log, t) = Tail(full)
    BY <1>3 DEF C!Remember
  <2>2. Len(full) >= 2
    BY <1>1, <1>3, ConfigAssumption
  <2>3. /\ Tail(full) \in Seq(S)
        /\ Len(Tail(full)) = Len(full) - 1
        /\ Tail(full)[Len(full) - 1] = full[Len(full)]
    BY <1>1, <2>2
  <2> QED
    BY <1>1, <2>1, <2>2, <2>3
<1> QED
  BY <1>2, <1>3

(* The program starts between turns.                                       *)
LEMMA InitIInv == Init => IInv
<1> SUFFICES ASSUME Init PROVE IInv
  OBVIOUS
<1> USE DEF Init, Mic!Init, Voice!Init
<1>1. ValuesOK
  BY ConfigAssumption DEF ValuesOK, Stages, Outcomes, Ages, Persons
<1>2. FlagsOK
  BY DEF FlagsOK
<1>3. StreamOK
  BY ConfigAssumption DEF StreamOK, Persons
<1>4. VoiceOK
  BY DEF VoiceOK, Voice!PlayerStates
<1>5. MemoryOK
  BY ConfigAssumption DEF MemoryOK, Persons
<1>6. StageOK /\ ContextOK
  BY DEF StageOK, ContextOK, InTurn, Replying
<1>7. Waived /\ ArmedOnlyInReply
  BY DEF Waived, ArmedOnlyInReply, Watching, Replying
<1> QED
  BY <1>1, <1>2, <1>3, <1>4, <1>5, <1>6, <1>7 DEF IInv

(***************************************************************************)
(* Preservation, one conjunct at a time                                    *)
(***************************************************************************)
(* Plain values.                                                           *)
LEMMA NextValues == IInv /\ [Next]_vars => ValuesOK'
<1> SUFFICES ASSUME IInv, [Next]_vars PROVE ValuesOK'
  OBVIOUS
<1> USE ConfigAssumption
    DEF IInv, ValuesOK, Stages, Outcomes, Ages, Persons, Goto, Begin,
        vars, outside, replyVars, clockVars, heardVars, memoryVars, turnVars,
        streamVars, shownVars, micVars, voiceVars
<1>1. CASE Wake
  BY <1>1 DEF Wake
<1>2. CASE FollowUp
  BY <1>2 DEF FollowUp
<1>3. CASE Acknowledge
  BY <1>3 DEF Acknowledge
<1>4. CASE Stamp
  BY <1>4 DEF Stamp
<1>5. CASE Tick
  BY <1>5 DEF Tick
<1>6. CASE Capture
  BY <1>6 DEF Capture
<1>7. CASE Identify
  BY <1>7 DEF Identify
<1>8. CASE Transcribe
  BY <1>8 DEF Transcribe
<1>9. CASE Lookup
  BY <1>9 DEF Lookup, Heard
<1>10. CASE Arm
  BY <1>10 DEF Arm, Mic!Arm
<1>11. CASE Announce
  BY <1>11 DEF Announce
<1>12. CASE Sentence
  BY <1>12 DEF Sentence
<1>13. CASE EndOfStream
  BY <1>13 DEF EndOfStream
<1>14. CASE RevealPoll
  BY <1>14 DEF RevealPoll, Interrupt
<1>15. CASE RevealWord
  BY <1>15 DEF RevealWord
<1>16. CASE PlaybackOver
  BY <1>16 DEF PlaybackOver, LeavePlayback
<1>17. CASE JoinBriefly
  BY <1>17 DEF JoinBriefly
<1>18. CASE PlaybackPoll
  BY <1>18 DEF PlaybackPoll, Interrupt, LeavePlayback
<1>19. CASE Disarm
  BY <1>19 DEF Disarm, Mic!Disarm
<1>20. CASE Save
  BY <1>20 DEF Save
<1>21. CASE DeadlinePasses
  BY <1>21 DEF DeadlinePasses
<1>22. CASE Fail
  BY <1>22 DEF Fail
<1>23. CASE ReplyFail
  BY <1>23 DEF ReplyFail, AfterException
<1>24. CASE UserSpeaks
  BY <1>24 DEF UserSpeaks, Mic!Hear
<1>25. ASSUME NEW t \in Players, PlayerStep(t) PROVE ValuesOK'
  BY <1>25 DEF PlayerStep
<1>26. ASSUME NEW p \in People, Enroll(p) PROVE ValuesOK'
  BY <1>26 DEF Enroll
<1>27. CASE UNCHANGED vars
  BY <1>27
<1> QED
  BY <1>1, <1>2, <1>3, <1>4, <1>5, <1>6, <1>7, <1>8, <1>9, <1>10, <1>11,
     <1>12, <1>13, <1>14, <1>15, <1>16, <1>17, <1>18, <1>19, <1>20, <1>21,
     <1>22, <1>23, <1>24, <1>25, <1>26, <1>27
     DEF Next, ReplyStep

(* The flags are flags.                                                    *)
LEMMA NextFlags == IInv /\ [Next]_vars => FlagsOK'
<1> SUFFICES ASSUME IInv, [Next]_vars PROVE FlagsOK'
  OBVIOUS
<1> USE DEF IInv, FlagsOK, Goto,
        vars, outside, replyVars, clockVars, heardVars, memoryVars, turnVars,
        streamVars, shownVars, micVars, voiceVars
<1>1. CASE UNCHANGED <<skip_wake, late, barge, unstamped, armed, speaking, unannounced>>
  BY <1>1
<1>2. CASE FollowUp
  BY <1>2 DEF FollowUp, Begin
<1>3. CASE Acknowledge
  BY <1>3 DEF Acknowledge
<1>4. CASE Stamp
  BY <1>4 DEF Stamp
<1>5. CASE Arm
  BY <1>5 DEF Arm, Mic!Arm
<1>6. CASE RevealPoll
  BY <1>6 DEF RevealPoll, Interrupt
<1>7. CASE RevealWord
  BY <1>7 DEF RevealWord
<1>8. CASE PlaybackPoll
  BY <1>8 DEF PlaybackPoll, Interrupt
<1>9. CASE DeadlinePasses
  BY <1>9 DEF DeadlinePasses
<1>10. CASE Disarm
  BY <1>10 DEF Disarm, Mic!Disarm
<1>11. CASE Save
  BY <1>11 DEF Save
<1>12. CASE Fail
  BY <1>12 DEF Fail
<1>13. CASE UserSpeaks
  BY <1>13 DEF UserSpeaks, Mic!Hear
<1> QED
  BY <1>1, <1>2, <1>3, <1>4, <1>5, <1>6, <1>7, <1>8, <1>9, <1>10, <1>11,
     <1>12, <1>13
     DEF Next, ReplyStep, Wake, FollowUp, Begin, Acknowledge, Stamp, Tick,
         Capture, Identify, Transcribe, Lookup, Arm, Announce, Sentence,
         EndOfStream,
         RevealPoll, RevealWord, PlaybackOver, LeavePlayback, JoinBriefly,
         PlaybackPoll, DeadlinePasses, Disarm, Save, Fail, ReplyFail,
         UserSpeaks, PlayerStep, Enroll

(* What is streamed, revealed and shown.                                   *)
LEMMA NextStream == IInv /\ [Next]_vars => StreamOK'
<1> SUFFICES ASSUME IInv, [Next]_vars PROVE StreamOK'
  OBVIOUS
<1> USE ConfigAssumption DEF IInv, StreamOK, Goto,
        vars, outside, replyVars, clockVars, heardVars, memoryVars, turnVars,
        streamVars, shownVars, micVars, voiceVars
<1>1. CASE UNCHANGED <<reply, streamed, left, overrun, display>>
  BY <1>1
<1>2. CASE Arm
  BY <1>2 DEF Arm
<1>3. CASE Sentence
  BY <1>3 DEF Sentence
<1>4. CASE RevealWord
  BY <1>4 DEF RevealWord, StageOK, Shown, InTurn, Replying
<1>5. CASE Save
  BY <1>5 DEF Save, StageOK, InTurn, Refreshed, Shown
<1>6. CASE Fail
  BY <1>6 DEF Fail, StageOK, InTurn, Refreshed, Shown
<1> QED
  BY <1>1, <1>2, <1>3, <1>4, <1>5, <1>6
     DEF Next, ReplyStep, Wake, FollowUp, Begin, Acknowledge, Stamp, Tick,
         Capture, Identify, Transcribe, Lookup, Arm, Announce, Sentence,
         EndOfStream,
         RevealPoll, RevealWord, PlaybackOver, LeavePlayback, JoinBriefly,
         PlaybackPoll, DeadlinePasses, Disarm, Save, Fail, ReplyFail,
         UserSpeaks, PlayerStep, Enroll

(* The playback threads.                                                   *)
LEMMA NextVoice == IInv /\ [Next]_vars => VoiceOK'
<1> SUFFICES ASSUME IInv, [Next]_vars PROVE VoiceOK'
  OBVIOUS
<1> USE NamesAssumption DEF IInv, VoiceOK, Voice!PlayerStates, Voice!Stop, Voice!Silenced, Goto,
        vars, outside, replyVars, clockVars, heardVars, memoryVars, turnVars,
        streamVars, shownVars, micVars, voiceVars
<1>1. CASE UNCHANGED <<player, players, strays>>
  BY <1>1
<1>2. CASE Acknowledge
  BY <1>2 DEF Acknowledge
<1>3. CASE Arm
  BY <1>3 DEF Arm
<1>4. CASE Sentence
  BY <1>4 DEF Sentence, Voice!Start
<1>5. CASE RevealPoll
  BY <1>5 DEF RevealPoll, Interrupt
<1>6. CASE PlaybackOver
  BY <1>6 DEF PlaybackOver, LeavePlayback, GivenUp, StageOK
<1>7. CASE PlaybackPoll
  BY <1>7 DEF PlaybackPoll, Interrupt, LeavePlayback, GivenUp, StageOK
<1>8. CASE ReplyFail
  BY <1>8 DEF ReplyFail
<1>9. ASSUME NEW t \in Players, PlayerStep(t) PROVE VoiceOK'
  BY <1>9
     DEF PlayerStep, Voice!Step, Voice!Begin, Voice!Finish, Voice!Break,
         Voice!Stall
<1> QED
  BY <1>1, <1>2, <1>3, <1>4, <1>5, <1>6, <1>7, <1>8, <1>9
     DEF Next, ReplyStep, Wake, FollowUp, Begin, Acknowledge, Stamp, Tick,
         Capture, Identify, Transcribe, Lookup, Arm, Announce, Sentence,
         EndOfStream,
         RevealPoll, RevealWord, PlaybackOver, LeavePlayback, JoinBriefly,
         PlaybackPoll, DeadlinePasses, Disarm, Save, Fail, ReplyFail,
         UserSpeaks, PlayerStep, Enroll

(* Memory changes when a turn is filed, the context when it is looked up.  *)
LEMMA NextMemory == IInv /\ [Next]_vars => MemoryOK'
<1> SUFFICES ASSUME IInv, [Next]_vars PROVE MemoryOK'
  OBVIOUS
<1> USE DEF IInv, MemoryOK, Goto,
        vars, outside, replyVars, clockVars, heardVars, memoryVars, turnVars,
        streamVars, shownVars, micVars, voiceVars
<1>1. CASE UNCHANGED <<recent, pairs>>
  BY <1>1
<1>2. CASE Lookup
  <2>1. person_id' \in Persons
    BY <1>2 DEF Lookup, Persons, ValuesOK
  <2>2. HistoryOf(person_id') \in Seq(Turns)
    BY <2>1 DEF HistoryOf
  <2> QED
    BY <1>2, <2>2 DEF Lookup
<1>3. CASE Save
  <2>1. person_id \in Persons /\ Turn \in TurnsOf(person_id)
    BY <1>3 DEF Save, StageOK, InTurn, Turn, Turns, TurnsOf, StreamOK
  <2> DEFINE log == C!Remember(recent[person_id], Turn)
  <2>2. log \in Seq(TurnsOf(person_id)) /\ Len(log) <= HistoryLimit
    BY <2>1, RememberSeq
  <2>3. log \in Seq(Turns)
    BY <2>2 DEF TurnsOf
  <2>4. recent' = [recent EXCEPT ![person_id] = log]
    BY <1>3 DEF Save
  <2>5. pairs' = pairs
    BY <1>3 DEF Save
  <2> HIDE DEF log
  <2> QED
    BY <2>1, <2>2, <2>3, <2>4, <2>5
<1> QED
  BY <1>1, <1>2, <1>3
     DEF Next, ReplyStep, Wake, FollowUp, Begin, Acknowledge, Stamp, Tick,
         Capture, Identify, Transcribe, Lookup, Arm, Announce, Sentence,
         EndOfStream,
         RevealPoll, RevealWord, PlaybackOver, LeavePlayback, JoinBriefly,
         PlaybackPoll, DeadlinePasses, Disarm, Save, Fail, ReplyFail,
         UserSpeaks, PlayerStep, Enroll

(* Each stage finds what it relies on.                                     *)
LEMMA NextStage == IInv /\ [Next]_vars => StageOK'
<1> SUFFICES ASSUME IInv, [Next]_vars PROVE StageOK'
  OBVIOUS
<1> USE ConfigAssumption
    DEF IInv, StageOK, InTurn, Replying, Goto, Begin,
        vars, outside, replyVars, clockVars, heardVars, memoryVars, turnVars,
        streamVars, shownVars, micVars, voiceVars
<1>1. CASE Wake
  BY <1>1 DEF Wake
<1>2. CASE FollowUp
  BY <1>2 DEF FollowUp
<1>3. CASE Acknowledge
  BY <1>3 DEF Acknowledge
<1>4. CASE Stamp
  BY <1>4 DEF Stamp
<1>5. CASE Tick
  BY <1>5 DEF Tick
<1>6. CASE Capture
  BY <1>6 DEF Capture
<1>7. CASE Identify
  BY <1>7 DEF Identify
<1>8. CASE Transcribe
  BY <1>8 DEF Transcribe
<1>9. CASE Lookup
  BY <1>9 DEF Lookup, Heard, Persons, ValuesOK
<1>10. CASE Arm
  BY <1>10 DEF Arm, Mic!Arm
<1>11. CASE Announce
  BY <1>11 DEF Announce
<1>12. CASE Sentence
  BY <1>12 DEF Sentence, StreamOK
<1>13. CASE EndOfStream
  BY <1>13 DEF EndOfStream
<1>14. CASE RevealPoll
  BY <1>14 DEF RevealPoll, Interrupt, StreamOK
<1>15. CASE RevealWord
  BY <1>15 DEF RevealWord, StreamOK
<1>16. CASE PlaybackOver
  BY <1>16 DEF PlaybackOver, LeavePlayback
<1>17. CASE JoinBriefly
  BY <1>17 DEF JoinBriefly
<1>18. CASE PlaybackPoll
  BY <1>18 DEF PlaybackPoll, Interrupt, LeavePlayback
<1>19. CASE Disarm
  BY <1>19 DEF Disarm, Mic!Disarm
<1>20. CASE Save
  BY <1>20 DEF Save
<1>21. CASE DeadlinePasses
  BY <1>21 DEF DeadlinePasses
<1>22. CASE Fail
  BY <1>22 DEF Fail
<1>23. CASE ReplyFail
  BY <1>23 DEF ReplyFail, AfterException
<1>24. CASE UserSpeaks
  BY <1>24 DEF UserSpeaks, Mic!Hear
<1>25. ASSUME NEW t \in Players, PlayerStep(t) PROVE StageOK'
  BY <1>25 DEF PlayerStep
<1>26. ASSUME NEW p \in People, Enroll(p) PROVE StageOK'
  BY <1>26 DEF Enroll
<1>27. CASE UNCHANGED vars
  BY <1>27
<1> QED
  BY <1>1, <1>2, <1>3, <1>4, <1>5, <1>6, <1>7, <1>8, <1>9, <1>10, <1>11,
     <1>12, <1>13, <1>14, <1>15, <1>16, <1>17, <1>18, <1>19, <1>20, <1>21,
     <1>22, <1>23, <1>24, <1>25, <1>26, <1>27
     DEF Next, ReplyStep

(* The context stays the history it was read from.                         *)
LEMMA NextContext == IInv /\ [Next]_vars => ContextOK'
<1> SUFFICES ASSUME IInv, [Next]_vars PROVE ContextOK'
  OBVIOUS
<1> USE DEF IInv, ContextOK, HistoryOf, InTurn, Replying, Goto, Begin,
        vars, outside, replyVars, clockVars, heardVars, memoryVars, turnVars,
        streamVars, shownVars, micVars, voiceVars
<1>1. CASE Wake
  BY <1>1 DEF Wake
<1>2. CASE FollowUp
  BY <1>2 DEF FollowUp
<1>3. CASE Acknowledge
  BY <1>3 DEF Acknowledge
<1>4. CASE Stamp
  BY <1>4 DEF Stamp
<1>5. CASE Tick
  BY <1>5 DEF Tick
<1>6. CASE Capture
  BY <1>6 DEF Capture
<1>7. CASE Identify
  BY <1>7 DEF Identify
<1>8. CASE Transcribe
  BY <1>8 DEF Transcribe
<1>9. CASE Lookup
  BY <1>9 DEF Lookup, Heard
<1>10. CASE Arm
  BY <1>10 DEF Arm, Mic!Arm
<1>11. CASE Announce
  BY <1>11 DEF Announce
<1>12. CASE Sentence
  BY <1>12 DEF Sentence
<1>13. CASE EndOfStream
  BY <1>13 DEF EndOfStream
<1>14. CASE RevealPoll
  BY <1>14 DEF RevealPoll, Interrupt
<1>15. CASE RevealWord
  BY <1>15 DEF RevealWord
<1>16. CASE PlaybackOver
  BY <1>16 DEF PlaybackOver, LeavePlayback
<1>17. CASE JoinBriefly
  BY <1>17 DEF JoinBriefly
<1>18. CASE PlaybackPoll
  BY <1>18 DEF PlaybackPoll, Interrupt, LeavePlayback
<1>19. CASE Disarm
  BY <1>19 DEF Disarm, Mic!Disarm
<1>20. CASE Save
  BY <1>20 DEF Save
<1>21. CASE DeadlinePasses
  BY <1>21 DEF DeadlinePasses
<1>22. CASE Fail
  BY <1>22 DEF Fail
<1>23. CASE ReplyFail
  BY <1>23 DEF ReplyFail, AfterException
<1>24. CASE UserSpeaks
  BY <1>24 DEF UserSpeaks, Mic!Hear
<1>25. ASSUME NEW t \in Players, PlayerStep(t) PROVE ContextOK'
  BY <1>25 DEF PlayerStep
<1>26. ASSUME NEW p \in People, Enroll(p) PROVE ContextOK'
  BY <1>26 DEF Enroll
<1>27. CASE UNCHANGED vars
  BY <1>27
<1> QED
  BY <1>1, <1>2, <1>3, <1>4, <1>5, <1>6, <1>7, <1>8, <1>9, <1>10, <1>11,
     <1>12, <1>13, <1>14, <1>15, <1>16, <1>17, <1>18, <1>19, <1>20, <1>21,
     <1>22, <1>23, <1>24, <1>25, <1>26, <1>27
     DEF Next, ReplyStep

(* The waiver ends where the turn begins.                                  *)
LEMMA NextWaived == IInv /\ [Next]_vars => Waived'
<1> SUFFICES ASSUME IInv, [Next]_vars PROVE Waived'
  OBVIOUS
<1> USE DEF IInv, FlagsOK, Waived, Goto, Begin,
        vars, outside, replyVars, clockVars, heardVars, memoryVars, turnVars,
        streamVars, shownVars, micVars, voiceVars
<1>1. CASE Wake
  BY <1>1 DEF Wake
<1>2. CASE FollowUp
  BY <1>2 DEF FollowUp
<1>3. CASE Acknowledge
  BY <1>3 DEF Acknowledge
<1>4. CASE Stamp
  BY <1>4 DEF Stamp
<1>5. CASE Tick
  BY <1>5 DEF Tick
<1>6. CASE Capture
  BY <1>6 DEF Capture
<1>7. CASE Identify
  BY <1>7 DEF Identify
<1>8. CASE Transcribe
  BY <1>8 DEF Transcribe
<1>9. CASE Lookup
  BY <1>9 DEF Lookup, Heard
<1>10. CASE Arm
  BY <1>10 DEF Arm, Mic!Arm
<1>11. CASE Announce
  BY <1>11 DEF Announce
<1>12. CASE Sentence
  BY <1>12 DEF Sentence
<1>13. CASE EndOfStream
  BY <1>13 DEF EndOfStream
<1>14. CASE RevealPoll
  BY <1>14 DEF RevealPoll, Interrupt
<1>15. CASE RevealWord
  BY <1>15 DEF RevealWord
<1>16. CASE PlaybackOver
  BY <1>16 DEF PlaybackOver, LeavePlayback
<1>17. CASE JoinBriefly
  BY <1>17 DEF JoinBriefly
<1>18. CASE PlaybackPoll
  BY <1>18 DEF PlaybackPoll, Interrupt, LeavePlayback
<1>19. CASE Disarm
  BY <1>19 DEF Disarm, Mic!Disarm
<1>20. CASE Save
  BY <1>20 DEF Save
<1>21. CASE DeadlinePasses
  BY <1>21 DEF DeadlinePasses
<1>22. CASE Fail
  BY <1>22 DEF Fail
<1>23. CASE ReplyFail
  BY <1>23 DEF ReplyFail, AfterException
<1>24. CASE UserSpeaks
  BY <1>24 DEF UserSpeaks, Mic!Hear
<1>25. ASSUME NEW t \in Players, PlayerStep(t) PROVE Waived'
  BY <1>25 DEF PlayerStep
<1>26. ASSUME NEW p \in People, Enroll(p) PROVE Waived'
  BY <1>26 DEF Enroll
<1>27. CASE UNCHANGED vars
  BY <1>27
<1> QED
  BY <1>1, <1>2, <1>3, <1>4, <1>5, <1>6, <1>7, <1>8, <1>9, <1>10, <1>11,
     <1>12, <1>13, <1>14, <1>15, <1>16, <1>17, <1>18, <1>19, <1>20, <1>21,
     <1>22, <1>23, <1>24, <1>25, <1>26, <1>27
     DEF Next, ReplyStep

(* The finally clause serves every way out of a reply.                     *)
LEMMA NextArmed == IInv /\ [Next]_vars => ArmedOnlyInReply'
<1> SUFFICES ASSUME IInv, [Next]_vars PROVE ArmedOnlyInReply'
  OBVIOUS
<1> USE ConfigAssumption
    DEF IInv, FlagsOK, ArmedOnlyInReply, Watching, Replying, Goto, Begin,
        vars, outside, replyVars, clockVars, heardVars, memoryVars, turnVars,
        streamVars, shownVars, micVars, voiceVars
<1>1. CASE Wake
  BY <1>1 DEF Wake
<1>2. CASE FollowUp
  BY <1>2 DEF FollowUp
<1>3. CASE Acknowledge
  BY <1>3 DEF Acknowledge
<1>4. CASE Stamp
  BY <1>4 DEF Stamp
<1>5. CASE Tick
  BY <1>5 DEF Tick
<1>6. CASE Capture
  BY <1>6 DEF Capture
<1>7. CASE Identify
  BY <1>7 DEF Identify
<1>8. CASE Transcribe
  BY <1>8 DEF Transcribe
<1>9. CASE Lookup
  BY <1>9 DEF Lookup, Heard
<1>10. CASE Arm
  <2>1. CASE BargeIn
    BY <1>10, <2>1 DEF Arm, Mic!Arm
  <2>2. CASE ~BargeIn
    BY <1>10, <2>2 DEF Arm
  <2> QED
    BY <2>1, <2>2
<1>11. CASE Announce
  BY <1>11 DEF Announce
<1>12. CASE Sentence
  BY <1>12 DEF Sentence
<1>13. CASE EndOfStream
  BY <1>13 DEF EndOfStream
<1>14. CASE RevealPoll
  BY <1>14 DEF RevealPoll, Interrupt
<1>15. CASE RevealWord
  BY <1>15 DEF RevealWord
<1>16. CASE PlaybackOver
  BY <1>16 DEF PlaybackOver, LeavePlayback
<1>17. CASE JoinBriefly
  BY <1>17 DEF JoinBriefly
<1>18. CASE PlaybackPoll
  BY <1>18 DEF PlaybackPoll, Interrupt, LeavePlayback
<1>19. CASE Disarm
  BY <1>19 DEF Disarm, Mic!Disarm
<1>20. CASE Save
  BY <1>20 DEF Save
<1>21. CASE DeadlinePasses
  BY <1>21 DEF DeadlinePasses
<1>22. CASE Fail
  BY <1>22 DEF Fail, Heard
<1>23. CASE ReplyFail
  BY <1>23 DEF ReplyFail, AfterException
<1>24. CASE UserSpeaks
  BY <1>24 DEF UserSpeaks, Mic!Hear
<1>25. ASSUME NEW t \in Players, PlayerStep(t) PROVE ArmedOnlyInReply'
  BY <1>25 DEF PlayerStep
<1>26. ASSUME NEW p \in People, Enroll(p) PROVE ArmedOnlyInReply'
  BY <1>26 DEF Enroll
<1>27. CASE UNCHANGED vars
  BY <1>27
<1> QED
  BY <1>1, <1>2, <1>3, <1>4, <1>5, <1>6, <1>7, <1>8, <1>9, <1>10, <1>11,
     <1>12, <1>13, <1>14, <1>15, <1>16, <1>17, <1>18, <1>19, <1>20, <1>21,
     <1>22, <1>23, <1>24, <1>25, <1>26, <1>27
     DEF Next, ReplyStep

(***************************************************************************)
(* Theorems                                                                *)
(***************************************************************************)
(* The invariant holds in every reachable state.                           *)
THEOREM Invariance == Spec => []IInv
<1>1. IInv /\ [Next]_vars => IInv'
  BY NextValues, NextFlags, NextStream, NextVoice, NextMemory, NextStage,
     NextContext, NextWaived, NextArmed DEF IInv
<1> QED
  BY <1>1, InitIInv, PTL DEF Spec

(* Every variable keeps to its kind and no history read back is longer     *)
(* than asked for.                                                         *)
THEOREM TypeCorrect == Spec => []TypeOK
<1>1. IInv => TypeOK
  BY DEF IInv, ValuesOK, FlagsOK, StreamOK, VoiceOK, MemoryOK, TypeOK, Voice!TypeOK
<1> QED
  BY <1>1, Invariance, PTL

(* The microphone is watched all through a reply.  Of all the exceptions,  *)
(* interruptions and hung players only an observer that raises before the  *)
(* finally clause is in force leaves the detector armed, and only until    *)
(* the next reply.                                                         *)
THEOREM ArmedUnlessUnannounced == Spec => []ArmedOnlyInReply
<1>1. IInv => ArmedOnlyInReply
  BY DEF IInv
<1> QED
  BY <1>1, Invariance, PTL

(* A turn is answered from the speaker's own history, as it still stands   *)
(* when the turn is filed, and nobody's history holds another's turn.      *)
THEOREM HistoriesKeptApart == Spec => []OwnHistory
<1>1. IInv => OwnHistory
  <2>1. ASSUME IInv, NEW p \in Persons, NEW i \in 1..Len(recent[p])
        PROVE  recent[p][i].person_id = p
    <3>1. recent[p] \in Seq(TurnsOf(p))
      BY <2>1 DEF IInv, MemoryOK
    <3>2. recent[p][i] \in TurnsOf(p)
      BY <3>1
    <3> QED
      BY <3>2 DEF TurnsOf
  <2>2. ASSUME IInv, pc \in InTurn
        PROVE  pairs = IF person_id = GUEST THEN << >> ELSE recent[person_id]
    BY <2>2 DEF IInv, ContextOK, HistoryOf
  <2> QED
    BY <2>1, <2>2 DEF OwnHistory, InTurn
<1> QED
  BY <1>1, Invariance, PTL

(***************************************************************************)
(* Refinement of the abstract conversation                                 *)
(***************************************************************************)
(* A step that neither begins nor ends a turn, and files nothing.          *)
LEMMA Unseen ==
  ASSUME UNCHANGED <<skip_wake, recent>>, pc # "idle", pc' # "idle"
  PROVE  UNCHANGED C!convVars
  BY DEF C!convVars

(* A turn that ends without being filed.                                   *)
LEMMA Dropped ==
  ASSUME UNCHANGED <<skip_wake, recent>>, pc # "idle", pc' = "idle"
  PROVE  C!Drop
  BY DEF C!Drop

(* Filing the turn is the abstract answer.                                 *)
LEMMA Answers ==
  ASSUME IInv, Save
  PROVE  C!Answer
<1>1. person_id \in Persons /\ Turn \in TurnsOf(person_id)
  BY DEF IInv, Save, Goto, StageOK, InTurn, Turn, Turns, TurnsOf, StreamOK
<1> DEFINE log == C!Remember(recent[person_id], Turn)
<1>2. log # << >> /\ log[Len(log)] = Turn
  BY <1>1, RememberSeq DEF IInv, MemoryOK
<1>3. recent' = [recent EXCEPT ![person_id] = log]
  BY DEF Save
<1>4. recent'[person_id] = log
  BY <1>1, <1>3 DEF IInv, MemoryOK
<1>5. \E p \in Persons :
        /\ recent'[p] # << >>
        /\ LET t == recent'[p][Len(recent'[p])]
           IN  /\ t.person_id = p
               /\ recent' = [recent EXCEPT ![p] = C!Remember(@, t)]
  <2>1. Turn.person_id = person_id
    BY <1>1 DEF TurnsOf
  <2> HIDE DEF log
  <2>2. /\ recent'[person_id] # << >>
        /\ recent'[person_id][Len(recent'[person_id])] = Turn
    BY <1>2, <1>4
  <2>3. recent' = [recent EXCEPT ![person_id] = C!Remember(@, Turn)]
    BY DEF Save
  <2> QED
    BY <1>1, <2>1, <2>2, <2>3
<1>6. skip_wake' \in BOOLEAN
  BY DEF Save, IInv, FlagsOK
<1>7. pc = "wrap" /\ pc' = "idle"
  BY DEF Save, Goto
<1> QED
  BY <1>5, <1>6, <1>7 DEF C!Answer

(* Every step is a step of the conversation or invisible to it.            *)
LEMMA StepRefines == IInv /\ [Next]_vars => [C!Next]_C!convVars
<1> SUFFICES ASSUME IInv, [Next]_vars PROVE [C!Next]_C!convVars
  OBVIOUS
<1> USE DEF vars, outside, replyVars, clockVars, heardVars, memoryVars, turnVars,
        streamVars, shownVars, micVars, voiceVars, Goto
<1>1. CASE Wake
  BY <1>1 DEF Wake, Begin, IInv, Waived, C!Next, C!Begin
<1>2. CASE FollowUp
  BY <1>2 DEF FollowUp, Begin, IInv, Waived, C!Next, C!Begin
<1>3. CASE Acknowledge
  BY <1>3, Unseen DEF Acknowledge
<1>4. CASE Stamp
  BY <1>4, Unseen DEF Stamp
<1>5. CASE Tick
  BY <1>5 DEF Tick, C!convVars
<1>6. CASE Capture
  BY <1>6, Unseen DEF Capture
<1>7. CASE Identify
  BY <1>7, Unseen DEF Identify
<1>8. CASE Transcribe
  BY <1>8, Unseen DEF Transcribe
<1>9. CASE Lookup
  BY <1>9, Unseen, Dropped DEF Lookup, Heard, C!Next
<1>10. CASE Arm
  BY <1>10, Unseen DEF Arm, Mic!Arm
<1>11. CASE Announce
  BY <1>11, Unseen DEF Announce
<1>12. CASE Sentence
  BY <1>12, Unseen DEF Sentence
<1>13. CASE EndOfStream
  BY <1>13, Unseen DEF EndOfStream
<1>14. CASE RevealPoll
  BY <1>14, Unseen DEF RevealPoll, Interrupt
<1>15. CASE RevealWord
  BY <1>15, Unseen DEF RevealWord
<1>16. CASE PlaybackOver
  BY <1>16, Unseen DEF PlaybackOver, LeavePlayback
<1>17. CASE JoinBriefly
  BY <1>17, Unseen DEF JoinBriefly
<1>18. CASE PlaybackPoll
  BY <1>18, Unseen DEF PlaybackPoll, Interrupt, LeavePlayback
<1>19. CASE Disarm
  BY <1>19, Unseen, Dropped DEF Disarm, Mic!Disarm, C!Next
<1>20. CASE Save
  BY <1>20, Answers DEF C!Next
<1>21. CASE DeadlinePasses
  BY <1>21, Unseen DEF DeadlinePasses
<1>22. CASE Fail
  BY <1>22, Dropped DEF Fail, C!Next, C!convVars, Heard
<1>23. CASE ReplyFail
  BY <1>23, Unseen DEF ReplyFail, AfterException
<1>24. CASE UserSpeaks
  BY <1>24 DEF UserSpeaks, Mic!Hear, C!convVars
<1>25. ASSUME NEW t \in Players, PlayerStep(t) PROVE [C!Next]_C!convVars
  BY <1>25 DEF PlayerStep, C!convVars
<1>26. ASSUME NEW p \in People, Enroll(p) PROVE [C!Next]_C!convVars
  BY <1>26 DEF Enroll, C!convVars
<1>27. CASE UNCHANGED vars
  BY <1>27 DEF C!convVars
<1> QED
  BY <1>1, <1>2, <1>3, <1>4, <1>5, <1>6, <1>7, <1>8, <1>9, <1>10, <1>11,
     <1>12, <1>13, <1>14, <1>15, <1>16, <1>17, <1>18, <1>19, <1>20, <1>21,
     <1>22, <1>23, <1>24, <1>25, <1>26, <1>27
     DEF Next, ReplyStep

(* Whatever fails, hangs or is talked over, what the household sees is a   *)
(* sequence of turns that do not overlap, each filed at most once, under   *)
(* one person, as its last step, and a wake word waived for one turn at    *)
(* most after one that was cut short.                                      *)
THEOREM ImplementsConversation == Spec => Conversing
<1>1. Init => C!Init
  BY DEF Init, C!Init
<1> QED
  BY <1>1, StepRefines, Invariance, PTL DEF Spec, Conversing, C!Spec
===============================================================================
