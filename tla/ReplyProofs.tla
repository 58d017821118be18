----------------------------- MODULE ReplyProofs -----------------------------
(***************************************************************************)
(* Proofs about one reply of core/orchestrator.py: what is spoken, shown   *)
(* and filed when the user, the clock or an exception cuts it short.       *)
(***************************************************************************)
EXTENDS OrchestratorProofs

(***************************************************************************)
(* The waiver of the wake word                                             *)
(***************************************************************************)
(* The waiver and the outcome of the turn change together.                 *)
LEMMA NextWaiver == IInv /\ WaiverFollowsInterrupt /\ [Next]_vars => WaiverFollowsInterrupt'
<1> SUFFICES ASSUME IInv, WaiverFollowsInterrupt, [Next]_vars PROVE WaiverFollowsInterrupt'
  OBVIOUS
<1> USE DEF IInv, FlagsOK, Waived, WaiverFollowsInterrupt, Goto, Begin,
        vars, outside, replyVars, clockVars, heardVars, memoryVars, turnVars,
        streamVars, shownVars, micVars, voiceVars
<1>1. CASE Wake
  BY <1>1 DEF Wake
<1>2. CASE FollowUp
  BY <1>2 DEF FollowUp
<1>3. CASE Acknowledge
  BY <1>3 DEF Acknowledge
<1>4. CASE Stamp
  BY <1>4 DEF Stamp
<1>5. CASE Tick
  BY <1>5 DEF Tick
<1>6. CASE Capture
  BY <1>6 DEF Capture
<1>7. CASE Identify
  BY <1>7 DEF Identify
<1>8. CASE Transcribe
  BY <1>8 DEF Transcribe
<1>9. CASE Lookup
  BY <1>9 DEF Lookup, Heard
<1>10. CASE Arm
  BY <1>10 DEF Arm, Mic!Arm
<1>11. CASE Announce
  BY <1>11 DEF Announce
<1>12. CASE Sentence
  BY <1>12 DEF Sentence
<1>13. CASE EndOfStream
  BY <1>13 DEF EndOfStream
<1>14. CASE RevealPoll
  BY <1>14 DEF RevealPoll, Interrupt
<1>15. CASE RevealWord
  BY <1>15 DEF RevealWord
<1>16. CASE PlaybackOver
  BY <1>16 DEF PlaybackOver, LeavePlayback
<1>17. CASE JoinBriefly
  BY <1>17 DEF JoinBriefly
<1>18. CASE PlaybackPoll
  BY <1>18 DEF PlaybackPoll, Interrupt, LeavePlayback
<1>19. CASE Disarm
  BY <1>19 DEF Disarm, Mic!Disarm
<1>20. CASE Save
  BY <1>20 DEF Save
<1>21. CASE DeadlinePasses
  BY <1>21 DEF DeadlinePasses
<1>22. CASE Fail
  BY <1>22 DEF Fail, Heard
<1>23. CASE ReplyFail
  BY <1>23 DEF ReplyFail, AfterException
<1>24. CASE UserSpeaks
  BY <1>24 DEF UserSpeaks, Mic!Hear
<1>25. ASSUME NEW t \in Players, PlayerStep(t) PROVE WaiverFollowsInterrupt'
  BY <1>25 DEF PlayerStep
<1>26. ASSUME NEW p \in People, Enroll(p) PROVE WaiverFollowsInterrupt'
  BY <1>26 DEF Enroll
<1>27. CASE UNCHANGED vars
  BY <1>27
<1> QED
  BY <1>1, <1>2, <1>3, <1>4, <1>5, <1>6, <1>7, <1>8, <1>9, <1>10, <1>11,
     <1>12, <1>13, <1>14, <1>15, <1>16, <1>17, <1>18, <1>19, <1>20, <1>21,
     <1>22, <1>23, <1>24, <1>25, <1>26, <1>27
     DEF Next, ReplyStep

(* Between turns the wake word is waived exactly when the turn before was  *)
(* filed and had been cut short by the user.                               *)
THEOREM WaiverIsEarned == Spec => []WaiverFollowsInterrupt
<1>1. Init => WaiverFollowsInterrupt
  BY DEF Init, WaiverFollowsInterrupt
<1> QED
  BY <1>1, NextWaiver, Invariance, PTL DEF Spec

(***************************************************************************)
(* The voice                                                               *)
(***************************************************************************)
(* A thread is given up or accounted for by every step that stops waiting. *)
LEMMA NextVoices == IInv /\ OneVoice /\ [Next]_vars => OneVoice'
<1> SUFFICES ASSUME IInv, OneVoice, [Next]_vars PROVE OneVoice'
  OBVIOUS
<1> USE DEF IInv, VoiceOK, StageOK, OneVoice, Voice!PlayerStates, Voice!Live, Goto,
        Begin, vars, outside, replyVars, clockVars, heardVars, memoryVars, turnVars,
        streamVars, shownVars, micVars, voiceVars
<1>1. CASE Wake
  BY <1>1 DEF Wake
<1>2. CASE FollowUp
  BY <1>2 DEF FollowUp
<1>3. CASE Acknowledge
  BY <1>3 DEF Acknowledge, Voice!Stop, Voice!Silenced
<1>4. CASE Stamp
  BY <1>4 DEF Stamp
<1>5. CASE Tick
  BY <1>5 DEF Tick
<1>6. CASE Capture
  BY <1>6 DEF Capture
<1>7. CASE Identify
  BY <1>7 DEF Identify
<1>8. CASE Transcribe
  BY <1>8 DEF Transcribe
<1>9. CASE Lookup
  BY <1>9 DEF Lookup, Heard
<1>10. CASE Arm
  BY <1>10 DEF Arm, Mic!Arm
<1>11. CASE Announce
  BY <1>11 DEF Announce
<1>12. CASE Sentence
  BY <1>12 DEF Sentence, Voice!Start
<1>13. CASE EndOfStream
  BY <1>13 DEF EndOfStream
<1>14. CASE RevealPoll
  BY <1>14 DEF RevealPoll, Interrupt, Voice!Stop, Voice!Silenced
<1>15. CASE RevealWord
  BY <1>15 DEF RevealWord
<1>16. CASE PlaybackOver
  BY <1>16 DEF PlaybackOver, PlayedOut, LeavePlayback, GivenUp
<1>17. CASE JoinBriefly
  BY <1>17 DEF JoinBriefly
<1>18. CASE PlaybackPoll
  BY <1>18 DEF PlaybackPoll, Interrupt, Voice!Stop, Voice!Silenced, LeavePlayback,
             GivenUp
<1>19. CASE Disarm
  BY <1>19 DEF Disarm, Mic!Disarm
<1>20. CASE Save
  BY <1>20 DEF Save
<1>21. CASE DeadlinePasses
  BY <1>21 DEF DeadlinePasses
<1>22. CASE Fail
  BY <1>22 DEF Fail, Heard
<1>23. CASE ReplyFail
  BY <1>23 DEF ReplyFail, AfterException
<1>24. CASE UserSpeaks
  BY <1>24 DEF UserSpeaks, Mic!Hear
<1>25. ASSUME NEW t \in Players, PlayerStep(t) PROVE OneVoice'
  BY <1>25 DEF PlayerStep, Voice!Step, Voice!Begin, Voice!Finish, Voice!Break,
             Voice!Stall, Voice!Silenced
<1>26. ASSUME NEW p \in People, Enroll(p) PROVE OneVoice'
  BY <1>26 DEF Enroll
<1>27. CASE UNCHANGED vars
  BY <1>27
<1> QED
  BY <1>1, <1>2, <1>3, <1>4, <1>5, <1>6, <1>7, <1>8, <1>9, <1>10, <1>11,
     <1>12, <1>13, <1>14, <1>15, <1>16, <1>17, <1>18, <1>19, <1>20, <1>21,
     <1>22, <1>23, <1>24, <1>25, <1>26, <1>27
     DEF Next, ReplyStep

(* Only the current sentence's thread and those that were given up live,   *)
(* for any number of threads, hung ones included.                          *)
THEOREM VoicesAccountedFor == Spec => []OneVoice
<1>1. Init => OneVoice
  BY DEF Init, OneVoice, Voice!Init, Voice!Live
<1> QED
  BY <1>1, NextVoices, Invariance, PTL DEF Spec

(***************************************************************************)
(* The words                                                               *)
(***************************************************************************)
InOrder == \A i \in 1..Len(reply) : reply[i] = i

(* How far the caption is behind the stream.                               *)
Caption ==
  /\ pc \in {"armed", "stream", "reveal", "word", "await", "join", "disarm", "wrap"} =>
       InOrder
  /\ pc \in {"armed", "stream"} => ~barge /\ Len(reply) = streamed
  /\ pc \in {"reveal", "word"} => ~barge /\ Len(reply) = streamed - left
  /\ pc \in {"await", "join", "disarm", "wrap"} => barge \/ Len(reply) = streamed

SpokenInv == Caption /\ FiledAsSpoken

(* Words are put up one by one, and all of them unless the user cuts in.   *)
LEMMA NextCaption == IInv /\ Caption /\ [Next]_vars => Caption'
<1> SUFFICES ASSUME IInv, Caption, [Next]_vars PROVE Caption'
  OBVIOUS
<1> USE DEF IInv, FlagsOK, StreamOK, StageOK, Caption, InOrder, Goto, Begin,
        vars, outside, replyVars, clockVars, heardVars, memoryVars, turnVars,
        streamVars, shownVars, micVars, voiceVars
<1>1. CASE Wake
  BY <1>1 DEF Wake
<1>2. CASE FollowUp
  BY <1>2 DEF FollowUp
<1>3. CASE Acknowledge
  BY <1>3 DEF Acknowledge
<1>4. CASE Stamp
  BY <1>4 DEF Stamp
<1>5. CASE Tick
  BY <1>5 DEF Tick
<1>6. CASE Capture
  BY <1>6 DEF Capture
<1>7. CASE Identify
  BY <1>7 DEF Identify
<1>8. CASE Transcribe
  BY <1>8 DEF Transcribe
<1>9. CASE Lookup
  BY <1>9 DEF Lookup, Heard
<1>10. CASE Arm
  BY <1>10 DEF Arm, Mic!Arm
<1>11. CASE Announce
  BY <1>11 DEF Announce
<1>12. CASE Sentence
  BY <1>12 DEF Sentence
<1>13. CASE EndOfStream
  BY <1>13 DEF EndOfStream
<1>14. CASE RevealPoll
  BY <1>14 DEF RevealPoll, Interrupt
<1>15. CASE RevealWord
  <2> DEFINE n == streamed - left + 1
  <2>1. /\ pc = "word" /\ ~barge /\ left > 0 /\ InOrder
        /\ Len(reply) = streamed - left
    BY <1>15 DEF RevealWord
  <2>2. /\ streamed \in Int /\ left \in Int /\ reply \in Seq(Nat)
        /\ n \in Nat /\ Len(reply) = n - 1
    BY <2>1, ConfigAssumption
  <2>3. reply' = Append(reply, n) /\ streamed' = streamed /\ left' = left - 1
    BY <1>15 DEF RevealWord
  <2>4. Len(reply') = n /\ InOrder'
    BY <2>1, <2>2, <2>3
  <2>5. Len(reply') = streamed' - left'
    BY <2>2, <2>3, <2>4
  <2>6. ~barge' /\ IF left = 1 THEN pc' = "await" ELSE pc' = "reveal"
    BY <1>15, <2>1 DEF RevealWord
  <2> QED
    BY <2>2, <2>3, <2>4, <2>5, <2>6
<1>16. CASE PlaybackOver
  BY <1>16 DEF PlaybackOver, LeavePlayback
<1>17. CASE JoinBriefly
  BY <1>17 DEF JoinBriefly
<1>18. CASE PlaybackPoll
  BY <1>18 DEF PlaybackPoll, Interrupt, LeavePlayback
<1>19. CASE Disarm
  BY <1>19 DEF Disarm, Mic!Disarm
<1>20. CASE Save
  BY <1>20 DEF Save
<1>21. CASE DeadlinePasses
  BY <1>21 DEF DeadlinePasses
<1>22. CASE Fail
  BY <1>22 DEF Fail, Heard
<1>23. CASE ReplyFail
  BY <1>23 DEF ReplyFail, AfterException
<1>24. CASE UserSpeaks
  BY <1>24 DEF UserSpeaks, Mic!Hear
<1>25. ASSUME NEW t \in Players, PlayerStep(t) PROVE Caption'
  BY <1>25 DEF PlayerStep
<1>26. ASSUME NEW p \in People, Enroll(p) PROVE Caption'
  BY <1>26 DEF Enroll
<1>27. CASE UNCHANGED vars
  BY <1>27
<1> QED
  BY <1>1, <1>2, <1>3, <1>4, <1>5, <1>6, <1>7, <1>8, <1>9, <1>10, <1>11,
     <1>12, <1>13, <1>14, <1>15, <1>16, <1>17, <1>18, <1>19, <1>20, <1>21,
     <1>22, <1>23, <1>24, <1>25, <1>26, <1>27
     DEF Next, ReplyStep

(* What is filed is the caption, and it stays so until the next turn.      *)
LEMMA NextFiled == IInv /\ SpokenInv /\ [Next]_vars => FiledAsSpoken'
<1> SUFFICES ASSUME IInv, SpokenInv, [Next]_vars PROVE FiledAsSpoken'
  OBVIOUS
<1> USE DEF IInv, SpokenInv, FiledAsSpoken, Answered, Filed, Goto, Begin,
        vars, outside, replyVars, clockVars, heardVars, memoryVars, turnVars,
        streamVars, shownVars, micVars, voiceVars
<1>1. CASE Wake
  BY <1>1 DEF Wake
<1>2. CASE FollowUp
  BY <1>2 DEF FollowUp
<1>3. CASE Acknowledge
  BY <1>3 DEF Acknowledge
<1>4. CASE Stamp
  BY <1>4 DEF Stamp
<1>5. CASE Tick
  BY <1>5 DEF Tick
<1>6. CASE Capture
  BY <1>6 DEF Capture
<1>7. CASE Identify
  BY <1>7 DEF Identify
<1>8. CASE Transcribe
  BY <1>8 DEF Transcribe
<1>9. CASE Lookup
  BY <1>9 DEF Lookup, Heard
<1>10. CASE Arm
  BY <1>10 DEF Arm, Mic!Arm
<1>11. CASE Announce
  BY <1>11 DEF Announce
<1>12. CASE Sentence
  BY <1>12 DEF Sentence
<1>13. CASE EndOfStream
  BY <1>13 DEF EndOfStream
<1>14. CASE RevealPoll
  BY <1>14 DEF RevealPoll, Interrupt
<1>15. CASE RevealWord
  BY <1>15 DEF RevealWord
<1>16. CASE PlaybackOver
  BY <1>16 DEF PlaybackOver, LeavePlayback
<1>17. CASE JoinBriefly
  BY <1>17 DEF JoinBriefly
<1>18. CASE PlaybackPoll
  BY <1>18 DEF PlaybackPoll, Interrupt, LeavePlayback
<1>19. CASE Disarm
  BY <1>19 DEF Disarm, Mic!Disarm
<1>20. CASE Save
  <2>1. person_id \in Persons /\ said \in Utterances /\ reply \in Seq(Nat)
    BY <1>20 DEF Save, StageOK, StreamOK, InTurn
  <2>2. Turn \in TurnsOf(person_id)
    BY <2>1 DEF Turn, TurnsOf, Turns
  <2> DEFINE log == recent[person_id]
  <2>3. log \in Seq(TurnsOf(person_id)) /\ Len(log) <= HistoryLimit
    BY <2>1 DEF MemoryOK
  <2>4. C!Remember(log, Turn)[Len(C!Remember(log, Turn))] = Turn
    BY <2>2, <2>3, RememberSeq
  <2>5. recent'[person_id] = C!Remember(log, Turn)
    BY <1>20, <2>1 DEF Save, MemoryOK
  <2>6. Filed' = Turn
    BY <1>20, <2>4, <2>5 DEF Save
  <2> QED
    BY <1>20, <2>6 DEF Save, Turn, Caption, InOrder
<1>21. CASE DeadlinePasses
  BY <1>21 DEF DeadlinePasses
<1>22. CASE Fail
  BY <1>22 DEF Fail, Heard
<1>23. CASE ReplyFail
  BY <1>23 DEF ReplyFail, AfterException
<1>24. CASE UserSpeaks
  BY <1>24 DEF UserSpeaks, Mic!Hear
<1>25. ASSUME NEW t \in Players, PlayerStep(t) PROVE FiledAsSpoken'
  BY <1>25 DEF PlayerStep
<1>26. ASSUME NEW p \in People, Enroll(p) PROVE FiledAsSpoken'
  BY <1>26 DEF Enroll
<1>27. CASE UNCHANGED vars
  BY <1>27
<1> QED
  BY <1>1, <1>2, <1>3, <1>4, <1>5, <1>6, <1>7, <1>8, <1>9, <1>10, <1>11,
     <1>12, <1>13, <1>14, <1>15, <1>16, <1>17, <1>18, <1>19, <1>20, <1>21,
     <1>22, <1>23, <1>24, <1>25, <1>26, <1>27
     DEF Next, ReplyStep

(* Caption and filing together are inductive.                              *)
LEMMA Spoken == Spec => []SpokenInv
<1>1. Init => SpokenInv
  BY DEF Init, SpokenInv, Caption, FiledAsSpoken, Answered
<1>2. IInv /\ SpokenInv /\ [Next]_vars => SpokenInv'
  BY NextCaption, NextFiled DEF SpokenInv
<1> QED
  BY <1>1, <1>2, Invariance, PTL DEF Spec

(* The remembered reply is what the stream said, word for word: all of it, *)
(* or up to the interruption.                                              *)
THEOREM FiledWordForWord == Spec => []FiledAsSpoken
<1>1. SpokenInv => FiledAsSpoken
  BY DEF SpokenInv
<1> QED
  BY <1>1, Spoken, PTL

(***************************************************************************)
(* The interruption                                                        *)
(***************************************************************************)
(* A word is put up only after a poll that had not found the user talking. *)
Overrun ==
  /\ speaking => BargeIn
  /\ overrun > 0 => speaking
  /\ pc = "word" => overrun = 0

(* The poll before each word bounds how late the caption stops.            *)
LEMMA NextOverrun == IInv /\ Overrun /\ PromptStop /\ [Next]_vars => (Overrun /\ PromptStop)'
<1> SUFFICES ASSUME IInv, Overrun, PromptStop, [Next]_vars PROVE (Overrun /\ PromptStop)'
  OBVIOUS
<1> USE DEF IInv, StreamOK, ArmedOnlyInReply, Overrun, PromptStop, Goto, Begin,
        vars, outside, replyVars, clockVars, heardVars, memoryVars, turnVars,
        streamVars, shownVars, micVars, voiceVars
<1>1. CASE Wake
  BY <1>1 DEF Wake
<1>2. CASE FollowUp
  BY <1>2 DEF FollowUp
<1>3. CASE Acknowledge
  BY <1>3 DEF Acknowledge
<1>4. CASE Stamp
  BY <1>4 DEF Stamp
<1>5. CASE Tick
  BY <1>5 DEF Tick
<1>6. CASE Capture
  BY <1>6 DEF Capture
<1>7. CASE Identify
  BY <1>7 DEF Identify
<1>8. CASE Transcribe
  BY <1>8 DEF Transcribe
<1>9. CASE Lookup
  BY <1>9 DEF Lookup, Heard
<1>10. CASE Arm
  BY <1>10 DEF Arm, Mic!Arm
<1>11. CASE Announce
  BY <1>11 DEF Announce
<1>12. CASE Sentence
  BY <1>12 DEF Sentence
<1>13. CASE EndOfStream
  BY <1>13 DEF EndOfStream
<1>14. CASE RevealPoll
  BY <1>14 DEF RevealPoll, Interrupt, Watched
<1>15. CASE RevealWord
  BY <1>15 DEF RevealWord
<1>16. CASE PlaybackOver
  BY <1>16 DEF PlaybackOver, LeavePlayback
<1>17. CASE JoinBriefly
  BY <1>17 DEF JoinBriefly
<1>18. CASE PlaybackPoll
  BY <1>18 DEF PlaybackPoll, Interrupt, LeavePlayback
<1>19. CASE Disarm
  BY <1>19 DEF Disarm, Mic!Disarm
<1>20. CASE Save
  BY <1>20 DEF Save
<1>21. CASE DeadlinePasses
  BY <1>21 DEF DeadlinePasses
<1>22. CASE Fail
  BY <1>22 DEF Fail, Heard
<1>23. CASE ReplyFail
  BY <1>23 DEF ReplyFail, AfterException
<1>24. CASE UserSpeaks
  BY <1>24 DEF UserSpeaks, Mic!Hear
<1>25. ASSUME NEW t \in Players, PlayerStep(t) PROVE (Overrun /\ PromptStop)'
  BY <1>25 DEF PlayerStep
<1>26. ASSUME NEW p \in People, Enroll(p) PROVE (Overrun /\ PromptStop)'
  BY <1>26 DEF Enroll
<1>27. CASE UNCHANGED vars
  BY <1>27
<1> QED
  BY <1>1, <1>2, <1>3, <1>4, <1>5, <1>6, <1>7, <1>8, <1>9, <1>10, <1>11,
     <1>12, <1>13, <1>14, <1>15, <1>16, <1>17, <1>18, <1>19, <1>20, <1>21,
     <1>22, <1>23, <1>24, <1>25, <1>26, <1>27
     DEF Next, ReplyStep

(* At most the word that is being put up follows the user's first sound,   *)
(* for replies and sentences of any length.                                *)
THEOREM CaptionStopsPromptly == Spec => []PromptStop
<1>1. Init => Overrun /\ PromptStop
  BY DEF Init, Overrun, PromptStop, Mic!Init
<1> QED
  BY <1>1, NextOverrun, Invariance, PTL DEF Spec

NoStart == barge => \A t \in Players : ~Voice!Live(t) => players'[t] = "done"

(* The only step that starts a thread comes before any interruption.       *)
LEMMA NextSilent == IInv /\ Caption /\ [Next]_vars => NoStart
<1> SUFFICES ASSUME IInv, Caption, [Next]_vars PROVE NoStart
  OBVIOUS
<1> USE DEF IInv, VoiceOK, Caption, NoStart, Voice!PlayerStates, Voice!Live, Goto,
        Begin, vars, outside, replyVars, clockVars, heardVars, memoryVars, turnVars,
        streamVars, shownVars, micVars, voiceVars
<1>1. CASE Wake
  BY <1>1 DEF Wake
<1>2. CASE FollowUp
  BY <1>2 DEF FollowUp
<1>3. CASE Acknowledge
  BY <1>3 DEF Acknowledge, Voice!Stop, Voice!Silenced
<1>4. CASE Stamp
  BY <1>4 DEF Stamp
<1>5. CASE Tick
  BY <1>5 DEF Tick
<1>6. CASE Capture
  BY <1>6 DEF Capture
<1>7. CASE Identify
  BY <1>7 DEF Identify
<1>8. CASE Transcribe
  BY <1>8 DEF Transcribe
<1>9. CASE Lookup
  BY <1>9 DEF Lookup, Heard
<1>10. CASE Arm
  BY <1>10 DEF Arm, Mic!Arm
<1>11. CASE Announce
  BY <1>11 DEF Announce
<1>12. CASE Sentence
  BY <1>12 DEF Sentence
<1>13. CASE EndOfStream
  BY <1>13 DEF EndOfStream
<1>14. CASE RevealPoll
  BY <1>14 DEF RevealPoll, Interrupt, Voice!Stop, Voice!Silenced
<1>15. CASE RevealWord
  BY <1>15 DEF RevealWord
<1>16. CASE PlaybackOver
  BY <1>16 DEF PlaybackOver, LeavePlayback
<1>17. CASE JoinBriefly
  BY <1>17 DEF JoinBriefly
<1>18. CASE PlaybackPoll
  BY <1>18 DEF PlaybackPoll, Interrupt, Voice!Stop, Voice!Silenced
<1>19. CASE Disarm
  BY <1>19 DEF Disarm, Mic!Disarm
<1>20. CASE Save
  BY <1>20 DEF Save
<1>21. CASE DeadlinePasses
  BY <1>21 DEF DeadlinePasses
<1>22. CASE Fail
  BY <1>22 DEF Fail, Heard
<1>23. CASE ReplyFail
  BY <1>23 DEF ReplyFail, AfterException
<1>24. CASE UserSpeaks
  BY <1>24 DEF UserSpeaks, Mic!Hear
<1>25. ASSUME NEW t \in Players, PlayerStep(t) PROVE NoStart
  BY <1>25 DEF PlayerStep, Voice!Step, Voice!Begin, Voice!Finish, Voice!Break,
             Voice!Stall, Voice!Silenced
<1>26. ASSUME NEW p \in People, Enroll(p) PROVE NoStart
  BY <1>26 DEF Enroll
<1>27. CASE UNCHANGED vars
  BY <1>27
<1> QED
  BY <1>1, <1>2, <1>3, <1>4, <1>5, <1>6, <1>7, <1>8, <1>9, <1>10, <1>11,
     <1>12, <1>13, <1>14, <1>15, <1>16, <1>17, <1>18, <1>19, <1>20, <1>21,
     <1>22, <1>23, <1>24, <1>25, <1>26, <1>27
     DEF Next, ReplyStep

(* Once the interruption is noticed no thread is started in that turn.     *)
THEOREM SilenceAfterBarge == Spec => NothingNewAfterBarge
<1>1. IInv /\ SpokenInv /\ [Next]_vars =>
        [barge /\ barge' =>
           \A t \in Players : ~Voice!Live(t) => players'[t] = "done"]_vars
  BY NextSilent DEF NoStart, SpokenInv
<1> QED
  BY <1>1, Spoken, Invariance, PTL DEF Spec, NothingNewAfterBarge

(* What a step can do to the threads.                                      *)
LEMMA VoiceSteps ==
  ASSUME [Next]_vars
  PROVE  \/ UNCHANGED players
         \/ Voice!Stop
         \/ \E t \in Players : Voice!Start(t) \/ Voice!Step(t)
<1> USE DEF Goto, vars, outside, replyVars, streamVars, micVars, voiceVars
<1>1. CASE \/ Wake \/ FollowUp \/ Acknowledge \/ Stamp \/ Tick
           \/ Capture \/ Identify \/ Transcribe \/ Lookup
  BY <1>1 DEF Wake, FollowUp, Begin, Acknowledge, Stamp, Tick,
              Capture, Identify, Transcribe, Lookup
<1>2. CASE \/ Arm \/ Announce \/ EndOfStream \/ RevealWord
           \/ PlaybackOver \/ JoinBriefly \/ Disarm \/ Save
  BY <1>2 DEF Arm, Announce, EndOfStream, RevealWord, PlaybackOver, JoinBriefly, Disarm, Save
<1>3. CASE Sentence
  BY <1>3 DEF Sentence
<1>4. CASE RevealPoll \/ PlaybackPoll
  BY <1>4 DEF RevealPoll, PlaybackPoll, Interrupt
<1>5. CASE DeadlinePasses \/ Fail \/ ReplyFail \/ UserSpeaks
  BY <1>5 DEF DeadlinePasses, Fail, ReplyFail, UserSpeaks
<1>6. ASSUME NEW t \in Players, PlayerStep(t)
      PROVE  \E u \in Players : Voice!Start(u) \/ Voice!Step(u)
  BY <1>6 DEF PlayerStep
<1>7. ASSUME NEW p \in People, Enroll(p) PROVE UNCHANGED players
  BY <1>7 DEF Enroll
<1>8. CASE UNCHANGED vars
  BY <1>8
<1> QED
  BY <1>1, <1>2, <1>3, <1>4, <1>5, <1>6, <1>7, <1>8 DEF Next, ReplyStep

(* The interruption is noticed by a poll, which stops the audio.           *)
LEMMA BargeStops == [Next]_vars /\ ~barge /\ barge' => Voice!Stop
BY DEF Next, ReplyStep, Wake, FollowUp, Begin, Acknowledge, Stamp, Tick, Capture, Identify,
       Transcribe, Lookup, Arm, Announce, Sentence, EndOfStream, RevealPoll, RevealWord, PlaybackOver,
       JoinBriefly, PlaybackPoll, Interrupt, DeadlinePasses, Disarm, Save, Fail, ReplyFail,
       UserSpeaks, PlayerStep, Enroll, vars, outside, replyVars, streamVars

(* After the interruption no thread sounds or is about to.                 *)
Hushed == barge => \A t \in Players : players[t] \notin {"starting", "playing"}

LEMMA NextHushed ==
  IInv /\ Caption /\ Hushed /\ [Next]_vars /\ [StopsInTime]_vars => Hushed'
<1> SUFFICES ASSUME IInv, Caption, Hushed, [Next]_vars, [StopsInTime]_vars, barge',
                    NEW t \in Players
             PROVE  players'[t] \notin {"starting", "playing"}
  BY DEF Hushed
<1>1. players \in [Players -> Voice!PlayerStates]
  BY DEF IInv, VoiceOK
<1>2. CASE barge
  <2>1. players[t] \in {"done", "stuck"}
    BY <1>1, <1>2 DEF Hushed, Voice!PlayerStates
  <2>2. CASE players[t] = "done"
    BY <1>2, <2>2, NextSilent DEF NoStart, Voice!Live
  <2>3. CASE players[t] = "stuck"
    BY <1>1, <2>3, VoiceSteps
    DEF Voice!Stop, Voice!Silenced, Voice!Start, Voice!Live, Voice!Step, Voice!Begin,
        Voice!Finish, Voice!Break, Voice!Stall
  <2> QED
    BY <2>1, <2>2, <2>3
<1>3. CASE ~barge
  <2>1. players' = Voice!Silenced
    BY <1>3, BargeStops DEF Voice!Stop
  <2>2. players[t] # "starting"
    BY <1>3 DEF StopsInTime, vars, replyVars, streamVars
  <2> QED
    BY <1>1, <2>1, <2>2 DEF Voice!Silenced
<1> QED
  BY <1>2, <1>3

(* "abort (stop the audio, drop the rest) the moment the user talks over   *)
(* the reply": so it is, for any number of threads, hung and given up ones *)
(* included, unless one of them was still starting when the audio was      *)
(* stopped -- the order Interrupted.cfg shows is the only one.             *)
THEOREM InterruptionSilences == Spec /\ [][StopsInTime]_vars => []BargeSilences
<1>1. Init => Hushed
  BY DEF Init, Hushed
<1>2. Hushed => BargeSilences
  BY DEF Hushed, BargeSilences
<1> QED
  BY <1>1, <1>2, NextHushed, Spoken, Invariance, PTL DEF Spec, SpokenInv

(***************************************************************************)
(* The screen                                                              *)
(***************************************************************************)
(* From its first word the reply is on the screen as far as it was         *)
(* revealed.                                                               *)
OnScreen ==
  /\ pc \in {"armed", "stream", "reveal", "word", "await", "join", "disarm", "wrap"}
  /\ reply # << >>
  => display = Shown(reply)

LEMMA NextOnScreen == IInv /\ OnScreen /\ [Next]_vars => OnScreen'
<1> SUFFICES ASSUME IInv, OnScreen, [Next]_vars PROVE OnScreen'
  OBVIOUS
<1> USE DEF OnScreen, Shown, Goto, Begin,
        vars, outside, replyVars, clockVars, heardVars, memoryVars, turnVars,
        streamVars, shownVars, micVars, voiceVars
<1>1. CASE Wake
  BY <1>1 DEF Wake
<1>2. CASE FollowUp
  BY <1>2 DEF FollowUp
<1>3. CASE Acknowledge
  BY <1>3 DEF Acknowledge
<1>4. CASE Stamp
  BY <1>4 DEF Stamp
<1>5. CASE Tick
  BY <1>5 DEF Tick
<1>6. CASE Capture
  BY <1>6 DEF Capture
<1>7. CASE Identify
  BY <1>7 DEF Identify
<1>8. CASE Transcribe
  BY <1>8 DEF Transcribe
<1>9. CASE Lookup
  BY <1>9 DEF Lookup, Heard
<1>10. CASE Arm
  BY <1>10 DEF Arm, Mic!Arm
<1>11. CASE Announce
  BY <1>11 DEF Announce
<1>12. CASE Sentence
  BY <1>12 DEF Sentence
<1>13. CASE EndOfStream
  BY <1>13 DEF EndOfStream
<1>14. CASE RevealPoll
  BY <1>14 DEF RevealPoll, Interrupt
<1>15. CASE RevealWord
  BY <1>15 DEF RevealWord
<1>16. CASE PlaybackOver
  BY <1>16 DEF PlaybackOver, LeavePlayback
<1>17. CASE JoinBriefly
  BY <1>17 DEF JoinBriefly
<1>18. CASE PlaybackPoll
  BY <1>18 DEF PlaybackPoll, Interrupt, LeavePlayback
<1>19. CASE Disarm
  BY <1>19 DEF Disarm, Mic!Disarm
<1>20. CASE Save
  BY <1>20 DEF Save
<1>21. CASE DeadlinePasses
  BY <1>21 DEF DeadlinePasses
<1>22. CASE Fail
  BY <1>22 DEF Fail, Heard
<1>23. CASE ReplyFail
  BY <1>23 DEF ReplyFail, AfterException
<1>24. CASE UserSpeaks
  BY <1>24 DEF UserSpeaks, Mic!Hear
<1>25. ASSUME NEW t \in Players, PlayerStep(t) PROVE OnScreen'
  BY <1>25 DEF PlayerStep
<1>26. ASSUME NEW p \in People, Enroll(p) PROVE OnScreen'
  BY <1>26 DEF Enroll
<1>27. CASE UNCHANGED vars
  BY <1>27
<1> QED
  BY <1>1, <1>2, <1>3, <1>4, <1>5, <1>6, <1>7, <1>8, <1>9, <1>10, <1>11,
     <1>12, <1>13, <1>14, <1>15, <1>16, <1>17, <1>18, <1>19, <1>20, <1>21,
     <1>22, <1>23, <1>24, <1>25, <1>26, <1>27
     DEF Next, ReplyStep

(* Filing refreshes the screen only where nothing was streamed.            *)
LEMMA NextShown == IInv /\ SpokenInv /\ OnScreen /\ ShownAsFiled /\ [Next]_vars => ShownAsFiled'
<1> SUFFICES ASSUME IInv, SpokenInv, OnScreen, ShownAsFiled, [Next]_vars PROVE ShownAsFiled'
  OBVIOUS
<1> USE DEF ShownAsFiled, Answered, Filed, Goto, Begin,
        vars, outside, replyVars, clockVars, heardVars, memoryVars, turnVars,
        streamVars, shownVars, micVars, voiceVars
<1>1. CASE Wake
  BY <1>1 DEF Wake
<1>2. CASE FollowUp
  BY <1>2 DEF FollowUp
<1>3. CASE Acknowledge
  BY <1>3 DEF Acknowledge
<1>4. CASE Stamp
  BY <1>4 DEF Stamp
<1>5. CASE Tick
  BY <1>5 DEF Tick
<1>6. CASE Capture
  BY <1>6 DEF Capture
<1>7. CASE Identify
  BY <1>7 DEF Identify
<1>8. CASE Transcribe
  BY <1>8 DEF Transcribe
<1>9. CASE Lookup
  BY <1>9 DEF Lookup, Heard
<1>10. CASE Arm
  BY <1>10 DEF Arm, Mic!Arm
<1>11. CASE Announce
  BY <1>11 DEF Announce
<1>12. CASE Sentence
  BY <1>12 DEF Sentence
<1>13. CASE EndOfStream
  BY <1>13 DEF EndOfStream
<1>14. CASE RevealPoll
  BY <1>14 DEF RevealPoll, Interrupt
<1>15. CASE RevealWord
  BY <1>15 DEF RevealWord
<1>16. CASE PlaybackOver
  BY <1>16 DEF PlaybackOver, LeavePlayback
<1>17. CASE JoinBriefly
  BY <1>17 DEF JoinBriefly
<1>18. CASE PlaybackPoll
  BY <1>18 DEF PlaybackPoll, Interrupt, LeavePlayback
<1>19. CASE Disarm
  BY <1>19 DEF Disarm, Mic!Disarm
<1>20. CASE Save
  <2>1. person_id \in Persons /\ said \in Utterances /\ reply \in Seq(Nat)
    BY <1>20 DEF Save, IInv, StageOK, StreamOK, InTurn
  <2>2. Turn \in TurnsOf(person_id)
    BY <2>1 DEF Turn, TurnsOf, Turns
  <2> DEFINE log == recent[person_id]
  <2>3. log \in Seq(TurnsOf(person_id)) /\ Len(log) <= HistoryLimit
    BY <2>1 DEF IInv, MemoryOK
  <2>4. C!Remember(log, Turn)[Len(C!Remember(log, Turn))] = Turn
    BY <2>2, <2>3, RememberSeq
  <2>5. recent'[person_id] = C!Remember(log, Turn)
    BY <1>20, <2>1 DEF Save, IInv, MemoryOK
  <2>6. Filed' = Turn
    BY <1>20, <2>4, <2>5 DEF Save
  <2>7. Turn.person_id = person_id /\ Turn.replied = reply
    BY DEF Turn
  <2>8. /\ pc = "wrap" /\ display' = Refreshed /\ UNCHANGED <<reply, barge>>
        /\ outcome' = "replied" => ~barge
    BY <1>20 DEF Save
  <2>9. CASE reply # << >>
    <3>1. display' = Shown(reply)
      BY <2>8, <2>9 DEF OnScreen, Refreshed
    <3> QED
      BY <2>6, <2>7, <3>1 DEF Shown
  <2>10. CASE reply = << >> /\ outcome' = "replied"
    <3>1. streamed = 0
      BY <2>8, <2>10 DEF SpokenInv, Caption
    <3>2. display' = Shown(reply)
      BY <2>8, <3>1 DEF Refreshed
    <3> QED
      BY <2>6, <2>7, <3>2 DEF Shown
  <2> QED
    BY <2>8, <2>9, <2>10
<1>21. CASE DeadlinePasses
  BY <1>21 DEF DeadlinePasses
<1>22. CASE Fail
  BY <1>22 DEF Fail, Heard
<1>23. CASE ReplyFail
  BY <1>23 DEF ReplyFail, AfterException
<1>24. CASE UserSpeaks
  BY <1>24 DEF UserSpeaks, Mic!Hear
<1>25. ASSUME NEW t \in Players, PlayerStep(t) PROVE ShownAsFiled'
  BY <1>25 DEF PlayerStep
<1>26. ASSUME NEW p \in People, Enroll(p) PROVE ShownAsFiled'
  BY <1>26 DEF Enroll
<1>27. CASE UNCHANGED vars
  BY <1>27
<1> QED
  BY <1>1, <1>2, <1>3, <1>4, <1>5, <1>6, <1>7, <1>8, <1>9, <1>10, <1>11,
     <1>12, <1>13, <1>14, <1>15, <1>16, <1>17, <1>18, <1>19, <1>20, <1>21,
     <1>22, <1>23, <1>24, <1>25, <1>26, <1>27
     DEF Next, ReplyStep

(* When a turn is over the screen shows the reply that was filed, to whom  *)
(* it was filed under, but for the one cut short before its first word.    *)
THEOREM FiledIsShown == Spec => []ShownAsFiled
<1>1. Init => OnScreen /\ ShownAsFiled
  BY DEF Init, OnScreen, ShownAsFiled, Answered
<1> QED
  BY <1>1, NextOnScreen, NextShown, Spoken, Invariance, PTL DEF Spec

(***************************************************************************)
(* The acknowledgement                                                     *)
(***************************************************************************)
(* _last_turn_ts is no older than the last acknowledgement, unless the     *)
(* turn of that one has not got as far as assigning it.                    *)
Stamped ==
  /\ unstamped \/ sinceTurn <= sinceAck
  /\ pc \in {"ack", "stamp"} => sinceNow <= sinceAck

(* A turn that is acknowledged takes _last_turn_ts, unless it fails first. *)
LEMMA NextAck == IInv /\ AcksSpaced /\ Stamped /\ [Next]_vars => (AcksSpaced /\ Stamped)'
<1> SUFFICES ASSUME IInv, AcksSpaced, Stamped, [Next]_vars
             PROVE  (AcksSpaced /\ Stamped)'
  OBVIOUS
<1>1. /\ sinceTurn \in Nat /\ sinceAck \in Nat /\ sinceNow \in Nat /\ IdleAck \in Nat
      /\ sinceAck <= IdleAck + 1
  BY ConfigAssumption DEF IInv, ValuesOK, Ages
<1> USE <1>1 DEF AcksSpaced, Stamped, Goto, Begin, AckDue,
        vars, outside, replyVars, clockVars, heardVars, memoryVars, turnVars,
        streamVars, shownVars, micVars, voiceVars
<1>2. CASE Wake
  BY <1>2 DEF Wake
<1>3. CASE FollowUp
  BY <1>3 DEF FollowUp
<1>4. CASE Acknowledge
  BY <1>4 DEF Acknowledge
<1>5. CASE Stamp
  BY <1>5 DEF Stamp
<1>6. CASE Tick
  BY <1>6 DEF Tick
<1>7. CASE Capture
  BY <1>7 DEF Capture
<1>8. CASE Identify
  BY <1>8 DEF Identify
<1>9. CASE Transcribe
  BY <1>9 DEF Transcribe
<1>10. CASE Lookup
  BY <1>10 DEF Lookup, Heard
<1>11. CASE Arm
  BY <1>11 DEF Arm, Mic!Arm
<1>12. CASE Announce
  BY <1>12 DEF Announce
<1>13. CASE Sentence
  BY <1>13 DEF Sentence
<1>14. CASE EndOfStream
  BY <1>14 DEF EndOfStream
<1>15. CASE RevealPoll
  BY <1>15 DEF RevealPoll, Interrupt
<1>16. CASE RevealWord
  BY <1>16 DEF RevealWord
<1>17. CASE PlaybackOver
  BY <1>17 DEF PlaybackOver, LeavePlayback
<1>18. CASE JoinBriefly
  BY <1>18 DEF JoinBriefly
<1>19. CASE PlaybackPoll
  BY <1>19 DEF PlaybackPoll, Interrupt, LeavePlayback
<1>20. CASE Disarm
  BY <1>20 DEF Disarm, Mic!Disarm
<1>21. CASE Save
  BY <1>21 DEF Save
<1>22. CASE DeadlinePasses
  BY <1>22 DEF DeadlinePasses
<1>23. CASE Fail
  BY <1>23 DEF Fail, Heard
<1>24. CASE ReplyFail
  BY <1>24 DEF ReplyFail, AfterException
<1>25. CASE UserSpeaks
  BY <1>25 DEF UserSpeaks, Mic!Hear
<1>26. ASSUME NEW t \in Players, PlayerStep(t) PROVE (AcksSpaced /\ Stamped)'
  BY <1>26 DEF PlayerStep
<1>27. ASSUME NEW p \in People, Enroll(p) PROVE (AcksSpaced /\ Stamped)'
  BY <1>27 DEF Enroll
<1>28. CASE UNCHANGED vars
  BY <1>28
<1> QED
  BY <1>1, <1>2, <1>3, <1>4, <1>5, <1>6, <1>7, <1>8, <1>9, <1>10, <1>11,
     <1>12, <1>13, <1>14, <1>15, <1>16, <1>17, <1>18, <1>19, <1>20, <1>21,
     <1>22, <1>23, <1>24, <1>25, <1>26, <1>27, <1>28
     DEF Next, ReplyStep

(* Acknowledgements are more than idle_ack_seconds apart, unless the turn  *)
(* of the earlier one failed between speaking it and noting the time.      *)
THEOREM AcksAreSpaced == Spec => []AcksSpaced
<1>1. Init => AcksSpaced /\ Stamped
  BY ConfigAssumption DEF Init, AcksSpaced, Stamped
<1>2. IInv /\ (AcksSpaced /\ Stamped) /\ [Next]_vars => (AcksSpaced /\ Stamped)'
  BY NextAck
<1> QED
  BY <1>1, <1>2, Invariance, PTL DEF Spec

(***************************************************************************)
(* How long a turn takes                                                   *)
(***************************************************************************)
Stopping == {"idle", "ack", "stamp", "capture"}

(* The steps left are a number, and how many in each stage.                *)
LEMMA StepsAre ==
  ASSUME ValuesOK, StreamOK
  PROVE  /\ BeforeSentence \in Nat /\ BeforeSentence >= 3 /\ left \in Nat
         /\ Outstanding(person_id) \in 0..1 /\ Outstanding(said) \in 0..1
         /\ pc \in Stopping => StepsLeft = 0
         /\ pc = "hear" =>
              StepsLeft = 6 * MaxWords + 6 + Outstanding(person_id) + Outstanding(said)
         /\ pc = "arm" => StepsLeft = 6 * MaxWords + 5
         /\ pc = "armed" => StepsLeft = 6 * MaxWords + 4
         /\ pc = "stream" => StepsLeft = BeforeSentence
         /\ pc = "reveal" => StepsLeft = BeforeSentence + 2 * left + 3
         /\ pc = "word" => StepsLeft = BeforeSentence + 2 * left + 2
         /\ pc = "await" => StepsLeft = BeforeSentence + 2
         /\ pc = "join" => StepsLeft = BeforeSentence + 1
         /\ pc = "disarm" => StepsLeft = 2
         /\ pc \in {"wrap", "unwind"} => StepsLeft = 1
         /\ StepsLeft \in Nat
<1>1. BeforeSentence \in Nat /\ BeforeSentence >= 3 /\ left \in Nat /\ MaxWords \in Nat
  BY ConfigAssumption DEF StreamOK, BeforeSentence
<1>2. Outstanding(person_id) \in 0..1 /\ Outstanding(said) \in 0..1
  BY DEF Outstanding
<1>3. pc \in Stages
  BY DEF ValuesOK
<1> QED
  BY <1>1, <1>2, <1>3 DEF StepsLeft, Stages, Stopping
LEMMA TurnStepCounts ==
  ASSUME IInv, TurnStep, pc \notin Stopping, ~PlaysOn
  PROVE  StepsLeft' < StepsLeft
<1>1. /\ BeforeSentence \in Nat /\ BeforeSentence >= 3 /\ left \in Nat
      /\ Outstanding(person_id) \in 0..1 /\ Outstanding(said) \in 0..1
      /\ pc = "hear" =>
           StepsLeft = 6 * MaxWords + 6 + Outstanding(person_id) + Outstanding(said)
      /\ pc = "arm" => StepsLeft = 6 * MaxWords + 5
      /\ pc = "armed" => StepsLeft = 6 * MaxWords + 4
      /\ pc = "stream" => StepsLeft = BeforeSentence
      /\ pc = "reveal" => StepsLeft = BeforeSentence + 2 * left + 3
      /\ pc = "word" => StepsLeft = BeforeSentence + 2 * left + 2
      /\ pc = "await" => StepsLeft = BeforeSentence + 2
      /\ pc = "join" => StepsLeft = BeforeSentence + 1
      /\ pc = "disarm" => StepsLeft = 2
      /\ pc \in {"wrap", "unwind"} => StepsLeft = 1
  BY StepsAre DEF IInv
<1>2. /\ MaxWords \in Nat /\ streamed \in 0..MaxWords
      /\ BeforeSentence = 6 * (MaxWords - streamed) + 3
      /\ pc \in {"reveal", "word"} => left > 0
  BY ConfigAssumption DEF IInv, StreamOK, BeforeSentence, StageOK
<1>3. CASE Identify
  <2>1. /\ pc = "hear" /\ pc' = "hear" /\ said' = said
        /\ Outstanding(person_id) = 1 /\ Outstanding(person_id') = 0
    BY <1>3, NamesAssumption DEF Identify, Outstanding, IInv, ValuesOK, Persons
  <2>2. Outstanding(said') = Outstanding(said)
    BY <2>1
  <2>3. StepsLeft' = 6 * MaxWords + 6 + Outstanding(person_id') + Outstanding(said')
    BY <2>1 DEF StepsLeft, Outstanding
  <2> QED
    BY <1>1, <1>2, <2>1, <2>2, <2>3
<1>4. CASE Transcribe
  <2>1. /\ pc = "hear" /\ pc' = "hear" /\ person_id' = person_id
        /\ Outstanding(said) = 1 /\ Outstanding(said') = 0
    BY <1>4, NamesAssumption DEF Transcribe, Outstanding
  <2>2. Outstanding(person_id') = Outstanding(person_id)
    BY <2>1
  <2>3. StepsLeft' = 6 * MaxWords + 6 + Outstanding(person_id') + Outstanding(said')
    BY <2>1 DEF StepsLeft, Outstanding
  <2> QED
    BY <1>1, <1>2, <2>1, <2>2, <2>3
<1>5. CASE Lookup
  <2>1. pc = "hear" /\ pc' \in {"idle", "arm"}
    BY <1>5 DEF Lookup, Heard
  <2>2. StepsLeft' \in {0, 6 * MaxWords + 5}
    BY <2>1 DEF StepsLeft
  <2> QED
    BY <1>1, <1>2, <2>1, <2>2
<1>6. CASE Arm
  <2>1. pc = "arm" /\ pc' \in {"armed", "stream"} /\ streamed' = 0
    BY <1>6 DEF Arm, Goto
  <2>2. StepsLeft' \in {6 * MaxWords + 4, 6 * (MaxWords - 0) + 3}
    BY <2>1 DEF StepsLeft, BeforeSentence
  <2> QED
    BY <1>1, <1>2, <2>1, <2>2
<1>7. CASE Sentence
  <2>1. pc = "stream" /\ pc' = "reveal"
    BY <1>7 DEF Sentence, Goto
  <2>2. PICK n \in 1..(MaxWords - streamed) : left' = n /\ streamed' = streamed + n
    BY <1>7 DEF Sentence
  <2>3. StepsLeft' = 6 * (MaxWords - (streamed + n)) + 3 + 2 * n + 3
    BY <2>1, <2>2 DEF StepsLeft, BeforeSentence
  <2> QED
    BY <1>1, <1>2, <2>1, <2>2, <2>3
<1>8. CASE EndOfStream
  <2>1. pc = "stream" /\ pc' = "disarm" /\ StepsLeft' = 2
    BY <1>8 DEF EndOfStream, Goto, StepsLeft
  <2> QED
    BY <1>1, <2>1
<1>9. CASE RevealPoll
  <2>1. /\ pc = "reveal" /\ pc' \in {"await", "word"} /\ streamed' = streamed /\ left' = left
    BY <1>9 DEF RevealPoll, shownVars
  <2>2. StepsLeft' \in {BeforeSentence + 2, BeforeSentence + 2 * left + 2}
    BY <2>1 DEF StepsLeft, BeforeSentence
  <2> QED
    BY <1>1, <1>2, <2>1, <2>2
<1>10. CASE RevealWord
  <2>1. /\ pc = "word" /\ streamed' = streamed /\ left' = left - 1
        /\ pc' = "await" \/ pc' = "reveal"
    BY <1>10 DEF RevealWord, Goto
  <2>2. StepsLeft' \in {BeforeSentence + 2, BeforeSentence + 2 * (left - 1) + 3}
    BY <2>1 DEF StepsLeft, BeforeSentence
  <2> QED
    BY <1>1, <1>2, <2>1, <2>2
<1>11. CASE PlaybackOver
  <2>1. pc = "await" /\ pc' \in {"disarm", "stream"} /\ streamed' = streamed
    BY <1>11 DEF PlaybackOver, LeavePlayback, shownVars
  <2>2. StepsLeft' \in {2, BeforeSentence}
    BY <2>1 DEF StepsLeft, BeforeSentence
  <2> QED
    BY <1>1, <1>2, <2>1, <2>2
<1>12. CASE JoinBriefly
  <2>1. pc = "await" /\ pc' = "join" /\ streamed' = streamed
    BY <1>12 DEF JoinBriefly, Goto, replyVars, streamVars, shownVars
  <2>2. StepsLeft' = BeforeSentence + 1
    BY <2>1 DEF StepsLeft, BeforeSentence
  <2> QED
    BY <1>1, <1>2, <2>1, <2>2
<1>13. CASE PlaybackPoll
  <2>1. pc = "join" /\ pc' \in {"disarm", "stream"} /\ streamed' = streamed
    BY <1>13 DEF PlaybackPoll, LeavePlayback, shownVars, PlaysOn
  <2>2. StepsLeft' \in {2, BeforeSentence}
    BY <2>1 DEF StepsLeft, BeforeSentence
  <2> QED
    BY <1>1, <1>2, <2>1, <2>2
<1>14. CASE Disarm
  <2>1. \/ pc = "disarm" /\ pc' \in {"wrap", "idle"}
        \/ pc = "unwind" /\ pc' = "idle"
    BY <1>14 DEF Disarm, Goto
  <2>2. (pc' = "wrap" => StepsLeft' = 1) /\ (pc' = "idle" => StepsLeft' = 0)
    BY DEF StepsLeft
  <2> QED
    BY <1>1, <2>1, <2>2
<1>15. CASE Save
  <2>1. pc = "wrap" /\ pc' = "idle" /\ StepsLeft' = 0
    BY <1>15 DEF Save, Goto, StepsLeft
  <2> QED
    BY <1>1, <2>1
<1>16. CASE Fail
  <2>1. pc \in {"hear", "arm", "armed", "wrap"} /\ pc' = "idle" /\ StepsLeft' = 0
    BY <1>16 DEF Fail, Heard, StepsLeft, Stopping
  <2> QED
    BY <1>1, <1>2, <2>1
<1>17. CASE ReplyFail
  <2>1. pc \in {"stream", "reveal", "word", "join"} /\ pc' = "unwind" /\ StepsLeft' = 1
    BY <1>17 DEF ReplyFail, AfterException, StepsLeft
  <2> QED
    BY <1>1, <1>2, <2>1
<1>18. CASE Announce
  <2>1. pc = "armed" /\ pc' = "stream" /\ streamed' = streamed
    BY <1>18 DEF Announce, Goto, replyVars, streamVars, shownVars
  <2>2. StepsLeft' = BeforeSentence
    BY <2>1 DEF StepsLeft, BeforeSentence
  <2> QED
    BY <1>1, <1>2, <2>1, <2>2
<1> QED
  BY <1>3, <1>4, <1>5, <1>6, <1>7, <1>8, <1>9, <1>10, <1>11, <1>12, <1>13, <1>14, <1>15,
     <1>16, <1>17, <1>18 DEF TurnStep, ReplyStep

(* The user, the devices, the clock and an enrolment leave the turn alone. *)
LEMMA OthersKeepSteps ==
  ASSUME IInv, [Next]_vars, ~TurnStep, pc \notin Stopping
  PROVE  StepsLeft' = StepsLeft
<1>1. /\ ~Wake /\ ~FollowUp /\ ~Acknowledge /\ ~Stamp /\ ~Capture
  BY DEF Wake, FollowUp, Begin, Acknowledge, Stamp, Capture, Goto, Stopping
<1>2. UNCHANGED <<pc, person_id, said, streamed, left>>
  <2>1. CASE Tick
    BY <2>1 DEF Tick, heardVars, replyVars, streamVars, shownVars
  <2>2. CASE DeadlinePasses
    BY <2>2 DEF DeadlinePasses, outside, heardVars, shownVars
  <2>3. CASE UserSpeaks
    BY <2>3 DEF UserSpeaks, outside, heardVars, streamVars, shownVars
  <2>4. ASSUME NEW t \in Players, PlayerStep(t)
        PROVE  UNCHANGED <<pc, person_id, said, streamed, left>>
    BY <2>4 DEF PlayerStep, outside, heardVars, streamVars, shownVars
  <2>5. ASSUME NEW p \in People, Enroll(p)
        PROVE  UNCHANGED <<pc, person_id, said, streamed, left>>
    BY <2>5 DEF Enroll, heardVars, replyVars, streamVars, shownVars
  <2>6. CASE UNCHANGED vars
    BY <2>6 DEF vars, outside, heardVars, replyVars, streamVars, shownVars
  <2> QED
    BY <1>1, <2>1, <2>2, <2>3, <2>4, <2>5, <2>6 DEF Next, TurnStep
<1> QED
  BY <1>2 DEF StepsLeft, BeforeSentence, Outstanding

(* With the clip in hand a turn of any length runs out of steps, whatever  *)
(* fails, hangs or is said in between: the safety half of TurnsReturn.     *)
THEOREM TurnsWindDown == Spec => TurnWindsDown
<1> DEFINE Down == pc \notin {"idle", "ack", "stamp", "capture"} /\ ~PlaysOn =>
                     /\ StepsLeft' <= StepsLeft
                     /\ TurnStep => StepsLeft' < StepsLeft
<1>1. IInv /\ [Next]_vars => [Down]_vars
  <2> SUFFICES ASSUME IInv, [Next]_vars, pc \notin Stopping, ~PlaysOn
               PROVE  StepsLeft' <= StepsLeft /\ (TurnStep => StepsLeft' < StepsLeft)
    BY DEF Stopping
  <2>1. StepsLeft \in Nat /\ StepsLeft' \in Nat
    <3>1. StepsLeft \in Nat
      BY StepsAre DEF IInv
    <3>2. ValuesOK' /\ StreamOK'
      BY NextValues, NextStream
    <3>3. BeforeSentence' \in Nat /\ left' \in Nat /\ MaxWords \in Nat
      <4>1. streamed' \in 0..MaxWords /\ left' \in 0..streamed' /\ MaxWords \in Nat
        BY <3>2, ConfigAssumption DEF StreamOK
      <4>2. MaxWords - streamed' \in Nat
        <5>1. \A m \in Nat : \A n \in 0..m : m - n \in Nat
          OBVIOUS
        <5> QED
          BY <4>1, <5>1, Zenon
      <4>3. BeforeSentence' \in Nat
        <5>1. \A n \in Nat : 6 * n + 3 \in Nat
          OBVIOUS
        <5> QED
          BY <4>2, <5>1 DEF BeforeSentence
      <4>4. left' \in Nat
        BY <4>1
      <4> QED
        BY <4>1, <4>3, <4>4
    <3>4. Outstanding(person_id') \in Nat /\ Outstanding(said') \in Nat
      BY DEF Outstanding
    <3> DEFINE b == BeforeSentence'
               l == left'
               o == Outstanding(person_id')
               u == Outstanding(said')
    <3>5. StepsLeft' \in {6 * MaxWords + 6 + o + u, 6 * MaxWords + 5, 6 * MaxWords + 4, b,
                          b + 2 * l + 3, b + 2 * l + 2, b + 2, b + 1, 2, 1, 0}
      BY DEF StepsLeft, Outstanding
    <3> HIDE DEF b, l, o, u
    <3>6. b \in Nat /\ l \in Nat /\ o \in Nat /\ u \in Nat
      BY <3>3, <3>4 DEF b, l, o, u
    <3>7. StepsLeft' \in Nat
      BY <3>3, <3>5, <3>6
    <3> QED
      BY <3>1, <3>7
  <2>2. CASE TurnStep
    BY <2>1, <2>2, TurnStepCounts
  <2>3. CASE ~TurnStep
    BY <2>1, <2>3, OthersKeepSteps
  <2> QED
    BY <2>2, <2>3
<1> QED
  BY <1>1, Invariance, PTL DEF Spec, TurnWindsDown
===============================================================================
