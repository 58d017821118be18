----------------------------- MODULE Orchestrator -----------------------------
(***************************************************************************)
(* core/orchestrator.py: one household turn after another.  run_once waits *)
(* for the wake word (or not, right after a barge-in), acknowledges it,    *)
(* captures a clip, identifies the speaker while it transcribes, streams   *)
(* the reply sentence by sentence -- each sentence's audio on a thread of  *)
(* its own while its words are revealed -- and files the turn.  The caller *)
(* (app.main, or ConsoleServer._run_turn) catches whatever a turn raises   *)
(* and starts the next one.  Beside the turn thread run the pool thread    *)
(* that identifies, the playback threads, the barge-in detector and the    *)
(* enrolment thread.                                                       *)
(* A definition Bug... is a slip the definition after it could have;       *)
(* nothing uses it but the tests of the properties.                        *)
(***************************************************************************)
EXTENDS Integers, Sequences

CONSTANTS
  People,         \* ids somebody may enroll under
  GUEST,          \* the id of everybody else
  Utterances,     \* transcripts with words in them
  Noise,          \* a transcript without (has_speech is false of it)
  Pending,        \* a result that is not there yet
  Failed,         \* a result that was an exception
  Players,        \* names for playback threads
  NoPlayer,
  MaxStuck,       \* bound on hung playback threads
  MaxWords,       \* bound on the words of one reply
  HistoryLimit,   \* _HISTORY_LIMIT
  IdleAck,        \* idle_ack_seconds, in ticks
  WakeAck,        \* is a wake_ack configured?
  BargeIn         \* is a barge_in detector configured?

Persons == People \cup {GUEST}

ASSUME ConfigAssumption ==
  /\ WakeAck \in BOOLEAN /\ BargeIn \in BOOLEAN
  /\ IdleAck \in Nat /\ MaxWords \in Nat /\ HistoryLimit \in Nat \ {0}

ASSUME NamesAssumption ==
  /\ {Pending, Failed} \cap (Persons \cup Utterances \cup {Noise}) = {}
  /\ Pending # Failed /\ Noise \notin Utterances
  /\ NoPlayer \notin Players

VARIABLES
  pc,           \* where the turn thread is
  skip_wake,    \* _skip_wake
  person_id,    \* first the pool's future, then who the turn is filed under
  said,         \* the transcript
  pairs,        \* the history handed to the model
  reply,        \* the words revealed so far; word n is the n-th of the stream
  streamed,     \* how many words the model has yielded
  left,         \* how many words of the current sentence are unrevealed
  player,       \* the current sentence's thread
  late,         \* the 30 s cap on waiting for it has passed
  barge,        \* the barge event of _stream_reply
  sinceTurn,    \* ticks since _last_turn_ts, never more than IdleAck + 1
  sinceNow,     \* ticks since the local `now` of run_once, as far
  display,      \* the last RenderState
  enrolled,     \* people with a profile
  recent,       \* recent[p]: what recent_turns(p, HistoryLimit) returns
  armed, speaking,    \* the detector
  players,            \* the playback threads
  (* History variables: no step reads them. *)
  outcome,      \* how the last turn ended
  sinceAck,     \* ticks since the wake word that was last acknowledged
  unstamped,    \* _last_turn_ts was not assigned since that acknowledgement
  unannounced,  \* the detector was left armed by a turn that failed
  strays,       \* threads nobody waits for any more
  overrun       \* words revealed after the detector heard the user

Mic == INSTANCE Detector
Voice == INSTANCE Playback
C == INSTANCE Conversation WITH
       phase <- IF pc = "idle" THEN "waiting" ELSE "turn",
       invited <- skip_wake

clockVars  == <<sinceTurn, sinceNow, sinceAck, unstamped>>
heardVars  == <<person_id, said, pairs>>
shownVars  == <<reply, streamed, left, player, overrun>>
streamVars == <<shownVars, late, barge>>
micVars    == <<armed, speaking, unannounced>>
voiceVars  == <<players, strays>>
memoryVars == <<enrolled, recent>>
turnVars   == <<skip_wake, outcome>>
\* What a reply leaves alone, and what everything before it leaves alone.
outside == <<clockVars, heardVars, memoryVars, turnVars>>
replyVars == <<streamVars, micVars, voiceVars, display>>
vars == <<pc, outside, replyVars>>

Goto(from, to) == pc = from /\ pc' = to

(***************************************************************************)
(* Waking                                                                  *)
(***************************************************************************)
\* `None` as _last_turn_ts acts like a turn longer ago than idle_ack_seconds.
BugAckDue == WakeAck
AckDue == WakeAck /\ sinceTurn > IdleAck

Begin ==
  /\ Goto("idle", IF AckDue THEN "ack" ELSE "stamp")
  /\ sinceNow' = 0
  /\ UNCHANGED <<sinceTurn, sinceAck, unstamped, heardVars, memoryVars, outcome,
                 replyVars>>

Wake ==
  /\ ~skip_wake
  /\ Begin
  /\ UNCHANGED skip_wake

BugFollowUp == skip_wake /\ Begin /\ UNCHANGED skip_wake
FollowUp ==
  /\ skip_wake
  /\ skip_wake' = FALSE
  /\ Begin

\* speak() plays on the turn thread; `now` was read before it.
Acknowledge ==
  /\ Goto("ack", "stamp")
  /\ Voice!Stop
  /\ sinceAck' = sinceNow
  /\ unstamped' = TRUE
  /\ UNCHANGED <<sinceTurn, sinceNow, heardVars, memoryVars, turnVars,
                 streamVars, micVars, strays, display>>

\* _last_turn_ts = now
Stamp ==
  /\ Goto("stamp", "capture")
  /\ sinceTurn' = sinceNow
  /\ unstamped' = FALSE
  /\ UNCHANGED <<sinceNow, sinceAck, heardVars, memoryVars, turnVars, replyVars>>

\* Time matters only to the acknowledgement.
Tick ==
  LET after(t) == IF t > IdleAck THEN t ELSE t + 1
  IN  /\ WakeAck
      /\ sinceTurn' = after(sinceTurn)
      /\ sinceNow' = after(sinceNow)
      /\ sinceAck' = after(sinceAck)
      /\ UNCHANGED <<pc, unstamped, heardVars, memoryVars, turnVars, replyVars>>

(***************************************************************************)
(* Hearing                                                                 *)
(***************************************************************************)
Capture ==
  /\ Goto("capture", "hear")
  /\ person_id' = Pending
  /\ said' = Pending
  /\ UNCHANGED <<clockVars, pairs, memoryVars, turnVars, replyVars>>

\* speaker.identify on the pool thread: somebody enrolled by now, or nobody.
Identify ==
  /\ pc = "hear" /\ person_id = Pending
  /\ person_id' \in enrolled \cup {GUEST, Failed}
  /\ UNCHANGED <<pc, clockVars, said, pairs, memoryVars, turnVars, replyVars>>

\* stt.transcribe on the turn thread.
Transcribe ==
  /\ pc = "hear" /\ said = Pending
  /\ said' \in Utterances \cup {Noise, Failed}
  /\ UNCHANGED <<pc, clockVars, person_id, pairs, memoryVars, turnVars,
                 replyVars>>

\* Leaving the pool waits for both.
Heard == pc = "hear" /\ person_id # Pending /\ said # Pending

\* A guest's turns are filed, and never read back.
BugHistoryOf(p) == recent[p]
HistoryOf(p) == IF p = GUEST THEN << >> ELSE recent[p]

Lookup ==
  LET known == person_id # GUEST /\ person_id \in enrolled
  IN  /\ Heard /\ person_id # Failed /\ said # Failed
      /\ person_id' = IF known THEN person_id ELSE GUEST
      /\ pairs' = HistoryOf(person_id')
      /\ IF said = Noise
         THEN pc' = "idle" /\ outcome' = "ignored"
         ELSE pc' = "arm" /\ UNCHANGED outcome
      /\ UNCHANGED <<clockVars, said, memoryVars, skip_wake, replyVars>>

(***************************************************************************)
(* Replying                                                                *)
(***************************************************************************)
Arm ==
  /\ Goto("arm", IF BargeIn THEN "armed" ELSE "stream")
  /\ IF BargeIn THEN Mic!Arm ELSE UNCHANGED <<armed, speaking>>
  /\ unannounced' = FALSE
  /\ reply' = << >> /\ streamed' = 0 /\ left' = 0
  /\ player' = NoPlayer /\ late' = FALSE /\ barge' = FALSE /\ overrun' = 0
  /\ UNCHANGED <<outside, voiceVars, display>>

\* emit("barge_armed"), with the detector at work and the try not entered.
Announce ==
  /\ Goto("armed", "stream")
  /\ UNCHANGED <<outside, replyVars>>

\* The model completes a sentence of n words; it is synthesized and a thread
\* starts to play it.
Sentence ==
  /\ Goto("stream", "reveal")
  /\ \E n \in 1..(MaxWords - streamed) : left' = n /\ streamed' = streamed + n
  /\ \E t \in Players : Voice!Start(t) /\ player' = t /\ strays' = strays \ {t}
  /\ UNCHANGED <<outside, reply, late, barge, overrun, micVars, display>>

EndOfStream ==
  /\ Goto("stream", "disarm")
  /\ UNCHANGED <<outside, replyVars>>

\* watch(): the first poll that finds the user talking stops the audio.
BugWatched == BargeIn /\ barge
Watched == BargeIn /\ (barge \/ speaking)

Interrupt ==
  /\ barge' = TRUE
  /\ IF barge THEN UNCHANGED players ELSE Voice!Stop

\* paced_reveal polls before it renders each word.
RevealPoll ==
  /\ pc = "reveal"
  /\ IF Watched
     THEN pc' = "await" /\ late' = FALSE /\ Interrupt
     ELSE pc' = "word" /\ UNCHANGED <<late, barge, players>>
  /\ UNCHANGED <<outside, shownVars, micVars, strays, display>>

Shown(text) == [person |-> person_id, text |-> text]

RevealWord ==
  LET shown == Append(reply, streamed - left + 1)
  IN  /\ IF left = 1 THEN Goto("word", "await") /\ late' = FALSE
                     ELSE Goto("word", "reveal") /\ UNCHANGED late
      /\ reply' = shown
      /\ display' = Shown(shown)
      /\ left' = left - 1
      /\ overrun' = IF speaking THEN overrun + 1 ELSE overrun
      /\ UNCHANGED <<outside, streamed, player, barge, micVars, voiceVars>>

\* The threads nobody waits for once the user or the clock has cut this one.
GivenUp ==
  strays \cup IF (barge' \/ late) /\ players'[player] # "done" THEN {player} ELSE {}

\* On to the next sentence, or out of the loop.
BugLeavePlayback == pc' = "stream" /\ strays' = GivenUp
LeavePlayback ==
  /\ pc' = IF barge' THEN "disarm" ELSE "stream"
  /\ strays' = GivenUp

\* _await_playback without a detector is one join; with one, a loop that
\* looks whether the thread lives (here) and then joins briefly and polls.
BugPlayedOut == TRUE
PlayedOut == ~Voice!Live(player) \/ (~BargeIn /\ late)

PlaybackOver ==
  /\ pc = "await"
  /\ PlayedOut
  /\ UNCHANGED <<outside, shownVars, late, barge, micVars, players, display>>
  /\ LeavePlayback

JoinBriefly ==
  /\ Goto("await", "join")
  /\ BargeIn /\ Voice!Live(player)
  /\ UNCHANGED <<outside, replyVars>>

PlaybackPoll ==
  /\ pc = "join"
  /\ IF Watched THEN Interrupt ELSE UNCHANGED <<barge, players>>
  /\ IF Watched \/ late THEN LeavePlayback ELSE pc' = "await" /\ UNCHANGED strays
  /\ UNCHANGED <<outside, shownVars, late, micVars, display>>

BugDeadlinePasses == FALSE /\ UNCHANGED vars
DeadlinePasses ==
  /\ pc \in {"await", "join"} /\ ~late
  /\ late' = TRUE
  /\ UNCHANGED <<pc, outside, shownVars, barge, micVars, voiceVars, display>>

\* The finally clause: "unwind" is the way of an exception through it.  The
\* detector's error is emitted last, which may raise in its turn.
Disarm ==
  /\ \/ Goto("disarm", "wrap") /\ UNCHANGED outcome
     \/ /\ pc = "unwind" \/ (pc = "disarm" /\ BargeIn)
        /\ pc' = "idle" /\ outcome' = "failed"
  /\ IF BargeIn THEN Mic!Disarm ELSE UNCHANGED <<armed, speaking>>
  /\ UNCHANGED <<clockVars, heardVars, memoryVars, skip_wake,
                 streamVars, unannounced, voiceVars, display>>

(***************************************************************************)
(* Filing                                                                  *)
(***************************************************************************)
\* `rendered` is set once a sentence's reveal has returned, interrupted or not.
BugRefreshed == display
Refreshed == IF streamed > 0 THEN display ELSE Shown(reply)

BugTurn ==
  [person_id |-> person_id, said |-> said, replied |-> [i \in 1..streamed |-> i]]
Turn == [person_id |-> person_id, said |-> said, replied |-> reply]

\* What the observer does when it is told changes nothing any more: if emit
\* raises here the turn is filed and the next wake word waived all the same.
Save ==
  /\ Goto("wrap", "idle")
  /\ display' = Refreshed
  /\ recent' = [recent EXCEPT ![person_id] = C!Remember(@, Turn)]
  /\ skip_wake' = barge
  /\ outcome' = IF barge THEN "interrupted" ELSE "replied"
  /\ UNCHANGED <<clockVars, heardVars, enrolled,
                 streamVars, micVars, voiceVars>>

(***************************************************************************)
(* Exceptions                                                              *)
(***************************************************************************)
\* Before _stream_reply's try and after it nothing is cleaned up: not the time
\* stamp after the acknowledgement was spoken, nor the detector that is armed.
Fail ==
  /\ \/ pc = "idle" /\ ~skip_wake           \* wake.wait
     \/ pc \in {"ack", "stamp", "capture", "arm", "armed"}
     \/ Heard                               \* the pool, or reading the memory
     \/ pc = "wrap"                         \* rendering or save_turn
  /\ pc' = "idle"
  /\ outcome' = "failed"
  /\ unannounced' = (unannounced \/ pc = "armed")
  /\ display' \in IF pc = "wrap" THEN {display, Refreshed} ELSE {display}
  /\ UNCHANGED <<clockVars, heardVars, memoryVars, skip_wake,
                 streamVars, armed, speaking, voiceVars>>

\* The stream, the synthesis, a render or tts.stop raises.
BugAfterException == "idle"
AfterException == "unwind"

ReplyFail ==
  /\ pc \in {"stream", "reveal", "word", "join"}
  /\ pc' = AfterException
  /\ strays' = {t \in Players : Voice!Live(t)}
  /\ UNCHANGED <<outside, streamVars, micVars, players, display>>

(***************************************************************************)
(* The others                                                              *)
(***************************************************************************)
UserSpeaks ==
  /\ Mic!Hear
  /\ UNCHANGED <<pc, outside, streamVars, unannounced, voiceVars, display>>

PlayerStep(t) ==
  /\ Voice!Step(t)
  /\ strays' = IF players'[t] = "done" THEN strays \ {t} ELSE strays
  /\ UNCHANGED <<pc, outside, streamVars, micVars, display>>

Enroll(p) ==
  /\ enrolled' = enrolled \cup {p}
  /\ UNCHANGED <<pc, clockVars, heardVars, recent, turnVars, replyVars>>

(***************************************************************************)
(* The specification                                                       *)
(***************************************************************************)
Init ==
  /\ pc = "idle" /\ skip_wake = FALSE /\ outcome = "none"
  /\ sinceTurn = IdleAck + 1 /\ sinceNow = IdleAck + 1 /\ sinceAck = IdleAck + 1
  /\ person_id = GUEST /\ said = Noise /\ pairs = << >>
  /\ reply = << >> /\ streamed = 0 /\ left = 0 /\ player = NoPlayer
  /\ late = FALSE /\ barge = FALSE /\ overrun = 0
  /\ unstamped = FALSE /\ unannounced = FALSE
  /\ Mic!Init /\ Voice!Init /\ strays = {}
  /\ enrolled \in SUBSET People
  /\ recent = [p \in Persons |-> << >>]
  /\ display = [person |-> GUEST, text |-> << >>]

ReplyStep ==
  \/ Arm \/ Announce \/ Sentence \/ EndOfStream \/ RevealPoll \/ RevealWord
  \/ PlaybackOver \/ JoinBriefly \/ PlaybackPoll \/ Disarm \/ Save

Next ==
  \/ Wake \/ FollowUp \/ Acknowledge \/ Stamp \/ Tick
  \/ Capture \/ Identify \/ Transcribe \/ Lookup
  \/ ReplyStep \/ DeadlinePasses
  \/ Fail \/ ReplyFail
  \/ UserSpeaks
  \/ \E t \in Players : PlayerStep(t)
  \/ \E p \in People : Enroll(p)

Spec == Init /\ [][Next]_vars

(***************************************************************************)
(* The libraries behind identify, transcribe and the model's stream return *)
(* or raise, the turn thread runs on, and the cap on playback is a clock.  *)
(* Nothing is assumed of the user (wake word, capture, speech) nor of the  *)
(* audio device.                                                           *)
(***************************************************************************)
FairSpec ==
  /\ Spec
  /\ WF_vars(Identify) /\ WF_vars(Transcribe)
  /\ WF_vars(Lookup \/ (Heard /\ Fail))
  /\ WF_vars(ReplyStep) /\ WF_vars(DeadlinePasses)
===============================================================================
