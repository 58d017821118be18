------------------------------- MODULE Session --------------------------------
(***************************************************************************)
(* A turn's dealings with the microphone and with the settings: wait for   *)
(* the wake word (wakeword_oww.py), capture an utterance (audio_vad.py),   *)
(* identify the speaker, reply while the barge-in detector listens.  Each  *)
(* of the three opens a MicSource stream of its own.  Beside the turn the  *)
(* console tunes the identification.                                       *)
(* A definition Bug... is a slip the definition after it could have;       *)
(* nothing uses it but the tests of the properties.                        *)
(***************************************************************************)
EXTENDS VadBargeIn, SpeakerId, Sequences

CONSTANTS
  SilenceLimit,   \* silence_limit
  MaxFrames       \* bound on the frames of one utterance

ASSUME CaptureAssumption == SilenceLimit \in Nat \ {0} /\ MaxFrames \in Nat

VARIABLES
  pc,         \* the turn thread: "waiting", "capturing", "identifying", "replying"
  heard,      \* per frame of the capture: speech?
  clip,       \* buf: the numbers of the frames in it
  silent,     \* silent frames since the last with speech
  said        \* the transcript: "pending", "words", or "nothing" to answer

captureVars == <<heard, clip, silent>>
sessionVars == <<pc, captureVars, said, vars, speakerVars>>

SessionInit ==
  /\ Init /\ SpeakerInit
  /\ pc = "waiting" /\ heard = << >> /\ clip = << >> /\ silent = 0 /\ said = "pending"

Turns(from, to) == pc = from /\ pc' = to

\* Opens the stream anew: nothing was heard yet.
Listens == heard' = << >> /\ clip' = << >> /\ silent' = 0 /\ said' = "pending"

Wake ==
  /\ Turns("waiting", "capturing") /\ Listens
  /\ UNCHANGED <<vars, speakerVars>>

Started == clip # << >>
BugSilence(count) == count + 1
Silence(count) == IF Started THEN count + 1 ELSE count

CaptureFrame ==
  /\ pc = "capturing" /\ silent < SilenceLimit /\ Len(heard) < MaxFrames
  /\ \E is_speech \in BOOLEAN :
       /\ heard' = Append(heard, is_speech)
       /\ clip' = IF is_speech THEN Append(clip, Len(heard) + 1) ELSE clip
       /\ silent' = IF is_speech THEN 0 ELSE Silence(silent)
  /\ UNCHANGED <<pc, said, vars, speakerVars>>

Captured ==
  /\ silent = SilenceLimit /\ Turns("capturing", "identifying")
  /\ UNCHANGED <<captureVars, said, vars, speakerVars>>

Identifying ==
  /\ pc = "identifying" /\ Identify
  /\ UNCHANGED <<pc, captureVars, said, vars>>

\* Noise, silence and an exception leave nothing to answer.
Transcripts == {"words", "nothing"}
\* At the same time, on the turn thread or on the one thread MLX is bound to.
Transcribe ==
  /\ pc = "identifying" /\ said = "pending"
  /\ said' \in Transcripts
  /\ UNCHANGED <<pc, captureVars, vars, speakerVars>>

\* The reply is streamed from here to the end of the turn.
Answer ==
  /\ said = "words" /\ identify = "known"
  /\ Turns("identifying", "replying") /\ Returned /\ Listens
  /\ UNCHANGED vars

Reply ==
  /\ pc = "replying" /\ (ArmClear \/ ArmReady \/ ArmStart \/ Disarm)
  /\ UNCHANGED <<pc, captureVars, said, speakerVars>>

\* A step of the turn raised, or nothing was said; the pool awaits both.
GiveUp ==
  /\ \/ Turns("capturing", "waiting") /\ Listens /\ UNCHANGED speakerVars
     \/ /\ said = "nothing" \/ (said = "words" /\ identify = "failed")
        /\ Turns("identifying", "waiting") /\ Listens /\ Returned
  /\ UNCHANGED vars

\* A barge-in that was polled waives the wake word.
Over ==
  /\ pc = "replying" /\ Disarmed
  /\ pc' \in {"waiting"} \cup (IF speaking THEN {"capturing"} ELSE {})
  /\ Listens
  /\ UNCHANGED speakerVars

MicThread(l) == Listen(l) /\ UNCHANGED <<pc, captureVars, said, speakerVars>>
Tuning == Tune /\ UNCHANGED <<pc, captureVars, said, vars>>

SessionNext ==
  \/ Wake \/ CaptureFrame \/ Captured \/ Identifying \/ Transcribe \/ Answer
  \/ Reply \/ Over \/ GiveUp
  \/ \E l \in Listeners : MicThread(l)
  \/ Tuning

SessionSpec == SessionInit /\ [][SessionNext]_sessionVars
SessionFairSpec ==
  SessionSpec /\ WF_sessionVars(Over) /\ \A l \in Listeners : WF_sessionVars(MicThread(l))

-------------------------------------------------------------------------------
SessionTypeOK ==
  /\ TypeOK /\ SpeakerTypeOK
  /\ pc \in {"waiting", "capturing", "identifying", "replying"}
  /\ heard \in Seq(BOOLEAN) /\ Len(heard) <= MaxFrames
  /\ clip \in Seq(1..MaxFrames) /\ silent \in 0..SilenceLimit
  /\ said \in {"pending"} \cup Transcripts

(* The three users of the microphone never have two streams open at once:  *)
(* no detector thread is left when the wake word is waited for or an       *)
(* utterance recorded, right after an interruption included.               *)
OneMicrophone ==
  pc \in {"waiting", "capturing"} => \A l \in Listeners : ~Alive(l)

(* The clip that is identified and transcribed holds the speech of the     *)
(* whole capture in order, ends with the first pause of silence_limit      *)
(* frames after its first word, and is not empty.                          *)
Pause(k) ==
  \A i \in (k - SilenceLimit + 1)..k : i \in DOMAIN heard /\ ~heard[i]
ClipComplete ==
  pc = "identifying" =>
    /\ Started
    /\ {clip[i] : i \in DOMAIN clip} = {i \in DOMAIN heard : heard[i]}
    /\ \A i \in 1..(Len(clip) - 1) : clip[i] < clip[i + 1]
    /\ \A k \in clip[1]..Len(heard) : Pause(k) <=> k = Len(heard)
===============================================================================
