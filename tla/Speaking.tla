------------------------------- MODULE Speaking -------------------------------
(***************************************************************************)
(* _stream_reply up to the player: every sentence iter_sentences yields is *)
(* synthesized before the next is asked for, while the console may pick    *)
(* another voice.                                                          *)
(***************************************************************************)
EXTENDS Sentences, TtsVoice

speakingVars == <<sentenceVars, voiceVars>>

SpeakingInit == SentencesInit /\ VoiceInit

Streaming == Iterate /\ UNCHANGED voiceVars

Synthesizing == Yielded /\ Synthesize /\ UNCHANGED sentenceVars

\* The loop asks for the next sentence.
Spoken == synth = "done" /\ Leave /\ Resume

\* The generator is exhausted, or left behind by a barge-in or an error.
TurnOver ==
  /\ NextReply
  /\ IF synth = "idle" THEN reader = "closed" /\ UNCHANGED voiceVars ELSE Leave

PickingVoice == SetVoice /\ UNCHANGED sentenceVars

SpeakingNext == Streaming \/ Synthesizing \/ Spoken \/ TurnOver \/ PickingVoice
SpeakingSpec == SpeakingInit /\ [][SpeakingNext]_speakingVars
===============================================================================
