------------------------------- MODULE TtsVoice -------------------------------
(***************************************************************************)
(* The voice of tts_piper.py (Reloads) and tts_kokoro.py: synth loads the  *)
(* model on the turn thread if there is none cached; set_voice, called on  *)
(* the console's event loop, assigns the voice and, for Piper, then drops  *)
(* the cached model.                                                       *)
(* A definition Bug... is a slip the definition after it could have;       *)
(* nothing uses it but the tests of the properties.                        *)
(***************************************************************************)
CONSTANTS
  Voices,
  AllVoices,   \* Kokoro's one model
  NoModel,
  Reloads      \* is the model that of one voice?

ASSUME VoiceAssumption ==
  NoModel \notin Voices \cup {AllVoices} /\ AllVoices \notin Voices /\ Reloads \in BOOLEAN

VARIABLES
  voice, model,
  dropping,    \* set_voice has assigned the voice and not yet dropped the model
  disk,        \* models in the download cache
  broken,      \* those among them whose download broke off
  synth,       \* "idle", "fetching", "loading", "ready", "done" or "failed"
  loading,     \* the model the sentence wants to load
  used,        \* the voice the sentence was synthesized with
  (* History variables: no step reads them. *)
  changed,     \* did set_voice run while the sentence was synthesized?
  raced        \* was the model last dropped while another voice's was loaded?

pickVars == <<voice, dropping>>
synthVars == <<disk, broken, synth, loading, used>>
voiceVars == <<pickVars, model, synthVars, changed, raced>>

ModelOf(v) == IF Reloads THEN v ELSE AllVoices
Loading == synth \in {"fetching", "loading"}

\* warmup() has loaded the default voice.
VoiceInit ==
  /\ voice \in Voices /\ model = ModelOf(voice) /\ disk = {model} /\ broken = {}
  /\ dropping = FALSE /\ synth = "idle" /\ loading = NoModel /\ used = NoModel
  /\ changed = FALSE /\ raced = FALSE

PickVoice(v) ==
  /\ ~dropping
  /\ voice' = v /\ dropping' = Reloads
  /\ changed' = (synth # "idle")
  /\ UNCHANGED <<model, synthVars, raced>>

BugDropModel ==
  dropping /\ dropping' = FALSE /\ UNCHANGED <<voice, model, synthVars, changed, raced>>
DropModel ==
  /\ dropping /\ dropping' = FALSE
  /\ model' = NoModel
  /\ changed' = (synth # "idle")
  /\ raced' = (Loading /\ loading # ModelOf(voice))
  /\ UNCHANGED <<voice, synthVars>>

SynthGoes(from, to) == synth = from /\ synth' = to /\ UNCHANGED pickVars

Begin ==
  /\ SynthGoes("idle", IF model # NoModel THEN "ready"
                       ELSE IF ModelOf(voice) \in disk THEN "loading" ELSE "fetching")
  /\ loading' = ModelOf(voice)
  /\ changed' = dropping
  /\ UNCHANGED <<model, disk, broken, used, raced>>

\* The path was that of the voice then; the download is of the voice now.
Fetch ==
  /\ disk' = disk \cup {ModelOf(voice)}
  /\ \/ SynthGoes("fetching", "loading") /\ UNCHANGED broken
     \/ SynthGoes("fetching", "failed") /\ broken' = broken \cup {ModelOf(voice)}
  /\ UNCHANGED <<model, loading, used, changed, raced>>

\* A file that is there is taken for the model.
Load ==
  /\ IF loading \in disk \ broken
     THEN SynthGoes("loading", "ready") /\ model' = loading
     ELSE SynthGoes("loading", "failed") /\ UNCHANGED model
  /\ UNCHANGED <<disk, broken, loading, used, changed, raced>>

Use ==
  /\ IF model = NoModel
     THEN SynthGoes("ready", "failed") /\ UNCHANGED used
     ELSE SynthGoes("ready", "done") /\ used' = IF Reloads THEN model ELSE voice
  /\ UNCHANGED <<model, disk, broken, loading, changed, raced>>

\* The sentence has been spoken, or the turn has reported the error.
Leave ==
  /\ \E s \in {"done", "failed"} : SynthGoes(s, "idle")
  /\ loading' = NoModel /\ used' = NoModel /\ changed' = FALSE
  /\ UNCHANGED <<model, disk, broken, raced>>

SetVoice == (\E v \in Voices : PickVoice(v)) \/ DropModel
Synthesize == Begin \/ Fetch \/ Load \/ Use

VoiceSpec == VoiceInit /\ [][SetVoice \/ Synthesize \/ Leave]_voiceVars

-------------------------------------------------------------------------------
Models == {ModelOf(v) : v \in Voices}
VoiceTypeOK ==
  /\ voice \in Voices /\ model \in Models \cup {NoModel} /\ dropping \in BOOLEAN
  /\ disk \subseteq Models /\ broken \subseteq disk
  /\ synth \in {"idle", "fetching", "loading", "ready", "done", "failed"}
  /\ loading \in Models \cup {NoModel} /\ used \in Voices \cup {NoModel}
  /\ changed \in BOOLEAN /\ raced \in BOOLEAN

(* set_voice: "drop the cached model so the next utterance reloads (and,   *)
(* on the default synth, downloads) under the new voice".  A sentence is   *)
(* spoken in the chosen voice, and spoken at all, unless the choice        *)
(* changed while it was synthesized, its model's download broke off, or    *)
(* the model was last dropped while another voice's was being loaded.      *)
VoiceFollows ==
  /\ synth = "done" /\ used # voice => changed \/ raced
  /\ synth = "failed" => changed \/ broken # {}
===============================================================================
