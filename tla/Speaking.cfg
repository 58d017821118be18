SPECIFICATION SpeakingSpec
CONSTANTS
  MaxText = 5
  MaxChunk = 2
  Voices = {v1, v2}
  AllVoices = all
  NoModel = nomodel
  Reloads = TRUE
INVARIANTS SentencesRight VoiceFollows
SYMMETRY VoiceSymmetry
