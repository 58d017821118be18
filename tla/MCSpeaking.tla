------------------------------ MODULE MCSpeaking ------------------------------
(* Every text of up to five characters in every chunking; two voices.      *)
EXTENDS Speaking, TLC

VoiceSymmetry == Permutations(Voices)
===============================================================================
