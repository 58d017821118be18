---------------------------- MODULE MCOrchestrator ----------------------------
(***************************************************************************)
(* Small instances of Orchestrator.  Persons, transcripts and playback     *)
(* threads are interchangeable.                                            *)
(***************************************************************************)
EXTENDS OrchestratorProps, TLC

Symmetry ==
  Permutations(People \ {GUEST}) \cup Permutations(Utterances)
    \cup Permutations(Players)
===============================================================================
