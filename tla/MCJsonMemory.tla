----------------------------- MODULE MCJsonMemory -----------------------------
(* Two people with interchangeable directories, and two enrolments.        *)
EXTENDS JsonMemory, TLC

Symmetry == Permutations(People) \cup Permutations(Writers)
===============================================================================
