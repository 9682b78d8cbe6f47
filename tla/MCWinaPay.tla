----------------------------- MODULE MCWinaPay -----------------------------
(* An instance of WinaPay for TLC. *)
EXTENDS WinaPay, TLC

(* Callback slots, start slots and authorities are interchangeable.        *)
Symmetry ==
  Permutations(Callbacks) \cup Permutations(Starts) \cup Permutations(Authorities)
============================================================================
