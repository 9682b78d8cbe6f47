--------------------------------- MODULE MCAds ---------------------------------
(* One ad, two administrators' presses at once, and a second message that  *)
(* arrives with the first.                                                 *)
EXTENDS Ads, TLC

CONSTANTS r1, r2, h1, h2

Symmetric == Permutations(Requests) \cup Permutations(Tasks)
=============================================================================
