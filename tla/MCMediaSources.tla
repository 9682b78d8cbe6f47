---------------------------- MODULE MCMediaSources ----------------------------
(* Two workers and two jobs of one source, the first with a second attempt. *)
EXTENDS MediaSources

CONSTANTS j1, j2

Attempts == [j \in Jobs |-> IF j = j1 THEN 2 ELSE 1]
=============================================================================
