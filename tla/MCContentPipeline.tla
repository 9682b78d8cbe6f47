-------------------------- MODULE MCContentPipeline --------------------------
(* Two runs of one source: r1 asks for both qualities, r2 for the lower    *)
(* one, so that they share its target and its job.                         *)
EXTENDS ContentPipeline

CONSTANTS r1, r2

TwoQualities == {480, 720}
SharedWants  == [r \in Runs |-> IF r = r1 THEN {480, 720} ELSE {480}]
=============================================================================
