---------------------------- MODULE MCMediaJobs ----------------------------
(* Instances of MediaJobs for TLC. *)
EXTENDS MediaJobs, TLC

(* retry_delay = min(3600, 30 * 2^(attempts - 1)) seconds against a lease  *)
(* of 900 s, with a tick of about a lease: the delays are below one tick.  *)
MCBackoff == [n \in 1..MaxAttempts |-> 1]

(* Every slot is a process with a MEDIA_WORKER_ID of its own.              *)
OwnIds == [w \in Workers |-> w]
============================================================================
