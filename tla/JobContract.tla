----------------------------- MODULE JobContract -----------------------------
(***************************************************************************)
(* What the media job queue promises its callers, apart from how workers,  *)
(* leases and clocks keep the promise: a submitted job is worked on at     *)
(* most Budget times between two openings, a finished job stays finished,  *)
(* a job is given up only when its budget is spent or an operator asked    *)
(* for it, and only the holder's claim ends a run.                         *)
(*                                                                         *)
(* MediaJobs implements this specification (see MediaJobs!Contract).       *)
(***************************************************************************)
EXTENDS Naturals

CONSTANTS
  Jobs,      \* the jobs, one per idempotency key
  Budget     \* runs a job may use up before it is given up, a positive number

VARIABLE contract   \* contract[j]: what a caller may know of job j

State == [at   : {"absent", "waiting", "running", "done", "failed", "cancelled"},
          left : 0..Budget,     \* runs left
          stop : BOOLEAN]       \* an operator asked to cancel it

ContractType == contract \in [Jobs -> State]

Absent == [at |-> "absent", left |-> Budget, stop |-> FALSE]

ContractInit == contract = [j \in Jobs |-> Absent]

-----------------------------------------------------------------------------
(* The steps of one job, as relations between its old and new state.       *)

Open(old, new) ==
  /\ old.at \in {"absent", "waiting", "failed", "cancelled"}
  /\ new = [at |-> "waiting", left |-> Budget, stop |-> FALSE]

Take(old, new) ==
  /\ old.at = "waiting" /\ old.left > 0 /\ ~old.stop
  /\ new = [at |-> "running", left |-> old.left - 1, stop |-> FALSE]

Finish(old, new) ==
  old.at = "running" /\ new = [old EXCEPT !.at = "done"]

GiveBack(old, new) ==
  old.at = "running" /\ old.left > 0 /\ new = [old EXCEPT !.at = "waiting"]

GiveUp(old, new) ==
  /\ \/ old.at = "running" /\ old.left = 0
     \/ old.at \in {"running", "waiting"} /\ old.stop
  /\ new = [old EXCEPT !.at = "failed"]

AskToStop(old, new) ==
  \/ old.at = "running" /\ new = [at |-> "running", left |-> old.left, stop |-> TRUE]
  \/ old.at = "waiting" /\ new = [at |-> "cancelled", left |-> old.left, stop |-> TRUE]

HonourStop(old, new) ==
  old.at = "running" /\ old.stop /\ new = [old EXCEPT !.at = "cancelled"]

JobStep(old, new) ==
  \/ Open(old, new)
  \/ Take(old, new)
  \/ Finish(old, new)
  \/ GiveBack(old, new)
  \/ GiveUp(old, new)
  \/ AskToStop(old, new)
  \/ HonourStop(old, new)
  \/ new = old

(* One transaction of the queue may move several jobs (recovery does).     *)
ContractNext ==
  /\ contract' \in [Jobs -> State]
  /\ \A j \in Jobs : JobStep(contract[j], contract'[j])

ContractSpec == ContractInit /\ [][ContractNext]_contract
=============================================================================
