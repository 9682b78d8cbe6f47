------------------------------ MODULE MediaJobs ------------------------------
(***************************************************************************)
(* The media_jobs table and the workers that process it                    *)
(* (app/services/media_jobs.py, app/workers/media_worker.py and the        *)
(* operator calls of app/services/admin_ops.py).                           *)
(*                                                                         *)
(* Every SQL statement is an operator from a row to a row.  Time is kept   *)
(* in the rows as timers: idle is the age of the lease (now minus          *)
(* heartbeat_at), wait is what remains until available_at; Tick advances   *)
(* both.  A member of Workers is one task slot: a process with             *)
(* MEDIA_WORKER_CONCURRENCY = n is n slots with the same worker id, and    *)
(* two processes that both keep the default MEDIA_WORKER_ID share it too.  *)
(***************************************************************************)
EXTENDS Integers

CONSTANTS
  Jobs,         \* media_jobs rows, named by their idempotency_key
  Workers,      \* task slots
  WorkerId,     \* WorkerId[w]: settings.worker_id of the process of w
  NoOne,        \* locked_by IS NULL
  NoJob,        \* a slot without a job
  MaxAttempts,  \* max_attempts of a row
  Lease,        \* lease_seconds, in ticks
  Backoff,      \* Backoff[n]: retry_delay after the n-th attempt, in ticks
  MaxOperatorCalls  \* bound on retry / cancel / re-enqueue requests

Ids == {WorkerId[w] : w \in Workers}

ASSUME MediaJobsAssumption ==
  /\ MaxAttempts \in Nat \ {0}
  /\ Lease \in Nat \ {0}
  /\ Backoff \in [1..MaxAttempts -> Nat]
  /\ MaxOperatorCalls \in Nat
  /\ WorkerId \in [Workers -> Ids]
  /\ NoOne \notin Ids
  /\ NoJob \notin Jobs

VARIABLES
  jobs,    \* the table
  task,    \* task[w]: the job dict the slot got from claim_job, and its phase
  calls    \* operator requests made so far

vars == <<jobs, task, calls>>

-----------------------------------------------------------------------------
Statuses == {"ABSENT", "QUEUED", "RUNNING", "RETRY", "SUCCEEDED", "FAILED", "CANCELLED"}
Waiting  == {"QUEUED", "RETRY"}
Settled  == {"SUCCEEDED", "FAILED", "CANCELLED"}

Row == [status   : Statuses,
        attempts : 0..MaxAttempts,
        owner    : Ids \cup {NoOne},   \* locked_by
        idle     : 0..Lease + 1,       \* age of the lease, saturated; 0 when unlocked
        wait     : Nat,                \* time left until available_at
        cancel   : BOOLEAN]            \* cancel_requested

AbsentRow == [status |-> "ABSENT", attempts |-> 0, owner |-> NoOne,
              idle |-> 0, wait |-> 0, cancel |-> FALSE]

(* The stretches of process_job between two of its database transactions.  *)
Phases == {"downloading", "probing", "encoding", "uploading"}
PhaseAfter == [downloading |-> "probing", probing |-> "encoding", encoding |-> "uploading"]

FreeSlot == [job |-> NoJob, attempts |-> 0, phase |-> "downloading"]
Task == {FreeSlot} \cup [job : Jobs, attempts : 1..MaxAttempts, phase : Phases]

-----------------------------------------------------------------------------
(* The statements, one operator per UPDATE or INSERT.                      *)

Unlocked(r) == [r EXCEPT !.owner = NoOne, !.idle = 0]

Stale(r) == r.status = "RUNNING" /\ r.idle > Lease

(* Mutant: the requeue of an earlier version, without the attempts test.  *)
RequeueStaleUnbounded(r) ==
  IF Stale(r) THEN [Unlocked(r) EXCEPT !.status = "RETRY", !.wait = Lease] ELSE r

RequeueStale(r) ==
  IF Stale(r) /\ r.attempts < MaxAttempts
    THEN [Unlocked(r) EXCEPT !.status = "RETRY", !.wait = Lease] ELSE r

FailStale(r) ==
  IF Stale(r) /\ r.attempts >= MaxAttempts
    THEN [Unlocked(r) EXCEPT !.status = "FAILED"] ELSE r

(* Mutant: a cancelled RETRY row is left to claim_job, which skips it.     *)
LeaveCancelledRetry(r) == r

FailCancelledRetry(r) ==
  IF r.status = "RETRY" /\ r.cancel
    THEN [Unlocked(r) EXCEPT !.status = "FAILED"] ELSE r

Recovered(r) == FailCancelledRetry(FailStale(RequeueStale(r)))

(* Mutant: claim_job does not look at cancel_requested.                    *)
ClaimableCancelled(r) ==
  r.status \in Waiting /\ r.attempts < MaxAttempts /\ r.wait = 0

Claimable(r) ==
  /\ r.status \in Waiting
  /\ ~r.cancel
  /\ r.attempts < MaxAttempts
  /\ r.wait = 0

ClaimedBy(r, id) ==
  [r EXCEPT !.status = "RUNNING", !.attempts = r.attempts + 1, !.owner = id, !.idle = 0]

(* WHERE locked_by = :worker_id AND status = 'RUNNING'                     *)
HeldBy(r, id) == r.owner = id /\ r.status = "RUNNING"

(* Mutant: the heartbeat lost its locked_by test.                          *)
BeatenByAnyone(r, id) == IF r.status = "RUNNING" THEN [r EXCEPT !.idle = 0] ELSE r

Beaten(r, id) == IF HeldBy(r, id) THEN [r EXCEPT !.idle = 0] ELSE r

Succeeded(r, id) ==
  IF HeldBy(r, id) THEN [Unlocked(r) EXCEPT !.status = "SUCCEEDED"] ELSE r

(* The verdict comes from the attempts in the worker's job dict, not from  *)
(* the row.                                                                *)
Failed(r, id, attempts) ==
  IF HeldBy(r, id)
    THEN [Unlocked(r) EXCEPT
            !.status = IF attempts < MaxAttempts THEN "RETRY" ELSE "FAILED",
            !.wait = Backoff[attempts]]
    ELSE r

(* Mutant: a misspelt status; the column is free text.                     *)
FinishedCanceled(r, id) ==
  IF HeldBy(r, id) THEN [Unlocked(r) EXCEPT !.status = "CANCELED"] ELSE r

FinishedCancelled(r, id) ==
  IF HeldBy(r, id) THEN [Unlocked(r) EXCEPT !.status = "CANCELLED"] ELSE r

(* Mutant: the upsert resets attempts whatever the status is.              *)
EnqueuedResetting(r) ==
  CASE r.status \in {"ABSENT", "FAILED"} -> [AbsentRow EXCEPT !.status = "QUEUED"]
    [] OTHER -> [r EXCEPT !.attempts = 0]

Enqueued(r) ==
  CASE r.status = "ABSENT" -> [AbsentRow EXCEPT !.status = "QUEUED"]
    [] r.status = "FAILED" -> [AbsentRow EXCEPT !.status = "QUEUED"]
    [] OTHER -> r

Retried(r) ==
  IF r.status \in {"FAILED", "CANCELLED", "RETRY", "QUEUED"}
    THEN [AbsentRow EXCEPT !.status = "RETRY"] ELSE r

CancelAsked(r) ==
  IF r.status \in Waiting \cup {"RUNNING"}
    THEN [r EXCEPT !.cancel = TRUE,
                   !.status = IF r.status \in Waiting THEN "CANCELLED" ELSE r.status]
    ELSE r

Aged(r) ==
  [r EXCEPT !.idle = IF r.status = "RUNNING" /\ r.idle <= Lease THEN r.idle + 1 ELSE r.idle,
            !.wait = IF r.wait > 0 THEN r.wait - 1 ELSE 0]

-----------------------------------------------------------------------------
Busy(w) == task[w].job # NoJob

(* A slot ends its task: its handler returned, or the process died.        *)
EndTask(w) == task' = [task EXCEPT ![w] = FreeSlot]

SetRow(j, r) == jobs' = [jobs EXCEPT ![j] = r]

(* claim_job.  FOR UPDATE SKIP LOCKED passes over a row that another       *)
(* transaction holds, so any claimable row may be the one returned.        *)
Claim(w, j) ==
  /\ ~Busy(w)
  /\ Claimable(jobs[j])
  /\ SetRow(j, ClaimedBy(jobs[j], WorkerId[w]))
  /\ task' = [task EXCEPT ![w] = [job |-> j, attempts |-> jobs[j].attempts + 1,
                                  phase |-> "downloading"]]
  /\ UNCHANGED calls

(* _lease_heartbeat: one beat of the task that keeps the lease.            *)
Heartbeat(w) ==
  /\ Busy(w)
  /\ SetRow(task[w].job, Beaten(jobs[task[w].job], WorkerId[w]))
  /\ UNCHANGED <<task, calls>>

(* The transaction between two phases: _cancel_if_requested, whose test    *)
(* does not look at the owner, then either _finish_cancelled and return,   *)
(* or a heartbeat and the next phase.  A statement that another            *)
(* transaction slips in between the SELECT and the UPDATE changes nothing: *)
(* the UPDATE tests the owner itself, and a beat does not touch the flag.  *)
CheckPoint(w) ==
  LET j == task[w].job
      asked == jobs[j].cancel /\ jobs[j].status = "RUNNING"
  IN /\ Busy(w)
     /\ task[w].phase \in DOMAIN PhaseAfter
     /\ \/ /\ asked
           /\ SetRow(j, FinishedCancelled(jobs[j], WorkerId[w]))
           /\ EndTask(w)
        \/ /\ ~asked
           /\ SetRow(j, Beaten(jobs[j], WorkerId[w]))
           /\ task' = [task EXCEPT ![w].phase = PhaseAfter[@]]
     /\ UNCHANGED calls

(* The last transaction of _download_transcode_publish, as far as the      *)
(* queue goes; there is no cancel test in it.                              *)
Complete(w) ==
  /\ Busy(w)
  /\ task[w].phase = "uploading"
  /\ SetRow(task[w].job, Succeeded(jobs[task[w].job], WorkerId[w]))
  /\ EndTask(w)
  /\ UNCHANGED calls

(* Any exception in process_job ends in mark_failure.                      *)
Fail(w) ==
  /\ Busy(w)
  /\ SetRow(task[w].job, Failed(jobs[task[w].job], WorkerId[w], task[w].attempts))
  /\ EndTask(w)
  /\ UNCHANGED calls

(* The process is killed, or mark_failure itself cannot reach the          *)
(* database: the slot is free again and the row stays RUNNING.             *)
Crash(w) ==
  /\ Busy(w)
  /\ EndTask(w)
  /\ UNCHANGED <<jobs, calls>>

(* recover_stale_jobs, called by the worker loop, by the maintenance loop  *)
(* and by scripts/requeue_stale_media_jobs.py.                             *)
Recover ==
  /\ jobs' = [j \in Jobs |-> Recovered(jobs[j])]
  /\ UNCHANGED <<task, calls>>

OperatorCall(j, row) ==
  /\ calls < MaxOperatorCalls
  /\ calls' = calls + 1
  /\ SetRow(j, row)
  /\ UNCHANGED task

EnqueueTranscode(j) == OperatorCall(j, Enqueued(jobs[j]))
RetryJob(j)         == OperatorCall(j, Retried(jobs[j]))
CancelJob(j)        == OperatorCall(j, CancelAsked(jobs[j]))

Tick ==
  /\ jobs' = [j \in Jobs |-> Aged(jobs[j])]
  /\ UNCHANGED <<task, calls>>

-----------------------------------------------------------------------------
Init ==
  /\ jobs = [j \in Jobs |-> AbsentRow]
  /\ task = [w \in Workers |-> FreeSlot]
  /\ calls = 0

WorkerStep(w) ==
  \/ \E j \in Jobs : Claim(w, j)
  \/ Heartbeat(w)
  \/ CheckPoint(w)
  \/ Complete(w)
  \/ Fail(w)
  \/ Crash(w)

OperatorStep ==
  \E j \in Jobs : EnqueueTranscode(j) \/ RetryJob(j) \/ CancelJob(j)

Next ==
  \/ \E w \in Workers : WorkerStep(w)
  \/ OperatorStep
  \/ Recover
  \/ Tick

Spec == Init /\ [][Next]_vars

(* The poll loop keeps claiming, a task keeps moving from phase to phase   *)
(* (a phase that hangs is cut off by its own timeout and fails), recovery  *)
(* runs every RECOVER_EVERY_N_POLLS polls and in maintenance, and time     *)
(* passes.  Nothing is assumed of heartbeats, failures, crashes and        *)
(* operators.                                                              *)
Fairness ==
  /\ \A w \in Workers : WF_vars(CheckPoint(w) \/ Complete(w))
  /\ \A j \in Jobs : SF_vars(\E w \in Workers : Claim(w, j))
  /\ WF_vars(Recover)
  /\ WF_vars(Tick)

FairSpec == Spec /\ Fairness

-----------------------------------------------------------------------------
(* Types of the table and of the slots.                                    *)
TypeOK ==
  /\ jobs \in [Jobs -> Row]
  /\ task \in [Workers -> Task]
  /\ calls \in 0..MaxOperatorCalls

(* A row is locked exactly while it is RUNNING: every statement that moves *)
(* the status also keeps locked_by, whichever of the worker, the recovery  *)
(* and the operator issues it.                                             *)
LockedIffRunning ==
  \A j \in Jobs : jobs[j].owner # NoOne <=> jobs[j].status = "RUNNING"

(* The fence is by worker id, not by claim.  It is as good as a fencing    *)
(* token only if a row locked by the id of w is at the attempt that w's    *)
(* own task was claimed for, however late w wakes up.                      *)
FenceMatchesClaim ==
  \A w \in Workers :
    LET j == task[w].job
    IN Busy(w) /\ HeldBy(jobs[j], WorkerId[w]) => jobs[j].attempts = task[w].attempts

(* The assumption under which the fence works: MEDIA_WORKER_CONCURRENCY is *)
(* 1 (its default) and every process has a MEDIA_WORKER_ID of its own.     *)
DistinctIds == \A v, w \in Workers : WorkerId[v] = WorkerId[w] => v = w

(* No job waits in the queue with its attempts used up: claim_job would    *)
(* never return it, recovery only looks at RUNNING rows, and the job would *)
(* neither run nor fail.                                                   *)
NoStrandedJob ==
  \A j \in Jobs : jobs[j].status \in Waiting => jobs[j].attempts < MaxAttempts

(* A job is given up only for cause: its attempts are used up or an        *)
(* operator asked to cancel it.  A late mark_failure of a superseded task  *)
(* cannot fail a job that has attempts left.                               *)
GivenUpForCause ==
  \A j \in Jobs :
    jobs[j].status = "FAILED" => jobs[j].attempts = MaxAttempts \/ jobs[j].cancel

(* A task writes to a row only in the very run it was claimed for: a      *)
(* worker that comes back after its lease was lost, and the job was taken  *)
(* by another worker or reopened by an operator, can neither end, extend   *)
(* nor cancel the run that is under way.                                   *)
OnlyHolderMovesItsJob ==
  [][\A w \in Workers :
       Heartbeat(w) \/ CheckPoint(w) \/ Complete(w) \/ Fail(w)
         => \A j \in Jobs : jobs'[j] # jobs[j] =>
              /\ task[w].job = j
              /\ HeldBy(jobs[j], WorkerId[w])
              /\ jobs[j].attempts = task[w].attempts]_vars

(* The abstract state of a row.                                            *)
Abstract(r) ==
  [at   |-> CASE r.status = "ABSENT"    -> "absent"
              [] r.status \in Waiting   -> "waiting"
              [] r.status = "RUNNING"   -> "running"
              [] r.status = "SUCCEEDED" -> "done"
              [] r.status = "FAILED"    -> "failed"
              [] OTHER                  -> "cancelled",
   left |-> MaxAttempts - r.attempts,
   stop |-> r.cancel]

Contract == INSTANCE JobContract
  WITH Budget <- MaxAttempts, contract <- [j \in Jobs |-> Abstract(jobs[j])]

(* The queue, with its stale workers, crashes and lease recovery, keeps    *)
(* the promises of JobContract.                                            *)
ImplementsContract == Contract!ContractSpec

(* Every job that is in the queue or running is settled in the end:        *)
(* no crash, lost lease or cancel request leaves it there forever.         *)
EveryJobSettles ==
  \A j \in Jobs :
    jobs[j].status \in Waiting \cup {"RUNNING"} ~> jobs[j].status \in Settled
=============================================================================
