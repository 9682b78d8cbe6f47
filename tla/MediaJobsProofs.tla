-------------------------- MODULE MediaJobsProofs --------------------------
(***************************************************************************)
(* Proofs about MediaJobs, for every number of jobs, workers and attempts  *)
(* and every lease, when worker ids are distinct.                          *)
(***************************************************************************)
EXTENDS MediaJobs, TLAPS

(* The inductive invariant.  A row locked by the id of w is at the attempt *)
(* of w's own task whenever w works on that job: the id is in the row only *)
(* since w's claim, and w claims nothing else while it is busy.            *)
IInv == TypeOK /\ LockedIffRunning /\ FenceMatchesClaim /\ NoStrandedJob /\ GivenUpForCause

(* The part of IInv that is about one row.                                 *)
RowOK(r) ==
  /\ r.owner # NoOne <=> r.status = "RUNNING"
  /\ r.status \in Waiting => r.attempts < MaxAttempts
  /\ r.status = "FAILED" => r.attempts = MaxAttempts \/ r.cancel

(* The row q is r after a statement that starts no run: if q is RUNNING,   *)
(* then r was, for the same owner and in the same attempt.                 *)
SameRun(r, q) ==
  q.status = "RUNNING" =>
    r.status = "RUNNING" /\ q.owner = r.owner /\ q.attempts = r.attempts

(* In a step that claims nothing, slot w is freed or keeps its claim.      *)
FreedOrKept(w) ==
  task'[w].job # NoJob =>
    task'[w].job = task[w].job /\ task'[w].attempts = task[w].attempts

USE MediaJobsAssumption

-----------------------------------------------------------------------------
(* Types.                                                                  *)

(* Setting one column of a row to a value of its type gives a row.         *)
LEMMA SetColumn ==
  ASSUME NEW r \in Row
  PROVE  /\ \A v \in Statuses : [r EXCEPT !.status = v] \in Row
         /\ \A v \in 0..MaxAttempts : [r EXCEPT !.attempts = v] \in Row
         /\ \A v \in Ids \cup {NoOne} : [r EXCEPT !.owner = v] \in Row
         /\ \A v \in 0..Lease + 1 : [r EXCEPT !.idle = v] \in Row
         /\ \A v \in Nat : [r EXCEPT !.wait = v] \in Row
         /\ \A v \in BOOLEAN : [r EXCEPT !.cancel = v] \in Row
  BY DEF Row

(* The columns of a row and their types.                                   *)
LEMMA Columns ==
  ASSUME NEW r \in Row
  PROVE  /\ r.status \in Statuses /\ r.attempts \in 0..MaxAttempts
         /\ r.owner \in Ids \cup {NoOne} /\ r.idle \in 0..Lease + 1
         /\ r.wait \in Nat /\ r.cancel \in BOOLEAN
  BY DEF Row

LEMMA AbsentRowType == AbsentRow \in Row
  BY DEF AbsentRow, Row, Statuses

LEMMA UnlockedType == ASSUME NEW r \in Row PROVE Unlocked(r) \in Row
<1>1. 0 \in 0..Lease + 1 /\ NoOne \in Ids \cup {NoOne}
  OBVIOUS
<1>2. [r EXCEPT !.owner = NoOne] \in Row
  BY <1>1, SetColumn
<1>3. QED
  BY <1>1, <1>2, SetColumn, Zenon DEF Unlocked

(* A statement that rewrites a row keeps its type.                         *)
LEMMA RecoveryTypes ==
  ASSUME NEW r \in Row
  PROVE  RequeueStale(r) \in Row /\ FailStale(r) \in Row /\ FailCancelledRetry(r) \in Row
<1>1. RequeueStale(r) \in Row
  <2>1. "RETRY" \in Statuses /\ Lease \in Nat
    BY DEF Statuses
  <2>2. [Unlocked(r) EXCEPT !.status = "RETRY"] \in Row
    BY <2>1, UnlockedType, SetColumn
  <2>3. [[Unlocked(r) EXCEPT !.status = "RETRY"] EXCEPT !.wait = Lease] \in Row
    BY <2>1, <2>2, SetColumn
  <2>4. QED
    BY <2>3 DEF RequeueStale
<1>2. FailStale(r) \in Row
  BY UnlockedType, SetColumn DEF FailStale, Statuses
<1>3. FailCancelledRetry(r) \in Row
  BY UnlockedType, SetColumn DEF FailCancelledRetry, Statuses
<1>4. QED
  BY <1>1, <1>2, <1>3

LEMMA RecoveredType == ASSUME NEW r \in Row PROVE Recovered(r) \in Row
  BY RecoveryTypes DEF Recovered

LEMMA ClaimedType ==
  ASSUME NEW r \in Row, NEW id \in Ids, r.attempts < MaxAttempts
  PROVE  ClaimedBy(r, id) \in Row
<1>1. /\ "RUNNING" \in Statuses /\ r.attempts + 1 \in 0..MaxAttempts
      /\ id \in Ids \cup {NoOne} /\ 0 \in 0..Lease + 1
  BY Columns DEF Statuses
<1>2. [r EXCEPT !.status = "RUNNING"] \in Row
  BY <1>1, SetColumn
<1>3. [[r EXCEPT !.status = "RUNNING"] EXCEPT !.attempts = r.attempts + 1] \in Row
  BY <1>1, <1>2, SetColumn
<1>4. [[[r EXCEPT !.status = "RUNNING"] EXCEPT !.attempts = r.attempts + 1]
         EXCEPT !.owner = id] \in Row
  BY <1>1, <1>3, SetColumn
<1>5. [[[[r EXCEPT !.status = "RUNNING"] EXCEPT !.attempts = r.attempts + 1]
          EXCEPT !.owner = id] EXCEPT !.idle = 0] \in Row
  BY <1>1, <1>4, SetColumn
<1>6. QED
  BY <1>5 DEF ClaimedBy

LEMMA WorkerStatementTypes ==
  ASSUME NEW r \in Row, NEW id \in Ids
  PROVE  /\ Beaten(r, id) \in Row
         /\ Succeeded(r, id) \in Row
         /\ FinishedCancelled(r, id) \in Row
         /\ \A n \in 1..MaxAttempts : Failed(r, id, n) \in Row
<1>1. Beaten(r, id) \in Row
  <2>1. 0 \in 0..Lease + 1
    OBVIOUS
  <2>2. QED
    BY <2>1, SetColumn, Zenon DEF Beaten
<1>2. Succeeded(r, id) \in Row /\ FinishedCancelled(r, id) \in Row
  BY UnlockedType, SetColumn DEF Succeeded, FinishedCancelled, Statuses
<1>3. ASSUME NEW n \in 1..MaxAttempts PROVE Failed(r, id, n) \in Row
  <2> DEFINE verdict == IF n < MaxAttempts THEN "RETRY" ELSE "FAILED"
  <2>1. verdict \in Statuses /\ Backoff[n] \in Nat
    BY DEF Statuses
  <2> HIDE DEF verdict
  <2>2. [Unlocked(r) EXCEPT !.status = verdict] \in Row
    BY <2>1, UnlockedType, SetColumn
  <2>3. [[Unlocked(r) EXCEPT !.status = verdict] EXCEPT !.wait = Backoff[n]] \in Row
    BY <2>1, <2>2, SetColumn
  <2>4. QED
    BY <2>3 DEF Failed, verdict
<1>4. QED
  BY <1>1, <1>2, <1>3

LEMMA OperatorStatementTypes ==
  ASSUME NEW r \in Row
  PROVE  Enqueued(r) \in Row /\ Retried(r) \in Row /\ CancelAsked(r) \in Row
<1>1. Enqueued(r) \in Row /\ Retried(r) \in Row
  BY AbsentRowType, SetColumn DEF Enqueued, Retried, Statuses
<1>2. CancelAsked(r) \in Row
  <2> DEFINE to == IF r.status \in Waiting THEN "CANCELLED" ELSE r.status
  <2>1. to \in Statuses
    BY Columns DEF Statuses
  <2> HIDE DEF to
  <2>2. [r EXCEPT !.cancel = TRUE] \in Row
    BY SetColumn
  <2>3. [[r EXCEPT !.cancel = TRUE] EXCEPT !.status = to] \in Row
    BY <2>1, <2>2, SetColumn
  <2>4. QED
    BY <2>3 DEF CancelAsked, to
<1>3. QED
  BY <1>1, <1>2

LEMMA AgedType == ASSUME NEW r \in Row PROVE Aged(r) \in Row
<1> DEFINE age == IF r.status = "RUNNING" /\ r.idle <= Lease THEN r.idle + 1 ELSE r.idle
           left == IF r.wait > 0 THEN r.wait - 1 ELSE 0
<1>1. age \in 0..Lease + 1 /\ left \in Nat
  BY Columns
<1> HIDE DEF age, left
<1>2. [r EXCEPT !.idle = age] \in Row
  BY <1>1, SetColumn
<1>3. [[r EXCEPT !.idle = age] EXCEPT !.wait = left] \in Row
  BY <1>1, <1>2, SetColumn
<1>4. QED
  BY <1>3 DEF Aged, age, left

-----------------------------------------------------------------------------
(* What each statement does to RowOK, and to the run that is under way.    *)

LEMMA RequeueStaleRow ==
  ASSUME NEW r \in Row, RowOK(r)
  PROVE  RowOK(RequeueStale(r)) /\ SameRun(r, RequeueStale(r))
  BY DEF RequeueStale, Stale, Unlocked, RowOK, SameRun, Waiting, Row

LEMMA FailStaleRow ==
  ASSUME NEW r \in Row, RowOK(r)
  PROVE  RowOK(FailStale(r)) /\ SameRun(r, FailStale(r))
<1>1. CASE Stale(r) /\ r.attempts >= MaxAttempts
  <2>1. r.attempts = MaxAttempts
    BY <1>1, Columns
  <2>2. /\ FailStale(r).status = "FAILED" /\ FailStale(r).owner = NoOne
        /\ FailStale(r).attempts = r.attempts
    BY <1>1 DEF FailStale, Unlocked, Row
  <2>3. QED
    BY <2>1, <2>2 DEF RowOK, SameRun, Waiting
<1>2. CASE ~(Stale(r) /\ r.attempts >= MaxAttempts)
  BY <1>2 DEF FailStale, RowOK, SameRun
<1>3. QED
  BY <1>1, <1>2

LEMMA FailCancelledRetryRow ==
  ASSUME NEW r \in Row, RowOK(r)
  PROVE  RowOK(FailCancelledRetry(r)) /\ SameRun(r, FailCancelledRetry(r))
  BY DEF FailCancelledRetry, Unlocked, RowOK, SameRun, Waiting, Row

LEMMA RecoveredRow ==
  ASSUME NEW r \in Row, RowOK(r)
  PROVE  RowOK(Recovered(r)) /\ SameRun(r, Recovered(r))
<1> DEFINE a == RequeueStale(r)
           b == FailStale(a)
           c == FailCancelledRetry(b)
<1>1. a \in Row /\ RowOK(a) /\ SameRun(r, a)
  BY RecoveryTypes, RequeueStaleRow
<1>2. b \in Row /\ RowOK(b) /\ SameRun(a, b)
  BY <1>1, RecoveryTypes, FailStaleRow
<1>3. RowOK(c) /\ SameRun(b, c)
  BY <1>2, FailCancelledRetryRow
<1>4. SameRun(r, c)
  BY <1>1, <1>2, <1>3 DEF SameRun
<1>5. QED
  BY <1>3, <1>4 DEF Recovered

LEMMA ClaimedRow ==
  ASSUME NEW r \in Row, NEW id \in Ids, RowOK(r)
  PROVE  RowOK(ClaimedBy(r, id))
  BY DEF ClaimedBy, RowOK, Waiting, Row, Statuses

LEMMA BeatenRow ==
  ASSUME NEW r \in Row, NEW id \in Ids, RowOK(r)
  PROVE  RowOK(Beaten(r, id)) /\ SameRun(r, Beaten(r, id))
  BY DEF Beaten, HeldBy, RowOK, SameRun, Row

LEMMA EndedRow ==
  ASSUME NEW r \in Row, NEW id \in Ids, RowOK(r)
  PROVE  /\ RowOK(Succeeded(r, id)) /\ SameRun(r, Succeeded(r, id))
         /\ RowOK(FinishedCancelled(r, id)) /\ SameRun(r, FinishedCancelled(r, id))
  BY DEF Succeeded, FinishedCancelled, HeldBy, Unlocked, RowOK, SameRun, Waiting, Row

(* mark_failure judges by the attempts of the job dict, which is right     *)
(* when those are the attempts of the row it may write to.                 *)
LEMMA FailedRow ==
  ASSUME NEW r \in Row, NEW id \in Ids, RowOK(r), NEW n \in 1..MaxAttempts,
         HeldBy(r, id) => r.attempts = n
  PROVE  RowOK(Failed(r, id, n)) /\ SameRun(r, Failed(r, id, n))
  BY DEF Failed, HeldBy, Unlocked, RowOK, SameRun, Waiting, Row

LEMMA OperatorRow ==
  ASSUME NEW r \in Row, RowOK(r)
  PROVE  /\ RowOK(Enqueued(r)) /\ SameRun(r, Enqueued(r))
         /\ RowOK(Retried(r)) /\ SameRun(r, Retried(r))
         /\ RowOK(CancelAsked(r)) /\ SameRun(r, CancelAsked(r))
<1>1. /\ RowOK(Enqueued(r)) /\ SameRun(r, Enqueued(r))
      /\ RowOK(Retried(r)) /\ SameRun(r, Retried(r))
  BY DEF Enqueued, Retried, AbsentRow, RowOK, SameRun, Waiting, Row
<1>2. RowOK(CancelAsked(r)) /\ SameRun(r, CancelAsked(r))
  BY DEF CancelAsked, RowOK, SameRun, Waiting, Row
<1>3. QED
  BY <1>1, <1>2

LEMMA AgedRow ==
  ASSUME NEW r \in Row, RowOK(r)
  PROVE  RowOK(Aged(r)) /\ SameRun(r, Aged(r))
  BY DEF Aged, RowOK, SameRun, Row

-----------------------------------------------------------------------------
(* The inductive invariant.                                                *)

LEMMA RowsOK ==
  ASSUME TypeOK
  PROVE  LockedIffRunning /\ NoStrandedJob /\ GivenUpForCause <=> \A j \in Jobs : RowOK(jobs[j])
  BY DEF LockedIffRunning, NoStrandedJob, GivenUpForCause, RowOK

LEMMA InitIInv == Init => IInv
<1> SUFFICES ASSUME Init PROVE IInv
  OBVIOUS
<1>1. TypeOK
  BY AbsentRowType DEF Init, TypeOK, Task
<1>2. \A j \in Jobs : RowOK(jobs[j])
  BY DEF Init, AbsentRow, RowOK, Waiting
<1>3. FenceMatchesClaim
  BY DEF Init, FenceMatchesClaim, Busy, FreeSlot
<1>4. QED
  BY <1>1, <1>2, <1>3, RowsOK DEF IInv

(* A step that rewrites row j alone, by a statement that starts no run,    *)
(* and leaves the claims of the slots alone, or frees slots.               *)
LEMMA SetRowKeepsFence ==
  ASSUME TypeOK, FenceMatchesClaim, NEW j \in Jobs, NEW r \in Row,
         SetRow(j, r), SameRun(jobs[j], r),
         \A w \in Workers : FreedOrKept(w)
  PROVE  FenceMatchesClaim'
<1> SUFFICES ASSUME NEW w \in Workers, Busy(w)', HeldBy(jobs'[task'[w].job], WorkerId[w])
             PROVE  jobs'[task'[w].job].attempts = task'[w].attempts
  BY DEF FenceMatchesClaim, HeldBy, Busy
<1> DEFINE k == task[w].job
<1>1. task'[w].job = k /\ task'[w].attempts = task[w].attempts /\ Busy(w)
  BY DEF Busy, FreedOrKept
<1>2. k \in Jobs
  BY <1>1 DEF TypeOK, Task, FreeSlot, Busy
<1>3. SameRun(jobs[k], jobs'[k])
  BY <1>2 DEF SetRow, TypeOK, SameRun
<1>4. HeldBy(jobs[k], WorkerId[w]) /\ jobs'[k].attempts = jobs[k].attempts
  BY <1>1, <1>3 DEF SameRun, HeldBy
<1>5. QED
  BY <1>1, <1>4 DEF FenceMatchesClaim

(* The same for the steps that rewrite every row.                          *)
LEMMA AllRowsKeepFence ==
  ASSUME TypeOK, FenceMatchesClaim, UNCHANGED task,
         \A j \in Jobs : SameRun(jobs[j], jobs'[j])
  PROVE  FenceMatchesClaim'
<1> SUFFICES ASSUME NEW w \in Workers, Busy(w)', HeldBy(jobs'[task'[w].job], WorkerId[w])
             PROVE  jobs'[task'[w].job].attempts = task'[w].attempts
  BY DEF FenceMatchesClaim, HeldBy, Busy
<1> DEFINE k == task[w].job
<1>1. task'[w] = task[w] /\ Busy(w)
  BY DEF Busy
<1>2. k \in Jobs
  BY <1>1 DEF TypeOK, Task, FreeSlot, Busy
<1>3. HeldBy(jobs[k], WorkerId[w]) /\ jobs'[k].attempts = jobs[k].attempts
  BY <1>1, <1>2 DEF SameRun, HeldBy
<1>4. QED
  BY <1>1, <1>3 DEF FenceMatchesClaim

(* One row rewritten: types and RowOK of the table.                        *)
LEMMA SetRowKeepsRows ==
  ASSUME TypeOK, NEW j \in Jobs, NEW r \in Row, SetRow(j, r), RowOK(r),
         \A k \in Jobs : RowOK(jobs[k])
  PROVE  jobs' \in [Jobs -> Row] /\ \A k \in Jobs : RowOK(jobs'[k])
<1>1. jobs' \in [Jobs -> Row]
  BY DEF SetRow, TypeOK
<1>2. ASSUME NEW k \in Jobs PROVE RowOK(jobs'[k])
  <2>1. jobs'[k] = r \/ jobs'[k] = jobs[k]
    BY DEF SetRow, TypeOK
  <2>2. QED
    BY <2>1
<1>3. QED
  BY <1>1, <1>2

(* The slot of a busy worker, and its row.                                 *)
LEMMA BusySlot ==
  ASSUME TypeOK, NEW w \in Workers, Busy(w)
  PROVE  /\ task[w].job \in Jobs /\ task[w].attempts \in 1..MaxAttempts
         /\ task[w].phase \in Phases
         /\ jobs[task[w].job] \in Row /\ WorkerId[w] \in Ids
  BY DEF TypeOK, Task, FreeSlot, Busy

LEMMA EndTaskSlots ==
  ASSUME TypeOK, NEW w \in Workers, EndTask(w)
  PROVE  /\ task' \in [Workers -> Task]
         /\ \A v \in Workers : FreedOrKept(v)
<1>1. FreeSlot \in Task /\ FreeSlot.job = NoJob
  BY DEF Task, FreeSlot
<1>2. QED
  BY <1>1 DEF EndTask, TypeOK, FreedOrKept

(* A statement of a busy worker that ends or prolongs its run.             *)
LEMMA WorkerWrites ==
  ASSUME IInv, NEW w \in Workers, Busy(w), NEW r \in Row,
         SetRow(task[w].job, r), RowOK(r), SameRun(jobs[task[w].job], r),
         UNCHANGED calls, task' \in [Workers -> Task],
         \A v \in Workers : FreedOrKept(v)
  PROVE  IInv'
<1>1. task[w].job \in Jobs /\ \A k \in Jobs : RowOK(jobs[k])
  BY BusySlot, RowsOK DEF IInv
<1>2. jobs' \in [Jobs -> Row] /\ \A k \in Jobs : RowOK(jobs'[k])
  BY <1>1, SetRowKeepsRows DEF IInv
<1>3. TypeOK'
  BY <1>2 DEF TypeOK, IInv
<1>4. FenceMatchesClaim'
  BY <1>1, SetRowKeepsFence DEF IInv
<1>5. LockedIffRunning' /\ NoStrandedJob' /\ GivenUpForCause'
  BY <1>2 DEF LockedIffRunning, NoStrandedJob, GivenUpForCause, RowOK
<1>6. QED
  BY <1>3, <1>4, <1>5 DEF IInv

(* One step of the system, action by action.                               *)
LEMMA NextIInv ==
  ASSUME DistinctIds, IInv, [Next]_vars
  PROVE  IInv'
<1> USE DEF IInv
<1>0. \A k \in Jobs : jobs[k] \in Row /\ RowOK(jobs[k])
  BY RowsOK DEF TypeOK
<1>1. ASSUME NEW w \in Workers, NEW j \in Jobs, Claim(w, j) PROVE IInv'
  <2> DEFINE q == ClaimedBy(jobs[j], WorkerId[w])
             slot == [job |-> j, attempts |-> jobs[j].attempts + 1, phase |-> "downloading"]
  <2>1. jobs[j] \in Row /\ RowOK(jobs[j]) /\ WorkerId[w] \in Ids
    BY <1>0
  <2>2. jobs[j].attempts < MaxAttempts /\ jobs[j].attempts \in Nat
    BY <1>1, <2>1, Columns DEF Claim, Claimable
  <2>3. q \in Row /\ RowOK(q) /\ q.attempts = jobs[j].attempts + 1 /\ q.owner = WorkerId[w]
    <3>1. q.attempts = jobs[j].attempts + 1 /\ q.owner = WorkerId[w]
      BY <2>1 DEF ClaimedBy, Row
    <3>2. QED
      BY <2>1, <2>2, <3>1, ClaimedType, ClaimedRow
  <2> HIDE DEF q
  <2>4. SetRow(j, q) /\ task' = [task EXCEPT ![w] = slot] /\ UNCHANGED calls
    BY <1>1 DEF Claim, q
  <2>5. jobs' \in [Jobs -> Row] /\ \A k \in Jobs : RowOK(jobs'[k])
    BY <1>0, <2>3, <2>4, SetRowKeepsRows
  <2>6. slot \in Task
    BY <2>2 DEF Task, Phases
  <2> HIDE DEF slot
  <2>7. TypeOK'
    BY <2>4, <2>5, <2>6 DEF TypeOK
  <2>8. FenceMatchesClaim'
    <3> SUFFICES ASSUME NEW v \in Workers, Busy(v)', HeldBy(jobs'[task'[v].job], WorkerId[v])
                 PROVE  jobs'[task'[v].job].attempts = task'[v].attempts
      BY DEF FenceMatchesClaim, HeldBy, Busy
    <3>1. CASE v = w
      <4>1. task'[v] = slot /\ slot.job = j /\ slot.attempts = jobs[j].attempts + 1
        BY <3>1, <2>4 DEF TypeOK, slot
      <4>2. jobs'[j] = q
        BY <2>4 DEF SetRow, TypeOK
      <4>3. QED
        BY <4>1, <4>2, <2>3
    <3>2. CASE v # w
      <4>1. task'[v] = task[v] /\ Busy(v)
        BY <3>2, <2>4 DEF TypeOK, Busy
      <4>2. CASE task[v].job = j
        <5>1. jobs'[j].owner = WorkerId[w]
          BY <2>3, <2>4 DEF SetRow, TypeOK
        <5>2. WorkerId[v] = WorkerId[w]
          BY <4>1, <4>2, <5>1 DEF HeldBy
        <5>3. QED
          BY <5>2, <3>2 DEF DistinctIds
      <4>3. CASE task[v].job # j
        <5>1. jobs'[task[v].job] = jobs[task[v].job]
          BY <4>1, <4>3, <2>4, BusySlot DEF SetRow, TypeOK
        <5>2. QED
          BY <4>1, <5>1 DEF FenceMatchesClaim
      <4>4. QED
        BY <4>2, <4>3
    <3>3. QED
      BY <3>1, <3>2
  <2>9. LockedIffRunning' /\ NoStrandedJob' /\ GivenUpForCause'
    BY <2>5 DEF LockedIffRunning, NoStrandedJob, GivenUpForCause, RowOK
  <2>10. QED
    BY <2>7, <2>8, <2>9
<1>2. ASSUME NEW w \in Workers, Heartbeat(w) PROVE IInv'
  <2>1. Busy(w) /\ UNCHANGED <<task, calls>>
    BY <1>2 DEF Heartbeat
  <2> DEFINE q == Beaten(jobs[task[w].job], WorkerId[w])
  <2>2. q \in Row /\ RowOK(q) /\ SameRun(jobs[task[w].job], q)
    BY <1>0, <2>1, BusySlot, WorkerStatementTypes, BeatenRow
  <2>3. SetRow(task[w].job, q)
    BY <1>2 DEF Heartbeat
  <2>4. task' \in [Workers -> Task] /\ \A v \in Workers : FreedOrKept(v)
    BY <2>1 DEF TypeOK, FreedOrKept
  <2> HIDE DEF q
  <2>5. QED
    BY <2>1, <2>2, <2>3, <2>4, WorkerWrites
<1>3. ASSUME NEW w \in Workers, CheckPoint(w) PROVE IInv'
  <2> DEFINE r == jobs[task[w].job]
             c == FinishedCancelled(r, WorkerId[w])
             b == Beaten(r, WorkerId[w])
  <2>1. Busy(w) /\ UNCHANGED calls /\ task[w].phase \in DOMAIN PhaseAfter
    BY <1>3 DEF CheckPoint
  <2>2. /\ c \in Row /\ RowOK(c) /\ SameRun(r, c)
        /\ b \in Row /\ RowOK(b) /\ SameRun(r, b)
    BY <1>0, <2>1, BusySlot, WorkerStatementTypes, EndedRow, BeatenRow
  <2>3. \/ SetRow(task[w].job, c) /\ EndTask(w)
        \/ /\ SetRow(task[w].job, b)
           /\ task' = [task EXCEPT ![w].phase = PhaseAfter[@]]
    BY <1>3 DEF CheckPoint
  <2> HIDE DEF c, b
  <2>4. CASE SetRow(task[w].job, c) /\ EndTask(w)
    BY <2>1, <2>2, <2>4, EndTaskSlots, WorkerWrites
  <2>5. CASE /\ SetRow(task[w].job, b)
             /\ task' = [task EXCEPT ![w].phase = PhaseAfter[@]]
    <3>1. PhaseAfter[task[w].phase] \in Phases
      BY <2>1 DEF PhaseAfter, Phases
    <3>2. task[w] \in [job : Jobs, attempts : 1..MaxAttempts, phase : Phases]
      BY <2>1 DEF TypeOK, Task, FreeSlot, Busy
    <3>3. [task[w] EXCEPT !.phase = PhaseAfter[task[w].phase]] \in Task
      BY <3>1, <3>2 DEF Task
    <3>4. task' = [task EXCEPT ![w] = [task[w] EXCEPT !.phase = PhaseAfter[task[w].phase]]]
      BY <2>5
    <3>5. task' \in [Workers -> Task]
      BY <3>3, <3>4 DEF TypeOK
    <3>6. ASSUME NEW v \in Workers PROVE FreedOrKept(v)
      <4>1. CASE v = w
        BY <3>2, <3>4, <4>1 DEF FreedOrKept, TypeOK
      <4>2. CASE v # w
        BY <3>4, <4>2 DEF FreedOrKept, TypeOK
      <4>3. QED
        BY <4>1, <4>2
    <3>7. QED
      BY <2>1, <2>2, <2>5, <3>5, <3>6, WorkerWrites
  <2>6. QED
    BY <2>3, <2>4, <2>5
<1>4. ASSUME NEW w \in Workers, Complete(w) PROVE IInv'
  <2> DEFINE q == Succeeded(jobs[task[w].job], WorkerId[w])
  <2>1. Busy(w) /\ EndTask(w) /\ UNCHANGED calls /\ SetRow(task[w].job, q)
    BY <1>4 DEF Complete
  <2>2. q \in Row /\ RowOK(q) /\ SameRun(jobs[task[w].job], q)
    BY <1>0, <2>1, BusySlot, WorkerStatementTypes, EndedRow
  <2> HIDE DEF q
  <2>3. QED
    BY <2>1, <2>2, EndTaskSlots, WorkerWrites
<1>5. ASSUME NEW w \in Workers, Fail(w) PROVE IInv'
  <2> DEFINE q == Failed(jobs[task[w].job], WorkerId[w], task[w].attempts)
  <2>1. Busy(w) /\ EndTask(w) /\ UNCHANGED calls /\ SetRow(task[w].job, q)
    BY <1>5 DEF Fail
  <2>2. HeldBy(jobs[task[w].job], WorkerId[w]) => jobs[task[w].job].attempts = task[w].attempts
    BY <2>1 DEF FenceMatchesClaim
  <2>3. q \in Row /\ RowOK(q) /\ SameRun(jobs[task[w].job], q)
    BY <1>0, <2>1, <2>2, BusySlot, WorkerStatementTypes, FailedRow
  <2> HIDE DEF q
  <2>4. QED
    BY <2>1, <2>3, EndTaskSlots, WorkerWrites
<1>6. ASSUME NEW w \in Workers, Crash(w) PROVE IInv'
  <2>1. EndTask(w) /\ UNCHANGED <<jobs, calls>>
    BY <1>6 DEF Crash
  <2>2. TypeOK' /\ \A v \in Workers : FreedOrKept(v)
    BY <2>1, EndTaskSlots DEF TypeOK
  <2>3. FenceMatchesClaim'
    BY <2>1, <2>2 DEF FenceMatchesClaim, FreedOrKept, Busy, HeldBy
  <2>4. QED
    BY <2>1, <2>2, <2>3 DEF LockedIffRunning, NoStrandedJob, GivenUpForCause
<1>7. ASSUME NEW j \in Jobs, EnqueueTranscode(j) \/ RetryJob(j) \/ CancelJob(j)
      PROVE  IInv'
  <2>1. PICK q \in Row : /\ RowOK(q) /\ SameRun(jobs[j], q)
                         /\ SetRow(j, q) /\ UNCHANGED task
                         /\ calls < MaxOperatorCalls /\ calls' = calls + 1
    BY <1>0, <1>7, OperatorStatementTypes, OperatorRow
       DEF EnqueueTranscode, RetryJob, CancelJob, OperatorCall
  <2>2. jobs' \in [Jobs -> Row] /\ \A k \in Jobs : RowOK(jobs'[k])
    BY <1>0, <2>1, SetRowKeepsRows
  <2>3. TypeOK'
    BY <2>1, <2>2 DEF TypeOK
  <2>4. FenceMatchesClaim'
    BY <2>1, SetRowKeepsFence DEF FreedOrKept
  <2>5. QED
    BY <2>2, <2>3, <2>4 DEF LockedIffRunning, NoStrandedJob, GivenUpForCause, RowOK
<1>8. ASSUME Recover \/ Tick PROVE IInv'
  <2>1. UNCHANGED <<task, calls>>
    BY <1>8 DEF Recover, Tick
  <2>2. ASSUME NEW k \in Jobs
        PROVE  jobs'[k] \in Row /\ RowOK(jobs'[k]) /\ SameRun(jobs[k], jobs'[k])
    <3>1. jobs'[k] = Recovered(jobs[k]) \/ jobs'[k] = Aged(jobs[k])
      BY <1>8 DEF Recover, Tick
    <3>2. QED
      BY <1>0, <3>1, RecoveredType, RecoveredRow, AgedType, AgedRow
  <2>3. jobs' \in [Jobs -> Row]
    <3>1. /\ jobs' = [k \in Jobs |-> Recovered(jobs[k])] \/ jobs' = [k \in Jobs |-> Aged(jobs[k])]
      BY <1>8 DEF Recover, Tick
    <3>2. jobs' = [k \in Jobs |-> jobs'[k]]
      BY <3>1
    <3>3. QED
      BY <2>2, <3>2
  <2>4. TypeOK'
    BY <2>1, <2>3 DEF TypeOK
  <2>5. FenceMatchesClaim'
    BY <2>1, <2>2, AllRowsKeepFence
  <2>6. QED
    BY <2>2, <2>4, <2>5 DEF LockedIffRunning, NoStrandedJob, GivenUpForCause, RowOK
<1>9. CASE UNCHANGED vars
  BY <1>9 DEF vars, TypeOK, LockedIffRunning, FenceMatchesClaim, NoStrandedJob,
              GivenUpForCause, Busy, HeldBy
<1>10. QED
  BY <1>1, <1>2, <1>3, <1>4, <1>5, <1>6, <1>7, <1>8, <1>9 DEF Next, WorkerStep, OperatorStep

(* Types, locks, fence and budget of the queue hold in every reachable     *)
(* state, for any number of jobs, workers and attempts and any lease.      *)
THEOREM QueueInvariant ==
  ASSUME DistinctIds
  PROVE  Spec => [](TypeOK /\ LockedIffRunning /\ FenceMatchesClaim
                      /\ NoStrandedJob /\ GivenUpForCause)
<1>1. Init => IInv
  BY InitIInv
<1>2. IInv /\ [Next]_vars => IInv'
  BY NextIInv
<1>3. QED
  BY <1>1, <1>2, PTL DEF Spec, IInv

-----------------------------------------------------------------------------
(* The action property.                                                    *)

(* A statement with the locked_by test leaves a row it does not own alone. *)
LEMMA NotHeldNotMoved ==
  ASSUME NEW r, NEW id, ~HeldBy(r, id)
  PROVE  /\ Beaten(r, id) = r
         /\ Succeeded(r, id) = r
         /\ FinishedCancelled(r, id) = r
         /\ \A n : Failed(r, id, n) = r
  BY DEF Beaten, Succeeded, FinishedCancelled, Failed

(* A task writes to a row only in the run it was claimed for.              *)
THEOREM OnlyHolderMoves ==
  ASSUME DistinctIds
  PROVE  Spec => OnlyHolderMovesItsJob
<1> DEFINE Writes(w) == Heartbeat(w) \/ CheckPoint(w) \/ Complete(w) \/ Fail(w)
           Own(w, j) == /\ task[w].job = j
                        /\ HeldBy(jobs[j], WorkerId[w])
                        /\ jobs[j].attempts = task[w].attempts
           Step == \A w \in Workers : Writes(w) =>
                     \A j \in Jobs : jobs'[j] # jobs[j] => Own(w, j)
<1>1. ASSUME IInv PROVE Step
  <2> SUFFICES ASSUME NEW w \in Workers, Writes(w), NEW j \in Jobs, jobs'[j] # jobs[j]
               PROVE  Own(w, j)
    OBVIOUS
  <2>1. Busy(w)
    BY DEF Heartbeat, CheckPoint, Complete, Fail
  <2>2. PICK q : /\ SetRow(task[w].job, q)
                 /\ ~HeldBy(jobs[task[w].job], WorkerId[w]) => q = jobs[task[w].job]
    BY NotHeldNotMoved DEF Heartbeat, CheckPoint, Complete, Fail
  <2>3. task[w].job = j
    BY <2>2, <1>1 DEF SetRow, IInv, TypeOK
  <2>4. HeldBy(jobs[j], WorkerId[w])
    BY <2>2, <2>3, <1>1 DEF SetRow, IInv, TypeOK
  <2>5. QED
    BY <2>1, <2>3, <2>4, <1>1 DEF IInv, FenceMatchesClaim
<1>2. IInv /\ [Next]_vars => [Step]_vars
  BY <1>1
<1>3. Init => IInv
  BY InitIInv
<1>4. IInv /\ [Next]_vars => IInv'
  BY NextIInv
<1>5. Spec => [][Step]_vars
  BY <1>2, <1>3, <1>4, PTL DEF Spec
<1>6. QED
  BY <1>5 DEF OnlyHolderMovesItsJob

-----------------------------------------------------------------------------
(* The refinement of JobContract.                                          *)

USE DEF Contract!JobStep, Contract!Open, Contract!Take, Contract!Finish, Contract!GiveBack,
        Contract!GiveUp, Contract!AskToStop, Contract!HonourStop, Contract!State, Contract!Absent

LEMMA AllAttemptsLeft == MaxAttempts - 0 = MaxAttempts
  OBVIOUS

LEMMA AbstractType == ASSUME NEW r \in Row PROVE Abstract(r) \in Contract!State
  BY DEF Abstract, Row, Statuses, Waiting

(* Every statement takes a job along one of the steps of the contract.     *)
LEMMA RecoveredStep ==
  ASSUME NEW r \in Row, RowOK(r)
  PROVE  Contract!JobStep(Abstract(r), Abstract(Recovered(r)))
  BY DEF Recovered, RequeueStale, FailStale, FailCancelledRetry, Stale, Unlocked,
         Abstract, RowOK, Row, Statuses, Waiting

LEMMA ClaimedStep ==
  ASSUME NEW r \in Row, NEW id \in Ids, Claimable(r)
  PROVE  Contract!JobStep(Abstract(r), Abstract(ClaimedBy(r, id)))
<1> DEFINE q == ClaimedBy(r, id)
<1>1. /\ r.attempts \in Nat /\ r.attempts < MaxAttempts /\ r.status \in Waiting /\ r.cancel = FALSE
  BY Columns DEF Claimable
<1>2. q.status = "RUNNING" /\ q.attempts = r.attempts + 1 /\ q.cancel = r.cancel
  BY DEF ClaimedBy, Row
<1> HIDE DEF q
<1>3. Abstract(r) = [at |-> "waiting", left |-> MaxAttempts - r.attempts, stop |-> FALSE]
  BY <1>1 DEF Abstract, Waiting
<1>4. Abstract(q) = [at |-> "running", left |-> (MaxAttempts - r.attempts) - 1, stop |-> FALSE]
  <2>1. MaxAttempts - (r.attempts + 1) = (MaxAttempts - r.attempts) - 1
    BY <1>1
  <2>2. QED
    BY <1>1, <1>2, <2>1 DEF Abstract, Waiting
<1>5. Contract!Take(Abstract(r), Abstract(q))
  BY <1>1, <1>3, <1>4
<1>6. QED
  BY <1>5 DEF q

LEMMA WorkerSteps ==
  ASSUME NEW r \in Row, NEW id \in Ids
  PROVE  /\ Contract!JobStep(Abstract(r), Abstract(Beaten(r, id)))
         /\ Contract!JobStep(Abstract(r), Abstract(Succeeded(r, id)))
         /\ r.cancel => Contract!JobStep(Abstract(r), Abstract(FinishedCancelled(r, id)))
  BY DEF Beaten, Succeeded, FinishedCancelled, HeldBy, Unlocked,
         Abstract, Row, Statuses, Waiting

LEMMA FailedStep ==
  ASSUME NEW r \in Row, NEW id \in Ids, NEW n \in 1..MaxAttempts,
         HeldBy(r, id) => r.attempts = n
  PROVE  Contract!JobStep(Abstract(r), Abstract(Failed(r, id, n)))
  BY DEF Failed, HeldBy, Unlocked, Abstract, Row, Statuses, Waiting

LEMMA OperatorSteps ==
  ASSUME NEW r \in Row
  PROVE  /\ Contract!JobStep(Abstract(r), Abstract(Enqueued(r)))
         /\ Contract!JobStep(Abstract(r), Abstract(Retried(r)))
         /\ Contract!JobStep(Abstract(r), Abstract(CancelAsked(r)))
<1>1. ASSUME NEW st \in Waiting,
             Abstract(r).at \in {"absent", "waiting", "failed", "cancelled"}
      PROVE  Contract!JobStep(Abstract(r), Abstract([AbsentRow EXCEPT !.status = st]))
  <2>1. Abstract([AbsentRow EXCEPT !.status = st])
          = [at |-> "waiting", left |-> MaxAttempts, stop |-> FALSE]
    BY AllAttemptsLeft DEF AbsentRow, Abstract, Waiting
  <2>2. Contract!Open(Abstract(r), Abstract([AbsentRow EXCEPT !.status = st]))
    BY <1>1, <2>1
  <2>3. QED
    BY <2>2
<1>2. /\ r.status = "ABSENT" => Abstract(r).at = "absent"
      /\ r.status \in Waiting => Abstract(r).at = "waiting"
      /\ r.status = "RUNNING" => Abstract(r).at = "running"
      /\ r.status = "FAILED" => Abstract(r).at = "failed"
      /\ r.status = "CANCELLED" => Abstract(r).at = "cancelled"
  BY DEF Abstract, Waiting
<1>3. Contract!JobStep(Abstract(r), Abstract(Enqueued(r)))
  <2>1. CASE r.status \in {"ABSENT", "FAILED"}
    <3>1. Enqueued(r) = [AbsentRow EXCEPT !.status = "QUEUED"]
      BY <2>1 DEF Enqueued
    <3>2. QED
      BY <2>1, <3>1, <1>1, <1>2 DEF Waiting
  <2>2. CASE r.status \notin {"ABSENT", "FAILED"}
    BY <2>2 DEF Enqueued
  <2>3. QED
    BY <2>1, <2>2
<1>4. Contract!JobStep(Abstract(r), Abstract(Retried(r)))
  <2>1. CASE r.status \in {"FAILED", "CANCELLED", "RETRY", "QUEUED"}
    <3>1. Retried(r) = [AbsentRow EXCEPT !.status = "RETRY"]
      BY <2>1 DEF Retried
    <3>2. QED
      BY <2>1, <3>1, <1>1, <1>2 DEF Waiting
  <2>2. CASE r.status \notin {"FAILED", "CANCELLED", "RETRY", "QUEUED"}
    BY <2>2 DEF Retried
  <2>3. QED
    BY <2>1, <2>2
<1>5. Contract!JobStep(Abstract(r), Abstract(CancelAsked(r)))
  <2> DEFINE q == CancelAsked(r)
  <2>1. CASE r.status \in Waiting
    <3>1. q.status = "CANCELLED" /\ q.attempts = r.attempts /\ q.cancel = TRUE
      BY <2>1 DEF CancelAsked, Row
    <3>2. Abstract(q) = [at |-> "cancelled", left |-> Abstract(r).left, stop |-> TRUE]
      BY <3>1 DEF Abstract, Waiting
    <3>3. Abstract(r).at = "waiting"
      BY <2>1, <1>2
    <3> HIDE DEF q
    <3>4. Contract!AskToStop(Abstract(r), Abstract(q))
      BY <3>2, <3>3
    <3>5. QED
      BY <3>4 DEF q
  <2>2. CASE r.status = "RUNNING"
    <3>1. q.status = "RUNNING" /\ q.attempts = r.attempts /\ q.cancel = TRUE
      BY <2>2 DEF CancelAsked, Waiting, Row
    <3>2. Abstract(q) = [at |-> "running", left |-> MaxAttempts - r.attempts, stop |-> TRUE]
      BY <3>1 DEF Abstract, Waiting
    <3>3. Abstract(r) = [at |-> "running", left |-> MaxAttempts - r.attempts, stop |-> r.cancel]
      BY <2>2 DEF Abstract, Waiting
    <3> HIDE DEF q
    <3>4. Contract!AskToStop(Abstract(r), Abstract(q))
      BY <3>2, <3>3
    <3>5. QED
      BY <3>4 DEF q
  <2>3. CASE r.status \notin Waiting \cup {"RUNNING"}
    BY <2>3 DEF CancelAsked
  <2>4. QED
    BY <2>1, <2>2, <2>3
<1>6. QED
  BY <1>3, <1>4, <1>5

LEMMA AgedStep ==
  ASSUME NEW r \in Row
  PROVE  Contract!JobStep(Abstract(r), Abstract(Aged(r)))
  BY DEF Aged, Abstract, Row, Statuses, Waiting

(* A step that moves one row along the contract, and one that moves all.   *)
LEMMA OneRowRefines ==
  ASSUME TypeOK, NEW j \in Jobs, NEW r \in Row, SetRow(j, r),
         Contract!JobStep(Abstract(jobs[j]), Abstract(r))
  PROVE  \A k \in Jobs : jobs'[k] \in Row /\ Contract!JobStep(Abstract(jobs[k]), Abstract(jobs'[k]))
<1> SUFFICES ASSUME NEW k \in Jobs
             PROVE  jobs'[k] \in Row /\ Contract!JobStep(Abstract(jobs[k]), Abstract(jobs'[k]))
  OBVIOUS
<1>1. CASE k = j
  BY <1>1 DEF SetRow, TypeOK
<1>2. CASE k # j
  <2>1. jobs'[k] = jobs[k]
    BY <1>2 DEF SetRow, TypeOK
  <2>2. QED
    BY <2>1 DEF TypeOK
<1>3. QED
  BY <1>1, <1>2

(* Every step of the queue is one of the contract, job by job.             *)
LEMMA NextRefines ==
  ASSUME IInv, [Next]_vars
  PROVE  \A k \in Jobs : jobs'[k] \in Row /\ Contract!JobStep(Abstract(jobs[k]), Abstract(jobs'[k]))
<1> DEFINE Goal == \A k \in Jobs : /\ jobs'[k] \in Row
                                   /\ Contract!JobStep(Abstract(jobs[k]), Abstract(jobs'[k]))
<1> USE DEF IInv
<1> HIDE DEF Contract!JobStep
<1>0. \A k \in Jobs : jobs[k] \in Row /\ RowOK(jobs[k])
  BY RowsOK DEF TypeOK
<1>1. ASSUME NEW w \in Workers, NEW j \in Jobs, Claim(w, j) PROVE Goal
  <2>1. ClaimedBy(jobs[j], WorkerId[w]) \in Row
    BY <1>0, <1>1, ClaimedType DEF Claim, Claimable
  <2>2. QED
    BY <1>0, <1>1, <2>1, ClaimedStep, OneRowRefines DEF Claim
<1>2. ASSUME NEW w \in Workers, Heartbeat(w) PROVE Goal
  BY <1>0, <1>2, BusySlot, WorkerStatementTypes, WorkerSteps, OneRowRefines DEF Heartbeat
<1>3. ASSUME NEW w \in Workers, CheckPoint(w) PROVE Goal
  <2> DEFINE r == jobs[task[w].job]
  <2>1. Busy(w)
    BY <1>3 DEF CheckPoint
  <2>2. \/ r.cancel /\ SetRow(task[w].job, FinishedCancelled(r, WorkerId[w]))
        \/ SetRow(task[w].job, Beaten(r, WorkerId[w]))
    BY <1>3 DEF CheckPoint
  <2>3. QED
    BY <1>0, <2>1, <2>2, BusySlot, WorkerStatementTypes, WorkerSteps, OneRowRefines
<1>4. ASSUME NEW w \in Workers, Complete(w) PROVE Goal
  BY <1>0, <1>4, BusySlot, WorkerStatementTypes, WorkerSteps, OneRowRefines DEF Complete
<1>5. ASSUME NEW w \in Workers, Fail(w) PROVE Goal
  <2>1. Busy(w) /\ SetRow(task[w].job, Failed(jobs[task[w].job], WorkerId[w], task[w].attempts))
    BY <1>5 DEF Fail
  <2>2. HeldBy(jobs[task[w].job], WorkerId[w]) => jobs[task[w].job].attempts = task[w].attempts
    BY <2>1 DEF FenceMatchesClaim
  <2>3. QED
    BY <1>0, <2>1, <2>2, BusySlot, WorkerStatementTypes, FailedStep, OneRowRefines
<1>6. ASSUME UNCHANGED jobs PROVE Goal
  BY <1>0, <1>6 DEF Contract!JobStep
<1>7. ASSUME NEW j \in Jobs, EnqueueTranscode(j) \/ RetryJob(j) \/ CancelJob(j) PROVE Goal
  BY <1>0, <1>7, OperatorStatementTypes, OperatorSteps, OneRowRefines
     DEF EnqueueTranscode, RetryJob, CancelJob, OperatorCall
<1>8. ASSUME Recover \/ Tick PROVE Goal
  <2> SUFFICES ASSUME NEW k \in Jobs
               PROVE  /\ jobs'[k] \in Row
                      /\ Contract!JobStep(Abstract(jobs[k]), Abstract(jobs'[k]))
    OBVIOUS
  <2>1. jobs'[k] = Recovered(jobs[k]) \/ jobs'[k] = Aged(jobs[k])
    BY <1>8 DEF Recover, Tick
  <2>2. QED
    BY <1>0, <2>1, RecoveredType, RecoveredStep, AgedType, AgedStep
<1>9. QED
  BY <1>1, <1>2, <1>3, <1>4, <1>5, <1>6, <1>7, <1>8
     DEF Next, WorkerStep, OperatorStep, Crash, vars

(* The queue keeps the promises of JobContract, for every instance.        *)
THEOREM QueueImplementsContract ==
  ASSUME DistinctIds
  PROVE  Spec => ImplementsContract
<1> DEFINE bar == [j \in Jobs |-> Abstract(jobs[j])]
<1>1. Init => Contract!ContractInit
  <2>1. Abstract(AbsentRow) = Contract!Absent
    BY AllAttemptsLeft DEF AbsentRow, Abstract, Waiting
  <2>2. QED
    BY <2>1 DEF Init, Contract!ContractInit
<1>2. IInv /\ [Next]_vars => [Contract!ContractNext]_bar
  <2> SUFFICES ASSUME IInv, [Next]_vars PROVE Contract!ContractNext
    OBVIOUS
  <2>1. bar' = [j \in Jobs |-> Abstract(jobs'[j])]
    OBVIOUS
  <2>2. bar' \in [Jobs -> Contract!State]
    BY <2>1, NextRefines, AbstractType
  <2>3. \A j \in Jobs : bar[j] = Abstract(jobs[j]) /\ bar'[j] = Abstract(jobs'[j])
    BY <2>1
  <2> HIDE DEF bar, Contract!JobStep
  <2>4. \A j \in Jobs : Contract!JobStep(bar[j], bar'[j])
    BY <2>3, NextRefines
  <2>5. QED
    BY <2>2, <2>4 DEF Contract!ContractNext, bar
<1>3. Init => IInv
  BY InitIInv
<1>4. IInv /\ [Next]_vars => IInv'
  BY NextIInv
<1>5. QED
  BY <1>1, <1>2, <1>3, <1>4, PTL DEF Spec, ImplementsContract, Contract!ContractSpec
=============================================================================
