---------------------------- MODULE ContentPipeline ----------------------------
(***************************************************************************)
(* The quality matrix of a source release: runs, their items, the target   *)
(* releases and who keeps them in step with the media jobs                 *)
(* (app/services/content_pipeline.py, the final transaction of             *)
(* app/workers/media_worker.py, _sync_active_pipelines of                  *)
(* app/workers/maintenance.py and the admin calls of app/api/admin.py).    *)
(*                                                                         *)
(* The job queue is JobContract, which MediaJobs implements.  The runs of  *)
(* one source with the same advanced options share the target release of a *)
(* quality (pipeline_key) and with it the job (idempotency_key), so        *)
(* targets and jobs are named by the quality.                              *)
(*                                                                         *)
(* A transaction that synchronises a run reads its rows one statement at a *)
(* time and writes at its commit the attributes that differ from what it   *)
(* loaded.  Row locks only order the commits; two transactions that lock   *)
(* items crosswise are left to commit one after the other, or to abort.    *)
(***************************************************************************)
EXTENDS Integers

CONSTANTS
  Runs,         \* content_pipeline_runs, named by their dedupe_key
  Qualities,    \* quality codes, as integers in the order of the code strings
  Wants,        \* Wants[r]: requested_qualities of run r
  AutoPublish,  \* advanced_settings.auto_publish of the targets
  Workers,      \* media worker slots
  Sessions,     \* sessions of the maintenance and of the admin panel
  Edits,        \* release statuses the admin sets by hand
  Budget,       \* max_attempts of a job
  NoRun, NoJob, NoWorker,
  MaxOperatorCalls   \* bound on rebuilds, listings, retries, cancels and edits

ASSUME PipelineAssumption ==
  /\ Qualities \subseteq Int
  /\ Wants \in [Runs -> (SUBSET Qualities) \ {{}}]
  /\ AutoPublish \in BOOLEAN
  /\ Edits \subseteq {"READY", "PUBLISHED", "ARCHIVED"}
  /\ Budget \in Nat \ {0}
  /\ MaxOperatorCalls \in Nat
  /\ Workers \cap Sessions = {}
  /\ NoRun \notin Runs /\ NoJob \notin Qualities /\ NoWorker \notin Workers

VARIABLES
  queue,    \* the media jobs, as JobContract shows them
  holder,   \* holder[q]: the slot whose claim locks job q
  task,     \* task[w]: the job slot w works on
  run,      \* run[r]: status of the run; a run is committed as RUNNING
  item,     \* item[r][q]: status of the item
  release,  \* release[q]: status of the target
  file,     \* file[q]: an active file is attached to the target
  txn,      \* txn[s]: the open transaction of a slot or session
  calls     \* operator calls made so far

vars == <<queue, holder, task, run, item, release, file, txn, calls>>

Queue == INSTANCE JobContract WITH Jobs <- Qualities, contract <- queue

-----------------------------------------------------------------------------
ItemStatuses == {"NONE", "QUEUED", "RUNNING", "SUCCEEDED", "FAILED", "CANCELLED"}
RunStatuses  == {"NONE", "RUNNING", "SUCCEEDED", "FAILED"}
ReleaseStatuses == {"NONE", "DRAFT", "READY", "PUBLISHED", "ARCHIVED"}

Actors == Workers \cup Sessions

(* on: the run it works on.  own: the job it is about to finish, and won:  *)
(* whether mark_succeeded found the row still locked by the slot.  saw,    *)
(* sawItem: what it loaded.  read[q]: what it made of job q, "NONE" until  *)
(* then.  publish: the targets it is going to publish.                     *)
Txn == [kind : {"none", "sync", "build"}, on : Runs \cup {NoRun},
        own : Qualities \cup {NoJob}, won : BOOLEAN,
        saw : RunStatuses, sawItem : [Qualities -> ItemStatuses],
        read : [Qualities -> ItemStatuses], publish : SUBSET Qualities]

Nothing == [q \in Qualities |-> "NONE"]

Closed == [kind |-> "none", on |-> NoRun, own |-> NoJob, won |-> FALSE,
           saw |-> "NONE", sawItem |-> Nothing, read |-> Nothing, publish |-> {}]

(* sync_pipeline_run: what an item becomes by its job.                     *)
StatusByJob(c) ==
  CASE c.at = "done"      -> "SUCCEEDED"
    [] c.at = "failed"    -> "FAILED"
    [] c.at = "cancelled" -> "CANCELLED"
    [] c.at = "running"   -> "RUNNING"
    [] OTHER              -> "QUEUED"

(* Mutant: one finished item is enough.                                    *)
VerdictAny(statuses) ==
  CASE "SUCCEEDED" \in statuses -> "SUCCEEDED"
    [] OTHER -> IF {"FAILED", "CANCELLED"} \cap statuses # {} THEN "FAILED" ELSE "RUNNING"

(* sync_pipeline_run: what a run becomes by its items.                     *)
Verdict(statuses) ==
  CASE statuses = {"SUCCEEDED"} -> "SUCCEEDED"
    [] {"FAILED", "CANCELLED"} \cap statuses # {} -> "FAILED"
    [] OTHER -> "RUNNING"

(* The flush of a session: an attribute is written when it differs from    *)
(* the value that was loaded.                                              *)
Written(row, loaded, new) == IF new = loaded THEN row ELSE new

(* Mutant: the upsert re-arms a job whatever its status is.                *)
EnqueuedAgain(c) == [at |-> "waiting", left |-> Budget, stop |-> FALSE]

(* The upsert of enqueue_transcode.                                        *)
Enqueued(c) ==
  IF c.at \in {"absent", "failed"}
    THEN [at |-> "waiting", left |-> Budget, stop |-> FALSE] ELSE c

-----------------------------------------------------------------------------
(* The row lock of a mark_succeeded that has not committed yet.            *)
Locked(q) == \E w \in Workers : txn[w].own = q /\ txn[w].won

MoveJob(q, c) == queue' = [queue EXCEPT ![q] = c]

Release(q) == holder' = [holder EXCEPT ![q] = NoWorker]

Idle(s) == txn[s].kind = "none"

(* session.get(ContentPipelineRun, ..., selectinload(items)) in a          *)
(* transaction that has already set the item of its own job to SUCCEEDED.  *)
Loaded(r, kind, own, won) ==
  [kind |-> kind, on |-> r, own |-> own, won |-> won, saw |-> run[r],
   sawItem |-> [item[r] EXCEPT ![own] = "SUCCEEDED"],
   read |-> Nothing, publish |-> {}]

Open(s, t) == txn' = [txn EXCEPT ![s] = t]

Close(s) == txn' = [txn EXCEPT ![s] = Closed]

(* The items whose job the transaction has not looked at yet.              *)
Unread(t) == {q \in Wants[t.on] : t.read[q] = "NONE"}

ReadsAll(t) == t.kind = "sync" /\ Unread(t) = {}

Operator == calls < MaxOperatorCalls /\ calls' = calls + 1

-----------------------------------------------------------------------------
(* build_quality_matrix of a new run.  The unique dedupe_key lets one of   *)
(* several concurrent builds insert it; the others find it RUNNING and     *)
(* return.                                                                 *)
BuildRun(r) ==
  /\ run[r] = "NONE"
  /\ \A q \in Wants[r] : ~Locked(q)
  /\ run' = [run EXCEPT ![r] = "RUNNING"]
  /\ item' = [item EXCEPT ![r] = [q \in Qualities |->
                                    IF q \in Wants[r] THEN "QUEUED" ELSE "NONE"]]
  /\ release' = [q \in Qualities |->
                   IF q \in Wants[r] /\ release[q] = "NONE" THEN "DRAFT" ELSE release[q]]
  /\ queue' = [q \in Qualities |->
                 IF q \in Wants[r] THEN Enqueued(queue[q]) ELSE queue[q]]
  /\ UNCHANGED <<holder, task, file, txn, calls>>

(* build_quality_matrix of a run that FAILED: first it loads the run, ...  *)
RebuildBegin(s, r) ==
  /\ Idle(s)
  /\ run[r] = "FAILED"
  /\ Operator
  /\ Open(s, Loaded(r, "build", NoJob, FALSE))
  /\ UNCHANGED <<queue, holder, task, run, item, release, file>>

(* ... then it enqueues every quality that it did not see SUCCEEDED.  Its  *)
(* upserts lock the job rows until the commit.                             *)
RebuildCommit(s) ==
  LET t == txn[s]
      again == {q \in Wants[t.on] : t.sawItem[q] # "SUCCEEDED"}
  IN /\ t.kind = "build"
     /\ \A q \in again : ~Locked(q)
     /\ run' = [run EXCEPT ![t.on] = Written(@, t.saw, "RUNNING")]
     /\ item' = [item EXCEPT ![t.on] = [q \in Qualities |->
                   IF q \in again THEN Written(item[t.on][q], t.sawItem[q], "QUEUED")
                                  ELSE item[t.on][q]]]
     /\ queue' = [q \in Qualities |-> IF q \in again THEN Enqueued(queue[q]) ELSE queue[q]]
     /\ Close(s)
     /\ UNCHANGED <<holder, task, release, file, calls>>

(* A session's transaction fails: connection lost, or victim of a deadlock.*)
(* An abort before the last read leaves nothing that one after it does not.*)
SessionAborts(s) ==
  /\ txn[s].kind = "build" \/ ReadsAll(txn[s])
  /\ Close(s)
  /\ UNCHANGED <<queue, holder, task, run, item, release, file, calls>>

-----------------------------------------------------------------------------
(* The media worker, apart from its final transaction: claim_job, ...      *)
Claim(w, q) ==
  /\ task[w] = NoJob
  /\ ~Locked(q)
  /\ \E c \in Queue!State : Queue!Take(queue[q], c) /\ MoveJob(q, c)
  /\ holder' = [holder EXCEPT ![q] = w]
  /\ task' = [task EXCEPT ![w] = q]
  /\ UNCHANGED <<run, item, release, file, txn, calls>>

(* ... mark_failure after an exception, which rolls an open transaction    *)
(* back and changes the row only if the slot still holds it, ...           *)
Fail(w) ==
  LET q == task[w]
  IN /\ q # NoJob
     /\ \/ /\ holder[q] = w
           /\ \E c \in Queue!State :
                /\ \/ Queue!GiveBack(queue[q], c)
                   \/ Queue!GiveUp(queue[q], c)
                /\ MoveJob(q, c)
           /\ Release(q)
        \/ holder[q] # w /\ UNCHANGED <<queue, holder>>
     /\ task' = [task EXCEPT ![w] = NoJob]
     /\ Close(w)
     /\ UNCHANGED <<run, item, release, file, calls>>

(* ... the cancel test between two phases, ...                             *)
FinishCancelled(w) ==
  LET q == task[w]
  IN /\ q # NoJob
     /\ Idle(w)
     /\ holder[q] = w
     /\ \E c \in Queue!State : Queue!HonourStop(queue[q], c) /\ MoveJob(q, c)
     /\ Release(q)
     /\ task' = [task EXCEPT ![w] = NoJob]
     /\ UNCHANGED <<run, item, release, file, txn, calls>>

(* ... and a killed process.                                               *)
Crash(w) ==
  /\ task[w] # NoJob
  /\ task' = [task EXCEPT ![w] = NoJob]
  /\ Close(w)
  /\ UNCHANGED <<queue, holder, run, item, release, file, calls>>

(* recover_stale_jobs: a lost lease, or a cancelled job in RETRY.          *)
Recover(q) ==
  /\ ~Locked(q)
  /\ \E c \in Queue!State :
       /\ \/ Queue!GiveBack(queue[q], c)
          \/ Queue!GiveUp(queue[q], c)
       /\ MoveJob(q, c)
  /\ Release(q)
  /\ UNCHANGED <<task, run, item, release, file, txn, calls>>

(* retry_job and cancel_job of the operator.                               *)
RetryJob(q) ==
  /\ Operator
  /\ queue[q].at # "absent"
  /\ \E c \in Queue!State : Queue!Open(queue[q], c) /\ MoveJob(q, c)
  /\ UNCHANGED <<holder, task, run, item, release, file, txn>>

CancelJob(q) ==
  /\ Operator
  /\ ~Locked(q)
  /\ \E c \in Queue!State : Queue!AskToStop(queue[q], c) /\ MoveJob(q, c)
  /\ UNCHANGED <<holder, task, run, item, release, file, txn>>

(* The admin sets a release's status; publishing asks for an active file.  *)
EditRelease(q, status) ==
  /\ Operator
  /\ release[q] # "NONE"
  /\ status = "PUBLISHED" => file[q]
  /\ release' = [release EXCEPT ![q] = status]
  /\ UNCHANGED <<queue, holder, task, run, item, file, txn>>

-----------------------------------------------------------------------------
(* The final transaction of a worker opens: the target becomes READY with  *)
(* its file, mark_succeeded is tried, one item of the job (LIMIT 1, without*)
(* an ORDER BY) is set to SUCCEEDED, and the item's run is loaded.  The    *)
(* UPDATE of the target waits for another worker's of the same target.     *)
FinishBegin(w) ==
  LET q == task[w]
  IN /\ q # NoJob
     /\ Idle(w)
     /\ \A v \in Workers : txn[v].own # q
     /\ \E r \in Runs :
          /\ item[r][q] # "NONE"
          /\ Open(w, Loaded(r, "sync", q, holder[q] = w))
     /\ UNCHANGED <<queue, holder, task, run, item, release, file, calls>>

(* Mutant: the maintenance looks for QUEUED runs only.                     *)
ActiveQueued(r) == run[r] = "QUEUED"

Active(r) == run[r] \in {"QUEUED", "RUNNING"}

(* _sync_active_pipelines takes up one of its runs.                        *)
MaintenanceSync(s, r) ==
  /\ Idle(s)
  /\ Active(r)
  /\ Open(s, Loaded(r, "sync", NoJob, FALSE))
  /\ UNCHANGED <<queue, holder, task, run, item, release, file, calls>>

(* GET /pipelines synchronises every run it lists, whatever its status.    *)
ListPipelines(s, r) ==
  /\ Idle(s)
  /\ run[r] # "NONE"
  /\ Operator
  /\ Open(s, Loaded(r, "sync", NoJob, FALSE))
  /\ UNCHANGED <<queue, holder, task, run, item, release, file>>

(* What the transaction sees of a job: its own write, or what is committed.*)
ReadJob(t, q) == IF q = t.own /\ t.won THEN "SUCCEEDED" ELSE StatusByJob(queue[q])

(* Mutant: one finished quality is enough to publish.                      *)
CompleteAny(t, read) == \E p \in Wants[t.on] : read[p] = "SUCCEEDED"

Complete(t, read) == \A p \in Wants[t.on] : read[p] = "SUCCEEDED"

(* The next item in the order of the relationship, and its job.  After the *)
(* last one _auto_publish_ready_targets looks at the targets, if all are   *)
(* SUCCEEDED; the transaction sees its own target READY.                   *)
SyncRead(s, q) ==
  LET t == txn[s]
      read == [t.read EXCEPT ![q] = ReadJob(t, q)]
      ready == {p \in Wants[t.on] : p = t.own \/ release[p] = "READY"}
  IN /\ t.kind = "sync"
     /\ q \in Unread(t)
     /\ \A p \in Unread(t) : q <= p
     /\ Open(s, [t EXCEPT !.read = read,
                          !.publish = IF Complete(t, read) /\ AutoPublish THEN ready ELSE {}])
     /\ UNCHANGED <<queue, holder, task, run, item, release, file, calls>>

(* The commit of a synchronisation, and with it of a worker's final        *)
(* transaction.                                                            *)
SyncCommit(s) ==
  LET t == txn[s]
  IN /\ ReadsAll(t)
     /\ run' = [run EXCEPT ![t.on] =
                  Written(@, t.saw, Verdict({t.read[q] : q \in Wants[t.on]}))]
     /\ item' = [item EXCEPT ![t.on] = [q \in Qualities |->
                   CASE q \notin Wants[t.on] -> item[t.on][q]
                     [] q = t.own            -> t.read[q]
                     [] OTHER -> Written(item[t.on][q], t.sawItem[q], t.read[q])]]
     /\ release' = [q \in Qualities |->
                      CASE q \in t.publish -> "PUBLISHED"
                        [] q = t.own       -> "READY"
                        [] OTHER           -> release[q]]
     /\ file' = [q \in Qualities |-> file[q] \/ q = t.own]
     /\ queue' = [q \in Qualities |->
                    IF q = t.own /\ t.won THEN [queue[q] EXCEPT !.at = "done"] ELSE queue[q]]
     /\ holder' = [q \in Qualities |-> IF q = t.own /\ t.won THEN NoWorker ELSE holder[q]]
     /\ task' = [w \in Workers |-> IF w = s THEN NoJob ELSE task[w]]
     /\ Close(s)
     /\ UNCHANGED calls

-----------------------------------------------------------------------------
Init ==
  /\ queue = [q \in Qualities |-> Queue!Absent]
  /\ holder = [q \in Qualities |-> NoWorker]
  /\ task = [w \in Workers |-> NoJob]
  /\ run = [r \in Runs |-> "NONE"]
  /\ item = [r \in Runs |-> Nothing]
  /\ release = Nothing
  /\ file = [q \in Qualities |-> FALSE]
  /\ txn = [s \in Actors |-> Closed]
  /\ calls = 0

SlotStep(w) ==
  \/ \E q \in Qualities : Claim(w, q)
  \/ Fail(w)
  \/ FinishCancelled(w)
  \/ Crash(w)
  \/ FinishBegin(w)

SessionStep(s) ==
  \/ \E r \in Runs : RebuildBegin(s, r) \/ MaintenanceSync(s, r) \/ ListPipelines(s, r)
  \/ RebuildCommit(s)
  \/ SessionAborts(s)

OperatorStep(q) ==
  \/ RetryJob(q)
  \/ CancelJob(q)
  \/ \E status \in Edits : EditRelease(q, status)

Next ==
  \/ \E r \in Runs : BuildRun(r)
  \/ \E w \in Workers : SlotStep(w)
  \/ \E s \in Sessions : SessionStep(s)
  \/ \E s \in Actors : SyncCommit(s) \/ \E q \in Qualities : SyncRead(s, q)
  \/ \E q \in Qualities : Recover(q) \/ OperatorStep(q)

Spec == Init /\ [][Next]_vars

(* A job RUNNING in the table that no slot works on any more.              *)
Orphaned(q) == holder[q] # NoWorker /\ task[holder[q]] # q

(* Waiting jobs are claimed and worked on, transactions come to an end (of *)
(* the maintenance's, some are aborted but not all of them), and the       *)
(* maintenance recovers orphans and takes up every run that stays RUNNING. *)
(* Nothing is assumed of operators, the admin panel, failures and crashes. *)
Fairness ==
  /\ \A q \in Qualities : WF_vars(\E w \in Workers : Claim(w, q))
  /\ \A w \in Workers : WF_vars(FinishBegin(w) \/ FinishCancelled(w))
  /\ \A s \in Actors : WF_vars(\E q \in Qualities : SyncRead(s, q))
  /\ \A w \in Workers : WF_vars(SyncCommit(w))
  /\ \A s \in Sessions : SF_vars(SyncCommit(s)) /\ WF_vars(RebuildCommit(s))
  /\ \A q \in Qualities : WF_vars((Orphaned(q) \/ queue[q].at = "waiting") /\ Recover(q))
  /\ \A r \in Runs : SF_vars(\E s \in Sessions : MaintenanceSync(s, r))

FairSpec == Spec /\ Fairness

-----------------------------------------------------------------------------
(* Types of the tables and of the open transactions.                       *)
TypeOK ==
  /\ queue \in [Qualities -> Queue!State]
  /\ holder \in [Qualities -> Workers \cup {NoWorker}]
  /\ task \in [Workers -> Qualities \cup {NoJob}]
  /\ run \in [Runs -> RunStatuses]
  /\ item \in [Runs -> [Qualities -> ItemStatuses]]
  /\ release \in [Qualities -> ReleaseStatuses]
  /\ file \in [Qualities -> BOOLEAN]
  /\ txn \in [Actors -> Txn]
  /\ calls \in 0..MaxOperatorCalls

Done(q) == queue[q].at = "done"

(* A SUCCEEDED item has a finished job: a rebuild skips it, so an item     *)
(* that a worker without a lease, or a stale read, made SUCCEEDED would    *)
(* never be produced.                                                      *)
SucceededItemIsDone ==
  \A r \in Runs, q \in Qualities : item[r][q] = "SUCCEEDED" => Done(q)

(* A SUCCEEDED run is complete: every quality asked for is done and its    *)
(* target has a file.                                                      *)
SucceededRunIsComplete ==
  \A r \in Runs : run[r] = "SUCCEEDED" => \A q \in Wants[r] : Done(q) /\ file[q]

(* Nobody is offered a release without a file, whoever published it.       *)
PublishedHasFile ==
  \A q \in Qualities : release[q] = "PUBLISHED" => file[q]

(* A synchronisation publishes a target only as part of a complete run.    *)
PublishedWithItsRun ==
  [][\A s \in Actors, q \in Qualities :
       SyncCommit(s) /\ release[q] # "PUBLISHED" /\ release'[q] = "PUBLISHED"
         => \A p \in Wants[txn[s].on] : queue'[p].at = "done"]_vars

(* The pipeline uses the queue by its contract: however often a matrix is  *)
(* rebuilt or a worker comes back late, a job that is done stays done.     *)
KeepsQueueContract == Queue!ContractSpec

(* A run does not stay RUNNING: also when its last two jobs finish at the  *)
(* same moment and neither worker sees the other's result.                 *)
EveryRunSettles ==
  \A r \in Runs : run[r] = "RUNNING" ~> run[r] \in {"SUCCEEDED", "FAILED"}
=============================================================================
