------------------------- MODULE ContentPipelineProofs -------------------------
(***************************************************************************)
(* Theorems about ContentPipeline, for any number of runs, qualities,      *)
(* workers and sessions: what SUCCEEDED means for an item and for a run,   *)
(* when a target is published, and that the pipeline keeps to the contract *)
(* of the job queue.                                                       *)
(***************************************************************************)
EXTENDS ContentPipeline, TLAPS

(* A job that is done left its file with its target.                       *)
DoneHasFile == \A q \in Qualities : Done(q) => file[q]

RunDone ==
  \A r \in Runs : run[r] = "SUCCEEDED" => \A q \in Wants[r] : Done(q)

HolderOK == \A q \in Qualities : holder[q] # NoWorker <=> queue[q].at = "running"

(* A transaction whose mark_succeeded matched holds the job it finishes.   *)
OwnOK(s) ==
  txn[s].won => /\ s \in Workers
                /\ txn[s].kind = "sync"
                /\ txn[s].own \in Qualities
                /\ task[s] = txn[s].own
                /\ holder[txn[s].own] = s

(* What a transaction took for SUCCEEDED is, or will be with its commit.   *)
ReadOK(s) ==
  \A q \in Qualities :
    txn[s].read[q] = "SUCCEEDED" => Done(q) \/ (txn[s].won /\ txn[s].own = q)

PublishOK(s) ==
  txn[s].publish # {} =>
    \A p \in Wants[txn[s].on] : txn[s].read[p] = "SUCCEEDED"

PublishedOwnRun(s) == txn[s].publish \subseteq Wants[txn[s].on]

OpenOK(s) == txn[s].kind # "none" => txn[s].on \in Runs

(* What a transaction read, apart from the job it holds.                   *)
SyncOK(s) ==
  /\ ReadOK(s)
  /\ PublishOK(s)
  /\ OpenOK(s)
  /\ txn[s].kind # "none" => PublishedOwnRun(s)
  /\ txn[s].kind = "none" => txn[s].publish = {}

TxnOK(s) == OwnOK(s) /\ SyncOK(s)

IInv ==
  /\ TypeOK
  /\ DoneHasFile
  /\ SucceededItemIsDone
  /\ RunDone
  /\ PublishedHasFile
  /\ HolderOK
  /\ \A s \in Actors : TxnOK(s)

-----------------------------------------------------------------------------
LEMMA StateFields ==
  ASSUME NEW c \in Queue!State
  PROVE  /\ c.at \in {"absent", "waiting", "running", "done", "failed", "cancelled"}
         /\ c.left \in 0..Budget
         /\ c.stop \in BOOLEAN
BY DEF Queue!State

(* A step of the contract never leaves "done".                             *)
LEMMA DoneStays ==
  ASSUME NEW old, NEW new, Queue!JobStep(old, new), old.at = "done"
  PROVE  new.at = "done"
BY DEF Queue!JobStep, Queue!Open, Queue!Take, Queue!Finish, Queue!GiveBack,
       Queue!GiveUp, Queue!AskToStop, Queue!HonourStop

LEMMA EnqueuedStep ==
  ASSUME NEW c \in Queue!State
  PROVE  Enqueued(c) \in Queue!State /\ Queue!JobStep(c, Enqueued(c))
         /\ (Enqueued(c).at = "running" <=> c.at = "running")
<1>1. CASE c.at \in {"absent", "failed"}
  <2>1. Enqueued(c) = [at |-> "waiting", left |-> Budget, stop |-> FALSE]
    BY <1>1 DEF Enqueued
  <2>2. Budget \in 0..Budget
    BY PipelineAssumption
  <2>3. QED
    BY <1>1, <2>1, <2>2 DEF Queue!State, Queue!JobStep, Queue!Open
<1>2. CASE c.at \notin {"absent", "failed"}
  <2>1. Enqueued(c) = c
    BY <1>2 DEF Enqueued
  <2>2. QED
    BY <2>1 DEF Queue!JobStep
<1>3. QED
  BY <1>1, <1>2

(* What one job's move does to the queue.                                  *)
LEMMA MoveOne ==
  ASSUME TypeOK, NEW q \in Qualities, NEW c \in Queue!State,
         Queue!JobStep(queue[q], c), MoveJob(q, c)
  PROVE  /\ queue' \in [Qualities -> Queue!State]
         /\ \A p \in Qualities : Queue!JobStep(queue[p], queue'[p])
         /\ queue'[q] = c
         /\ \A p \in Qualities : p # q => queue'[p] = queue[p]
<1>1. queue \in [Qualities -> Queue!State] /\ queue' = [queue EXCEPT ![q] = c]
  BY DEF TypeOK, MoveJob
<1>2. /\ queue' \in [Qualities -> Queue!State]
      /\ queue'[q] = c
      /\ \A p \in Qualities : p # q => queue'[p] = queue[p]
  BY <1>1
<1>3. ASSUME NEW p \in Qualities PROVE Queue!JobStep(queue[p], queue'[p])
  <2>1. CASE p = q
    BY <2>1, <1>2
  <2>2. CASE p # q
    BY <2>2, <1>2 DEF Queue!JobStep
  <2>3. QED
    BY <2>1, <2>2
<1>4. QED
  BY <1>2, <1>3

Stays == queue' \in [Qualities -> Queue!State]
           /\ \A q \in Qualities : Queue!JobStep(queue[q], queue'[q])

LEMMA QueueUnchanged ==
  ASSUME TypeOK, UNCHANGED queue
  PROVE  Stays
BY DEF TypeOK, Stays, Queue!JobStep

(* Every step of the pipeline moves each job by a step of the contract.    *)
LEMMA QueueMoves ==
  ASSUME IInv, [Next]_vars
  PROVE  Stays
<1> USE DEF IInv
<1>1. ASSUME NEW r \in Runs, BuildRun(r) PROVE Stays
  <2>1. ASSUME NEW q \in Qualities
        PROVE  queue'[q] \in Queue!State /\ Queue!JobStep(queue[q], queue'[q])
    <3>1. queue[q] \in Queue!State
      BY DEF TypeOK
    <3>2. queue'[q] = IF q \in Wants[r] THEN Enqueued(queue[q]) ELSE queue[q]
      BY <1>1 DEF BuildRun
    <3>3. QED
      BY <3>1, <3>2, EnqueuedStep DEF Queue!JobStep
  <2>2. queue' = [q \in Qualities |-> queue'[q]]
    BY <1>1 DEF BuildRun
  <2>3. QED
    BY <2>1, <2>2 DEF Stays
<1>2. ASSUME NEW s \in Sessions, RebuildCommit(s) PROVE Stays
  <2> DEFINE again == {q \in Wants[txn[s].on] : txn[s].sawItem[q] # "SUCCEEDED"}
  <2>1. queue' = [q \in Qualities |-> IF q \in again THEN Enqueued(queue[q]) ELSE queue[q]]
    BY <1>2 DEF RebuildCommit
  <2> HIDE DEF again
  <2>2. ASSUME NEW q \in Qualities
        PROVE  queue'[q] \in Queue!State /\ Queue!JobStep(queue[q], queue'[q])
    <3>1. queue[q] \in Queue!State
      BY DEF TypeOK
    <3>2. queue'[q] = IF q \in again THEN Enqueued(queue[q]) ELSE queue[q]
      BY <2>1
    <3>3. QED
      BY <3>1, <3>2, EnqueuedStep DEF Queue!JobStep
  <2>3. QED
    BY <2>1, <2>2 DEF Stays
<1>3. ASSUME NEW w \in Workers, NEW q \in Qualities, Claim(w, q) PROVE Stays
  <2>1. PICK c \in Queue!State : Queue!Take(queue[q], c) /\ MoveJob(q, c)
    BY <1>3 DEF Claim
  <2>2. QED
    BY <2>1, MoveOne DEF Queue!JobStep, Stays
<1>4. ASSUME NEW w \in Workers, Fail(w) PROVE Stays
  <2>1. task[w] \in Qualities
    BY <1>4 DEF Fail, TypeOK
  <2>2. CASE holder[task[w]] = w
    <3>1. PICK c \in Queue!State :
            /\ Queue!GiveBack(queue[task[w]], c) \/ Queue!GiveUp(queue[task[w]], c)
            /\ MoveJob(task[w], c)
      BY <1>4, <2>2 DEF Fail
    <3>2. QED
      BY <2>1, <3>1, MoveOne DEF Queue!JobStep, Stays
  <2>3. CASE holder[task[w]] # w
    BY <1>4, <2>3, QueueUnchanged DEF Fail
  <2>4. QED
    BY <2>2, <2>3
<1>5. ASSUME NEW w \in Workers, FinishCancelled(w) PROVE Stays
  <2>1. task[w] \in Qualities
    BY <1>5 DEF FinishCancelled, TypeOK
  <2>2. PICK c \in Queue!State : Queue!HonourStop(queue[task[w]], c) /\ MoveJob(task[w], c)
    BY <1>5 DEF FinishCancelled
  <2>3. QED
    BY <2>1, <2>2, MoveOne DEF Queue!JobStep, Stays
<1>6. ASSUME NEW q \in Qualities, Recover(q) PROVE Stays
  <2>1. PICK c \in Queue!State :
          /\ Queue!GiveBack(queue[q], c) \/ Queue!GiveUp(queue[q], c)
          /\ MoveJob(q, c)
    BY <1>6 DEF Recover
  <2>2. QED
    BY <2>1, MoveOne DEF Queue!JobStep, Stays
<1>7. ASSUME NEW q \in Qualities, RetryJob(q) PROVE Stays
  <2>1. PICK c \in Queue!State : Queue!Open(queue[q], c) /\ MoveJob(q, c)
    BY <1>7 DEF RetryJob
  <2>2. QED
    BY <2>1, MoveOne DEF Queue!JobStep, Stays
<1>8. ASSUME NEW q \in Qualities, CancelJob(q) PROVE Stays
  <2>1. PICK c \in Queue!State : Queue!AskToStop(queue[q], c) /\ MoveJob(q, c)
    BY <1>8 DEF CancelJob
  <2>2. QED
    BY <2>1, MoveOne DEF Queue!JobStep, Stays
<1>9. ASSUME NEW s \in Actors, SyncCommit(s) PROVE Stays
  <2> DEFINE t == txn[s]
  <2>1. queue' = [q \in Qualities |->
                    IF q = t.own /\ t.won THEN [queue[q] EXCEPT !.at = "done"] ELSE queue[q]]
    BY <1>9 DEF SyncCommit
  <2>2. ASSUME NEW q \in Qualities
        PROVE  queue'[q] \in Queue!State /\ Queue!JobStep(queue[q], queue'[q])
    <3>1. queue[q] \in Queue!State
      BY DEF TypeOK
    <3>2. CASE q = t.own /\ t.won
      <4>1. queue[q].at = "running"
        BY <3>2, PipelineAssumption DEF TxnOK, OwnOK, HolderOK
      <4>2. queue'[q] = [queue[q] EXCEPT !.at = "done"]
        BY <2>1, <3>2
      <4>3. queue'[q] \in Queue!State
        BY <3>1, <4>2 DEF Queue!State
      <4>4. QED
        BY <4>1, <4>2, <4>3 DEF Queue!JobStep, Queue!Finish
    <3>3. CASE ~(q = t.own /\ t.won)
      BY <2>1, <3>1, <3>3 DEF Queue!JobStep
    <3>4. QED
      BY <3>2, <3>3
  <2>3. QED
    BY <2>1, <2>2 DEF Stays
<1>10. CASE UNCHANGED queue
  BY <1>10, QueueUnchanged
<1>11. QED
  BY <1>1, <1>2, <1>3, <1>4, <1>5, <1>6, <1>7, <1>8, <1>9, <1>10
  DEF Next, SlotStep, SessionStep, OperatorStep, vars, Crash, FinishBegin, RebuildBegin,
      MaintenanceSync, ListPipelines, SessionAborts, SyncRead, EditRelease

(* A job that is done stays done.                                          *)
LEMMA DoneForever ==
  ASSUME IInv, [Next]_vars, NEW q \in Qualities, Done(q)
  PROVE  Done(q)'
<1>1. Queue!JobStep(queue[q], queue'[q])
  BY QueueMoves DEF Stays
<1>2. QED
  BY <1>1, DoneStays DEF Done

-----------------------------------------------------------------------------
LEMMA ClosedType == Closed \in Txn
BY DEF Closed, Txn, Nothing, ItemStatuses, RunStatuses

LEMMA LoadedType ==
  ASSUME TypeOK, NEW r \in Runs, NEW kind \in {"sync", "build"},
         NEW own \in Qualities \cup {NoJob}, NEW won \in BOOLEAN
  PROVE  Loaded(r, kind, own, won) \in Txn
<1>1. run[r] \in RunStatuses /\ item[r] \in [Qualities -> ItemStatuses]
  BY DEF TypeOK
<1>2. [item[r] EXCEPT ![own] = "SUCCEEDED"] \in [Qualities -> ItemStatuses]
  BY <1>1 DEF ItemStatuses
<1>3. Nothing \in [Qualities -> ItemStatuses]
  BY DEF Nothing, ItemStatuses
<1>4. QED
  BY <1>1, <1>2, <1>3 DEF Loaded, Txn

LEMMA TxnFields ==
  ASSUME TypeOK, NEW s \in Actors
  PROVE  /\ txn[s] \in Txn
         /\ txn[s].kind \in {"none", "sync", "build"}
         /\ txn[s].on \in Runs \cup {NoRun}
         /\ txn[s].own \in Qualities \cup {NoJob}
         /\ txn[s].won \in BOOLEAN
         /\ txn[s].saw \in RunStatuses
         /\ txn[s].sawItem \in [Qualities -> ItemStatuses]
         /\ txn[s].read \in [Qualities -> ItemStatuses]
         /\ txn[s].publish \subseteq Qualities
<1>1. txn[s] \in Txn
  BY DEF TypeOK
<1>2. QED
  BY <1>1 DEF Txn

LEMMA OpenTypes ==
  ASSUME TypeOK, NEW s \in Actors, NEW t \in Txn, Open(s, t)
  PROVE  /\ txn' \in [Actors -> Txn]
         /\ txn'[s] = t
         /\ \A u \in Actors : u # s => txn'[u] = txn[u]
BY DEF Open, TypeOK

LEMMA CloseTypes ==
  ASSUME TypeOK, NEW s \in Actors, Close(s)
  PROVE  /\ txn' \in [Actors -> Txn]
         /\ txn'[s] = Closed
         /\ \A u \in Actors : u # s => txn'[u] = txn[u]
BY ClosedType DEF Close, TypeOK

LEMMA ReadStatus ==
  ASSUME TypeOK, NEW s \in Actors, NEW q \in Qualities
  PROVE  ReadJob(txn[s], q) \in ItemStatuses \ {"NONE"}
BY DEF ReadJob, StatusByJob, ItemStatuses

(* A read transaction with one more item read.                             *)
ReadOne(s, q) == [txn[s].read EXCEPT ![q] = ReadJob(txn[s], q)]

LEMMA ReadTypes ==
  ASSUME TypeOK, NEW s \in Actors, NEW q \in Qualities, SyncRead(s, q),
         txn[s].on \in Runs
  PROVE  /\ txn' \in [Actors -> Txn]
         /\ txn'[s].kind = "sync"
         /\ txn'[s].on = txn[s].on
         /\ txn'[s].own = txn[s].own
         /\ txn'[s].won = txn[s].won
         /\ txn'[s].read = ReadOne(s, q)
         /\ txn'[s].publish =
              IF Complete(txn[s], ReadOne(s, q)) /\ AutoPublish
                THEN {p \in Wants[txn[s].on] : p = txn[s].own \/ release[p] = "READY"} ELSE {}
         /\ \A u \in Actors : u # s => txn'[u] = txn[u]
<1> DEFINE publish == IF Complete(txn[s], ReadOne(s, q)) /\ AutoPublish
                THEN {p \in Wants[txn[s].on] : p = txn[s].own \/ release[p] = "READY"} ELSE {}
           new == [txn[s] EXCEPT !.read = ReadOne(s, q), !.publish = publish]
<1>1. txn' = [txn EXCEPT ![s] = new] /\ txn[s].kind = "sync"
  BY DEF SyncRead, Open, ReadOne
<1>2. ReadOne(s, q) \in [Qualities -> ItemStatuses]
  BY TxnFields, ReadStatus DEF ReadOne
<1>3. publish \subseteq Qualities
  BY PipelineAssumption
<1>4. txn[s] \in Txn
  BY TxnFields
<1> HIDE DEF publish
<1>5. /\ new \in Txn
      /\ new.kind = txn[s].kind /\ new.on = txn[s].on /\ new.own = txn[s].own
      /\ new.won = txn[s].won /\ new.read = ReadOne(s, q) /\ new.publish = publish
  BY <1>2, <1>3, <1>4 DEF Txn
<1> HIDE DEF new
<1>6. /\ txn' \in [Actors -> Txn]
      /\ txn'[s] = new
      /\ \A u \in Actors : u # s => txn'[u] = txn[u]
  BY <1>1, <1>5 DEF TypeOK
<1>7. QED
  BY <1>1, <1>5, <1>6 DEF publish

-----------------------------------------------------------------------------
(* Types.                                                                  *)
Tables ==
  /\ run \in [Runs -> RunStatuses]
  /\ item \in [Runs -> [Qualities -> ItemStatuses]]
  /\ release \in [Qualities -> ReleaseStatuses]
  /\ file \in [Qualities -> BOOLEAN]

Slots ==
  /\ holder \in [Qualities -> Workers \cup {NoWorker}]
  /\ task \in [Workers -> Qualities \cup {NoJob}]

LEMMA TypeParts == TypeOK => Tables /\ Slots
BY DEF TypeOK, Tables, Slots

LEMMA TablesStep ==
  ASSUME IInv, [Next]_vars
  PROVE  Tables'
<1> USE DEF IInv
<1>1. Tables
  BY TypeParts
<1>2. ASSUME NEW r \in Runs, BuildRun(r) PROVE Tables'
  <2>1. run' \in [Runs -> RunStatuses]
    BY <1>1, <1>2 DEF BuildRun, Tables, RunStatuses
  <2>2. [q \in Qualities |-> IF q \in Wants[r] THEN "QUEUED" ELSE "NONE"]
          \in [Qualities -> ItemStatuses]
    BY DEF ItemStatuses
  <2>3. item' \in [Runs -> [Qualities -> ItemStatuses]]
    BY <1>1, <1>2, <2>2 DEF BuildRun, Tables
  <2>4. release' \in [Qualities -> ReleaseStatuses]
    BY <1>1, <1>2 DEF BuildRun, Tables, ReleaseStatuses
  <2>5. QED
    BY <1>1, <1>2, <2>1, <2>3, <2>4 DEF BuildRun, Tables
<1>3. ASSUME NEW s \in Sessions, RebuildCommit(s) PROVE Tables'
  <2> DEFINE t == txn[s]
             again == {q \in Wants[t.on] : t.sawItem[q] # "SUCCEEDED"}
             row == [q \in Qualities |->
                       IF q \in again THEN Written(item[t.on][q], t.sawItem[q], "QUEUED")
                                      ELSE item[t.on][q]]
  <2>1. t.on \in Runs
    BY <1>3 DEF RebuildCommit, TxnOK, SyncOK, OpenOK, Actors
  <2>2. item[t.on] \in [Qualities -> ItemStatuses] /\ run[t.on] \in RunStatuses
    BY <1>1, <2>1 DEF Tables
  <2>3. run' \in [Runs -> RunStatuses]
    BY <1>1, <1>3, <2>1, <2>2 DEF RebuildCommit, Tables, Written, RunStatuses
  <2>4. item' = [item EXCEPT ![t.on] = row] /\ UNCHANGED <<release, file>>
    BY <1>3 DEF RebuildCommit
  <2> HIDE DEF again
  <2>5. row \in [Qualities -> ItemStatuses]
    BY <2>2 DEF Written, ItemStatuses
  <2> HIDE DEF row, t
  <2>6. item' \in [Runs -> [Qualities -> ItemStatuses]]
    BY <1>1, <2>1, <2>4, <2>5 DEF Tables
  <2>7. QED
    BY <1>1, <2>3, <2>4, <2>6 DEF Tables
<1>4. ASSUME NEW s \in Actors, SyncCommit(s) PROVE Tables'
  <2> DEFINE t == txn[s]
             row == [q \in Qualities |->
                   CASE q \notin Wants[t.on] -> item[t.on][q]
                     [] q = t.own            -> t.read[q]
                     [] OTHER -> Written(item[t.on][q], t.sawItem[q], t.read[q])]
  <2>1. t.on \in Runs
    BY <1>4 DEF SyncCommit, ReadsAll, TxnOK, SyncOK, OpenOK
  <2>2. item[t.on] \in [Qualities -> ItemStatuses] /\ run[t.on] \in RunStatuses
    BY <1>1, <2>1 DEF Tables
  <2>3. run' \in [Runs -> RunStatuses]
    BY <1>1, <1>4, <2>1, <2>2 DEF SyncCommit, Tables, Written, RunStatuses, Verdict
  <2>4. item' = [item EXCEPT ![t.on] = row]
    BY <1>4 DEF SyncCommit
  <2>5. row \in [Qualities -> ItemStatuses]
    BY <2>2, TxnFields DEF Written
  <2>6. release' \in [Qualities -> ReleaseStatuses] /\ file' \in [Qualities -> BOOLEAN]
    BY <1>1, <1>4 DEF SyncCommit, Tables, ReleaseStatuses
  <2> HIDE DEF row, t
  <2>7. item' \in [Runs -> [Qualities -> ItemStatuses]]
    BY <1>1, <2>1, <2>4, <2>5 DEF Tables
  <2>8. QED
    BY <2>3, <2>6, <2>7 DEF Tables
<1>5. ASSUME NEW q \in Qualities, NEW status \in Edits, EditRelease(q, status) PROVE Tables'
  <2>1. status \in ReleaseStatuses
    BY PipelineAssumption DEF ReleaseStatuses
  <2>2. QED
    BY <1>1, <1>5, <2>1 DEF EditRelease, Tables
<1>6. CASE UNCHANGED <<run, item, release, file>>
  BY <1>1, <1>6 DEF Tables
<1>7. QED
  BY <1>2, <1>3, <1>4, <1>5, <1>6
  DEF Next, SlotStep, SessionStep, OperatorStep, vars, Claim, Fail, FinishCancelled, Crash,
      FinishBegin, RebuildBegin, MaintenanceSync, ListPipelines, SessionAborts, SyncRead,
      Recover, RetryJob, CancelJob

LEMMA SlotsStep ==
  ASSUME IInv, [Next]_vars
  PROVE  Slots'
<1> USE DEF IInv
<1>1. Slots
  BY TypeParts
<1>2. ASSUME NEW w \in Workers, SlotStep(w) PROVE Slots'
  BY <1>1, <1>2 DEF SlotStep, Claim, Fail, FinishCancelled, Crash, FinishBegin, Release, Slots
<1>3. ASSUME NEW s \in Actors, SyncCommit(s) PROVE Slots'
  BY <1>1, <1>3 DEF SyncCommit, Slots
<1>4. ASSUME NEW q \in Qualities, Recover(q) PROVE Slots'
  BY <1>1, <1>4 DEF Recover, Release, Slots
<1>5. CASE UNCHANGED <<holder, task>>
  BY <1>1, <1>5 DEF Slots
<1>6. QED
  BY <1>2, <1>3, <1>4, <1>5
  DEF Next, SessionStep, OperatorStep, vars, BuildRun, RebuildBegin, RebuildCommit,
      MaintenanceSync, ListPipelines, SessionAborts, SyncRead, RetryJob, CancelJob, EditRelease

LEMMA CallsStep ==
  ASSUME IInv, [Next]_vars
  PROVE  calls' \in 0..MaxOperatorCalls
<1>1. calls \in 0..MaxOperatorCalls /\ MaxOperatorCalls \in Nat
  BY PipelineAssumption DEF IInv, TypeOK
<1>2. CASE Operator
  BY <1>1, <1>2 DEF Operator
<1>3. CASE UNCHANGED calls
  BY <1>1, <1>3
<1>4. QED
  BY <1>2, <1>3
  DEF Next, SlotStep, SessionStep, OperatorStep, vars, BuildRun, Claim, Fail, FinishCancelled,
      Crash, FinishBegin, RebuildBegin, RebuildCommit, MaintenanceSync, ListPipelines,
      SessionAborts, SyncRead, SyncCommit, Recover, RetryJob, CancelJob, EditRelease

-----------------------------------------------------------------------------
(* What an open transaction has read stays true.                           *)
LEMMA SyncSame ==
  ASSUME IInv, [Next]_vars, NEW s \in Actors, txn'[s] = txn[s]
  PROVE  SyncOK(s)'
<1>1. SyncOK(s)
  BY DEF IInv, TxnOK
<1>2. \A q \in Qualities : Done(q) => Done(q)'
  BY DoneForever
<1>3. QED
  BY <1>1, <1>2 DEF SyncOK, ReadOK, PublishOK, OpenOK, PublishedOwnRun

LEMMA SyncClosed ==
  ASSUME NEW s \in Actors, txn'[s] = Closed
  PROVE  SyncOK(s)'
BY DEF SyncOK, ReadOK, PublishOK, OpenOK, PublishedOwnRun, Closed, Nothing

LEMMA SyncLoaded ==
  ASSUME NEW s \in Actors, NEW r \in Runs, NEW kind, NEW own, NEW won, kind # "none",
         txn'[s] = Loaded(r, kind, own, won)
  PROVE  SyncOK(s)'
BY DEF SyncOK, ReadOK, PublishOK, OpenOK, PublishedOwnRun, Loaded, Nothing

LEMMA SyncReads ==
  ASSUME IInv, [Next]_vars, NEW s \in Actors, NEW q \in Qualities, SyncRead(s, q)
  PROVE  txn' \in [Actors -> Txn] /\ \A u \in Actors : SyncOK(u)'
<1> DEFINE t == txn[s]
<1>1. SyncOK(s) /\ TypeOK
  BY DEF IInv, TxnOK
<1>2. t.on \in Runs /\ t.kind = "sync"
  BY <1>1 DEF SyncOK, OpenOK, SyncRead
<1>3. /\ txn' \in [Actors -> Txn]
      /\ txn'[s].kind = "sync"
      /\ txn'[s].on = t.on
      /\ txn'[s].own = t.own
      /\ txn'[s].won = t.won
      /\ txn'[s].read = ReadOne(s, q)
      /\ txn'[s].publish =
           IF Complete(t, ReadOne(s, q)) /\ AutoPublish
             THEN {p \in Wants[t.on] : p = t.own \/ release[p] = "READY"} ELSE {}
      /\ \A u \in Actors : u # s => txn'[u] = txn[u]
  BY <1>1, <1>2, ReadTypes
<1>4. ReadOK(s)'
  <2>1. ASSUME NEW p \in Qualities, ReadOne(s, q)[p] = "SUCCEEDED"
        PROVE  Done(p)' \/ (t.won /\ t.own = p)
    <3>1. t.read \in [Qualities -> ItemStatuses]
      BY <1>1, TxnFields
    <3>2. CASE p = q
      <4>1. ReadJob(t, q) = "SUCCEEDED"
        BY <2>1, <3>1, <3>2 DEF ReadOne
      <4>2. (t.own = q /\ t.won) \/ queue[q].at = "done"
        BY <4>1 DEF ReadJob, StatusByJob
      <4>3. QED
        BY <3>2, <4>2, DoneForever DEF Done
    <3>3. CASE p # q
      <4>1. t.read[p] = "SUCCEEDED"
        BY <2>1, <3>1, <3>3 DEF ReadOne
      <4>2. Done(p) \/ (t.won /\ t.own = p)
        BY <1>1, <4>1 DEF SyncOK, ReadOK
      <4>3. QED
        BY <4>2, DoneForever
    <3>4. QED
      BY <3>2, <3>3
  <2>2. QED
    BY <1>3, <2>1 DEF ReadOK
<1>5. PublishOK(s)'
  BY <1>3 DEF PublishOK, Complete
<1>6. PublishedOwnRun(s)'
  BY <1>3 DEF PublishedOwnRun
<1>7. SyncOK(s)'
  BY <1>2, <1>3, <1>4, <1>5, <1>6 DEF SyncOK, OpenOK
<1>8. ASSUME NEW u \in Actors PROVE SyncOK(u)'
  <2>1. CASE u = s
    BY <1>7, <2>1
  <2>2. CASE u # s
    BY <1>3, <2>2, SyncSame
  <2>3. QED
    BY <2>1, <2>2
<1>9. QED
  BY <1>3, <1>8

LEMMA SyncOpens ==
  ASSUME IInv, [Next]_vars, NEW s \in Actors, NEW r \in Runs, NEW kind \in {"sync", "build"},
         NEW own \in Qualities \cup {NoJob}, NEW won \in BOOLEAN,
         Open(s, Loaded(r, kind, own, won))
  PROVE  txn' \in [Actors -> Txn] /\ \A u \in Actors : SyncOK(u)'
<1>1. TypeOK
  BY DEF IInv
<1>2. Loaded(r, kind, own, won) \in Txn
  BY <1>1, LoadedType
<1>3. /\ txn' \in [Actors -> Txn]
      /\ txn'[s] = Loaded(r, kind, own, won)
      /\ \A u \in Actors : u # s => txn'[u] = txn[u]
  BY <1>1, <1>2, OpenTypes
<1>4. ASSUME NEW u \in Actors PROVE SyncOK(u)'
  <2>1. CASE u = s
    BY <1>3, <2>1, SyncLoaded
  <2>2. CASE u # s
    BY <1>3, <2>2, SyncSame
  <2>3. QED
    BY <2>1, <2>2
<1>5. QED
  BY <1>3, <1>4

LEMMA SyncCloses ==
  ASSUME IInv, [Next]_vars, NEW s \in Actors, Close(s)
  PROVE  txn' \in [Actors -> Txn] /\ \A u \in Actors : SyncOK(u)'
<1>1. /\ txn' \in [Actors -> Txn]
      /\ txn'[s] = Closed
      /\ \A u \in Actors : u # s => txn'[u] = txn[u]
  BY CloseTypes DEF IInv
<1>2. ASSUME NEW u \in Actors PROVE SyncOK(u)'
  <2>1. CASE u = s
    BY <1>1, <2>1, SyncClosed
  <2>2. CASE u # s
    BY <1>1, <2>2, SyncSame
  <2>3. QED
    BY <2>1, <2>2
<1>3. QED
  BY <1>1, <1>2

LEMMA TxnStep ==
  ASSUME IInv, [Next]_vars
  PROVE  txn' \in [Actors -> Txn] /\ \A u \in Actors : SyncOK(u)'
<1> DEFINE Goal == txn' \in [Actors -> Txn] /\ \A u \in Actors : SyncOK(u)'
<1>1. ASSUME NEW s \in Actors, NEW q \in Qualities, SyncRead(s, q) PROVE Goal
  BY <1>1, SyncReads
<1>2. ASSUME NEW s \in Actors, Close(s) PROVE Goal
  BY <1>2, SyncCloses
<1>3. ASSUME NEW s \in Sessions, NEW r \in Runs,
             RebuildBegin(s, r) \/ MaintenanceSync(s, r) \/ ListPipelines(s, r)
      PROVE  Goal
  <2>1. PICK kind \in {"sync", "build"} : Open(s, Loaded(r, kind, NoJob, FALSE))
    BY <1>3 DEF RebuildBegin, MaintenanceSync, ListPipelines
  <2>2. s \in Actors
    BY DEF Actors
  <2>3. QED
    BY <2>1, <2>2, SyncOpens
<1>4. ASSUME NEW w \in Workers, FinishBegin(w) PROVE Goal
  <2>1. task[w] \in Qualities /\ w \in Actors
    BY <1>4 DEF FinishBegin, IInv, TypeOK, Actors
  <2>2. PICK r \in Runs : Open(w, Loaded(r, "sync", task[w], holder[task[w]] = w))
    BY <1>4 DEF FinishBegin
  <2>3. QED
    BY <2>1, <2>2, SyncOpens
<1>5. ASSUME UNCHANGED txn PROVE Goal
  <2>1. txn' \in [Actors -> Txn]
    BY <1>5 DEF IInv, TypeOK
  <2>2. QED
    BY <1>5, <2>1, SyncSame
<1> HIDE DEF Goal
<1>6. Workers \subseteq Actors /\ Sessions \subseteq Actors
  BY DEF Actors
<1>7. ASSUME NEW w \in Workers, SlotStep(w) PROVE Goal
  BY <1>2, <1>4, <1>5, <1>6, <1>7 DEF SlotStep, Claim, Fail, FinishCancelled, Crash
<1>8. ASSUME NEW s \in Sessions, SessionStep(s) PROVE Goal
  BY <1>2, <1>3, <1>6, <1>8 DEF SessionStep, RebuildCommit, SessionAborts
<1>9. ASSUME NEW s \in Actors, SyncCommit(s) PROVE Goal
  BY <1>2, <1>9 DEF SyncCommit
<1>10. ASSUME NEW r \in Runs, BuildRun(r) PROVE Goal
  BY <1>5, <1>10 DEF BuildRun
<1>11. ASSUME NEW q \in Qualities, Recover(q) \/ OperatorStep(q) PROVE Goal
  BY <1>5, <1>11 DEF OperatorStep, Recover, RetryJob, CancelJob, EditRelease
<1>12. ASSUME UNCHANGED vars PROVE Goal
  BY <1>5, <1>12 DEF vars
<1>13. Goal
  BY <1>1, <1>7, <1>8, <1>9, <1>10, <1>11, <1>12 DEF Next
<1>14. QED
  BY <1>13 DEF Goal

-----------------------------------------------------------------------------
(* Locks: a job is held exactly while it runs, and a transaction whose     *)
(* mark_succeeded matched keeps holding it.                                *)
Held == HolderOK /\ \A u \in Actors : OwnOK(u)

(* The holders when one job moves and the other jobs stay as they are.     *)
LEMMA HolderMoves ==
  ASSUME IInv, NEW q \in Qualities, NEW c \in Queue!State, Queue!JobStep(queue[q], c),
         MoveJob(q, c), \A p \in Qualities : p # q => holder'[p] = holder[p],
         holder'[q] # NoWorker <=> c.at = "running"
  PROVE  HolderOK'
<1>1. /\ queue'[q] = c
      /\ \A p \in Qualities : p # q => queue'[p] = queue[p]
  BY MoveOne DEF IInv
<1>2. QED
  BY <1>1 DEF IInv, HolderOK

LEMMA OwnSame ==
  ASSUME IInv, UNCHANGED <<holder, task>>, NEW u \in Actors,
         txn'[u] = txn[u] \/ ~txn'[u].won
  PROVE  OwnOK(u)'
BY DEF IInv, TxnOK, OwnOK

LEMMA HeldByClaim ==
  ASSUME IInv, NEW w \in Workers, NEW q \in Qualities, Claim(w, q)
  PROVE  Held'
<1>1. PICK c \in Queue!State : Queue!Take(queue[q], c) /\ MoveJob(q, c)
  BY DEF Claim
<1>2. queue[q].at = "waiting" /\ c.at = "running"
  BY <1>1 DEF Queue!Take
<1>3. holder \in [Qualities -> Workers \cup {NoWorker}] /\ task \in [Workers -> Qualities \cup {NoJob}]
  BY DEF IInv, TypeOK
<1>4. /\ holder' = [holder EXCEPT ![q] = w] /\ task' = [task EXCEPT ![w] = q]
      /\ task[w] = NoJob /\ txn' = txn
  BY DEF Claim
<1>5. HolderOK'
  <2>1. holder'[q] = w /\ \A p \in Qualities : p # q => holder'[p] = holder[p]
    BY <1>3, <1>4
  <2>2. w # NoWorker
    BY PipelineAssumption
  <2>3. Queue!JobStep(queue[q], c)
    BY <1>1 DEF Queue!JobStep
  <2>4. QED
    BY <1>1, <1>2, <2>1, <2>2, <2>3, HolderMoves
<1>6. ASSUME NEW u \in Actors PROVE OwnOK(u)'
  <2>1. OwnOK(u) /\ HolderOK
    BY DEF IInv, TxnOK
  <2>2. ASSUME txn[u].won PROVE u # w /\ txn[u].own # q
    <3>1. txn[u].own \in Qualities /\ task[u] = txn[u].own /\ holder[txn[u].own] = u /\ u \in Workers
      BY <2>1, <2>2 DEF OwnOK
    <3>2. u # w
      BY <3>1, <1>4, PipelineAssumption
    <3>3. queue[txn[u].own].at = "running"
      BY <2>1, <3>1, PipelineAssumption DEF HolderOK
    <3>4. QED
      BY <3>2, <3>3, <1>2
  <2>3. QED
    BY <1>3, <1>4, <2>1, <2>2 DEF OwnOK
<1>7. QED
  BY <1>5, <1>6 DEF Held

(* A slot that gives its job up, or lets it be cancelled.                  *)
LEMMA HeldByRelease ==
  ASSUME IInv, NEW q \in Qualities, NEW c \in Queue!State, Queue!JobStep(queue[q], c),
         MoveJob(q, c), c.at # "running", Release(q),
         \A u \in Actors :
           \/ ~txn'[u].won
           \/ /\ txn'[u] = txn[u]
              /\ txn[u].own # q \/ ~txn[u].won
              /\ u \in Workers => task'[u] = task[u]
  PROVE  Held'
<1>1. holder \in [Qualities -> Workers \cup {NoWorker}]
  BY DEF IInv, TypeOK
<1>2. holder'[q] = NoWorker /\ \A p \in Qualities : p # q => holder'[p] = holder[p]
  BY <1>1 DEF Release
<1>3. HolderOK'
  BY <1>2, HolderMoves
<1>4. ASSUME NEW u \in Actors PROVE OwnOK(u)'
  <2>1. OwnOK(u)
    BY DEF IInv, TxnOK
  <2>2. QED
    BY <1>2, <2>1 DEF OwnOK
<1>5. QED
  BY <1>3, <1>4 DEF Held

LEMMA GivenAway ==
  ASSUME NEW old \in Queue!State, NEW c,
         Queue!GiveBack(old, c) \/ Queue!GiveUp(old, c) \/ Queue!HonourStop(old, c)
  PROVE  c.at # "running" /\ Queue!JobStep(old, c)
BY DEF Queue!GiveBack, Queue!GiveUp, Queue!HonourStop, Queue!JobStep, Queue!State

LEMMA HeldByFail ==
  ASSUME IInv, NEW w \in Workers, Fail(w)
  PROVE  Held'
<1> DEFINE q == task[w]
<1>1. q \in Qualities /\ w \in Actors
  BY DEF Fail, IInv, TypeOK, Actors
<1>2. /\ txn'[w] = Closed /\ \A u \in Actors : u # w => txn'[u] = txn[u]
      /\ \A u \in Workers : u # w => task'[u] = task[u]
  BY <1>1, CloseTypes DEF Fail, IInv, TypeOK
<1>3. ~txn'[w].won
  BY <1>2 DEF Closed
<1>4. CASE holder[q] = w
  <2>1. PICK c \in Queue!State :
          /\ Queue!GiveBack(queue[q], c) \/ Queue!GiveUp(queue[q], c)
          /\ MoveJob(q, c)
    BY <1>4 DEF Fail
  <2>2. Release(q)
    BY <1>4 DEF Fail
  <2>3. ASSUME NEW u \in Actors, u # w PROVE txn[u].own # q \/ ~txn[u].won
    BY <1>4, <2>3 DEF IInv, TxnOK, OwnOK
  <2>4. c.at # "running" /\ Queue!JobStep(queue[q], c)
    BY <1>1, <2>1, GivenAway DEF IInv, TypeOK
  <2> HIDE DEF q
  <2>5. QED
    BY <1>1, <1>2, <1>3, <2>1, <2>2, <2>3, <2>4, HeldByRelease
<1>5. CASE holder[q] # w
  <2>1. UNCHANGED <<queue, holder>>
    BY <1>5 DEF Fail
  <2>2. HolderOK'
    BY <2>1 DEF IInv, HolderOK
  <2>3. ASSUME NEW u \in Actors PROVE OwnOK(u)'
    BY <1>2, <1>3, <2>1 DEF IInv, TxnOK, OwnOK
  <2>4. QED
    BY <2>2, <2>3 DEF Held
<1>6. QED
  BY <1>4, <1>5

LEMMA HeldByFinishCancelled ==
  ASSUME IInv, NEW w \in Workers, FinishCancelled(w)
  PROVE  Held'
<1> DEFINE q == task[w]
<1>1. q \in Qualities /\ holder[q] = w /\ Release(q) /\ txn' = txn /\ Idle(w)
  BY DEF FinishCancelled, IInv, TypeOK
<1>2. PICK c \in Queue!State : Queue!HonourStop(queue[q], c) /\ MoveJob(q, c)
  BY DEF FinishCancelled
<1>3. c.at # "running" /\ Queue!JobStep(queue[q], c)
  BY <1>1, <1>2, GivenAway DEF IInv, TypeOK
<1>4. \A u \in Workers : u # w => task'[u] = task[u]
  BY DEF FinishCancelled, IInv, TypeOK
<1>5. ASSUME NEW u \in Actors, txn[u].won PROVE u # w /\ txn[u].own # q
  BY <1>1, <1>5 DEF IInv, TxnOK, OwnOK, Idle
<1> HIDE DEF q
<1>6. QED
  BY <1>1, <1>2, <1>3, <1>4, <1>5, HeldByRelease

LEMMA HeldByRecover ==
  ASSUME IInv, NEW q \in Qualities, Recover(q)
  PROVE  Held'
<1>1. PICK c \in Queue!State :
        /\ Queue!GiveBack(queue[q], c) \/ Queue!GiveUp(queue[q], c)
        /\ MoveJob(q, c)
  BY DEF Recover
<1>2. c.at # "running" /\ Queue!JobStep(queue[q], c)
  BY <1>1, GivenAway DEF IInv, TypeOK
<1>3. Release(q) /\ UNCHANGED <<task, txn>> /\ ~Locked(q)
  BY DEF Recover
<1>4. ASSUME NEW u \in Actors, txn[u].won PROVE txn[u].own # q
  BY <1>3, <1>4 DEF IInv, TxnOK, OwnOK, Locked
<1>5. QED
  BY <1>1, <1>2, <1>3, <1>4, HeldByRelease

(* Enqueuing and the operator's requests leave the running jobs running.   *)
LEMMA HeldByEnqueue ==
  ASSUME IInv, NEW again, UNCHANGED <<holder, task>>,
         queue' = [q \in Qualities |-> IF q \in again THEN Enqueued(queue[q]) ELSE queue[q]],
         \A u \in Actors : txn'[u] = txn[u] \/ ~txn'[u].won
  PROVE  Held'
<1>1. ASSUME NEW q \in Qualities PROVE queue'[q].at = "running" <=> queue[q].at = "running"
  <2>1. queue[q] \in Queue!State
    BY DEF IInv, TypeOK
  <2>2. QED
    BY <2>1, EnqueuedStep
<1>2. HolderOK'
  BY <1>1 DEF IInv, HolderOK
<1>3. QED
  BY <1>2, OwnSame DEF Held

LEMMA HeldByOperator ==
  ASSUME IInv, NEW q \in Qualities, RetryJob(q) \/ CancelJob(q)
  PROVE  Held'
<1>1. PICK c \in Queue!State :
        /\ Queue!Open(queue[q], c) \/ Queue!AskToStop(queue[q], c)
        /\ MoveJob(q, c)
  BY DEF RetryJob, CancelJob
<1>2. UNCHANGED <<holder, task, txn>>
  BY DEF RetryJob, CancelJob
<1>3. /\ queue[q].at = "running" <=> c.at = "running"
      /\ Queue!JobStep(queue[q], c)
  BY <1>1 DEF Queue!Open, Queue!AskToStop, Queue!JobStep
<1>4. HolderOK'
  BY <1>1, <1>2, <1>3, HolderMoves DEF IInv, HolderOK
<1>5. QED
  BY <1>2, <1>4, OwnSame DEF Held

LEMMA HeldByFinishBegin ==
  ASSUME IInv, NEW w \in Workers, FinishBegin(w)
  PROVE  Held'
<1> DEFINE q == task[w]
<1>1. q \in Qualities /\ w \in Actors /\ TypeOK
  BY DEF FinishBegin, IInv, TypeOK, Actors
<1>2. UNCHANGED <<queue, holder, task>>
  BY DEF FinishBegin
<1>3. PICK r \in Runs : Open(w, Loaded(r, "sync", q, holder[q] = w))
  BY DEF FinishBegin
<1>4. Loaded(r, "sync", q, holder[q] = w) \in Txn
  BY <1>1, LoadedType
<1>5. /\ txn'[w] = Loaded(r, "sync", q, holder[q] = w)
      /\ \A u \in Actors : u # w => txn'[u] = txn[u]
  BY <1>1, <1>3, <1>4, OpenTypes
<1>6. HolderOK'
  BY <1>2 DEF IInv, HolderOK
<1>7. OwnOK(w)'
  <2>1. /\ txn'[w].kind = "sync" /\ txn'[w].own = q
        /\ txn'[w].won = (holder[q] = w)
    BY <1>5 DEF Loaded
  <2>2. QED
    BY <1>1, <1>2, <2>1 DEF OwnOK
<1>8. ASSUME NEW u \in Actors, u # w PROVE OwnOK(u)'
  BY <1>2, <1>5, <1>8, OwnSame
<1>9. QED
  BY <1>6, <1>7, <1>8 DEF Held

LEMMA HeldByCommit ==
  ASSUME IInv, NEW s \in Actors, SyncCommit(s)
  PROVE  Held'
<1> DEFINE t == txn[s]
<1>1. /\ queue' = [q \in Qualities |->
                    IF q = t.own /\ t.won THEN [queue[q] EXCEPT !.at = "done"] ELSE queue[q]]
      /\ holder' = [q \in Qualities |-> IF q = t.own /\ t.won THEN NoWorker ELSE holder[q]]
      /\ task' = [w \in Workers |-> IF w = s THEN NoJob ELSE task[w]]
  BY DEF SyncCommit
<1>2. txn'[s] = Closed /\ \A u \in Actors : u # s => txn'[u] = txn[u]
  BY CloseTypes DEF SyncCommit, IInv
<1>3. HolderOK'
  <2>1. ASSUME NEW q \in Qualities
        PROVE  holder'[q] # NoWorker <=> queue'[q].at = "running"
    <3>1. queue[q] \in Queue!State
      BY DEF IInv, TypeOK
    <3>2. CASE q = t.own /\ t.won
      <4>1. holder'[q] = NoWorker /\ queue'[q] = [queue[q] EXCEPT !.at = "done"]
        BY <1>1, <3>2
      <4>2. QED
        BY <3>1, <4>1 DEF Queue!State
    <3>3. CASE ~(q = t.own /\ t.won)
      BY <1>1, <3>3 DEF IInv, HolderOK
    <3>4. QED
      BY <3>2, <3>3
  <2>2. QED
    BY <2>1 DEF HolderOK
<1>4. ASSUME NEW u \in Actors PROVE OwnOK(u)'
  <2>1. CASE u = s
    BY <1>2, <2>1 DEF OwnOK, Closed
  <2>2. CASE u # s
    <3>1. OwnOK(u) /\ OwnOK(s)
      BY DEF IInv, TxnOK
    <3>2. QED
      BY <1>1, <1>2, <2>2, <3>1 DEF OwnOK
  <2>3. QED
    BY <2>1, <2>2
<1>5. QED
  BY <1>3, <1>4 DEF Held

(* A step that changes no job and no slot, and opens no transaction of a   *)
(* worker.                                                                 *)
LEMMA HeldByOthers ==
  ASSUME IInv, UNCHANGED <<queue, holder, task>>,
         \A u \in Actors : txn'[u] = txn[u] \/ ~txn'[u].won
  PROVE  Held'
<1>1. HolderOK'
  BY DEF IInv, HolderOK
<1>2. QED
  BY <1>1, OwnSame DEF Held

LEMMA HeldByRead ==
  ASSUME IInv, NEW s \in Actors, NEW q \in Qualities, SyncRead(s, q)
  PROVE  Held'
<1>1. UNCHANGED <<queue, holder, task>>
  BY DEF SyncRead
<1>2. txn[s].on \in Runs /\ TypeOK
  BY DEF IInv, TxnOK, SyncOK, OpenOK, SyncRead
<1>3. /\ txn'[s].kind = "sync" /\ txn'[s].own = txn[s].own /\ txn'[s].won = txn[s].won
      /\ \A u \in Actors : u # s => txn'[u] = txn[u]
  BY <1>2, ReadTypes
<1>4. HolderOK'
  BY <1>1 DEF IInv, HolderOK
<1>5. ASSUME NEW u \in Actors PROVE OwnOK(u)'
  BY <1>1, <1>3 DEF IInv, TxnOK, OwnOK
<1>6. QED
  BY <1>4, <1>5 DEF Held

LEMMA HeldBySession ==
  ASSUME IInv, NEW s \in Sessions, SessionStep(s)
  PROVE  Held'
<1>1. s \in Actors /\ TypeOK
  BY DEF Actors, IInv
<1>2. ASSUME NEW r \in Runs,
             RebuildBegin(s, r) \/ MaintenanceSync(s, r) \/ ListPipelines(s, r)
      PROVE  Held'
  <2>1. UNCHANGED <<queue, holder, task>>
    BY <1>2 DEF RebuildBegin, MaintenanceSync, ListPipelines
  <2>2. PICK kind \in {"sync", "build"} : Open(s, Loaded(r, kind, NoJob, FALSE))
    BY <1>2 DEF RebuildBegin, MaintenanceSync, ListPipelines
  <2>3. /\ txn'[s] = Loaded(r, kind, NoJob, FALSE)
        /\ \A u \in Actors : u # s => txn'[u] = txn[u]
    BY <1>1, <2>2, LoadedType, OpenTypes
  <2>4. ~txn'[s].won
    BY <2>3 DEF Loaded
  <2>5. QED
    BY <2>1, <2>3, <2>4, HeldByOthers
<1>3. ASSUME Close(s) PROVE \A u \in Actors : txn'[u] = txn[u] \/ ~txn'[u].won
  BY <1>1, <1>3, CloseTypes DEF Closed
<1>4. CASE SessionAborts(s)
  BY <1>3, <1>4, HeldByOthers DEF SessionAborts
<1>5. CASE RebuildCommit(s)
  <2> DEFINE again == {q \in Wants[txn[s].on] : txn[s].sawItem[q] # "SUCCEEDED"}
  <2>1. /\ queue' = [q \in Qualities |->
                       IF q \in again THEN Enqueued(queue[q]) ELSE queue[q]]
        /\ UNCHANGED <<holder, task>> /\ Close(s)
    BY <1>5 DEF RebuildCommit
  <2> HIDE DEF again
  <2>2. QED
    BY <1>3, <2>1, HeldByEnqueue
<1>6. QED
  BY <1>2, <1>4, <1>5 DEF SessionStep

LEMMA HeldStep ==
  ASSUME IInv, [Next]_vars
  PROVE  Held'
<1>1. ASSUME NEW r \in Runs, BuildRun(r) PROVE Held'
  <2>1. /\ queue' = [q \in Qualities |->
                       IF q \in Wants[r] THEN Enqueued(queue[q]) ELSE queue[q]]
        /\ UNCHANGED <<holder, task, txn>>
    BY <1>1 DEF BuildRun
  <2>2. QED
    BY <2>1, HeldByEnqueue
<1>2. ASSUME NEW w \in Workers, Crash(w) PROVE Held'
  <2>1. /\ UNCHANGED <<queue, holder>>
        /\ \A u \in Workers : u # w => task'[u] = task[u]
    BY <1>2 DEF Crash, IInv, TypeOK
  <2>2. txn'[w] = Closed /\ \A u \in Actors : u # w => txn'[u] = txn[u]
    BY <1>2, CloseTypes DEF Crash, IInv, Actors
  <2>3. HolderOK'
    BY <2>1 DEF IInv, HolderOK
  <2>4. ASSUME NEW u \in Actors PROVE OwnOK(u)'
    BY <2>1, <2>2 DEF IInv, TxnOK, OwnOK, Closed
  <2>5. QED
    BY <2>3, <2>4 DEF Held
<1>3. ASSUME NEW w \in Workers, SlotStep(w) PROVE Held'
  BY <1>2, <1>3, HeldByClaim, HeldByFail, HeldByFinishCancelled, HeldByFinishBegin DEF SlotStep
<1>4. CASE UNCHANGED <<queue, holder, task, txn>>
  BY <1>4, HeldByOthers
<1>5. ASSUME NEW q \in Qualities, Recover(q) \/ OperatorStep(q) PROVE Held'
  <2>1. ASSUME NEW status \in Edits, EditRelease(q, status) PROVE Held'
    BY <1>4, <2>1 DEF EditRelease
  <2>2. QED
    BY <1>5, <2>1, HeldByRecover, HeldByOperator DEF OperatorStep
<1>6. QED
  BY <1>1, <1>3, <1>4, <1>5, HeldBySession, HeldByCommit, HeldByRead DEF Next, vars

-----------------------------------------------------------------------------
(* The promises themselves.                                                *)
Promises == DoneHasFile /\ SucceededItemIsDone /\ RunDone /\ PublishedHasFile

(* A step that finishes no job and touches no table keeps them.            *)
LEMMA PromisesKept ==
  ASSUME IInv, [Next]_vars, UNCHANGED <<run, item, release, file>>,
         \A q \in Qualities : Done(q)' => Done(q)
  PROVE  Promises'
<1>1. \A q \in Qualities : Done(q) => Done(q)'
  BY DoneForever
<1>2. \A r \in Runs : Wants[r] \subseteq Qualities
  BY PipelineAssumption
<1>3. (DoneHasFile /\ SucceededItemIsDone /\ PublishedHasFile)'
  BY <1>1 DEF IInv, DoneHasFile, SucceededItemIsDone, PublishedHasFile
<1>4. RunDone'
  BY <1>1, <1>2 DEF IInv, RunDone
<1>5. QED
  BY <1>3, <1>4 DEF Promises

LEMMA EnqueuedNotDone ==
  ASSUME NEW c, Enqueued(c).at = "done"
  PROVE  c.at = "done"
BY DEF Enqueued

(* Which steps can finish a job: the commit of a worker's final            *)
(* transaction.                                                            *)
LEMMA OnlyCommitFinishes ==
  ASSUME IInv, [Next]_vars, NEW q \in Qualities, Done(q)', ~Done(q)
  PROVE  \E s \in Actors : SyncCommit(s) /\ txn[s].own = q /\ txn[s].won
<1>1. queue \in [Qualities -> Queue!State]
  BY DEF IInv, TypeOK
<1>2. ASSUME NEW p \in Qualities, NEW c \in Queue!State, MoveJob(p, c),
             \/ Queue!Take(queue[p], c) \/ Queue!GiveBack(queue[p], c)
             \/ Queue!GiveUp(queue[p], c) \/ Queue!HonourStop(queue[p], c)
             \/ Queue!Open(queue[p], c) \/ Queue!AskToStop(queue[p], c)
      PROVE  FALSE
  <2>1. queue[p] \in Queue!State
    BY <1>1
  <2>2. c.at # "done"
    BY <1>2, <2>1 DEF Queue!Take, Queue!GiveBack, Queue!GiveUp, Queue!HonourStop, Queue!Open,
                      Queue!AskToStop, Queue!State
  <2>3. queue'[q] = IF q = p THEN c ELSE queue[q]
    BY <1>1, <1>2 DEF MoveJob
  <2>4. QED
    BY <2>2, <2>3 DEF Done
<1>3. ASSUME UNCHANGED queue PROVE FALSE
  BY <1>3 DEF Done
<1>4. ASSUME NEW w \in Workers, SlotStep(w) PROVE FALSE
  <2>1. task[w] # NoJob => task[w] \in Qualities
    BY DEF IInv, TypeOK
  <2>2. CASE Fail(w)
    BY <1>2, <1>3, <2>1, <2>2 DEF Fail
  <2>3. CASE FinishCancelled(w)
    BY <1>2, <2>1, <2>3 DEF FinishCancelled
  <2>4. ASSUME NEW p \in Qualities, Claim(w, p) PROVE FALSE
    BY <1>2, <2>4 DEF Claim
  <2>5. CASE Crash(w) \/ FinishBegin(w)
    BY <2>5 DEF Crash, FinishBegin, Done
  <2>6. QED
    BY <1>4, <2>2, <2>3, <2>4, <2>5 DEF SlotStep
<1>5. ASSUME NEW s \in Sessions, SessionStep(s) PROVE FALSE
  <2>1. CASE RebuildCommit(s)
    <3>1. queue'[q] = queue[q] \/ queue'[q] = Enqueued(queue[q])
      BY <2>1 DEF RebuildCommit
    <3>2. QED
      BY <3>1, EnqueuedNotDone DEF Done
  <2>2. CASE UNCHANGED queue
    BY <2>2 DEF Done
  <2>3. QED
    BY <1>5, <2>1, <2>2 DEF SessionStep, RebuildBegin, MaintenanceSync, ListPipelines,
                             SessionAborts
<1>6. ASSUME NEW r \in Runs, BuildRun(r) PROVE FALSE
  <2>1. queue'[q] = queue[q] \/ queue'[q] = Enqueued(queue[q])
    BY <1>6 DEF BuildRun
  <2>2. QED
    BY <2>1, EnqueuedNotDone DEF Done
<1>7. ASSUME NEW p \in Qualities, Recover(p) \/ OperatorStep(p) PROVE FALSE
  <2>1. CASE Recover(p)
    BY <1>2, <2>1 DEF Recover
  <2>2. CASE RetryJob(p)
    BY <1>2, <2>2 DEF RetryJob
  <2>3. CASE CancelJob(p)
    BY <1>2, <2>3 DEF CancelJob
  <2>4. ASSUME NEW status \in Edits, EditRelease(p, status) PROVE FALSE
    BY <2>4 DEF EditRelease, Done
  <2>5. QED
    BY <1>7, <2>1, <2>2, <2>3, <2>4 DEF OperatorStep
<1>8. ASSUME NEW s \in Actors, SyncCommit(s) PROVE txn[s].own = q /\ txn[s].won
  BY <1>8 DEF SyncCommit, Done
<1>9. ASSUME NEW s \in Actors, NEW p \in Qualities, SyncRead(s, p) PROVE FALSE
  BY <1>9 DEF SyncRead, Done
<1>10. ~UNCHANGED vars
  BY DEF vars, Done
<1>11. PICK s \in Actors : SyncCommit(s)
  BY <1>4, <1>5, <1>6, <1>7, <1>9, <1>10 DEF Next
<1>12. QED
  BY <1>8, <1>11

(* After its commit, what a transaction read as SUCCEEDED is done.         *)
LEMMA CommitDone ==
  ASSUME IInv, [Next]_vars, NEW s \in Actors, SyncCommit(s),
         NEW q \in Qualities, txn[s].read[q] = "SUCCEEDED"
  PROVE  Done(q)'
<1>1. CASE Done(q)
  BY <1>1, DoneForever
<1>2. CASE txn[s].won /\ txn[s].own = q
  <2>1. queue'[q] = [queue[q] EXCEPT !.at = "done"] /\ queue[q] \in Queue!State
    BY <1>2 DEF SyncCommit, IInv, TypeOK
  <2>2. QED
    BY <2>1 DEF Done, Queue!State
<1>3. QED
  BY <1>1, <1>2 DEF IInv, TxnOK, SyncOK, ReadOK

LEMMA VerdictComplete ==
  ASSUME NEW statuses, Verdict(statuses) = "SUCCEEDED"
  PROVE  statuses = {"SUCCEEDED"}
BY DEF Verdict

LEMMA PromisesByCommit ==
  ASSUME IInv, [Next]_vars, NEW s \in Actors, SyncCommit(s)
  PROVE  Promises'
<1> DEFINE t == txn[s]
<1>1. /\ t.on \in Runs /\ t.publish \subseteq Wants[t.on]
      /\ t.publish # {} => \A p \in Wants[t.on] : t.read[p] = "SUCCEEDED"
  BY DEF IInv, TxnOK, SyncOK, OpenOK, PublishedOwnRun, PublishOK, SyncCommit, ReadsAll
<1>2. Wants[t.on] \subseteq Qualities
  BY <1>1, PipelineAssumption
<1>3. /\ file' = [q \in Qualities |-> file[q] \/ q = t.own]
      /\ run' = [run EXCEPT ![t.on] =
                   Written(@, t.saw, Verdict({t.read[q] : q \in Wants[t.on]}))]
      /\ release' = [q \in Qualities |->
                      CASE q \in t.publish -> "PUBLISHED"
                        [] q = t.own       -> "READY"
                        [] OTHER           -> release[q]]
      /\ item' = [item EXCEPT ![t.on] = [q \in Qualities |->
                   CASE q \notin Wants[t.on] -> item[t.on][q]
                     [] q = t.own            -> t.read[q]
                     [] OTHER -> Written(item[t.on][q], t.sawItem[q], t.read[q])]]
  BY DEF SyncCommit
<1>4. /\ run \in [Runs -> RunStatuses] /\ item \in [Runs -> [Qualities -> ItemStatuses]]
  BY DEF IInv, TypeOK
<1>5. DoneHasFile'
  <2>1. ASSUME NEW q \in Qualities, Done(q)' PROVE file'[q]
    <3>1. CASE Done(q)
      BY <1>3, <3>1 DEF IInv, DoneHasFile
    <3>2. CASE ~Done(q)
      <4>1. q = t.own
        BY <2>1, <3>2 DEF SyncCommit, Done
      <4>2. QED
        BY <1>3, <4>1
    <3>3. QED
      BY <3>1, <3>2
  <2>2. QED
    BY <2>1 DEF DoneHasFile
<1>6. SucceededItemIsDone'
  <2>1. ASSUME NEW r \in Runs, NEW q \in Qualities, item'[r][q] = "SUCCEEDED" PROVE Done(q)'
    <3>1. item'[r][q] = item[r][q] \/ item'[r][q] = t.read[q]
      BY <1>1, <1>3, <1>4 DEF Written
    <3>2. CASE item[r][q] = "SUCCEEDED"
      BY <3>2, DoneForever DEF IInv, SucceededItemIsDone
    <3>3. CASE t.read[q] = "SUCCEEDED"
      BY <3>3, CommitDone
    <3>4. QED
      BY <2>1, <3>1, <3>2, <3>3
  <2>2. QED
    BY <2>1 DEF SucceededItemIsDone
<1>7. RunDone'
  <2>1. ASSUME NEW r \in Runs, run'[r] = "SUCCEEDED", NEW q \in Wants[r] PROVE Done(q)'
    <3>1. q \in Qualities
      BY PipelineAssumption
    <3>2. CASE run[r] = "SUCCEEDED"
      BY <3>1, <3>2, DoneForever DEF IInv, RunDone
    <3>3. CASE run[r] # "SUCCEEDED"
      <4>1. r = t.on /\ Verdict({t.read[p] : p \in Wants[t.on]}) = "SUCCEEDED"
        BY <1>1, <1>3, <1>4, <2>1, <3>3 DEF Written
      <4>2. {t.read[p] : p \in Wants[t.on]} = {"SUCCEEDED"}
        BY <4>1, VerdictComplete
      <4>3. t.read[q] = "SUCCEEDED"
        BY <4>1, <4>2
      <4>4. QED
        BY <3>1, <4>3, CommitDone
    <3>4. QED
      BY <3>2, <3>3
  <2>2. QED
    BY <2>1 DEF RunDone
<1>8. PublishedHasFile'
  <2>1. ASSUME NEW q \in Qualities, release'[q] = "PUBLISHED" PROVE file'[q]
    <3>1. CASE q \in t.publish
      <4>1. t.read[q] = "SUCCEEDED"
        BY <1>1, <3>1
      <4>2. Done(q)'
        BY <4>1, CommitDone
      <4>3. QED
        BY <1>5, <4>2 DEF DoneHasFile
    <3>2. CASE q \notin t.publish
      <4>1. release[q] = "PUBLISHED"
        BY <1>3, <2>1, <3>2
      <4>2. QED
        BY <1>3, <4>1 DEF IInv, PublishedHasFile
    <3>3. QED
      BY <3>1, <3>2
  <2>2. QED
    BY <2>1 DEF PublishedHasFile
<1>9. QED
  BY <1>5, <1>6, <1>7, <1>8 DEF Promises

LEMMA PromisesByBuild ==
  ASSUME IInv, [Next]_vars, NEW r \in Runs, BuildRun(r),
         \A q \in Qualities : Done(q)' => Done(q)
  PROVE  Promises'
<1>1. \A q \in Qualities : Done(q) => Done(q)'
  BY DoneForever
<1>2. \A p \in Runs : Wants[p] \subseteq Qualities
  BY PipelineAssumption
<1>3. /\ run \in [Runs -> RunStatuses] /\ item \in [Runs -> [Qualities -> ItemStatuses]]
      /\ release \in [Qualities -> ReleaseStatuses]
  BY DEF IInv, TypeOK
<1>4. DoneHasFile'
  BY <1>1 DEF IInv, DoneHasFile, BuildRun
<1>5. SucceededItemIsDone'
  <2>1. ASSUME NEW p \in Runs, NEW q \in Qualities, item'[p][q] = "SUCCEEDED"
        PROVE  item[p][q] = "SUCCEEDED"
    BY <1>3, <2>1 DEF BuildRun
  <2>2. QED
    BY <1>1, <2>1 DEF IInv, SucceededItemIsDone
<1>6. RunDone'
  <2>1. ASSUME NEW p \in Runs, run'[p] = "SUCCEEDED" PROVE run[p] = "SUCCEEDED"
    BY <1>3, <2>1 DEF BuildRun
  <2>2. QED
    BY <1>1, <1>2, <2>1 DEF IInv, RunDone
<1>7. PublishedHasFile'
  BY <1>3 DEF IInv, PublishedHasFile, BuildRun
<1>8. QED
  BY <1>4, <1>5, <1>6, <1>7 DEF Promises

LEMMA PromisesByRebuild ==
  ASSUME IInv, [Next]_vars, NEW s \in Sessions, RebuildCommit(s)
  PROVE  Promises'
<1> DEFINE t == txn[s]
           again == {q \in Wants[t.on] : t.sawItem[q] # "SUCCEEDED"}
           row == [q \in Qualities |->
                     IF q \in again THEN Written(item[t.on][q], t.sawItem[q], "QUEUED")
                                    ELSE item[t.on][q]]
<1>1. \A q \in Qualities : Done(q) => Done(q)'
  BY DoneForever
<1>2. \A p \in Runs : Wants[p] \subseteq Qualities
  BY PipelineAssumption
<1>3. /\ run \in [Runs -> RunStatuses] /\ item \in [Runs -> [Qualities -> ItemStatuses]]
  BY DEF IInv, TypeOK
<1>4. /\ run' = [run EXCEPT ![t.on] = Written(@, t.saw, "RUNNING")]
      /\ item' = [item EXCEPT ![t.on] = row]
      /\ UNCHANGED <<release, file>>
  BY DEF RebuildCommit
<1>5. DoneHasFile'
  <2>1. ASSUME NEW q \in Qualities, Done(q)' PROVE Done(q)
    <3>1. queue'[q] = queue[q] \/ queue'[q] = Enqueued(queue[q])
      BY DEF RebuildCommit
    <3>2. QED
      BY <2>1, <3>1, EnqueuedNotDone DEF Done
  <2>2. QED
    BY <1>4, <2>1 DEF IInv, DoneHasFile
<1> HIDE DEF again
<1>6. SucceededItemIsDone'
  <2>1. ASSUME NEW p \in Runs, NEW q \in Qualities, item'[p][q] = "SUCCEEDED"
        PROVE  item[p][q] = "SUCCEEDED"
    <3>1. row[q] = "SUCCEEDED" => item[t.on][q] = "SUCCEEDED"
      BY DEF Written
    <3> HIDE DEF row, t
    <3>2. item'[p] = item[p] \/ (p = t.on /\ item'[p] = row)
      BY <1>3, <1>4
    <3>3. QED
      BY <2>1, <3>1, <3>2
  <2>2. QED
    BY <1>1, <2>1 DEF IInv, SucceededItemIsDone
<1>7. RunDone'
  <2>1. ASSUME NEW p \in Runs, run'[p] = "SUCCEEDED" PROVE run[p] = "SUCCEEDED"
    BY <1>3, <1>4, <2>1 DEF Written
  <2>2. QED
    BY <1>1, <1>2, <2>1 DEF IInv, RunDone
<1>8. PublishedHasFile'
  BY <1>4 DEF IInv, PublishedHasFile
<1>9. QED
  BY <1>5, <1>6, <1>7, <1>8 DEF Promises

LEMMA PromisesByEdit ==
  ASSUME IInv, [Next]_vars, NEW q \in Qualities, NEW status \in Edits, EditRelease(q, status)
  PROVE  Promises'
<1>1. UNCHANGED <<queue, run, item, file>>
  BY DEF EditRelease
<1>2. PublishedHasFile'
  BY DEF EditRelease, IInv, TypeOK, PublishedHasFile
<1>3. (DoneHasFile /\ SucceededItemIsDone /\ RunDone)'
  BY <1>1 DEF IInv, DoneHasFile, SucceededItemIsDone, RunDone, Done
<1>4. QED
  BY <1>2, <1>3 DEF Promises

LEMMA PromisesStep ==
  ASSUME IInv, [Next]_vars
  PROVE  Promises'
<1>1. ASSUME NEW s \in Actors, SyncCommit(s) PROVE Promises'
  BY <1>1, PromisesByCommit
<1>2. ASSUME ~ \E s \in Actors : SyncCommit(s)
      PROVE  Promises'
  <2>1. \A q \in Qualities : Done(q)' => Done(q)
    BY <1>2, OnlyCommitFinishes
  <2>2. ASSUME UNCHANGED <<run, item, release, file>> PROVE Promises'
    BY <2>1, <2>2, PromisesKept
  <2>3. ASSUME NEW r \in Runs, BuildRun(r) PROVE Promises'
    BY <2>1, <2>3, PromisesByBuild
  <2>4. ASSUME NEW w \in Workers, SlotStep(w) PROVE Promises'
    BY <2>2, <2>4 DEF SlotStep, Claim, Fail, FinishCancelled, Crash, FinishBegin
  <2>5. ASSUME NEW s \in Sessions, SessionStep(s) PROVE Promises'
    <3>1. CASE RebuildCommit(s)
      BY <3>1, PromisesByRebuild
    <3>2. CASE ~RebuildCommit(s)
      BY <2>2, <2>5, <3>2
      DEF SessionStep, RebuildBegin, MaintenanceSync, ListPipelines, SessionAborts
    <3>3. QED
      BY <3>1, <3>2
  <2>6. ASSUME NEW s \in Actors, NEW q \in Qualities, SyncRead(s, q) PROVE Promises'
    BY <2>2, <2>6 DEF SyncRead
  <2>7. ASSUME NEW q \in Qualities, Recover(q) \/ OperatorStep(q) PROVE Promises'
    <3>1. ASSUME NEW status \in Edits, EditRelease(q, status) PROVE Promises'
      BY <3>1, PromisesByEdit
    <3>2. CASE Recover(q) \/ RetryJob(q) \/ CancelJob(q)
      BY <2>2, <3>2 DEF Recover, RetryJob, CancelJob
    <3>3. QED
      BY <2>7, <3>1, <3>2 DEF OperatorStep
  <2>8. ASSUME UNCHANGED vars PROVE Promises'
    BY <2>2, <2>8 DEF vars
  <2>9. QED
    BY <1>2, <2>3, <2>4, <2>5, <2>6, <2>7, <2>8 DEF Next
<1>3. QED
  BY <1>1, <1>2

-----------------------------------------------------------------------------
LEMMA InitIInv ==
  ASSUME Init
  PROVE  IInv
<1>1. Budget \in 0..Budget /\ 0 \in 0..MaxOperatorCalls
  BY PipelineAssumption
<1>2. Queue!Absent \in Queue!State /\ Queue!Absent.at = "absent"
  BY <1>1 DEF Queue!Absent, Queue!State
<1>3. Nothing \in [Qualities -> ItemStatuses] /\ Nothing \in [Qualities -> ReleaseStatuses]
  BY DEF Nothing, ItemStatuses, ReleaseStatuses
<1>4. TypeOK
  BY <1>1, <1>2, <1>3, ClosedType DEF Init, TypeOK, RunStatuses
<1>5. \A q \in Qualities : ~Done(q) /\ queue[q].at # "running" /\ holder[q] = NoWorker
  BY <1>2 DEF Init, Done
<1>6. Promises
  BY <1>5 DEF Init, Promises, DoneHasFile, SucceededItemIsDone, RunDone, PublishedHasFile, Nothing
<1>7. ASSUME NEW s \in Actors PROVE TxnOK(s)
  BY <1>7 DEF Init, TxnOK, OwnOK, SyncOK, ReadOK, PublishOK, OpenOK, PublishedOwnRun, Closed,
              Nothing
<1>8. QED
  BY <1>4, <1>5, <1>6, <1>7 DEF IInv, Promises, HolderOK

LEMMA NextIInv ==
  ASSUME IInv, [Next]_vars
  PROVE  IInv'
<1>1. TypeOK'
  BY QueueMoves, TablesStep, SlotsStep, CallsStep, TxnStep DEF Stays, Tables, Slots, TypeOK
<1>2. Held'
  BY HeldStep
<1>3. \A s \in Actors : SyncOK(s)'
  BY TxnStep
<1>4. Promises'
  BY PromisesStep
<1>5. QED
  BY <1>1, <1>2, <1>3, <1>4 DEF IInv, Held, Promises, TxnOK

(* The tables have their types; a SUCCEEDED item or run is backed by its   *)
(* jobs, and a target on offer has its file: whatever the interleaving of  *)
(* late workers, the maintenance, rebuilds and the admin.                  *)
THEOREM PipelineInvariant ==
  Spec => [](TypeOK /\ SucceededItemIsDone /\ SucceededRunIsComplete /\ PublishedHasFile)
<1>1. Init => IInv
  BY InitIInv
<1>2. IInv /\ [Next]_vars => IInv'
  BY NextIInv
<1>3. IInv => TypeOK /\ SucceededItemIsDone /\ SucceededRunIsComplete /\ PublishedHasFile
  <2>1. \A r \in Runs : Wants[r] \subseteq Qualities
    BY PipelineAssumption
  <2>2. QED
    BY <2>1 DEF IInv, RunDone, DoneHasFile, SucceededRunIsComplete
<1>4. QED
  BY <1>1, <1>2, <1>3, PTL DEF Spec

(* A synchronisation, be it the worker's, the maintenance's or the admin   *)
(* list's, publishes a target only when all jobs of its run are done.      *)
THEOREM PublishesCompleteRuns == Spec => PublishedWithItsRun
<1> DEFINE Action ==
      \A s \in Actors, q \in Qualities :
        SyncCommit(s) /\ release[q] # "PUBLISHED" /\ release'[q] = "PUBLISHED"
          => \A p \in Wants[txn[s].on] : queue'[p].at = "done"
<1>1. IInv /\ [Next]_vars => [Action]_vars
  <2> SUFFICES ASSUME IInv, [Next]_vars, NEW s \in Actors, NEW q \in Qualities,
                      SyncCommit(s), release[q] # "PUBLISHED", release'[q] = "PUBLISHED",
                      NEW p \in Wants[txn[s].on]
               PROVE  queue'[p].at = "done"
    OBVIOUS
  <2>1. q \in txn[s].publish
    BY DEF SyncCommit
  <2>2. txn[s].read[p] = "SUCCEEDED"
    BY <2>1 DEF IInv, TxnOK, SyncOK, PublishOK
  <2>3. p \in Qualities
    BY PipelineAssumption DEF IInv, TxnOK, SyncOK, OpenOK, SyncCommit, ReadsAll
  <2>4. Done(p)'
    BY <2>2, <2>3, CommitDone
  <2>5. QED
    BY <2>4 DEF Done
<1>2. QED
  BY <1>1, InitIInv, NextIInv, PTL DEF Spec, PublishedWithItsRun

(* The pipeline uses the job queue by its contract.                        *)
THEOREM PipelineKeepsContract == Spec => KeepsQueueContract
<1>1. Init => Queue!ContractInit
  BY DEF Init, Queue!ContractInit
<1>2. IInv /\ [Next]_vars => [Queue!ContractNext]_queue
  BY QueueMoves DEF Stays, Queue!ContractNext
<1>3. QED
  BY <1>1, <1>2, InitIInv, NextIInv, PTL DEF Spec, KeepsQueueContract, Queue!ContractSpec
=============================================================================
