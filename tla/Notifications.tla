---------------------------- MODULE Notifications ----------------------------
(***************************************************************************)
(* The notification_jobs table and its delivery workers                    *)
(* (app/services/notification_jobs.py, app/workers/notification_worker.py, *)
(* the recovery loop of app/workers/runtime_worker.py).                    *)
(*                                                                         *)
(* A worker claims a batch in one transaction and then, one job after the  *)
(* other: looks whether it still owns the row, sends, and finalizes, each  *)
(* in a transaction of its own or none.  It renews no lease, and may be    *)
(* slow at any point; so the lease of a PROCESSING row may be over at any  *)
(* point, and a model of time would add nothing.                           *)
(*                                                                         *)
(* NOTIFICATION_WORKER_ID has one default for all processes: WorkerId need *)
(* not be injective.                                                       *)
(***************************************************************************)
EXTENDS Naturals, Sequences, FiniteSets

CONSTANTS
  Jobs,        \* notification_jobs rows, named by their dedupe_key
  Workers,
  WorkerId,    \* WorkerId[w]: NOTIFICATION_WORKER_ID of the process of w
  NoOne,       \* locked_by IS NULL
  MaxAttempts, \* _MAX_CLAIM_ATTEMPTS and max_attempts of mark_notification_failed
  BatchSize    \* CLAIM_BATCH_SIZE

Ids == {WorkerId[w] : w \in Workers}

ASSUME NotificationsAssumption ==
  /\ MaxAttempts \in Nat \ {0}
  /\ BatchSize \in Nat \ {0}
  /\ WorkerId \in [Workers -> Ids]
  /\ NoOne \notin Ids

VARIABLES
  jobs,      \* the table
  slot,      \* slot[w]: the batch of worker w and where it is with it
  ledger,    \* ledger[j]: notification_attempts of j, by attempt_number
  copies     \* external: copies[j][n], messages the user got from the n-th claim

vars == <<jobs, slot, ledger, copies>>

-----------------------------------------------------------------------------
Statuses == {"ABSENT", "PENDING", "PROCESSING", "SENT", "FAILED"}

Row == [status : Statuses, attempts : 0..MaxAttempts, owner : Ids \cup {NoOne}]

AbsentRow == [status |-> "ABSENT", attempts |-> 0, owner |-> NoOne]

(* The dict a worker keeps of a claimed job: what RETURNING gave it.       *)
Claims == [job : Jobs, attempts : 1..MaxAttempts]

(* todo: claims of the batch not looked at yet; at: the one in hand;       *)
(* number: the attempt_number read for it.                                 *)
Polling == [pc |-> "poll"]
Slot == {Polling}
        \cup [pc : {"batch"}, todo : SUBSET Claims]
        \cup [pc : {"send", "mark", "fail"}, todo : SUBSET Claims, at : Claims]
        \cup [pc : {"marking", "failing"}, todo : SUBSET Claims, at : Claims, number : Nat]

Entry == [status : {"SENT", "FAILED"}, claim : 1..MaxAttempts]

-----------------------------------------------------------------------------
(* The statements, one operator per UPDATE.                                *)

(* Mutant: the claim of [FIX-E]'s comment, without the attempts test.      *)
ClaimableAlways(r) == r.status = "PENDING"

Claimable(r) == r.status = "PENDING" /\ r.attempts < MaxAttempts

Claimed(r, id) == [status |-> "PROCESSING", attempts |-> r.attempts + 1, owner |-> id]

Owned(r, id) == r.status = "PROCESSING" /\ r.owner = id

Finished(r, id, status) ==
  IF r.owner = id THEN [r EXCEPT !.status = status, !.owner = NoOne] ELSE r

(* Mutant: the UPDATE of mark_notification_failed without locked_by.       *)
FailedByAnyone(r, id, attempts) ==
  [r EXCEPT !.status = IF attempts >= MaxAttempts THEN "FAILED" ELSE "PENDING",
            !.owner = NoOne]

(* The verdict comes from the attempts in the worker's dict.               *)
Failed(r, id, attempts) ==
  Finished(r, id, IF attempts >= MaxAttempts THEN "FAILED" ELSE "PENDING")

Recovered(r) == [r EXCEPT !.status = "PENDING", !.owner = NoOne]

-----------------------------------------------------------------------------
SetRow(j, r) == jobs' = [jobs EXCEPT ![j] = r]

Batch(todo) == IF todo = {} THEN Polling ELSE [pc |-> "batch", todo |-> todo]

InHand(w, pc) == [pc |-> pc, todo |-> slot[w].todo, at |-> slot[w].at]

(* schedule_subscription_reminders, backfill_due_reminders and             *)
(* schedule_winback_jobs: at most one row per dedupe_key.                  *)
Schedule(j) ==
  /\ jobs[j].status = "ABSENT"
  /\ SetRow(j, [AbsentRow EXCEPT !.status = "PENDING"])
  /\ UNCHANGED <<slot, ledger, copies>>

(* txn 1.  FOR UPDATE SKIP LOCKED and run_at may leave any due row out.    *)
ClaimBatch(w, due) ==
  /\ slot[w] = Polling
  /\ due # {} /\ Cardinality(due) <= BatchSize
  /\ \A j \in due : Claimable(jobs[j])
  /\ jobs' = [j \in Jobs |-> IF j \in due THEN Claimed(jobs[j], WorkerId[w]) ELSE jobs[j]]
  /\ slot' = [slot EXCEPT ![w] = Batch({[job |-> j, attempts |-> jobs[j].attempts + 1] : j \in due})]
  /\ UNCHANGED <<ledger, copies>>

(* The short read transaction before a send.                               *)
CheckOwner(w, c) ==
  LET rest == slot[w].todo \ {c}
  IN /\ slot[w].pc = "batch"
     /\ c \in slot[w].todo
     /\ slot' = [slot EXCEPT ![w] =
                   IF Owned(jobs[c.job], WorkerId[w])
                     THEN [pc |-> "send", todo |-> rest, at |-> c] ELSE Batch(rest)]
     /\ UNCHANGED <<jobs, ledger, copies>>

(* It raises: the user has no Telegram id, or the database is away.        *)
CheckRaises(w, c) ==
  /\ slot[w].pc = "batch"
  /\ c \in slot[w].todo
  /\ slot' = [slot EXCEPT ![w] = [pc |-> "fail", todo |-> slot[w].todo \ {c}, at |-> c]]
  /\ UNCHANGED <<jobs, ledger, copies>>

Got(c) == copies' = [copies EXCEPT ![c.job][c.attempts] = @ + 1]

(* Mutant: the client repeats the request when no answer comes.            *)
SendRepeating(w) ==
  /\ slot[w].pc = "send"
  /\ Got(slot[w].at)
  /\ slot' = [slot EXCEPT ![w] = InHand(w, "send")]
  /\ UNCHANGED <<jobs, ledger>>

(* bot.send_message, outside any transaction.                              *)
Send(w) ==
  /\ slot[w].pc = "send"
  /\ Got(slot[w].at)
  /\ slot' = [slot EXCEPT ![w] = InHand(w, "mark")]
  /\ UNCHANGED <<jobs, ledger>>

(* Mutant: an error of send_message is logged and swallowed.               *)
SendSwallowed(w) ==
  /\ slot[w].pc = "send"
  /\ slot' = [slot EXCEPT ![w] = InHand(w, "mark")]
  /\ UNCHANGED <<jobs, ledger, copies>>

(* It raises, and the message was delivered nevertheless or was not.       *)
SendRaises(w) ==
  /\ slot[w].pc = "send"
  /\ Got(slot[w].at) \/ UNCHANGED copies
  /\ slot' = [slot EXCEPT ![w] = InHand(w, "fail")]
  /\ UNCHANGED <<jobs, ledger>>

(* SELECT COALESCE(MAX(attempt_number), 0) + 1                             *)
NextNumber(j) == Len(ledger[j]) + 1

ReadNumber(w) ==
  LET next == IF slot[w].pc = "mark" THEN "marking" ELSE "failing"
  IN /\ slot[w].pc \in {"mark", "fail"}
     /\ slot' = [slot EXCEPT ![w] = [pc |-> next, todo |-> slot[w].todo, at |-> slot[w].at,
                                     number |-> NextNumber(slot[w].at.job)]]
     /\ UNCHANGED <<jobs, ledger, copies>>

Log(c, status) ==
  ledger' = [ledger EXCEPT ![c.job] = Append(@, [status |-> status, claim |-> c.attempts])]

(* mark_notification_sent.                                                 *)
MarkSent(w) ==
  LET c == slot[w].at
  IN /\ slot[w].pc = "marking"
     /\ slot[w].number = NextNumber(c.job)
     /\ Log(c, "SENT")
     /\ SetRow(c.job, Finished(jobs[c.job], WorkerId[w], "SENT"))
     /\ slot' = [slot EXCEPT ![w] = Batch(slot[w].todo)]
     /\ UNCHANGED copies

(* uq_notification_attempt_job_number: a rival's row took the number, or  *)
(* the database is away; the message is out, and yet it is marked failed.  *)
MarkSentRaises(w) ==
  /\ slot[w].pc = "marking"
  /\ slot' = [slot EXCEPT ![w] = InHand(w, "fail")]
  /\ UNCHANGED <<jobs, ledger, copies>>

(* mark_notification_failed.                                               *)
MarkFailed(w) ==
  LET c == slot[w].at
  IN /\ slot[w].pc = "failing"
     /\ slot[w].number = NextNumber(c.job)
     /\ Log(c, "FAILED")
     /\ SetRow(c.job, Failed(jobs[c.job], WorkerId[w], c.attempts))
     /\ slot' = [slot EXCEPT ![w] = Batch(slot[w].todo)]
     /\ UNCHANGED copies

(* Its exception is only logged: the row stays as it is.                   *)
MarkFailedRaises(w) ==
  /\ slot[w].pc \in {"fail", "failing"}
  /\ slot' = [slot EXCEPT ![w] = Batch(slot[w].todo)]
  /\ UNCHANGED <<jobs, ledger, copies>>

(* The process dies; the supervisor starts a new one, which polls.         *)
Crash(w) ==
  /\ slot[w] # Polling
  /\ slot' = [slot EXCEPT ![w] = Polling]
  /\ UNCHANGED <<jobs, ledger, copies>>

(* Mutant: the recovery leaves alone what can not be claimed again.        *)
RecoverClaimable(stale) ==
  /\ stale # {}
  /\ \A j \in stale : jobs[j].status = "PROCESSING" /\ jobs[j].attempts < MaxAttempts
  /\ jobs' = [j \in Jobs |-> IF j \in stale THEN Recovered(jobs[j]) ELSE jobs[j]]
  /\ UNCHANGED <<slot, ledger, copies>>

(* recover_stale_notifications, for the rows whose locked_at is too old.   *)
Recover(stale) ==
  /\ stale # {}
  /\ \A j \in stale : jobs[j].status = "PROCESSING"
  /\ jobs' = [j \in Jobs |-> IF j \in stale THEN Recovered(jobs[j]) ELSE jobs[j]]
  /\ UNCHANGED <<slot, ledger, copies>>

-----------------------------------------------------------------------------
Init ==
  /\ jobs = [j \in Jobs |-> AbsentRow]
  /\ slot = [w \in Workers |-> Polling]
  /\ ledger = [j \in Jobs |-> << >>]
  /\ copies = [j \in Jobs |-> [n \in 1..MaxAttempts |-> 0]]

DeliverStep(w) ==
  \/ \E c \in Claims : CheckOwner(w, c) \/ CheckRaises(w, c)
  \/ Send(w)
  \/ SendRaises(w)
  \/ ReadNumber(w)
  \/ MarkSent(w)
  \/ MarkSentRaises(w)
  \/ MarkFailed(w)
  \/ MarkFailedRaises(w)

Next ==
  \/ \E j \in Jobs : Schedule(j)
  \/ \E w \in Workers, due \in SUBSET Jobs : ClaimBatch(w, due)
  \/ \E w \in Workers : DeliverStep(w) \/ Crash(w)
  \/ \E stale \in SUBSET Jobs : Recover(stale)

Spec == Init /\ [][Next]_vars

(* A delivery goes on, a due row is claimed in the end, and the recovery   *)
(* loop finds a row whose lease is over.                                   *)
Fairness ==
  /\ \A w \in Workers : WF_vars(DeliverStep(w))
  /\ \A j \in Jobs :
       /\ SF_vars(\E w \in Workers, due \in SUBSET Jobs : j \in due /\ ClaimBatch(w, due))
       /\ WF_vars(\E stale \in SUBSET Jobs : j \in stale /\ Recover(stale))

FairSpec == Spec /\ Fairness

-----------------------------------------------------------------------------
(* Types.                                                                  *)
TypeOK ==
  /\ jobs \in [Jobs -> Row]
  /\ slot \in [Workers -> Slot]
  /\ ledger \in [Jobs -> Seq(Entry)]
  /\ copies \in [Jobs -> [1..MaxAttempts -> Nat]]

(* A row is locked exactly while it is PROCESSING: the fences of the       *)
(* finalizing updates, which test locked_by and not the status, rest on it.*)
LockedIffProcessing ==
  \A j \in Jobs : jobs[j].owner # NoOne <=> jobs[j].status = "PROCESSING"

(* At-least-once, with a bound: a claim sends at most one copy, whatever   *)
(* crashes, recoveries and workers that share an id do to it, and a claim  *)
(* that sent one is counted in attempts.  So the user gets at most         *)
(* MaxAttempts copies.                                                     *)
OneCopyPerClaim ==
  \A j \in Jobs, n \in 1..MaxAttempts :
    copies[j][n] <= IF n <= jobs[j].attempts THEN 1 ELSE 0

(* A row is SENT only if the user got the message.                         *)
SentIsDelivered ==
  \A j \in Jobs : jobs[j].status = "SENT" => \E n \in 1..MaxAttempts : copies[j][n] = 1

(* A notification is given up only when its attempts are used up, however  *)
(* stale the dict of the worker that gives it up.                          *)
FailedForCause ==
  \A j \in Jobs : jobs[j].status = "FAILED" => jobs[j].attempts = MaxAttempts

(* The attempts ledger is honest: one entry per claim at most, and a SENT  *)
(* entry only for a claim whose message went out.                          *)
LedgerHonest ==
  \A j \in Jobs : \A i \in 1..Len(ledger[j]) :
    /\ ledger[j][i].status = "SENT" => copies[j][ledger[j][i].claim] = 1
    /\ \A k \in 1..Len(ledger[j]) : ledger[j][i].claim = ledger[j][k].claim => i = k

(* A sent notification stays sent: neither a late failure of another       *)
(* worker nor the recovery puts it back in the queue.                      *)
SentIsFinal ==
  [][\A j \in Jobs : jobs[j].status = "SENT" => jobs'[j].status = "SENT"]_vars

(* No claim holds a row for ever, whatever became of the worker.           *)
EveryClaimEnds ==
  \A j \in Jobs : jobs[j].status = "PROCESSING" ~> jobs[j].status # "PROCESSING"
=============================================================================
