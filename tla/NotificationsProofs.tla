------------------------- MODULE NotificationsProofs -------------------------
(***************************************************************************)
(* Proofs about Notifications, for any number of rows, workers and         *)
(* attempts, and whether or not the workers have ids of their own.         *)
(***************************************************************************)
EXTENDS Notifications, TLAPS

USE NotificationsAssumption

(* What a worker in state s has not looked at, has in hand, and owes.      *)
Todo(s)  == IF s.pc = "poll" THEN {} ELSE s.todo
Hand(s)  == IF s.pc \in {"poll", "batch"} THEN {} ELSE {s.at}
Held(s)  == Todo(s) \cup Hand(s)
Fresh(s) == Todo(s) \cup (IF s.pc = "send" THEN {s.at} ELSE {})
Out(s)   == IF s.pc \in {"mark", "marking"} THEN {s.at} ELSE {}

(* A claim in a slot is one of the row's claims so far, has no ledger      *)
(* entry, has sent nothing while it is fresh and one copy once it is out.  *)
ClaimOK(c) ==
  /\ c.attempts <= jobs[c.job].attempts
  /\ \A i \in 1..Len(ledger[c.job]) : ledger[c.job][i].claim # c.attempts

SlotOK(s) ==
  /\ \A c \in Held(s) : ClaimOK(c)
  /\ \A c \in Fresh(s) : copies[c.job][c.attempts] = 0
  /\ \A c \in Out(s) : copies[c.job][c.attempts] = 1
  /\ Hand(s) \cap Todo(s) = {}

(* No claim is in two slots, whoever holds the row by now.                 *)
Apart == \A v, w \in Workers : v # w => Held(slot[v]) \cap Held(slot[w]) = {}

LedgerBounded ==
  \A j \in Jobs : \A i \in 1..Len(ledger[j]) : ledger[j][i].claim <= jobs[j].attempts

Unscheduled == \A j \in Jobs : jobs[j].status = "ABSENT" => jobs[j].attempts = 0

(* The inductive invariant.                                                *)
IInv ==
  /\ TypeOK
  /\ \A w \in Workers : SlotOK(slot[w])
  /\ Apart
  /\ LedgerBounded
  /\ Unscheduled
  /\ LockedIffProcessing
  /\ OneCopyPerClaim
  /\ SentIsDelivered
  /\ FailedForCause
  /\ LedgerHonest

-----------------------------------------------------------------------------
(* Types and the parts of a slot.                                          *)

LEMMA SlotParts ==
  ASSUME NEW s \in Slot
  PROVE  /\ s.pc \in {"poll", "batch", "send", "mark", "fail", "marking", "failing"}
         /\ s.pc = "poll" <=> s = Polling
         /\ s.pc # "poll" => s.todo \in SUBSET Claims
         /\ s.pc \notin {"poll", "batch"} => s.at \in Claims
         /\ Held(s) \subseteq Claims /\ Fresh(s) \subseteq Held(s) /\ Out(s) \subseteq Held(s)
  BY DEF Slot, Polling, Held, Todo, Hand, Fresh, Out

LEMMA BatchParts ==
  ASSUME NEW T \in SUBSET Claims
  PROVE  /\ Batch(T) \in Slot
         /\ Todo(Batch(T)) = T /\ Hand(Batch(T)) = {} /\ Held(Batch(T)) = T
         /\ Fresh(Batch(T)) = T /\ Out(Batch(T)) = {}
  BY DEF Batch, Slot, Polling, Held, Todo, Hand, Fresh, Out

Taken(pc, T, c) == [pc |-> pc, todo |-> T, at |-> c]

LEMMA TakenParts ==
  ASSUME NEW T, NEW c, NEW pc \in {"send", "mark", "fail"}
  PROVE  /\ T \in SUBSET Claims /\ c \in Claims => Taken(pc, T, c) \in Slot
         /\ Todo(Taken(pc, T, c)) = T /\ Hand(Taken(pc, T, c)) = {c}
         /\ Held(Taken(pc, T, c)) = T \cup {c}
         /\ Fresh(Taken(pc, T, c)) \subseteq T \cup {c}
         /\ pc # "send" => Fresh(Taken(pc, T, c)) = T
         /\ pc = "mark" => Out(Taken(pc, T, c)) = {c}
         /\ pc # "mark" => Out(Taken(pc, T, c)) = {}
  BY DEF Taken, Slot, Polling, Held, Todo, Hand, Fresh, Out

Numbered(pc, T, c, n) == [pc |-> pc, todo |-> T, at |-> c, number |-> n]

LEMMA NumberedType ==
  ASSUME NEW T \in SUBSET Claims, NEW c \in Claims, NEW pc \in {"marking", "failing"},
         NEW n \in Nat
  PROVE  Numbered(pc, T, c, n) \in Slot
  BY DEF Numbered, Slot

LEMMA ClaimParts ==
  ASSUME NEW c \in Claims
  PROVE  c.job \in Jobs /\ c.attempts \in 1..MaxAttempts /\ c.attempts \in Nat
         /\ c = [job |-> c.job, attempts |-> c.attempts]
  BY DEF Claims

LEMMA RowParts ==
  ASSUME NEW r \in Row
  PROVE  /\ r.status \in Statuses /\ r.attempts \in 0..MaxAttempts /\ r.attempts \in Nat
         /\ r.owner \in Ids \cup {NoOne}
         /\ r = [status |-> r.status, attempts |-> r.attempts, owner |-> r.owner]
  BY DEF Row

(* An unlocking statement keeps attempts, and does nothing to a row that   *)
(* another id, or nobody, has locked.                                      *)
LEMMA FinishedRow ==
  ASSUME NEW r \in Row, NEW id \in Ids, NEW st \in {"PENDING", "SENT", "FAILED"}
  PROVE  /\ Finished(r, id, st) \in Row
         /\ Finished(r, id, st).attempts = r.attempts
         /\ Finished(r, id, st) = r \/ /\ r.owner = id
                                       /\ Finished(r, id, st).status = st
                                       /\ Finished(r, id, st).owner = NoOne
  BY DEF Finished, Row, Statuses

LEMMA RecoveredRow ==
  ASSUME NEW r \in Row
  PROVE  /\ Recovered(r) \in Row /\ Recovered(r).attempts = r.attempts
         /\ Recovered(r).status = "PENDING" /\ Recovered(r).owner = NoOne
  BY DEF Recovered, Row, Statuses

LEMMA ClaimedRow ==
  ASSUME NEW r \in Row, Claimable(r), NEW id \in Ids
  PROVE  /\ Claimed(r, id) \in Row /\ Claimed(r, id).attempts = r.attempts + 1
         /\ Claimed(r, id).status = "PROCESSING" /\ Claimed(r, id).owner = id
  BY DEF Claimed, Claimable, Row, Statuses

LEMMA AbsentRowType == AbsentRow \in Row
  BY DEF AbsentRow, Row, Statuses

LEMMA EntryParts ==
  ASSUME TypeOK, NEW j \in Jobs, NEW i \in 1..Len(ledger[j])
  PROVE  ledger[j][i] \in Entry /\ ledger[j][i].claim \in 1..MaxAttempts
<1>1. \A s \in Seq(Entry) : \A k \in 1..Len(s) : s[k] \in Entry
  OBVIOUS
<1>2. ledger[j][i] \in Entry
  BY <1>1 DEF TypeOK
<1>3. QED
  BY <1>2 DEF Entry

LEMMA InitIInv == Init => IInv
<1> SUFFICES ASSUME Init PROVE IInv
  OBVIOUS
<1>1. Polling \in Slot /\ \A w \in Workers : slot[w] = Polling
  BY DEF Init, Slot
<1>2. Held(Polling) = {} /\ Fresh(Polling) = {} /\ Out(Polling) = {} /\ Hand(Polling) = {}
  BY DEF Held, Todo, Hand, Fresh, Out, Polling
<1>3. << >> \in Seq(Entry) /\ Len(<< >>) = 0
  OBVIOUS
<1>4. TypeOK
  BY <1>1, <1>3, AbsentRowType DEF Init, TypeOK
<1>5. \A j \in Jobs : jobs[j] = AbsentRow /\ ledger[j] = << >>
                      /\ \A n \in 1..MaxAttempts : copies[j][n] = 0
  BY DEF Init
<1>6. \A w \in Workers : SlotOK(slot[w])
  BY <1>1, <1>2 DEF SlotOK
<1>7. Apart
  BY <1>1, <1>2 DEF Apart
<1>8. LedgerBounded /\ LedgerHonest
  BY <1>3, <1>5 DEF LedgerBounded, LedgerHonest
<1>9. LockedIffProcessing /\ SentIsDelivered /\ FailedForCause /\ OneCopyPerClaim /\ Unscheduled
  BY <1>5 DEF Unscheduled, LockedIffProcessing, SentIsDelivered, FailedForCause, OneCopyPerClaim, AbsentRow
<1>10. QED
  BY <1>4, <1>6, <1>7, <1>8, <1>9 DEF IInv

-----------------------------------------------------------------------------
(* A step that only moves one slot on, gaining no claim.                   *)
LEMMA SlotMoves ==
  ASSUME IInv, NEW w \in Workers, NEW s \in Slot, slot' = [slot EXCEPT ![w] = s],
         UNCHANGED <<jobs, ledger, copies>>,
         Held(s) \subseteq Held(slot[w]), Fresh(s) \subseteq Fresh(slot[w]),
         Out(s) \subseteq Out(slot[w]), Hand(s) \cap Todo(s) = {}
  PROVE  IInv'
<1>1. /\ slot'[w] = s /\ \A v \in Workers : v # w => slot'[v] = slot[v]
      /\ slot' \in [Workers -> Slot]
  BY DEF IInv, TypeOK
<1>2. TypeOK'
  BY <1>1 DEF IInv, TypeOK
<1>3. \A c : ClaimOK(c)' <=> ClaimOK(c)
  BY DEF ClaimOK
<1>4. \A v \in Workers : SlotOK(slot[v])'
  BY <1>1, <1>3 DEF IInv, SlotOK
<1>5. Apart'
  BY <1>1 DEF IInv, Apart
<1>6. LedgerBounded' /\ LockedIffProcessing' /\ OneCopyPerClaim' /\ SentIsDelivered'
      /\ FailedForCause' /\ LedgerHonest' /\ Unscheduled'
  BY DEF IInv, LedgerBounded, Unscheduled, LockedIffProcessing, OneCopyPerClaim, SentIsDelivered,
         FailedForCause, LedgerHonest
<1>7. QED
  BY <1>2, <1>4, <1>5, <1>6 DEF IInv

(* A step that only changes rows, none of which loses an attempt, leaves   *)
(* SENT or becomes FAILED.                                                 *)
LEMMA RowsMove ==
  ASSUME IInv, jobs' \in [Jobs -> Row], UNCHANGED <<slot, ledger, copies>>,
         NEW S \in SUBSET Jobs,
         \A j \in S : jobs'[j].status = "PENDING" /\ jobs'[j].owner = NoOne
                      /\ jobs'[j].attempts = jobs[j].attempts,
         \A j \in Jobs \ S : jobs'[j] = jobs[j]
  PROVE  IInv'
<1>1. TypeOK'
  BY DEF IInv, TypeOK
<1>2. \A j \in Jobs : jobs'[j].attempts = jobs[j].attempts
  OBVIOUS
<1>3. \A c \in Claims : ClaimOK(c) => ClaimOK(c)'
  BY <1>2, ClaimParts DEF ClaimOK
<1>4. ASSUME NEW w \in Workers PROVE SlotOK(slot[w])'
  <2>1. slot[w] \in Slot /\ SlotOK(slot[w])
    BY DEF IInv, TypeOK
  <2>2. \A c \in Held(slot[w]) : ClaimOK(c)'
    BY <1>3, <2>1, SlotParts DEF SlotOK
  <2>3. QED
    BY <2>1, <2>2 DEF SlotOK
<1>5. Apart' /\ LedgerHonest'
  BY DEF IInv, Apart, LedgerHonest
<1>6. LedgerBounded' /\ OneCopyPerClaim'
  BY <1>2 DEF IInv, LedgerBounded, OneCopyPerClaim
<1>7. LockedIffProcessing' /\ SentIsDelivered' /\ FailedForCause' /\ Unscheduled'
  BY <1>2 DEF IInv, Unscheduled, LockedIffProcessing, SentIsDelivered, FailedForCause
<1>8. QED
  BY <1>1, <1>4, <1>5, <1>6, <1>7 DEF IInv

LEMMA ScheduleKeeps ==
  ASSUME IInv, NEW j \in Jobs, Schedule(j)
  PROVE  IInv'
<1> DEFINE r == [AbsentRow EXCEPT !.status = "PENDING"]
<1>1. r = [status |-> "PENDING", attempts |-> 0, owner |-> NoOne] /\ r \in Row
  BY DEF AbsentRow, Row, Statuses
<1>2. jobs' = [jobs EXCEPT ![j] = r]
  BY DEF Schedule, SetRow
<1> HIDE DEF r
<1>3. jobs' \in [Jobs -> Row] /\ jobs'[j] = r /\ \A i \in Jobs \ {j} : jobs'[i] = jobs[i]
  BY <1>1, <1>2 DEF IInv, TypeOK
<1>4. UNCHANGED <<slot, ledger, copies>> /\ jobs[j].status = "ABSENT"
  BY DEF Schedule
<1>5. jobs[j].attempts = 0
  BY <1>4 DEF IInv, Unscheduled
<1>6. \A i \in {j} : jobs'[i].status = "PENDING" /\ jobs'[i].owner = NoOne
                       /\ jobs'[i].attempts = jobs[i].attempts
  BY <1>1, <1>3, <1>5
<1>7. {j} \in SUBSET Jobs
  OBVIOUS
<1>8. QED
  BY <1>3, <1>4, <1>6, <1>7, RowsMove

LEMMA RecoverKeeps ==
  ASSUME IInv, NEW stale \in SUBSET Jobs, Recover(stale)
  PROVE  IInv'
<1>1. /\ jobs' = [j \in Jobs |-> IF j \in stale THEN Recovered(jobs[j]) ELSE jobs[j]]
      /\ UNCHANGED <<slot, ledger, copies>>
  BY DEF Recover
<1>2. jobs \in [Jobs -> Row]
  BY DEF IInv, TypeOK
<1>3. /\ jobs' \in [Jobs -> Row]
      /\ \A j \in stale : jobs'[j].status = "PENDING" /\ jobs'[j].owner = NoOne
                          /\ jobs'[j].attempts = jobs[j].attempts
      /\ \A j \in Jobs \ stale : jobs'[j] = jobs[j]
  BY <1>1, <1>2, RecoveredRow
<1>4. QED
  BY <1>1, <1>3, RowsMove

(* A batch is claimed: every claim in it is newer than all of its row's.   *)
LEMMA ClaimKeeps ==
  ASSUME IInv, NEW w \in Workers, NEW due \in SUBSET Jobs, ClaimBatch(w, due)
  PROVE  IInv'
<1> DEFINE T == {[job |-> j, attempts |-> jobs[j].attempts + 1] : j \in due}
<1>1. /\ jobs' = [j \in Jobs |-> IF j \in due THEN Claimed(jobs[j], WorkerId[w]) ELSE jobs[j]]
      /\ slot' = [slot EXCEPT ![w] = Batch(T)]
      /\ UNCHANGED <<ledger, copies>>
      /\ \A j \in due : Claimable(jobs[j])
      /\ slot[w] = Polling
  BY DEF ClaimBatch
<1>2. /\ TypeOK /\ jobs \in [Jobs -> Row] /\ WorkerId[w] \in Ids
      /\ \A j \in Jobs : jobs[j] \in Row /\ jobs[j].attempts \in Nat
  BY RowParts DEF IInv, TypeOK, Ids
<1>3. /\ jobs' \in [Jobs -> Row]
      /\ \A j \in due : /\ jobs'[j].attempts = jobs[j].attempts + 1
                        /\ jobs'[j].status = "PROCESSING" /\ jobs'[j].owner = WorkerId[w]
      /\ \A j \in Jobs \ due : jobs'[j] = jobs[j]
  BY <1>1, <1>2, ClaimedRow
<1>4. \A j \in Jobs : jobs[j].attempts <= jobs'[j].attempts /\ jobs'[j].attempts \in 0..MaxAttempts
  BY <1>2, <1>3, RowParts
<1>5. \A c \in T : c.job \in due /\ c.attempts = jobs[c.job].attempts + 1
  OBVIOUS
<1>6. T \in SUBSET Claims
  <2> SUFFICES ASSUME NEW j \in due
               PROVE  [job |-> j, attempts |-> jobs[j].attempts + 1] \in Claims
    OBVIOUS
  <2>1. jobs[j].attempts + 1 \in 1..MaxAttempts
    BY <1>1, <1>2, RowParts DEF Claimable
  <2>2. QED
    BY <2>1 DEF Claims
<1> HIDE DEF T
<1>7. /\ slot'[w] = Batch(T) /\ \A v \in Workers : v # w => slot'[v] = slot[v]
      /\ slot' \in [Workers -> Slot]
  BY <1>1, <1>2, <1>6, BatchParts DEF TypeOK
<1>8. TypeOK'
  BY <1>1, <1>2, <1>3, <1>7 DEF TypeOK
<1>9. \A c \in T : ClaimOK(c)' /\ copies'[c.job][c.attempts] = 0
  <2> SUFFICES ASSUME NEW c \in T
               PROVE  ClaimOK(c)' /\ copies'[c.job][c.attempts] = 0
    OBVIOUS
  <2>1. c.job \in Jobs /\ c.attempts \in 1..MaxAttempts /\ c.attempts = jobs[c.job].attempts + 1
    BY <1>5, <1>6, ClaimParts
  <2>2. c.attempts <= jobs'[c.job].attempts
    BY <1>3, <1>5, <2>1, <1>2
  <2>3. \A i \in 1..Len(ledger[c.job]) : ledger[c.job][i].claim <= jobs[c.job].attempts
    BY <2>1 DEF IInv, LedgerBounded
  <2>4. \A i \in 1..Len(ledger[c.job]) : ledger[c.job][i].claim # c.attempts
    <3>1. \A x \in Nat : \A y : y <= x => y # x + 1
      OBVIOUS
    <3>2. QED
      BY <2>1, <2>3, <1>2, <3>1
  <2>5. copies[c.job][c.attempts] \in Nat /\ copies[c.job][c.attempts] <= 0
    BY <2>1, <1>2 DEF IInv, OneCopyPerClaim, TypeOK
  <2>6. QED
    BY <2>2, <2>4, <2>5, <1>1 DEF ClaimOK
<1>10. \A c \in Claims : ClaimOK(c) => ClaimOK(c)'
  <2> SUFFICES ASSUME NEW c \in Claims, ClaimOK(c) PROVE ClaimOK(c)'
    OBVIOUS
  <2>1. c.attempts <= jobs'[c.job].attempts
    BY <1>4, <1>2, ClaimParts DEF ClaimOK
  <2>2. QED
    BY <2>1, <1>1 DEF ClaimOK
<1>11. ASSUME NEW v \in Workers PROVE SlotOK(slot[v])'
  <2>1. CASE v = w
    BY <2>1, <1>6, <1>7, <1>9, BatchParts DEF SlotOK
  <2>2. CASE v # w
    <3>1. slot[v] \in Slot /\ SlotOK(slot[v])
      BY <1>2 DEF IInv, TypeOK
    <3>2. \A c \in Held(slot[v]) : ClaimOK(c)'
      BY <1>10, <3>1, SlotParts DEF SlotOK
    <3>3. QED
      BY <2>2, <1>1, <1>7, <3>1, <3>2 DEF SlotOK
  <2>3. QED
    BY <2>1, <2>2
<1>12. Apart'
  <2>1. ASSUME NEW v \in Workers, v # w PROVE Held(slot[v]) \cap T = {}
    <3> SUFFICES ASSUME NEW c \in Held(slot[v]), c \in T PROVE FALSE
      OBVIOUS
    <3>1. slot[v] \in Slot /\ ClaimOK(c) /\ c \in Claims
      BY <1>2, SlotParts, <1>6 DEF IInv, TypeOK, SlotOK
    <3>2. QED
      BY <3>1, <1>5, <1>2, ClaimParts DEF ClaimOK
  <2>2. Held(slot'[w]) = T
    BY <1>6, <1>7, BatchParts
  <2>3. QED
    BY <2>1, <2>2, <1>7 DEF IInv, Apart
<1>13. LedgerBounded'
  <2> SUFFICES ASSUME NEW j \in Jobs, NEW i \in 1..Len(ledger'[j])
               PROVE  ledger'[j][i].claim <= jobs'[j].attempts
    BY DEF LedgerBounded
  <2>1. i \in 1..Len(ledger[j])
    BY <1>1
  <2>2. ledger[j][i].claim <= jobs[j].attempts /\ ledger[j][i].claim \in Nat
    BY <2>1, <1>2, EntryParts DEF IInv, LedgerBounded
  <2>3. QED
    BY <2>2, <1>1, <1>2, <1>4
<1>14. Unscheduled' /\ LockedIffProcessing' /\ SentIsDelivered' /\ FailedForCause' /\ LedgerHonest'
  BY <1>1, <1>2, <1>3 DEF IInv, Unscheduled, LockedIffProcessing, SentIsDelivered,
                          FailedForCause, LedgerHonest
<1>15. OneCopyPerClaim'
  <2> SUFFICES ASSUME NEW j \in Jobs, NEW n \in 1..MaxAttempts
               PROVE  copies'[j][n] <= IF n <= jobs'[j].attempts THEN 1 ELSE 0
    BY DEF OneCopyPerClaim
  <2>1. copies[j][n] <= (IF n <= jobs[j].attempts THEN 1 ELSE 0) /\ copies[j][n] \in Nat
    BY <1>2 DEF IInv, OneCopyPerClaim, TypeOK
  <2>2. QED
    BY <2>1, <1>1, <1>2, <1>4
<1>16. QED
  BY <1>8, <1>11, <1>12, <1>13, <1>14, <1>15 DEF IInv

-----------------------------------------------------------------------------
(* The steps of a delivery that touch neither rows, messages nor ledger.   *)

LEMMA CheckKeeps ==
  ASSUME IInv, NEW w \in Workers, NEW c \in Claims, CheckOwner(w, c) \/ CheckRaises(w, c)
  PROVE  IInv'
<1> DEFINE rest == slot[w].todo \ {c}
<1>1. /\ slot[w].pc = "batch" /\ c \in slot[w].todo
      /\ UNCHANGED <<jobs, ledger, copies>>
      /\ \/ slot' = [slot EXCEPT ![w] = [pc |-> "send", todo |-> rest, at |-> c]]
         \/ slot' = [slot EXCEPT ![w] = [pc |-> "fail", todo |-> rest, at |-> c]]
         \/ slot' = [slot EXCEPT ![w] = Batch(rest)]
  BY DEF CheckOwner, CheckRaises
<1>2. slot[w] \in Slot
  BY DEF IInv, TypeOK
<1>3. slot[w].todo \in SUBSET Claims /\ rest \in SUBSET Claims /\ c \notin rest
  BY <1>1, <1>2, SlotParts
<1>4. Held(slot[w]) = slot[w].todo /\ Fresh(slot[w]) = slot[w].todo /\ Out(slot[w]) = {}
  BY <1>1 DEF Held, Todo, Hand, Fresh, Out
<1>5. rest \subseteq slot[w].todo /\ rest \cup {c} \subseteq slot[w].todo
  BY <1>1
<1> HIDE DEF rest
<1>6. CASE slot' = [slot EXCEPT ![w] = Batch(rest)]
  <2>1. /\ Batch(rest) \in Slot /\ Held(Batch(rest)) \subseteq Held(slot[w])
        /\ Fresh(Batch(rest)) \subseteq Fresh(slot[w]) /\ Out(Batch(rest)) \subseteq Out(slot[w])
        /\ Hand(Batch(rest)) \cap Todo(Batch(rest)) = {}
    BY <1>3, <1>4, <1>5, BatchParts
  <2>2. QED
    BY <1>1, <1>6, <2>1, SlotMoves
<1>7. ASSUME NEW pc \in {"send", "fail"},
             slot' = [slot EXCEPT ![w] = [pc |-> pc, todo |-> rest, at |-> c]]
      PROVE  IInv'
  <2> DEFINE s == Taken(pc, rest, c)
  <2>0. pc \in {"send", "mark", "fail"} /\ pc # "mark"
    OBVIOUS
  <2>1. /\ s \in Slot /\ Todo(s) = rest /\ Hand(s) = {c} /\ Held(s) = rest \cup {c}
        /\ Fresh(s) \subseteq rest \cup {c} /\ Out(s) = {}
    BY <1>3, <2>0, TakenParts
  <2>2. slot' = [slot EXCEPT ![w] = s]
    BY <1>7 DEF Taken
  <2> HIDE DEF s
  <2>3. /\ Held(s) \subseteq Held(slot[w]) /\ Fresh(s) \subseteq Fresh(slot[w])
        /\ Out(s) \subseteq Out(slot[w]) /\ Hand(s) \cap Todo(s) = {}
    BY <1>3, <1>4, <1>5, <2>1
  <2>4. QED
    BY <1>1, <2>1, <2>2, <2>3, SlotMoves
<1>8. QED
  BY <1>1, <1>6, <1>7

(* A slot with a claim in hand.                                            *)
LEMMA Handing ==
  ASSUME IInv, NEW w \in Workers, slot[w].pc \in {"send", "mark", "fail", "marking", "failing"}
  PROVE  /\ slot[w] \in Slot /\ slot[w].todo \in SUBSET Claims /\ slot[w].at \in Claims
         /\ Todo(slot[w]) = slot[w].todo /\ Hand(slot[w]) = {slot[w].at}
         /\ Held(slot[w]) = slot[w].todo \cup {slot[w].at}
         /\ Fresh(slot[w]) = IF slot[w].pc = "send" THEN Held(slot[w]) ELSE slot[w].todo
         /\ Out(slot[w]) = IF slot[w].pc \in {"mark", "marking"} THEN {slot[w].at} ELSE {}
         /\ slot[w].at \notin slot[w].todo
         /\ ClaimOK(slot[w].at)
<1>1. slot[w] \in Slot /\ SlotOK(slot[w])
  BY DEF IInv, TypeOK
<1>2. slot[w].todo \in SUBSET Claims /\ slot[w].at \in Claims
  BY <1>1, SlotParts
<1>3. /\ Todo(slot[w]) = slot[w].todo /\ Hand(slot[w]) = {slot[w].at}
      /\ Held(slot[w]) = slot[w].todo \cup {slot[w].at}
      /\ Fresh(slot[w]) = IF slot[w].pc = "send" THEN Held(slot[w]) ELSE slot[w].todo
      /\ Out(slot[w]) = IF slot[w].pc \in {"mark", "marking"} THEN {slot[w].at} ELSE {}
  BY DEF Held, Todo, Hand, Fresh, Out
<1>4. QED
  BY <1>1, <1>2, <1>3 DEF SlotOK

LEMMA LetGoKeeps ==
  ASSUME IInv, NEW w \in Workers,
         MarkSentRaises(w) \/ MarkFailedRaises(w) \/ Crash(w) \/ ReadNumber(w)
  PROVE  IInv'
<1> DEFINE T == slot[w].todo
           c == slot[w].at
<1>1. slot[w] \in Slot /\ Hand(slot[w]) \cap Todo(slot[w]) = {}
  BY DEF IInv, TypeOK, SlotOK
<1>2. CASE Crash(w)
  <2>1. /\ Polling \in Slot /\ Held(Polling) = {} /\ Fresh(Polling) = {} /\ Out(Polling) = {}
        /\ Hand(Polling) = {}
    BY DEF Slot, Held, Todo, Hand, Fresh, Out, Polling
  <2>2. slot' = [slot EXCEPT ![w] = Polling] /\ UNCHANGED <<jobs, ledger, copies>>
    BY <1>2 DEF Crash
  <2>3. QED
    BY <2>1, <2>2, SlotMoves
<1>3. CASE MarkFailedRaises(w)
  <2>1. /\ slot[w].pc \in {"fail", "failing"} /\ slot' = [slot EXCEPT ![w] = Batch(T)]
        /\ UNCHANGED <<jobs, ledger, copies>>
    BY <1>3 DEF MarkFailedRaises
  <2>2. Batch(T) \in Slot /\ Held(Batch(T)) = T /\ Fresh(Batch(T)) = T /\ Out(Batch(T)) = {}
        /\ Hand(Batch(T)) = {} /\ T \subseteq Held(slot[w]) /\ T \subseteq Fresh(slot[w])
    BY <2>1, Handing, BatchParts
  <2>3. QED
    BY <2>1, <2>2, SlotMoves
<1>4. CASE MarkSentRaises(w)
  <2> DEFINE s == Taken("fail", T, c)
  <2>1. /\ slot[w].pc = "marking" /\ slot' = [slot EXCEPT ![w] = s]
        /\ UNCHANGED <<jobs, ledger, copies>>
    BY <1>4 DEF MarkSentRaises, InHand, Taken
  <2>2. /\ T \in SUBSET Claims /\ c \in Claims /\ c \notin T
        /\ Held(slot[w]) = T \cup {c} /\ Fresh(slot[w]) = T
    BY <2>1, Handing
  <2>3. T \in SUBSET Claims /\ c \in Claims
    BY <2>2
  <2> HIDE DEF T, c
  <2>4. s \in Slot /\ Held(s) = T \cup {c} /\ Hand(s) = {c} /\ Todo(s) = T
    <3>1. s \in Slot
      BY <2>3, TakenParts
    <3>2. Held(s) = T \cup {c}
      BY TakenParts
    <3>3. Hand(s) = {c} /\ Todo(s) = T
      BY TakenParts
    <3>4. QED
      BY <3>1, <3>2, <3>3
  <2>5. Fresh(s) = T /\ Out(s) = {}
    BY <2>3, TakenParts
  <2> HIDE DEF s
  <2>6. QED
    BY <2>1, <2>2, <2>4, <2>5, SlotMoves
<1>5. CASE ReadNumber(w)
  <2> DEFINE n == NextNumber(c.job)
             pc == IF slot[w].pc = "mark" THEN "marking" ELSE "failing"
             s == Numbered(pc, T, c, n)
  <2>1. /\ slot[w].pc \in {"mark", "fail"} /\ slot' = [slot EXCEPT ![w] = s]
        /\ UNCHANGED <<jobs, ledger, copies>>
    BY <1>5 DEF ReadNumber, Numbered
  <2>2. pc \in {"marking", "failing"} /\ (pc = "marking" <=> slot[w].pc = "mark")
    OBVIOUS
  <2>3. /\ T \in SUBSET Claims /\ c \in Claims /\ c \notin T
        /\ Held(slot[w]) = T \cup {c} /\ Fresh(slot[w]) = T
        /\ slot[w].pc = "mark" => Out(slot[w]) = {c}
    BY <2>1, Handing
  <2>4. n \in Nat
    BY <2>3, ClaimParts DEF NextNumber, IInv, TypeOK
  <2> HIDE DEF T, c, n, pc
  <2>5. s \in Slot
    BY <2>2, <2>3, <2>4, NumberedType
  <2>6. Held(s) = T \cup {c} /\ Fresh(s) = T /\ Hand(s) = {c} /\ Todo(s) = T
    BY <2>2 DEF Numbered, Held, Fresh, Hand, Todo
  <2>7. Out(s) = IF pc = "marking" THEN {c} ELSE {}
    BY <2>2 DEF Numbered, Out
  <2> HIDE DEF s
  <2>8. /\ Held(s) \subseteq Held(slot[w]) /\ Fresh(s) \subseteq Fresh(slot[w])
        /\ Out(s) \subseteq Out(slot[w]) /\ Hand(s) \cap Todo(s) = {}
    BY <2>2, <2>3, <2>6, <2>7
  <2>9. QED
    BY <2>1, <2>5, <2>8, SlotMoves
<1>6. QED
  BY <1>2, <1>3, <1>4, <1>5

-----------------------------------------------------------------------------
(* One more copy of the claim in hand, or none.                            *)
LEMMA GotCounts ==
  ASSUME IInv, NEW c \in Claims, Got(c), copies[c.job][c.attempts] = 0
  PROVE  /\ copies' \in [Jobs -> [1..MaxAttempts -> Nat]]
         /\ copies'[c.job][c.attempts] = 1
         /\ \A j \in Jobs, n \in 1..MaxAttempts :
              copies'[j][n] = copies[j][n] \/ (j = c.job /\ n = c.attempts)
<1> DEFINE row == [copies[c.job] EXCEPT ![c.attempts] = @ + 1]
<1>1. c.job \in Jobs /\ c.attempts \in 1..MaxAttempts
  BY ClaimParts
<1>2. copies \in [Jobs -> [1..MaxAttempts -> Nat]] /\ copies[c.job] \in [1..MaxAttempts -> Nat]
  BY <1>1 DEF IInv, TypeOK
<1>3. copies' = [copies EXCEPT ![c.job] = row]
  BY <1>2 DEF Got
<1>4. /\ row \in [1..MaxAttempts -> Nat] /\ row[c.attempts] = 1
      /\ \A n \in 1..MaxAttempts : n # c.attempts => row[n] = copies[c.job][n]
  BY <1>1, <1>2
<1> HIDE DEF row
<1>5. copies' \in [Jobs -> [1..MaxAttempts -> Nat]] /\ copies'[c.job] = row
      /\ \A j \in Jobs : j # c.job => copies'[j] = copies[j]
  BY <1>1, <1>2, <1>3, <1>4
<1>6. QED
  BY <1>1, <1>4, <1>5

(* The message of the claim in hand goes out and the slot moves on.        *)
LEMMA SendKeeps ==
  ASSUME IInv, NEW w \in Workers, Send(w) \/ SendRaises(w)
  PROVE  IInv'
<1> DEFINE T == slot[w].todo
           c == slot[w].at
<1>1. PICK pc \in {"mark", "fail"} :
        /\ slot[w].pc = "send" /\ UNCHANGED <<jobs, ledger>>
        /\ slot' = [slot EXCEPT ![w] = [pc |-> pc, todo |-> T, at |-> c]]
        /\ Got(c) \/ (pc = "fail" /\ UNCHANGED copies)
  BY DEF Send, SendRaises, InHand
<1> DEFINE s == Taken(pc, T, c)
<1>2. /\ T \in SUBSET Claims /\ c \in Claims /\ c \notin T /\ ClaimOK(c)
      /\ Held(slot[w]) = T \cup {c} /\ Fresh(slot[w]) = T \cup {c} /\ Out(slot[w]) = {}
  BY <1>1, Handing
<1> HIDE DEF T, c
<1> pc \in {"send", "mark", "fail"} /\ pc # "send"
  BY <1>1
<1>2a. T \in SUBSET Claims /\ c \in Claims
  BY <1>2
<1>3. s \in Slot /\ Held(s) = T \cup {c} /\ Hand(s) = {c} /\ Todo(s) = T
  <2>1. s \in Slot
    BY <1>2a, TakenParts
  <2>2. Held(s) = T \cup {c}
    BY TakenParts
  <2>3. Hand(s) = {c} /\ Todo(s) = T
    BY TakenParts
  <2>4. QED
    BY <2>1, <2>2, <2>3
<1>3a. Fresh(s) = T /\ Out(s) \subseteq {c}
  <2>1. CASE pc = "mark"
    BY <2>1, <1>2a, TakenParts
  <2>2. CASE pc # "mark"
    BY <2>2, <1>2a, TakenParts
  <2>3. QED
    BY <2>1, <2>2
<1>4. slot' = [slot EXCEPT ![w] = s]
  BY <1>1 DEF Taken
<1> HIDE DEF s
<1>5. CASE UNCHANGED copies /\ pc = "fail"
  <2>1. pc # "mark"
    BY <1>5
  <2>2. Out(s) = {}
    BY <1>2a, <2>1, TakenParts DEF s
  <2>2a. Hand(s) \cap Todo(s) = {}
    BY <1>2, <1>3
  <2>3. QED
    BY <1>1, <1>2, <1>3, <1>3a, <1>4, <1>5, <2>2, <2>2a, SlotMoves
<1>6. CASE Got(c)
  <2>1. /\ TypeOK /\ SlotOK(slot[w]) /\ copies[c.job][c.attempts] = 0
        /\ c.job \in Jobs /\ c.attempts \in 1..MaxAttempts
    BY <1>2, ClaimParts DEF IInv, SlotOK
  <2>2. /\ copies' \in [Jobs -> [1..MaxAttempts -> Nat]]
        /\ copies'[c.job][c.attempts] = 1
        /\ \A j \in Jobs, n \in 1..MaxAttempts :
             copies'[j][n] = copies[j][n] \/ (j = c.job /\ n = c.attempts)
    BY <1>2, <1>6, <2>1, GotCounts
  <2>3. /\ slot'[w] = s /\ \A v \in Workers : v # w => slot'[v] = slot[v]
        /\ slot' \in [Workers -> Slot]
    BY <1>3, <1>4, <2>1 DEF TypeOK
  <2>4. TypeOK'
    BY <1>1, <2>1, <2>2, <2>3 DEF TypeOK
  <2>5. \A d : ClaimOK(d)' <=> ClaimOK(d)
    BY <1>1 DEF ClaimOK
  <2>6. ASSUME NEW d \in Claims, d # c
        PROVE  copies'[d.job][d.attempts] = copies[d.job][d.attempts]
    BY <2>2, <2>6, <1>2, ClaimParts
  <2>7. ASSUME NEW v \in Workers PROVE SlotOK(slot[v])'
    <3>1. CASE v = w
      <4>1. \A d \in T : copies'[d.job][d.attempts] = 0
        BY <1>2, <2>1, <2>6 DEF SlotOK
      <4>2. QED
        BY <3>1, <4>1, <1>2, <1>3, <1>3a, <2>1, <2>2, <2>3, <2>5 DEF SlotOK
    <3>2. CASE v # w
      <4>1. slot[v] \in Slot /\ SlotOK(slot[v]) /\ c \notin Held(slot[v])
        BY <3>2, <1>2, <2>1 DEF IInv, TypeOK, Apart
      <4>2. /\ Held(slot[v]) \subseteq Claims /\ Fresh(slot[v]) \subseteq Held(slot[v])
            /\ Out(slot[v]) \subseteq Held(slot[v])
        BY <4>1, SlotParts
      <4>3. \A d \in Held(slot[v]) : copies'[d.job][d.attempts] = copies[d.job][d.attempts]
        BY <4>1, <4>2, <2>6
      <4>4. QED
        BY <3>2, <4>1, <4>2, <4>3, <2>3, <2>5 DEF SlotOK
    <3>3. QED
      BY <3>1, <3>2
  <2>8. Apart'
    BY <2>3, <1>2, <1>3 DEF IInv, Apart
  <2>9. LedgerBounded' /\ Unscheduled' /\ LockedIffProcessing' /\ FailedForCause'
    BY <1>1 DEF IInv, LedgerBounded, Unscheduled, LockedIffProcessing, FailedForCause
  <2>10. OneCopyPerClaim'
    <3> SUFFICES ASSUME NEW j \in Jobs, NEW n \in 1..MaxAttempts
                 PROVE  copies'[j][n] <= IF n <= jobs'[j].attempts THEN 1 ELSE 0
      BY DEF OneCopyPerClaim
    <3>1. CASE j = c.job /\ n = c.attempts
      BY <3>1, <1>1, <1>2, <2>2 DEF ClaimOK
    <3>2. CASE ~(j = c.job /\ n = c.attempts)
      BY <3>2, <1>1, <2>2 DEF IInv, OneCopyPerClaim
    <3>3. QED
      BY <3>1, <3>2
  <2>11. SentIsDelivered'
    <3> SUFFICES ASSUME NEW j \in Jobs, jobs[j].status = "SENT"
                 PROVE  \E n \in 1..MaxAttempts : copies'[j][n] = 1
      BY <1>1 DEF SentIsDelivered
    <3>1. PICK n \in 1..MaxAttempts : copies[j][n] = 1
      BY DEF IInv, SentIsDelivered
    <3>2. QED
      BY <3>1, <2>2
  <2>12. LedgerHonest'
    <3> SUFFICES ASSUME NEW j \in Jobs, NEW i \in 1..Len(ledger[j])
                 PROVE  /\ ledger[j][i].status = "SENT" => copies'[j][ledger[j][i].claim] = 1
                        /\ \A k \in 1..Len(ledger[j]) :
                             ledger[j][i].claim = ledger[j][k].claim => i = k
      BY <1>1 DEF LedgerHonest
    <3>1. /\ ledger[j][i].status = "SENT" => copies[j][ledger[j][i].claim] = 1
          /\ \A k \in 1..Len(ledger[j]) : ledger[j][i].claim = ledger[j][k].claim => i = k
      BY DEF IInv, LedgerHonest
    <3>2. j = c.job => ledger[j][i].claim # c.attempts
      BY <1>2 DEF ClaimOK
    <3>3. ledger[j][i].claim \in 1..MaxAttempts
      BY <2>1, EntryParts
    <3>4. QED
      BY <3>1, <3>2, <3>3, <2>2
  <2>13. QED
    BY <2>4, <2>7, <2>8, <2>9, <2>10, <2>11, <2>12 DEF IInv
<1>7. QED
  BY <1>1, <1>5, <1>6

-----------------------------------------------------------------------------
(* The finalizing transactions: a ledger entry for the claim in hand, and  *)
(* the row set to st if this worker's id still has it locked.              *)
LEMMA FinishKeeps ==
  ASSUME IInv, NEW w \in Workers, slot[w].pc \in {"marking", "failing"},
         NEW c, c = slot[w].at,
         NEW out \in {"SENT", "FAILED"}, out = "SENT" => slot[w].pc = "marking",
         Log(c, out),
         NEW st \in {"PENDING", "SENT", "FAILED"},
         st = "SENT" => slot[w].pc = "marking",
         st = "FAILED" => c.attempts = MaxAttempts,
         SetRow(c.job, Finished(jobs[c.job], WorkerId[w], st)),
         slot' = [slot EXCEPT ![w] = Batch(slot[w].todo)], UNCHANGED copies
  PROVE  IInv'
<1> DEFINE T == slot[w].todo
           j0 == c.job
           e == [status |-> out, claim |-> c.attempts]
<1>1. /\ T \in SUBSET Claims /\ c \in Claims /\ c \notin T /\ ClaimOK(c)
      /\ Held(slot[w]) = T \cup {c} /\ Fresh(slot[w]) = T
      /\ slot[w].pc = "marking" => Out(slot[w]) = {c}
  BY Handing
<1>2. /\ TypeOK /\ j0 \in Jobs /\ c.attempts \in 1..MaxAttempts
      /\ jobs[j0] \in Row /\ WorkerId[w] \in Ids /\ ledger[j0] \in Seq(Entry)
  BY <1>1, ClaimParts DEF IInv, TypeOK, Ids
<1>3. /\ jobs' \in [Jobs -> Row]
      /\ \A j \in Jobs : jobs'[j].attempts = jobs[j].attempts
      /\ \A j \in Jobs : jobs'[j] = jobs[j]
           \/ (j = j0 /\ jobs[j].owner = WorkerId[w] /\ jobs'[j].status = st /\ jobs'[j].owner = NoOne)
  <2> DEFINE r == Finished(jobs[j0], WorkerId[w], st)
  <2>1. /\ r \in Row /\ r.attempts = jobs[j0].attempts
        /\ r = jobs[j0] \/ (jobs[j0].owner = WorkerId[w] /\ r.status = st /\ r.owner = NoOne)
    <3>1. \A q \in Row : /\ Finished(q, WorkerId[w], st) \in Row
                         /\ Finished(q, WorkerId[w], st).attempts = q.attempts
                         /\ Finished(q, WorkerId[w], st) = q
                              \/ /\ q.owner = WorkerId[w]
                                 /\ Finished(q, WorkerId[w], st).status = st
                                 /\ Finished(q, WorkerId[w], st).owner = NoOne
      BY <1>2, FinishedRow
    <3>2. QED
      BY <1>2, <3>1
  <2>2. jobs' = [jobs EXCEPT ![j0] = r]
    BY DEF SetRow
  <2> HIDE DEF r
  <2>3. QED
    BY <1>2, <2>1, <2>2 DEF TypeOK
<1>4. slot[w].pc = "marking" => copies[j0][c.attempts] = 1
  BY <1>1 DEF IInv, SlotOK
<1>5. /\ slot'[w] = Batch(T) /\ slot' \in [Workers -> Slot]
      /\ \A v \in Workers : v # w => slot'[v] = slot[v]
  BY <1>1, <1>2, BatchParts DEF TypeOK
<1>6. e \in Entry /\ e.claim = c.attempts /\ e.status = out
  BY <1>2 DEF Entry
<1>7. ledger' = [ledger EXCEPT ![j0] = Append(@, e)]
  BY DEF Log
<1> HIDE DEF e
<1>8. /\ ledger' \in [Jobs -> Seq(Entry)]
      /\ \A j \in Jobs : j # j0 => ledger'[j] = ledger[j]
      /\ Len(ledger'[j0]) = Len(ledger[j0]) + 1 /\ Len(ledger[j0]) \in Nat
      /\ \A i \in 1..Len(ledger[j0]) : ledger'[j0][i] = ledger[j0][i]
      /\ ledger'[j0][Len(ledger[j0]) + 1] = e
  BY <1>2, <1>6, <1>7 DEF TypeOK
(* An entry of the new ledger is an old one, or the one for c.             *)
<1>9. ASSUME NEW j \in Jobs, NEW i \in 1..Len(ledger'[j])
      PROVE  \/ i \in 1..Len(ledger[j]) /\ ledger'[j][i] = ledger[j][i]
             \/ j = j0 /\ i = Len(ledger[j0]) + 1 /\ ledger'[j][i] = e
  BY <1>8
<1>10. TypeOK'
  BY <1>2, <1>3, <1>5, <1>8 DEF TypeOK
<1>11. ASSUME NEW d \in Claims, d # c, ClaimOK(d) PROVE ClaimOK(d)'
  <2>1. d.job = j0 => d.attempts # c.attempts
    BY <1>1, <1>11, ClaimParts
  <2>2. d.job \in Jobs /\ d.attempts <= jobs'[d.job].attempts
    BY <1>3, <1>11, ClaimParts DEF ClaimOK
  <2>3. ASSUME NEW i \in 1..Len(ledger'[d.job])
        PROVE  ledger'[d.job][i].claim # d.attempts
    BY <1>6, <1>9, <1>11, <2>1, <2>2 DEF ClaimOK
  <2>4. QED
    BY <2>2, <2>3 DEF ClaimOK
<1>12. ASSUME NEW v \in Workers PROVE SlotOK(slot[v])'
  <2>1. slot[v] \in Slot /\ SlotOK(slot[v])
    BY <1>2 DEF IInv, TypeOK
  <2>2. CASE v = w
    <3>1. \A d \in T : ClaimOK(d)'
      BY <1>1, <1>11, <2>1, <2>2 DEF SlotOK
    <3>2. \A d \in T : copies[d.job][d.attempts] = 0
      BY <1>1, <2>1, <2>2 DEF SlotOK
    <3>3. QED
      BY <1>1, <1>5, <2>2, <3>1, <3>2, BatchParts DEF SlotOK
  <2>3. CASE v # w
    <3>1. c \notin Held(slot[v])
      BY <1>1, <2>3 DEF IInv, Apart
    <3>2. \A d \in Held(slot[v]) : ClaimOK(d)'
      BY <1>11, <2>1, <3>1, SlotParts DEF SlotOK
    <3>3. QED
      BY <1>5, <2>1, <2>3, <3>2 DEF SlotOK
  <2>4. QED
    BY <2>2, <2>3
<1>13. Apart'
  <2>1. Held(slot'[w]) = T
    BY <1>1, <1>5, BatchParts
  <2>2. QED
    BY <1>1, <1>5, <2>1 DEF IInv, Apart
<1>14. LedgerBounded'
  <2> SUFFICES ASSUME NEW j \in Jobs, NEW i \in 1..Len(ledger'[j])
               PROVE  ledger'[j][i].claim <= jobs'[j].attempts
    BY DEF LedgerBounded
  <2>1. c.attempts <= jobs[j0].attempts
    BY <1>1 DEF ClaimOK
  <2>2. QED
    BY <1>3, <1>6, <1>9, <2>1 DEF IInv, LedgerBounded
<1>15. LockedIffProcessing' /\ Unscheduled'
  <2> SUFFICES ASSUME NEW j \in Jobs
               PROVE  /\ jobs'[j].owner # NoOne <=> jobs'[j].status = "PROCESSING"
                      /\ jobs'[j].status = "ABSENT" => jobs'[j].attempts = 0
    BY DEF LockedIffProcessing, Unscheduled
  <2>1. CASE jobs'[j] = jobs[j]
    BY <2>1 DEF IInv, LockedIffProcessing, Unscheduled
  <2>2. CASE jobs'[j].status = st /\ jobs'[j].owner = NoOne
    BY <2>2
  <2>3. QED
    BY <1>3, <2>1, <2>2
<1>16. OneCopyPerClaim'
  BY <1>3 DEF IInv, OneCopyPerClaim
<1>17. SentIsDelivered'
  BY <1>2, <1>3, <1>4 DEF IInv, SentIsDelivered
<1>18. FailedForCause'
  <2> SUFFICES ASSUME NEW j \in Jobs, jobs'[j].status = "FAILED"
               PROVE  jobs'[j].attempts = MaxAttempts
    BY DEF FailedForCause
  <2>1. CASE jobs'[j] = jobs[j]
    BY <2>1 DEF IInv, FailedForCause
  <2>2. CASE j = j0 /\ st = "FAILED"
    <3>1. MaxAttempts <= jobs[j0].attempts /\ jobs[j0].attempts \in 0..MaxAttempts
      BY <1>1, <1>2, <2>2, RowParts DEF ClaimOK
    <3>2. QED
      BY <1>3, <2>2, <3>1
  <2>3. QED
    BY <1>3, <2>1, <2>2
<1>19. LedgerHonest'
  <2> SUFFICES ASSUME NEW j \in Jobs, NEW i \in 1..Len(ledger'[j])
               PROVE  /\ ledger'[j][i].status = "SENT" => copies[j][ledger'[j][i].claim] = 1
                      /\ \A k \in 1..Len(ledger'[j]) :
                           ledger'[j][i].claim = ledger'[j][k].claim => i = k
    BY DEF LedgerHonest
  <2>1. ledger'[j][i].status = "SENT" => copies[j][ledger'[j][i].claim] = 1
    <3>1. CASE i \in 1..Len(ledger[j]) /\ ledger'[j][i] = ledger[j][i]
      BY <3>1 DEF IInv, LedgerHonest
    <3>2. CASE j = j0 /\ ledger'[j][i] = e
      BY <1>4, <1>6, <3>2
    <3>3. QED
      BY <1>9, <3>1, <3>2
  <2>2. ASSUME NEW k \in 1..Len(ledger'[j]), ledger'[j][i].claim = ledger'[j][k].claim
        PROVE  i = k
    <3>1. \A n \in 1..Len(ledger[j0]) : ledger[j0][n].claim # c.attempts
      BY <1>1 DEF ClaimOK
    <3>2. CASE /\ i \in 1..Len(ledger[j]) /\ ledger'[j][i] = ledger[j][i]
               /\ k \in 1..Len(ledger[j]) /\ ledger'[j][k] = ledger[j][k]
      BY <2>2, <3>2 DEF IInv, LedgerHonest
    <3>3. CASE j = j0 /\ i = Len(ledger[j0]) + 1 /\ ledger'[j][i] = e
      BY <1>6, <1>9, <2>2, <3>1, <3>3
    <3>4. CASE j = j0 /\ k = Len(ledger[j0]) + 1 /\ ledger'[j][k] = e
      BY <1>6, <1>9, <2>2, <3>1, <3>4
    <3>5. QED
      BY <1>9, <3>2, <3>3, <3>4
  <2>3. QED
    BY <2>1, <2>2
<1>20. QED
  BY <1>10, <1>12, <1>13, <1>14, <1>15, <1>16, <1>17, <1>18, <1>19 DEF IInv

LEMMA MarkKeeps ==
  ASSUME IInv, NEW w \in Workers, MarkSent(w) \/ MarkFailed(w)
  PROVE  IInv'
<1>1. CASE MarkSent(w)
  <2>1. /\ slot[w].pc = "marking" /\ Log(slot[w].at, "SENT")
        /\ SetRow(slot[w].at.job, Finished(jobs[slot[w].at.job], WorkerId[w], "SENT"))
        /\ slot' = [slot EXCEPT ![w] = Batch(slot[w].todo)] /\ UNCHANGED copies
    BY <1>1 DEF MarkSent
  <2>2. QED
    BY <2>1, FinishKeeps
<1>2. CASE MarkFailed(w)
  <2> DEFINE c == slot[w].at
             st == IF c.attempts >= MaxAttempts THEN "FAILED" ELSE "PENDING"
  <2>1. /\ slot[w].pc = "failing" /\ Log(c, "FAILED")
        /\ SetRow(c.job, Finished(jobs[c.job], WorkerId[w], st))
        /\ slot' = [slot EXCEPT ![w] = Batch(slot[w].todo)] /\ UNCHANGED copies
    BY <1>2 DEF MarkFailed, Failed
  <2>2. c.attempts \in 1..MaxAttempts
    BY <2>1, Handing, ClaimParts
  <2>3. st \in {"PENDING", "SENT", "FAILED"} /\ st # "SENT"
        /\ (st = "FAILED" => c.attempts = MaxAttempts)
    BY <2>2
  <2> HIDE DEF st, c
  <2>4. c = slot[w].at
    BY DEF c
  <2>5. QED
    BY <2>1, <2>3, <2>4, FinishKeeps
<1>3. QED
  BY <1>1, <1>2

-----------------------------------------------------------------------------
LEMMA StepKeeps == IInv /\ [Next]_vars => IInv'
<1> SUFFICES ASSUME IInv, [Next]_vars PROVE IInv'
  OBVIOUS
<1>1. ASSUME NEW j \in Jobs, Schedule(j) PROVE IInv'
  BY <1>1, ScheduleKeeps
<1>2. ASSUME NEW w \in Workers, NEW due \in SUBSET Jobs, ClaimBatch(w, due) PROVE IInv'
  BY <1>2, ClaimKeeps
<1>3. ASSUME NEW w \in Workers, DeliverStep(w) PROVE IInv'
  BY <1>3, CheckKeeps, SendKeeps, LetGoKeeps, MarkKeeps DEF DeliverStep
<1>4. ASSUME NEW w \in Workers, Crash(w) PROVE IInv'
  BY <1>4, LetGoKeeps
<1>5. ASSUME NEW stale \in SUBSET Jobs, Recover(stale) PROVE IInv'
  BY <1>5, RecoverKeeps
<1>6. CASE UNCHANGED vars
  <2>1. \A c : ClaimOK(c)' <=> ClaimOK(c)
    BY <1>6 DEF vars, ClaimOK
  <2>2. QED
    BY <1>6, <2>1 DEF vars, IInv, TypeOK, SlotOK, Apart, LedgerBounded, Unscheduled,
         LockedIffProcessing, OneCopyPerClaim, SentIsDelivered, FailedForCause, LedgerHonest
<1>7. QED
  BY <1>1, <1>2, <1>3, <1>4, <1>5, <1>6 DEF Next

(* For any number of rows, workers and attempts, with worker ids shared or *)
(* not: one copy per claim at most, SENT only for a delivered message,     *)
(* FAILED only with the attempts used up, and an honest ledger.            *)
THEOREM DeliveryInvariant ==
  Spec => [](TypeOK /\ LockedIffProcessing /\ OneCopyPerClaim /\ SentIsDelivered
               /\ FailedForCause /\ LedgerHonest)
<1>1. IInv => TypeOK /\ LockedIffProcessing /\ OneCopyPerClaim /\ SentIsDelivered
                /\ FailedForCause /\ LedgerHonest
  BY DEF IInv
<1>2. QED
  BY InitIInv, StepKeeps, <1>1, PTL DEF Spec

(* A sent notification stays sent, since nobody has its row locked.        *)
THEOREM SentStays == Spec => SentIsFinal
<1>1. ASSUME IInv, [Next]_vars, NEW j \in Jobs, jobs[j].status = "SENT"
      PROVE  jobs'[j].status = "SENT"
  <2>1. jobs[j].owner = NoOne /\ \A w \in Workers : WorkerId[w] # NoOne
    BY <1>1 DEF IInv, LockedIffProcessing, Ids
  <2>2. \A w \in Workers : \A st : Finished(jobs[j], WorkerId[w], st) = jobs[j]
    BY <2>1 DEF Finished
  <2>3. CASE UNCHANGED jobs
    BY <1>1, <2>3
  <2>4. ASSUME NEW i \in Jobs, NEW r, SetRow(i, r), i = j => r = jobs[j]
        PROVE  jobs'[j].status = "SENT"
    BY <1>1, <2>4 DEF SetRow, IInv, TypeOK
  <2>5. ASSUME NEW i \in Jobs, Schedule(i) PROVE jobs'[j].status = "SENT"
    BY <1>1, <2>4, <2>5 DEF Schedule
  <2>6. ASSUME NEW w \in Workers, NEW due \in SUBSET Jobs, ClaimBatch(w, due)
        PROVE  jobs'[j].status = "SENT"
    BY <1>1, <2>6 DEF ClaimBatch, Claimable
  <2>7. ASSUME NEW stale \in SUBSET Jobs, Recover(stale) PROVE jobs'[j].status = "SENT"
    BY <1>1, <2>7 DEF Recover
  <2>8. ASSUME NEW w \in Workers, MarkSent(w) \/ MarkFailed(w) PROVE jobs'[j].status = "SENT"
    <3>1. slot[w].pc \in {"marking", "failing"} /\ slot[w].at.job \in Jobs
      BY <1>1, <2>8, Handing, ClaimParts DEF MarkSent, MarkFailed
    <3>2. \E st : SetRow(slot[w].at.job, Finished(jobs[slot[w].at.job], WorkerId[w], st))
      BY <2>8 DEF MarkSent, MarkFailed, Failed
    <3>3. QED
      BY <2>2, <2>4, <3>1, <3>2
  <2>9. ASSUME NEW w \in Workers, DeliverStep(w), ~MarkSent(w), ~MarkFailed(w)
        PROVE  UNCHANGED jobs
    BY <2>9 DEF DeliverStep, CheckOwner, CheckRaises, Send, SendRaises, ReadNumber,
                MarkSentRaises, MarkFailedRaises
  <2>10. ASSUME NEW w \in Workers, Crash(w) PROVE UNCHANGED jobs
    BY <2>10 DEF Crash
  <2>11. QED
    BY <1>1, <2>3, <2>5, <2>6, <2>7, <2>8, <2>9, <2>10 DEF Next, vars
<1>2. IInv /\ [Next]_vars => [\A j \in Jobs : jobs[j].status = "SENT" => jobs'[j].status = "SENT"]_vars
  BY <1>1
<1>3. QED
  BY InitIInv, StepKeeps, <1>2, PTL DEF Spec, SentIsFinal
=============================================================================
