----------------------------- MODULE WebhookProofs -----------------------------
(***************************************************************************)
(* Proofs about Growth and Webhook, for any users, slots and updates.      *)
(***************************************************************************)
EXTENDS Webhook, TLAPS

USE GrowthAssumption, WebhookAssumption

Running(t) == t.at \notin {"idle", "answered", "failed"}

(* What a task has to do with the committed rows.                          *)
Fits(t, us, ref, bal) ==
  /\ t.via \in us \cup {NoUser}
  /\ t.at \in {"joining", "entered", "linking", "checked", "linked",
               "coding", "coded", "finishing"} => t.user \in Users
  /\ t.at \in {"linking", "checked", "linked", "paying"} => t.via # NoUser
  /\ t.at \in {"linking", "checked", "linked"} => t.wants = "start"
  /\ t.at = "paying" => \/ t.wants = "start" /\ t.user \in Users
                        \/ t.wants = "topup" /\ t.user = NoUser
  /\ t.at \in {"checked", "linked", "paying"} /\ t.wants = "start" =>
       t.locked /\ ref[t.user] = NoUser
  /\ t.at = "paying" => t.saw = bal[t.via]

(* Two tasks that hold the same wallet, or the same invited user.          *)
Clash(s, t) ==
  \/ s.at = "paying" /\ t.at = "paying" /\ s.via = t.via
  \/ Running(s) /\ Running(t) /\ s.locked /\ t.locked /\ s.user = t.user

TasksFit == \A h \in Slots : Fits(task[h], users, referrer, balance)

NoClash == \A g, h \in Slots : g # h => ~Clash(task[g], task[h])

GrowthInv == GrowthTypeOK /\ TasksFit /\ NoClash /\ WalletAddsUp /\ RewardedOnce

-----------------------------------------------------------------------------
LEMMA IdleTypes == Idle \in Task
  BY DEF Idle, Task, Places

LEMMA WithAt ==
  ASSUME NEW t \in Task, NEW at \in Places
  PROVE  LET n == [t EXCEPT !.at = at]
         IN /\ n \in Task
            /\ n.at = at /\ n.wants = t.wants /\ n.user = t.user /\ n.via = t.via
            /\ n.fresh = t.fresh /\ n.locked = t.locked /\ n.saw = t.saw
  BY DEF Task

LEMMA BecomeFacts ==
  ASSUME GrowthTypeOK, NEW h \in Slots, NEW t \in Task, Become(h, t)
  PROVE  /\ task' \in [Slots -> Task]
         /\ task'[h] = t
         /\ \A g \in Slots : g # h => task'[g] = task[g]
  BY DEF GrowthTypeOK, Become

(* A step that writes no row needs only that its new task is in order.     *)
LEMMA QuietStep ==
  ASSUME GrowthInv, NEW h \in Slots, NEW t \in Task, Become(h, t),
         UNCHANGED <<users, codes, referrer, balance, ledger>>,
         Fits(t, users, referrer, balance),
         \A g \in Slots : g # h => ~Clash(task[g], t)
  PROVE  GrowthInv'
<1> USE DEF GrowthInv
<1>1. /\ task' \in [Slots -> Task]
      /\ task'[h] = t
      /\ \A g \in Slots : g # h => task'[g] = task[g]
  BY BecomeFacts
<1>2. GrowthTypeOK'
  BY <1>1 DEF GrowthTypeOK
<1>3. TasksFit'
  <2> SUFFICES ASSUME NEW g \in Slots
               PROVE  Fits(task'[g], users, referrer, balance)
    BY DEF TasksFit
  <2> QED BY <1>1 DEF TasksFit
<1>4. NoClash'
  <2> SUFFICES ASSUME NEW f \in Slots, NEW g \in Slots, f # g
               PROVE  ~Clash(task'[f], task'[g])
    BY DEF NoClash
  <2>1. CASE f = h
    <3>1. ~Clash(task[g], t) /\ task'[g] = task[g] /\ task'[f] = t
      BY <1>1, <2>1
    <3> QED BY <3>1 DEF Clash
  <2>2. CASE g = h
    BY <1>1, <2>2
  <2>3. CASE f # h /\ g # h
    <3>1. ~Clash(task[f], task[g]) /\ task'[g] = task[g] /\ task'[f] = task[f]
      BY <1>1, <2>3 DEF NoClash
    <3> QED BY <3>1
  <2> QED BY <2>1, <2>2, <2>3
<1>5. WalletAddsUp' /\ RewardedOnce'
  BY DEF WalletAddsUp, RewardedOnce
<1> QED BY <1>2, <1>3, <1>4, <1>5

(* A task that moves on without taking a lock clashes with no one new.     *)
LEMMA MovesOn ==
  ASSUME GrowthInv, NEW h \in Slots, NEW t \in Task,
         t.at # "paying", ~t.locked \/ ~Running(t) \/
           (task[h].locked /\ Running(task[h]) /\ t.user = task[h].user)
  PROVE  \A g \in Slots : g # h => ~Clash(task[g], t)
<1> SUFFICES ASSUME NEW g \in Slots, g # h, Clash(task[g], t)
             PROVE  FALSE
  OBVIOUS
<1>1. ~Clash(task[g], task[h])
  BY DEF GrowthInv, NoClash
<1> QED BY <1>1 DEF Clash

LEMMA TaskFacts ==
  ASSUME GrowthInv, NEW h \in Slots
  PROVE  task[h] \in Task /\ Fits(task[h], users, referrer, balance)
  BY DEF GrowthInv, GrowthTypeOK, TasksFit

LEMMA GotoStep ==
  ASSUME GrowthInv, NEW h \in Slots, NEW at \in Places, Goto(h, at),
         UNCHANGED <<users, codes, referrer, balance, ledger>>,
         at # "paying", Running(task[h]) \/ at \in {"answered", "failed"},
         Fits([task[h] EXCEPT !.at = at], users, referrer, balance)
  PROVE  GrowthInv'
<1> DEFINE t == [task[h] EXCEPT !.at = at]
<1>1. t \in Task /\ t.at = at /\ t.user = task[h].user /\ t.locked = task[h].locked
  BY WithAt, TaskFacts
<1>2. \A g \in Slots : g # h => ~Clash(task[g], t)
  <2>1. t.locked \in BOOLEAN
    BY <1>1 DEF Task
  <2> HIDE DEF t
  <2> QED BY <1>1, <2>1, MovesOn DEF Running
<1> QED BY <1>1, <1>2, QuietStep DEF Goto

-----------------------------------------------------------------------------
LEMMA ArriveStep ==
  ASSUME GrowthInv, NEW h \in Slots, NEW wants \in {"start", "menu"}, NEW u \in Users,
         NEW p \in Users \cup {NoUser}, Arrive(h, wants, u, p)
  PROVE  GrowthInv'
<1> DEFINE t == [Idle EXCEPT !.at = IF u \in users THEN "entered" ELSE "joining",
                             !.wants = wants, !.user = u, !.via = p,
                             !.fresh = u \notin users]
<1>1. t \in Task
  BY DEF Idle, Task, Places
<1>2. t.at \in {"entered", "joining"} /\ t.user = u /\ t.via = p /\ ~t.locked
  BY DEF Idle
<1>3. p \in users \cup {NoUser}
  BY DEF Arrive, GrowthInv, GrowthTypeOK
<1>4. Become(h, t)
  BY DEF Arrive
<1> HIDE DEF t
<1>5. Fits(t, users, referrer, balance)
  BY <1>2, <1>3 DEF Fits
<1>6. \A g \in Slots : g # h => ~Clash(task[g], t)
  BY <1>2 DEF Clash
<1> QED BY <1>1, <1>4, <1>5, <1>6, QuietStep DEF Arrive

(* The steps that only move on.                                            *)
LEMMA PlainStep ==
  ASSUME GrowthInv, NEW h \in Slots,
         Join(h) \/ ReadCode(h) \/ InsertCode(h) \/ InsertReferral(h) \/ Aborts(h)
  PROVE  GrowthInv'
<1>1. task[h] \in Task /\ Fits(task[h], users, referrer, balance)
  BY TaskFacts
<1>2. CASE Join(h)
  <2>1. PICK at \in {"failed", "entered"} : Goto(h, at)
    BY <1>2 DEF Join
  <2>2. Fits([task[h] EXCEPT !.at = at], users, referrer, balance)
    BY <1>1, <1>2, <2>1, WithAt DEF Fits, Join, Places
  <2> QED BY <1>2, <2>1, <2>2, GotoStep DEF Join, Places, Running
<1>3. CASE ReadCode(h)
  <2>1. PICK at \in {"finishing", "coding"} : Goto(h, at)
    BY <1>3 DEF ReadCode
  <2>2. Fits([task[h] EXCEPT !.at = at], users, referrer, balance)
    BY <1>1, <1>3, <2>1, WithAt DEF Fits, ReadCode, Places
  <2> QED BY <1>3, <2>1, <2>2, GotoStep DEF ReadCode, Places, Running
<1>4. CASE InsertCode(h)
  <2>1. PICK at \in {"failed", "coded"} : Goto(h, at)
    BY <1>4 DEF InsertCode
  <2>2. Fits([task[h] EXCEPT !.at = at], users, referrer, balance)
    BY <1>1, <1>4, <2>1, WithAt DEF Fits, InsertCode, Places
  <2> QED BY <1>4, <2>1, <2>2, GotoStep DEF InsertCode, Places, Running
<1>5. CASE InsertReferral(h)
  <2>1. PICK at \in {"failed", "linked"} : Goto(h, at)
    BY <1>5 DEF InsertReferral
  <2>2. Fits([task[h] EXCEPT !.at = at], users, referrer, balance)
    BY <1>1, <1>5, <2>1, WithAt DEF Fits, InsertReferral, Places
  <2> QED BY <1>5, <2>1, <2>2, GotoStep DEF InsertReferral, Places, Running
<1>6. CASE Aborts(h)
  <2>1. Fits([task[h] EXCEPT !.at = "failed"], users, referrer, balance)
    BY <1>1, WithAt DEF Fits, Places
  <2> QED BY <1>6, <2>1, GotoStep DEF Aborts, Places, Running
<1> QED BY <1>2, <1>3, <1>4, <1>5, <1>6

LEMMA JudgeStep ==
  ASSUME GrowthInv, NEW h \in Slots, Judge(h)
  PROVE  GrowthInv'
<1>1. task[h] \in Task /\ Fits(task[h], users, referrer, balance)
  BY TaskFacts
<1>2. CASE task[h].via \notin {NoUser, task[h].user} /\ Goto(h, "linking")
  <2>1. Fits([task[h] EXCEPT !.at = "linking"], users, referrer, balance)
    BY <1>1, <1>2, WithAt DEF Fits, Judge, Places
  <2> QED BY <1>2, <2>1, GotoStep DEF Judge, Places, Running
<1>3. CASE Goto(h, "finishing")
  <2>1. Fits([task[h] EXCEPT !.at = "finishing"], users, referrer, balance)
    BY <1>1, WithAt DEF Fits, Judge, Places
  <2> QED BY <1>3, <2>1, GotoStep DEF Judge, Places, Running
<1> QED BY <1>2, <1>3 DEF Judge

(* Nobody else holds the row: the task that gets it clashes with no one.   *)
LEMMA LockReferredStep ==
  ASSUME GrowthInv, NEW h \in Slots, LockReferred(h)
  PROVE  GrowthInv'
<1>1. task[h] \in Task /\ Fits(task[h], users, referrer, balance)
  BY TaskFacts
<1> DEFINE t == [task[h] EXCEPT !.locked = TRUE,
                   !.at = IF referrer[task[h].user] = NoUser THEN "checked" ELSE "finishing"]
<1>2. t \in Task
  BY <1>1 DEF Task, Places
<1>3. /\ t.at \in {"checked", "finishing"} /\ t.user = task[h].user /\ t.via = task[h].via
      /\ t.locked /\ t.wants = task[h].wants
      /\ t.at = "checked" => referrer[task[h].user] = NoUser
  BY <1>1 DEF Task
<1>4. Become(h, t)
  BY DEF LockReferred
<1> HIDE DEF t
<1>5. Fits(t, users, referrer, balance)
  BY <1>1, <1>3 DEF Fits, LockReferred
<1>6. ASSUME NEW g \in Slots, g # h, Clash(task[g], t)
      PROVE  FALSE
  <2>1. ~Owns(g, task[h].user)
    BY <1>6 DEF LockReferred, Others
  <2>2. Running(task[g]) /\ task[g].locked /\ task[g].user = task[h].user
    BY <1>3, <1>6 DEF Clash
  <2> QED BY <2>1, <2>2 DEF Owns, InTransaction, Running
<1> QED BY <1>2, <1>4, <1>5, <1>6, QuietStep DEF LockReferred

LEMMA LockWalletStep ==
  ASSUME GrowthInv, NEW h \in Slots, LockWallet(h)
  PROVE  GrowthInv'
<1>1. task[h] \in Task /\ Fits(task[h], users, referrer, balance)
  BY TaskFacts
<1> DEFINE t == [task[h] EXCEPT !.at = "paying", !.saw = balance[task[h].via]]
<1>2. task[h].via \in Users /\ balance[task[h].via] \in Nat
  BY <1>1 DEF Fits, LockWallet, GrowthInv, GrowthTypeOK
<1>3. t \in Task
  BY <1>1, <1>2 DEF Task, Places
<1>4. /\ t.at = "paying" /\ t.user = task[h].user /\ t.via = task[h].via
      /\ t.locked = task[h].locked /\ t.wants = task[h].wants /\ t.saw = balance[task[h].via]
  BY <1>1 DEF Task
<1>5. Become(h, t)
  BY DEF LockWallet
<1> HIDE DEF t
<1>6. Fits(t, users, referrer, balance)
  BY <1>1, <1>4 DEF Fits, LockWallet
<1>7. ASSUME NEW g \in Slots, g # h, Clash(task[g], t)
      PROVE  FALSE
  <2>1. ~Credits(g, task[h].via) /\ ~Clash(task[g], task[h])
    BY <1>7 DEF LockWallet, Others, GrowthInv, NoClash
  <2> QED BY <1>4, <1>7, <2>1 DEF Credits, Clash, LockWallet, Running
<1> QED BY <1>3, <1>5, <1>6, <1>7, QuietStep DEF LockWallet

LEMMA TopUpStep ==
  ASSUME GrowthInv, NEW h \in Slots, NEW u \in Users, TopUp(h, u)
  PROVE  GrowthInv'
<1> DEFINE t == [Idle EXCEPT !.at = "paying", !.wants = "topup", !.via = u, !.saw = balance[u]]
<1>1. balance[u] \in Nat
  BY DEF GrowthInv, GrowthTypeOK
<1>2. t \in Task
  BY <1>1 DEF Idle, Task, Places
<1>3. /\ t.at = "paying" /\ t.user = NoUser /\ t.via = u /\ ~t.locked
      /\ t.wants = "topup" /\ t.saw = balance[u]
  BY DEF Idle
<1>4. Become(h, t)
  BY DEF TopUp
<1> HIDE DEF t
<1>5. Fits(t, users, referrer, balance)
  BY <1>3 DEF Fits, TopUp
<1>6. ASSUME NEW g \in Slots, g # h, Clash(task[g], t)
      PROVE  FALSE
  BY <1>3, <1>6 DEF TopUp, Others, Credits, Clash
<1> QED BY <1>2, <1>4, <1>5, <1>6, QuietStep DEF TopUp

LEMMA LeaveStep ==
  ASSUME GrowthInv, NEW h \in Slots, Return(h) \/ Dies(h)
  PROVE  GrowthInv'
<1>1. Become(h, Idle) /\ UNCHANGED <<users, codes, referrer, balance, ledger>>
  BY DEF Return, Dies
<1>2. Fits(Idle, users, referrer, balance)
  BY DEF Fits, Idle
<1>3. \A g \in Slots : g # h => ~Clash(task[g], Idle)
  BY DEF Clash, Idle, Running
<1> QED BY <1>1, <1>2, <1>3, IdleTypes, QuietStep

(* A task that ends lets go of what it held; the others stay apart.        *)
LEMMA EndsApart ==
  ASSUME GrowthInv, NEW h \in Slots, Goto(h, "answered")
  PROVE  /\ task' \in [Slots -> Task]
         /\ task'[h].at = "answered" /\ task'[h].via = task[h].via
         /\ \A g \in Slots : g # h => task'[g] = task[g]
         /\ NoClash'
<1> DEFINE t == [task[h] EXCEPT !.at = "answered"]
<1>1. t \in Task /\ t.at = "answered" /\ t.via = task[h].via
  BY WithAt, TaskFacts DEF Places
<1>2. Become(h, t)
  BY DEF Goto
<1> HIDE DEF t
<1>3. /\ task' \in [Slots -> Task]
      /\ task'[h] = t
      /\ \A g \in Slots : g # h => task'[g] = task[g]
  BY <1>1, <1>2, BecomeFacts DEF GrowthInv
<1>4. ASSUME NEW f \in Slots, NEW g \in Slots, f # g
      PROVE  ~Clash(task'[f], task'[g])
  <2>1. ~Clash(task[f], task[g])
    BY <1>4 DEF GrowthInv, NoClash
  <2>2. CASE f = h \/ g = h
    BY <1>1, <1>3, <2>2 DEF Clash, Running
  <2>3. CASE f # h /\ g # h
    <3>1. task'[f] = task[f] /\ task'[g] = task[g]
      BY <1>3, <2>3
    <3> QED BY <2>1, <3>1
  <2> QED BY <2>2, <2>3
<1>5. NoClash'
  BY <1>4 DEF NoClash
<1> QED BY <1>1, <1>3, <1>5

LEMMA FinishStep ==
  ASSUME GrowthInv, NEW h \in Slots, Finish(h)
  PROVE  GrowthInv'
<1>1. task[h] \in Task /\ Fits(task[h], users, referrer, balance)
  BY TaskFacts
<1>2. /\ task' \in [Slots -> Task] /\ NoClash'
      /\ task'[h].at = "answered" /\ task'[h].via = task[h].via
      /\ \A g \in Slots : g # h => task'[g] = task[g]
  BY EndsApart DEF Finish
<1>3. task[h].user \in Users
  BY <1>1 DEF Finish, Fits
<1>4. GrowthTypeOK'
  BY <1>2, <1>3 DEF Finish, GrowthInv, GrowthTypeOK
<1>5. TasksFit'
  <2> SUFFICES ASSUME NEW g \in Slots
               PROVE  Fits(task'[g], users', referrer, balance)
    BY DEF TasksFit, Finish
  <2>1. CASE g = h
    BY <1>1, <1>2, <2>1 DEF Fits, Finish
  <2>2. CASE g # h
    <3>1. Fits(task[g], users, referrer, balance) /\ task'[g] = task[g]
      BY <1>2, <2>2, TaskFacts
    <3> QED BY <3>1 DEF Fits, Finish
  <2> QED BY <2>1, <2>2
<1>6. WalletAddsUp' /\ RewardedOnce'
  BY DEF GrowthInv, WalletAddsUp, RewardedOnce, Finish
<1> QED BY <1>2, <1>4, <1>5, <1>6 DEF GrowthInv

(* What a credit writes, of a task that holds the wallet of p for u.       *)
LEMMA PayFacts ==
  ASSUME GrowthInv, NEW h \in Slots, Pay(h)
  PROVE  LET p == task[h].via
             u == task[h].user
             e == [from |-> u, after |-> balance[p] + 1]
         IN /\ p \in users /\ p \in Users /\ balance[p] \in Nat
            /\ \/ /\ u \in Users /\ referrer[u] = NoUser
                  /\ referrer' = [referrer EXCEPT ![u] = p] /\ users' = users \cup {u}
               \/ u = NoUser /\ referrer' = referrer /\ users' = users
            /\ e \in Entry
            /\ balance' = [balance EXCEPT ![p] = balance[p] + 1]
            /\ ledger' = [ledger EXCEPT ![p] = Append(ledger[p], e)]
<1>1. task[h] \in Task /\ Fits(task[h], users, referrer, balance) /\ task[h].at = "paying"
  BY TaskFacts DEF Pay
<1>2. task[h].via \in users /\ task[h].saw = balance[task[h].via]
  BY <1>1 DEF Fits
<1>3. task[h].via \in Users /\ balance[task[h].via] \in Nat
  BY <1>2 DEF GrowthInv, GrowthTypeOK
<1>4. \/ task[h].user \in Users /\ task[h].wants = "start"
      \/ task[h].user = NoUser /\ task[h].wants = "topup"
  BY <1>1 DEF Fits
<1>5. task[h].user \in Users => referrer[task[h].user] = NoUser
  BY <1>1, <1>4 DEF Fits
<1>6. [from |-> task[h].user, after |-> balance[task[h].via] + 1] \in Entry
  BY <1>3, <1>4 DEF Entry
<1>7. /\ balance' = [balance EXCEPT ![task[h].via] = balance[task[h].via] + 1]
      /\ ledger' = [ledger EXCEPT ![task[h].via] = Append(ledger[task[h].via],
                        [from |-> task[h].user, after |-> balance[task[h].via] + 1])]
  BY <1>2 DEF Pay
<1>8. \/ /\ task[h].user \in Users /\ referrer[task[h].user] = NoUser
         /\ referrer' = [referrer EXCEPT ![task[h].user] = task[h].via]
         /\ users' = users \cup {task[h].user}
      \/ task[h].user = NoUser /\ referrer' = referrer /\ users' = users
  BY <1>4, <1>5 DEF Pay
<1> QED BY <1>2, <1>3, <1>6, <1>7, <1>8

LEMMA PayLedger ==
  ASSUME GrowthInv, NEW h \in Slots, Pay(h)
  PROVE  /\ ledger' \in [Users -> Seq(Entry)]
         /\ \A q \in Users : q # task[h].via => ledger'[q] = ledger[q]
         /\ Len(ledger'[task[h].via]) = Len(ledger[task[h].via]) + 1
         /\ \A i \in 1..Len(ledger[task[h].via]) : ledger'[task[h].via][i] = ledger[task[h].via][i]
         /\ ledger'[task[h].via][Len(ledger[task[h].via]) + 1]
              = [from |-> task[h].user, after |-> balance[task[h].via] + 1]
<1> DEFINE p == task[h].via
           e == [from |-> task[h].user, after |-> balance[p] + 1]
<1>1. ledger \in [Users -> Seq(Entry)] /\ users \subseteq Users
  BY DEF GrowthInv, GrowthTypeOK
<1>2. p \in Users /\ e \in Entry /\ ledger' = [ledger EXCEPT ![p] = Append(ledger[p], e)]
  BY <1>1, PayFacts
<1> HIDE DEF p, e
<1>3. /\ ledger' \in [Users -> Seq(Entry)]
      /\ \A q \in Users : q # p => ledger'[q] = ledger[q]
      /\ ledger'[p] = Append(ledger[p], e)
      /\ ledger[p] \in Seq(Entry)
  BY <1>1, <1>2
<1>4. /\ Len(Append(ledger[p], e)) = Len(ledger[p]) + 1
      /\ \A i \in 1..Len(ledger[p]) : Append(ledger[p], e)[i] = ledger[p][i]
      /\ Append(ledger[p], e)[Len(ledger[p]) + 1] = e
  BY <1>2, <1>3
<1> QED BY <1>3, <1>4 DEF p, e

LEMMA PayAddsUp ==
  ASSUME GrowthInv, NEW h \in Slots, Pay(h)
  PROVE  WalletAddsUp'
<1> DEFINE p == task[h].via
<1>1. p \in Users /\ balance \in [Users -> Nat] /\ balance' = [balance EXCEPT ![p] = balance[p] + 1]
  BY PayFacts DEF GrowthInv, GrowthTypeOK
<1>2. /\ balance[p] = Len(ledger[p])
      /\ \A i \in 1..Len(ledger[p]) : ledger[p][i].after = i
  BY <1>1 DEF GrowthInv, WalletAddsUp
<1>3. Len(ledger[p]) \in Nat
  BY <1>1 DEF GrowthInv, GrowthTypeOK
<1>4. /\ balance'[p] = Len(ledger'[p])
      /\ \A i \in 1..Len(ledger'[p]) : ledger'[p][i].after = i
  <2>1. balance'[p] = Len(ledger[p]) + 1 /\ Len(ledger'[p]) = Len(ledger[p]) + 1
    BY <1>1, <1>2, PayLedger
  <2>2. ledger'[p][Len(ledger[p]) + 1].after = Len(ledger[p]) + 1
    <3>1. ledger'[p][Len(ledger[p]) + 1] = [from |-> task[h].user, after |-> balance[p] + 1]
      BY PayLedger
    <3>2. ledger'[p][Len(ledger[p]) + 1].after = balance[p] + 1
      BY <3>1
    <3> QED BY <1>2, <3>2
  <2>3. \A i \in 1..Len(ledger[p]) : ledger'[p][i].after = i
    BY <1>2, PayLedger
  <2> QED BY <1>3, <2>1, <2>2, <2>3
<1>5. ASSUME NEW q \in Users, q # p
      PROVE  /\ balance'[q] = Len(ledger'[q])
             /\ \A i \in 1..Len(ledger'[q]) : ledger'[q][i].after = i
  <2>1. balance'[q] = balance[q] /\ ledger'[q] = ledger[q]
    BY <1>1, <1>5, PayLedger
  <2> QED BY <2>1 DEF GrowthInv, WalletAddsUp
<1> QED BY <1>4, <1>5 DEF WalletAddsUp

(* No entry names the user of the new one: the row in referrals would name *)
(* a referrer already.                                                     *)
LEMMA PayRewards ==
  ASSUME GrowthInv, NEW h \in Slots, Pay(h)
  PROVE  RewardedOnce'
<1> DEFINE p == task[h].via
           u == task[h].user
           n == Len(ledger[p]) + 1
<1>0. p \in Users
  BY PayFacts
<1>1. /\ ledger \in [Users -> Seq(Entry)] /\ referrer \in [Users -> users \cup {NoUser}]
      /\ p \in Users /\ ledger[p] \in Seq(Entry) /\ Len(ledger[p]) \in Nat
  BY <1>0 DEF GrowthInv, GrowthTypeOK
<1>2. \A q \in Users : \A i \in 1..Len(ledger'[q]) :
        \/ /\ q = p /\ i = n /\ ledger'[q][i].from = u
        \/ /\ i \in 1..Len(ledger[q]) /\ ledger'[q][i] = ledger[q][i]
           /\ ledger[q][i].from \in Users \cup {NoUser}
  <2> SUFFICES ASSUME NEW q \in Users, NEW i \in 1..Len(ledger'[q])
               PROVE  \/ q = p /\ i = n /\ ledger'[q][i].from = u
                      \/ /\ i \in 1..Len(ledger[q]) /\ ledger'[q][i] = ledger[q][i]
                         /\ ledger[q][i].from \in Users \cup {NoUser}
    OBVIOUS
  <2>0. \A j \in 1..Len(ledger[q]) : ledger[q][j].from \in Users \cup {NoUser}
    <3>1. ledger[q] \in Seq(Entry)
      BY <1>1
    <3>2. \A j \in 1..Len(ledger[q]) : ledger[q][j] \in Entry
      BY <3>1
    <3> QED BY <3>2 DEF Entry
  <2>1. CASE q # p
    <3>1. ledger'[q] = ledger[q]
      BY <2>1, PayLedger
    <3> QED BY <2>0, <3>1
  <2>2. CASE q = p /\ i = n
    <3>1. ledger'[p][n] = [from |-> u, after |-> balance[p] + 1]
      BY PayLedger
    <3>2. ledger'[p][n].from = u
      BY <3>1
    <3> QED BY <2>2, <3>2
  <2>3. CASE q = p /\ i # n
    <3>1. i \in 1..Len(ledger[p])
      <4>1. Len(ledger'[p]) = Len(ledger[p]) + 1
        BY PayLedger
      <4> QED BY <1>1, <2>3, <4>1
    <3>2. ledger'[p][i] = ledger[p][i]
      BY <3>1, PayLedger
    <3> QED BY <2>0, <2>3, <3>1, <3>2
  <2> QED BY <2>1, <2>2, <2>3
<1>3. \A q \in Users : \A i \in 1..Len(ledger[q]) :
        ledger[q][i].from # NoUser => ledger[q][i].from # u /\ referrer[ledger[q][i].from] = q
  <2>1. \A q \in Users : \A i \in 1..Len(ledger[q]) :
          ledger[q][i].from # NoUser => referrer[ledger[q][i].from] = q
    BY DEF GrowthInv, RewardedOnce
  <2>2. u = NoUser \/ referrer[u] = NoUser
    BY PayFacts
  <2> HIDE DEF u
  <2> QED BY <2>1, <2>2
<1>4. /\ \A v \in Users : v # u => referrer'[v] = referrer[v]
      /\ u # NoUser => referrer'[u] = p
  BY <1>1, PayFacts
<1> HIDE DEF p, u, n
<1>5. \A q \in Users : \A i \in 1..Len(ledger'[q]) :
        ledger'[q][i].from # NoUser => referrer'[ledger'[q][i].from] = q
  BY <1>2, <1>3, <1>4
<1>6. \A q, r \in Users : \A i \in 1..Len(ledger'[q]), j \in 1..Len(ledger'[r]) :
        ledger'[q][i].from # NoUser /\ ledger'[r][j].from = ledger'[q][i].from => q = r /\ i = j
  <2> SUFFICES ASSUME NEW q \in Users, NEW r \in Users, NEW i \in 1..Len(ledger'[q]),
                      NEW j \in 1..Len(ledger'[r]), ledger'[q][i].from # NoUser,
                      ledger'[r][j].from = ledger'[q][i].from
               PROVE  q = r /\ i = j
    OBVIOUS
  <2>1. CASE ledger'[q][i].from = u
    BY <1>2, <1>3, <2>1
  <2>2. CASE ledger'[q][i].from # u
    <3>1. /\ i \in 1..Len(ledger[q]) /\ ledger'[q][i] = ledger[q][i]
          /\ j \in 1..Len(ledger[r]) /\ ledger'[r][j] = ledger[r][j]
      BY <1>2, <2>2
    <3> QED BY <3>1 DEF GrowthInv, RewardedOnce
  <2> QED BY <2>1, <2>2
<1> QED BY <1>5, <1>6 DEF RewardedOnce

LEMMA PayStep ==
  ASSUME GrowthInv, NEW h \in Slots, Pay(h)
  PROVE  GrowthInv'
<1> DEFINE p == task[h].via
           u == task[h].user
<1>1. task[h] \in Task /\ Fits(task[h], users, referrer, balance) /\ task[h].at = "paying"
  BY TaskFacts DEF Pay
<1>2. /\ task' \in [Slots -> Task] /\ NoClash'
      /\ task'[h].at = "answered" /\ task'[h].via = p
      /\ \A g \in Slots : g # h => task'[g] = task[g]
  BY EndsApart DEF Pay
<1>3. /\ p \in users /\ users \subseteq Users /\ users \subseteq users' /\ users' \subseteq Users
      /\ codes' = codes /\ codes \subseteq users
      /\ balance \in [Users -> Nat] /\ balance' = [balance EXCEPT ![p] = balance[p] + 1]
      /\ referrer \in [Users -> users \cup {NoUser}]
      /\ referrer' \in [Users -> users' \cup {NoUser}]
  BY PayFacts DEF Pay, GrowthInv, GrowthTypeOK
<1>4. \A q \in Users : q # p => balance'[q] = balance[q]
  BY <1>3
<1>5. /\ \A v \in Users : v # u => referrer'[v] = referrer[v]
      /\ u \in Users => task[h].locked
  <2>1. \A v \in Users : v # u => referrer'[v] = referrer[v]
    <3>1. referrer' = [referrer EXCEPT ![u] = p] \/ referrer' = referrer
      BY PayFacts
    <3> HIDE DEF p, u
    <3> QED BY <1>3, <3>1
  <2>2. u \in Users => task[h].locked
    BY <1>1 DEF Fits
  <2> QED BY <2>1, <2>2
<1>6. GrowthTypeOK'
  <2>1. balance' \in [Users -> Nat]
    BY <1>3, PayFacts
  <2>2. ledger' \in [Users -> Seq(Entry)]
    BY PayLedger
  <2> HIDE DEF p, u
  <2> QED BY <1>2, <1>3, <2>1, <2>2 DEF GrowthTypeOK
<1>7. TasksFit'
  <2> SUFFICES ASSUME NEW g \in Slots
               PROVE  Fits(task'[g], users', referrer', balance')
    BY DEF TasksFit
  <2>1. CASE g = h
    BY <1>2, <1>3, <2>1 DEF Fits
  <2>2. CASE g # h
    <3>1. task[g] \in Task /\ Fits(task[g], users, referrer, balance) /\ task'[g] = task[g]
      BY <1>2, <2>2, TaskFacts
    <3>2. ~Clash(task[g], task[h])
      BY <2>2 DEF GrowthInv, NoClash
    <3>3. task[g].at = "paying" => task[g].via \in Users /\ task[g].via # p
      BY <1>1, <1>3, <3>1, <3>2 DEF Clash, Fits
    <3>4. task[g].at \in {"checked", "linked", "paying"} /\ task[g].wants = "start" =>
            task[g].user \in Users /\ task[g].user # u
      <4> SUFFICES ASSUME task[g].at \in {"checked", "linked", "paying"},
                          task[g].wants = "start"
                   PROVE  task[g].user \in Users /\ task[g].user # u
        OBVIOUS
      <4>1. task[g].user \in Users /\ task[g].locked /\ Running(task[g]) /\ Running(task[h])
        BY <1>1, <3>1 DEF Fits, Running
      <4> QED BY <1>5, <3>2, <4>1 DEF Clash
    <3> HIDE DEF p, u
    <3>5. Fits(task[g], users', referrer', balance')
      BY <1>3, <1>4, <1>5, <3>1, <3>3, <3>4 DEF Fits
    <3> QED BY <3>1, <3>5
  <2> QED BY <2>1, <2>2
<1> QED BY <1>2, <1>6, <1>7, PayAddsUp, PayRewards DEF GrowthInv

LEMMA GrowthStep ==
  ASSUME GrowthInv, [GrowthNext]_growthVars
  PROVE  GrowthInv'
<1>1. ASSUME NEW h \in Slots, Asks(h)  PROVE GrowthInv'
  <2>1. PICK wants \in {"start", "menu"}, u \in Users, p \in codes \cup {NoUser} :
          Arrive(h, wants, u, p)
    BY <1>1 DEF Asks
  <2>2. p \in Users \cup {NoUser}
    BY DEF GrowthInv, GrowthTypeOK
  <2> QED BY <2>1, <2>2, ArriveStep
<1>2. ASSUME NEW h \in Slots, Handler(h)  PROVE GrowthInv'
  BY <1>2, PlainStep, JudgeStep, LockReferredStep, LockWalletStep, FinishStep, PayStep
     DEF Handler
<1>3. ASSUME NEW h \in Slots, Buys(h)  PROVE GrowthInv'
  BY <1>3, TopUpStep DEF Buys
<1>4. ASSUME NEW h \in Slots, Return(h) \/ Dies(h)  PROVE GrowthInv'
  BY <1>4, LeaveStep
<1>5. CASE UNCHANGED growthVars
  BY <1>5 DEF growthVars, GrowthInv, GrowthTypeOK, TasksFit, NoClash, WalletAddsUp, RewardedOnce
<1> QED BY <1>1, <1>2, <1>3, <1>4, <1>5 DEF GrowthNext

LEMMA GrowthStart ==
  ASSUME GrowthInit  PROVE GrowthInv
<1>1. /\ users = {} /\ codes = {} /\ referrer = [u \in Users |-> NoUser]
      /\ balance = [u \in Users |-> 0] /\ ledger = [u \in Users |-> << >>]
      /\ task = [h \in Slots |-> Idle]
  BY DEF GrowthInit
<1>2. GrowthTypeOK
  BY <1>1, IdleTypes DEF GrowthTypeOK
<1>3. TasksFit
  BY <1>1 DEF TasksFit, Fits, Idle
<1>4. NoClash
  BY <1>1 DEF NoClash, Clash, Running, Idle
<1>5. WalletAddsUp /\ RewardedOnce
  BY <1>1 DEF WalletAddsUp, RewardedOnce
<1> QED BY <1>2, <1>3, <1>4, <1>5 DEF GrowthInv

-----------------------------------------------------------------------------
(* Whatever the webhook does, the handlers' rows see a step of theirs.     *)
LEMMA WebhookIsGrowth ==
  ASSUME TypeOK, [Next]_vars
  PROVE  [GrowthNext]_growthVars
<1>1. ASSUME NEW h \in Slots, Hook(h)  PROVE [GrowthNext]_growthVars
  <2>1. CASE Feed(h)
    <3> DEFINE m == Message[request[h].update]
    <3>1. request[h].update \in Updates
      BY <1>1, <2>1 DEF Feed, TypeOK, Request
    <3> QED BY <2>1, <3>1 DEF Feed, GrowthNext, Asks
  <2>2. CASE Settle(h)
    BY <2>2 DEF Settle, GrowthNext
  <2>3. CASE ~Feed(h) /\ ~Settle(h)
    BY <1>1, <2>3 DEF Hook, Deliver, Insert, Duplicate, Find, Rearm
  <2> QED BY <2>1, <2>2, <2>3
<1>2. ASSUME NEW h \in Slots, Poll(h) \/ Works(h) \/ Restart(h)
      PROVE  [GrowthNext]_growthVars
  BY <1>2 DEF Poll, Works, Restart, GrowthNext
<1>3. ASSUME NEW d \in Updates, Elapse(d)  PROVE [GrowthNext]_growthVars
  BY <1>3 DEF Elapse
<1> QED BY <1>1, <1>2, <1>3 DEF Next, vars

LEMMA RequestTypes ==
  ASSUME NEW at \in {"none", "opened", "rearming", "accepted", "feeding"},
         NEW d \in Updates \cup {NoUpdate}
  PROVE  [at |-> at, update |-> d] \in Request
  BY DEF Request

(* A request that moves on keeps its update.                               *)
LEMMA AdvanceFacts ==
  ASSUME TypeOK, NEW h \in Slots, NEW at \in {"rearming", "accepted", "feeding"},
         Advance(h, at), request[h].at # "none"
  PROVE  /\ request' \in [Slots -> Request]
         /\ request'[h].at = at /\ request'[h].update = request[h].update
         /\ \A g \in Slots : g # h => request'[g] = request[g]
         /\ request[h].update \in Updates /\ h \in attached
  BY DEF TypeOK, Advance, Request

LEMMA DropFacts ==
  ASSUME TypeOK, NEW h \in Slots, request' = [request EXCEPT ![h] = NoRequest]
  PROVE  /\ request' \in [Slots -> Request]
         /\ request'[h].at = "none"
         /\ \A g \in Slots : g # h => request'[g] = request[g]
  BY RequestTypes DEF TypeOK, NoRequest

LEMMA DeliverFacts ==
  ASSUME TypeOK, NEW h \in Slots, NEW d \in Updates, Deliver(h, d)
  PROVE  /\ request' \in [Slots -> Request]
         /\ request'[h].at = "opened" /\ request'[h].update = d
         /\ \A g \in Slots : g # h => request'[g] = request[g]
  BY RequestTypes DEF TypeOK, Deliver

LEMMA HookTypes ==
  ASSUME TypeOK, NEW h \in Slots, Hook(h)
  PROVE  /\ mode' = mode /\ queued' \subseteq Updates /\ recent' \subseteq Updates
         /\ outlived' \subseteq Updates /\ row' \in [Updates -> RowStatuses]
         /\ request' \in [Slots -> Request] /\ attached' \subseteq Slots
         /\ \A g \in Slots : request'[g].at # "none" =>
              request'[g].update \in Updates /\ g \in attached'
<1>1. CASE \E d \in Updates : Deliver(h, d)
  <2>1. PICK d \in Updates : Deliver(h, d)
    BY <1>1
  <2>2. /\ UNCHANGED <<mode, queued, row, recent, outlived>>
        /\ attached' = attached \cup {h}
    BY <2>1 DEF Deliver
  <2> QED BY <2>1, <2>2, DeliverFacts DEF TypeOK
<1>2. CASE Insert(h) \/ Rearm(h)
  <2>1. Advance(h, "accepted") /\ request[h].at # "none"
    BY <1>2 DEF Insert, Rearm
  <2> QED BY <1>2, <2>1, AdvanceFacts DEF Insert, Rearm, TypeOK, RowStatuses
<1>3. CASE Find(h)
  <2>1. Advance(h, "rearming") /\ request[h].at # "none"
    BY <1>3 DEF Find
  <2> QED BY <1>3, <2>1, AdvanceFacts DEF Find, TypeOK
<1>4. CASE Feed(h)
  <2>1. Advance(h, "feeding") /\ request[h].at # "none"
    BY <1>4 DEF Feed
  <2> QED BY <1>4, <2>1, AdvanceFacts DEF Feed, TypeOK
<1>5. CASE Duplicate(h)
  BY <1>5, DropFacts DEF Duplicate, Answer, TypeOK
<1>6. CASE Settle(h)
  <2>1. row' \in [Updates -> RowStatuses] /\ UNCHANGED <<mode, recent, outlived, attached>>
    BY <1>6 DEF Settle, TypeOK, RowStatuses
  <2>2. queued' \subseteq Updates /\ request' = [request EXCEPT ![h] = NoRequest]
    BY <1>6 DEF Settle, Answer, TypeOK
  <2> QED BY <2>1, <2>2, DropFacts DEF TypeOK
<1> QED BY <1>1, <1>2, <1>3, <1>4, <1>5, <1>6 DEF Hook

Inv == TypeOK /\ GrowthInv

LEMMA InvStep ==
  ASSUME Inv, [Next]_vars
  PROVE  Inv'
<1>1. GrowthInv'
  BY WebhookIsGrowth, GrowthStep DEF Inv
<1>2. ASSUME NEW h \in Slots, Hook(h)  PROVE TypeOK'
  <2>1. GrowthTypeOK'
    BY <1>1 DEF GrowthInv
  <2> QED BY <1>2, <2>1, HookTypes DEF Inv, TypeOK
<1>3. ASSUME NEW h \in Slots, Poll(h) \/ Works(h)  PROVE TypeOK'
  BY <1>1, <1>3 DEF Poll, Works, hookVars, Inv, TypeOK, GrowthInv
<1>4. ASSUME NEW h \in Slots, Restart(h)  PROVE TypeOK'
  <2>1. request' = [request EXCEPT ![h] = NoRequest]
    BY <1>4 DEF Restart
  <2> QED BY <1>1, <1>4, <2>1, DropFacts DEF Restart, Inv, TypeOK, GrowthInv
<1>5. ASSUME NEW d \in Updates, Elapse(d)  PROVE TypeOK'
  BY <1>1, <1>5 DEF Elapse, Inv, TypeOK, GrowthInv
<1>6. CASE UNCHANGED vars
  BY <1>1, <1>6 DEF vars, hookVars, Inv, TypeOK, GrowthInv
<1> QED BY <1>1, <1>2, <1>3, <1>4, <1>5, <1>6 DEF Next, Inv

LEMMA InvStart == Init => Inv
<1> SUFFICES ASSUME Init PROVE Inv
  OBVIOUS
<1>1. GrowthInv
  BY GrowthStart DEF Init
<1>2. request = [h \in Slots |-> NoRequest] /\ NoRequest \in Request
  BY RequestTypes DEF Init, NoRequest
<1> QED BY <1>1, <1>2 DEF Inv, Init, TypeOK, GrowthInv, RowStatuses, NoRequest

(* Every wallet adds up, and no invited user is paid for twice, however    *)
(* handlers, duplicates and restarts interleave.                           *)
THEOREM WalletsAddUp == Spec => [](TypeOK /\ WalletAddsUp /\ RewardedOnce)
<1>1. Inv => TypeOK /\ WalletAddsUp /\ RewardedOnce
  BY DEF Inv, GrowthInv
<1> QED BY <1>1, InvStart, InvStep, PTL DEF Spec

-----------------------------------------------------------------------------
Rearming(h, d) == request[h].at = "rearming" /\ request[h].update = d

(* Before an update has outlived its grace, the one request that works on  *)
(* its row excludes the others.                                            *)
OneAtWorkOn(d) ==
  \A g, h \in Slots :
    /\ Serves(h, d) => row[d] = "RECEIVED" /\ d \in recent
    /\ Rearming(h, d) => Repeatable(d)
    /\ (Serves(h, d) \/ Rearming(h, d)) /\ (Serves(g, d) \/ Rearming(g, d)) => g = h

OneAtWork == \A d \in Updates \ outlived : OneAtWorkOn(d)

(* A step after which no more requests are at work on a row it leaves.     *)
LEMMA FewerAtWork ==
  ASSUME NEW d \in Updates, OneAtWorkOn(d), row'[d] = row[d], d \in recent' <=> d \in recent,
         \A g \in Slots : /\ Serves(g, d)' => Serves(g, d)
                          /\ Rearming(g, d)' => Rearming(g, d)
  PROVE  OneAtWorkOn(d)'
  BY DEF OneAtWorkOn, Repeatable

LEMMA ElsewhereSame ==
  ASSUME NEW h \in Slots, NEW d \in Updates, request'[h].update # d,
         \A g \in Slots : g # h => request'[g] = request[g]
  PROVE  \A g \in Slots : /\ Serves(g, d)' => Serves(g, d)
                          /\ Rearming(g, d)' => Rearming(g, d)
  BY DEF Serves, Rearming

LEMMA DroppedSame ==
  ASSUME NEW h \in Slots, NEW d \in Updates, request'[h].at \in {"none", "opened"},
         \A g \in Slots : g # h => request'[g] = request[g]
  PROVE  \A g \in Slots : /\ Serves(g, d)' => Serves(g, d) /\ g # h
                          /\ Rearming(g, d)' => Rearming(g, d) /\ g # h
  BY DEF Serves, Rearming

LEMMA HookAlone ==
  ASSUME TypeOK, OneAtWork, NEW h \in Slots, Hook(h), NEW d \in Updates \ outlived'
  PROVE  OneAtWorkOn(d)'
<1>0. outlived' = outlived /\ OneAtWorkOn(d) /\ row \in [Updates -> RowStatuses]
  BY DEF OneAtWork, Hook, Deliver, Insert, Duplicate, Find, Rearm, Feed, Settle, TypeOK
<1>1. CASE \E e \in Updates : Deliver(h, e)
  BY <1>0, <1>1, DeliverFacts, DroppedSame, FewerAtWork DEF Deliver
<1>2. CASE Duplicate(h)
  BY <1>0, <1>2, DropFacts, DroppedSame, FewerAtWork DEF Duplicate, Answer
<1>3. CASE Feed(h)
  <2>1. /\ request'[h].at = "feeding" /\ request'[h].update = request[h].update
        /\ \A g \in Slots : g # h => request'[g] = request[g]
    BY <1>3, AdvanceFacts DEF Feed
  <2>2. \A g \in Slots : /\ Serves(g, d)' => Serves(g, d)
                         /\ Rearming(g, d)' => Rearming(g, d)
    BY <1>3, <2>1 DEF Serves, Rearming, Feed
  <2> QED BY <1>0, <1>3, <2>2, FewerAtWork DEF Feed
<1>4. CASE Insert(h)
  <2>1. /\ request'[h].at = "accepted" /\ request'[h].update = request[h].update
        /\ \A g \in Slots : g # h => request'[g] = request[g]
    BY <1>4, AdvanceFacts DEF Insert
  <2>2. CASE request[h].update = d
    <3>1. row[d] = "NONE" /\ row'[d] = "RECEIVED" /\ d \in recent'
      BY <1>0, <1>4, <2>2 DEF Insert
    <3>2. \A g \in Slots : ~Serves(g, d) /\ ~Rearming(g, d)
      BY <1>0, <3>1 DEF OneAtWorkOn, Repeatable
    <3>3. /\ \A g \in Slots : Serves(g, d)' => g = h
          /\ \A g \in Slots : ~Rearming(g, d)'
      BY <2>1, <3>2 DEF Serves, Rearming
    <3> QED BY <3>1, <3>3 DEF OneAtWorkOn
  <2>3. CASE request[h].update # d
    BY <1>0, <1>4, <2>1, <2>3, ElsewhereSame, FewerAtWork DEF Insert
  <2> QED BY <2>2, <2>3
<1>5. CASE Find(h)
  <2>1. /\ request'[h].at = "rearming" /\ request'[h].update = request[h].update
        /\ \A g \in Slots : g # h => request'[g] = request[g]
    BY <1>5, AdvanceFacts DEF Find
  <2>2. CASE request[h].update = d
    <3>1. Repeatable(d) /\ row' = row /\ recent' = recent
      BY <1>5, <2>2 DEF Find
    <3>2. \A g \in Slots : ~Serves(g, d)
      BY <1>0, <3>1 DEF OneAtWorkOn, Repeatable
    <3>3. \A g \in Slots : g # h => ~Rearming(g, d)
      <4> SUFFICES ASSUME NEW g \in Slots, g # h, Rearming(g, d)
                   PROVE  FALSE
        OBVIOUS
      <4>1. request[g] # [at |-> "rearming", update |-> d]
        BY <1>5, <2>2 DEF Find, Others
      <4>2. request[g] \in Request
        BY DEF TypeOK
      <4> QED BY <4>1, <4>2 DEF Rearming, Request
    <3>4. /\ \A g \in Slots : ~Serves(g, d)'
          /\ \A g \in Slots : Rearming(g, d)' => g = h
      BY <2>1, <3>2, <3>3 DEF Serves, Rearming
    <3>5. Repeatable(d)'
      BY <3>1 DEF Repeatable
    <3> QED BY <3>4, <3>5 DEF OneAtWorkOn
  <2>3. CASE request[h].update # d
    BY <1>0, <1>5, <2>1, <2>3, ElsewhereSame, FewerAtWork DEF Find
  <2> QED BY <2>2, <2>3
<1>6. CASE Rearm(h)
  <2>1. /\ request'[h].at = "accepted" /\ request'[h].update = request[h].update
        /\ \A g \in Slots : g # h => request'[g] = request[g]
    BY <1>6, AdvanceFacts DEF Rearm
  <2>2. CASE request[h].update = d
    <3>1. row'[d] = "RECEIVED" /\ d \in recent' /\ Rearming(h, d)
      BY <1>0, <1>6, <2>2 DEF Rearm, Rearming
    <3>2. \A g \in Slots : Serves(g, d) \/ Rearming(g, d) => g = h
      BY <1>0, <3>1 DEF OneAtWorkOn
    <3>3. /\ \A g \in Slots : Serves(g, d)' => g = h
          /\ \A g \in Slots : ~Rearming(g, d)'
      BY <2>1, <3>2 DEF Serves, Rearming
    <3> QED BY <3>1, <3>3 DEF OneAtWorkOn
  <2>3. CASE request[h].update # d
    BY <1>0, <1>6, <2>1, <2>3, ElsewhereSame, FewerAtWork DEF Rearm
  <2> QED BY <2>2, <2>3
<1>7. CASE Settle(h)
  <2>1. /\ request'[h].at = "none"
        /\ \A g \in Slots : g # h => request'[g] = request[g]
    BY <1>7, DropFacts DEF Settle, Answer
  <2>2. CASE request[h].update = d
    <3>1. Serves(h, d)
      BY <1>7, <2>2 DEF Settle, Serves
    <3>2. \A g \in Slots : Serves(g, d) \/ Rearming(g, d) => g = h
      BY <1>0, <3>1 DEF OneAtWorkOn
    <3>3. \A g \in Slots : ~Serves(g, d)' /\ ~Rearming(g, d)'
      BY <2>1, <3>2, DroppedSame
    <3> QED BY <3>3 DEF OneAtWorkOn
  <2>3. CASE request[h].update # d
    <3>1. row'[d] = row[d] /\ recent' = recent
      BY <1>0, <1>7, <2>3 DEF Settle
    <3> QED BY <1>0, <2>1, <3>1, DroppedSame, FewerAtWork
  <2> QED BY <2>2, <2>3
<1> QED BY <1>1, <1>2, <1>3, <1>4, <1>5, <1>6, <1>7 DEF Hook

LEMMA AloneStep ==
  ASSUME TypeOK, OneAtWork, [Next]_vars
  PROVE  OneAtWork'
<1> SUFFICES ASSUME NEW d \in Updates \ outlived'
             PROVE  OneAtWorkOn(d)'
  BY DEF OneAtWork
<1>1. ASSUME NEW h \in Slots, Hook(h)  PROVE OneAtWorkOn(d)'
  BY <1>1, HookAlone
<1>2. CASE UNCHANGED hookVars
  BY <1>2 DEF hookVars, OneAtWork, OneAtWorkOn, Serves, Rearming, Repeatable
<1>3. ASSUME NEW h \in Slots, Restart(h)  PROVE OneAtWorkOn(d)'
  <2>1. /\ request' = [request EXCEPT ![h] = NoRequest]
        /\ row' = row /\ recent' = recent /\ outlived' = outlived
    BY <1>3 DEF Restart
  <2>2. OneAtWorkOn(d)
    BY <2>1 DEF OneAtWork
  <2> QED BY <2>1, <2>2, DropFacts, DroppedSame, FewerAtWork
<1>4. ASSUME NEW e \in Updates, Elapse(e)  PROVE OneAtWorkOn(d)'
  <2>1. /\ request' = request /\ row' = row /\ recent' = recent \ {e}
        /\ d \notin outlived
        /\ e = d => \A h \in Slots : ~Serves(h, d)
    BY <1>4 DEF Elapse
  <2>2. OneAtWorkOn(d)
    BY <2>1 DEF OneAtWork
  <2> QED BY <2>1, <2>2 DEF OneAtWorkOn, Serves, Rearming, Repeatable
<1> QED BY <1>1, <1>2, <1>3, <1>4 DEF Next, Poll, Works, vars, hookVars

(* Overlapping deliveries of one update are not handled side by side while *)
(* no handler of it outlives RECEIVED_REPLAY_GRACE.                        *)
THEOREM DispatchedByOne == Spec => []OneDispatch
<1>1. Init => Inv /\ OneAtWork
  <2> SUFFICES ASSUME Init PROVE OneAtWork
    BY InvStart
  <2> QED BY DEF Init, OneAtWork, OneAtWorkOn, Serves, Rearming, NoRequest
<1>2. Inv /\ OneAtWork /\ [Next]_vars => Inv' /\ OneAtWork'
  BY InvStep, AloneStep DEF Inv
<1>3. OneAtWork => OneDispatch
  BY DEF OneAtWork, OneAtWorkOn, OneDispatch
<1> QED BY <1>1, <1>2, <1>3, PTL DEF Spec
=============================================================================
