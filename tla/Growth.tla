-------------------------------- MODULE Growth --------------------------------
(***************************************************************************)
(* Users, invitations and wallets: ensure_user of                          *)
(* app/services/user_account.py, ensure_referral_code and link_referral of *)
(* app/services/growth.py as the /start and invitation handlers call them, *)
(* and the wallet credit of app/services/winapay_billing.py.               *)
(*                                                                         *)
(* A handler is one transaction at READ COMMITTED: each statement sees     *)
(* what is committed and what the transaction wrote, and waits for rows    *)
(* and unique keys that others hold.  What it writes is carried in its     *)
(* task until the commit.  Credits count as one unit, and a user row has   *)
(* its wallet from the same transaction on.                                *)
(***************************************************************************)
EXTENDS Integers, Sequences

CONSTANTS
  Users,       \* Telegram accounts
  Slots,       \* updates that are handled at the same time
  NoUser,
  MaxTopUps    \* bound: top-ups of one wallet

ASSUME GrowthAssumption == NoUser \notin Users /\ MaxTopUps \in Nat

VARIABLES
  users,      \* accounts with a row in users and in wallets
  codes,      \* users with a row in referral_codes, which stays active
  referrer,   \* referrer[u]: of the row in referrals whose referred user is u
  balance,    \* balance[u]: balance_irr of the wallet of u
  ledger,     \* ledger[u]: its wallet_ledger_entries in the order of commit
  task        \* task[h]: the transaction slot h is in

growthVars == <<users, codes, referrer, balance, ledger, task>>

-----------------------------------------------------------------------------
Places == {"idle", "joining", "entered", "linking", "checked", "linked", "paying",
           "coding", "coded", "finishing", "answered", "failed"}

(* wants: the start command, the invitation menu, or a top-up.  via: whose *)
(* code the start command carries.  fresh: ensure_user found no row.       *)
(* locked: it holds the row of user.  saw: the balance it has read.        *)
Task == [at : Places, wants : {"start", "menu", "topup"}, user : Users \cup {NoUser},
         via : Users \cup {NoUser}, fresh : BOOLEAN, locked : BOOLEAN, saw : Nat]

Idle == [at |-> "idle", wants |-> "start", user |-> NoUser, via |-> NoUser,
         fresh |-> FALSE, locked |-> FALSE, saw |-> 0]

(* An entry names the invited user, NoUser for a top-up.                   *)
Entry == [from : Users \cup {NoUser}, after : Nat]

InTransaction(h) == task[h].at \notin {"idle", "answered", "failed"}

Become(h, t) == task' = [task EXCEPT ![h] = t]

Goto(h, at) == Become(h, [task[h] EXCEPT !.at = at])

(* A transaction that has inserted the row of u and not committed it.      *)
Inserting(h, u) ==
  task[h].fresh /\ task[h].user = u /\ InTransaction(h) /\ task[h].at # "joining"

(* SELECT ... FOR UPDATE of the row of u.                                  *)
Owns(h, u) == task[h].locked /\ task[h].user = u /\ InTransaction(h)

(* The key-share lock that a foreign key to the row of u takes.            *)
Shares(h, u) ==
  \/ task[h].via = u /\ task[h].wants = "start" /\ task[h].at \in {"linked", "paying"}
  \/ task[h].user = u /\ task[h].at = "coded"

(* SELECT ... FOR UPDATE of the wallet of u.                               *)
Credits(h, u) == task[h].at = "paying" /\ task[h].via = u

Others(h) == Slots \ {h}

-----------------------------------------------------------------------------
(* An update reaches a handler, whose ensure_user reads the user's row.    *)
Arrive(h, wants, u, p) ==
  /\ task[h] = Idle
  /\ wants = "start" \/ p = NoUser
  /\ p \in codes \cup {NoUser}
  /\ Become(h, [Idle EXCEPT !.at = IF u \in users THEN "entered" ELSE "joining",
                            !.wants = wants, !.user = u, !.via = p,
                            !.fresh = u \notin users])
  /\ UNCHANGED <<users, codes, referrer, balance, ledger>>

(* The INSERT of a new user waits for another transaction's of the same    *)
(* key.  If that one has committed, the flush that begin_nested makes      *)
(* before its SAVEPOINT raises: the whole transaction is rolled back, and  *)
(* the SELECT that is to read the winner's row raises again.               *)
Join(h) ==
  /\ task[h].at = "joining"
  /\ \A g \in Others(h) : ~Inserting(g, task[h].user)
  /\ Goto(h, IF task[h].user \in users THEN "failed" ELSE "entered")
  /\ UNCHANGED <<users, codes, referrer, balance, ledger>>

(* ensure_referral_code of the invitation menu: it reads, ...              *)
ReadCode(h) ==
  /\ task[h].at = "entered" /\ task[h].wants = "menu"
  /\ Goto(h, IF task[h].user \in codes THEN "finishing" ELSE "coding")
  /\ UNCHANGED <<users, codes, referrer, balance, ledger>>

(* ... and inserts, with the same failure when another was faster.         *)
InsertCode(h) ==
  LET u == task[h].user
  IN /\ task[h].at = "coding"
     /\ \A g \in Others(h) : ~Owns(g, u) /\ ~(task[g].at = "coded" /\ task[g].user = u)
     /\ Goto(h, IF u \in codes THEN "failed" ELSE "coded")
     /\ UNCHANGED <<users, codes, referrer, balance, ledger>>

-----------------------------------------------------------------------------
(* link_referral: somebody else's code, and a user of less than 24 hours,  *)
(* which a user whose row existed is or is not.                            *)
Judge(h) ==
  LET t == task[h]
  IN /\ t.at = "entered" /\ t.wants = "start"
     /\ \/ t.via \notin {NoUser, t.user} /\ Goto(h, "linking")
        \/ /\ t.via \in {NoUser, t.user} \/ ~t.fresh
           /\ Goto(h, "finishing")
     /\ UNCHANGED <<users, codes, referrer, balance, ledger>>

(* The invited user's row is locked, and only then it is checked that      *)
(* nobody invited the user before.                                         *)
LockReferred(h) ==
  LET t == task[h]
  IN /\ t.at = "linking"
     /\ \A g \in Others(h) : ~Owns(g, t.user) /\ ~Shares(g, t.user)
     /\ Become(h, [t EXCEPT !.locked = TRUE,
                            !.at = IF referrer[t.user] = NoUser THEN "checked" ELSE "finishing"])
     /\ UNCHANGED <<users, codes, referrer, balance, ledger>>

(* The referral and the reward are inserted; the foreign key waits for the *)
(* referrer's row.  The lock leaves nothing for the unique key to refuse.  *)
InsertReferral(h) ==
  /\ task[h].at = "checked"
  /\ \A g \in Others(h) : ~Owns(g, task[h].via)
  /\ Goto(h, IF referrer[task[h].user] = NoUser THEN "linked" ELSE "failed")
  /\ UNCHANGED <<users, codes, referrer, balance, ledger>>

(* Mutant: the wallet is read without waiting for its row.                 *)
LockWalletNot(h) ==
  /\ task[h].at = "linked"
  /\ Become(h, [task[h] EXCEPT !.at = "paying", !.saw = balance[task[h].via]])
  /\ UNCHANGED <<users, codes, referrer, balance, ledger>>

(* The wallet is locked, and the balance is read under the lock.           *)
LockWallet(h) ==
  /\ task[h].at = "linked"
  /\ \A g \in Others(h) : ~Credits(g, task[h].via)
  /\ Become(h, [task[h] EXCEPT !.at = "paying", !.saw = balance[task[h].via]])
  /\ UNCHANGED <<users, codes, referrer, balance, ledger>>

(* A paid order of the purpose WALLET_TOPUP locks the wallet likewise.     *)
TopUp(h, u) ==
  /\ task[h] = Idle
  /\ u \in users
  /\ Len(SelectSeq(ledger[u], LAMBDA e : e.from = NoUser)) < MaxTopUps
  /\ \A g \in Others(h) : ~Credits(g, u)
  /\ Become(h, [Idle EXCEPT !.at = "paying", !.wants = "topup", !.via = u, !.saw = balance[u]])
  /\ UNCHANGED <<users, codes, referrer, balance, ledger>>

-----------------------------------------------------------------------------
(* The commit of a handler that had nothing to pay, ...                    *)
Finish(h) ==
  LET t == task[h]
  IN /\ t.at \in {"finishing", "coded"}
     /\ users' = users \cup {t.user}
     /\ codes' = IF t.at = "coded" THEN codes \cup {t.user} ELSE codes
     /\ Goto(h, "answered")
     /\ UNCHANGED <<referrer, balance, ledger>>

(* ... and of one that credits a wallet: the new balance is computed from  *)
(* the one that was read, and the entry keeps it.                          *)
Pay(h) ==
  LET t == task[h]
  IN /\ t.at = "paying"
     /\ balance' = [balance EXCEPT ![t.via] = t.saw + 1]
     /\ ledger' = [ledger EXCEPT ![t.via] = Append(@, [from |-> t.user, after |-> t.saw + 1])]
     /\ referrer' = IF t.wants = "start" THEN [referrer EXCEPT ![t.user] = t.via] ELSE referrer
     /\ users' = IF t.wants = "start" THEN users \cup {t.user} ELSE users
     /\ Goto(h, "answered")
     /\ UNCHANGED codes

(* A transaction is rolled back: a lost connection, the victim of a        *)
(* deadlock, or a random code that is taken.                               *)
Aborts(h) ==
  /\ InTransaction(h)
  /\ Goto(h, "failed")
  /\ UNCHANGED <<users, codes, referrer, balance, ledger>>

Return(h) ==
  /\ task[h].at \in {"answered", "failed"}
  /\ Become(h, Idle)
  /\ UNCHANGED <<users, codes, referrer, balance, ledger>>

(* The process dies.                                                       *)
Dies(h) ==
  /\ task[h] # Idle
  /\ Become(h, Idle)
  /\ UNCHANGED <<users, codes, referrer, balance, ledger>>

-----------------------------------------------------------------------------
GrowthInit ==
  /\ users = {} /\ codes = {}
  /\ referrer = [u \in Users |-> NoUser]
  /\ balance = [u \in Users |-> 0]
  /\ ledger = [u \in Users |-> << >>]
  /\ task = [h \in Slots |-> Idle]

Handler(h) ==
  \/ Join(h) \/ ReadCode(h) \/ InsertCode(h)
  \/ Judge(h) \/ LockReferred(h) \/ InsertReferral(h) \/ LockWallet(h)
  \/ Finish(h) \/ Pay(h) \/ Aborts(h)

Asks(h) == \E wants \in {"start", "menu"}, u \in Users, p \in codes \cup {NoUser} :
             Arrive(h, wants, u, p)

Buys(h) == \E u \in Users : TopUp(h, u)

GrowthNext ==
  \E h \in Slots : Asks(h) \/ Buys(h) \/ Handler(h) \/ Return(h) \/ Dies(h)

GrowthSpec == GrowthInit /\ [][GrowthNext]_growthVars

-----------------------------------------------------------------------------
GrowthTypeOK ==
  /\ users \subseteq Users /\ codes \subseteq users
  /\ referrer \in [Users -> users \cup {NoUser}]
  /\ balance \in [Users -> Nat]
  /\ ledger \in [Users -> Seq(Entry)]
  /\ task \in [Slots -> Task]

(* A wallet adds up: every credit, of whatever rivals, raised the balance  *)
(* that the entry before it had left, and the balance is the last entry's. *)
(* link_referral and _fulfil_paid_order lock the row before they read it.  *)
WalletAddsUp ==
  \A u \in Users : /\ balance[u] = Len(ledger[u])
                   /\ \A i \in 1..Len(ledger[u]) : ledger[u][i].after = i

(* An invited user is paid for once: the reward of link_referral stands in *)
(* the wallet of the referrer that the row in referrals names, and nowhere *)
(* else or twice, whatever /start commands of that user race.              *)
RewardedOnce ==
  \A p, q \in Users : \A i \in 1..Len(ledger[p]), j \in 1..Len(ledger[q]) :
    ledger[p][i].from # NoUser =>
      /\ referrer[ledger[p][i].from] = p
      /\ ledger[q][j].from = ledger[p][i].from => p = q /\ i = j
=============================================================================
