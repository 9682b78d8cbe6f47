------------------------------- MODULE Delivery -------------------------------
(***************************************************************************)
(* The download button (app/bot/handlers/releases.py) over the catalogue.  *)
(* A press is one transaction that reads the release, the title, the       *)
(* account and the access policy statement by statement, takes the         *)
(* advisory lock of its user, counts the downloads of the day, adds one,   *)
(* and commits; only then does it copy the file to the user.               *)
(*                                                                         *)
(* Buttons carry an expiry, but a button without one is accepted, so that  *)
(* a release may be pressed at any time; a press that is refused before    *)
(* the transaction changes nothing and is no step.  A download is dated    *)
(* with the start of its transaction (created_at defaults to now()), while *)
(* the count reads the clock.                                              *)
(***************************************************************************)
EXTENDS Catalogue

CONSTANTS
  Users, Slots,    \* users, and presses that are handled at the same time
  Limit,           \* settings.free_daily_download_limit
  MaxUsed,         \* bound: downloads of a user and day at which presses end
  MaxDay           \* bound: the last day

ASSUME DeliveryAssumption ==
  None \notin Users /\ Limit \in Nat /\ MaxUsed \in Nat /\ MaxDay \in Nat

VARIABLES
  account,      \* account[u]: users.status
  subscribed,   \* subscribed[u]: the plan of an ACTIVE subscription not expired
  day,          \* today, in Tehran
  used,         \* used[u][d]: downloads of u dated d in download_history
  granted,      \* granted[u][d]: those that were free and judged on day d
  press         \* press[h]: the transaction slot h is in

downloadVars == <<account, subscribed, day, used, granted, press>>
deliveryVars == <<catalogueVars, downloadVars>>

-----------------------------------------------------------------------------
Days == 0..MaxDay

(* "low": a plan below what premium releases need, or a super admin.       *)
Levels == {"none", "low", "high"}

(* file: the release had a file; free, late: judged without subscription,  *)
(* and on a later day than started.                                        *)
Press == [at : {"idle", "read", "public", "allowed", "locked", "judged", "copy"},
          user : Users \cup {None}, release : Releases \cup {None}, file : BOOLEAN,
          started : Days, free : BOOLEAN, late : BOOLEAN]

NoPress == [at |-> "idle", user |-> None, release |-> None, file |-> FALSE,
            started |-> 0, free |-> FALSE, late |-> FALSE]

Turns(h, next) == press' = [press EXCEPT ![h] = next]

(* The transaction of slot h goes on to a step if ok, or answers and ends. *)
Passes(h, ok, at) == Turns(h, IF ok THEN [press[h] EXCEPT !.at = at] ELSE NoPress)

(* What a press may change besides itself: nothing but the counts.         *)
Reading == UNCHANGED <<catalogueVars, account, subscribed, day, used, granted>>

Entitled(u, r) ==
  \/ release[r].policy # "premium"
  \/ subscribed[u] = "high"

(* The advisory lock of the user is held from Lock to the transaction end. *)
Holds(h, u) == press[h].user = u /\ press[h].at \in {"locked", "judged"}

-----------------------------------------------------------------------------
(* get_release_variant: one statement over release, title and files.       *)
ReadVariant(h, u, r) ==
  /\ press[h] = NoPress
  /\ used[u][day] < MaxUsed
  /\ release[r].status # "NONE" /\ Public(r)
  /\ Turns(h, [NoPress EXCEPT !.at = "read", !.user = u, !.release = r,
                             !.file = release[r].files # {}, !.started = day])
  /\ Reading

CheckTitle(h) ==
  /\ press[h].at = "read"
  /\ Passes(h, title[release[press[h].release].of].status = "PUBLISHED", "public")
  /\ Reading

(* can_access_release, then the delivery target of the row read first.     *)
CheckAccess(h) ==
  LET u == press[h].user
      r == press[h].release
  IN /\ press[h].at = "public"
     /\ Passes(h, /\ account[u] = "ACTIVE"
                  /\ release[r].status = "PUBLISHED"
                  /\ Entitled(u, r)
                  /\ press[h].file, "allowed")
     /\ Reading

(* Mutant: the lock is not waited for.                                     *)
LockNot(h) ==
  /\ press[h].at = "allowed"
  /\ Passes(h, TRUE, "locked")
  /\ Reading

(* pg_advisory_xact_lock                                                   *)
Lock(h) ==
  /\ press[h].at = "allowed"
  /\ \A g \in Slots : ~Holds(g, press[h].user)
  /\ Passes(h, TRUE, "locked")
  /\ Reading

(* Subscribers and the super admin pass; others by the count of today.     *)
Judge(h) ==
  LET u == press[h].user
      free == subscribed[u] = "none"
  IN /\ press[h].at = "locked"
     /\ Turns(h, IF free /\ used[u][day] >= Limit THEN NoPress
                ELSE [press[h] EXCEPT !.at = "judged", !.free = free,
                                      !.late = day # press[h].started])
     /\ Reading

(* record_download and the commit, which releases the lock.                *)
Commit(h) ==
  LET u == press[h].user
      d == press[h].started
      counts == press[h].free /\ ~press[h].late
  IN /\ press[h].at = "judged"
     /\ used' = [used EXCEPT ![u][d] = @ + 1]
     /\ granted' = [granted EXCEPT ![u][d] = @ + (IF counts THEN 1 ELSE 0)]
     /\ Passes(h, TRUE, "copy")
     /\ UNCHANGED <<catalogueVars, account, subscribed, day>>

(* copy_message succeeds or fails: the download stays counted.             *)
Copy(h) ==
  /\ press[h].at = "copy"
  /\ Turns(h, NoPress)
  /\ Reading

(* The process dies or a statement fails: the transaction is rolled back.  *)
PressDies(h) ==
  /\ press[h].at \notin {"idle", "copy"}
  /\ Turns(h, NoPress)
  /\ Reading

-----------------------------------------------------------------------------
(* The panel blocks an account and frees it.                               *)
SetStatus(u, status) ==
  /\ account[u] # status
  /\ account' = [account EXCEPT ![u] = status]
  /\ UNCHANGED <<catalogueVars, subscribed, day, used, granted, press>>

(* The panel, or a payment, subscribes a user or changes the plan.         *)
Subscribe(u, level) ==
  /\ subscribed[u] # level
  /\ subscribed' = [subscribed EXCEPT ![u] = level]
  /\ UNCHANGED <<catalogueVars, account, day, used, granted, press>>

Lapse(u) ==
  /\ subscribed[u] # "none"
  /\ subscribed' = [subscribed EXCEPT ![u] = "none"]
  /\ UNCHANGED <<catalogueVars, account, day, used, granted, press>>

Midnight ==
  /\ day < MaxDay
  /\ day' = day + 1
  /\ UNCHANGED <<catalogueVars, account, subscribed, used, granted, press>>

DeliveryInit ==
  /\ CatalogueInit
  /\ account = [u \in Users |-> "ACTIVE"]
  /\ subscribed = [u \in Users |-> "none"]
  /\ day = 0
  /\ used = [u \in Users |-> [d \in Days |-> 0]]
  /\ granted = [u \in Users |-> [d \in Days |-> 0]]
  /\ press = [h \in Slots |-> NoPress]

Step(h) ==
  \/ \E u \in Users, r \in Releases : ReadVariant(h, u, r)
  \/ CheckTitle(h) \/ CheckAccess(h) \/ Lock(h) \/ Judge(h) \/ Commit(h) \/ Copy(h) \/ PressDies(h)

Around ==
  \/ \E u \in Users, status \in {"ACTIVE", "BLOCKED"} : SetStatus(u, status)
  \/ \E u \in Users, level \in {"low", "high"} : Subscribe(u, level)
  \/ \E u \in Users : Lapse(u)
  \/ Midnight

DeliveryNext ==
  \/ CatalogueNext /\ UNCHANGED downloadVars
  \/ \E h \in Slots : Step(h)
  \/ Around

DeliverySpec == DeliveryInit /\ [][DeliveryNext]_deliveryVars

-----------------------------------------------------------------------------
(* Every variable keeps its type, a press under way is of a user and a     *)
(* release that exists, and no transaction dates a download into a day to  *)
(* come: the rows that the transactions of presses and panels go through.  *)
DeliveryTypeOK ==
  /\ CatalogueTypeOK
  /\ account \in [Users -> {"ACTIVE", "BLOCKED"}]
  /\ subscribed \in [Users -> Levels]
  /\ day \in Days
  /\ used \in [Users -> [Days -> Nat]] /\ granted \in [Users -> [Days -> Nat]]
  /\ press \in [Slots -> Press]
  /\ \A h \in Slots : press[h] = NoPress \/ (press[h].user \in Users /\ press[h].release \in Releases)
  /\ \A u \in Users : \A d \in Days : d > day => used[u][d] = 0

(* No more free downloads are granted to a user on a day than the limit,   *)
(* however many presses run side by side (releases.py, the comment on      *)
(* TOCTOU).  A press that starts before midnight and is judged after it is *)
(* counted on the old day and judged by the new one: it is left out here.  *)
FreeLimit ==
  \A u \in Users : \A d \in Days : granted[u][d] <= Limit
=============================================================================
