------------------------------ MODULE StarPayments ------------------------------
(***************************************************************************)
(* Payments in Telegram Stars and the subscription of one user             *)
(* (app/services/billing.py, app/bot/handlers/payments.py), with the other *)
(* two paths that extend the same subscription: the bank settlement, whose *)
(* own order is in WinaPay, and the upgrade of the admin panel.  Coupons   *)
(* are app/services/coupons.py: one coupon, counted over the orders.       *)
(*                                                                         *)
(* The bot polls: aiogram starts a task per update and acknowledges the    *)
(* update by the next getUpdates, whether or not the task has ended.       *)
(*                                                                         *)
(* An expiry date is the set of settlements whose days it counts.          *)
(***************************************************************************)
EXTENDS Integers, FiniteSets

CONSTANTS
  Orders,       \* orders in Stars
  Charges,      \* payments of an invoice that Telegram may capture
  OrderOf,      \* OrderOf[c]: the order in the invoice's payload
  Grants,       \* settlements of bank orders, past their own order's gate
  Upgrades,     \* manual upgrades by the admin
  Handlers,     \* tasks and requests that run at the same time
  Rows,         \* ids of subscription rows
  NoRow, Nobody,
  CouponLimit   \* the smaller of max_uses and per_user_limit

Settlements == Charges \cup Grants \cup Upgrades

ASSUME StarAssumption ==
  /\ OrderOf \in [Charges -> Orders]
  /\ Charges \cap (Grants \cup Upgrades) = {} /\ Grants \cap Upgrades = {}
  /\ IsFiniteSet(Orders)
  /\ CouponLimit \in Nat
  /\ NoRow \notin Rows /\ Nobody \notin Settlements

VARIABLES
  order,       \* order[o]: status of the order
  attempt,     \* attempt[o]: status of its payment attempt
  redemption,  \* redemption[o]: its coupon; LATE is REDEEMED after it lapsed
  reserving,   \* orders being created that passed the coupon's checks
  couponOpen,  \* the coupon is active and in its period of validity
  charge,      \* charge[c]: the charge and its update, at Telegram
  payment,     \* settlements with a committed payment (or upgrade) row
  row,         \* row[s]: a subscription of the user
  handler      \* handler[h]: what a task is doing

vars == <<order, attempt, redemption, reserving, couponOpen, charge, payment, row, handler>>

-----------------------------------------------------------------------------
Redemptions == {"NONE", "RESERVED", "LAPSED", "REDEEMED", "LATE"}

(* live: ACTIVE and not expired.  paid: its expiry date.                   *)
Row == [live : BOOLEAN, paid : SUBSET Settlements]

NewRow == [live |-> FALSE, paid |-> {}]

(* known: the charge has a payment row already.  sub, counted: the row it  *)
(* locked and the expiry it loaded.  saw: the attempt as the trace of a    *)
(* failure loaded it.                                                      *)
Handler == [at : {"idle", "loaded", "settling", "failed", "tracing"},
            what : Settlements \cup {Nobody}, known : BOOLEAN,
            sub : Rows \cup {NoRow}, counted : SUBSET Settlements,
            saw : {"NONE", "CREATED", "PAID", "FAILED"}]

(* A task that holds no subscription.                                      *)
Task(at, x, saw) ==
  [at |-> at, what |-> x, known |-> FALSE, sub |-> NoRow,
   counted |-> {}, saw |-> saw]

Idle == Task("idle", Nobody, "NONE")

Settling(x, known, s, counted) ==
  [at |-> "settling", what |-> x, known |-> known, sub |-> s,
   counted |-> counted, saw |-> "NONE"]

Become(h, r) == handler' = [handler EXCEPT ![h] = r]

(* The order row is locked from the settlement's first read to its commit. *)
OrderLocked(o) ==
  \E h \in Handlers : /\ handler[h].at = "settling"
                      /\ handler[h].what \in Charges
                      /\ OrderOf[handler[h].what] = o

-----------------------------------------------------------------------------
(* Uses of the coupon: _count_active_redemptions.                          *)
Uses == {o \in Orders : redemption[o] \in {"RESERVED", "REDEEMED", "LATE"}}

(* Mutant: the coupon row is read without FOR UPDATE.                      *)
ReserveUnlocked(o) ==
  /\ order[o] = "NONE"
  /\ couponOpen
  /\ Cardinality(Uses) < CouponLimit
  /\ reserving' = reserving \cup {o}
  /\ UNCHANGED <<order, attempt, redemption, couponOpen, charge, payment, row, handler>>

(* create_star_order with a coupon: reserve_coupon locks the coupon and    *)
(* checks it, ...                                                          *)
Reserve(o) ==
  /\ order[o] = "NONE"
  /\ reserving = {}
  /\ couponOpen
  /\ Cardinality(Uses) < CouponLimit
  /\ reserving' = reserving \cup {o}
  /\ UNCHANGED <<order, attempt, redemption, couponOpen, charge, payment, row, handler>>

(* ... and the commit inserts order, attempt and redemption.  Without a    *)
(* coupon there is nothing to wait for.                                    *)
CreateOrder(o) ==
  /\ order[o] = "NONE"
  /\ order' = [order EXCEPT ![o] = "CREATED"]
  /\ attempt' = [attempt EXCEPT ![o] = "CREATED"]
  /\ redemption' = [redemption EXCEPT ![o] = IF o \in reserving THEN "RESERVED" ELSE "NONE"]
  /\ reserving' = reserving \ {o}
  /\ UNCHANGED <<couponOpen, charge, payment, row, handler>>

(* A reservation passes its TTL.  From then on it neither counts nor does  *)
(* it matter whether it has been set to RELEASED yet.                      *)
CouponLapses(o) ==
  /\ redemption[o] = "RESERVED"
  /\ redemption' = [redemption EXCEPT ![o] = "LAPSED"]
  /\ UNCHANGED <<order, attempt, reserving, couponOpen, charge, payment, row, handler>>

CouponCloses ==
  /\ couponOpen
  /\ couponOpen' = FALSE
  /\ UNCHANGED <<order, attempt, redemption, reserving, charge, payment, row, handler>>

-----------------------------------------------------------------------------
(* pre_checkout: nothing stops the user from paying the same invoice, or a *)
(* forwarded copy of it, again while the order is CREATED.                 *)
Approve(c) ==
  /\ charge[c] = "none"
  /\ order[OrderOf[c]] = "CREATED"
  /\ charge' = [charge EXCEPT ![c] = "approved"]
  /\ UNCHANGED <<order, attempt, redemption, reserving, couponOpen, payment, row, handler>>

Capture(c) ==
  /\ charge[c] = "approved"
  /\ charge' = [charge EXCEPT ![c] = "captured"]
  /\ UNCHANGED <<order, attempt, redemption, reserving, couponOpen, payment, row, handler>>

(* A successful_payment update starts a task, again if the process died or *)
(* polling restarted before the next getUpdates.  The task loads the order *)
(* and is done if it is PAID.                                              *)
Deliver(h, c) ==
  /\ handler[h].at = "idle"
  /\ charge[c] \in {"captured", "delivered"}
  /\ charge' = [charge EXCEPT ![c] = "delivered"]
  /\ \/ order[OrderOf[c]] = "PAID" /\ UNCHANGED handler
     \/ order[OrderOf[c]] # "PAID" /\ Become(h, Task("loaded", c, "NONE"))
  /\ UNCHANGED <<order, attempt, redemption, reserving, couponOpen, payment, row>>

Acknowledge(c) ==
  /\ charge[c] = "delivered"
  /\ charge' = [charge EXCEPT ![c] = "acknowledged"]
  /\ UNCHANGED <<order, attempt, redemption, reserving, couponOpen, payment, row, handler>>

-----------------------------------------------------------------------------
(* Mutant: the active subscription is read without FOR UPDATE.             *)
PickUnlocked(h, x) ==
  LET live == {s \in Rows : row[s].live}
  IN \/ live = {} /\ Become(h, Settling(x, FALSE, NoRow, {}))
     \/ \E s \in live : Become(h, Settling(x, FALSE, s, row[s].paid))

(* The subscription to extend: every live row is locked, one is taken.  If *)
(* there is none, nothing is locked and a row will be inserted.            *)
Pick(h, x) ==
  LET live == {s \in Rows : row[s].live}
  IN \/ live = {} /\ Become(h, Settling(x, FALSE, NoRow, {}))
     \/ /\ \A k \in Handlers : handler[k].sub \notin live
        /\ \E s \in live : Become(h, Settling(x, FALSE, s, row[s].paid))

(* Mutant: any payment passes for the payment of the charge.               *)
KnownAnywhere(c) == payment # {}

Known(c) == c \in payment

(* settle_star_payment: it waits for the order row, and gets the object    *)
(* that the task loaded before (there is no populate_existing), so that    *)
(* only the lookup of the charge can tell what happened meanwhile.         *)
SettleBegin(h) ==
  LET c == handler[h].what
  IN /\ handler[h].at = "loaded"
     /\ ~OrderLocked(OrderOf[c])
     /\ \/ Known(c) /\ Become(h, Settling(c, TRUE, NoRow, {}))
        \/ ~Known(c) /\ Pick(h, c)
     /\ UNCHANGED <<order, attempt, redemption, reserving, couponOpen, charge, payment, row>>

(* The bank's settlement or the admin's upgrade reaches the subscription.  *)
GrantBegin(h, g) ==
  /\ handler[h].at = "idle"
  /\ g \notin payment
  /\ \A k \in Handlers : handler[k].what # g
  /\ Pick(h, g)
  /\ UNCHANGED <<order, attempt, redemption, reserving, couponOpen, charge, payment, row>>

(* redeem_coupon_for_order; a refusal is logged and nothing else.          *)
Redeemed(status) ==
  CASE couponOpen /\ status = "RESERVED" -> "REDEEMED"
    [] couponOpen /\ status = "LAPSED"   -> "LATE"
    [] OTHER -> status

(* The row after a settlement: the expiry that it loaded plus its days.    *)
Extended(t) == [live |-> TRUE, paid |-> t.counted \cup {t.what}]

(* Mutant: the status is misspelt.                                         *)
SettledMisspelt(o) ==
  /\ order' = [order EXCEPT ![o] = "PAYED"]
  /\ attempt' = [attempt EXCEPT ![o] = "PAID"]

Settled(o) ==
  /\ order' = [order EXCEPT ![o] = "PAID"]
  /\ attempt' = [attempt EXCEPT ![o] = "PAID"]

(* The commit of a settlement.  A second payment row of one charge would   *)
(* violate a unique key.                                                   *)
SettleCommit(h) ==
  LET t == handler[h]
  IN /\ t.at = "settling"
     /\ \/ /\ t.known
           /\ UNCHANGED <<payment, row>>
        \/ /\ ~t.known
           /\ t.what \notin payment
           /\ payment' = payment \cup {t.what}
           /\ \/ /\ t.sub # NoRow
                 /\ row' = [row EXCEPT ![t.sub] = Extended(t)]
              \/ /\ t.sub = NoRow
                 /\ \E s \in Rows : /\ row[s] = NewRow
                                    /\ row' = [row EXCEPT ![s] = Extended(t)]
     /\ \/ /\ t.what \in Charges
           /\ Settled(OrderOf[t.what])
           /\ redemption' = IF t.known THEN redemption
                            ELSE [redemption EXCEPT ![OrderOf[t.what]] = Redeemed(@)]
        \/ /\ t.what \notin Charges
           /\ UNCHANGED <<order, attempt, redemption>>
     /\ Become(h, Idle)
     /\ UNCHANGED <<reserving, couponOpen, charge>>

(* An exception rolls the transaction back; a task traces it, an upgrade   *)
(* or the bank's callback reports it.                                      *)
SettleFails(h) ==
  /\ handler[h].at \in {"loaded", "settling"}
  /\ Become(h, IF handler[h].what \in Charges
                 THEN Task("failed", handler[h].what, "NONE") ELSE Idle)
  /\ UNCHANGED <<order, attempt, redemption, reserving, couponOpen, charge, payment, row>>

(* The trace of a failed settlement, in a session of its own: it loads the *)
(* attempt without a lock, ...                                             *)
TraceBegin(h) ==
  LET c == handler[h].what
  IN /\ handler[h].at = "failed"
     /\ Become(h, Task("tracing", c, attempt[OrderOf[c]]))
     /\ UNCHANGED <<order, attempt, redemption, reserving, couponOpen, charge, payment, row>>

(* ... and makes it FAILED unless it saw it PAID.                          *)
TraceCommit(h) ==
  LET o == OrderOf[handler[h].what]
  IN /\ handler[h].at = "tracing"
     /\ ~OrderLocked(o)
     /\ attempt' = IF handler[h].saw = "CREATED" THEN [attempt EXCEPT ![o] = "FAILED"]
                                                 ELSE attempt
     /\ Become(h, Idle)
     /\ UNCHANGED <<order, redemption, reserving, couponOpen, charge, payment, row>>

TraceFails(h) ==
  /\ handler[h].at \in {"failed", "tracing"}
  /\ Become(h, Idle)
  /\ UNCHANGED <<order, attempt, redemption, reserving, couponOpen, charge, payment, row>>

(* The process dies with all its tasks.                                    *)
Crash ==
  /\ handler' = [h \in Handlers |-> Idle]
  /\ reserving' = {}
  /\ UNCHANGED <<order, attempt, redemption, couponOpen, charge, payment, row>>

-----------------------------------------------------------------------------
(* A subscription expires, be it noticed by _expire_state or by a query.   *)
RowExpires(s) ==
  /\ row[s].live
  /\ row' = [row EXCEPT ![s] = [live |-> FALSE, paid |-> @.paid]]
  /\ UNCHANGED <<order, attempt, redemption, reserving, couponOpen, charge, payment, handler>>

-----------------------------------------------------------------------------
Init ==
  /\ order = [o \in Orders |-> "NONE"]
  /\ attempt = [o \in Orders |-> "NONE"]
  /\ redemption = [o \in Orders |-> "NONE"]
  /\ reserving = {}
  /\ couponOpen = TRUE
  /\ charge = [c \in Charges |-> "none"]
  /\ payment = {}
  /\ row = [s \in Rows |-> NewRow]
  /\ handler = [h \in Handlers |-> Idle]

OrderStep(o) == Reserve(o) \/ CreateOrder(o) \/ CouponLapses(o)

ChargeStep(c) == Approve(c) \/ Capture(c) \/ Acknowledge(c)

HandlerStep(h) ==
  \/ \E c \in Charges : Deliver(h, c)
  \/ \E g \in Grants \cup Upgrades : GrantBegin(h, g)
  \/ SettleBegin(h)
  \/ SettleCommit(h)
  \/ SettleFails(h)
  \/ TraceBegin(h)
  \/ TraceCommit(h)
  \/ TraceFails(h)

Next ==
  \/ \E o \in Orders : OrderStep(o)
  \/ \E c \in Charges : ChargeStep(c)
  \/ \E h \in Handlers : HandlerStep(h)
  \/ \E s \in Rows : RowExpires(s)
  \/ CouponCloses
  \/ Crash

Spec == Init /\ [][Next]_vars

-----------------------------------------------------------------------------
(* Types of the tables, of Telegram's charges and of the running tasks.    *)
TypeOK ==
  /\ order \in [Orders -> {"NONE", "CREATED", "PAID"}]
  /\ attempt \in [Orders -> {"NONE", "CREATED", "PAID", "FAILED"}]
  /\ redemption \in [Orders -> Redemptions]
  /\ reserving \subseteq Orders
  /\ couponOpen \in BOOLEAN
  /\ charge \in [Charges -> {"none", "approved", "captured", "delivered", "acknowledged"}]
  /\ payment \subseteq Settlements
  /\ row \in [Rows -> Row]
  /\ handler \in [Handlers -> Handler]

(* Every paid period is granted once: no renewal overwrites another one,   *)
(* none is granted without its payment row, and a repeated update grants   *)
(* nothing more.                                                           *)
DaysAreKept ==
  /\ payment = UNION {row[s].paid : s \in Rows}
  /\ \A s, u \in Rows : s # u => row[s].paid \cap row[u].paid = {}

(* An order is PAID exactly when a charge of that very order has a payment *)
(* row, whatever charges, repeats and rollbacks it went through.           *)
PaidIsPaidFor ==
  \A o \in Orders : order[o] = "PAID" <=> \E c \in Charges \cap payment : OrderOf[c] = o

(* The coupon is not used more often than its limit, late redemptions of   *)
(* lapsed reservations apart: these are counted when they happen.          *)
CouponWithinLimit ==
  Cardinality({o \in Orders : redemption[o] \in {"RESERVED", "REDEEMED"}}) <= CouponLimit
(* What PurchaseContract knows of a charge: it serves its order by days on *)
(* some row.                                                               *)
Money(c) ==
  [at |-> CASE charge[c] = "none" -> "none"
            [] charge[c] = "approved" -> "open"
            [] OTHER -> "taken",
   order |-> IF charge[c] = "none" THEN Nobody ELSE OrderOf[c],
   served |-> Cardinality({s \in Rows : c \in row[s].paid})]

Purchase == INSTANCE PurchaseContract WITH
  Payments <- Charges,
  NoOrder <- Nobody,
  Reopens <- FALSE,
  money <- [c \in Charges |-> Money(c)],
  paid <- [o \in Orders |-> order[o] = "PAID"]

(* The updates, their repetitions and the crashes of the bot keep the      *)
(* promises of PurchaseContract.                                           *)
KeepsPurchaseContract == Purchase!ContractSpec
=============================================================================
