------------------------------- MODULE WinaPay -------------------------------
(***************************************************************************)
(* An order paid through the WinaPay gateway: the start redirect and the   *)
(* callback of app/api/payments.py, the three-phase settlement of          *)
(* app/services/winapay_billing.py, and the coupon reservation it consumes *)
(* or releases (app/services/coupons.py).                                  *)
(*                                                                         *)
(* A request runs in one SQLAlchemy session with expire_on_commit = False. *)
(* A row that the session has loaded keeps the attributes it had then: the *)
(* later SELECT ... FOR UPDATE takes the lock but does not refresh them,   *)
(* and a flush writes only the attributes that differ from what was        *)
(* loaded.  "seen" is what a request loaded; Written is the flush.         *)
(*                                                                         *)
(* A session's network call sits between two of its transactions; each     *)
(* transaction is one action.                                              *)
(***************************************************************************)
EXTENDS Naturals

CONSTANTS
  Orders,
  Authorities,   \* transactions the gateway can open; its RefID is named alike
  Callbacks,     \* callback requests that may be in flight at once
  Starts,        \* start requests that may be in flight at once
  NoAuth,        \* attempt.authority IS NULL
  NoOrder

ASSUME WinaPayAssumption == NoAuth \notin Authorities /\ NoOrder \notin Orders

VARIABLES
  order,      \* order[o]: orders.status
  attempt,    \* attempt[o]: the payment attempt, its status and authority
  coupon,     \* coupon[o]: the order's coupon_redemptions row
  couponOpen, \* the coupon is active and inside its validity window
  events,     \* payment_webhook_events, by event_key
  payments,   \* payments rows
  fulfilled,  \* fulfilled[a]: times the order was served for RefID a
  gateway,    \* external: gateway[a], the gateway's transaction
  callback,   \* callback[h]: the callback request in slot h
  start,      \* start[s]: the start request in slot s
  lost        \* captured money whose capture the service did not get to record

db   == <<order, attempt, coupon, events, payments, fulfilled>>
vars == <<db, couponOpen, gateway, callback, start, lost>>

-----------------------------------------------------------------------------
OrderStatus   == {"ABSENT", "CREATED", "PENDING", "PAID"}
AttemptStatus == {"CREATED", "PENDING", "PAID", "FAILED"}
CouponStatus  == {"NONE", "RESERVED", "RELEASED", "REDEEMED"}
EventStatus   == {"NONE", "RECEIVED", "PROCESSED", "IGNORED", "FAILED"}
GatewayState  == {"unused", "issued", "paid", "aborted", "captured"}
Reports       == {"OK", "NOK"}   \* PaymentStatus of the callback

Keys    == [auth : Authorities, report : Reports, mismatch : BOOLEAN]
Attempt == [status : AttemptStatus, auth : Authorities \cup {NoAuth}]
Payment == [ref : Authorities, order : Orders]
Seen    == [order : OrderStatus, attempt : AttemptStatus]

Idle    == [pc |-> "idle"]
Request == [pc : {"verify", "settle", "reject", "error"}, auth : Authorities,
            seen : Seen, inserted : BOOLEAN]
Visit   == [pc : {"loaded"}, order : Orders, seen : Seen]

(* The flush of an attribute loaded as old and set to new: nothing is      *)
(* written when they are equal, whatever the row holds by now.             *)
Written(row, old, new) == IF old = new THEN row ELSE new

See(o) == [order |-> order[o], attempt |-> attempt[o].status]

-----------------------------------------------------------------------------
(* Coupons: what settling and failing do to the order's redemption row.    *)

(* Mutant: release_coupon_for_order without its status test.               *)
ReleasedAlways(c) == IF c = "NONE" THEN "NONE" ELSE "RELEASED"

Released(c) == IF c = "RESERVED" THEN "RELEASED" ELSE c

(* A coupon that has closed meanwhile is not redeemed; the ValueError is   *)
(* caught and the payment stands.                                          *)
Redeemed(c) == IF c \in {"RESERVED", "RELEASED"} /\ couponOpen THEN "REDEEMED" ELSE c

-----------------------------------------------------------------------------
(* create_winapay_subscription_order and create_winapay_wallet_order.      *)
CreateOrder(o) ==
  /\ order[o] = "ABSENT"
  /\ order' = [order EXCEPT ![o] = "CREATED"]
  /\ attempt' = [attempt EXCEPT ![o] = [status |-> "CREATED", auth |-> NoAuth]]
  /\ \E c \in {"NONE", "RESERVED"} : coupon' = [coupon EXCEPT ![o] = c]
  /\ UNCHANGED <<couponOpen, events, payments, fulfilled, gateway, callback, start, lost>>

(* start_winapay_payment up to the call of the gateway.                    *)
StartLoad(s, o) ==
  /\ start[s] = Idle
  /\ order[o] \in {"CREATED", "PENDING"}
  /\ start' = [start EXCEPT ![s] = [pc |-> "loaded", order |-> o, seen |-> See(o)]]
  /\ UNCHANGED <<db, couponOpen, gateway, callback, lost>>

(* The attempt already has a payment URL: it is given out again.           *)
StartReuse(s) ==
  LET o == start[s].order
  IN /\ start[s].pc = "loaded"
     /\ start[s].seen.attempt = "PENDING"
     /\ order' = [order EXCEPT ![o] = Written(@, start[s].seen.order, "PENDING")]
     /\ start' = [start EXCEPT ![s] = Idle]
     /\ UNCHANGED <<attempt, coupon, couponOpen, events, payments, fulfilled,
                    gateway, callback, lost>>

(* prepare_winapay_payment: the gateway opens transaction a, and its       *)
(* authority replaces whatever the attempt had.                            *)
StartPrepare(s, a) ==
  LET o == start[s].order
  IN /\ start[s].pc = "loaded"
     /\ start[s].seen.attempt # "PENDING"
     /\ gateway[a].state = "unused"
     /\ gateway' = [gateway EXCEPT ![a] = [state |-> "issued", order |-> o]]
     /\ attempt' = [attempt EXCEPT ![o] = [status |-> "PENDING", auth |-> a]]
     /\ order' = [order EXCEPT ![o] = Written(@, start[s].seen.order, "PENDING")]
     /\ start' = [start EXCEPT ![s] = Idle]
     /\ UNCHANGED <<coupon, couponOpen, events, payments, fulfilled, callback, lost>>

(* Mutant: a status that the column's enumeration does not have.           *)
StartFailDeclined(s) ==
  /\ start[s].pc = "loaded"
  /\ start[s].seen.attempt # "PENDING"
  /\ attempt' = [attempt EXCEPT ![start[s].order].status = "DECLINED"]
  /\ start' = [start EXCEPT ![s] = Idle]
  /\ UNCHANGED <<order, coupon, couponOpen, events, payments, fulfilled,
                 gateway, callback, lost>>

(* The gateway refused or could not be reached.                            *)
StartFail(s) ==
  LET o == start[s].order
  IN /\ start[s].pc = "loaded"
     /\ start[s].seen.attempt # "PENDING"
     /\ attempt' = [attempt EXCEPT ![o].status = Written(@, start[s].seen.attempt, "FAILED")]
     /\ start' = [start EXCEPT ![s] = Idle]
     /\ UNCHANGED <<order, coupon, couponOpen, events, payments, fulfilled,
                    gateway, callback, lost>>

-----------------------------------------------------------------------------
(* External: the customer at the gateway's page, and the coupon's clock.   *)

CustomerPays(a) ==
  /\ gateway[a].state = "issued"
  /\ gateway' = [gateway EXCEPT ![a].state = "paid"]
  /\ UNCHANGED <<db, couponOpen, callback, start, lost>>

CustomerAborts(a) ==
  /\ gateway[a].state = "issued"
  /\ gateway' = [gateway EXCEPT ![a].state = "aborted"]
  /\ UNCHANGED <<db, couponOpen, callback, start, lost>>

(* RESERVATION_TTL is over and another order's reserve_coupon sweeps.      *)
CouponExpires(o) ==
  /\ coupon[o] = "RESERVED"
  /\ coupon' = [coupon EXCEPT ![o] = "RELEASED"]
  /\ UNCHANGED <<order, attempt, couponOpen, events, payments, fulfilled,
                 gateway, callback, start, lost>>

CouponCloses ==
  /\ couponOpen
  /\ couponOpen' = FALSE
  /\ UNCHANGED <<db, gateway, callback, start, lost>>

-----------------------------------------------------------------------------
(* The callback, which the gateway sends at least once, may repeat at any  *)
(* time, and the customer's browser sends too.                             *)

Reported(a, report) ==
  gateway[a].state \in IF report = "OK" THEN {"paid", "captured"} ELSE {"aborted"}

Mismatch(a) ==
  attempt[gateway[a].order].auth \notin {NoAuth, a}

Key(a, report) == [auth |-> a, report |-> report, mismatch |-> FALSE]

(* INSERT ... ON CONFLICT DO NOTHING                                       *)
Insert(key, status) == IF events[key] = "NONE" THEN [events EXCEPT ![key] = status] ELSE events

(* Authority cross-check: a callback for an authority that was replaced.   *)
CallbackMismatch(h, a, report) ==
  /\ callback[h] = Idle
  /\ Reported(a, report)
  /\ Mismatch(a)
  /\ events' = Insert([Key(a, report) EXCEPT !.mismatch = TRUE], "FAILED")
  /\ UNCHANGED <<order, attempt, coupon, payments, fulfilled, couponOpen,
                 gateway, callback, start, lost>>

(* A repeated callback of a paid order.                                    *)
CallbackRepeated(h, a, report) ==
  /\ callback[h] = Idle
  /\ Reported(a, report)
  /\ ~Mismatch(a)
  /\ events[Key(a, report)] # "NONE"
  /\ order[gateway[a].order] = "PAID"
  /\ events' = [events EXCEPT ![Key(a, report)] = "PROCESSED"]
  /\ UNCHANGED <<order, attempt, coupon, payments, fulfilled, couponOpen,
                 gateway, callback, start, lost>>

(* The customer gave up.                                                   *)
CallbackIgnored(h, a) ==
  /\ callback[h] = Idle
  /\ Reported(a, "NOK")
  /\ ~Mismatch(a)
  /\ ~(events[Key(a, "NOK")] # "NONE" /\ order[gateway[a].order] = "PAID")
  /\ events' = Insert(Key(a, "NOK"), "IGNORED")
  /\ UNCHANGED <<order, attempt, coupon, payments, fulfilled, couponOpen,
                 gateway, callback, start, lost>>

(* First callback of an order that is paid already, by another authority:  *)
(* phase A returns the order's latest payment.                             *)
CallbackAlreadyPaid(h, a) ==
  /\ callback[h] = Idle
  /\ Reported(a, "OK")
  /\ ~Mismatch(a)
  /\ events[Key(a, "OK")] = "NONE"
  /\ order[gateway[a].order] = "PAID"
  /\ events' = Insert(Key(a, "OK"), "PROCESSED")
  /\ UNCHANGED <<order, attempt, coupon, payments, fulfilled, couponOpen,
                 gateway, callback, start, lost>>

(* The event is recorded and phase A of settle_winapay_order reads.        *)
CallbackLoad(h, a) ==
  LET o == gateway[a].order
  IN /\ callback[h] = Idle
     /\ Reported(a, "OK")
     /\ ~Mismatch(a)
     /\ order[o] # "PAID"
     /\ events' = Insert(Key(a, "OK"), "RECEIVED")
     /\ callback' = [callback EXCEPT ![h] =
                       [pc |-> "verify", auth |-> a, seen |-> See(o),
                        inserted |-> events[Key(a, "OK")] = "NONE"]]
     /\ UNCHANGED <<order, attempt, coupon, payments, fulfilled, couponOpen,
                    gateway, start, lost>>

Goto(h, pc) == callback' = [callback EXCEPT ![h].pc = pc]

(* Phase V.  The gateway captures the money at the first verification; a   *)
(* later one may be answered alike, or refused (VerifyFails).              *)
VerifySucceeds(h) ==
  LET a == callback[h].auth
  IN /\ callback[h].pc = "verify"
     /\ gateway[a].state \in {"paid", "captured"}
     /\ gateway' = [gateway EXCEPT ![a].state = "captured"]
     /\ Goto(h, "settle")
     /\ UNCHANGED <<db, couponOpen, start, lost>>

(* Mutant: an answer that never came is taken for a success.               *)
VerifyFailsOpen(h) ==
  /\ callback[h].pc = "verify"
  /\ Goto(h, "settle")
  /\ UNCHANGED <<db, couponOpen, gateway, start, lost>>

(* Refused, or the gateway was not reached; an answer the client cannot    *)
(* make sense of raises instead.                                           *)
VerifyFails(h) ==
  /\ callback[h].pc = "verify"
  /\ \E pc \in {"reject", "error"} : Goto(h, pc)
  /\ UNCHANGED <<db, couponOpen, gateway, start, lost>>

(* Captured, and the answer timed out on its way back or was malformed.    *)
VerifyAnswerLost(h) ==
  LET a == callback[h].auth
  IN /\ callback[h].pc = "verify"
     /\ gateway[a].state = "paid"
     /\ gateway' = [gateway EXCEPT ![a].state = "captured"]
     /\ lost' = lost \cup {a}
     /\ \E pc \in {"reject", "error"} : Goto(h, pc)
     /\ UNCHANGED <<db, couponOpen, start>>

(* The end of a callback: its own event row, if this request inserted it.  *)
Finish(h, status) ==
  /\ events' = IF callback[h].inserted
                 THEN [events EXCEPT ![Key(callback[h].auth, "OK")] = status] ELSE events
  /\ callback' = [callback EXCEPT ![h] = Idle]

(* Mutant: the event of a failed verification was marked PROCESSED too.    *)
FinishProcessed(h) == Finish(h, "PROCESSED")

FinishRejected(h) == Finish(h, "FAILED")

(* _verify_failure.  Its FOR UPDATE read of the order returns the object   *)
(* that phase A loaded, so the test for PAID sees the old status.          *)
CallbackReject(h) ==
  LET o == gateway[callback[h].auth].order
      seen == callback[h].seen
  IN /\ callback[h].pc = "reject"
     /\ attempt' = [attempt EXCEPT ![o].status =
                      IF seen.order = "PAID" THEN @ ELSE Written(@, seen.attempt, "FAILED")]
     /\ coupon' = [coupon EXCEPT ![o] = IF seen.order = "PAID" THEN @ ELSE Released(@)]
     /\ FinishRejected(h)
     /\ UNCHANGED <<order, payments, fulfilled, couponOpen, gateway, start, lost>>

Recorded(a) == \E p \in payments : p.ref = a

(* Mutant: neither the lookup nor the constraint.                          *)
RefAlwaysFree(a) == TRUE

(* SELECT ... FROM payments WHERE provider_reference = RefID, a row that   *)
(* no request holds from before, and uq_payments_provider_reference.       *)
RefFree(a) == ~Recorded(a)

PaidBy(h, o) ==
  /\ order' = [order EXCEPT ![o] = Written(@, callback[h].seen.order, "PAID")]
  /\ attempt' = [attempt EXCEPT ![o].status = Written(@, callback[h].seen.attempt, "PAID")]

(* Mutant: the re-check of phase B on the status as it is now.             *)
SettleUnlessPaid(h) ==
  LET a == callback[h].auth
      o == gateway[a].order
  IN /\ callback[h].pc = "settle"
     /\ RefFree(a)
     /\ IF order[o] = "PAID"
          THEN UNCHANGED <<order, attempt, payments, fulfilled, coupon>>
          ELSE /\ payments' = payments \cup {[ref |-> a, order |-> o]}
               /\ PaidBy(h, o)
               /\ fulfilled' = [fulfilled EXCEPT ![a] = @ + 1]
               /\ coupon' = [coupon EXCEPT ![o] = Redeemed(@)]
     /\ Finish(h, "PROCESSED")
     /\ UNCHANGED <<couponOpen, gateway, start, lost>>

(* Phase B for a RefID that has no payment yet: payment row, order, wallet *)
(* or subscription, and coupon, in one transaction.                        *)
CallbackSettle(h) ==
  LET a == callback[h].auth
      o == gateway[a].order
  IN /\ callback[h].pc = "settle"
     /\ RefFree(a)
     /\ payments' = payments \cup {[ref |-> a, order |-> o]}
     /\ PaidBy(h, o)
     /\ fulfilled' = [fulfilled EXCEPT ![a] = @ + 1]
     /\ coupon' = [coupon EXCEPT ![o] = Redeemed(@)]
     /\ Finish(h, "PROCESSED")
     /\ UNCHANGED <<couponOpen, gateway, start, lost>>

(* The transaction of phase B or of _verify_failure raises: the plan is    *)
(* gone, or the database is.  The except path rolls back, which expires    *)
(* every loaded object, and then reads order.id of an expired order: the   *)
(* refresh needs a greenlet that a coroutine does not have, so the handler *)
(* itself raises and neither the attempt nor the event is written.         *)
CallbackAborts(h) ==
  /\ callback[h].pc \in {"settle", "reject"}
  /\ lost' = IF callback[h].pc = "settle" THEN lost \cup {callback[h].auth} ELSE lost
  /\ callback' = [callback EXCEPT ![h] = Idle]
  /\ UNCHANGED <<db, couponOpen, gateway, start>>

(* Phase B for a RefID whose payment is there already.                     *)
CallbackSettleAgain(h) ==
  /\ callback[h].pc = "settle"
  /\ ~RefFree(callback[h].auth)
  /\ PaidBy(h, gateway[callback[h].auth].order)
  /\ Finish(h, "PROCESSED")
  /\ UNCHANGED <<coupon, payments, fulfilled, couponOpen, gateway, start, lost>>

(* verify_payment raises.  No transaction is open, so the rollback of the  *)
(* except path expires nothing and the attempt is the one phase A loaded.  *)
CallbackError(h) ==
  /\ callback[h].pc = "error"
  /\ attempt' = [attempt EXCEPT ![gateway[callback[h].auth].order].status =
                   Written(@, callback[h].seen.attempt, "FAILED")]
  /\ Finish(h, "FAILED")
  /\ UNCHANGED <<order, coupon, payments, fulfilled, couponOpen, gateway, start, lost>>

(* The API process dies in the middle of a callback.                       *)
CallbackCrash(h) ==
  /\ callback[h] # Idle
  /\ lost' = IF callback[h].pc = "settle" THEN lost \cup {callback[h].auth} ELSE lost
  /\ callback' = [callback EXCEPT ![h] = Idle]
  /\ UNCHANGED <<db, couponOpen, gateway, start>>

-----------------------------------------------------------------------------
Init ==
  /\ order = [o \in Orders |-> "ABSENT"]
  /\ attempt = [o \in Orders |-> [status |-> "CREATED", auth |-> NoAuth]]
  /\ coupon = [o \in Orders |-> "NONE"]
  /\ couponOpen = TRUE
  /\ events = [k \in Keys |-> "NONE"]
  /\ payments = {}
  /\ fulfilled = [a \in Authorities |-> 0]
  /\ gateway = [a \in Authorities |-> [state |-> "unused", order |-> NoOrder]]
  /\ callback = [h \in Callbacks |-> Idle]
  /\ start = [s \in Starts |-> Idle]
  /\ lost = {}

StartStep(s) ==
  \/ \E o \in Orders : StartLoad(s, o)
  \/ StartReuse(s)
  \/ \E a \in Authorities : StartPrepare(s, a)
  \/ StartFail(s)

CallbackArrives(h, a) ==
  \/ \E report \in Reports : CallbackMismatch(h, a, report) \/ CallbackRepeated(h, a, report)
  \/ CallbackIgnored(h, a)
  \/ CallbackAlreadyPaid(h, a)
  \/ CallbackLoad(h, a)

CallbackStep(h) ==
  \/ \E a \in Authorities : CallbackArrives(h, a)
  \/ VerifySucceeds(h)
  \/ VerifyFails(h)
  \/ VerifyAnswerLost(h)
  \/ CallbackReject(h)
  \/ CallbackSettle(h)
  \/ CallbackSettleAgain(h)
  \/ CallbackAborts(h)
  \/ CallbackError(h)
  \/ CallbackCrash(h)

Environment ==
  \/ \E a \in Authorities : CustomerPays(a) \/ CustomerAborts(a)
  \/ \E o \in Orders : CreateOrder(o) \/ CouponExpires(o)
  \/ CouponCloses

Next ==
  \/ \E s \in Starts : StartStep(s)
  \/ \E h \in Callbacks : CallbackStep(h)
  \/ Environment

Spec == Init /\ [][Next]_vars

-----------------------------------------------------------------------------
(* Types.                                                                  *)
TypeOK ==
  /\ order \in [Orders -> OrderStatus]
  /\ attempt \in [Orders -> Attempt]
  /\ coupon \in [Orders -> CouponStatus]
  /\ couponOpen \in BOOLEAN
  /\ events \in [Keys -> EventStatus]
  /\ payments \subseteq Payment
  /\ fulfilled \in [Authorities -> Nat]
  /\ gateway \in [Authorities -> [state : GatewayState, order : Orders \cup {NoOrder}]]
  /\ callback \in [Callbacks -> {Idle} \cup Request]
  /\ start \in [Starts -> {Idle} \cup Visit]
  /\ lost \subseteq Authorities

(* However many callbacks, retries and restarts race, one gateway payment  *)
(* serves its order once: as often as there is a payments row for it.      *)
FulfilledOnce ==
  \A a \in Authorities : fulfilled[a] = IF Recorded(a) THEN 1 ELSE 0

(* A payments row stands for money that the gateway has captured, for the  *)
(* very order it opened the transaction for, and a PAID order has one.     *)
PaidIsBacked ==
  /\ \A p \in payments : gateway[p.ref] = [state |-> "captured", order |-> p.order]
  /\ \A o \in Orders : order[o] = "PAID" => \E p \in payments : p.order = o

(* An event is PROCESSED only when its order has been settled: a failed    *)
(* verification never hides behind a processed webhook.                    *)
ProcessedIsSettled ==
  \A k \in Keys : events[k] = "PROCESSED" =>
    \E p \in payments : p.order = gateway[k.auth].order

(* Captured money serves the customer: unless the answer was lost or the   *)
(* settling transaction itself failed, a captured payment has its row or a *)
(* request that is about to write it.  No race of callbacks, restarts and  *)
(* replaced authorities strands it.                                        *)
NoCaptureStranded ==
  \A a \in Authorities : gateway[a].state = "captured" =>
    \/ Recorded(a)
    \/ a \in lost
    \/ \E h \in Callbacks : callback[h].pc = "settle" /\ callback[h].auth = a

(* A redeemed coupon stays redeemed: the failure path of a late duplicate  *)
(* does not hand the use back after the settlement has counted it.         *)
RedemptionIsFinal ==
  [][\A o \in Orders : coupon[o] = "REDEEMED" => coupon'[o] = "REDEEMED"]_vars
(* What PurchaseContract knows of a gateway transaction.                   *)
Money(a) ==
  [at |-> CASE gateway[a].state = "unused" -> "none"
            [] gateway[a].state \in {"issued", "paid"} -> "open"
            [] gateway[a].state = "aborted" -> "void"
            [] gateway[a].state = "captured" -> "taken",
   order |-> gateway[a].order,
   served |-> fulfilled[a]]

Purchase == INSTANCE PurchaseContract WITH
  Payments <- Authorities,
  Reopens <- TRUE,   \* StartReuse and StartPrepare, on a stale order
  money <- [a \in Authorities |-> Money(a)],
  paid <- [o \in Orders |-> order[o] = "PAID"]

(* The callbacks, their repetitions and the crashes between their phases   *)
(* keep the promises of PurchaseContract.                                  *)
KeepsPurchaseContract == Purchase!ContractSpec
=============================================================================
