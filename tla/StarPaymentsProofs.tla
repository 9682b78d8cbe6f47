-------------------------- MODULE StarPaymentsProofs --------------------------
(***************************************************************************)
(* Proofs about StarPayments, for any orders, charges, tasks and coupon    *)
(* limit.                                                                  *)
(***************************************************************************)
EXTENDS StarPayments, FiniteSetTheorems, TLAPS

(* What a task knows is so: a known charge has its payment row, and nobody *)
(* else has changed the subscription that it locked.                       *)
TaskOK(h) ==
  LET t == handler[h]
  IN /\ t.at \in {"loaded", "failed", "tracing"} => t.what \in Charges
     /\ t.at = "settling" => t.what \in Settlements
     /\ t.known => t.what \in payment
     /\ t.sub = NoRow => t.counted = {}
     /\ t.sub # NoRow => t.at = "settling" /\ t.counted = row[t.sub].paid
                        /\ t.counted # {}

(* Whatever is live was paid for, so that a row in use is not a new one.   *)
LiveIsPaid == \A s \in Rows : row[s].live => row[s].paid # {}

(* Two tasks never hold the same subscription.                             *)
HeldByOne ==
  \A h, k \in Handlers : handler[h].sub = handler[k].sub => h = k \/ handler[h].sub = NoRow

Held == {o \in Orders : redemption[o] \in {"RESERVED", "REDEEMED"}}

(* An order in creation has no redemption yet, but its place is taken.     *)
PlacesOK == Cardinality(Held \cup reserving) <= CouponLimit

IInv ==
  /\ TypeOK
  /\ DaysAreKept
  /\ PaidIsPaidFor
  /\ \A h \in Handlers : TaskOK(h)
  /\ HeldByOne
  /\ LiveIsPaid
  /\ PlacesOK

USE StarAssumption

-----------------------------------------------------------------------------
(* Types.                                                                  *)

LEMMA IdleType == Idle \in Handler
  BY DEF Idle, Task, Handler

LEMMA TaskType ==
  ASSUME NEW c \in Charges, NEW at \in {"loaded", "failed", "tracing"},
         NEW saw \in {"NONE", "CREATED", "PAID", "FAILED"}
  PROVE  Task(at, c, saw) \in Handler
  BY DEF Task, Handler, Settlements

(* A settlement begins with a live row that nobody holds, or with none.    *)
LEMMA PickCases ==
  ASSUME NEW h \in Handlers, NEW x \in Settlements, TypeOK, Pick(h, x)
  PROVE  \E s \in Rows \cup {NoRow}, counted \in SUBSET Settlements :
           /\ handler' = [handler EXCEPT ![h] = Settling(x, FALSE, s, counted)]
           /\ s = NoRow => counted = {}
           /\ s # NoRow => /\ row[s].live
                           /\ counted = row[s].paid
                           /\ \A k \in Handlers : handler[k].sub # s
<1>1. CASE \E s \in Rows : /\ row[s].live
                           /\ \A k \in Handlers : handler[k].sub # s
                           /\ Become(h, Settling(x, FALSE, s, row[s].paid))
  <2>1. \A s \in Rows : row[s].paid \in SUBSET Settlements
    BY DEF TypeOK, Row
  <2> QED BY <1>1, <2>1 DEF Become
<1>2. CASE Become(h, Settling(x, FALSE, NoRow, {}))
  BY <1>2 DEF Become
<1> QED BY <1>1, <1>2 DEF Pick

LEMMA SettlingType ==
  ASSUME NEW x \in Settlements, NEW known \in BOOLEAN, NEW s \in Rows \cup {NoRow},
         NEW counted \in SUBSET Settlements
  PROVE  Settling(x, known, s, counted) \in Handler
  BY DEF Settling, Handler

LEMMA ExtendedType ==
  ASSUME NEW t \in Handler, t.what \in Settlements
  PROVE  Extended(t) \in Row
<1>1. t.counted \in SUBSET Settlements
  BY DEF Handler
<1> QED BY <1>1 DEF Extended, Row

(* A row that expires only stops being live.                               *)
LEMMA ExpiredRow ==
  ASSUME TypeOK, NEW s \in Rows, RowExpires(s)
  PROVE  /\ row' = [row EXCEPT ![s] = [live |-> FALSE, paid |-> row[s].paid]]
         /\ row' \in [Rows -> Row]
<1>1. row \in [Rows -> Row] /\ row[s].paid \in SUBSET Settlements
  BY DEF TypeOK, Row
<1>2. [live |-> FALSE, paid |-> row[s].paid] \in Row
  BY <1>1 DEF Row
<1> QED BY <1>1, <1>2 DEF RowExpires

LEMMA TypeStep ==
  ASSUME IInv, [Next]_vars
  PROVE  TypeOK'
<1>1. ASSUME NEW o \in Orders, OrderStep(o)
      PROVE  TypeOK'
  BY <1>1 DEF IInv, TypeOK, OrderStep, Reserve, CreateOrder, CouponLapses, Redemptions
<1>2. ASSUME NEW c \in Charges, ChargeStep(c)
      PROVE  TypeOK'
  BY <1>2 DEF IInv, TypeOK, ChargeStep, Approve, Capture, Acknowledge
<1>3. ASSUME NEW h \in Handlers, HandlerStep(h)
      PROVE  TypeOK'
  <2> USE DEF IInv
  <2>0. handler[h] \in Handler /\ TaskOK(h)
    BY DEF TypeOK
  <2>1. ASSUME NEW c \in Charges, Deliver(h, c)
        PROVE  TypeOK'
    <3>1. Task("loaded", c, "NONE") \in Handler
      BY TaskType
    <3> QED BY <2>1, <3>1 DEF Deliver, Become, TypeOK
  <2>2. ASSUME NEW x \in Settlements, Pick(h, x),
               UNCHANGED <<order, attempt, redemption, reserving, couponOpen, charge, payment, row>>
        PROVE  TypeOK'
    <3>1. PICK s \in Rows \cup {NoRow}, counted \in SUBSET Settlements :
            handler' = [handler EXCEPT ![h] = Settling(x, FALSE, s, counted)]
      BY <2>2, PickCases
    <3>2. Settling(x, FALSE, s, counted) \in Handler
      BY SettlingType
    <3> QED BY <2>2, <3>1, <3>2 DEF TypeOK
  <2>3. ASSUME NEW g \in Grants \cup Upgrades, GrantBegin(h, g)
        PROVE  TypeOK'
    BY <2>2, <2>3 DEF GrantBegin, Settlements
  <2>4. ASSUME SettleBegin(h)
        PROVE  TypeOK'
    <3>1. handler[h].what \in Charges /\ handler[h].what \in Settlements
      BY <2>0, <2>4 DEF SettleBegin, TaskOK, Settlements
    <3>2. Settling(handler[h].what, TRUE, NoRow, {}) \in Handler
      BY <3>1, SettlingType
    <3>3. CASE Pick(h, handler[h].what)
      BY <2>2, <2>4, <3>1, <3>3 DEF SettleBegin
    <3>4. CASE Become(h, Settling(handler[h].what, TRUE, NoRow, {}))
      BY <2>4, <3>2, <3>4 DEF SettleBegin, Become, TypeOK
    <3> QED BY <2>4, <3>3, <3>4 DEF SettleBegin
  <2>5. ASSUME SettleCommit(h)
        PROVE  TypeOK'
    <3>1. handler[h].what \in Settlements /\ handler[h].sub \in Rows \cup {NoRow}
      BY <2>0, <2>5 DEF SettleCommit, TaskOK, Handler
    <3>2. payment' \subseteq Settlements
      BY <2>5, <3>1 DEF SettleCommit, TypeOK
    <3>3. row' \in [Rows -> Row]
      <4>1. Extended(handler[h]) \in Row
        BY <2>0, <3>1, ExtendedType
      <4>2. row' = row \/ \E s \in Rows : row' = [row EXCEPT ![s] = Extended(handler[h])]
        BY <2>5, <3>1 DEF SettleCommit
      <4> QED BY <4>1, <4>2 DEF TypeOK
    <3>4. handler' \in [Handlers -> Handler]
      BY <2>5, IdleType DEF SettleCommit, Become, TypeOK
    <3>5. /\ order' \in [Orders -> {"NONE", "CREATED", "PAID"}]
          /\ attempt' \in [Orders -> {"NONE", "CREATED", "PAID", "FAILED"}]
      BY <2>5 DEF SettleCommit, Settled, TypeOK
    <3>6. redemption' \in [Orders -> Redemptions]
      <4>1. \A status \in Redemptions : Redeemed(status) \in Redemptions
        BY DEF Redeemed, Redemptions
      <4> QED BY <2>5, <4>1 DEF SettleCommit, TypeOK
    <3> QED BY <2>5, <3>2, <3>3, <3>4, <3>5, <3>6 DEF SettleCommit, TypeOK
  <2>6. ASSUME SettleFails(h)
        PROVE  TypeOK'
    <3>1. handler[h].what \in Charges => Task("failed", handler[h].what, "NONE") \in Handler
      BY TaskType
    <3> QED BY <2>6, <3>1, IdleType DEF SettleFails, Become, TypeOK
  <2>7. ASSUME TraceBegin(h)
        PROVE  TypeOK'
    <3>1. handler[h].what \in Charges
      BY <2>0, <2>7 DEF TraceBegin, TaskOK
    <3>2. attempt[OrderOf[handler[h].what]] \in {"NONE", "CREATED", "PAID", "FAILED"}
      BY <3>1 DEF TypeOK
    <3>3. Task("tracing", handler[h].what, attempt[OrderOf[handler[h].what]]) \in Handler
      BY <3>1, <3>2, TaskType
    <3> QED BY <2>7, <3>3 DEF TraceBegin, Become, TypeOK
  <2>8. ASSUME TraceCommit(h) \/ TraceFails(h)
        PROVE  TypeOK'
    BY <2>8, IdleType DEF TraceCommit, TraceFails, Become, TypeOK
  <2> QED
    BY <1>3, <2>1, <2>3, <2>4, <2>5, <2>6, <2>7, <2>8 DEF HandlerStep
<1>4. ASSUME NEW s \in Rows, RowExpires(s)
      PROVE  TypeOK'
  BY <1>4, ExpiredRow DEF IInv, TypeOK, RowExpires
<1>5. CASE CouponCloses
  BY <1>5 DEF IInv, TypeOK, CouponCloses
<1>6. CASE Crash
  BY <1>6, IdleType DEF IInv, TypeOK, Crash
<1>7. CASE UNCHANGED vars
  BY <1>7 DEF IInv, TypeOK, vars
<1> QED BY <1>1, <1>2, <1>3, <1>4, <1>5, <1>6, <1>7 DEF Next

-----------------------------------------------------------------------------
(* Only the commit of a settlement changes payments, and what an expiry    *)
(* date counts.                                                            *)
LEMMA OthersKeepDays ==
  ASSUME TypeOK, [Next]_vars, \A h \in Handlers : ~SettleCommit(h)
  PROVE  /\ UNCHANGED payment
         /\ \A s \in Rows : row'[s].paid = row[s].paid
<1>1. ASSUME NEW s \in Rows, RowExpires(s)
      PROVE  UNCHANGED payment /\ \A u \in Rows : row'[u].paid = row[u].paid
  BY <1>1, ExpiredRow DEF RowExpires, TypeOK
<1>2. ASSUME ~\E s \in Rows : RowExpires(s)
      PROVE  UNCHANGED <<payment, row>>
  BY <1>2 DEF Next, vars, OrderStep, Reserve, CreateOrder, CouponLapses, ChargeStep, Approve,
     Capture, Acknowledge, HandlerStep, Deliver, GrantBegin, SettleBegin, SettleFails,
     TraceBegin, TraceCommit, TraceFails, CouponCloses, Crash
<1> QED BY <1>1, <1>2

(* A commit adds its settlement to one row, which counted the rest before. *)
LEMMA CommitAddsDays ==
  ASSUME IInv, NEW h \in Handlers, SettleCommit(h), ~handler[h].known
  PROVE  /\ handler[h].what \in Settlements \ payment
         /\ payment' = payment \cup {handler[h].what}
         /\ \E s \in Rows :
              /\ row'[s].paid = row[s].paid \cup {handler[h].what}
              /\ \A u \in Rows : u # s => row'[u] = row[u]
              /\ s = handler[h].sub \/ row[s] = NewRow
<1> DEFINE t == handler[h]
<1>1. t.what \in Settlements \ payment /\ payment' = payment \cup {t.what}
  BY DEF SettleCommit, IInv, TaskOK
<1>2. Extended(t).paid = t.counted \cup {t.what}
  BY DEF Extended
<1>3. row \in [Rows -> Row]
  BY DEF IInv, TypeOK
<1>4. CASE t.sub # NoRow
  <2>1. t.sub \in Rows
    BY <1>4 DEF IInv, TypeOK, Handler
  <2>2. t.counted = row[t.sub].paid
    BY <1>4 DEF IInv, TaskOK
  <2>3. row' = [row EXCEPT ![t.sub] = Extended(t)]
    BY <1>4 DEF SettleCommit
  <2> QED BY <1>1, <1>2, <1>3, <2>1, <2>2, <2>3
<1>5. CASE t.sub = NoRow
  <2>1. PICK s \in Rows : row[s] = NewRow /\ row' = [row EXCEPT ![s] = Extended(t)]
    BY <1>5 DEF SettleCommit
  <2>2. t.counted = {} /\ row[s].paid = {}
    BY <1>5, <2>1 DEF IInv, TaskOK, NewRow
  <2> QED BY <1>1, <1>2, <1>3, <2>1, <2>2
<1> QED BY <1>4, <1>5

LEMMA DaysStep ==
  ASSUME IInv, [Next]_vars
  PROVE  DaysAreKept'
<1>1. CASE \A h \in Handlers : ~SettleCommit(h)
  BY <1>1, OthersKeepDays DEF IInv, DaysAreKept
<1>2. ASSUME NEW h \in Handlers, SettleCommit(h), handler[h].known
      PROVE  DaysAreKept'
  BY <1>2 DEF IInv, DaysAreKept, SettleCommit
<1>3. ASSUME NEW h \in Handlers, SettleCommit(h), ~handler[h].known
      PROVE  DaysAreKept'
  <2> DEFINE x == handler[h].what
  <2>1. x \notin payment /\ payment' = payment \cup {x}
    BY <1>3, CommitAddsDays
  <2>2. PICK s \in Rows : /\ row'[s].paid = row[s].paid \cup {x}
                          /\ \A u \in Rows : u # s => row'[u] = row[u]
    BY <1>3, CommitAddsDays
  <2>3. payment = UNION {row[u].paid : u \in Rows}
    BY DEF IInv, DaysAreKept
  <2>4. \A u \in Rows : x \notin row[u].paid
    BY <2>1, <2>3
  <2>5. \A u, v \in Rows : u # v => row'[u].paid \cap row'[v].paid = {}
    BY <2>2, <2>4 DEF IInv, DaysAreKept
  <2>6. payment' = UNION {row'[u].paid : u \in Rows}
    <3>1. \A y \in payment' : \E u \in Rows : y \in row'[u].paid
      BY <2>1, <2>2, <2>3
    <3>2. \A u \in Rows : row'[u].paid \subseteq payment'
      BY <2>1, <2>2, <2>3
    <3> QED BY <3>1, <3>2
  <2> QED BY <2>5, <2>6 DEF DaysAreKept
<1> QED BY <1>1, <1>2, <1>3

LEMMA LiveStep ==
  ASSUME IInv, [Next]_vars
  PROVE  LiveIsPaid'
<1>1. ASSUME NEW s \in Rows, RowExpires(s)
      PROVE  LiveIsPaid'
  BY <1>1, ExpiredRow DEF IInv, TypeOK, LiveIsPaid
<1>2. ASSUME NEW h \in Handlers, SettleCommit(h)
      PROVE  LiveIsPaid'
  <2>1. Extended(handler[h]).paid # {}
    BY DEF Extended
  <2>2. row' = row \/ \E s \in Rows : row' = [row EXCEPT ![s] = Extended(handler[h])]
    BY <1>2 DEF SettleCommit, IInv, TypeOK, Handler
  <2> QED BY <2>1, <2>2 DEF IInv, TypeOK, LiveIsPaid
<1>3. ASSUME ~\E s \in Rows : RowExpires(s), ~\E h \in Handlers : SettleCommit(h)
      PROVE  UNCHANGED row
  BY <1>3 DEF Next, vars, OrderStep, Reserve, CreateOrder, CouponLapses, ChargeStep, Approve,
     Capture, Acknowledge, HandlerStep, Deliver, GrantBegin, SettleBegin, SettleFails,
     TraceBegin, TraceCommit, TraceFails, CouponCloses, Crash
<1> QED BY <1>1, <1>2, <1>3 DEF IInv, LiveIsPaid

-----------------------------------------------------------------------------
(* Of the orders, only a commit changes what is PAID, and it does so for   *)
(* the order of a charge that then has a payment row.                      *)
LEMMA PaidStep ==
  ASSUME IInv, [Next]_vars
  PROVE  PaidIsPaidFor'
<1>1. ASSUME NEW h \in Handlers, SettleCommit(h)
      PROVE  PaidIsPaidFor'
  <2> DEFINE x == handler[h].what
  <2>1. payment' = payment \cup {x}
    BY <1>1 DEF SettleCommit, IInv, TaskOK
  <2>2. CASE x \in Charges
    <3>1. order' = [order EXCEPT ![OrderOf[x]] = "PAID"]
      BY <1>1, <2>2 DEF SettleCommit, Settled
    <3>2. ASSUME NEW o \in Orders, o = OrderOf[x]
          PROVE  order'[o] = "PAID" /\ x \in Charges \cap payment'
      BY <2>1, <2>2, <3>1, <3>2 DEF IInv, TypeOK
    <3>3. ASSUME NEW o \in Orders, o # OrderOf[x]
          PROVE  /\ order'[o] = order[o]
                 /\ \A c \in Charges : OrderOf[c] = o => (c \in payment' <=> c \in payment)
      BY <2>1, <3>1, <3>3 DEF IInv, TypeOK
    <3> QED BY <3>2, <3>3 DEF PaidIsPaidFor, IInv
  <2>3. CASE x \notin Charges
    <3>1. order' = order
      BY <1>1, <2>3 DEF SettleCommit
    <3> QED BY <2>1, <2>3, <3>1 DEF PaidIsPaidFor, IInv
  <2> QED BY <2>2, <2>3
<1>2. ASSUME NEW o \in Orders, CreateOrder(o)
      PROVE  PaidIsPaidFor'
  <2>1. /\ order[o] = "NONE" /\ payment' = payment
        /\ order' = [order EXCEPT ![o] = "CREATED"]
    BY <1>2 DEF CreateOrder
  <2>2. \A p \in Orders : order'[p] = "PAID" <=> order[p] = "PAID"
    BY <2>1 DEF IInv, TypeOK
  <2> QED BY <2>1, <2>2 DEF IInv, PaidIsPaidFor
<1>3. ASSUME ~\E h \in Handlers : SettleCommit(h), ~\E o \in Orders : CreateOrder(o)
      PROVE  UNCHANGED <<order, payment>>
  BY <1>3 DEF Next, vars, OrderStep, Reserve, CouponLapses, ChargeStep, Approve,
     Capture, Acknowledge, HandlerStep, Deliver, GrantBegin, SettleBegin, SettleFails,
     TraceBegin, TraceCommit, TraceFails, CouponCloses, Crash, RowExpires
<1> QED BY <1>1, <1>2, <1>3 DEF IInv, PaidIsPaidFor

-----------------------------------------------------------------------------
(* What a step makes of a task: one that holds no subscription, or one     *)
(* that has just begun to settle, with a live row that nobody holds.       *)
Freed(h) ==
  \E at \in {"idle", "loaded", "failed", "tracing"}, x \in Settlements \cup {Nobody},
     saw \in {"NONE", "CREATED", "PAID", "FAILED"} :
    /\ at # "idle" => x \in Charges
    /\ handler' = [handler EXCEPT ![h] = Task(at, x, saw)]

Begun(h) ==
  \E x \in Settlements, known \in BOOLEAN, s \in Rows \cup {NoRow},
     counted \in SUBSET Settlements :
    /\ handler' = [handler EXCEPT ![h] = Settling(x, known, s, counted)]
    /\ known => x \in payment
    /\ s = NoRow => counted = {}
    /\ s # NoRow => /\ row[s].live
                    /\ counted = row[s].paid
                    /\ \A k \in Handlers : handler[k].sub # s

(* The rows that a step changes, tasks that keep their state do not hold.  *)
LEMMA HeldRowsStay ==
  ASSUME IInv, [Next]_vars, NEW k \in Handlers, handler[k].sub # NoRow, ~SettleCommit(k)
  PROVE  row'[handler[k].sub].paid = row[handler[k].sub].paid
<1>1. handler[k].sub \in Rows
  BY DEF IInv, TypeOK, Handler
<1>2. CASE \A h \in Handlers : ~SettleCommit(h)
  BY <1>1, <1>2, OthersKeepDays DEF IInv
<1>3. ASSUME NEW h \in Handlers, SettleCommit(h)
      PROVE  row'[handler[k].sub].paid = row[handler[k].sub].paid
  <2>1. CASE handler[h].known
    BY <1>3, <2>1 DEF SettleCommit
  <2>2. CASE ~handler[h].known
    <3>1. PICK s \in Rows : /\ \A u \in Rows : u # s => row'[u] = row[u]
                            /\ s = handler[h].sub \/ row[s] = NewRow
      BY <1>3, <2>2, CommitAddsDays
    <3>2. s # handler[k].sub
      <4>1. CASE s = handler[h].sub
        BY <1>3, <4>1 DEF IInv, HeldByOne
      <4>2. CASE row[s] = NewRow
        BY <4>2 DEF IInv, TaskOK, NewRow
      <4> QED BY <3>1, <4>1, <4>2
    <3> QED BY <1>1, <3>1, <3>2
  <2> QED BY <2>1, <2>2
<1> QED BY <1>2, <1>3

LEMMA PickBegins ==
  ASSUME NEW h \in Handlers, NEW x \in Settlements, TypeOK, Pick(h, x)
  PROVE  Begun(h)
<1>1. PICK s \in Rows \cup {NoRow}, counted \in SUBSET Settlements :
        /\ handler' = [handler EXCEPT ![h] = Settling(x, FALSE, s, counted)]
        /\ s = NoRow => counted = {}
        /\ s # NoRow => /\ row[s].live
                        /\ counted = row[s].paid
                        /\ \A k \in Handlers : handler[k].sub # s
  BY PickCases
<1> QED BY <1>1 DEF Begun

LEMMA HandlerMoves ==
  ASSUME IInv, NEW h \in Handlers, HandlerStep(h)
  PROVE  handler' = handler \/ Freed(h) \/ (Begun(h) /\ UNCHANGED <<row, payment>>)
<1> USE DEF IInv
<1>0. handler[h] \in Handler /\ TaskOK(h) /\ TypeOK
  BY DEF TypeOK
<1>1. Idle = Task("idle", Nobody, "NONE")
  BY DEF Idle
<1>2. ASSUME NEW c \in Charges, Deliver(h, c)
      PROVE  handler' = handler \/ Freed(h)
  BY <1>2 DEF Deliver, Become, Freed, Settlements
<1>3. ASSUME NEW g \in Grants \cup Upgrades, GrantBegin(h, g)
      PROVE  Begun(h) /\ UNCHANGED <<row, payment>>
  BY <1>0, <1>3, PickBegins DEF GrantBegin, Settlements
<1>4. ASSUME SettleBegin(h)
      PROVE  Begun(h) /\ UNCHANGED <<row, payment>>
  <2>1. handler[h].what \in Charges /\ handler[h].what \in Settlements
    BY <1>0, <1>4 DEF SettleBegin, TaskOK, Settlements
  <2>2. CASE Pick(h, handler[h].what)
    BY <1>0, <1>4, <2>1, <2>2, PickBegins DEF SettleBegin
  <2>3. CASE /\ Known(handler[h].what)
             /\ Become(h, Settling(handler[h].what, TRUE, NoRow, {}))
    BY <1>4, <2>1, <2>3 DEF SettleBegin, Become, Begun, Known
  <2> QED BY <1>4, <2>2, <2>3 DEF SettleBegin
<1>5. ASSUME SettleCommit(h)
      PROVE  Freed(h)
  BY <1>1, <1>5 DEF SettleCommit, Become, Freed
<1>6. ASSUME SettleFails(h)
      PROVE  Freed(h)
  BY <1>1, <1>6 DEF SettleFails, Become, Freed, Settlements
<1>7. ASSUME TraceBegin(h)
      PROVE  Freed(h)
  <2>1. handler[h].what \in Charges
    BY <1>0, <1>7 DEF TraceBegin, TaskOK
  <2>2. attempt[OrderOf[handler[h].what]] \in {"NONE", "CREATED", "PAID", "FAILED"}
    BY <1>0, <2>1 DEF TypeOK
  <2> QED BY <1>7, <2>1, <2>2 DEF TraceBegin, Become, Freed, Settlements
<1>8. ASSUME TraceCommit(h) \/ TraceFails(h)
      PROVE  Freed(h)
  BY <1>1, <1>8 DEF TraceCommit, TraceFails, Become, Freed
<1> QED BY <1>2, <1>3, <1>4, <1>5, <1>6, <1>7, <1>8 DEF HandlerStep

LEMMA TaskMoves ==
  ASSUME IInv, [Next]_vars
  PROVE  \/ handler' = handler
         \/ handler' = [k \in Handlers |-> Idle]
         \/ \E h \in Handlers : Freed(h) \/ (Begun(h) /\ UNCHANGED <<row, payment>>)
<1>1. CASE \E h \in Handlers : HandlerStep(h)
  BY <1>1, HandlerMoves
<1>2. CASE ~\E h \in Handlers : HandlerStep(h)
  BY <1>2 DEF Next, vars, OrderStep, Reserve, CreateOrder, CouponLapses, ChargeStep, Approve,
     Capture, Acknowledge, CouponCloses, Crash, RowExpires
<1> QED BY <1>1, <1>2

LEMMA PaymentsStay ==
  ASSUME IInv, [Next]_vars
  PROVE  payment \subseteq payment'
<1>1. ASSUME NEW h \in Handlers, SettleCommit(h)
      PROVE  payment \subseteq payment'
  BY <1>1 DEF SettleCommit
<1> QED BY <1>1, OthersKeepDays DEF IInv

LEMMA FreedOK ==
  ASSUME NEW h \in Handlers, NEW at \in {"idle", "loaded", "failed", "tracing"}, NEW x, NEW saw,
         at # "idle" => x \in Charges, handler'[h] = Task(at, x, saw)
  PROVE  TaskOK(h)'
  BY DEF TaskOK, Task

(* What a task knows stays so.                                             *)
LEMMA TaskStep ==
  ASSUME IInv, [Next]_vars
  PROVE  \A k \in Handlers : TaskOK(k)'
<1> USE DEF IInv
<1>0. handler \in [Handlers -> Handler]
  BY DEF TypeOK
<1>1. ASSUME NEW k \in Handlers, handler'[k] = handler[k], ~SettleCommit(k)
      PROVE  TaskOK(k)'
  <2>1. handler[k].sub # NoRow => row'[handler[k].sub].paid = row[handler[k].sub].paid
    BY <1>1, HeldRowsStay
  <2> QED BY <1>1, <2>1, PaymentsStay DEF TaskOK
<1>2. CASE handler' = handler
  <2>1. \A k \in Handlers : SettleCommit(k) => handler'[k].at = "idle" /\ handler[k].at = "settling"
    BY <1>0 DEF SettleCommit, Become, Idle, Task
  <2> QED BY <1>1, <1>2, <2>1
<1>3. CASE handler' = [k \in Handlers |-> Idle]
  BY <1>3, FreedOK DEF Idle
<1>4. ASSUME NEW h \in Handlers, handler' = [handler EXCEPT ![h] = handler'[h]],
             NEW k \in Handlers, k # h
      PROVE  TaskOK(k)'
  <2>1. handler'[k] = handler[k]
    BY <1>0, <1>4
  <2>2. ~SettleCommit(k)
    BY <1>0, <1>4, <2>1 DEF SettleCommit, Become, Idle, Task
  <2> QED BY <1>1, <2>1, <2>2
<1>5. ASSUME NEW h \in Handlers, Freed(h)
      PROVE  \A k \in Handlers : TaskOK(k)'
  <2>1. PICK at \in {"idle", "loaded", "failed", "tracing"}, x \in Settlements \cup {Nobody},
             saw \in {"NONE", "CREATED", "PAID", "FAILED"} :
          /\ at # "idle" => x \in Charges
          /\ handler' = [handler EXCEPT ![h] = Task(at, x, saw)]
    BY <1>5 DEF Freed
  <2>2. handler'[h] = Task(at, x, saw)
    BY <1>0, <2>1
  <2> QED BY <1>4, <2>1, <2>2, FreedOK
<1>6. ASSUME NEW h \in Handlers, Begun(h), UNCHANGED <<row, payment>>
      PROVE  \A k \in Handlers : TaskOK(k)'
  <2>1. PICK x \in Settlements, known \in BOOLEAN, s \in Rows \cup {NoRow},
             counted \in SUBSET Settlements :
          /\ handler' = [handler EXCEPT ![h] = Settling(x, known, s, counted)]
          /\ known => x \in payment
          /\ s = NoRow => counted = {}
          /\ s # NoRow => row[s].live /\ counted = row[s].paid
    BY <1>6 DEF Begun
  <2>2. handler'[h] = Settling(x, known, s, counted)
    BY <1>0, <2>1
  <2>3. TaskOK(h)'
    BY <1>6, <2>1, <2>2 DEF TaskOK, Settling, LiveIsPaid
  <2> QED BY <1>4, <2>1, <2>2, <2>3
<1> QED BY <1>2, <1>3, <1>5, <1>6, TaskMoves

(* Two tasks come to hold no row together.                                 *)
LEMMA HeldStep ==
  ASSUME IInv, [Next]_vars
  PROVE  HeldByOne'
<1> USE DEF IInv
<1>0. handler \in [Handlers -> Handler]
  BY DEF TypeOK
<1>1. CASE handler' = handler
  BY <1>1 DEF HeldByOne
<1>2. CASE handler' = [k \in Handlers |-> Idle]
  BY <1>2 DEF HeldByOne, Idle, Task
<1>3. ASSUME NEW h \in Handlers, NEW r, handler' = [handler EXCEPT ![h] = r],
             r.sub = NoRow \/ \A k \in Handlers : handler[k].sub # r.sub
      PROVE  HeldByOne'
  BY <1>0, <1>3 DEF HeldByOne
<1>4. ASSUME NEW h \in Handlers, Freed(h)
      PROVE  HeldByOne'
  <2>1. \A at, x, saw : Task(at, x, saw).sub = NoRow
    BY DEF Task
  <2>2. PICK at, x, saw : handler' = [handler EXCEPT ![h] = Task(at, x, saw)]
    BY <1>4 DEF Freed
  <2> QED BY <1>3, <2>1, <2>2
<1>5. ASSUME NEW h \in Handlers, Begun(h)
      PROVE  HeldByOne'
  <2>1. \A x, known, s, counted : Settling(x, known, s, counted).sub = s
    BY DEF Settling
  <2>2. PICK x \in Settlements, known \in BOOLEAN, s \in Rows \cup {NoRow},
             counted \in SUBSET Settlements :
          /\ handler' = [handler EXCEPT ![h] = Settling(x, known, s, counted)]
          /\ known => x \in payment
          /\ s = NoRow => counted = {}
          /\ s # NoRow => /\ row[s].live
                          /\ counted = row[s].paid
                          /\ \A k \in Handlers : handler[k].sub # s
    BY <1>5 DEF Begun
  <2>3. Settling(x, known, s, counted).sub = s
    BY <2>1
  <2> QED BY <1>3, <2>2, <2>3
<1> QED BY <1>1, <1>2, <1>4, <1>5, TaskMoves

-----------------------------------------------------------------------------
(* Places of the coupon.  Only a reservation takes a new one.              *)
LEMMA PlacesStep ==
  ASSUME IInv, [Next]_vars
  PROVE  PlacesOK'
<1> USE DEF IInv
<1>1. Held \cup reserving \subseteq Orders /\ Uses \subseteq Orders
  BY DEF TypeOK, Held, Uses
<1>2. /\ IsFiniteSet(Held \cup reserving) /\ IsFiniteSet(Held) /\ IsFiniteSet(Uses)
      /\ Cardinality(Held \cup reserving) \in Nat
      /\ Cardinality(Held) \in Nat /\ Cardinality(Uses) \in Nat
  BY <1>1, FS_Subset, FS_CardinalityType
<1>3. CASE (Held \cup reserving)' \subseteq Held \cup reserving
  <2>1. Cardinality((Held \cup reserving)') <= Cardinality(Held \cup reserving)
    BY <1>2, <1>3, FS_Subset
  <2>2. Cardinality((Held \cup reserving)') \in Nat
    BY <1>2, <1>3, FS_Subset, FS_CardinalityType
  <2> QED BY <1>2, <2>1, <2>2 DEF PlacesOK
<1>4. ASSUME NEW o \in Orders, Reserve(o)
      PROVE  PlacesOK'
  <2>1. (Held \cup reserving)' = Held \cup {o}
    BY <1>4 DEF Reserve, Held
  <2>2. Cardinality(Held) <= Cardinality(Uses)
    <3>1. Held \in SUBSET Uses
      BY DEF Held, Uses
    <3> QED BY <1>2, <3>1, FS_Subset
  <2>3. Cardinality(Uses) < CouponLimit
    BY <1>4 DEF Reserve
  <2> DEFINE before == Cardinality(Held)
  <2>4. Cardinality(Held \cup {o}) = IF o \in Held THEN before ELSE before + 1
    BY <1>2, FS_AddElement, Zenon
  <2>5. before \in Nat /\ before < CouponLimit
    <3>1. before <= Cardinality(Uses) /\ before \in Nat /\ Cardinality(Uses) \in Nat
      BY <1>2, <2>2
    <3> HIDE DEF before
    <3> QED BY <2>3, <3>1
  <2> HIDE DEF before
  <2>6. Cardinality(Held \cup {o}) <= CouponLimit
    BY <2>4, <2>5
  <2> QED BY <2>1, <2>6 DEF PlacesOK
<1>5. ASSUME NEW o \in Orders, CreateOrder(o) \/ CouponLapses(o)
      PROVE  (Held \cup reserving)' \subseteq Held \cup reserving
  BY <1>5 DEF CreateOrder, CouponLapses, Held, TypeOK
<1>6. ASSUME NEW h \in Handlers, SettleCommit(h)
      PROVE  (Held \cup reserving)' \subseteq Held \cup reserving
  <2>1. \A o \in Orders :
          redemption'[o] \in {"RESERVED", "REDEEMED"} => redemption[o] \in {"RESERVED", "REDEEMED"}
    <3>1. \A status : Redeemed(status) \in {"RESERVED", "REDEEMED"}
                         => status \in {"RESERVED", "REDEEMED"}
      BY DEF Redeemed
    <3>2. \/ redemption' = redemption
          \/ \E p \in Orders : redemption' = [redemption EXCEPT ![p] = Redeemed(redemption[p])]
      BY <1>6 DEF SettleCommit
    <3> QED BY <3>1, <3>2 DEF TypeOK
  <2> QED BY <1>6, <2>1 DEF SettleCommit, Held
<1>7. ASSUME ~\E o \in Orders : OrderStep(o), ~\E h \in Handlers : SettleCommit(h)
      PROVE  redemption' = redemption /\ reserving' \subseteq reserving
  BY <1>7 DEF Next, vars, ChargeStep, Approve, Capture, Acknowledge, HandlerStep, Deliver,
     GrantBegin, SettleBegin, SettleFails, TraceBegin, TraceCommit, TraceFails, CouponCloses,
     Crash, RowExpires
<1>8. CASE ~(\E o \in Orders : OrderStep(o)) /\ ~\E h \in Handlers : SettleCommit(h)
  BY <1>3, <1>7, <1>8 DEF Held
<1> QED BY <1>3, <1>4, <1>5, <1>6, <1>8 DEF OrderStep

-----------------------------------------------------------------------------
LEMMA InitIInv == Init => IInv
<1> SUFFICES ASSUME Init PROVE IInv
  OBVIOUS
<1>1. TypeOK
  <2>1. NewRow \in Row
    BY DEF NewRow, Row
  <2> QED BY <2>1, IdleType DEF Init, TypeOK, Redemptions
<1>2. DaysAreKept /\ PaidIsPaidFor /\ LiveIsPaid
  BY DEF Init, DaysAreKept, PaidIsPaidFor, LiveIsPaid, NewRow
<1>3. HeldByOne /\ \A h \in Handlers : TaskOK(h)
  BY DEF Init, HeldByOne, TaskOK, Idle, Task
<1>4. PlacesOK
  <2>1. Held \cup reserving = {}
    BY DEF Init, Held
  <2> QED BY <2>1, FS_EmptySet DEF PlacesOK
<1> QED BY <1>1, <1>2, <1>3, <1>4 DEF IInv

LEMMA StepIInv == IInv /\ [Next]_vars => IInv'
  BY TypeStep, DaysStep, LiveStep, PaidStep, TaskStep, HeldStep, PlacesStep DEF IInv

LEMMA PlacesBound == IInv => CouponWithinLimit
<1> SUFFICES ASSUME IInv PROVE CouponWithinLimit
  OBVIOUS
<1>1. Held \cup reserving \in SUBSET Orders
  BY DEF IInv, TypeOK, Held
<1>2. IsFiniteSet(Held \cup reserving) /\ Held \in SUBSET (Held \cup reserving)
  BY <1>1, FS_Subset
<1>3. /\ Cardinality(Held) <= Cardinality(Held \cup reserving)
      /\ Cardinality(Held) \in Nat /\ Cardinality(Held \cup reserving) \in Nat
  BY <1>2, FS_Subset, FS_CardinalityType
<1>4. Cardinality(Held) <= CouponLimit
  BY <1>3 DEF IInv, PlacesOK
<1> QED BY <1>4 DEF CouponWithinLimit, Held

(* For any number of orders, repeated charges, tasks and crashes, and      *)
(* however the three ways to extend the subscription interleave: the paid  *)
(* days are all in the expiry dates once, an order is PAID by a charge of  *)
(* its own, and the coupon's limit holds.                                  *)
THEOREM StarInvariant ==
  Spec => [](TypeOK /\ DaysAreKept /\ PaidIsPaidFor /\ CouponWithinLimit)
<1>1. IInv => TypeOK /\ DaysAreKept /\ PaidIsPaidFor /\ CouponWithinLimit
  BY PlacesBound DEF IInv
<1> QED BY InitIInv, StepIInv, <1>1, PTL DEF Spec

-----------------------------------------------------------------------------
(* StarPayments implements PurchaseContract.                               *)

Taken == {"delivered", "acknowledged"}

(* A task works on a charge whose update has arrived, and only such a      *)
(* charge has a payment row.                                               *)
ChargesOK ==
  /\ \A h \in Handlers : handler[h].what \in Charges => charge[handler[h].what] \in Taken
  /\ \A c \in Charges \cap payment : charge[c] \in Taken

(* A charge goes one way, and only while no settlement commits.            *)
Advances(c) ==
  /\ charge'[c] = charge[c] \/ payment' = payment
  /\ charge[c] = "none" => charge'[c] \in {"none", "approved"}
  /\ charge[c] = "approved" => charge'[c] \in {"approved", "captured"}
  /\ charge[c] = "captured" => charge'[c] \in {"captured", "delivered"}
  /\ charge[c] \in Taken => charge'[c] \in Taken

LEMMA ChargeMoves ==
  ASSUME TypeOK, [Next]_vars, NEW c \in Charges
  PROVE  Advances(c)
<1>1. CASE charge' = charge
  BY <1>1 DEF Advances, TypeOK, Taken
<1>2. ASSUME NEW d \in Charges, ChargeStep(d)
      PROVE  Advances(c)
  BY <1>2 DEF ChargeStep, Approve, Capture, Acknowledge, Advances, TypeOK, Taken
<1>3. ASSUME NEW h \in Handlers, NEW d \in Charges, Deliver(h, d)
      PROVE  Advances(c)
  BY <1>3 DEF Deliver, Advances, TypeOK, Taken
<1>4. ASSUME ~\E d \in Charges : ChargeStep(d),
             ~\E h \in Handlers, d \in Charges : Deliver(h, d)
      PROVE  charge' = charge
  BY <1>4 DEF Next, vars, OrderStep, Reserve, CreateOrder, CouponLapses, HandlerStep,
     GrantBegin, SettleBegin, SettleCommit, SettleFails, TraceBegin, TraceCommit, TraceFails,
     CouponCloses, Crash, RowExpires
<1> QED BY <1>1, <1>2, <1>3, <1>4

(* What a task is about changes only with an update's arrival, or to a     *)
(* settlement that is not a charge.                                        *)
LEMMA WhatMoves ==
  ASSUME IInv, [Next]_vars, NEW k \in Handlers, handler'[k].what \in Charges
  PROVE  handler'[k].what = handler[k].what \/ charge'[handler'[k].what] \in Taken
<1>0. TypeOK /\ handler \in [Handlers -> Handler] /\ Nobody \notin Charges
  BY DEF IInv, TypeOK, Settlements
<1>1. \A at, x, saw : Task(at, x, saw).what = x
  BY DEF Task
<1>2. \A x, known, s, counted : Settling(x, known, s, counted).what = x
  BY DEF Settling
<1>3. Idle.what = Nobody
  BY <1>1 DEF Idle
<1>4. ASSUME NEW h \in Handlers, NEW r, handler' = [handler EXCEPT ![h] = r],
             r.what \in Charges => r.what = handler[h].what \/ charge'[r.what] \in Taken
      PROVE  handler'[k].what = handler[k].what \/ charge'[handler'[k].what] \in Taken
  BY <1>0, <1>4
<1>5. ASSUME NEW h \in Handlers, NEW x \in Settlements, Pick(h, x),
             x \in Charges => x = handler[h].what
      PROVE  handler'[k].what = handler[k].what \/ charge'[handler'[k].what] \in Taken
  <2>1. PICK s \in Rows \cup {NoRow}, counted \in SUBSET Settlements :
          /\ handler' = [handler EXCEPT ![h] = Settling(x, FALSE, s, counted)]
          /\ s = NoRow => counted = {}
          /\ s # NoRow => /\ row[s].live
                          /\ counted = row[s].paid
                          /\ \A j \in Handlers : handler[j].sub # s
    BY <1>0, <1>5, PickCases
  <2>2. Settling(x, FALSE, s, counted).what = x
    BY <1>2
  <2> QED BY <1>4, <1>5, <2>1, <2>2
<1>6. ASSUME NEW h \in Handlers, HandlerStep(h)
      PROVE  handler'[k].what = handler[k].what \/ charge'[handler'[k].what] \in Taken
  <2>1. ASSUME NEW c \in Charges, Deliver(h, c)
        PROVE  handler'[k].what = handler[k].what \/ charge'[handler'[k].what] \in Taken
    <3>1. charge'[c] \in Taken
      BY <1>0, <2>1 DEF Deliver, TypeOK, Taken
    <3>2. handler' = handler \/ handler' = [handler EXCEPT ![h] = Task("loaded", c, "NONE")]
      BY <2>1 DEF Deliver, Become
    <3> QED BY <1>1, <1>4, <3>1, <3>2
  <2>2. ASSUME NEW g \in Grants \cup Upgrades, GrantBegin(h, g)
        PROVE  handler'[k].what = handler[k].what \/ charge'[handler'[k].what] \in Taken
    <3>1. g \in Settlements /\ g \notin Charges /\ Pick(h, g)
      BY <2>2 DEF GrantBegin, Settlements
    <3> QED BY <1>5, <3>1
  <2>3. ASSUME SettleBegin(h)
        PROVE  handler'[k].what = handler[k].what \/ charge'[handler'[k].what] \in Taken
    <3>1. handler[h].what \in Settlements
      BY <2>3 DEF SettleBegin, IInv, TaskOK, Settlements
    <3>2. CASE Pick(h, handler[h].what)
      BY <1>5, <3>1, <3>2
    <3>3. CASE handler' = [handler EXCEPT ![h] = Settling(handler[h].what, TRUE, NoRow, {})]
      <4>1. Settling(handler[h].what, TRUE, NoRow, {}).what = handler[h].what
        BY <1>2
      <4> QED BY <1>4, <3>3, <4>1
    <3> QED BY <2>3, <3>2, <3>3 DEF SettleBegin, Become
  <2>4. ASSUME SettleCommit(h) \/ SettleFails(h) \/ TraceBegin(h) \/ TraceCommit(h)
                 \/ TraceFails(h)
        PROVE  handler'[k].what = handler[k].what \/ charge'[handler'[k].what] \in Taken
    <3>1. \/ handler' = [handler EXCEPT ![h] = Idle]
          \/ \E at, saw : handler' = [handler EXCEPT ![h] = Task(at, handler[h].what, saw)]
      BY <2>4 DEF SettleCommit, SettleFails, TraceBegin, TraceCommit, TraceFails, Become
    <3> QED BY <1>0, <1>1, <1>3, <1>4, <3>1
  <2> QED BY <1>6, <2>1, <2>2, <2>3, <2>4 DEF HandlerStep
<1>7. CASE Crash
  BY <1>0, <1>3, <1>7 DEF Crash
<1>8. ASSUME ~Crash, ~\E h \in Handlers : HandlerStep(h)
      PROVE  handler' = handler
  BY <1>8 DEF Next, vars, OrderStep, Reserve, CreateOrder, CouponLapses, ChargeStep, Approve,
     Capture, Acknowledge, CouponCloses, RowExpires
<1> QED BY <1>6, <1>7, <1>8

LEMMA ChargesStep ==
  ASSUME IInv, ChargesOK, [Next]_vars
  PROVE  ChargesOK'
<1>1. \A c \in Charges : charge[c] \in Taken => charge'[c] \in Taken
  BY ChargeMoves DEF Advances, IInv
<1>2. ASSUME NEW k \in Handlers, handler'[k].what \in Charges
      PROVE  charge'[handler'[k].what] \in Taken
  BY <1>1, <1>2, WhatMoves DEF ChargesOK
<1>3. ASSUME NEW c \in Charges, c \in payment'
      PROVE  charge'[c] \in Taken
  <2>1. CASE c \in payment
    BY <1>1, <2>1 DEF ChargesOK
  <2>2. CASE c \notin payment
    <3>1. PICK h \in Handlers : SettleCommit(h)
      BY <1>3, <2>2, OthersKeepDays DEF IInv
    <3>2. c = handler[h].what
      BY <1>3, <2>2, <3>1 DEF SettleCommit
    <3> QED BY <1>1, <3>2 DEF ChargesOK
  <2> QED BY <2>1, <2>2
<1> QED BY <1>2, <1>3 DEF ChargesOK

(* A payment row stands for days on exactly one row.                       *)
LEMMA ServedOnOneRow ==
  ASSUME IInv, NEW c \in Charges
  PROVE  Cardinality({s \in Rows : c \in row[s].paid}) = IF c \in payment THEN 1 ELSE 0
<1>1. payment = UNION {row[s].paid : s \in Rows}
  BY DEF IInv, DaysAreKept
<1>2. CASE c \in payment
  <2>1. PICK s \in Rows : c \in row[s].paid
    BY <1>1, <1>2
  <2>2. {u \in Rows : c \in row[u].paid} = {s}
    BY <2>1 DEF IInv, DaysAreKept
  <2> QED BY <1>2, <2>2, FS_Singleton
<1>3. CASE c \notin payment
  <2>1. {u \in Rows : c \in row[u].paid} = {}
    BY <1>1, <1>3
  <2> QED BY <1>3, <2>1, FS_EmptySet
<1> QED BY <1>2, <1>3

(* The charge as the contract sees it, with its days counted.              *)
Sees(c, m) ==
  /\ m = [at |-> m.at, order |-> m.order, served |-> m.served]
  /\ m.at = IF charge[c] = "none" THEN "none" ELSE IF charge[c] = "approved" THEN "open" ELSE "taken"
  /\ m.order = IF charge[c] = "none" THEN Nobody ELSE OrderOf[c]
  /\ m.served = IF c \in payment THEN 1 ELSE 0
  /\ c \in payment => charge[c] \in Taken

PurchaseOK ==
  /\ \A c \in Charges : Sees(c, Money(c)) /\ Money(c) \in Purchase!Payment
  /\ \A o \in Orders : order[o] = "PAID" =>
       \E c \in Charges : Money(c).order = o /\ Money(c).served = 1

LEMMA PurchaseHolds == IInv /\ ChargesOK => PurchaseOK
<1> SUFFICES ASSUME IInv, ChargesOK PROVE PurchaseOK
  OBVIOUS
<1>1. ASSUME NEW c \in Charges
      PROVE  Sees(c, Money(c)) /\ Money(c) \in Purchase!Payment
  <2>1. Money(c).served = IF c \in payment THEN 1 ELSE 0
    BY ServedOnOneRow DEF Money
  <2>2. Sees(c, Money(c))
    BY <2>1 DEF Sees, Money, ChargesOK
  <2>3. Money(c).served \in {0, 1} /\ Money(c).order \in Orders \cup {Nobody}
    BY <2>1, <2>2 DEF Sees
  <2> QED BY <2>2, <2>3 DEF Money, Purchase!Payment
<1>2. ASSUME NEW o \in Orders, order[o] = "PAID"
      PROVE  \E c \in Charges : Money(c).order = o /\ Money(c).served = 1
  <2>1. PICK c \in Charges \cap payment : OrderOf[c] = o
    BY <1>2 DEF IInv, PaidIsPaidFor
  <2> QED BY <1>1, <2>1 DEF Sees, Taken
<1> QED BY <1>1, <1>2 DEF PurchaseOK

LEMMA MoneyMoves ==
  ASSUME IInv, PurchaseOK, PurchaseOK', [Next]_vars, NEW c \in Charges
  PROVE  Money(c)' = Money(c) \/ Purchase!PaymentStep(Money(c), Money(c)')
<1>1. Advances(c) /\ payment \subseteq payment'
  BY ChargeMoves, PaymentsStay DEF IInv
<1>2. charge[c] \in {"none", "approved", "captured"} \cup Taken
  BY DEF IInv, TypeOK, Taken
<1> DEFINE old == Money(c)
           new == Money(c)'
<1>3. /\ Sees(c, old)
      /\ new = [at |-> new.at, order |-> new.order, served |-> new.served]
      /\ new.at = IF charge'[c] = "none" THEN "none"
                  ELSE IF charge'[c] = "approved" THEN "open" ELSE "taken"
      /\ new.order = IF charge'[c] = "none" THEN Nobody ELSE OrderOf[c]
      /\ new.served = IF c \in payment' THEN 1 ELSE 0
      /\ c \in payment' => charge'[c] \in Taken
  BY DEF PurchaseOK, Sees
<1>4. c \in payment' => c \in payment \/ charge'[c] = charge[c]
  BY <1>1 DEF Advances
<1>5. SUFFICES new = old \/ Purchase!PaymentStep(old, new)
  OBVIOUS
<1> HIDE DEF old, new
<1>6. CASE charge[c] = "none"
  <2>1. old = [at |-> "none", order |-> Nobody, served |-> 0]
    BY <1>3, <1>6 DEF Sees, Taken
  <2>2. CASE charge'[c] = "none"
    <3>1. new = [at |-> "none", order |-> Nobody, served |-> 0]
      BY <1>3, <2>2 DEF Sees, Taken
    <3> QED BY <2>1, <3>1
  <2>3. CASE charge'[c] = "approved"
    <3>1. new = [at |-> "open", order |-> OrderOf[c], served |-> 0]
      BY <1>3, <2>3 DEF Sees, Taken
    <3> QED BY <2>1, <3>1 DEF Purchase!PaymentStep, Purchase!Open, Purchase!NoPayment
  <2> QED BY <1>1, <1>6, <2>2, <2>3 DEF Advances
<1>7. CASE charge[c] = "approved"
  <2>1. old = [at |-> "open", order |-> OrderOf[c], served |-> 0]
    BY <1>3, <1>7 DEF Sees, Taken
  <2>2. new.served = 0 /\ new.order = OrderOf[c] /\ new.at \in {"open", "taken"}
    BY <1>1, <1>3, <1>7 DEF Sees, Advances, Taken
  <2>3. new = [old EXCEPT !.at = new.at]
    BY <1>3, <2>1, <2>2 DEF Sees
  <2> QED BY <2>1, <2>2, <2>3 DEF Purchase!PaymentStep, Purchase!Close
<1>8. CASE charge[c] \in {"captured"} \cup Taken
  <2>1. old = [at |-> "taken", order |-> OrderOf[c], served |-> IF c \in payment THEN 1 ELSE 0]
    BY <1>3, <1>8 DEF Sees, Taken
  <2>2. new = [at |-> "taken", order |-> OrderOf[c], served |-> IF c \in payment' THEN 1 ELSE 0]
    BY <1>1, <1>3, <1>8 DEF Sees, Advances, Taken
  <2> QED BY <1>1, <2>1, <2>2 DEF Purchase!PaymentStep, Purchase!Serve
<1> QED BY <1>2, <1>6, <1>7, <1>8

(* An order stays PAID, and a new payment row marks the charge's order in  *)
(* the same commit.                                                        *)
LEMMA PaidStays ==
  ASSUME IInv, IInv', [Next]_vars
  PROVE  /\ \A o \in Orders : order[o] = "PAID" => order'[o] = "PAID"
         /\ \A c \in Charges \cap payment' : order'[OrderOf[c]] = "PAID"
  BY PaymentsStay DEF IInv, PaidIsPaidFor

(* A charge in Stars serves the order of its invoice, once, and only when  *)
(* Telegram has taken the stars: the settlement implements                 *)
(* PurchaseContract.                                                       *)
THEOREM StarsKeepContract == Spec => KeepsPurchaseContract
<1> DEFINE bar == [c \in Charges |-> Money(c)]
           barPaid == [o \in Orders |-> order[o] = "PAID"]
<1>1. Init => ChargesOK
  BY DEF Init, ChargesOK, Idle, Task, Settlements
<1>2. Init => Purchase!ContractInit
  <2> SUFFICES ASSUME Init PROVE Purchase!ContractInit
    OBVIOUS
  <2>1. ASSUME NEW c \in Charges PROVE Money(c) = Purchase!NoPayment
    <3>1. {s \in Rows : c \in row[s].paid} = {}
      BY DEF Init, NewRow
    <3> QED BY <3>1, FS_EmptySet DEF Init, Money, Purchase!NoPayment
  <2>2. \A o \in Orders : (order[o] = "PAID") = FALSE
    BY DEF Init
  <2> QED BY <2>1, <2>2 DEF Purchase!ContractInit
<1>3. ASSUME IInv, IInv', PurchaseOK, PurchaseOK', [Next]_vars, ~UNCHANGED <<bar, barPaid>>
      PROVE  Purchase!ContractNext
  <2>1. bar' \in [Charges -> Purchase!Payment] /\ barPaid' \in [Orders -> BOOLEAN]
    BY <1>3 DEF PurchaseOK
  <2>2. ASSUME NEW c \in Charges, bar'[c] # bar[c]
        PROVE  /\ Purchase!PaymentStep(bar[c], bar'[c])
               /\ bar'[c].served # bar[c].served => barPaid'[bar[c].order]
    <3>1. Purchase!PaymentStep(bar[c], bar'[c])
      BY <1>3, <2>2, MoneyMoves
    <3>2. ASSUME bar'[c].served # bar[c].served
          PROVE  bar[c].order = OrderOf[c] /\ order'[OrderOf[c]] = "PAID"
      <4>1. c \in payment'
        BY <1>3, <3>2, PaymentsStay DEF PurchaseOK, Sees
      <4>2. charge[c] # "none"
        BY <1>3, <4>1, ChargeMoves DEF PurchaseOK, Sees, Advances, Taken, IInv
      <4> QED BY <1>3, <4>1, <4>2, PaidStays DEF PurchaseOK, Sees
    <3> QED BY <3>1, <3>2
  <2>3. ASSUME NEW o \in Orders, barPaid'[o]
        PROVE  \E c \in Charges : bar'[c].order = o /\ bar'[c].served = 1
    BY <1>3, <2>3 DEF PurchaseOK
  <2>4. \A o \in Orders : barPaid[o] => barPaid'[o]
    BY <1>3, PaidStays
  <2> QED BY <1>3, <2>1, <2>2, <2>3, <2>4 DEF Purchase!ContractNext, Purchase!ServedFor
<1>4. IInv /\ IInv' /\ PurchaseOK /\ PurchaseOK' /\ [Next]_vars
        => [Purchase!ContractNext]_<<bar, barPaid>>
  BY <1>3
<1>5. IInv /\ ChargesOK /\ [Next]_vars => ChargesOK'
  BY ChargesStep
<1> QED BY InitIInv, StepIInv, PurchaseHolds, <1>1, <1>2, <1>4, <1>5, PTL
          DEF Spec, KeepsPurchaseContract, Purchase!ContractSpec
=============================================================================
