--------------------------- MODULE WinaPayProofs ---------------------------
(***************************************************************************)
(* Proofs about WinaPay, for any number of orders, gateway transactions    *)
(* and concurrent requests.                                                *)
(***************************************************************************)
EXTENDS WinaPay, TLAPS

USE WinaPayAssumption

(* A transaction the gateway never opened has no order, and only such.     *)
GatewayOK ==
  \A a \in Authorities : gateway[a].state = "unused" <=> gateway[a].order = NoOrder

(* A callback in flight is about a transaction the customer has paid, and  *)
(* about to settle it only when the gateway has captured it; it saw an     *)
(* order that was not paid.                                                *)
RequestOK(r) ==
  r.pc # "idle" =>
    /\ gateway[r.auth].state \in {"paid", "captured"}
    /\ r.pc = "settle" => gateway[r.auth].state = "captured"
    /\ r.seen.order # "PAID"

CallbacksOK == \A h \in Callbacks : RequestOK(callback[h])

IInv ==
  /\ TypeOK
  /\ GatewayOK
  /\ CallbacksOK
  /\ FulfilledOnce
  /\ PaidIsBacked
  /\ ProcessedIsSettled
  /\ NoCaptureStranded

-----------------------------------------------------------------------------
LEMMA BusyCallback ==
  ASSUME TypeOK, NEW h \in Callbacks, callback[h].pc # "idle"
  PROVE  /\ callback[h] \in Request /\ callback[h].auth \in Authorities
         /\ callback[h].seen \in Seen /\ callback[h].inserted \in BOOLEAN
  BY DEF TypeOK, Idle, Request

LEMMA BusyStart ==
  ASSUME TypeOK, NEW s \in Starts, start[s].pc = "loaded"
  PROVE  start[s] \in Visit /\ start[s].order \in Orders /\ start[s].seen \in Seen
  BY DEF TypeOK, Idle, Visit

LEMMA IdleIsIdle == Idle.pc = "idle" /\ Idle \notin Request /\ Idle \notin Visit
  BY DEF Idle, Request, Visit

(* The gateway's record of a callback's transaction names an order.        *)
LEMMA CallbackOrder ==
  ASSUME IInv, NEW h \in Callbacks, callback[h].pc # "idle"
  PROVE  gateway[callback[h].auth].order \in Orders
<1>1. callback[h].auth \in Authorities
  BY BusyCallback DEF IInv
<1>2. gateway[callback[h].auth].state # "unused"
  BY DEF IInv, CallbacksOK, RequestOK
<1>3. QED
  BY <1>1, <1>2 DEF IInv, GatewayOK, TypeOK

LEMMA GotoType ==
  ASSUME TypeOK, NEW h \in Callbacks, callback[h].pc # "idle",
         NEW pc \in {"verify", "settle", "reject", "error"}, Goto(h, pc)
  PROVE  /\ callback' \in [Callbacks -> {Idle} \cup Request]
         /\ callback'[h].pc = pc /\ callback'[h].auth = callback[h].auth
         /\ callback'[h].seen = callback[h].seen
         /\ \A g \in Callbacks : g # h => callback'[g] = callback[g]
<1>1. callback[h] \in Request
  BY BusyCallback
<1>2. [callback[h] EXCEPT !.pc = pc] \in Request
  BY <1>1 DEF Request
<1>3. callback' = [callback EXCEPT ![h] = [callback[h] EXCEPT !.pc = pc]]
  BY DEF Goto
<1>4. QED
  BY <1>1, <1>2, <1>3 DEF TypeOK, Request

LEMMA InsertType ==
  ASSUME TypeOK, NEW k \in Keys, NEW st \in EventStatus
  PROVE  /\ Insert(k, st) \in [Keys -> EventStatus]
         /\ \A m \in Keys : Insert(k, st)[m] = "PROCESSED" =>
              events[m] = "PROCESSED" \/ (m = k /\ st = "PROCESSED")
  BY DEF Insert, TypeOK

LEMMA KeyType ==
  ASSUME NEW a \in Authorities, NEW report \in Reports
  PROVE  /\ Key(a, report) \in Keys /\ Key(a, report).auth = a
         /\ [Key(a, report) EXCEPT !.mismatch = TRUE] \in Keys
  BY DEF Key, Keys

LEMMA FinishType ==
  ASSUME TypeOK, NEW h \in Callbacks, callback[h].pc # "idle",
         NEW st \in EventStatus, Finish(h, st)
  PROVE  /\ events' \in [Keys -> EventStatus]
         /\ callback' \in [Callbacks -> {Idle} \cup Request]
         /\ callback'[h] = Idle
         /\ \A g \in Callbacks : g # h => callback'[g] = callback[g]
         /\ \A m \in Keys : events'[m] = "PROCESSED" =>
              events[m] = "PROCESSED" \/ (m.auth = callback[h].auth /\ st = "PROCESSED")
<1>1. callback[h].auth \in Authorities
  BY BusyCallback
<1>2. Key(callback[h].auth, "OK") \in Keys /\ Key(callback[h].auth, "OK").auth = callback[h].auth
  BY <1>1, KeyType DEF Reports
<1>3. QED
  BY <1>2 DEF Finish, TypeOK

LEMMA WrittenType ==
  ASSUME NEW S, NEW row \in S, NEW new \in S, NEW old
  PROVE  Written(row, old, new) \in S /\ Written(row, old, new) \in {row, new}
  BY DEF Written

LEMMA SetAttempt ==
  ASSUME NEW r \in Attempt, NEW st \in AttemptStatus
  PROVE  [r EXCEPT !.status = st] \in Attempt
  BY DEF Attempt

-----------------------------------------------------------------------------
LEMMA InitIInv == Init => IInv
<1> SUFFICES ASSUME Init PROVE IInv
  OBVIOUS
<1>1. TypeOK
  BY DEF Init, TypeOK, OrderStatus, Attempt, AttemptStatus, CouponStatus, EventStatus,
         GatewayState
<1>2. GatewayOK /\ FulfilledOnce /\ PaidIsBacked /\ ProcessedIsSettled /\ NoCaptureStranded
  BY DEF Init, GatewayOK, FulfilledOnce, Recorded, PaidIsBacked, ProcessedIsSettled,
         NoCaptureStranded
<1>3. CallbacksOK
  BY IdleIsIdle DEF Init, CallbacksOK, RequestOK
<1>4. QED
  BY <1>1, <1>2, <1>3 DEF IInv

(* Steps of the start endpoint, the coupon and order creation: they leave  *)
(* the events, the payments and the callbacks alone, and pay no order.     *)
LEMMA QuietStep ==
  ASSUME IInv, TypeOK', UNCHANGED <<events, payments, fulfilled, gateway, callback, lost>>,
         \A o \in Orders : order'[o] = "PAID" => order[o] = "PAID"
  PROVE  IInv'
<1>1. GatewayOK' /\ CallbacksOK'
  BY DEF IInv, GatewayOK, CallbacksOK, RequestOK
<1>2. FulfilledOnce' /\ PaidIsBacked' /\ ProcessedIsSettled' /\ NoCaptureStranded'
  BY DEF IInv, FulfilledOnce, Recorded, PaidIsBacked, ProcessedIsSettled, NoCaptureStranded
<1>3. QED
  BY <1>1, <1>2 DEF IInv

(* The early answers of the callback: they write an event and nothing else. *)
LEMMA EventStep ==
  ASSUME IInv, events' \in [Keys -> EventStatus],
         UNCHANGED <<order, attempt, coupon, couponOpen, payments, fulfilled, gateway,
                     callback, start, lost>>,
         \A k \in Keys : events'[k] = "PROCESSED" =>
           events[k] = "PROCESSED" \/ (order[gateway[k.auth].order] = "PAID"
                                         /\ gateway[k.auth].order \in Orders)
  PROVE  IInv'
<1>1. TypeOK' /\ GatewayOK' /\ CallbacksOK'
  BY DEF IInv, TypeOK, GatewayOK, CallbacksOK, RequestOK
<1>2. FulfilledOnce' /\ PaidIsBacked' /\ NoCaptureStranded'
  BY DEF IInv, FulfilledOnce, Recorded, PaidIsBacked, NoCaptureStranded
<1>3. ProcessedIsSettled'
  BY DEF IInv, ProcessedIsSettled, PaidIsBacked
<1>4. QED
  BY <1>1, <1>2, <1>3 DEF IInv

(* The gateway's state of one transaction moves on: opened, paid, aborted, *)
(* captured.  Whoever captures it leaves a request that settles it, or     *)
(* records it as lost.                                                     *)
LEMMA GatewayStep ==
  ASSUME IInv, NEW a \in Authorities, NEW g \in [state : GatewayState, order : Orders],
         gateway' = [gateway EXCEPT ![a] = g],
         \/ gateway[a].state = "unused" /\ g.state = "issued"
         \/ g.order = gateway[a].order /\ g.state # "unused" /\ gateway[a].state # "captured"
         \/ g = gateway[a] /\ g.state # "unused",
         UNCHANGED <<events, payments, fulfilled>>,
         \A o \in Orders : order'[o] = "PAID" => order[o] = "PAID"
  PROVE  GatewayOK' /\ FulfilledOnce' /\ PaidIsBacked' /\ ProcessedIsSettled'
<1>1. \A b \in Authorities : gateway'[b] = IF b = a THEN g ELSE gateway[b]
  BY DEF IInv, TypeOK
<1>2. GatewayOK'
  BY <1>1 DEF IInv, GatewayOK
<1>3. FulfilledOnce'
  BY DEF IInv, FulfilledOnce, Recorded
<1>4. ASSUME NEW p \in payments PROVE gateway'[p.ref] = [state |-> "captured", order |-> p.order]
  <2>1. p.ref \in Authorities /\ gateway[p.ref] = [state |-> "captured", order |-> p.order]
    BY DEF IInv, PaidIsBacked, TypeOK, Payment
  <2>2. CASE p.ref = a
    <3>1. g = gateway[a]
      BY <2>1, <2>2
    <3>2. QED
      BY <3>1, <2>1, <2>2, <1>1
  <2>3. CASE p.ref # a
    BY <2>1, <2>3, <1>1
  <2>4. QED
    BY <2>2, <2>3
<1>5. PaidIsBacked'
  BY <1>4 DEF IInv, PaidIsBacked
<1>6. ProcessedIsSettled'
  <2> SUFFICES ASSUME NEW k \in Keys, events[k] = "PROCESSED"
               PROVE  \E p \in payments : p.order = gateway'[k.auth].order
    BY DEF ProcessedIsSettled
  <2>1. k.auth \in Authorities
    BY DEF Keys
  <2>2. PICK p \in payments : p.order = gateway[k.auth].order
    BY DEF IInv, ProcessedIsSettled
  <2>3. gateway[k.auth].order \in Orders
    BY <2>2 DEF IInv, TypeOK, Payment
  <2>4. gateway[k.auth].state # "unused"
    BY <2>1, <2>3 DEF IInv, GatewayOK
  <2>5. gateway'[k.auth].order = gateway[k.auth].order
    BY <1>1, <2>1, <2>4
  <2>6. QED
    BY <2>2, <2>5
<1>7. QED
  BY <1>2, <1>3, <1>5, <1>6

(* A step of one callback that keeps the others, the payments and the      *)
(* gateway: giving up, and every way of ending without a settlement.       *)
LEMMA CallbackLeaves ==
  ASSUME IInv, TypeOK', NEW h \in Callbacks,
         UNCHANGED <<order, payments, fulfilled, gateway>>,
         lost \subseteq lost',
         \A g \in Callbacks : g # h => callback'[g] = callback[g],
         RequestOK(callback[h])',
         \/ callback[h].pc # "settle"
         \/ callback[h].auth \in lost'
         \/ Recorded(callback[h].auth),
         \A k \in Keys : events'[k] = "PROCESSED" =>
           events[k] = "PROCESSED" \/ \E p \in payments : p.order = gateway[k.auth].order
  PROVE  IInv'
<1>1. GatewayOK' /\ FulfilledOnce' /\ PaidIsBacked' /\ ProcessedIsSettled'
  BY DEF IInv, GatewayOK, FulfilledOnce, Recorded, PaidIsBacked, ProcessedIsSettled
<1>2. CallbacksOK'
  BY DEF IInv, CallbacksOK, RequestOK
<1>3. NoCaptureStranded'
  <2> SUFFICES ASSUME NEW a \in Authorities, gateway[a].state = "captured",
                      ~Recorded(a), a \notin lost'
               PROVE  \E g \in Callbacks : callback'[g].pc = "settle" /\ callback'[g].auth = a
    BY DEF NoCaptureStranded, Recorded
  <2>1. PICK g \in Callbacks : callback[g].pc = "settle" /\ callback[g].auth = a
    BY DEF IInv, NoCaptureStranded
  <2>2. g # h
    BY <2>1
  <2>3. QED
    BY <2>1, <2>2
<1>4. QED
  BY <1>1, <1>2, <1>3 DEF IInv

-----------------------------------------------------------------------------
(* One lemma per group of actions.                                         *)

LEMMA StartKeeps ==
  ASSUME IInv, NEW s \in Starts, StartStep(s)
  PROVE  IInv'
<1>0. TypeOK
  BY DEF IInv
<1>1. ASSUME NEW o \in Orders, StartLoad(s, o) PROVE IInv'
  <2>1. [pc |-> "loaded", order |-> o, seen |-> See(o)] \in Visit
    BY <1>0 DEF TypeOK, Visit, See, Seen, Attempt
  <2>2. TypeOK'
    BY <1>0, <1>1, <2>1 DEF TypeOK, StartLoad, db
  <2>3. QED
    BY <1>1, <2>2, QuietStep DEF StartLoad, db
<1>2. ASSUME StartReuse(s) PROVE IInv'
  <2>1. start[s].order \in Orders
    BY <1>0, <1>2, BusyStart DEF StartReuse
  <2>2. order' \in [Orders -> OrderStatus]
    <3>1. Written(order[start[s].order], start[s].seen.order, "PENDING") \in OrderStatus
      BY <1>0, <2>1 DEF TypeOK, Written, OrderStatus
    <3>2. QED
      BY <1>0, <1>2, <2>1, <3>1 DEF TypeOK, StartReuse
  <2>3. \A o \in Orders : order'[o] = "PAID" => order[o] = "PAID"
    BY <1>0, <1>2, <2>1 DEF TypeOK, StartReuse, Written
  <2>4. TypeOK'
    BY <1>0, <1>2, <2>2 DEF TypeOK, StartReuse
  <2>5. QED
    BY <1>2, <2>3, <2>4, QuietStep DEF StartReuse
<1>3. ASSUME NEW a \in Authorities, StartPrepare(s, a) PROVE IInv'
  <2>1. start[s].order \in Orders
    BY <1>0, <1>3, BusyStart DEF StartPrepare
  <2>2. order' \in [Orders -> OrderStatus]
    BY <1>0, <1>3, <2>1 DEF TypeOK, StartPrepare, OrderStatus, Written
  <2>3. \A o \in Orders : order'[o] = "PAID" => order[o] = "PAID"
    BY <1>0, <1>3, <2>1 DEF TypeOK, StartPrepare, Written
  <2>4. [status |-> "PENDING", auth |-> a] \in Attempt
    BY DEF Attempt, AttemptStatus
  <2>5. /\ [state |-> "issued", order |-> start[s].order] \in [state : GatewayState, order : Orders]
        /\ [state |-> "issued", order |-> start[s].order]
             \in [state : GatewayState, order : Orders \cup {NoOrder}]
    BY <2>1 DEF GatewayState
  <2>6. TypeOK'
    BY <1>0, <1>3, <2>2, <2>4, <2>5 DEF TypeOK, StartPrepare
  <2>7. GatewayOK' /\ FulfilledOnce' /\ PaidIsBacked' /\ ProcessedIsSettled'
    <3>1. gateway' = [gateway EXCEPT ![a] = [state |-> "issued", order |-> start[s].order]]
      BY <1>3 DEF StartPrepare
    <3>2. gateway[a].state = "unused" /\ UNCHANGED <<events, payments, fulfilled>>
      BY <1>3 DEF StartPrepare
    <3>3. QED
      BY <2>3, <2>5, <3>1, <3>2, GatewayStep
  <2>8. \A b \in Authorities : gateway[b].state # "unused" => gateway'[b] = gateway[b]
    BY <1>0, <1>3 DEF TypeOK, StartPrepare
  <2>9. CallbacksOK'
    <3> SUFFICES ASSUME NEW h \in Callbacks PROVE RequestOK(callback[h])'
      BY DEF CallbacksOK
    <3>1. callback'[h] = callback[h] /\ RequestOK(callback[h])
      BY <1>3 DEF StartPrepare, IInv, CallbacksOK
    <3>2. CASE callback[h].pc = "idle"
      BY <3>1, <3>2 DEF RequestOK
    <3>3. CASE callback[h].pc # "idle"
      <4>1. callback[h].auth \in Authorities
        BY <1>0, <3>3, BusyCallback
      <4>2. QED
        BY <3>1, <3>3, <4>1, <2>8 DEF RequestOK
    <3>4. QED
      BY <3>2, <3>3
  <2>10. NoCaptureStranded'
    <3>1. \A b \in Authorities : gateway'[b].state = "captured" => gateway[b].state = "captured"
      BY <1>0, <1>3 DEF TypeOK, StartPrepare
    <3>2. UNCHANGED <<payments, lost, callback>>
      BY <1>3 DEF StartPrepare
    <3>3. QED
      BY <3>1, <3>2 DEF IInv, NoCaptureStranded, Recorded
  <2>11. QED
    BY <2>6, <2>7, <2>9, <2>10 DEF IInv
<1>4. ASSUME StartFail(s) PROVE IInv'
  <2>1. start[s].order \in Orders
    BY <1>0, <1>4, BusyStart DEF StartFail
  <2>2. attempt' \in [Orders -> Attempt]
    <3>1. attempt[start[s].order] \in Attempt
      BY <1>0, <2>1 DEF TypeOK
    <3>2. Written(attempt[start[s].order].status, start[s].seen.attempt, "FAILED")
            \in AttemptStatus
      BY <3>1 DEF Written, Attempt, AttemptStatus
    <3>3. attempt' = [attempt EXCEPT ![start[s].order] =
            [attempt[start[s].order] EXCEPT !.status =
               Written(attempt[start[s].order].status, start[s].seen.attempt, "FAILED")]]
      BY <1>4 DEF StartFail
    <3> HIDE DEF Written
    <3>4. QED
      BY <1>0, <3>1, <3>2, <3>3, SetAttempt DEF TypeOK
  <2>3. TypeOK'
    BY <1>0, <1>4, <2>2 DEF TypeOK, StartFail
  <2>4. QED
    BY <1>4, <2>3, QuietStep DEF StartFail
<1>5. QED
  BY <1>1, <1>2, <1>3, <1>4 DEF StartStep

LEMMA EnvironmentKeeps ==
  ASSUME IInv, Environment
  PROVE  IInv'
<1>0. TypeOK
  BY DEF IInv
<1>1. ASSUME NEW a \in Authorities, NEW st \in {"paid", "aborted"},
             gateway[a].state = "issued",
             gateway' = [gateway EXCEPT ![a].state = st],
             UNCHANGED <<db, couponOpen, callback, start, lost>>
      PROVE  IInv'
  <2>1. gateway[a].order \in Orders
    BY <1>0, <1>1 DEF IInv, GatewayOK, TypeOK
  <2> DEFINE g == [state |-> st, order |-> gateway[a].order]
  <2>2. gateway' = [gateway EXCEPT ![a] = g]
    <3>1. gateway[a] \in [state : GatewayState, order : Orders \cup {NoOrder}]
      BY <1>0 DEF TypeOK
    <3>2. [gateway[a] EXCEPT !.state = st] = g
      BY <3>1
    <3>3. gateway' = [gateway EXCEPT ![a] = [gateway[a] EXCEPT !.state = st]]
      BY <1>1
    <3> HIDE DEF g
    <3>4. QED
      BY <3>2, <3>3
  <2>3. /\ g \in [state : GatewayState, order : Orders]
        /\ g \in [state : GatewayState, order : Orders \cup {NoOrder}]
        /\ g.order = gateway[a].order /\ g.state # "unused" /\ g.state = st
    BY <2>1, <1>1 DEF GatewayState
  <2> HIDE DEF g
  <2>4. GatewayOK' /\ FulfilledOnce' /\ PaidIsBacked' /\ ProcessedIsSettled'
    BY <1>1, <2>2, <2>3, GatewayStep DEF db
  <2>5. TypeOK'
    BY <1>0, <1>1, <2>2, <2>3 DEF TypeOK, db
  <2>6. \A b \in Authorities : b # a => gateway'[b] = gateway[b]
    BY <1>0, <2>2 DEF TypeOK
  <2>7. gateway'[a].state # "captured"
    BY <1>0, <1>1, <2>2, <2>3 DEF TypeOK
  <2>8. CallbacksOK'
    <3> SUFFICES ASSUME NEW h \in Callbacks, callback[h].pc # "idle"
                 PROVE  RequestOK(callback[h])'
      BY <1>1 DEF CallbacksOK, RequestOK
    <3>1. callback[h].auth \in Authorities
      BY <1>0, BusyCallback
    <3>2. RequestOK(callback[h])
      BY DEF IInv, CallbacksOK
    <3>3. callback[h].auth # a
      BY <1>1, <3>2 DEF RequestOK
    <3>4. QED
      BY <1>1, <3>1, <3>2, <3>3, <2>6 DEF RequestOK
  <2>9. NoCaptureStranded'
    BY <1>1, <2>6, <2>7 DEF IInv, NoCaptureStranded, Recorded, db
  <2>10. QED
    BY <2>4, <2>5, <2>8, <2>9 DEF IInv
<1>2. ASSUME NEW o \in Orders, CreateOrder(o) PROVE IInv'
  <2>1. [status |-> "CREATED", auth |-> NoAuth] \in Attempt
    BY DEF Attempt, AttemptStatus
  <2>2. TypeOK'
    BY <1>0, <1>2, <2>1 DEF TypeOK, CreateOrder, OrderStatus, CouponStatus
  <2>3. \A p \in Orders : order'[p] = "PAID" => order[p] = "PAID"
    BY <1>0, <1>2 DEF TypeOK, CreateOrder
  <2>4. QED
    BY <1>2, <2>2, <2>3, QuietStep DEF CreateOrder
<1>3. ASSUME NEW o \in Orders, CouponExpires(o) PROVE IInv'
  <2>1. TypeOK'
    BY <1>0, <1>3 DEF TypeOK, CouponExpires, CouponStatus
  <2>2. QED
    BY <1>3, <2>1, QuietStep DEF CouponExpires
<1>4. ASSUME CouponCloses PROVE IInv'
  <2>1. TypeOK'
    BY <1>0, <1>4 DEF TypeOK, CouponCloses, db
  <2>2. QED
    BY <1>4, <2>1, QuietStep DEF CouponCloses, db
<1>5. QED
  BY <1>1, <1>2, <1>3, <1>4 DEF Environment, CustomerPays, CustomerAborts

LEMMA ArrivalKeeps ==
  ASSUME IInv, NEW h \in Callbacks, NEW a \in Authorities, CallbackArrives(h, a)
  PROVE  IInv'
<1>0. TypeOK
  BY DEF IInv
<1>1. ASSUME NEW report \in Reports, CallbackMismatch(h, a, report) PROVE IInv'
  <2> DEFINE k == [Key(a, report) EXCEPT !.mismatch = TRUE]
  <2>1. k \in Keys
    BY KeyType
  <2>2. events' = Insert(k, "FAILED")
    BY <1>1 DEF CallbackMismatch
  <2> HIDE DEF k
  <2>3. /\ events' \in [Keys -> EventStatus]
        /\ \A m \in Keys : events'[m] = "PROCESSED" => events[m] = "PROCESSED"
    BY <1>0, <2>1, <2>2, InsertType DEF EventStatus
  <2>4. QED
    BY <1>1, <2>3, EventStep DEF CallbackMismatch
<1>2. ASSUME NEW report \in Reports, CallbackRepeated(h, a, report) PROVE IInv'
  <2>1. Key(a, report) \in Keys /\ Key(a, report).auth = a
    BY KeyType
  <2>2. events' = [events EXCEPT ![Key(a, report)] = "PROCESSED"]
    BY <1>2 DEF CallbackRepeated
  <2>3. /\ events' \in [Keys -> EventStatus]
        /\ \A m \in Keys : events'[m] = "PROCESSED" => events[m] = "PROCESSED" \/ m.auth = a
    BY <1>0, <2>1, <2>2 DEF TypeOK, EventStatus
  <2>4. gateway[a].order \in Orders
    BY <1>2 DEF CallbackRepeated, Reported, IInv, GatewayOK, TypeOK
  <2>5. QED
    BY <1>2, <2>3, <2>4, EventStep DEF CallbackRepeated
<1>3. ASSUME CallbackIgnored(h, a) PROVE IInv'
  <2>1. Key(a, "NOK") \in Keys
    BY KeyType DEF Reports
  <2>2. events' = Insert(Key(a, "NOK"), "IGNORED")
    BY <1>3 DEF CallbackIgnored
  <2>3. /\ events' \in [Keys -> EventStatus]
        /\ \A m \in Keys : events'[m] = "PROCESSED" => events[m] = "PROCESSED"
    BY <1>0, <2>1, <2>2, InsertType DEF EventStatus
  <2>4. QED
    BY <1>3, <2>3, EventStep DEF CallbackIgnored
<1>4. ASSUME CallbackAlreadyPaid(h, a) PROVE IInv'
  <2>1. Key(a, "OK") \in Keys /\ Key(a, "OK").auth = a
    BY KeyType DEF Reports
  <2>2. events' = Insert(Key(a, "OK"), "PROCESSED")
    BY <1>4 DEF CallbackAlreadyPaid
  <2>3. /\ events' \in [Keys -> EventStatus]
        /\ \A m \in Keys : events'[m] = "PROCESSED" => events[m] = "PROCESSED" \/ m.auth = a
    BY <1>0, <2>1, <2>2, InsertType DEF EventStatus
  <2>4. gateway[a].order \in Orders
    BY <1>4 DEF CallbackAlreadyPaid, Reported, IInv, GatewayOK, TypeOK
  <2>5. QED
    BY <1>4, <2>3, <2>4, EventStep DEF CallbackAlreadyPaid
<1>5. ASSUME CallbackLoad(h, a) PROVE IInv'
  <2>1. Key(a, "OK") \in Keys
    BY KeyType DEF Reports
  <2>2. events' = Insert(Key(a, "OK"), "RECEIVED")
    BY <1>5 DEF CallbackLoad
  <2>3. /\ events' \in [Keys -> EventStatus]
        /\ \A m \in Keys : events'[m] = "PROCESSED" => events[m] = "PROCESSED"
    BY <1>0, <2>1, <2>2, InsertType DEF EventStatus
  <2>4. gateway[a].order \in Orders
    BY <1>5 DEF CallbackLoad, Reported, IInv, GatewayOK, TypeOK
  <2> DEFINE r == [pc |-> "verify", auth |-> a, seen |-> See(gateway[a].order),
                   inserted |-> events[Key(a, "OK")] = "NONE"]
  <2>5. r \in Request
    <3>1. See(gateway[a].order) \in Seen
      BY <1>0, <2>4 DEF TypeOK, See, Seen, Attempt
    <3>2. (events[Key(a, "OK")] = "NONE") \in BOOLEAN
      OBVIOUS
    <3>3. QED
      BY <3>1, <3>2 DEF Request
  <2>6. r.pc = "verify" /\ RequestOK(r)
    BY <1>5 DEF RequestOK, CallbackLoad, Reported, See
  <2>7. callback' = [callback EXCEPT ![h] = r]
    BY <1>5 DEF CallbackLoad
  <2> HIDE DEF r
  <2>8. /\ callback'[h] = r
        /\ \A g \in Callbacks : g # h => callback'[g] = callback[g]
    BY <1>0, <2>7 DEF TypeOK
  <2>9. TypeOK'
    BY <1>0, <1>5, <2>3, <2>5, <2>7 DEF TypeOK, CallbackLoad
  <2>10. RequestOK(callback[h])'
    BY <1>5, <2>6, <2>8 DEF RequestOK, CallbackLoad
  <2>11. callback[h].pc # "settle"
    BY <1>5, IdleIsIdle DEF CallbackLoad
  <2>12. \A m \in Keys : events'[m] = "PROCESSED" =>
           events[m] = "PROCESSED" \/ \E p \in payments : p.order = gateway[m.auth].order
    BY <2>3
  <2>13. lost \subseteq lost' /\ UNCHANGED <<order, payments, fulfilled, gateway>>
    BY <1>5 DEF CallbackLoad
  <2>14. QED
    BY <2>8, <2>9, <2>10, <2>11, <2>12, <2>13, CallbackLeaves
<1>6. QED
  BY <1>1, <1>2, <1>3, <1>4, <1>5 DEF CallbackArrives

-----------------------------------------------------------------------------
(* The request that goes on to the next phase, with the gateway as it was. *)
LEMMA VerifyFailsKeeps ==
  ASSUME IInv, NEW h \in Callbacks, VerifyFails(h)
  PROVE  IInv'
<1>0. TypeOK /\ callback[h].pc = "verify"
  BY DEF IInv, VerifyFails
<1> PICK pc \in {"reject", "error"} : Goto(h, pc)
  BY DEF VerifyFails
<1>1. /\ callback' \in [Callbacks -> {Idle} \cup Request]
      /\ callback'[h].pc = pc /\ callback'[h].auth = callback[h].auth
      /\ callback'[h].seen = callback[h].seen
      /\ \A g \in Callbacks : g # h => callback'[g] = callback[g]
  BY <1>0, GotoType
<1>2. UNCHANGED <<db, couponOpen, gateway, start, lost>>
  BY DEF VerifyFails
<1>3. TypeOK'
  BY <1>0, <1>1, <1>2 DEF TypeOK, db
<1>4. RequestOK(callback[h])'
  BY <1>0, <1>1, <1>2 DEF IInv, CallbacksOK, RequestOK
<1>5. QED
  BY <1>0, <1>1, <1>2, <1>3, <1>4, CallbackLeaves DEF db

(* The gateway captures the money of callback h, which then settles it, or *)
(* has its answer lost.                                                    *)
LEMMA CaptureKeeps ==
  ASSUME IInv, NEW h \in Callbacks, callback[h].pc = "verify",
         NEW pc \in {"settle", "reject", "error"}, Goto(h, pc),
         gateway[callback[h].auth].state \in {"paid", "captured"},
         gateway' = [gateway EXCEPT ![callback[h].auth].state = "captured"],
         lost' = IF pc = "settle" THEN lost ELSE lost \cup {callback[h].auth},
         UNCHANGED <<db, couponOpen, start>>
  PROVE  IInv'
<1> DEFINE a == callback[h].auth
           g == [state |-> "captured", order |-> gateway[a].order]
<1>0. TypeOK /\ a \in Authorities
  BY BusyCallback DEF IInv
<1>1. gateway[a].order \in Orders
  BY CallbackOrder
<1>2. gateway' = [gateway EXCEPT ![a] = g]
  <2>1. gateway[a] \in [state : GatewayState, order : Orders \cup {NoOrder}]
    BY <1>0 DEF TypeOK
  <2>2. [gateway[a] EXCEPT !.state = "captured"] = g
    BY <2>1
  <2>3. gateway' = [gateway EXCEPT ![a] = [gateway[a] EXCEPT !.state = "captured"]]
    OBVIOUS
  <2> HIDE DEF g, a
  <2>4. QED
    BY <2>2, <2>3
<1>3. /\ g \in [state : GatewayState, order : Orders]
      /\ g \in [state : GatewayState, order : Orders \cup {NoOrder}]
      /\ g.order = gateway[a].order /\ g.state = "captured" /\ g.state # "unused"
  BY <1>1 DEF GatewayState
<1>4. gateway[a].state # "captured" \/ g = gateway[a]
  <2>1. gateway[a] \in [state : GatewayState, order : Orders \cup {NoOrder}]
    BY <1>0 DEF TypeOK
  <2>2. QED
    BY <2>1
<1>5. /\ callback' \in [Callbacks -> {Idle} \cup Request]
      /\ callback'[h].pc = pc /\ callback'[h].auth = a
      /\ callback'[h].seen = callback[h].seen
      /\ \A f \in Callbacks : f # h => callback'[f] = callback[f]
  BY <1>0, GotoType
<1>6. lost' \subseteq Authorities /\ lost \subseteq lost' /\ (pc # "settle" => a \in lost')
  BY <1>0 DEF TypeOK
<1>7. gateway[a].state \in {"paid", "captured"}
  OBVIOUS
<1> HIDE DEF a, g
<1>8. GatewayOK' /\ FulfilledOnce' /\ PaidIsBacked' /\ ProcessedIsSettled'
  BY <1>0, <1>2, <1>3, <1>4, GatewayStep DEF db
<1>9. TypeOK'
  <2>1. gateway' \in [Authorities -> [state : GatewayState, order : Orders \cup {NoOrder}]]
    BY <1>0, <1>2, <1>3 DEF TypeOK
  <2>2. QED
    BY <1>0, <1>5, <1>6, <2>1 DEF TypeOK, db
<1>10. \A b \in Authorities : gateway'[b] = IF b = a THEN g ELSE gateway[b]
  BY <1>0, <1>2 DEF TypeOK
<1>11. CallbacksOK'
  <2> SUFFICES ASSUME NEW f \in Callbacks, callback'[f].pc # "idle"
               PROVE  RequestOK(callback[f])'
    BY DEF CallbacksOK, RequestOK
  <2>1. RequestOK(callback[f]) /\ RequestOK(callback[h])
    BY DEF IInv, CallbacksOK
  <2>2. CASE f = h
    BY <1>0, <1>3, <1>5, <1>10, <2>1, <2>2 DEF RequestOK
  <2>3. CASE f # h
    <3>1. callback'[f] = callback[f]
      BY <1>5, <2>3
    <3>2. callback[f].auth \in Authorities
      BY <1>0, <3>1, BusyCallback
    <3>3. QED
      BY <1>3, <1>10, <2>1, <3>1, <3>2 DEF RequestOK
  <2>4. QED
    BY <2>2, <2>3
<1>12. NoCaptureStranded'
  <2> SUFFICES ASSUME NEW b \in Authorities, gateway'[b].state = "captured",
                      ~Recorded(b), b \notin lost'
               PROVE  \E f \in Callbacks : callback'[f].pc = "settle" /\ callback'[f].auth = b
    BY DEF NoCaptureStranded, Recorded, db
  <2>1. CASE b = a
    BY <1>5, <1>6, <2>1
  <2>2. CASE b # a
    <3>1. gateway[b].state = "captured"
      BY <1>10, <2>2
    <3>2. PICK f \in Callbacks : callback[f].pc = "settle" /\ callback[f].auth = b
      BY <1>6, <3>1 DEF IInv, NoCaptureStranded
    <3>3. QED
      BY <1>5, <3>2
  <2>3. QED
    BY <2>1, <2>2
<1>13. QED
  BY <1>8, <1>9, <1>11, <1>12 DEF IInv

-----------------------------------------------------------------------------
(* The ends of a callback.                                                 *)

(* The attempt's status as the flush leaves it is a status.                *)
LEMMA AttemptWritten ==
  ASSUME TypeOK, NEW o \in Orders, NEW st \in AttemptStatus,
         attempt' = [attempt EXCEPT ![o].status = st]
  PROVE  attempt' \in [Orders -> Attempt]
<1>1. attempt[o] \in Attempt
  BY DEF TypeOK
<1>2. [attempt[o] EXCEPT !.status = st] \in Attempt
  BY <1>1, SetAttempt
<1>3. attempt' = [attempt EXCEPT ![o] = [attempt[o] EXCEPT !.status = st]]
  OBVIOUS
<1>4. QED
  BY <1>2, <1>3 DEF TypeOK

LEMMA StatusType ==
  ASSUME TypeOK, NEW o \in Orders, NEW old, NEW new \in AttemptStatus
  PROVE  Written(attempt[o].status, old, new) \in AttemptStatus
  BY DEF TypeOK, Attempt, Written

LEMMA RejectKeeps ==
  ASSUME IInv, NEW h \in Callbacks, CallbackReject(h)
  PROVE  IInv'
<1> DEFINE o == gateway[callback[h].auth].order
           st == IF callback[h].seen.order = "PAID" THEN attempt[o].status
                 ELSE Written(attempt[o].status, callback[h].seen.attempt, "FAILED")
<1>0. TypeOK /\ callback[h].pc = "reject" /\ Finish(h, "FAILED") /\ o \in Orders
  BY CallbackOrder DEF IInv, CallbackReject, FinishRejected
<1>1. /\ events' \in [Keys -> EventStatus]
      /\ callback' \in [Callbacks -> {Idle} \cup Request]
      /\ callback'[h] = Idle
      /\ \A g \in Callbacks : g # h => callback'[g] = callback[g]
      /\ \A m \in Keys : events'[m] = "PROCESSED" => events[m] = "PROCESSED"
  BY <1>0, FinishType DEF EventStatus
<1>2. attempt' \in [Orders -> Attempt]
  <2>1. st \in AttemptStatus
    BY <1>0, StatusType DEF TypeOK, Attempt, AttemptStatus
  <2>2. attempt' = [attempt EXCEPT ![o].status = st]
    BY DEF CallbackReject
  <2> HIDE DEF o, st
  <2>3. QED
    BY <1>0, <2>1, <2>2, AttemptWritten
<1>3. coupon' \in [Orders -> CouponStatus]
  <2>1. coupon[o] \in CouponStatus /\ Released(coupon[o]) \in CouponStatus
    BY <1>0 DEF TypeOK, Released, CouponStatus
  <2>2. coupon' = [coupon EXCEPT ![o] = IF callback[h].seen.order = "PAID" THEN coupon[o]
                                        ELSE Released(coupon[o])]
    BY DEF CallbackReject
  <2> HIDE DEF o
  <2>3. QED
    BY <1>0, <2>1, <2>2 DEF TypeOK
<1>4. UNCHANGED <<order, payments, fulfilled, couponOpen, gateway, start, lost>>
  BY DEF CallbackReject
<1> HIDE DEF o, st
<1>5. TypeOK'
  BY <1>0, <1>1, <1>2, <1>3, <1>4 DEF TypeOK
<1>6. RequestOK(callback[h])'
  BY <1>1, IdleIsIdle DEF RequestOK
<1>7. QED
  BY <1>0, <1>1, <1>4, <1>5, <1>6, CallbackLeaves

LEMMA ErrorKeeps ==
  ASSUME IInv, NEW h \in Callbacks, CallbackError(h)
  PROVE  IInv'
<1> DEFINE o == gateway[callback[h].auth].order
           st == Written(attempt[o].status, callback[h].seen.attempt, "FAILED")
<1>0. TypeOK /\ callback[h].pc = "error" /\ Finish(h, "FAILED") /\ o \in Orders
  BY CallbackOrder DEF IInv, CallbackError
<1>1. /\ events' \in [Keys -> EventStatus]
      /\ callback' \in [Callbacks -> {Idle} \cup Request]
      /\ callback'[h] = Idle
      /\ \A g \in Callbacks : g # h => callback'[g] = callback[g]
      /\ \A m \in Keys : events'[m] = "PROCESSED" => events[m] = "PROCESSED"
  BY <1>0, FinishType DEF EventStatus
<1>2. attempt' \in [Orders -> Attempt]
  <2>1. st \in AttemptStatus
    BY <1>0, StatusType DEF AttemptStatus
  <2>2. attempt' = [attempt EXCEPT ![o].status = st]
    BY DEF CallbackError
  <2> HIDE DEF o, st
  <2>3. QED
    BY <1>0, <2>1, <2>2, AttemptWritten
<1>3. UNCHANGED <<order, coupon, payments, fulfilled, couponOpen, gateway, start, lost>>
  BY DEF CallbackError
<1> HIDE DEF o, st
<1>4. TypeOK'
  BY <1>0, <1>1, <1>2, <1>3 DEF TypeOK
<1>5. RequestOK(callback[h])'
  BY <1>1, IdleIsIdle DEF RequestOK
<1>6. QED
  BY <1>0, <1>1, <1>3, <1>4, <1>5, CallbackLeaves

LEMMA CrashKeeps ==
  ASSUME IInv, NEW h \in Callbacks, CallbackCrash(h)
  PROVE  IInv'
<1>0. TypeOK /\ callback[h] # Idle /\ callback' = [callback EXCEPT ![h] = Idle]
  BY DEF IInv, CallbackCrash
<1>1. callback[h].pc # "idle" /\ callback[h].auth \in Authorities
  BY <1>0 DEF TypeOK, Request
<1>2. /\ callback' \in [Callbacks -> {Idle} \cup Request]
      /\ callback'[h] = Idle
      /\ \A g \in Callbacks : g # h => callback'[g] = callback[g]
  BY <1>0 DEF TypeOK
<1>3. /\ lost' = IF callback[h].pc = "settle" THEN lost \cup {callback[h].auth} ELSE lost
      /\ UNCHANGED <<db, couponOpen, gateway, start>>
  BY DEF CallbackCrash
<1>4. TypeOK'
  BY <1>0, <1>1, <1>2, <1>3 DEF TypeOK, db
<1>5. RequestOK(callback[h])'
  BY <1>2, IdleIsIdle DEF RequestOK
<1>6. QED
  BY <1>2, <1>3, <1>4, <1>5, CallbackLeaves DEF db

(* A handler that raises leaves what a crash at that point leaves.         *)
LEMMA AbortKeeps ==
  ASSUME IInv, NEW h \in Callbacks, CallbackAborts(h)
  PROVE  IInv'
<1>1. CallbackCrash(h)
  BY IdleIsIdle DEF CallbackAborts, CallbackCrash
<1>2. QED
  BY <1>1, CrashKeeps

(* What phase B does to the order and the attempt.                         *)
LEMMA PaidByType ==
  ASSUME IInv, NEW h \in Callbacks, callback[h].pc = "settle",
         NEW o \in Orders, PaidBy(h, o)
  PROVE  /\ order' \in [Orders -> OrderStatus] /\ attempt' \in [Orders -> Attempt]
         /\ \A p \in Orders : order'[p] = "PAID" => order[p] = "PAID" \/ p = o
<1>0. TypeOK
  BY DEF IInv
<1>1. Written(order[o], callback[h].seen.order, "PAID") \in OrderStatus
  BY <1>0 DEF TypeOK, Written, OrderStatus
<1>2. Written(attempt[o].status, callback[h].seen.attempt, "PAID") \in AttemptStatus
  BY <1>0, StatusType DEF AttemptStatus
<1>3. attempt' \in [Orders -> Attempt]
  BY <1>0, <1>2, AttemptWritten DEF PaidBy
<1>4. QED
  BY <1>0, <1>1, <1>3 DEF PaidBy, TypeOK

LEMMA SettleAgainKeeps ==
  ASSUME IInv, NEW h \in Callbacks, CallbackSettleAgain(h)
  PROVE  IInv'
<1> DEFINE a == callback[h].auth
           o == gateway[a].order
<1>0. /\ TypeOK /\ callback[h].pc = "settle" /\ Finish(h, "PROCESSED") /\ o \in Orders
      /\ PaidBy(h, o) /\ Recorded(a)
  BY CallbackOrder DEF IInv, CallbackSettleAgain, RefFree
<1>1. /\ events' \in [Keys -> EventStatus]
      /\ callback' \in [Callbacks -> {Idle} \cup Request]
      /\ callback'[h] = Idle
      /\ \A g \in Callbacks : g # h => callback'[g] = callback[g]
      /\ \A m \in Keys : events'[m] = "PROCESSED" => events[m] = "PROCESSED" \/ m.auth = a
  BY <1>0, FinishType DEF EventStatus
<1>2. UNCHANGED <<coupon, payments, fulfilled, couponOpen, gateway, start, lost>>
  BY DEF CallbackSettleAgain
<1>3. PICK p \in payments : p.ref = a
  BY <1>0 DEF Recorded
<1>4. p.order = o
  <2>1. gateway[p.ref] = [state |-> "captured", order |-> p.order]
    BY DEF IInv, PaidIsBacked
  <2>2. QED
    BY <1>3, <2>1
<1> HIDE DEF a, o
<1>5. /\ order' \in [Orders -> OrderStatus] /\ attempt' \in [Orders -> Attempt]
      /\ \A q \in Orders : order'[q] = "PAID" => order[q] = "PAID" \/ q = o
  BY <1>0, PaidByType
<1>6. TypeOK'
  BY <1>0, <1>1, <1>2, <1>5 DEF TypeOK
<1>7. GatewayOK' /\ FulfilledOnce'
  BY <1>2 DEF IInv, GatewayOK, FulfilledOnce, Recorded
<1>8. CallbacksOK'
  BY <1>1, <1>2, IdleIsIdle DEF IInv, CallbacksOK, RequestOK
<1>9. PaidIsBacked'
  BY <1>2, <1>3, <1>4, <1>5 DEF IInv, PaidIsBacked
<1>10. ProcessedIsSettled'
  BY <1>1, <1>2, <1>3, <1>4 DEF IInv, ProcessedIsSettled, o
<1>11. NoCaptureStranded'
  BY <1>0, <1>1, <1>2 DEF IInv, NoCaptureStranded, Recorded, a
<1>12. QED
  BY <1>6, <1>7, <1>8, <1>9, <1>10, <1>11 DEF IInv

LEMMA SettleKeeps ==
  ASSUME IInv, NEW h \in Callbacks, CallbackSettle(h)
  PROVE  IInv'
<1> DEFINE a == callback[h].auth
           o == gateway[a].order
           row == [ref |-> a, order |-> o]
<1>0. /\ TypeOK /\ callback[h].pc = "settle" /\ Finish(h, "PROCESSED") /\ o \in Orders
      /\ PaidBy(h, o) /\ ~Recorded(a) /\ a \in Authorities
  BY CallbackOrder, BusyCallback DEF IInv, CallbackSettle, RefFree
<1>1. /\ events' \in [Keys -> EventStatus]
      /\ callback' \in [Callbacks -> {Idle} \cup Request]
      /\ callback'[h] = Idle
      /\ \A g \in Callbacks : g # h => callback'[g] = callback[g]
      /\ \A m \in Keys : events'[m] = "PROCESSED" => events[m] = "PROCESSED" \/ m.auth = a
  BY <1>0, FinishType DEF EventStatus
<1>2. /\ payments' = payments \cup {row} /\ UNCHANGED <<couponOpen, gateway, start, lost>>
      /\ fulfilled' = [fulfilled EXCEPT ![a] = @ + 1]
      /\ coupon' = [coupon EXCEPT ![o] = Redeemed(@)]
  BY DEF CallbackSettle
<1>3. row.ref = a /\ row.order = o /\ row \in Payment
  BY <1>0 DEF Payment
<1>4. gateway[a] = [state |-> "captured", order |-> o]
  <2>1. gateway[a] \in [state : GatewayState, order : Orders \cup {NoOrder}]
    BY <1>0 DEF TypeOK
  <2>2. gateway[a].state = "captured"
    BY <1>0 DEF IInv, CallbacksOK, RequestOK
  <2>3. QED
    BY <2>1, <2>2
<1>5. a = callback[h].auth /\ o = gateway[a].order
  OBVIOUS
<1> HIDE DEF a, o, row
<1>6. /\ order' \in [Orders -> OrderStatus] /\ attempt' \in [Orders -> Attempt]
      /\ \A q \in Orders : order'[q] = "PAID" => order[q] = "PAID" \/ q = o
  BY <1>0, PaidByType
<1>7. fulfilled' \in [Authorities -> Nat] /\ coupon' \in [Orders -> CouponStatus]
  <2>1. Redeemed(coupon[o]) \in CouponStatus
    BY <1>0 DEF TypeOK, Redeemed, CouponStatus
  <2>2. QED
    BY <1>0, <1>2, <2>1 DEF TypeOK
<1>8. TypeOK'
  BY <1>0, <1>1, <1>2, <1>3, <1>6, <1>7 DEF TypeOK
<1>9. GatewayOK'
  BY <1>2 DEF IInv, GatewayOK
<1>10. CallbacksOK'
  BY <1>1, <1>2, IdleIsIdle DEF IInv, CallbacksOK, RequestOK
<1>11. FulfilledOnce'
  <2> SUFFICES ASSUME NEW b \in Authorities
               PROVE  fulfilled'[b] = IF Recorded(b)' THEN 1 ELSE 0
    BY DEF FulfilledOnce
  <2>1. fulfilled[b] = IF Recorded(b) THEN 1 ELSE 0
    BY DEF IInv, FulfilledOnce
  <2>2. Recorded(b)' <=> Recorded(b) \/ b = a
    BY <1>2, <1>3 DEF Recorded
  <2>3. fulfilled'[b] = IF b = a THEN fulfilled[b] + 1 ELSE fulfilled[b]
    BY <1>0, <1>2 DEF TypeOK
  <2>4. CASE b = a
    BY <1>0, <2>1, <2>2, <2>3, <2>4
  <2>5. CASE b # a
    BY <2>1, <2>2, <2>3, <2>5
  <2>6. QED
    BY <2>4, <2>5
<1>12. PaidIsBacked'
  BY <1>2, <1>3, <1>4, <1>6 DEF IInv, PaidIsBacked
<1>13. ProcessedIsSettled'
  BY <1>1, <1>2, <1>3, <1>5 DEF IInv, ProcessedIsSettled
<1>14. NoCaptureStranded'
  <2>1. \A b \in Authorities : Recorded(b)' <=> Recorded(b) \/ b = a
    BY <1>2, <1>3 DEF Recorded
  <2>2. QED
    BY <1>1, <1>2, <1>5, <2>1 DEF IInv, NoCaptureStranded
<1>15. QED
  BY <1>8, <1>9, <1>10, <1>11, <1>12, <1>13, <1>14 DEF IInv

LEMMA CallbackKeeps ==
  ASSUME IInv, NEW h \in Callbacks, CallbackStep(h)
  PROVE  IInv'
<1>1. CASE \E a \in Authorities : CallbackArrives(h, a)
  BY <1>1, ArrivalKeeps
<1>2. CASE VerifySucceeds(h)
  BY <1>2, CaptureKeeps DEF VerifySucceeds
<1>3. CASE VerifyAnswerLost(h)
  BY <1>3, CaptureKeeps DEF VerifyAnswerLost
<1>4. QED
  BY <1>1, <1>2, <1>3, VerifyFailsKeeps, RejectKeeps, SettleKeeps, SettleAgainKeeps,
     AbortKeeps, ErrorKeeps, CrashKeeps DEF CallbackStep

-----------------------------------------------------------------------------
LEMMA InvariantKept ==
  ASSUME IInv, [Next]_vars
  PROVE  IInv'
<1>1. CASE UNCHANGED vars
  <2>1. TypeOK'
    BY <1>1 DEF IInv, TypeOK, vars, db
  <2>2. QED
    BY <1>1, <2>1, QuietStep DEF vars, db
<1>2. CASE Next
  BY <1>2, StartKeeps, CallbackKeeps, EnvironmentKeeps DEF Next
<1>3. QED
  BY <1>1, <1>2

(* One captured payment serves its order once, a PAID order and a          *)
(* PROCESSED event have captured money behind them, and captured money is  *)
(* stranded only by a lost answer or a failed transaction, whatever        *)
(* callbacks, restarts and expiries interleave.                            *)
THEOREM SettlementInvariant ==
  Spec => [](TypeOK /\ FulfilledOnce /\ PaidIsBacked /\ ProcessedIsSettled
               /\ NoCaptureStranded)
<1>1. IInv /\ [Next]_vars => IInv'
  BY InvariantKept
<1>2. IInv => TypeOK /\ FulfilledOnce /\ PaidIsBacked /\ ProcessedIsSettled /\ NoCaptureStranded
  BY DEF IInv
<1>3. QED
  BY InitIInv, <1>1, <1>2, PTL DEF Spec
-----------------------------------------------------------------------------
(* Nothing refers to an order that was never created.                      *)
Known ==
  /\ \A s \in Starts : start[s].pc = "loaded" => order[start[s].order] # "ABSENT"
  /\ \A a \in Authorities : gateway[a].order \in Orders => order[gateway[a].order] # "ABSENT"
  /\ \A o \in Orders : coupon[o] = "REDEEMED" => order[o] # "ABSENT"

(* An order, once created, never goes back to not being there.             *)
LEMMA OrderStays ==
  ASSUME TypeOK, [Next]_vars, NEW o \in Orders, order[o] # "ABSENT"
  PROVE  order'[o] # "ABSENT"
<1>1. CASE order' = order
  BY <1>1
<1>2. ASSUME NEW p \in Orders, CreateOrder(p) PROVE order'[o] # "ABSENT"
  BY <1>2 DEF TypeOK, CreateOrder
<1>3. ASSUME NEW s \in Starts, StartReuse(s) PROVE order'[o] # "ABSENT"
  BY <1>3 DEF TypeOK, StartReuse, Written
<1>4. ASSUME NEW s \in Starts, NEW a \in Authorities, StartPrepare(s, a)
      PROVE  order'[o] # "ABSENT"
  BY <1>4 DEF TypeOK, StartPrepare, Written
<1>5. ASSUME NEW h \in Callbacks, NEW p, PaidBy(h, p) PROVE order'[o] # "ABSENT"
  BY <1>5 DEF TypeOK, PaidBy, Written
<1>6. CASE UNCHANGED vars
  BY <1>6 DEF vars, db
<1>7. ASSUME NEW s \in Starts, StartStep(s) PROVE order'[o] # "ABSENT"
  BY <1>1, <1>3, <1>4, <1>7 DEF StartStep, StartLoad, StartFail, db
<1>8. ASSUME NEW h \in Callbacks, CallbackStep(h) PROVE order'[o] # "ABSENT"
  BY <1>1, <1>5, <1>8 DEF CallbackStep, CallbackArrives, CallbackMismatch, CallbackRepeated,
     CallbackIgnored, CallbackAlreadyPaid, CallbackLoad, VerifySucceeds, VerifyFails,
     VerifyAnswerLost, CallbackReject, CallbackSettle, CallbackSettleAgain, CallbackAborts,
     CallbackError, CallbackCrash, db
<1>9. ASSUME Environment PROVE order'[o] # "ABSENT"
  BY <1>1, <1>2, <1>9 DEF Environment, CustomerPays, CustomerAborts, CouponExpires,
     CouponCloses, db
<1>10. QED
  BY <1>6, <1>7, <1>8, <1>9 DEF Next

(* Where the order of a start request, or of a gateway transaction, and a  *)
(* redeemed coupon come from.                                              *)
LEMMA KnownKept ==
  ASSUME IInv, Known, [Next]_vars
  PROVE  Known'
<1>0. TypeOK /\ \A o \in Orders : order[o] # "ABSENT" => order'[o] # "ABSENT"
  BY OrderStays DEF IInv
<1>1. ASSUME \A s \in Starts : start'[s] = start[s] \/ start'[s].pc # "loaded",
             \A a \in Authorities : gateway'[a].order = gateway[a].order,
             \A o \in Orders : coupon'[o] = "REDEEMED" =>
               coupon[o] = "REDEEMED" \/ \E a \in Authorities : gateway[a].order = o
      PROVE  Known'
  <2>1. \A s \in Starts : start[s].pc = "loaded" => start[s].order \in Orders
    BY <1>0, BusyStart
  <2>2. QED
    BY <1>0, <1>1, <2>1 DEF Known
<1>2. ASSUME NEW s \in Starts, StartStep(s) PROVE Known'
  <2>1. ASSUME NEW o \in Orders, StartLoad(s, o) PROVE Known'
    <3>1. \A t \in Starts : start'[t] = IF t = s
            THEN [pc |-> "loaded", order |-> o, seen |-> See(o)] ELSE start[t]
      BY <1>0, <2>1 DEF StartLoad, TypeOK
    <3>2. \A t \in Starts : start'[t].pc = "loaded" => order[start'[t].order] # "ABSENT"
      BY <2>1, <3>1 DEF StartLoad, Known
    <3>3. QED
      BY <2>1, <3>2 DEF StartLoad, Known, db
  <2>2. CASE StartReuse(s) \/ StartFail(s)
    BY <1>0, <1>1, <2>2, IdleIsIdle DEF StartReuse, StartFail, TypeOK
  <2>3. ASSUME NEW a \in Authorities, StartPrepare(s, a) PROVE Known'
    <3>1. start[s].order \in Orders /\ order'[start[s].order] # "ABSENT"
      BY <1>0, <2>3, BusyStart DEF Known, StartPrepare
    <3>2. \A b \in Authorities : gateway'[b] = IF b = a
            THEN [state |-> "issued", order |-> start[s].order] ELSE gateway[b]
      BY <1>0, <2>3 DEF StartPrepare, TypeOK
    <3>3. \A b \in Authorities : gateway'[b].order \in Orders => order'[gateway'[b].order] # "ABSENT"
      BY <1>0, <3>1, <3>2 DEF Known
    <3>4. \A t \in Starts : start'[t] = IF t = s THEN Idle ELSE start[t]
      BY <1>0, <2>3 DEF StartPrepare, TypeOK
    <3>5. \A t \in Starts : start[t].pc = "loaded" => start[t].order \in Orders
      BY <1>0, BusyStart
    <3>6. \A t \in Starts : start'[t].pc = "loaded" => order'[start'[t].order] # "ABSENT"
      BY <1>0, <3>4, <3>5, IdleIsIdle DEF Known
    <3>7. coupon' = coupon
      BY <2>3 DEF StartPrepare
    <3>8. QED
      BY <1>0, <3>3, <3>6, <3>7 DEF Known
  <2>4. QED
    BY <1>2, <2>1, <2>2, <2>3 DEF StartStep
<1>3. ASSUME NEW h \in Callbacks, CallbackStep(h) PROVE Known'
  <2>1. start' = start
    BY <1>3 DEF CallbackStep, CallbackArrives, CallbackMismatch, CallbackRepeated,
       CallbackIgnored, CallbackAlreadyPaid, CallbackLoad, VerifySucceeds, VerifyFails,
       VerifyAnswerLost, CallbackReject, CallbackSettle, CallbackSettleAgain,
       CallbackAborts, CallbackError, CallbackCrash
  <2>2. gateway' = gateway \/ \E a : gateway' = [gateway EXCEPT ![a].state = "captured"]
    BY <1>3 DEF CallbackStep, CallbackArrives, CallbackMismatch, CallbackRepeated,
       CallbackIgnored, CallbackAlreadyPaid, CallbackLoad, VerifySucceeds, VerifyFails,
       VerifyAnswerLost, CallbackReject, CallbackSettle, CallbackSettleAgain,
       CallbackAborts, CallbackError, CallbackCrash
  <2>3. \A a \in Authorities : gateway'[a].order = gateway[a].order
    BY <1>0, <2>2 DEF TypeOK
  <2>4. CASE coupon' = coupon
    BY <1>1, <2>1, <2>3, <2>4
  <2>5. CASE CallbackReject(h)
    <3>1. \A o \in Orders : coupon'[o] = "REDEEMED" => coupon[o] = "REDEEMED"
      BY <1>0, <2>5 DEF CallbackReject, Released, TypeOK
    <3>2. QED
      BY <1>1, <2>1, <2>3, <3>1
  <2>6. CASE CallbackSettle(h)
    <3>1. callback[h].auth \in Authorities
      BY <1>0, <2>6, BusyCallback DEF CallbackSettle
    <3>2. \A o \in Orders : coupon'[o] = "REDEEMED" =>
            coupon[o] = "REDEEMED" \/ o = gateway[callback[h].auth].order
      BY <1>0, <2>6 DEF CallbackSettle, TypeOK
    <3>3. QED
      BY <1>1, <2>1, <2>3, <3>1, <3>2
  <2>7. QED
    BY <1>3, <2>4, <2>5, <2>6 DEF CallbackStep, CallbackArrives, CallbackMismatch,
       CallbackRepeated, CallbackIgnored, CallbackAlreadyPaid, CallbackLoad, VerifySucceeds,
       VerifyFails, VerifyAnswerLost, CallbackSettleAgain, CallbackAborts, CallbackError,
       CallbackCrash, db
<1>4. ASSUME Environment PROVE Known'
  <2>1. ASSUME NEW o \in Orders, CreateOrder(o) PROVE Known'
    <3>1. \A p \in Orders : coupon'[p] = "REDEEMED" => coupon[p] = "REDEEMED"
      BY <1>0, <2>1 DEF CreateOrder, TypeOK
    <3>2. QED
      BY <1>1, <2>1, <3>1 DEF CreateOrder
  <2>2. ASSUME NEW o \in Orders, CouponExpires(o) PROVE Known'
    <3>1. \A p \in Orders : coupon'[p] = "REDEEMED" => coupon[p] = "REDEEMED"
      BY <1>0, <2>2 DEF CouponExpires, TypeOK
    <3>2. QED
      BY <1>1, <2>2, <3>1 DEF CouponExpires
  <2>3. ASSUME NEW a \in Authorities, CustomerPays(a) \/ CustomerAborts(a) PROVE Known'
    <3>1. \A b \in Authorities : gateway'[b].order = gateway[b].order
      BY <1>0, <2>3 DEF CustomerPays, CustomerAborts, TypeOK
    <3>2. QED
      BY <1>1, <2>3, <3>1 DEF CustomerPays, CustomerAborts, db
  <2>4. CASE CouponCloses
    BY <1>1, <2>4 DEF CouponCloses, db
  <2>5. QED
    BY <1>4, <2>1, <2>2, <2>3, <2>4 DEF Environment
<1>5. QED
  BY <1>1, <1>2, <1>3, <1>4 DEF Next, vars, db

(* A settlement's use of a coupon is never handed back, whichever late     *)
(* duplicate of the callback fails afterwards.                             *)
THEOREM RedemptionStays == Spec => RedemptionIsFinal
<1>1. ASSUME TypeOK, Known, [Next]_vars, NEW o \in Orders, coupon[o] = "REDEEMED"
      PROVE  coupon'[o] = "REDEEMED"
  <2>1. CASE coupon' = coupon
    BY <1>1, <2>1
  <2>2. ASSUME NEW h \in Callbacks, CallbackReject(h) PROVE coupon'[o] = "REDEEMED"
    BY <1>1, <2>2 DEF TypeOK, CallbackReject, Released
  <2>3. ASSUME NEW h \in Callbacks, CallbackSettle(h) PROVE coupon'[o] = "REDEEMED"
    BY <1>1, <2>3 DEF TypeOK, CallbackSettle, Redeemed
  <2>4. ASSUME NEW p \in Orders, CreateOrder(p) PROVE coupon'[o] = "REDEEMED"
    BY <1>1, <2>4 DEF Known, CreateOrder, TypeOK
  <2>5. ASSUME NEW p \in Orders, CouponExpires(p) PROVE coupon'[o] = "REDEEMED"
    BY <1>1, <2>5 DEF TypeOK, CouponExpires
  <2>6. CASE UNCHANGED vars
    BY <2>1, <2>6 DEF vars, db
  <2>7. ASSUME NEW s \in Starts, StartStep(s) PROVE coupon' = coupon
    BY <2>7 DEF StartStep, StartLoad, StartReuse, StartPrepare, StartFail, db
  <2>8. ASSUME NEW h \in Callbacks, CallbackStep(h)
        PROVE  coupon' = coupon \/ CallbackReject(h) \/ CallbackSettle(h)
    BY <2>8 DEF CallbackStep, CallbackArrives, CallbackMismatch, CallbackRepeated,
       CallbackIgnored, CallbackAlreadyPaid, CallbackLoad, VerifySucceeds, VerifyFails,
       VerifyAnswerLost, CallbackSettleAgain, CallbackAborts, CallbackError, CallbackCrash, db
  <2>9. ASSUME Environment
        PROVE  \/ coupon' = coupon
               \/ \E p \in Orders : CreateOrder(p) \/ CouponExpires(p)
    BY <2>9 DEF Environment, CustomerPays, CustomerAborts, CouponCloses, db
  <2>10. QED
    BY <1>1, <2>1, <2>2, <2>3, <2>4, <2>5, <2>6, <2>7, <2>8, <2>9 DEF Next
<1>2. Init => Known
  BY IdleIsIdle DEF Init, Known
<1>3. IInv /\ Known /\ [Next]_vars => IInv' /\ Known'
  BY InvariantKept, KnownKept
<1>4. TypeOK /\ Known /\ [Next]_vars
        => [\A o \in Orders : coupon[o] = "REDEEMED" => coupon'[o] = "REDEEMED"]_vars
  BY <1>1
<1>5. IInv => TypeOK
  BY DEF IInv
<1>6. QED
  BY InitIInv, <1>2, <1>3, <1>4, <1>5, PTL DEF Spec, RedemptionIsFinal

-----------------------------------------------------------------------------
(* WinaPay implements PurchaseContract.                                    *)

(* What the record of a transaction is worth while the invariant holds.    *)
LEMMA MoneyType ==
  ASSUME IInv, NEW a \in Authorities
  PROVE  /\ Money(a) \in Purchase!Payment
         /\ gateway[a].state = "unused" => Money(a) = Purchase!NoPayment
         /\ fulfilled[a] = 1 => gateway[a].state = "captured"
<1>1. gateway[a].state \in GatewayState /\ gateway[a].order \in Orders \cup {NoOrder}
  BY DEF IInv, TypeOK
<1>2. fulfilled[a] \in {0, 1}
  BY DEF IInv, FulfilledOnce
<1>3. ASSUME fulfilled[a] = 1 PROVE gateway[a].state = "captured"
  <2>1. Recorded(a)
    BY <1>3 DEF IInv, FulfilledOnce
  <2>2. PICK p \in payments : p.ref = a
    BY <2>1 DEF Recorded
  <2>3. gateway[p.ref] = [state |-> "captured", order |-> p.order]
    BY DEF IInv, PaidIsBacked
  <2>4. QED
    BY <2>2, <2>3
<1>4. ASSUME gateway[a].state = "unused" PROVE Money(a) = Purchase!NoPayment
  <2>1. gateway[a].order = NoOrder
    BY <1>4 DEF IInv, GatewayOK
  <2>2. QED
    BY <1>2, <1>3, <1>4, <2>1 DEF Money, Purchase!NoPayment
<1>5. Money(a) \in Purchase!Payment
  BY <1>1, <1>2 DEF Money, Purchase!Payment, GatewayState
<1>6. QED
  BY <1>3, <1>4, <1>5

(* The moves of a transaction at the gateway and in the payments table.    *)
Moves(a) ==
  \/ gateway'[a] = gateway[a] /\ fulfilled'[a] = fulfilled[a]
  \/ /\ gateway[a].state = "unused" /\ fulfilled'[a] = fulfilled[a]
     /\ \E o \in Orders : gateway'[a] = [state |-> "issued", order |-> o]
  \/ /\ gateway[a].state \in {"issued", "paid", "captured"} /\ fulfilled'[a] = fulfilled[a]
     /\ \/ gateway[a].state = "issued" /\ gateway'[a] = [gateway[a] EXCEPT !.state = "paid"]
        \/ gateway[a].state = "issued" /\ gateway'[a] = [gateway[a] EXCEPT !.state = "aborted"]
        \/ gateway[a].state # "issued" /\ gateway'[a] = [gateway[a] EXCEPT !.state = "captured"]
  \/ /\ gateway'[a] = gateway[a] /\ gateway[a].state = "captured"
     /\ fulfilled[a] = 0 /\ fulfilled'[a] = 1
     /\ order'[gateway[a].order] = "PAID"

LEMMA GatewayMoves ==
  ASSUME IInv, [Next]_vars, NEW a \in Authorities
  PROVE  Moves(a)
<1>0. TypeOK
  BY DEF IInv
<1>1. CASE gateway' = gateway /\ fulfilled' = fulfilled
  BY <1>1 DEF Moves
<1>2. ASSUME NEW s \in Starts, NEW b \in Authorities, StartPrepare(s, b) PROVE Moves(a)
  <2>1. start[s].order \in Orders
    BY <1>0, <1>2, BusyStart DEF StartPrepare
  <2>2. QED
    BY <1>0, <1>2, <2>1 DEF StartPrepare, TypeOK, Moves
<1>3. ASSUME NEW b \in Authorities, CustomerPays(b) \/ CustomerAborts(b) PROVE Moves(a)
  BY <1>0, <1>3 DEF CustomerPays, CustomerAborts, TypeOK, Moves, db
<1>4. ASSUME NEW h \in Callbacks, VerifySucceeds(h) \/ VerifyAnswerLost(h) PROVE Moves(a)
  <2>1. callback[h].auth \in Authorities
    BY <1>0, <1>4, BusyCallback DEF VerifySucceeds, VerifyAnswerLost
  <2>2. QED
    BY <1>0, <1>4, <2>1 DEF VerifySucceeds, VerifyAnswerLost, TypeOK, Moves, db
<1>5. ASSUME NEW h \in Callbacks, CallbackSettle(h) PROVE Moves(a)
  <2>1. /\ callback[h].auth \in Authorities
        /\ gateway[callback[h].auth].state = "captured"
    BY <1>0, <1>5, BusyCallback DEF CallbackSettle, IInv, CallbacksOK, RequestOK
  <2>2. fulfilled[callback[h].auth] = 0
    BY <1>5, <2>1 DEF CallbackSettle, RefFree, IInv, FulfilledOnce
  <2>3. gateway' = gateway
        /\ fulfilled' = [fulfilled EXCEPT ![callback[h].auth] = fulfilled[callback[h].auth] + 1]
    BY <1>5 DEF CallbackSettle
  <2>4. order'[gateway[callback[h].auth].order] = "PAID"
    <3>1. callback[h].pc # "idle" /\ callback[h].seen.order # "PAID"
      BY <1>5 DEF CallbackSettle, IInv, CallbacksOK, RequestOK
    <3>2. gateway[callback[h].auth].order \in Orders
      BY <3>1, CallbackOrder
    <3>3. QED
      BY <1>0, <1>5, <3>1, <3>2 DEF CallbackSettle, PaidBy, Written, TypeOK
  <2>5. QED
    BY <1>0, <2>1, <2>2, <2>3, <2>4 DEF TypeOK, Moves
<1>6. CASE UNCHANGED vars
  BY <1>1, <1>6 DEF vars, db
<1>7. ASSUME NEW s \in Starts, StartStep(s) PROVE Moves(a)
  BY <1>1, <1>2, <1>7 DEF StartStep, StartLoad, StartReuse, StartFail, db
<1>8. ASSUME NEW h \in Callbacks, CallbackStep(h) PROVE Moves(a)
  BY <1>1, <1>4, <1>5, <1>8 DEF CallbackStep, CallbackArrives, CallbackMismatch,
     CallbackRepeated, CallbackIgnored, CallbackAlreadyPaid, CallbackLoad, VerifyFails,
     CallbackReject, CallbackSettleAgain, CallbackAborts, CallbackError, CallbackCrash, db
<1>9. ASSUME Environment PROVE Moves(a)
  BY <1>1, <1>3, <1>9 DEF Environment, CreateOrder, CouponExpires, CouponCloses, db
<1>10. QED
  BY <1>6, <1>7, <1>8, <1>9 DEF Next

LEMMA MoneyMoves ==
  ASSUME IInv, IInv', [Next]_vars, NEW a \in Authorities
  PROVE  \/ Money(a)' = Money(a)
         \/ /\ Purchase!PaymentStep(Money(a), Money(a)')
            /\ Money(a)'.served # Money(a).served => order'[Money(a).order] = "PAID"
<1>1. Moves(a) /\ gateway[a].state \in GatewayState
  BY GatewayMoves DEF IInv, TypeOK
<1>2. gateway[a] \in [state : GatewayState, order : Orders \cup {NoOrder}]
  BY DEF IInv, TypeOK
<1>3. CASE gateway'[a] = gateway[a] /\ fulfilled'[a] = fulfilled[a]
  BY <1>3 DEF Money
<1>4. CASE /\ gateway[a].state = "unused" /\ fulfilled'[a] = fulfilled[a]
           /\ \E o \in Orders : gateway'[a] = [state |-> "issued", order |-> o]
  <2>1. Money(a) = Purchase!NoPayment
    BY <1>4, MoneyType
  <2>2. fulfilled'[a] = 0
    BY <1>4, <2>1 DEF Money, Purchase!NoPayment
  <2>3. PICK o \in Orders : gateway'[a] = [state |-> "issued", order |-> o]
    BY <1>4
  <2>4. Money(a)' = [at |-> "open", order |-> o, served |-> 0]
    BY <2>2, <2>3 DEF Money
  <2>5. QED
    BY <2>1, <2>4 DEF Purchase!PaymentStep, Purchase!Open, Purchase!NoPayment
<1>5. CASE /\ gateway[a].state \in {"issued", "paid", "captured"}
           /\ fulfilled'[a] = fulfilled[a]
           /\ \E st \in {"paid", "aborted", "captured"} :
                /\ st # "captured" => gateway[a].state = "issued"
                /\ st = "captured" => gateway[a].state # "issued"
                /\ gateway'[a] = [gateway[a] EXCEPT !.state = st]
  BY <1>2, <1>5 DEF Money, Purchase!PaymentStep, Purchase!Close
<1>6. CASE /\ gateway'[a] = gateway[a] /\ gateway[a].state = "captured"
           /\ fulfilled[a] = 0 /\ fulfilled'[a] = 1
           /\ order'[gateway[a].order] = "PAID"
  BY <1>6 DEF Money, Purchase!PaymentStep, Purchase!Serve
<1>7. QED
  BY <1>1, <1>3, <1>4, <1>5, <1>6 DEF Moves

(* Whoever marks an order as paid, a payment has served it by then.        *)
LEMMA PaidIsServed ==
  ASSUME IInv, NEW o \in Orders, order[o] = "PAID"
  PROVE  \E a \in Authorities : gateway[a].order = o /\ fulfilled[a] = 1
<1>1. PICK p \in payments : p.order = o
  BY DEF IInv, PaidIsBacked
<1>2. p.ref \in Authorities /\ gateway[p.ref].order = o
  <2>1. p \in Payment /\ gateway[p.ref] = [state |-> "captured", order |-> p.order]
    BY DEF IInv, TypeOK, PaidIsBacked
  <2>2. QED
    BY <1>1, <2>1 DEF Payment
<1>3. fulfilled[p.ref] = 1
  BY <1>2 DEF IInv, FulfilledOnce, Recorded
<1>4. QED
  BY <1>2, <1>3

(* What the contract's state owes to the invariant.                        *)
PurchaseOK ==
  /\ \A a \in Authorities : Money(a) \in Purchase!Payment
  /\ \A o \in Orders : order[o] = "PAID" =>
       \E a \in Authorities : Money(a).order = o /\ Money(a).served = 1

LEMMA PurchaseHolds == IInv => PurchaseOK
  BY MoneyType, PaidIsServed DEF PurchaseOK, Money

(* A WinaPay payment serves the order it was opened for, once, and only    *)
(* with captured money: the settlement implements PurchaseContract.        *)
THEOREM WinaPayKeepsContract == Spec => KeepsPurchaseContract
<1> DEFINE bar == [a \in Authorities |-> Money(a)]
           barPaid == [o \in Orders |-> order[o] = "PAID"]
<1>1. Init => Purchase!ContractInit
  <2> SUFFICES ASSUME Init PROVE Purchase!ContractInit
    OBVIOUS
  <2>1. \A a \in Authorities : Money(a) = Purchase!NoPayment
    BY DEF Init, Money, Purchase!NoPayment
  <2>2. \A o \in Orders : (order[o] = "PAID") = FALSE
    BY DEF Init
  <2>3. QED
    BY <2>1, <2>2 DEF Purchase!ContractInit
<1>2. ASSUME IInv, IInv', PurchaseOK', [Next]_vars, ~UNCHANGED <<bar, barPaid>>
      PROVE  Purchase!ContractNext
  <2>1. bar' \in [Authorities -> Purchase!Payment] /\ barPaid' \in [Orders -> BOOLEAN]
    BY <1>2 DEF PurchaseOK
  <2>2. ASSUME NEW a \in Authorities, bar'[a] # bar[a]
        PROVE  /\ Purchase!PaymentStep(bar[a], bar'[a])
               /\ bar'[a].served # bar[a].served => barPaid'[bar[a].order]
    <3>1. /\ Purchase!PaymentStep(Money(a), Money(a)')
          /\ Money(a)'.served # Money(a).served => order'[Money(a).order] = "PAID"
      BY <1>2, <2>2, MoneyMoves
    <3>2. Money(a)'.served # Money(a).served => Money(a).order \in Orders
      <4>1. ASSUME Money(a)'.served # Money(a).served
            PROVE  gateway[a].state # "unused"
        BY <1>2, <3>1, <4>1, MoneyType
           DEF Purchase!PaymentStep, Purchase!Open, Purchase!Close, Purchase!Serve, Purchase!NoPayment
      <4>2. QED
        BY <1>2, <4>1 DEF IInv, TypeOK, GatewayOK, Money
    <3>3. QED
      BY <3>1, <3>2
  <2>3. ASSUME NEW o \in Orders, barPaid'[o]
        PROVE  \E a \in Authorities : bar'[a].order = o /\ bar'[a].served = 1
    BY <1>2, <2>3 DEF PurchaseOK
  <2>4. QED
    BY <1>2, <2>1, <2>2, <2>3 DEF Purchase!ContractNext, Purchase!ServedFor
<1>3. IInv /\ IInv' /\ PurchaseOK' /\ [Next]_vars
        => [Purchase!ContractNext]_<<bar, barPaid>>
  BY <1>2
<1>4. QED
  BY InitIInv, InvariantKept, PurchaseHolds, <1>1, <1>3, PTL
     DEF Spec, KeepsPurchaseContract, Purchase!ContractSpec
=============================================================================
