-------------------------------- MODULE Webhook --------------------------------
(***************************************************************************)
(* How updates reach the handlers of Growth.  In the mode "polling" the    *)
(* bot's process handles them as they come (main.py).  In the mode         *)
(* "webhook" Telegram posts them to API processes, which keep a ledger of  *)
(* them in telegram_updates (app/api/telegram_webhook.py).                 *)
(*                                                                         *)
(* Every request builds a dispatcher with create_bot, which includes the   *)
(* routers of the handler modules; the bot library lets a router be        *)
(* included once in the life of a process, and raises the second time.  A  *)
(* slot is then one process.  A request that the limiter, the checks or    *)
(* create_bot refuse changes nothing and is no step.                       *)
(***************************************************************************)
EXTENDS Growth

CONSTANTS
  Updates,     \* update ids
  Message,     \* Message[d]: what update d asks for, who sent it, whose code
  NoUpdate

ASSUME WebhookAssumption ==
  /\ NoUpdate \notin Updates
  /\ Message \in [Updates -> [wants : {"start", "menu"}, user : Users,
                              via : Users \cup {NoUser}]]
  /\ \A d \in Updates : Message[d].wants = "menu" => Message[d].via = NoUser

VARIABLES
  mode,       \* settings.telegram_mode, read when the processes start
  queued,     \* updates Telegram has to deliver
  row,        \* row[d]: status in telegram_updates
  recent,     \* updates whose received_at is at most RECEIVED_REPLAY_GRACE old
  outlived,   \* updates that were in some handler when that time was over
  request,    \* request[h]: what the webhook of process h works on
  attached    \* processes whose routers belong to a dispatcher

hookVars == <<mode, queued, row, recent, outlived, request, attached>>
vars == <<growthVars, hookVars>>

-----------------------------------------------------------------------------
RowStatuses == {"NONE", "RECEIVED", "FAILED", "PROCESSED"}

Request == [at : {"none", "opened", "rearming", "accepted", "feeding"},
            update : Updates \cup {NoUpdate}]

NoRequest == [at |-> "none", update |-> NoUpdate]

Serves(h, d) == request[h].update = d /\ request[h].at \in {"accepted", "feeding"}

Advance(h, at) == request' = [request EXCEPT ![h] = [@ EXCEPT !.at = at]]

(* The answer ends the request.  Telegram deletes an update once a 200     *)
(* arrives, and delivers it again otherwise.                               *)
Answer(h, ok) ==
  /\ request' = [request EXCEPT ![h] = NoRequest]
  /\ queued' \in {queued} \cup (IF ok THEN {queued \ {request[h].update}} ELSE {})

-----------------------------------------------------------------------------
(* In the mode "polling" any update may come at any time.                  *)
Poll(h) ==
  /\ mode = "polling"
  /\ Asks(h)
  /\ UNCHANGED hookVars

Deliver(h, d) ==
  /\ mode = "webhook"
  /\ d \in queued
  /\ task[h] = Idle /\ request[h] = NoRequest
  /\ h \notin attached
  /\ attached' = attached \cup {h}
  /\ request' = [request EXCEPT ![h] = [at |-> "opened", update |-> d]]
  /\ UNCHANGED <<growthVars, mode, queued, row, recent, outlived>>

(* INSERT ... ON CONFLICT DO NOTHING and, if the row was new, the commit.  *)
Insert(h) ==
  LET d == request[h].update
  IN /\ request[h].at = "opened"
     /\ row[d] = "NONE"
     /\ row' = [row EXCEPT ![d] = "RECEIVED"]
     /\ recent' = recent \cup {d}
     /\ Advance(h, "accepted")
     /\ UNCHANGED <<growthVars, mode, queued, outlived, attached>>

Repeatable(d) == \/ row[d] = "FAILED"
                 \/ row[d] = "RECEIVED" /\ d \notin recent

(* Of a row that exists, PROCESSED or fresh: the answer is 200.            *)
Duplicate(h) ==
  LET d == request[h].update
  IN /\ request[h].at = "opened"
     /\ row[d] # "NONE" /\ ~Repeatable(d)
     /\ Answer(h, TRUE)
     /\ UNCHANGED <<growthVars, mode, row, recent, outlived, attached>>

(* Mutant: the row is read without FOR UPDATE.                             *)
FindUnlocked(h) ==
  /\ request[h].at = "opened"
  /\ Repeatable(request[h].update)
  /\ Advance(h, "rearming")
  /\ UNCHANGED <<growthVars, mode, queued, row, recent, outlived, attached>>

(* A row that may be handled again, read FOR UPDATE ...                    *)
Find(h) ==
  /\ request[h].at = "opened"
  /\ Repeatable(request[h].update)
  /\ \A g \in Others(h) : request[g] # [at |-> "rearming", update |-> request[h].update]
  /\ Advance(h, "rearming")
  /\ UNCHANGED <<growthVars, mode, queued, row, recent, outlived, attached>>

(* ... and written before the lock is given up.                            *)
Rearm(h) ==
  LET d == request[h].update
  IN /\ request[h].at = "rearming"
     /\ row' = [row EXCEPT ![d] = "RECEIVED"]
     /\ recent' = recent \cup {d}
     /\ Advance(h, "accepted")
     /\ UNCHANGED <<growthVars, mode, queued, outlived, attached>>

-----------------------------------------------------------------------------
(* dp.feed_update; an unknown code reads as none.                          *)
Feed(h) ==
  LET m == Message[request[h].update]
  IN /\ request[h].at = "accepted"
     /\ Arrive(h, m.wants, m.user, IF m.via \in codes THEN m.via ELSE NoUser)
     /\ Advance(h, "feeding")
     /\ UNCHANGED <<mode, queued, row, recent, outlived, attached>>

(* Mutant: the row gets the outcome in the handler's own words.            *)
SettleRaw(h) ==
  /\ request[h].at = "feeding"
  /\ Return(h)
  /\ row' = [row EXCEPT ![request[h].update] = task[h].at]
  /\ Answer(h, task[h].at = "answered")
  /\ UNCHANGED <<mode, recent, outlived, attached>>

(* The handler has returned or raised: the row is set, whatever it is by   *)
(* now, and Telegram gets its answer.                                      *)
Settle(h) ==
  LET ok == task[h].at = "answered"
  IN /\ request[h].at = "feeding"
     /\ Return(h)
     /\ row' = [row EXCEPT ![request[h].update] = IF ok THEN "PROCESSED" ELSE "FAILED"]
     /\ Answer(h, ok)
     /\ UNCHANGED <<mode, recent, outlived, attached>>

(* Five minutes pass since the row was written.                            *)
Elapse(d) ==
  /\ d \in recent
  /\ recent' = recent \ {d}
  /\ outlived' = IF \E h \in Slots : Serves(h, d) THEN outlived \cup {d} ELSE outlived
  /\ UNCHANGED <<growthVars, mode, queued, row, request, attached>>

(* A process dies with what it was doing, and starts again.                *)
Restart(h) ==
  /\ h \in attached
  /\ attached' = attached \ {h}
  /\ request' = [request EXCEPT ![h] = NoRequest]
  /\ IF task[h] = Idle THEN UNCHANGED growthVars ELSE Dies(h)
  /\ UNCHANGED <<mode, queued, row, recent, outlived>>

-----------------------------------------------------------------------------
Init ==
  /\ GrowthInit
  /\ mode \in {"polling", "webhook"}
  /\ queued = Updates /\ recent = {} /\ outlived = {} /\ attached = {}
  /\ row = [d \in Updates |-> "NONE"]
  /\ request = [h \in Slots |-> NoRequest]

Hook(h) ==
  \/ \E d \in Updates : Deliver(h, d)
  \/ Insert(h) \/ Duplicate(h) \/ Find(h) \/ Rearm(h) \/ Feed(h) \/ Settle(h)

(* A handler's own steps.  Outside a request its end is of no interest.    *)
Works(h) ==
  /\ \/ Handler(h)
     \/ request[h] = NoRequest /\ (Buys(h) \/ Return(h) \/ Dies(h))
  /\ UNCHANGED hookVars

Next ==
  \/ \E h \in Slots : Poll(h) \/ Hook(h) \/ Works(h) \/ Restart(h)
  \/ \E d \in Updates : Elapse(d)

Spec == Init /\ [][Next]_vars

-----------------------------------------------------------------------------
TypeOK ==
  /\ GrowthTypeOK
  /\ mode \in {"polling", "webhook"}
  /\ queued \subseteq Updates /\ recent \subseteq Updates /\ outlived \subseteq Updates
  /\ row \in [Updates -> RowStatuses]
  /\ request \in [Slots -> Request]
  /\ attached \subseteq Slots
  /\ \A h \in Slots : request[h].at # "none" => request[h].update \in Updates /\ h \in attached

(* RECEIVED_REPLAY_GRACE of the webhook: deliveries of one update that     *)
(* overlap, after timeouts, failures and restarts, are not handled side by *)
(* side, as long as no handler of it runs beyond the five minutes.         *)
OneDispatch ==
  \A d \in Updates \ outlived : \A g, h \in Slots :
    Serves(h, d) => row[d] = "RECEIVED" /\ (Serves(g, d) => g = h)
=============================================================================
