---------------------------------- MODULE Ads ----------------------------------
(***************************************************************************)
(* Advertising requests: app/services/ads.py, app/bot/handlers/ads.py and  *)
(* the panel's endpoints in app/api/admin_features.py.  A user hands in    *)
(* ads in the bot, administrators approve or reject them from buttons or   *)
(* from the panel, and an approved ad is posted to the channel once.       *)
(*                                                                         *)
(* Posting holds a transaction open around calls to Telegram: an advisory  *)
(* lock keeps other posters of the same ad out, but neither a rejection    *)
(* nor the panel takes that lock.                                          *)
(***************************************************************************)
EXTENDS Integers

CONSTANTS
  Requests,      \* messages that can become a request for an ad
  Tasks,         \* button presses that are handled at the same time
  NoAd,
  MaxForgotten   \* bound: posts of one ad whose answer or record is lost

ASSUME AdsAssumption == NoAd \notin Requests /\ MaxForgotten \in Nat

VARIABLES
  setting,     \* the one row of ad_settings; missing, it reads as all FALSE
  form,        \* the user's dialogue is in waiting_content
  received,    \* messages whose handler passed the filter on that state
  status,      \* status[r]: of the row ad_requests, NONE before it exists
  recorded,    \* recorded[r]: published_message_id is set
  posts,       \* posts[r]: copies of the ad in the channel
  forgotten,   \* forgotten[r]: those nobody will record
  task         \* task[h]: what the handler of a button is doing

adsVars == <<setting, form, received, status, recorded, posts, forgotten, task>>

-----------------------------------------------------------------------------
Setting == [active : BOOLEAN, target : BOOLEAN, auto : BOOLEAN]

Statuses == {"NONE", "PENDING", "APPROVED", "REJECTED", "PUBLISHED"}

(* AD_REQUEST_TRANSITIONS.                                                 *)
Transitions == [s \in Statuses |-> CASE s = "PENDING"  -> {"APPROVED", "REJECTED"}
                                     [] s = "APPROVED" -> {"PUBLISHED", "REJECTED"}
                                     [] OTHER -> {}]

(* pressed: about to publish.  copying, resending: inside the transaction, *)
(* at the first or the second way to post.  sent: Telegram has answered.   *)
Task == [at : {"idle", "pressed", "copying", "resending", "sent"},
         ad : Requests \cup {NoAd}]

Idle == [at |-> "idle", ad |-> NoAd]

Become(h, at, r) == task' = [task EXCEPT ![h] = [at |-> at, ad |-> r]]

Posting(h) == task[h].at \in {"copying", "resending", "sent"}

(* pg_advisory_xact_lock on the request's id, held until the commit.       *)
Locked(r) == \E h \in Tasks : Posting(h) /\ task[h].ad = r

-----------------------------------------------------------------------------
(* The panel saves the settings.                                           *)
SaveSettings ==
  /\ setting' \in Setting
  /\ UNCHANGED <<form, received, status, recorded, posts, forgotten, task>>

OpenForm ==
  /\ setting.active
  /\ form' = TRUE
  /\ UNCHANGED <<setting, received, status, recorded, posts, forgotten, task>>

(* The cancel button, any command, the menu, or the button of an old       *)
(* message after the section was closed.                                   *)
CloseForm ==
  /\ form' = FALSE
  /\ UNCHANGED <<setting, received, status, recorded, posts, forgotten, task>>

(* ads_receive_content: the filter on the state and the rate limiter let   *)
(* the message pass.  The photos of an album arrive as several messages,   *)
(* each with a handler of its own.                                         *)
Receive(r) ==
  /\ form
  /\ status[r] = "NONE"
  /\ received' = received \cup {r}
  /\ UNCHANGED <<setting, form, status, recorded, posts, forgotten, task>>

(* Mutant: the request starts in a state that does not exist.              *)
SubmitAsNew(r) ==
  /\ r \in received
  /\ received' = received \ {r}
  /\ status' = [status EXCEPT ![r] = IF setting.active THEN "NEW" ELSE @]
  /\ form' = FALSE
  /\ UNCHANGED <<setting, recorded, posts, forgotten, task>>

(* The transaction reads the settings again and inserts the request; the   *)
(* dialogue is over either way.                                            *)
Submit(r) ==
  /\ r \in received
  /\ received' = received \ {r}
  /\ status' = [status EXCEPT ![r] = IF setting.active THEN "PENDING" ELSE @]
  /\ form' = FALSE
  /\ UNCHANGED <<setting, recorded, posts, forgotten, task>>

-----------------------------------------------------------------------------
(* set_ad_request_status in a session that has not loaded the row before:  *)
(* FOR UPDATE brings the committed status.  The same status again is a     *)
(* success that changes nothing.                                           *)
Set(r, s) ==
  /\ status[r] # "NONE"
  /\ s = status[r] \/ s \in Transitions[status[r]]
  /\ status' = [status EXCEPT ![r] = s]

(* ads_approve commits, and goes on to publish if the settings say so: so  *)
(* does a second press on an approved ad.                                  *)
Approve(h, r) ==
  /\ task[h].at = "idle"
  /\ Set(r, "APPROVED")
  /\ IF setting.auto /\ setting.target THEN Become(h, "pressed", r) ELSE UNCHANGED task
  /\ UNCHANGED <<setting, form, received, recorded, posts, forgotten>>

Reject(r) ==
  /\ Set(r, "REJECTED")
  /\ UNCHANGED <<setting, form, received, recorded, posts, forgotten, task>>

(* The panel may choose any status that the transitions allow, PUBLISHED   *)
(* without a post included.                                                *)
PanelSet(r) ==
  /\ \E s \in Statuses \ {"NONE"} : Set(r, s)
  /\ UNCHANGED <<setting, form, received, recorded, posts, forgotten, task>>

(* ads_publish: under the advisory lock, which it gives back at once, the  *)
(* ad is approved and there is a channel.                                  *)
PressPublish(h, r) ==
  /\ task[h].at = "idle"
  /\ ~Locked(r)
  /\ status[r] = "APPROVED"
  /\ setting.target
  /\ Become(h, "pressed", r)
  /\ UNCHANGED <<setting, form, received, status, recorded, posts, forgotten>>

-----------------------------------------------------------------------------
(* Mutant: the status is read before the lock is taken.                    *)
LoadUnlocked(h) ==
  /\ task[h].at = "pressed"
  /\ IF status[task[h].ad] = "APPROVED"
     THEN Become(h, "copying", task[h].ad)
     ELSE Become(h, "idle", NoAd)
  /\ UNCHANGED <<setting, form, received, status, recorded, posts, forgotten>>

(* Mutant: only a rejected ad is turned away.                              *)
LoadUnlessRejected(h) ==
  /\ task[h].at = "pressed"
  /\ ~Locked(task[h].ad)
  /\ IF status[task[h].ad] # "REJECTED"
     THEN Become(h, "copying", task[h].ad)
     ELSE Become(h, "idle", NoAd)
  /\ UNCHANGED <<setting, form, received, status, recorded, posts, forgotten>>

(* _publish_to_channel waits for the lock, then loads the row into its     *)
(* session.                                                                *)
Load(h) ==
  /\ task[h].at = "pressed"
  /\ ~Locked(task[h].ad)
  /\ IF status[task[h].ad] = "APPROVED"
     THEN Become(h, "copying", task[h].ad)
     ELSE Become(h, "idle", NoAd)
  /\ UNCHANGED <<setting, form, received, status, recorded, posts, forgotten>>

(* After an exception the copy is followed by a message of the ad's own    *)
(* kind (a file by its id, or the text); after that the task gives up.     *)
NextWay(h) ==
  IF task[h].at = "copying" THEN Become(h, "resending", task[h].ad)
                            ELSE Become(h, "idle", NoAd)

PostAnswered(h) ==
  /\ task[h].at \in {"copying", "resending"}
  /\ posts' = [posts EXCEPT ![task[h].ad] = @ + 1]
  /\ Become(h, "sent", task[h].ad)
  /\ UNCHANGED <<setting, form, received, status, recorded, forgotten>>

(* Telegram posts the ad and its answer is lost.                           *)
PostUnanswered(h) ==
  /\ task[h].at \in {"copying", "resending"}
  /\ forgotten[task[h].ad] < MaxForgotten
  /\ posts' = [posts EXCEPT ![task[h].ad] = @ + 1]
  /\ forgotten' = [forgotten EXCEPT ![task[h].ad] = @ + 1]
  /\ NextWay(h)
  /\ UNCHANGED <<setting, form, received, status, recorded>>

PostRefused(h) ==
  /\ task[h].at \in {"copying", "resending"}
  /\ NextWay(h)
  /\ UNCHANGED <<setting, form, received, status, recorded, posts, forgotten>>

(* set_ad_request_status on the row that this session loaded as APPROVED:  *)
(* FOR UPDATE does not refresh it, so PUBLISHED is written over whatever   *)
(* was committed since.                                                    *)
Record(h) ==
  /\ task[h].at = "sent"
  /\ status' = [status EXCEPT ![task[h].ad] = "PUBLISHED"]
  /\ recorded' = [recorded EXCEPT ![task[h].ad] = TRUE]
  /\ Become(h, "idle", NoAd)
  /\ UNCHANGED <<setting, form, received, posts, forgotten>>

(* The process dies, or the transaction fails, with whatever the handler   *)
(* had done: the lock and the uncommitted record are gone.                 *)
Dies(h) ==
  /\ task[h].at # "idle"
  /\ IF task[h].at = "sent"
     THEN /\ forgotten[task[h].ad] < MaxForgotten
          /\ forgotten' = [forgotten EXCEPT ![task[h].ad] = @ + 1]
     ELSE UNCHANGED forgotten
  /\ Become(h, "idle", NoAd)
  /\ UNCHANGED <<setting, form, received, status, recorded, posts>>

ReceiverDies(r) ==
  /\ r \in received
  /\ received' = received \ {r}
  /\ UNCHANGED <<setting, form, status, recorded, posts, forgotten, task>>

-----------------------------------------------------------------------------
AdsInit ==
  /\ setting = [active |-> FALSE, target |-> FALSE, auto |-> FALSE]
  /\ form = FALSE
  /\ received = {}
  /\ status = [r \in Requests |-> "NONE"]
  /\ recorded = [r \in Requests |-> FALSE]
  /\ posts = [r \in Requests |-> 0]
  /\ forgotten = [r \in Requests |-> 0]
  /\ task = [h \in Tasks |-> Idle]

AdsNext ==
  \/ SaveSettings \/ OpenForm \/ CloseForm
  \/ \E r \in Requests : \/ Receive(r) \/ Submit(r) \/ ReceiverDies(r)
                         \/ Reject(r) \/ PanelSet(r)
                         \/ \E h \in Tasks : Approve(h, r) \/ PressPublish(h, r)
  \/ \E h \in Tasks : \/ Load(h) \/ PostAnswered(h) \/ PostUnanswered(h)
                      \/ PostRefused(h) \/ Record(h) \/ Dies(h)

AdsSpec == AdsInit /\ [][AdsNext]_adsVars

-----------------------------------------------------------------------------
(* Every field holds a value of its type.                                  *)
AdsTypeOK ==
  /\ setting \in Setting
  /\ form \in BOOLEAN
  /\ received \subseteq Requests
  /\ status \in [Requests -> Statuses]
  /\ recorded \in [Requests -> BOOLEAN]
  /\ posts \in [Requests -> Nat]
  /\ forgotten \in [Requests -> Nat]
  /\ task \in [Tasks -> Task]

(* However often the buttons of an ad are pressed, on how many devices,    *)
(* the channel gets one copy of it, and one more for each copy whose       *)
(* answer or record was lost.                                              *)
OnePost == \A r \in Requests : posts[r] <= forgotten[r] + 1

(* Once a copy is recorded, no further copy is posted: a late press, a     *)
(* second poster that waited for the lock and a stale status do not add    *)
(* one.                                                                    *)
RecordedIsLast ==
  [][\A r \in Requests : recorded[r] => posts'[r] = posts[r]]_adsVars
=============================================================================
