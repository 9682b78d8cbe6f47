------------------------------- MODULE BotProofs -------------------------------
(***************************************************************************)
(* Proofs about what the bot process does: the requests for ads (Ads), the *)
(* download button over the catalogue (Delivery), and the gate and the     *)
(* daily sends (BotProcess), each for any values of its constants.         *)
(***************************************************************************)
EXTENDS Ads, Delivery, BotProcess, TLAPS

USE AdsAssumption, DeliveryAssumption, CatalogueAssumption, UpkeepAssumption

-----------------------------------------------------------------------------
(*                                  Ads                                    *)
(* A message whose handler is still at work has no row yet.                *)
ReceivedIsNew == \A r \in received : status[r] = "NONE"

BusyWithAd ==
  \A h \in Tasks : task[h].at # "idle" => /\ task[h].ad \in Requests
                                          /\ status[task[h].ad] # "NONE"

(* The advisory lock is held by one task.                                  *)
OnePoster ==
  \A h, k \in Tasks : Posting(h) /\ Posting(k) /\ task[h].ad = task[k].ad => h = k

(* A recorded ad is PUBLISHED, and nobody is posting it.                   *)
RecordedIsOver ==
  \A r \in Requests : recorded[r] => status[r] = "PUBLISHED" /\ ~Locked(r)

InHand(r) == \E h \in Tasks : task[h].at = "sent" /\ task[h].ad = r

(* Every copy is recorded, forgotten or in the hand of the one poster.     *)
CopiesAddUp ==
  \A r \in Requests :
    posts[r] = forgotten[r] + (IF recorded[r] \/ InHand(r) THEN 1 ELSE 0)

AdsIInv == AdsTypeOK /\ ReceivedIsNew /\ BusyWithAd /\ OnePoster /\ RecordedIsOver /\ CopiesAddUp

-----------------------------------------------------------------------------
LEMMA TaskTypes ==
  ASSUME NEW at \in {"idle", "pressed", "copying", "resending", "sent"},
         NEW r \in Requests \cup {NoAd}
  PROVE  [at |-> at, ad |-> r] \in Task
  BY DEF Task

(* A press either gives up or changes what it does to its own ad.          *)
LEMMA BecomeTypes ==
  ASSUME AdsTypeOK, NEW h \in Tasks, NEW r \in Requests \cup {NoAd},
         NEW at \in {"idle", "pressed", "copying", "resending", "sent"}, Become(h, at, r)
  PROVE  /\ task' \in [Tasks -> Task]
         /\ task'[h] = [at |-> at, ad |-> r]
         /\ \A k \in Tasks : k # h => task'[k] = task[k]
  BY TaskTypes DEF AdsTypeOK, Become

LEMMA NextWayCases ==
  ASSUME AdsTypeOK, NEW h \in Tasks, NextWay(h)
  PROVE  \/ task[h].at = "copying" /\ Become(h, "resending", task[h].ad)
         \/ Become(h, "idle", NoAd)
  BY DEF NextWay

LEMMA SetTypes ==
  ASSUME AdsTypeOK, NEW r \in Requests, NEW s \in Statuses \ {"NONE"}, Set(r, s)
  PROVE  /\ status' \in [Requests -> Statuses]
         /\ \A q \in Requests : status[q] \in {"NONE", "PUBLISHED"} => status'[q] = status[q]
  BY DEF AdsTypeOK, Set, Statuses, Transitions

LEMMA AdsTypeStep ==
  ASSUME AdsTypeOK, BusyWithAd, [AdsNext]_adsVars
  PROVE  AdsTypeOK'
<1> USE DEF AdsTypeOK
<1>1. CASE SaveSettings \/ OpenForm \/ CloseForm
  BY <1>1 DEF SaveSettings, OpenForm, CloseForm
<1>2. ASSUME NEW r \in Requests, Receive(r) \/ Submit(r) \/ ReceiverDies(r)  PROVE AdsTypeOK'
  BY <1>2 DEF Receive, Submit, ReceiverDies, Statuses
<1>3. ASSUME NEW r \in Requests, Reject(r) \/ PanelSet(r)  PROVE AdsTypeOK'
  BY <1>3, SetTypes DEF Reject, PanelSet, Statuses
<1>4. ASSUME NEW r \in Requests, NEW h \in Tasks, Approve(h, r)  PROVE AdsTypeOK'
  <2>1. status' \in [Requests -> Statuses]
    BY <1>4, SetTypes DEF Approve, Statuses
  <2>2. task' \in [Tasks -> Task]
    BY <1>4, BecomeTypes DEF Approve
  <2> QED BY <1>4, <2>1, <2>2 DEF Approve
<1>5. ASSUME NEW r \in Requests, NEW h \in Tasks, PressPublish(h, r)  PROVE AdsTypeOK'
  BY <1>5, BecomeTypes DEF PressPublish
<1>6. ASSUME NEW h \in Tasks, Load(h)  PROVE AdsTypeOK'
  <2>1. task[h].ad \in Requests
    BY <1>6 DEF Load, BusyWithAd
  <2>2. task' \in [Tasks -> Task]
    BY <1>6, <2>1, BecomeTypes DEF Load
  <2> QED BY <1>6, <2>2 DEF Load
<1>7. ASSUME NEW h \in Tasks, PostAnswered(h) \/ PostUnanswered(h) \/ PostRefused(h)
      PROVE  AdsTypeOK'
  <2>1. task[h].ad \in Requests
    BY <1>7 DEF PostAnswered, PostUnanswered, PostRefused, BusyWithAd
  <2>2. task' \in [Tasks -> Task]
    BY <1>7, <2>1, BecomeTypes, NextWayCases DEF PostAnswered, PostUnanswered, PostRefused
  <2> QED BY <1>7, <2>1, <2>2 DEF PostAnswered, PostUnanswered, PostRefused
<1>8. ASSUME NEW h \in Tasks, Record(h) \/ Dies(h)  PROVE AdsTypeOK'
  <2>1. task[h].ad \in Requests
    BY <1>8 DEF Record, Dies, BusyWithAd
  <2>2. task' \in [Tasks -> Task]
    BY <1>8, BecomeTypes DEF Record, Dies
  <2>3. CASE Record(h)
    <3>1. /\ status' \in [Requests -> Statuses]
          /\ recorded' \in [Requests -> BOOLEAN]
      BY <2>1, <2>3 DEF Record, Statuses
    <3> QED BY <2>2, <2>3, <3>1 DEF Record
  <2>4. CASE Dies(h)
    BY <2>1, <2>2, <2>4 DEF Dies
  <2> QED BY <1>8, <2>3, <2>4
<1>9. CASE UNCHANGED adsVars
  BY <1>9 DEF adsVars
<1> QED BY <1>1, <1>2, <1>3, <1>4, <1>5, <1>6, <1>7, <1>8, <1>9 DEF AdsNext

(* A row only comes from a message in hand, it is never deleted, and       *)
(* PUBLISHED stays.                                                        *)
Kept == \A r \in Requests : /\ status[r] = "PUBLISHED" => status'[r] = "PUBLISHED"
                            /\ status[r] # "NONE" => status'[r] # "NONE"

LEMMA StatusStep ==
  ASSUME AdsTypeOK, ReceivedIsNew, BusyWithAd, [AdsNext]_adsVars
  PROVE  ReceivedIsNew' /\ Kept
<1> USE DEF ReceivedIsNew, Kept
<1>1. CASE SaveSettings \/ OpenForm \/ CloseForm
  BY <1>1 DEF SaveSettings, OpenForm, CloseForm
<1>2. ASSUME NEW r \in Requests, Receive(r) \/ Submit(r) \/ ReceiverDies(r)
      PROVE  ReceivedIsNew' /\ Kept
  BY <1>2 DEF Receive, Submit, ReceiverDies, AdsTypeOK
<1>3. ASSUME NEW r \in Requests,
             Reject(r) \/ PanelSet(r) \/ \E h \in Tasks : Approve(h, r) \/ PressPublish(h, r)
      PROVE  ReceivedIsNew' /\ Kept
  <2>1. received' = received
    BY <1>3 DEF Reject, PanelSet, Approve, PressPublish
  <2>2. status' = status \/ \E s \in Statuses \ {"NONE"} : Set(r, s)
    BY <1>3 DEF Reject, PanelSet, Approve, PressPublish, Statuses
  <2>3. CASE status' = status
    BY <2>1, <2>3
  <2>4. ASSUME NEW s \in Statuses \ {"NONE"}, Set(r, s)  PROVE ReceivedIsNew' /\ Kept
    BY <2>1, <2>4, SetTypes DEF AdsTypeOK, Set
  <2> QED BY <2>2, <2>3, <2>4
<1>4. ASSUME NEW h \in Tasks,
             \/ Load(h) \/ PostAnswered(h) \/ PostUnanswered(h) \/ PostRefused(h) \/ Dies(h)
      PROVE  ReceivedIsNew' /\ Kept
  BY <1>4 DEF Load, PostAnswered, PostUnanswered, PostRefused, Dies
<1>5. ASSUME NEW h \in Tasks, Record(h)  PROVE ReceivedIsNew' /\ Kept
  BY <1>5 DEF Record, AdsTypeOK, BusyWithAd
<1>6. CASE UNCHANGED adsVars
  BY <1>6 DEF adsVars
<1> QED BY <1>1, <1>2, <1>3, <1>4, <1>5, <1>6 DEF AdsNext

-----------------------------------------------------------------------------
(* The steps of one task h, as the other parts of the invariant see them:  *)
(* at most h starts or stops posting, and only on a free, approved ad.     *)
Alone(h) == \A k \in Tasks : k # h => task'[k] = task[k]

Same == UNCHANGED <<recorded, posts, forgotten>>

(* It begins to publish, or stops, with nothing in hand.                   *)
Quiet(h) ==
  /\ Alone(h) /\ Same
  /\ task[h].at # "sent"
  /\ \/ task'[h] = Idle
     \/ \E r \in Requests : task'[h] = [at |-> "pressed", ad |-> r] /\ status'[r] # "NONE"

PosterLoads(h) ==
  /\ Alone(h) /\ Same
  /\ task[h].at = "pressed"
  /\ ~Locked(task[h].ad)
  /\ status[task[h].ad] = "APPROVED"
  /\ status' = status
  /\ task'[h] = [at |-> "copying", ad |-> task[h].ad]

PosterGoesOn(h) ==
  /\ Alone(h)
  /\ task[h].at = "copying"
  /\ task'[h] = [at |-> "resending", ad |-> task[h].ad]
  /\ recorded' = recorded

StepOf(h) ==
  \/ Quiet(h) \/ PosterLoads(h)
  \/ PosterGoesOn(h) /\ Same
  \/ PostAnswered(h) \/ PostUnanswered(h) \/ Record(h) \/ Dies(h)

LEMMA Steps ==
  ASSUME AdsTypeOK, BusyWithAd, [AdsNext]_adsVars
  PROVE  \/ UNCHANGED <<task, recorded, posts, forgotten>>
         \/ \E h \in Tasks : StepOf(h)
<1>1. CASE SaveSettings \/ OpenForm \/ CloseForm
  BY <1>1 DEF SaveSettings, OpenForm, CloseForm
<1>2. ASSUME NEW r \in Requests,
             Receive(r) \/ Submit(r) \/ ReceiverDies(r) \/ Reject(r) \/ PanelSet(r)
      PROVE  UNCHANGED <<task, recorded, posts, forgotten>>
  BY <1>2 DEF Receive, Submit, ReceiverDies, Reject, PanelSet
<1>3. ASSUME NEW r \in Requests, NEW h \in Tasks, Approve(h, r)
      PROVE  UNCHANGED <<task, recorded, posts, forgotten>> \/ StepOf(h)
  <2>1. Same /\ task[h].at = "idle"
    BY <1>3 DEF Approve, Same
  <2>2. CASE task' = task
    BY <2>1, <2>2 DEF Same
  <2>3. CASE Become(h, "pressed", r)
    <3>1. Alone(h) /\ task'[h] = [at |-> "pressed", ad |-> r]
      BY <2>3, BecomeTypes DEF Alone
    <3>2. status'[r] # "NONE"
      BY <1>3, SetTypes DEF Approve, Set, AdsTypeOK
    <3> QED BY <2>1, <3>1, <3>2 DEF StepOf, Quiet
  <2> QED BY <1>3, <2>2, <2>3 DEF Approve
<1>4. ASSUME NEW r \in Requests, NEW h \in Tasks, PressPublish(h, r)  PROVE StepOf(h)
  <2>1. Alone(h) /\ task'[h] = [at |-> "pressed", ad |-> r]
    BY <1>4, BecomeTypes DEF Alone, PressPublish
  <2> QED BY <1>4, <2>1 DEF StepOf, Quiet, PressPublish, Same
<1>5. ASSUME NEW h \in Tasks, Load(h)  PROVE StepOf(h)
  <2>1. task[h].ad \in Requests /\ Same /\ status' = status
    BY <1>5 DEF Load, BusyWithAd, Same
  <2>2. CASE status[task[h].ad] = "APPROVED"
    <3>1. Alone(h) /\ task'[h] = [at |-> "copying", ad |-> task[h].ad]
      BY <1>5, <2>1, <2>2, BecomeTypes DEF Alone, Load
    <3> QED BY <1>5, <2>1, <2>2, <3>1 DEF StepOf, PosterLoads, Load
  <2>3. CASE status[task[h].ad] # "APPROVED"
    <3>1. Alone(h) /\ task'[h] = Idle
      BY <1>5, <2>3, BecomeTypes DEF Alone, Load, Idle
    <3> QED BY <1>5, <2>1, <3>1 DEF StepOf, Quiet, Load
  <2> QED BY <2>2, <2>3
<1>6. ASSUME NEW h \in Tasks, PostRefused(h)  PROVE StepOf(h)
  <2>1. Same /\ task[h].ad \in Requests /\ task[h].at \in {"copying", "resending"}
    BY <1>6 DEF PostRefused, BusyWithAd, Same
  <2>2. CASE task[h].at = "copying" /\ Become(h, "resending", task[h].ad)
    BY <2>1, <2>2, BecomeTypes DEF StepOf, PosterGoesOn, Alone, Same
  <2>3. CASE Become(h, "idle", NoAd)
    BY <2>1, <2>3, BecomeTypes DEF StepOf, Quiet, Alone, Idle
  <2> QED BY <1>6, <2>2, <2>3, NextWayCases DEF PostRefused
<1>7. ASSUME NEW h \in Tasks,
             PostAnswered(h) \/ PostUnanswered(h) \/ Record(h) \/ Dies(h)
      PROVE  StepOf(h)
  BY <1>7 DEF StepOf
<1>8. CASE UNCHANGED adsVars
  BY <1>8 DEF adsVars
<1> QED BY <1>1, <1>2, <1>3, <1>4, <1>5, <1>6, <1>7, <1>8 DEF AdsNext

(* What a step makes of its task.                                          *)
LEMMA TaskStep ==
  ASSUME AdsTypeOK, BusyWithAd, NEW h \in Tasks, StepOf(h)
  PROVE  /\ Alone(h)
         /\ \/ task'[h] = Idle
            \/ \E r \in Requests : /\ task'[h] = [at |-> "pressed", ad |-> r]
                                  /\ status'[r] # "NONE"
            \/ PosterLoads(h)
            \/ PosterGoesOn(h)
            \/ PostAnswered(h) /\ task'[h] = [at |-> "sent", ad |-> task[h].ad]
<1>1. CASE Quiet(h) \/ PosterLoads(h) \/ (PosterGoesOn(h) /\ Same)
  BY <1>1 DEF Quiet, PosterLoads, PosterGoesOn
<1>2. CASE PostAnswered(h)
  <2>1. task[h].ad \in Requests
    BY <1>2 DEF PostAnswered, BusyWithAd
  <2> QED BY <1>2, <2>1, BecomeTypes DEF PostAnswered, Alone
<1>3. CASE PostUnanswered(h)
  <2>1. task[h].ad \in Requests /\ recorded' = recorded
    BY <1>3 DEF PostUnanswered, BusyWithAd
  <2>2. CASE task[h].at = "copying" /\ Become(h, "resending", task[h].ad)
    BY <2>1, <2>2, BecomeTypes DEF PosterGoesOn, Alone
  <2>3. CASE Become(h, "idle", NoAd)
    BY <2>3, BecomeTypes DEF Alone, Idle
  <2> QED BY <1>3, <2>2, <2>3, NextWayCases DEF PostUnanswered
<1>4. CASE Record(h) \/ Dies(h)
  BY <1>4, BecomeTypes DEF Record, Dies, Alone, Idle
<1> QED BY <1>1, <1>2, <1>3, <1>4 DEF StepOf

(* The lock: a task that holds it after a step held it before, or found it *)
(* free.                                                                   *)
LEMMA PostingStep ==
  ASSUME AdsTypeOK, BusyWithAd, NEW h \in Tasks, StepOf(h), NEW k \in Tasks, Posting(k)'
  PROVE  /\ task'[k].ad = task[k].ad
         /\ Posting(k) \/ (k = h /\ PosterLoads(h))
<1>1. CASE k # h
  BY <1>1, TaskStep DEF Alone, Posting
<1>2. CASE k = h
  <2>1. task'[h].at \in {"copying", "resending", "sent"}
    BY <1>2 DEF Posting
  <2>5. CASE task'[h] = Idle
    BY <2>1, <2>5 DEF Idle
  <2>6. ASSUME NEW r \in Requests, task'[h] = [at |-> "pressed", ad |-> r]  PROVE FALSE
    BY <2>1, <2>6
  <2>2. CASE PosterLoads(h)
    BY <1>2, <2>2 DEF PosterLoads
  <2>3. CASE PosterGoesOn(h)
    BY <1>2, <2>3 DEF PosterGoesOn, Posting
  <2>4. CASE PostAnswered(h) /\ task'[h] = [at |-> "sent", ad |-> task[h].ad]
    BY <1>2, <2>4 DEF PostAnswered, Posting
  <2> QED BY <2>2, <2>3, <2>4, <2>5, <2>6, TaskStep
<1> QED BY <1>1, <1>2

LEMMA OnePosterStep ==
  ASSUME AdsIInv, NEW h \in Tasks, StepOf(h)
  PROVE  OnePoster'
<1> SUFFICES ASSUME NEW k \in Tasks, NEW g \in Tasks,
                    Posting(k)', Posting(g)', task'[k].ad = task'[g].ad
             PROVE  k = g
  BY DEF OnePoster
<1> USE DEF AdsIInv
<1>1. task[k].ad = task[g].ad
  BY PostingStep
<1>2. CASE Posting(k) /\ Posting(g)
  BY <1>1, <1>2 DEF OnePoster
<1>3. CASE ~(Posting(k) /\ Posting(g))
  <2>1. PosterLoads(h)
    BY <1>3, PostingStep
  <2>2. \A q \in Tasks : Posting(q) => task[q].ad # task[h].ad
    BY <2>1 DEF PosterLoads, Locked
  <2> QED BY <1>1, <2>2, <1>3, PostingStep
<1> QED BY <1>2, <1>3

LEMMA BusyStep ==
  ASSUME AdsIInv, Kept, NEW h \in Tasks, StepOf(h)
  PROVE  BusyWithAd'
<1> SUFFICES ASSUME NEW k \in Tasks, task'[k].at # "idle"
             PROVE  task'[k].ad \in Requests /\ status'[task'[k].ad] # "NONE"
  BY DEF BusyWithAd
<1> USE DEF AdsIInv
<1>1. CASE k # h
  BY <1>1, TaskStep DEF Alone, BusyWithAd, Kept
<1>2. CASE k = h /\ Posting(k)'
  <2>1. task'[k].ad = task[k].ad /\ task[k].at # "idle"
    BY <1>2, PostingStep DEF Posting, PosterLoads
  <2> QED BY <2>1 DEF BusyWithAd, Kept
<1>3. CASE k = h /\ ~Posting(k)'
  <2>2. CASE PosterLoads(h) \/ PosterGoesOn(h)
    BY <1>3, <2>2 DEF PosterLoads, PosterGoesOn, Posting
  <2>3. CASE \/ PostAnswered(h) /\ task'[h] = [at |-> "sent", ad |-> task[h].ad]
             \/ task'[h] = Idle
    BY <1>3, <2>3 DEF Posting, Idle
  <2>4. ASSUME NEW r \in Requests, task'[h] = [at |-> "pressed", ad |-> r], status'[r] # "NONE"
        PROVE  task'[k].ad \in Requests /\ status'[task'[k].ad] # "NONE"
    BY <1>3, <2>4
  <2> QED BY <2>2, <2>3, <2>4, TaskStep
<1> QED BY <1>1, <1>2, <1>3

LEMMA RecordedStep ==
  ASSUME AdsIInv, Kept, NEW h \in Tasks, StepOf(h)
  PROVE  RecordedIsOver'
<1> USE DEF AdsIInv
<1>1. CASE Record(h)
  <2>1. PICK q \in Requests : q = task[h].ad
    BY <1>1 DEF Record, BusyWithAd
  <2>2. /\ recorded' = [recorded EXCEPT ![q] = TRUE]
        /\ status' = [status EXCEPT ![q] = "PUBLISHED"]
        /\ Posting(h) /\ ~PosterLoads(h) /\ task'[h] = Idle
    BY <1>1, <2>1, BecomeTypes DEF Record, Posting, PosterLoads, Idle
  <2>3. ~Locked(q)'
    <3> SUFFICES ASSUME NEW k \in Tasks, Posting(k)', task'[k].ad = q  PROVE FALSE
      BY DEF Locked, Posting
    <3>1. Posting(k) /\ task[k].ad = task[h].ad
      BY <2>1, <2>2, PostingStep
    <3>2. k = h
      BY <2>2, <3>1 DEF OnePoster
    <3> QED BY <2>2, <3>2 DEF Posting, Idle
  <2>4. ASSUME NEW r \in Requests, recorded[r]  PROVE ~Locked(r)' /\ status'[r] = "PUBLISHED"
    <3>1. ~Locked(r) /\ status'[r] = "PUBLISHED"
      BY <2>4 DEF RecordedIsOver, Kept
    <3>2. ~Locked(r)'
      BY <2>2, <3>1, PostingStep DEF Locked, Posting
    <3> QED BY <3>1, <3>2
  <2>5. status'[q] = "PUBLISHED" /\ \A r \in Requests : recorded'[r] => recorded[r] \/ r = q
    BY <2>2 DEF AdsTypeOK
  <2> QED BY <2>3, <2>4, <2>5 DEF RecordedIsOver
<1>2. CASE ~Record(h)
  <2>1. recorded' = recorded
    BY <1>2 DEF StepOf, Quiet, PosterLoads, Same, PostAnswered, PostUnanswered, Dies
  <2> SUFFICES ASSUME NEW r \in Requests, recorded[r]
               PROVE  status'[r] = "PUBLISHED" /\ ~Locked(r)'
    BY <2>1 DEF RecordedIsOver
  <2>2. status'[r] = "PUBLISHED" /\ status[r] = "PUBLISHED" /\ ~Locked(r)
    BY DEF RecordedIsOver, Kept
  <2>3. ~Locked(r)'
    <3> SUFFICES ASSUME NEW k \in Tasks, Posting(k)', task'[k].ad = r  PROVE FALSE
      BY DEF Locked, Posting
    <3>1. task[k].ad = r /\ ~Posting(k)
      BY <2>2, PostingStep DEF Locked
    <3>2. k = h /\ PosterLoads(h)
      BY <3>1, PostingStep
    <3> QED BY <2>2, <3>1, <3>2 DEF PosterLoads
  <2> QED BY <2>2, <2>3
<1> QED BY <1>1, <1>2

(* Nothing changes hands unless h posts or lets go.                        *)
LEMMA HandKept ==
  ASSUME NEW h \in Tasks, Alone(h), NEW r \in Requests,
         (task[h].at = "sent" /\ task[h].ad = r) <=> (task'[h].at = "sent" /\ task'[h].ad = r)
  PROVE  InHand(r)' <=> InHand(r)
<1>1. \A k \in Tasks : (task[k].at = "sent" /\ task[k].ad = r)
                         <=> (task'[k].at = "sent" /\ task'[k].ad = r)
  BY DEF Alone
<1> QED BY <1>1 DEF InHand

LEMMA CopiesStep ==
  ASSUME AdsIInv, NEW h \in Tasks, StepOf(h)
  PROVE  CopiesAddUp'
<1> USE DEF AdsIInv
<1> SUFFICES ASSUME NEW r \in Requests
             PROVE  posts'[r] = forgotten'[r]
                                + (IF recorded'[r] \/ InHand(r)' THEN 1 ELSE 0)
  BY DEF CopiesAddUp
<1>0. /\ posts[r] = forgotten[r] + (IF recorded[r] \/ InHand(r) THEN 1 ELSE 0)
      /\ posts[r] \in Nat /\ forgotten[r] \in Nat
  BY DEF CopiesAddUp, AdsTypeOK
<1>1. CASE Quiet(h) \/ PosterLoads(h) \/ (PosterGoesOn(h) /\ Same)
  <2>1. Alone(h) /\ Same /\ task[h].at # "sent" /\ task'[h].at # "sent"
    <3>1. CASE Quiet(h)
      <4>1. CASE task'[h] = Idle
        <5>1. task'[h].at = "idle"
          BY <4>1 DEF Idle
        <5> QED BY <3>1, <5>1 DEF Quiet
      <4>2. ASSUME NEW q \in Requests, task'[h] = [at |-> "pressed", ad |-> q]
            PROVE  task'[h].at # "sent"
        <5>1. task'[h].at = "pressed"
          BY <4>2
        <5> QED BY <5>1
      <4> QED BY <3>1, <4>1, <4>2 DEF Quiet
    <3>2. CASE PosterLoads(h) \/ (PosterGoesOn(h) /\ Same)
      BY <3>2 DEF PosterLoads, PosterGoesOn
    <3> QED BY <1>1, <3>1, <3>2
  <2>2. InHand(r)' <=> InHand(r)
    BY <2>1, HandKept
  <2> QED BY <1>0, <2>1, <2>2 DEF Same
<1>2. CASE PostAnswered(h)
  <2>1. /\ Alone(h) /\ task'[h] = [at |-> "sent", ad |-> task[h].ad]
        /\ task[h].ad \in Requests /\ Posting(h) /\ task[h].at # "sent"
    BY <1>2, BecomeTypes DEF PostAnswered, Alone, BusyWithAd, Posting
  <2>2. /\ recorded' = recorded /\ forgotten' = forgotten
        /\ posts' = [posts EXCEPT ![task[h].ad] = @ + 1]
    BY <1>2 DEF PostAnswered
  <2>3. CASE r = task[h].ad
    <3>1. ~recorded[r]
      BY <2>1, <2>3 DEF RecordedIsOver, Locked
    <3>2. ~InHand(r)
      BY <2>1, <2>3 DEF InHand, OnePoster, Posting
    <3>3. InHand(r)'
      BY <2>1, <2>3 DEF InHand
    <3> QED BY <1>0, <2>2, <2>3, <3>1, <3>2, <3>3 DEF AdsTypeOK
  <2>4. CASE r # task[h].ad
    <3>1. InHand(r)' <=> InHand(r)
      BY <2>1, <2>4, HandKept
    <3> QED BY <1>0, <2>2, <2>4, <3>1 DEF AdsTypeOK
  <2> QED BY <2>3, <2>4
<1>3. CASE PostUnanswered(h)
  <2>1. task[h].ad \in Requests /\ task[h].at # "sent"
    BY <1>3 DEF PostUnanswered, BusyWithAd
  <2>2. Alone(h) /\ task'[h].at # "sent"
    <3>1. CASE task[h].at = "copying" /\ Become(h, "resending", task[h].ad)
      <4>1. Alone(h) /\ task'[h] = [at |-> "resending", ad |-> task[h].ad]
        BY <2>1, <3>1, BecomeTypes DEF Alone
      <4>2. task'[h].at = "resending"
        BY <4>1
      <4> QED BY <4>1, <4>2
    <3>2. CASE Become(h, "idle", NoAd)
      <4>1. Alone(h) /\ task'[h] = [at |-> "idle", ad |-> NoAd]
        BY <3>2, BecomeTypes DEF Alone
      <4>2. task'[h].at = "idle"
        BY <4>1
      <4> QED BY <4>1, <4>2
    <3> QED BY <1>3, <3>1, <3>2, NextWayCases DEF PostUnanswered
  <2>3. InHand(r)' <=> InHand(r)
    BY <2>1, <2>2, HandKept
  <2>4. /\ recorded' = recorded
        /\ posts' = [posts EXCEPT ![task[h].ad] = @ + 1]
        /\ forgotten' = [forgotten EXCEPT ![task[h].ad] = @ + 1]
    BY <1>3 DEF PostUnanswered
  <2>5. /\ recorded'[r] = recorded[r]
        /\ \/ posts'[r] = posts[r] /\ forgotten'[r] = forgotten[r]
           \/ posts'[r] = posts[r] + 1 /\ forgotten'[r] = forgotten[r] + 1
    BY <2>4 DEF AdsTypeOK
  <2> QED BY <1>0, <2>3, <2>5
<1>4. CASE Record(h)
  <2>1. /\ Alone(h) /\ task'[h] = Idle /\ task[h].at = "sent" /\ task[h].ad \in Requests
        /\ posts' = posts /\ forgotten' = forgotten
        /\ recorded' = [recorded EXCEPT ![task[h].ad] = TRUE]
    BY <1>4, BecomeTypes DEF Record, Alone, Idle, BusyWithAd
  <2>2. CASE r = task[h].ad
    <3>1. InHand(r) /\ recorded'[r]
      BY <2>1, <2>2 DEF InHand, AdsTypeOK
    <3> QED BY <1>0, <2>1, <3>1
  <2>3. CASE r # task[h].ad
    <3>1. InHand(r)' <=> InHand(r)
      BY <2>1, <2>3, HandKept DEF Idle
    <3> QED BY <1>0, <2>1, <2>3, <3>1 DEF AdsTypeOK
  <2> QED BY <2>2, <2>3
<1>5. CASE Dies(h)
  <2>1. /\ Alone(h) /\ task'[h] = Idle /\ posts' = posts /\ recorded' = recorded
        /\ task[h].ad \in Requests
    BY <1>5, BecomeTypes DEF Dies, Alone, Idle, BusyWithAd
  <2>2. CASE task[h].at = "sent" /\ task[h].ad = r
    <3>1. forgotten'[r] = forgotten[r] + 1
      BY <1>5, <2>2 DEF Dies, AdsTypeOK
    <3>2. InHand(r) /\ ~recorded[r]
      BY <2>2 DEF InHand, RecordedIsOver, Locked, Posting
    <3>3. ~InHand(r)'
      <4> SUFFICES ASSUME NEW k \in Tasks, task'[k].at = "sent", task'[k].ad = r  PROVE FALSE
        BY DEF InHand
      <4>1. k # h
        BY <2>1 DEF Idle
      <4> QED BY <2>1, <2>2, <4>1 DEF Alone, OnePoster, Posting
    <3> QED BY <1>0, <2>1, <3>1, <3>2, <3>3
  <2>3. CASE ~(task[h].at = "sent" /\ task[h].ad = r)
    <3>1. InHand(r)' <=> InHand(r)
      BY <2>1, <2>3, HandKept DEF Idle
    <3>2. forgotten'[r] = forgotten[r]
      BY <1>5, <2>3 DEF Dies, AdsTypeOK
    <3> QED BY <1>0, <2>1, <3>1, <3>2
  <2> QED BY <2>2, <2>3
<1> QED BY <1>1, <1>2, <1>3, <1>4, <1>5 DEF StepOf

-----------------------------------------------------------------------------
LEMMA AdsInvInit == AdsInit => AdsIInv
<1> SUFFICES ASSUME AdsInit  PROVE AdsIInv
  OBVIOUS
<1>1. \A h \in Tasks : task[h] = Idle /\ Idle \in Task /\ Idle.at = "idle"
  BY DEF AdsInit, Idle, Task
<1>2. AdsTypeOK
  BY <1>1 DEF AdsInit, AdsTypeOK, Setting, Statuses
<1>3. \A h \in Tasks : ~Posting(h) /\ task[h].at # "sent"
  BY <1>1 DEF Posting
<1>4. ReceivedIsNew /\ BusyWithAd /\ OnePoster
  BY <1>1, <1>3 DEF AdsInit, ReceivedIsNew, BusyWithAd, OnePoster
<1>5. RecordedIsOver /\ CopiesAddUp
  BY <1>3 DEF AdsInit, RecordedIsOver, CopiesAddUp, InHand
<1> QED BY <1>2, <1>4, <1>5 DEF AdsIInv

LEMMA AdsInvStep == AdsIInv /\ [AdsNext]_adsVars => AdsIInv'
<1> SUFFICES ASSUME AdsIInv, [AdsNext]_adsVars  PROVE AdsIInv'
  OBVIOUS
<1>1. AdsTypeOK' /\ ReceivedIsNew' /\ Kept
  BY AdsTypeStep, StatusStep DEF AdsIInv
<1>2. CASE UNCHANGED <<task, recorded, posts, forgotten>>
  BY <1>1, <1>2 DEF AdsIInv, Kept, BusyWithAd, OnePoster, RecordedIsOver, CopiesAddUp, InHand,
                    Posting, Locked
<1>3. ASSUME NEW h \in Tasks, StepOf(h)  PROVE AdsIInv'
  BY <1>1, <1>3, BusyStep, OnePosterStep, RecordedStep, CopiesStep DEF AdsIInv
<1> QED BY <1>2, <1>3, Steps DEF AdsIInv

(* The channel gets one copy of an ad, and one more for each copy whose    *)
(* answer or record was lost, for any number of ads, presses and losses.   *)
THEOREM AdsInvariant == AdsSpec => [](AdsTypeOK /\ OnePost)
<1>1. AdsIInv => AdsTypeOK /\ OnePost
  BY DEF AdsIInv, CopiesAddUp, OnePost, AdsTypeOK
<1> QED BY AdsInvInit, AdsInvStep, <1>1, PTL DEF AdsSpec

(* No copy is posted after one is recorded.                                *)
THEOREM RecordedStays == AdsSpec => RecordedIsLast
<1>1. ASSUME AdsIInv, [AdsNext]_adsVars, NEW r \in Requests, recorded[r]  PROVE posts'[r] = posts[r]
  <2>1. ASSUME NEW h \in Tasks, StepOf(h)  PROVE posts'[r] = posts[r]
    <3>1. CASE PostAnswered(h) \/ PostUnanswered(h)
      <4>1. task[h].ad # r
        BY <1>1, <3>1 DEF AdsIInv, RecordedIsOver, Locked, Posting, PostAnswered, PostUnanswered
      <4> QED BY <1>1, <3>1, <4>1 DEF PostAnswered, PostUnanswered, AdsIInv, AdsTypeOK
    <3>2. CASE ~(PostAnswered(h) \/ PostUnanswered(h))
      BY <2>1, <3>2 DEF StepOf, Quiet, PosterLoads, Same, Record, Dies
    <3> QED BY <3>1, <3>2
  <2> QED BY <1>1, <2>1, Steps DEF AdsIInv
<1>2. AdsIInv /\ [AdsNext]_adsVars => [\A r \in Requests : recorded[r] => posts'[r] = posts[r]]_adsVars
  BY <1>1
<1> QED BY AdsInvInit, AdsInvStep, <1>2, PTL DEF AdsSpec, RecordedIsLast

-----------------------------------------------------------------------------
(*                               Delivery                                  *)
(* The types of what a press reads and writes outside the catalogue.       *)
Typed ==
  /\ day \in Days
  /\ used \in [Users -> [Days -> Nat]] /\ granted \in [Users -> [Days -> Nat]]
  /\ press \in [Slots -> Press]
  /\ \A h \in Slots : press[h].at # "idle" => press[h].user \in Users

InLock(h) == press[h].at \in {"locked", "judged"}

(* The advisory lock of a user has one holder.                             *)
OneHolder ==
  \A g, h \in Slots : InLock(g) /\ InLock(h) /\ press[g].user = press[h].user => g = h

(* Every grant is a row that was counted.                                  *)
GrantsAreRows == \A u \in Users : \A d \in Days : granted[u][d] <= used[u][d]

(* A free judgement of the day still stands when its row is written: only  *)
(* the holder of the lock adds rows of the user.                           *)
JudgedBelow ==
  \A h \in Slots :
    press[h].at = "judged" /\ press[h].free /\ ~press[h].late =>
      used[press[h].user][press[h].started] < Limit

DeliveryIInv == Typed /\ OneHolder /\ GrantsAreRows /\ JudgedBelow /\ FreeLimit

-----------------------------------------------------------------------------
LEMMA NoPressType == NoPress \in Press
  BY DEF NoPress, Press, Days

LEMMA TurnsTypes ==
  ASSUME Typed, NEW h \in Slots, NEW q \in Press, q.at # "idle" => q.user \in Users, Turns(h, q)
  PROVE  /\ press' \in [Slots -> Press]
         /\ \A k \in Slots : press'[k].at # "idle" => press'[k].user \in Users
         /\ press'[h] = q
         /\ \A k \in Slots : k # h => press'[k] = press[k]
  BY DEF Typed, Turns

(* A transaction that passes a step keeps its user, and otherwise ends.    *)
LEMMA PassesTypes ==
  ASSUME Typed, NEW h \in Slots, press[h].at # "idle", NEW ok \in BOOLEAN,
         NEW at \in {"read", "public", "allowed", "locked", "judged", "copy"}, Passes(h, ok, at)
  PROVE  /\ press' \in [Slots -> Press]
         /\ \A k \in Slots : press'[k].at # "idle" => press'[k].user \in Users
         /\ \A k \in Slots : k # h => press'[k] = press[k]
         /\ press'[h].at \in {at, "idle"}
         /\ press'[h].at = at => press'[h].user = press[h].user
<1> DEFINE q == [press[h] EXCEPT !.at = at]
<1>1. press[h] \in Press /\ press[h].user \in Users
  BY DEF Typed
<1>2. q \in Press /\ q.at = at /\ q.user = press[h].user
  BY <1>1 DEF Press
<1>3. NoPress \in Press /\ NoPress.at = "idle"
  BY NoPressType DEF NoPress
<1> HIDE DEF q
<1>4. CASE ok
  <2>1. Turns(h, q)
    BY <1>4 DEF Passes, q
  <2> QED BY <2>1, <1>1, <1>2, TurnsTypes
<1>5. CASE ~ok
  <2>1. Turns(h, NoPress)
    BY <1>5 DEF Passes
  <2> QED BY <2>1, <1>3, TurnsTypes
<1> QED BY <1>4, <1>5

(* Steps that leave the rows alone and put no slot into the lock.          *)
LEMMA QuietStep ==
  ASSUME DeliveryIInv, NEW h \in Slots, UNCHANGED <<used, granted, day>>,
         press' \in [Slots -> Press],
         \A k \in Slots : press'[k].at # "idle" => press'[k].user \in Users,
         \A k \in Slots : k # h => press'[k] = press[k],
         press'[h].at \notin {"locked", "judged"}
  PROVE  DeliveryIInv'
<1>1. Typed'
  BY DEF DeliveryIInv, Typed
<1>2. OneHolder'
  BY DEF DeliveryIInv, OneHolder, InLock
<1>3. JudgedBelow'
  BY DEF DeliveryIInv, JudgedBelow
<1> QED BY <1>1, <1>2, <1>3 DEF DeliveryIInv, GrantsAreRows, FreeLimit

LEMMA LockStep ==
  ASSUME DeliveryIInv, NEW h \in Slots, Lock(h)
  PROVE  DeliveryIInv'
<1>1. /\ press' \in [Slots -> Press]
      /\ \A k \in Slots : press'[k].at # "idle" => press'[k].user \in Users
      /\ \A k \in Slots : k # h => press'[k] = press[k]
      /\ press'[h].at \in {"locked", "idle"}
      /\ press'[h].at = "locked" => press'[h].user = press[h].user
  BY PassesTypes DEF DeliveryIInv, Lock
<1>2. UNCHANGED <<used, granted, day>>
  BY DEF Lock, Reading
<1>3. Typed'
  BY <1>1, <1>2 DEF DeliveryIInv, Typed
<1>4. OneHolder'
  <2>1. \A g \in Slots : ~(InLock(g) /\ press[g].user = press[h].user)
    BY DEF Lock, Holds, InLock
  <2> QED BY <1>1, <2>1 DEF DeliveryIInv, OneHolder, InLock
<1>5. JudgedBelow'
  BY <1>1, <1>2 DEF DeliveryIInv, JudgedBelow
<1> QED BY <1>2, <1>3, <1>4, <1>5 DEF DeliveryIInv, GrantsAreRows, FreeLimit

LEMMA JudgeStep ==
  ASSUME DeliveryIInv, NEW h \in Slots, Judge(h)
  PROVE  DeliveryIInv'
<1> DEFINE u == press[h].user
           free == subscribed[u] = "none"
           late == day # press[h].started
           q == [press[h] EXCEPT !.at = "judged", !.free = free, !.late = late]
<1>1. press[h] \in Press /\ press[h].at = "locked" /\ u \in Users /\ day \in Days
  BY DEF DeliveryIInv, Typed, Judge
<1>2. UNCHANGED <<used, granted, day>>
  BY DEF Judge, Reading
<1>3. CASE Turns(h, NoPress)
  <2>1. NoPress \in Press /\ NoPress.at = "idle"
    BY NoPressType DEF NoPress
  <2>2. Typed
    BY DEF DeliveryIInv
  <2>3. /\ press' \in [Slots -> Press]
        /\ \A k \in Slots : press'[k].at # "idle" => press'[k].user \in Users
        /\ press'[h] = NoPress
        /\ \A k \in Slots : k # h => press'[k] = press[k]
    BY <1>3, <2>1, <2>2, TurnsTypes
  <2> QED BY <1>2, <2>1, <2>3, QuietStep
<1>4. CASE Turns(h, q) /\ ~(free /\ used[u][day] >= Limit)
  <2>1. /\ q \in Press /\ q.at = "judged" /\ q.user = u /\ q.free = free
        /\ q.late = late /\ q.started = press[h].started
    BY <1>1 DEF Press
  <2> HIDE DEF q
  <2>2. /\ press' \in [Slots -> Press]
        /\ \A k \in Slots : press'[k].at # "idle" => press'[k].user \in Users
        /\ press'[h] = q
        /\ \A k \in Slots : k # h => press'[k] = press[k]
    BY <1>1, <1>4, <2>1, TurnsTypes DEF DeliveryIInv
  <2>3. Typed'
    BY <1>2, <2>2 DEF DeliveryIInv, Typed
  <2>4. OneHolder'
    BY <1>1, <2>1, <2>2 DEF DeliveryIInv, OneHolder, InLock
  <2>5. JudgedBelow'
    <3> SUFFICES ASSUME NEW k \in Slots, press'[k].at = "judged", press'[k].free, ~press'[k].late
                 PROVE  used'[press'[k].user][press'[k].started] < Limit
      BY DEF JudgedBelow
    <3>1. CASE k # h
      BY <3>1, <1>2, <2>2 DEF DeliveryIInv, JudgedBelow
    <3>2. CASE k = h
      <4>1. free /\ press[h].started = day
        BY <3>2, <2>1, <2>2
      <4>2. used[u][day] \in Nat
        BY <1>1 DEF DeliveryIInv, Typed
      <4>3. used[u][day] < Limit
        BY <4>1, <4>2, <1>4
      <4> QED BY <3>2, <4>1, <4>3, <2>1, <2>2, <1>2
    <3> QED BY <3>1, <3>2
  <2> QED BY <1>2, <2>3, <2>4, <2>5 DEF DeliveryIInv, GrantsAreRows, FreeLimit
<1> QED BY <1>3, <1>4 DEF Judge

LEMMA CommitStep ==
  ASSUME DeliveryIInv, NEW h \in Slots, Commit(h)
  PROVE  DeliveryIInv'
<1> DEFINE u == press[h].user
           d == press[h].started
           one == IF press[h].free /\ ~press[h].late THEN 1 ELSE 0
<1>1. /\ u \in Users /\ d \in Days /\ press[h].at = "judged"
      /\ press[h].free \in BOOLEAN /\ press[h].late \in BOOLEAN
  BY DEF DeliveryIInv, Typed, Commit, Press
<1>2. /\ press' \in [Slots -> Press]
      /\ \A k \in Slots : press'[k].at # "idle" => press'[k].user \in Users
      /\ \A k \in Slots : k # h => press'[k] = press[k]
      /\ press'[h].at \in {"copy", "idle"}
  BY PassesTypes DEF DeliveryIInv, Commit
<1>3. /\ used' = [used EXCEPT ![u][d] = @ + 1]
      /\ granted' = [granted EXCEPT ![u][d] = @ + one]
      /\ day' = day
  BY DEF Commit
<1>4. one \in {0, 1} /\ (one = 1 => used[u][d] < Limit)
  BY <1>1 DEF DeliveryIInv, JudgedBelow
<1> HIDE DEF u, d, one
<1>5. /\ used' \in [Users -> [Days -> Nat]] /\ granted' \in [Users -> [Days -> Nat]]
      /\ used'[u][d] = used[u][d] + 1 /\ granted'[u][d] = granted[u][d] + one
      /\ used[u][d] \in Nat /\ granted[u][d] \in Nat
  BY <1>1, <1>3, <1>4 DEF DeliveryIInv, Typed
<1>6. \A v \in Users : \A e \in Days : (v # u \/ e # d) =>
        used'[v][e] = used[v][e] /\ granted'[v][e] = granted[v][e]
  BY <1>1, <1>3 DEF DeliveryIInv, Typed
<1>7. Typed'
  BY <1>2, <1>3, <1>5 DEF DeliveryIInv, Typed
<1>8. OneHolder'
  BY <1>2 DEF DeliveryIInv, OneHolder, InLock
<1>9. granted[u][d] <= used[u][d] /\ granted[u][d] <= Limit
  BY <1>1 DEF DeliveryIInv, GrantsAreRows, FreeLimit
<1>10. GrantsAreRows'
  <2>1. granted'[u][d] <= used'[u][d]
    BY <1>4, <1>5, <1>9
  <2> QED BY <2>1, <1>6 DEF DeliveryIInv, GrantsAreRows
<1>11. FreeLimit'
  <2>1. granted'[u][d] <= Limit
    BY <1>4, <1>5, <1>9
  <2> QED BY <2>1, <1>6 DEF DeliveryIInv, FreeLimit
<1>12. JudgedBelow'
  <2> SUFFICES ASSUME NEW k \in Slots, press'[k].at = "judged", press'[k].free, ~press'[k].late
               PROVE  used'[press'[k].user][press'[k].started] < Limit
    BY DEF JudgedBelow
  <2>1. k # h /\ press'[k] = press[k]
    BY <1>2
  <2>2. press[k].user # u
    BY <2>1, <1>1 DEF DeliveryIInv, OneHolder, InLock, u
  <2>3. press[k].user \in Users /\ press[k].started \in Days
    BY <2>1 DEF DeliveryIInv, Typed, Press
  <2>4. used[press[k].user][press[k].started] < Limit
    BY <2>1 DEF DeliveryIInv, JudgedBelow
  <2> QED BY <2>1, <2>2, <2>3, <2>4, <1>6
<1> QED BY <1>7, <1>8, <1>10, <1>11, <1>12 DEF DeliveryIInv

LEMMA ReadStep ==
  ASSUME DeliveryIInv, NEW h \in Slots, NEW u \in Users, NEW r \in Releases, ReadVariant(h, u, r)
  PROVE  DeliveryIInv'
<1> DEFINE q == [NoPress EXCEPT !.at = "read", !.user = u, !.release = r,
                                !.file = release[r].files # {}, !.started = day]
<1>1. day \in Days
  BY DEF DeliveryIInv, Typed
<1>2. q \in Press /\ q.at = "read" /\ q.user = u
  BY <1>1 DEF NoPress, Press
<1>3. Turns(h, q) /\ UNCHANGED <<used, granted, day>>
  BY DEF ReadVariant, Reading
<1> HIDE DEF q
<1>4. /\ press' \in [Slots -> Press]
      /\ \A k \in Slots : press'[k].at # "idle" => press'[k].user \in Users
      /\ press'[h] = q
      /\ \A k \in Slots : k # h => press'[k] = press[k]
  BY <1>2, <1>3, TurnsTypes DEF DeliveryIInv
<1> QED BY <1>2, <1>3, <1>4, QuietStep

LEMMA CheckStep ==
  ASSUME DeliveryIInv, NEW h \in Slots, CheckTitle(h) \/ CheckAccess(h)
  PROVE  DeliveryIInv'
<1>1. Typed /\ press[h].at # "idle" /\ UNCHANGED <<used, granted, day>>
  BY DEF DeliveryIInv, CheckTitle, CheckAccess, Reading
<1>2. PICK ok \in BOOLEAN : Passes(h, ok, "public") \/ Passes(h, ok, "allowed")
  BY DEF CheckTitle, CheckAccess
<1>3. /\ press' \in [Slots -> Press]
      /\ \A k \in Slots : press'[k].at # "idle" => press'[k].user \in Users
      /\ \A k \in Slots : k # h => press'[k] = press[k]
      /\ press'[h].at \in {"public", "allowed", "idle"}
  <2>1. CASE Passes(h, ok, "public")
    BY <1>1, <2>1, PassesTypes
  <2>2. CASE Passes(h, ok, "allowed")
    BY <1>1, <2>2, PassesTypes
  <2> QED BY <1>2, <2>1, <2>2
<1> QED BY <1>1, <1>3, QuietStep

LEMMA EndStep ==
  ASSUME DeliveryIInv, NEW h \in Slots, Copy(h) \/ PressDies(h)
  PROVE  DeliveryIInv'
<1>1. NoPress \in Press /\ NoPress.at = "idle"
  BY NoPressType DEF NoPress
<1>2. Typed /\ Turns(h, NoPress) /\ UNCHANGED <<used, granted, day>>
  BY DEF DeliveryIInv, Copy, PressDies, Reading
<1>3. /\ press' \in [Slots -> Press]
      /\ \A k \in Slots : press'[k].at # "idle" => press'[k].user \in Users
      /\ press'[h] = NoPress
      /\ \A k \in Slots : k # h => press'[k] = press[k]
  BY <1>1, <1>2, TurnsTypes
<1> QED BY <1>1, <1>2, <1>3, QuietStep

LEMMA DeliveryInvInit == DeliveryInit => DeliveryIInv
<1> SUFFICES ASSUME DeliveryInit  PROVE DeliveryIInv
  OBVIOUS
<1>1. \A h \in Slots : press[h] = NoPress /\ press[h].at = "idle"
  BY DEF DeliveryInit, NoPress
<1>2. Typed
  BY <1>1, NoPressType DEF DeliveryInit, Typed, Days
<1>3. OneHolder /\ JudgedBelow
  BY <1>1 DEF OneHolder, InLock, JudgedBelow
<1>4. GrantsAreRows /\ FreeLimit
  BY DEF DeliveryInit, GrantsAreRows, FreeLimit
<1> QED BY <1>2, <1>3, <1>4 DEF DeliveryIInv

LEMMA DeliveryInvNext == DeliveryIInv /\ [DeliveryNext]_deliveryVars => DeliveryIInv'
<1> SUFFICES ASSUME DeliveryIInv, [DeliveryNext]_deliveryVars  PROVE DeliveryIInv'
  OBVIOUS
<1>1. CASE UNCHANGED <<day, used, granted, press>>
  BY <1>1 DEF DeliveryIInv, Typed, OneHolder, InLock, GrantsAreRows, JudgedBelow, FreeLimit
<1>2. ASSUME NEW h \in Slots, Step(h)  PROVE DeliveryIInv'
  BY <1>2, ReadStep, CheckStep, LockStep, JudgeStep, CommitStep, EndStep DEF Step
<1>3. CASE Around
  <2>1. CASE Midnight
    <3>1. day' \in Days /\ UNCHANGED <<used, granted, press>>
      BY <2>1 DEF Midnight, DeliveryIInv, Typed, Days
    <3> QED BY <3>1 DEF DeliveryIInv, Typed, OneHolder, InLock, GrantsAreRows, JudgedBelow, FreeLimit
  <2> QED BY <1>1, <1>3, <2>1 DEF Around, SetStatus, Subscribe, Lapse
<1>4. CASE CatalogueNext /\ UNCHANGED downloadVars
  BY <1>1, <1>4 DEF downloadVars
<1>5. CASE UNCHANGED deliveryVars
  BY <1>1, <1>5 DEF deliveryVars, downloadVars
<1> QED BY <1>2, <1>3, <1>4, <1>5 DEF DeliveryNext

(* A user gets at most the limit of free downloads of a day, for any       *)
(* number of presses at once, any limit and any edits of the catalogue.    *)
THEOREM FreeDownloadsWithinLimit == DeliverySpec => []FreeLimit
<1>1. DeliveryIInv => FreeLimit
  BY DEF DeliveryIInv
<1> QED BY DeliveryInvInit, DeliveryInvNext, <1>1, PTL DEF DeliverySpec

-----------------------------------------------------------------------------
(*                             The catalogue                               *)

(* Seasons and episodes belong to a title that exists.                     *)
Rooted == \A t \in Titles : tree[t] # "none" => title[t].status # "NONE"

(* What is public has a file, and files in releases can be sent.           *)
PublicHasFile ==
  \A r \in Releases : /\ release[r].status = "PUBLISHED" => release[r].files # {}
                      /\ \A f \in release[r].files : stored[f] = "READY"

(* What the transactions under way have found still holds when they write. *)
Found(w) ==
  /\ w.at = "title" => w.status # "READY"
  /\ w.at = "release" => /\ w.release \in Releases /\ release[w.release].status # "NONE"
                         /\ w.status \in {"same", "READY", "PUBLISHED"}
                         /\ w.status = "PUBLISHED" => release[w.release].files # {}
  /\ w.at = "upload" => /\ w.title \in Titles /\ title[w.title].status # "NONE"
                        /\ w.release \in Releases
                        /\ w.file \in Files /\ stored[w.file] = "READY"
                        /\ w.status \in {"READY", "PUBLISHED"}

FoundStays == \A p \in Panels : Found(panel[p])

CatalogueIInv == CatalogueTypeOK /\ Rooted /\ PublicHasFile /\ FoundStays

(* Rows of the catalogue are never taken back to what they were before     *)
(* they existed.                                                           *)
Lasting ==
  /\ \A t \in Titles : title[t].status # "NONE" => title'[t].status # "NONE"
  /\ \A r \in Releases :
       release[r].status # "NONE" => /\ release'[r].status # "NONE"
                                     /\ release[r].files # {} => release'[r].files # {}
  /\ \A f \in Files : stored[f] = "READY" => stored'[f] = "READY"

-----------------------------------------------------------------------------
LEMMA NoRequestType == NoRequest \in Request /\ NoRequest.at = "idle"
  BY DEF NoRequest, Request

LEMMA PanelTypes ==
  ASSUME CatalogueTypeOK, NEW p \in Panels, NEW w \in Request, Begin(p, w)
  PROVE  /\ panel' \in [Panels -> Request] /\ panel'[p] = w
         /\ \A q \in Panels : q # p => panel'[q] = panel[q]
  BY DEF CatalogueTypeOK, Begin

LEMMA EndTypes ==
  ASSUME CatalogueTypeOK, NEW p \in Panels, End(p)
  PROVE  /\ panel' \in [Panels -> Request] /\ panel'[p].at = "idle"
         /\ \A q \in Panels : q # p => panel'[q] = panel[q]
  BY NoRequestType DEF CatalogueTypeOK, End

(* A transaction that has not changed keeps what it has found.             *)
LEMMA FoundKept ==
  ASSUME FoundStays, Lasting, NEW p \in Panels,
         \A q \in Panels : q # p => panel'[q] = panel[q],
         panel'[p] = panel[p] \/ panel'[p].at = "idle"
  PROVE  FoundStays'
<1> SUFFICES ASSUME NEW q \in Panels  PROVE (Found(panel[q]))'
  BY DEF FoundStays
<1>1. CASE panel'[q] = panel[q]
  <2>1. Found(panel[q])
    BY DEF FoundStays
  <2> QED BY <1>1, <2>1 DEF Found, Lasting
<1>2. CASE panel'[q].at = "idle"
  BY <1>2 DEF Found
<1> QED BY <1>1, <1>2

(* So do all of them when no transaction of the panel moves.               *)
LEMMA FoundUnmoved ==
  ASSUME FoundStays, Lasting, UNCHANGED panel
  PROVE  FoundStays'
<1> SUFFICES ASSUME NEW q \in Panels  PROVE (Found(panel[q]))'
  BY DEF FoundStays
<1>1. Found(panel[q])
  BY DEF FoundStays
<1> QED BY <1>1 DEF Found, Lasting

(* Steps of the panel that change titles and their trees only.             *)
LEMMA TitleRows ==
  ASSUME CatalogueIInv, UNCHANGED <<release, stored>>,
         title' \in [Titles -> TitleRow], tree' \in [Titles -> Trees],
         panel' \in [Panels -> Request],
         \A t \in Titles : title[t].status # "NONE" => title'[t].status # "NONE",
         \A t \in Titles : tree'[t] # "none" => title'[t].status # "NONE"
  PROVE  CatalogueTypeOK' /\ Rooted' /\ PublicHasFile' /\ Lasting
<1>1. CatalogueTypeOK'
  BY DEF CatalogueIInv, CatalogueTypeOK
<1>2. Rooted' /\ PublicHasFile' /\ Lasting
  BY DEF CatalogueIInv, Rooted, PublicHasFile, Lasting
<1> QED BY <1>1, <1>2

(* Steps that change releases, their files, and what is stored.            *)
LEMMA ReleaseRows ==
  ASSUME CatalogueIInv, UNCHANGED <<title, tree>>,
         release' \in [Releases -> ReleaseRow], stored' \in [Files -> StoredStates],
         panel' \in [Panels -> Request], PublicHasFile', Lasting,
         \A r \in Releases : release'[r].status # "NONE" =>
           release'[r].of \in Titles /\ title[release'[r].of].status # "NONE"
  PROVE  CatalogueTypeOK' /\ Rooted'
  BY DEF CatalogueIInv, CatalogueTypeOK, Rooted

LEMMA NewTitleStep ==
  ASSUME CatalogueIInv, NEW t \in Titles, NEW kind \in {"MOVIE", "SERIES", "ANIMATION"},
         NEW st \in {"DRAFT", "PUBLISHED"}, NEW rights \in BOOLEAN,
         CreateTitle(t, kind, st, rights)
  PROVE  CatalogueIInv' /\ Lasting
<1> DEFINE row == [status |-> st, kind |-> kind, rights |-> rights]
           part == IF kind = "SERIES" THEN "series" ELSE "none"
<1>1. row \in TitleRow /\ part \in Trees /\ row.status # "NONE"
  BY DEF TitleRow, Trees
<1>2. title' = [title EXCEPT ![t] = row] /\ tree' = [tree EXCEPT ![t] = part]
      /\ UNCHANGED <<release, stored, panel>>
  BY DEF CreateTitle, NewTitle
<1> HIDE DEF row, part
<1>3. CatalogueTypeOK' /\ Rooted' /\ PublicHasFile' /\ Lasting
  <2>1. /\ title' \in [Titles -> TitleRow] /\ tree' \in [Titles -> Trees]
        /\ panel' \in [Panels -> Request]
    BY <1>1, <1>2 DEF CatalogueIInv, CatalogueTypeOK
  <2>2. /\ \A s \in Titles : title[s].status # "NONE" => title'[s].status # "NONE"
        /\ \A s \in Titles : tree'[s] # "none" => title'[s].status # "NONE"
    BY <1>1, <1>2 DEF CatalogueIInv, CatalogueTypeOK, Rooted
  <2> QED BY <1>2, <2>1, <2>2, TitleRows
<1>4. FoundStays'
  BY <1>2, <1>3, FoundUnmoved DEF CatalogueIInv
<1> QED BY <1>3, <1>4 DEF CatalogueIInv

LEMMA GrowStep ==
  ASSUME CatalogueIInv, NEW t \in Titles,
         CreateSeries(t) \/ CreateSeason(t) \/ CreateEpisode(t)
  PROVE  CatalogueIInv' /\ Lasting
<1>1. PICK part \in {"series", "season", "episode"} : Grow(t, part)
  BY DEF CreateSeries, CreateSeason, CreateEpisode
<1>2. title[t].status # "NONE"
  BY DEF CreateSeries, CreateSeason, CreateEpisode, CatalogueIInv, Rooted
<1>3. tree' = [tree EXCEPT ![t] = part] /\ UNCHANGED <<title, release, stored, panel>>
  BY <1>1 DEF Grow
<1>4. tree' \in [Titles -> Trees] /\ \A s \in Titles : tree'[s] # "none" => title'[s].status # "NONE"
  BY <1>2, <1>3 DEF CatalogueIInv, CatalogueTypeOK, Rooted, Trees
<1>5. CatalogueTypeOK' /\ Rooted' /\ PublicHasFile' /\ Lasting
  BY <1>3, <1>4, TitleRows DEF CatalogueIInv, CatalogueTypeOK
<1>6. FoundStays'
  BY <1>3, <1>5, FoundUnmoved DEF CatalogueIInv
<1> QED BY <1>5, <1>6 DEF CatalogueIInv

LEMMA SaveTitleStep ==
  ASSUME CatalogueIInv, NEW p \in Panels, SaveTitle(p)
  PROVE  CatalogueIInv' /\ Lasting
<1> DEFINE w == panel[p]
           t == w.title
           row == [title[t] EXCEPT !.status = IF w.status = "same" THEN @ ELSE w.status,
                                   !.rights = IF w.rights = "same" THEN @ ELSE w.rights = "yes"]
<1>1. w \in Request /\ w.at = "title" /\ w.status \in {"same", "DRAFT", "PUBLISHED"}
      /\ title \in [Titles -> TitleRow] /\ tree \in [Titles -> Trees]
  BY DEF SaveTitle, CatalogueIInv, CatalogueTypeOK, FoundStays, Found, Request
<1>2. title' = [title EXCEPT ![t] = row] /\ End(p) /\ UNCHANGED <<tree, release, stored>>
  BY <1>1 DEF SaveTitle, TitleRow
<1>3. t \in Titles => /\ row \in TitleRow
                      /\ title[t].status # "NONE" => row.status # "NONE"
  BY <1>1 DEF TitleRow
<1>4. /\ panel' \in [Panels -> Request] /\ panel'[p].at = "idle"
      /\ \A q \in Panels : q # p => panel'[q] = panel[q]
  BY <1>2, EndTypes DEF CatalogueIInv
<1> HIDE DEF row, t, w
<1>5. /\ title' \in [Titles -> TitleRow]
      /\ \A s \in Titles : title[s].status # "NONE" => title'[s].status # "NONE"
  BY <1>1, <1>2, <1>3
<1>6. CatalogueTypeOK' /\ Rooted' /\ PublicHasFile' /\ Lasting
  <2>1. \A s \in Titles : tree'[s] # "none" => title'[s].status # "NONE"
    BY <1>2, <1>5 DEF CatalogueIInv, Rooted
  <2> QED BY <1>1, <1>2, <1>4, <1>5, <2>1, TitleRows
<1>7. FoundStays'
  BY <1>4, <1>6, FoundKept DEF CatalogueIInv
<1> QED BY <1>6, <1>7 DEF CatalogueIInv

(* A new transaction of the panel, with what it has found.                 *)
LEMMA BeginStep ==
  ASSUME CatalogueIInv, NEW p \in Panels, NEW w \in Request, Begin(p, w), Found(w),
         UNCHANGED <<title, tree, release, stored>>
  PROVE  CatalogueIInv' /\ Lasting
<1>1. /\ panel' \in [Panels -> Request] /\ panel'[p] = w
      /\ \A q \in Panels : q # p => panel'[q] = panel[q]
  BY PanelTypes DEF CatalogueIInv
<1>2. CatalogueTypeOK' /\ Rooted' /\ PublicHasFile' /\ Lasting
  BY <1>1, TitleRows DEF CatalogueIInv, CatalogueTypeOK, Rooted
<1>3. ASSUME NEW q \in Panels  PROVE (Found(panel[q]))'
  <2>1. CASE q = p
    BY <1>1, <2>1 DEF Found
  <2>2. CASE q # p
    <3>1. Found(panel[q]) /\ panel'[q] = panel[q]
      BY <1>1, <2>2 DEF CatalogueIInv, FoundStays
    <3> QED BY <3>1 DEF Found
  <2> QED BY <2>1, <2>2
<1> QED BY <1>2, <1>3 DEF CatalogueIInv, FoundStays

LEMMA AcceptsTitle ==
  ASSUME CatalogueIInv, NEW t \in Titles, Accepts(t)
  PROVE  title[t].status # "NONE"
  BY DEF Accepts, TakesRelease, HasEpisode, CatalogueIInv, Rooted

LEMMA LoadStep ==
  ASSUME CatalogueIInv, NEW p \in Panels, Loads(p)
  PROVE  CatalogueIInv' /\ Lasting
<1>1. ASSUME NEW t \in Titles, NEW st \in {"same", "DRAFT", "PUBLISHED"},
             NEW rights \in {"same", "yes", "no"}, LoadTitle(p, t, st, rights)
      PROVE  CatalogueIInv' /\ Lasting
  <2> DEFINE newStatus == IF st = title[t].status THEN "same" ELSE st
             newRights == IF (rights = "yes") = title[t].rights THEN "same" ELSE rights
             w == [NoRequest EXCEPT !.at = "title", !.title = t, !.status = newStatus, !.rights = newRights]
  <2>1. newStatus \in {"same", "DRAFT", "PUBLISHED"} /\ newRights \in {"same", "yes", "no"}
    OBVIOUS
  <2>2. Begin(p, w) /\ UNCHANGED <<title, tree, release, stored>>
    BY <1>1 DEF LoadTitle
  <2> HIDE DEF newStatus, newRights
  <2>3. w \in Request /\ w.at = "title" /\ w.status = newStatus
    BY <2>1 DEF NoRequest, Request
  <2> HIDE DEF w
  <2>4. Found(w)
    BY <2>1, <2>3 DEF Found
  <2> QED BY <2>2, <2>3, <2>4, BeginStep
<1>2. ASSUME NEW r \in Releases, NEW st \in {"READY", "PUBLISHED"}, LoadRelease(p, r, st)
      PROVE  CatalogueIInv' /\ Lasting
  <2> DEFINE newStatus == IF st = release[r].status THEN "same" ELSE st
             w == [NoRequest EXCEPT !.at = "release", !.release = r, !.status = newStatus]
  <2>1. newStatus \in {"same", "READY", "PUBLISHED"} /\ (newStatus = "PUBLISHED" => release[r].files # {})
    BY <1>2 DEF LoadRelease
  <2>2. Begin(p, w) /\ UNCHANGED <<title, tree, release, stored>> /\ release[r].status # "NONE"
    BY <1>2 DEF LoadRelease
  <2> HIDE DEF newStatus
  <2>3. w \in Request /\ w.at = "release" /\ w.status = newStatus /\ w.release = r
    BY <2>1 DEF NoRequest, Request
  <2> HIDE DEF w
  <2>4. Found(w)
    BY <2>1, <2>2, <2>3 DEF Found
  <2> QED BY <2>2, <2>3, <2>4, BeginStep
<1>3. ASSUME NEW r \in Releases, NEW t \in Titles, NEW f \in Files,
             NEW st \in {"READY", "PUBLISHED"}, LoadUpload(p, r, t, f, st)
      PROVE  CatalogueIInv' /\ Lasting
  <2> DEFINE w == [NoRequest EXCEPT !.at = "upload", !.title = t, !.release = r, !.file = f,
                                    !.status = st]
  <2>1. /\ Begin(p, w) /\ UNCHANGED <<title, tree, release, stored>>
        /\ stored[f] = "READY" /\ title[t].status # "NONE"
    BY <1>3, AcceptsTitle DEF LoadUpload
  <2>2. /\ w \in Request /\ w.at = "upload" /\ w.status = st /\ w.release = r
        /\ w.title = t /\ w.file = f
    BY DEF NoRequest, Request
  <2> HIDE DEF w
  <2>3. Found(w)
    BY <2>1, <2>2 DEF Found
  <2> QED BY <2>1, <2>2, <2>3, BeginStep
<1> QED BY <1>1, <1>2, <1>3 DEF Loads

-----------------------------------------------------------------------------
(* A row that is written to a release: it exists, belongs to a title, is   *)
(* public only with a file, keeps files where there were some, and holds   *)
(* files that can be sent.                                                 *)
LEMMA RowStep ==
  ASSUME CatalogueIInv, UNCHANGED <<title, tree, stored>>, NEW r \in Releases, NEW row \in ReleaseRow,
         release' = [release EXCEPT ![r] = row], panel' \in [Panels -> Request],
         row.status # "NONE", row.of \in Titles, title[row.of].status # "NONE",
         row.status = "PUBLISHED" => row.files # {},
         release[r].status # "NONE" /\ release[r].files # {} => row.files # {},
         \A f \in row.files : stored[f] = "READY"
  PROVE  CatalogueTypeOK' /\ Rooted' /\ PublicHasFile' /\ Lasting
<1>1. /\ release' \in [Releases -> ReleaseRow] /\ release'[r] = row
      /\ \A s \in Releases : s # r => release'[s] = release[s]
  BY DEF CatalogueIInv, CatalogueTypeOK
<1>2. PublicHasFile'
  BY <1>1 DEF CatalogueIInv, PublicHasFile
<1>3. Lasting
  BY <1>1 DEF Lasting
<1>4. \A s \in Releases : release'[s].status # "NONE" =>
        release'[s].of \in Titles /\ title[release'[s].of].status # "NONE"
  BY <1>1 DEF CatalogueIInv, CatalogueTypeOK
<1>5. stored' \in [Files -> StoredStates]
  BY DEF CatalogueIInv, CatalogueTypeOK
<1> QED BY <1>1, <1>2, <1>3, <1>4, <1>5, ReleaseRows

LEMMA CreateReleaseStep ==
  ASSUME CatalogueIInv, NEW r \in Releases, NEW t \in Titles, CreateRelease(r, t)
  PROVE  CatalogueIInv' /\ Lasting
<1> DEFINE row == [NoRelease EXCEPT !.status = "READY", !.of = t]
<1>1. row \in ReleaseRow /\ row.status = "READY" /\ row.of = t /\ row.files = {}
  BY DEF NoRelease, ReleaseRow
<1>2. /\ release' = [release EXCEPT ![r] = row] /\ UNCHANGED <<title, tree, stored, panel>>
      /\ release[r].status = "NONE" /\ title[t].status # "NONE"
  BY AcceptsTitle DEF CreateRelease
<1> HIDE DEF row
<1>3. panel' \in [Panels -> Request]
  BY <1>2 DEF CatalogueIInv, CatalogueTypeOK
<1>4. CatalogueTypeOK' /\ Rooted' /\ PublicHasFile' /\ Lasting
  BY <1>1, <1>2, <1>3, RowStep
<1> QED BY <1>2, <1>4, FoundUnmoved DEF CatalogueIInv

LEMMA EditReleaseStep ==
  ASSUME CatalogueIInv, NEW r \in Releases,
         \/ \E policy \in {"open", "premium"} : SetPolicy(r, policy)
         \/ \E f \in Files : Attach(r, f)
  PROVE  CatalogueIInv' /\ Lasting
<1>1. /\ release[r] \in ReleaseRow /\ release[r].status # "NONE"
      /\ release[r].of \in Titles /\ title[release[r].of].status # "NONE"
      /\ release[r].status = "PUBLISHED" => release[r].files # {}
      /\ \A f \in release[r].files : stored[f] = "READY"
  BY DEF SetPolicy, Attach, CatalogueIInv, CatalogueTypeOK, PublicHasFile
<1>2. UNCHANGED <<title, tree, stored, panel>> /\ panel' \in [Panels -> Request]
  BY DEF SetPolicy, Attach, CatalogueIInv, CatalogueTypeOK
<1>3. ASSUME NEW policy \in {"open", "premium"}, SetPolicy(r, policy)
      PROVE  CatalogueTypeOK' /\ Rooted' /\ PublicHasFile' /\ Lasting
  <2> DEFINE row == [release[r] EXCEPT !.policy = policy]
  <2>1. /\ row \in ReleaseRow /\ row.status = release[r].status /\ row.of = release[r].of
        /\ row.files = release[r].files
    BY <1>1 DEF ReleaseRow
  <2>2. release' = [release EXCEPT ![r] = row]
    BY <1>3 DEF SetPolicy
  <2> HIDE DEF row
  <2> QED BY <1>1, <1>2, <2>1, <2>2, RowStep
<1>4. ASSUME NEW f \in Files, Attach(r, f)
      PROVE  CatalogueTypeOK' /\ Rooted' /\ PublicHasFile' /\ Lasting
  <2> DEFINE row == [release[r] EXCEPT !.files = @ \cup {f}]
  <2>1. /\ row \in ReleaseRow /\ row.status = release[r].status /\ row.of = release[r].of
        /\ row.files = release[r].files \cup {f}
    BY <1>1 DEF ReleaseRow
  <2>2. release' = [release EXCEPT ![r] = row] /\ stored[f] = "READY"
    BY <1>4 DEF Attach
  <2> HIDE DEF row
  <2> QED BY <1>1, <1>2, <2>1, <2>2, RowStep
<1>5. CatalogueTypeOK' /\ Rooted' /\ PublicHasFile' /\ Lasting
  BY <1>3, <1>4
<1> QED BY <1>2, <1>5, FoundUnmoved DEF CatalogueIInv

LEMMA RegisterStep ==
  ASSUME CatalogueIInv, NEW f \in Files, NEW state \in {"bare", "READY"}, Register(f, state)
  PROVE  CatalogueIInv' /\ Lasting
<1>1. /\ stored' \in [Files -> StoredStates] /\ UNCHANGED <<title, tree, release, panel>>
      /\ \A g \in Files : stored[g] = "READY" => stored'[g] = "READY"
  BY DEF Register, CatalogueIInv, CatalogueTypeOK, StoredStates
<1>2. /\ release \in [Releases -> ReleaseRow] /\ panel \in [Panels -> Request]
      /\ \A r \in Releases : release[r].files \subseteq Files
      /\ \A r \in Releases : release[r].status # "NONE" =>
           release[r].of \in Titles /\ title[release[r].of].status # "NONE"
  BY DEF CatalogueIInv, CatalogueTypeOK, ReleaseRow
<1>3. PublicHasFile' /\ Lasting
  BY <1>1, <1>2 DEF CatalogueIInv, PublicHasFile, Lasting
<1>4. CatalogueTypeOK' /\ Rooted'
  BY <1>1, <1>2, <1>3, ReleaseRows
<1> QED BY <1>1, <1>3, <1>4, FoundUnmoved DEF CatalogueIInv

LEMMA SaveReleaseStep ==
  ASSUME CatalogueIInv, NEW p \in Panels, SaveRelease(p)
  PROVE  CatalogueIInv' /\ Lasting
<1> DEFINE w == panel[p]
           r == w.release
           row == [release[r] EXCEPT !.status = IF w.status = "same" THEN @ ELSE w.status]
<1>1. /\ r \in Releases /\ release[r].status # "NONE" /\ w.status \in {"same", "READY", "PUBLISHED"}
      /\ w.status = "PUBLISHED" => release[r].files # {}
  BY DEF SaveRelease, CatalogueIInv, FoundStays, Found
<1>2. /\ release[r] \in ReleaseRow
      /\ release[r].of \in Titles /\ title[release[r].of].status # "NONE"
      /\ release[r].status = "PUBLISHED" => release[r].files # {}
      /\ \A f \in release[r].files : stored[f] = "READY"
  BY <1>1 DEF CatalogueIInv, CatalogueTypeOK, PublicHasFile
<1>3. /\ row \in ReleaseRow /\ row.of = release[r].of /\ row.files = release[r].files
      /\ row.status = IF w.status = "same" THEN release[r].status ELSE w.status
  BY <1>1, <1>2 DEF ReleaseRow
<1>4. release' = [release EXCEPT ![r] = row] /\ UNCHANGED <<title, tree, stored>> /\ End(p)
  BY <1>2 DEF SaveRelease, ReleaseRow
<1>5. /\ panel' \in [Panels -> Request] /\ panel'[p].at = "idle"
      /\ \A q \in Panels : q # p => panel'[q] = panel[q]
  BY <1>4, EndTypes DEF CatalogueIInv
<1> HIDE DEF row, r, w
<1>6. CatalogueTypeOK' /\ Rooted' /\ PublicHasFile' /\ Lasting
  BY <1>1, <1>2, <1>3, <1>4, <1>5, RowStep
<1> QED BY <1>5, <1>6, FoundKept DEF CatalogueIInv

LEMMA SaveUploadStep ==
  ASSUME CatalogueIInv, NEW p \in Panels, SaveUpload(p)
  PROVE  CatalogueIInv' /\ Lasting
<1> DEFINE w == panel[p]
           r == w.release
           row == [NoRelease EXCEPT !.status = w.status, !.of = w.title, !.files = {w.file}]
<1>1. /\ w.title \in Titles /\ title[w.title].status # "NONE" /\ r \in Releases
      /\ w.file \in Files /\ stored[w.file] = "READY" /\ w.status \in {"READY", "PUBLISHED"}
  BY DEF SaveUpload, CatalogueIInv, FoundStays, Found
<1>2. row \in ReleaseRow /\ row.status = w.status /\ row.of = w.title /\ row.files = {w.file}
  BY <1>1 DEF NoRelease, ReleaseRow
<1>3. release' = [release EXCEPT ![r] = row] /\ UNCHANGED <<title, tree, stored>> /\ End(p)
  BY DEF SaveUpload
<1>4. /\ panel' \in [Panels -> Request] /\ panel'[p].at = "idle"
      /\ \A q \in Panels : q # p => panel'[q] = panel[q]
  BY <1>3, EndTypes DEF CatalogueIInv
<1> HIDE DEF row, r, w
<1>5. CatalogueTypeOK' /\ Rooted' /\ PublicHasFile' /\ Lasting
  BY <1>1, <1>2, <1>3, <1>4, RowStep
<1> QED BY <1>4, <1>5, FoundKept DEF CatalogueIInv

LEMMA PanelFailsStep ==
  ASSUME CatalogueIInv, NEW p \in Panels, PanelFails(p)
  PROVE  CatalogueIInv' /\ Lasting
<1>1. /\ panel' \in [Panels -> Request] /\ panel'[p].at = "idle"
      /\ \A q \in Panels : q # p => panel'[q] = panel[q]
  BY EndTypes DEF PanelFails, CatalogueIInv
<1>2. CatalogueTypeOK' /\ Rooted' /\ PublicHasFile' /\ Lasting
  BY <1>1, TitleRows DEF PanelFails, CatalogueIInv, CatalogueTypeOK, Rooted
<1> QED BY <1>1, <1>2, FoundKept DEF CatalogueIInv

LEMMA CatalogueInvInit == CatalogueInit => CatalogueIInv
<1> SUFFICES ASSUME CatalogueInit  PROVE CatalogueIInv
  OBVIOUS
<1>1. /\ NoTitle \in TitleRow /\ NoRelease \in ReleaseRow
      /\ NoRelease.status = "NONE" /\ NoRelease.files = {}
  BY DEF NoTitle, TitleRow, NoRelease, ReleaseRow
<1>2. CatalogueTypeOK
  BY <1>1, NoRequestType DEF CatalogueInit, CatalogueTypeOK, Trees, StoredStates
<1>3. Rooted /\ PublicHasFile
  BY <1>1 DEF CatalogueInit, Rooted, PublicHasFile
<1>4. FoundStays
  BY NoRequestType DEF CatalogueInit, FoundStays, Found
<1> QED BY <1>2, <1>3, <1>4 DEF CatalogueIInv

LEMMA CatalogueInvNext ==
  ASSUME CatalogueIInv, CatalogueNext \/ UNCHANGED catalogueVars
  PROVE  CatalogueIInv' /\ Lasting
<1>1. CASE Inserts
  BY <1>1, GrowStep, NewTitleStep, CreateReleaseStep, EditReleaseStep, RegisterStep DEF Inserts
<1>2. ASSUME NEW p \in Panels, Loads(p) \/ Saves(p)  PROVE CatalogueIInv' /\ Lasting
  BY <1>2, LoadStep, SaveTitleStep, SaveReleaseStep, SaveUploadStep, PanelFailsStep DEF Saves
<1>3. CASE UNCHANGED catalogueVars
  <2>1. UNCHANGED <<title, tree, release, stored, panel>>
    BY <1>3 DEF catalogueVars
  <2>2. CatalogueTypeOK' /\ Rooted' /\ PublicHasFile' /\ Lasting
    BY <2>1, TitleRows DEF CatalogueIInv, CatalogueTypeOK, Rooted
  <2> QED BY <2>1, <2>2, FoundUnmoved DEF CatalogueIInv
<1> QED BY <1>1, <1>2, <1>3 DEF CatalogueNext

-----------------------------------------------------------------------------
(*                  The rows that presses go through                       *)

(* A press under way is of a user and a release that exist, it started no  *)
(* later than today, and what it copies is a file that it has seen.        *)
Known(q) ==
  \/ q = NoPress
  \/ /\ q.user \in Users /\ q.release \in Releases /\ release[q.release].status # "NONE"
     /\ q.started <= day
     /\ q.file => release[q.release].files # {}
     /\ q.at \in {"allowed", "locked", "judged", "copy"} => q.file

RowsIInv ==
  /\ CatalogueIInv
  /\ account \in [Users -> {"ACTIVE", "BLOCKED"}]
  /\ subscribed \in [Users -> Levels]
  /\ \A h \in Slots : Known(press[h])
  /\ \A u \in Users : \A d \in Days : d > day => used[u][d] = 0

(* A file whose copy is sent lies in the storage channel.                  *)
CopiedIsStored ==
  \A h \in Slots : press[h].at = "copy" =>
    \E f \in Files : f \in release[press[h].release].files /\ stored[f] = "READY"

-----------------------------------------------------------------------------
(* Steps around the presses leave each of them known.                      *)
LEMMA KnownStays ==
  ASSUME NEW q \in Press, Known(q), Lasting, day \in Days, day' \in Days, day <= day'
  PROVE  Known(q)'
<1>1. CASE q = NoPress
  BY <1>1 DEF Known
<1>2. CASE /\ q.user \in Users /\ q.release \in Releases /\ release[q.release].status # "NONE"
           /\ q.started <= day
           /\ q.file => release[q.release].files # {}
           /\ q.at \in {"allowed", "locked", "judged", "copy"} => q.file
  <2>1. release'[q.release].status # "NONE" /\ (q.file => release'[q.release].files # {})
    BY <1>2 DEF Lasting
  <2>2. q.started <= day'
    BY <1>2 DEF Press, Days
  <2> QED BY <1>2, <2>1, <2>2 DEF Known
<1> QED BY <1>1, <1>2 DEF Known

LEMMA NothingChanges ==
  ASSUME UNCHANGED catalogueVars
  PROVE  UNCHANGED <<title, tree, release, stored, panel>>
  BY DEF catalogueVars

(* A step of one press that adds no row.                                   *)
LEMMA PressStep ==
  ASSUME DeliveryIInv, RowsIInv, Reading, NEW h \in Slots, NEW q, Turns(h, q), Known(q)
  PROVE  RowsIInv'
<1>1. /\ UNCHANGED <<account, subscribed, day, used>> /\ UNCHANGED catalogueVars
      /\ UNCHANGED <<title, tree, release, stored, panel>>
  BY NothingChanges DEF Reading
<1>2. CatalogueIInv'
  BY <1>1, CatalogueInvNext DEF RowsIInv
<1>3. ASSUME NEW k \in Slots  PROVE Known(press[k])'
  <2>1. press'[k] = press[k] \/ press'[k] = q
    BY DEF Turns, DeliveryIInv, Typed
  <2>2. Known(press[k])
    BY DEF RowsIInv
  <2> QED BY <1>1, <2>1, <2>2 DEF Known
<1> QED BY <1>1, <1>2, <1>3 DEF RowsIInv

LEMMA PassesStep ==
  ASSUME DeliveryIInv, RowsIInv, Reading, NEW h \in Slots, press[h].at # "idle",
         NEW ok \in BOOLEAN, NEW at \in {"public", "allowed", "locked"}, Passes(h, ok, at),
         ok /\ at \in {"allowed", "locked"} => press[h].file
  PROVE  RowsIInv'
<1> DEFINE q == [press[h] EXCEPT !.at = at]
<1>1. press[h] \in Press /\ press[h] # NoPress /\ Known(press[h])
  BY DEF DeliveryIInv, Typed, NoPress, RowsIInv
<1>2. /\ q.at = at /\ q.user = press[h].user /\ q.release = press[h].release
      /\ q.started = press[h].started /\ q.file = press[h].file
  BY <1>1 DEF Press
<1> HIDE DEF q
<1>3. CASE ok
  <2>1. Known(q)
    BY <1>1, <1>2, <1>3 DEF Known
  <2>2. Turns(h, q)
    BY <1>3 DEF Passes, q
  <2> QED BY <2>1, <2>2, PressStep
<1>4. CASE ~ok
  <2>1. Turns(h, NoPress) /\ Known(NoPress)
    BY <1>4 DEF Passes, Known
  <2> QED BY <2>1, PressStep
<1> QED BY <1>3, <1>4

LEMMA ReadRows ==
  ASSUME DeliveryIInv, RowsIInv, NEW h \in Slots, NEW u \in Users, NEW r \in Releases,
         ReadVariant(h, u, r)
  PROVE  RowsIInv'
<1> DEFINE q == [NoPress EXCEPT !.at = "read", !.user = u, !.release = r,
                                !.file = release[r].files # {}, !.started = day]
<1>1. Turns(h, q) /\ Reading /\ release[r].status # "NONE" /\ day \in Days
  BY DEF ReadVariant, DeliveryIInv, Typed
<1>2. /\ q.at = "read" /\ q.user = u /\ q.release = r /\ q.started = day
      /\ q.file <=> release[r].files # {}
  BY DEF NoPress
<1> HIDE DEF q
<1>3. Known(q)
  BY <1>1, <1>2 DEF Known, Days
<1> QED BY <1>1, <1>3, PressStep

LEMMA JudgeRows ==
  ASSUME DeliveryIInv, RowsIInv, NEW h \in Slots, Judge(h)
  PROVE  RowsIInv'
<1> DEFINE free == subscribed[press[h].user] = "none"
           late == day # press[h].started
           q == [press[h] EXCEPT !.at = "judged", !.free = free, !.late = late]
<1>1. /\ press[h] \in Press /\ press[h] # NoPress /\ Known(press[h]) /\ Reading
      /\ press[h].at = "locked"
  BY DEF Judge, DeliveryIInv, Typed, NoPress, RowsIInv
<1>2. /\ q.at = "judged" /\ q.user = press[h].user /\ q.release = press[h].release
      /\ q.started = press[h].started /\ q.file = press[h].file
  BY <1>1 DEF Press
<1>3. Turns(h, q) \/ Turns(h, NoPress)
  BY DEF Judge
<1> HIDE DEF q
<1>4. Known(q) /\ Known(NoPress)
  BY <1>1, <1>2 DEF Known
<1> QED BY <1>1, <1>3, <1>4, PressStep

LEMMA CommitRows ==
  ASSUME DeliveryIInv, RowsIInv, NEW h \in Slots, Commit(h)
  PROVE  RowsIInv'
<1> DEFINE u == press[h].user
           d == press[h].started
           q == [press[h] EXCEPT !.at = "copy"]
<1>1. /\ press[h] \in Press /\ press[h] # NoPress /\ Known(press[h])
      /\ press[h].at = "judged" /\ u \in Users /\ d \in Days
  BY DEF Commit, DeliveryIInv, Typed, NoPress, RowsIInv, Press
<1>2. /\ used' = [used EXCEPT ![u][d] = @ + 1] /\ Turns(h, q)
      /\ UNCHANGED <<account, subscribed, day>> /\ UNCHANGED catalogueVars
      /\ UNCHANGED <<title, tree, release, stored, panel>>
  BY NothingChanges DEF Commit, Passes
<1>3. /\ q.at = "copy" /\ q.user = press[h].user /\ q.release = press[h].release
      /\ q.started = press[h].started /\ q.file = press[h].file
  BY <1>1 DEF Press
<1>4. d <= day
  BY <1>1 DEF Known
<1> HIDE DEF q, u, d
<1>5. Known(q)
  BY <1>1, <1>3 DEF Known
<1>6. ASSUME NEW k \in Slots  PROVE Known(press[k])'
  <2>1. press'[k] = press[k] \/ press'[k] = q
    BY <1>2 DEF Turns, DeliveryIInv, Typed
  <2>2. Known(press[k])
    BY DEF RowsIInv
  <2> QED BY <1>2, <1>5, <2>1, <2>2 DEF Known
<1>7. ASSUME NEW v \in Users, NEW e \in Days, e > day  PROVE used'[v][e] = 0
  <2>1. used[v][e] = 0
    BY <1>7 DEF RowsIInv
  <2>2. e # d
    BY <1>4, <1>7, <1>1 DEF DeliveryIInv, Typed, Days
  <2>3. used'[v][e] = used[v][e]
    BY <1>1, <1>2, <2>2 DEF DeliveryIInv, Typed
  <2> QED BY <2>1, <2>3
<1>8. CatalogueIInv'
  BY <1>2, CatalogueInvNext DEF RowsIInv
<1> QED BY <1>2, <1>6, <1>7, <1>8 DEF RowsIInv

LEMMA StepRows ==
  ASSUME DeliveryIInv, RowsIInv, NEW h \in Slots, Step(h)
  PROVE  RowsIInv'
<1>1. Known(press[h])
  BY DEF RowsIInv
<1>2. CASE CheckTitle(h) \/ CheckAccess(h)
  <2>1. PICK ok \in BOOLEAN : \/ Passes(h, ok, "public")
                              \/ Passes(h, ok, "allowed") /\ (ok => press[h].file)
    BY <1>2 DEF CheckTitle, CheckAccess
  <2>2. Reading /\ press[h].at # "idle"
    BY <1>2 DEF CheckTitle, CheckAccess
  <2> QED BY <2>1, <2>2, PassesStep
<1>3. CASE Lock(h)
  <2>1. press[h].at = "allowed" /\ Reading /\ Passes(h, TRUE, "locked")
    BY <1>3 DEF Lock
  <2>2. press[h].file
    BY <1>1, <2>1 DEF Known, NoPress
  <2> QED BY <2>1, <2>2, PassesStep
<1>4. CASE Copy(h) \/ PressDies(h)
  <2>1. Turns(h, NoPress) /\ Reading /\ Known(NoPress)
    BY <1>4 DEF Copy, PressDies, Known
  <2> QED BY <2>1, PressStep
<1> QED BY <1>2, <1>3, <1>4, ReadRows, JudgeRows, CommitRows DEF Step

LEMMA RowsInvInit == DeliveryInit => RowsIInv
<1> SUFFICES ASSUME DeliveryInit  PROVE RowsIInv
  OBVIOUS
<1>1. CatalogueIInv
  BY CatalogueInvInit DEF DeliveryInit
<1>2. /\ account \in [Users -> {"ACTIVE", "BLOCKED"}] /\ subscribed \in [Users -> Levels]
      /\ \A h \in Slots : Known(press[h])
      /\ \A u \in Users : \A d \in Days : used[u][d] = 0
  BY DEF DeliveryInit, Levels, Known
<1> QED BY <1>1, <1>2 DEF RowsIInv

LEMMA RowsInvNext == DeliveryIInv /\ RowsIInv /\ [DeliveryNext]_deliveryVars => RowsIInv'
<1> SUFFICES ASSUME DeliveryIInv, RowsIInv, [DeliveryNext]_deliveryVars  PROVE RowsIInv'
  OBVIOUS
<1>1. day \in Days /\ press \in [Slots -> Press] /\ \A h \in Slots : Known(press[h])
  BY DEF DeliveryIInv, Typed, RowsIInv
<1>2. CASE (CatalogueNext \/ UNCHANGED catalogueVars) /\ UNCHANGED downloadVars
  <2>1. CatalogueIInv' /\ Lasting
    BY <1>2, CatalogueInvNext DEF RowsIInv
  <2>2. UNCHANGED <<account, subscribed, day, used, granted, press>>
    BY <1>2 DEF downloadVars
  <2>3. ASSUME NEW h \in Slots  PROVE Known(press[h])'
    <3>1. Known(press[h]) /\ press[h] \in Press /\ day <= day' /\ day' \in Days
      BY <1>1, <2>2 DEF Days
    <3> QED BY <1>1, <2>1, <2>2, <3>1, KnownStays DEF Known
  <2> QED BY <2>1, <2>2, <2>3 DEF RowsIInv
<1>3. ASSUME NEW h \in Slots, Step(h)  PROVE RowsIInv'
  BY <1>3, StepRows
<1>4. CASE Around
  <2>1. UNCHANGED catalogueVars /\ UNCHANGED <<title, tree, release, stored, panel>> /\ UNCHANGED <<used, press>>
    BY <1>4, NothingChanges DEF Around, SetStatus, Subscribe, Lapse, Midnight
  <2>2. CatalogueIInv'
    BY <2>1, CatalogueInvNext DEF RowsIInv
  <2>3. account' \in [Users -> {"ACTIVE", "BLOCKED"}] /\ subscribed' \in [Users -> Levels]
    BY <1>4 DEF Around, SetStatus, Subscribe, Lapse, Midnight, RowsIInv, Levels
  <2>4. day' \in Days /\ day <= day'
    BY <1>1, <1>4 DEF Around, SetStatus, Subscribe, Lapse, Midnight, Days
  <2>5. ASSUME NEW h \in Slots  PROVE Known(press[h])'
    <3>1. Known(press[h]) /\ press[h] \in Press /\ press'[h] = press[h]
      BY <1>1, <2>1
    <3> QED BY <1>1, <2>1, <2>4, <3>1 DEF Known, Press, Days
  <2>6. ASSUME NEW u \in Users, NEW d \in Days, d > day'  PROVE used'[u][d] = 0
    <3>1. d > day
      BY <1>1, <2>4, <2>6 DEF Days
    <3> QED BY <2>1, <3>1 DEF RowsIInv
  <2> QED BY <2>2, <2>3, <2>5, <2>6 DEF RowsIInv
<1>5. CASE UNCHANGED deliveryVars
  BY <1>2, <1>5 DEF deliveryVars
<1> QED BY <1>2, <1>3, <1>4, <1>5 DEF DeliveryNext

(* Presses, edits of the catalogue and the calendar keep the rows in       *)
(* shape: no download is dated into a day to come, and a press under way   *)
(* is of a user and a release that exist.                                  *)
THEOREM DeliveryTypes == DeliverySpec => []DeliveryTypeOK
<1>1. DeliveryIInv /\ RowsIInv => DeliveryTypeOK
  BY DEF DeliveryIInv, Typed, RowsIInv, CatalogueIInv, Known, DeliveryTypeOK
<1> QED BY DeliveryInvInit, DeliveryInvNext, RowsInvInit, RowsInvNext, <1>1, PTL DEF DeliverySpec

(* What is copied to a user lies in the storage channel: a press that was  *)
(* allowed to go on has seen a file of its release, and neither the panel  *)
(* nor an upload takes it away while the press waits for its lock.         *)
THEOREM CopiesWhatIsStored == DeliverySpec => []CopiedIsStored
<1>1. DeliveryIInv /\ RowsIInv => CopiedIsStored
  <2> SUFFICES ASSUME DeliveryIInv, RowsIInv, NEW h \in Slots, press[h].at = "copy"
               PROVE  \E f \in Files : f \in release[press[h].release].files /\ stored[f] = "READY"
    BY DEF CopiedIsStored
  <2>1. press[h].release \in Releases /\ release[press[h].release].files # {}
    BY DEF RowsIInv, Known, NoPress
  <2>2. release[press[h].release] \in ReleaseRow
    BY <2>1 DEF RowsIInv, CatalogueIInv, CatalogueTypeOK
  <2>3. PICK f \in Files : f \in release[press[h].release].files
    BY <2>1, <2>2 DEF ReleaseRow
  <2> QED BY <2>1, <2>3 DEF RowsIInv, CatalogueIInv, PublicHasFile
<1> QED BY DeliveryInvInit, DeliveryInvNext, RowsInvInit, RowsInvNext, <1>1, PTL DEF DeliverySpec

(* A public release has a file that can be sent, whatever the transactions *)
(* of the panel read before they wrote: a check that PATCH /releases made  *)
(* on a row it had not locked is still true when it publishes.             *)
THEOREM PublicReleasesHaveFiles == DeliverySpec => []PublicHasFile
<1>1. RowsIInv => PublicHasFile
  BY DEF RowsIInv, CatalogueIInv
<1> QED BY DeliveryInvInit, DeliveryInvNext, RowsInvInit, RowsInvNext, <1>1, PTL DEF DeliverySpec

(* No title, series, release or file of the catalogue vanishes, a release  *)
(* never loses its last file, and a file that is ready stays so: what a    *)
(* user was shown a moment ago may be hidden by now, and is still there.   *)
THEOREM CatalogueLasts == DeliverySpec => [][Lasting]_deliveryVars
<1>1. ASSUME RowsIInv, [DeliveryNext]_deliveryVars  PROVE Lasting
  <2>1. CASE CatalogueNext \/ UNCHANGED catalogueVars
    BY <1>1, <2>1, CatalogueInvNext DEF RowsIInv
  <2>2. ASSUME NEW h \in Slots, Step(h)  PROVE UNCHANGED catalogueVars
    BY <2>2 DEF Step, ReadVariant, CheckTitle, CheckAccess, Lock, Judge, Commit, Copy, PressDies,
       Reading
  <2>3. ASSUME Around  PROVE UNCHANGED catalogueVars
    BY <2>3 DEF Around, SetStatus, Subscribe, Lapse, Midnight
  <2>4. ASSUME UNCHANGED deliveryVars  PROVE UNCHANGED catalogueVars
    BY <2>4 DEF deliveryVars
  <2> QED BY <1>1, <2>1, <2>2, <2>3, <2>4 DEF DeliveryNext
<1>2. RowsIInv /\ [DeliveryNext]_deliveryVars => [Lasting]_deliveryVars
  BY <1>1
<1> QED BY DeliveryInvInit, DeliveryInvNext, RowsInvInit, RowsInvNext, <1>2, PTL DEF DeliverySpec

-----------------------------------------------------------------------------
(*                             The daily sends                             *)

(* The send of the kind has happened and its date is still to be written.  *)
Unwritten(kind) ==
  pass.today /\ pass.at = IF kind = "report" THEN "reported" ELSE "stored"

(* A send of the kind would not be one too many.                           *)
Owed(kind) == sends[kind] <= slips

(* A date that is missing from the file is one that a slip has cost, or    *)
(* the running pass is about to write.                                     *)
MissingIsOwed == \A kind \in Kinds : ~marks[kind] /\ ~Unwritten(kind) => Owed(kind)

(* The same of the dates in the state that the pass will write back.       *)
Reads == pass.at \in {"reporting", "reported", "dumping", "stored"}

CopyIsOwed ==
  Reads => \A kind \in Kinds : ~pass.state[kind] /\ ~Unwritten(kind) => Owed(kind)

(* A pass only sends what it has read as not sent.                         *)
SendsWhatIsMissing ==
  /\ pass.at \in {"reporting", "reported"} => ~pass.state["report"]
  /\ pass.at \in {"dumping", "stored"} => ~pass.state["backup"]

UpkeepIInv ==
  UpkeepTypeOK /\ SentOncePerSlip /\ MissingIsOwed /\ CopyIsOwed /\ SendsWhatIsMissing

-----------------------------------------------------------------------------
LEMMA MarksType == NoMarks \in Marks /\ \A kind \in Kinds : ~NoMarks[kind]
  BY DEF NoMarks, Marks

LEMMA PassType ==
  ASSUME NEW at \in {"idle", "reporting", "reported", "saved", "dumping", "stored"},
         NEW today \in BOOLEAN, NEW state \in Marks
  PROVE  [at |-> at, today |-> today, state |-> state] \in Pass
  BY DEF Pass

LEMMA NoPassType == NoPass \in Pass /\ NoPass.at = "idle"
  BY MarksType DEF NoPass, Pass

LEMMA ReportOverType == ReportOver \in Pass /\ ReportOver.at = "saved"
  BY MarksType DEF ReportOver, NoPass, Pass

LEMMA SlipTypes ==
  ASSUME slips \in 0..MaxSlips, Slip
  PROVE  slips' \in 0..MaxSlips /\ slips' = slips + 1
  BY DEF Slip

(* Reading the file: each date that is missing from what was read is owed, *)
(* since a file that could not be read costs a slip.                       *)
LEMMA LoadedIsOwed ==
  ASSUME UpkeepIInv, NEW state \in Marks, Loaded(state), pass.at \in {"idle", "saved"}
  PROVE  /\ slips' \in 0..MaxSlips /\ slips <= slips'
         /\ \A kind \in Kinds : ~state[kind] => sends[kind] <= slips'
<1>1. /\ slips \in 0..MaxSlips /\ MaxSlips \in Nat
      /\ \A kind \in Kinds : sends[kind] \in Nat /\ sends[kind] <= 1 + slips
  BY DEF UpkeepIInv, UpkeepTypeOK, SentOncePerSlip
<1>2. CASE state = marks /\ UNCHANGED slips
  <2>1. \A kind \in Kinds : ~Unwritten(kind)
    BY DEF Unwritten
  <2> QED BY <1>1, <1>2, <2>1 DEF UpkeepIInv, MissingIsOwed, Owed
<1>3. CASE state = NoMarks /\ Slip
  BY <1>1, <1>3, SlipTypes
<1> QED BY <1>2, <1>3 DEF Loaded

(* Steps that send nothing, leave the file alone and may cost slips: the   *)
(* pass goes on with a state whose missing dates are owed, or is over.     *)
LEMMA PassStep ==
  ASSUME UpkeepIInv, pass' \in Pass, clock' \in [saturday : BOOLEAN, late : BOOLEAN],
         UNCHANGED <<marks, sends>>, slips' \in 0..MaxSlips, slips <= slips',
         pass'.at \notin {"reported", "stored"},
         \A kind \in Kinds : Unwritten(kind) => sends[kind] <= slips',
         pass'.at \in {"reporting", "dumping"} =>
           \A kind \in Kinds : ~pass'.state[kind] => sends[kind] <= slips',
         SendsWhatIsMissing'
  PROVE  UpkeepIInv'
<1>1. /\ slips \in Nat /\ slips' \in Nat
      /\ \A kind \in Kinds : sends[kind] \in Nat /\ sends[kind] <= 1 + slips
  BY DEF UpkeepIInv, UpkeepTypeOK, SentOncePerSlip
<1>2. UpkeepTypeOK'
  BY DEF UpkeepIInv, UpkeepTypeOK
<1>3. SentOncePerSlip'
  BY <1>1 DEF SentOncePerSlip
<1>4. MissingIsOwed'
  BY <1>1 DEF UpkeepIInv, MissingIsOwed, Owed
<1>5. CopyIsOwed'
  BY <1>1 DEF CopyIsOwed, Reads, Owed
<1> QED BY <1>2, <1>3, <1>4, <1>5 DEF UpkeepIInv

LEMMA StartStep == UpkeepIInv /\ StartPass => UpkeepIInv'
<1> SUFFICES ASSUME UpkeepIInv, StartPass  PROVE UpkeepIInv'
  OBVIOUS
<1>1. /\ pass.at = "idle" /\ UNCHANGED <<clock, marks, sends>>
      /\ clock \in [saturday : BOOLEAN, late : BOOLEAN] /\ slips \in 0..MaxSlips
      /\ \A kind \in Kinds : ~Unwritten(kind)
  BY NoPassType DEF StartPass, UpkeepIInv, UpkeepTypeOK, Unwritten
<1>2. CASE pass' = ReportOver /\ UNCHANGED slips
  <2>1. SendsWhatIsMissing'
    BY <1>2, ReportOverType DEF SendsWhatIsMissing
  <2>2. slips <= slips'
    BY <1>1, <1>2
  <2> QED BY <1>1, <1>2, <2>1, <2>2, ReportOverType, PassStep
<1>3. ASSUME NEW state \in Marks, Loaded(state),
             IF state["report"] THEN pass' = ReportOver ELSE GoesOn("reporting", state)
      PROVE  UpkeepIInv'
  <2>1. /\ pass' \in Pass /\ pass'.at \in {"saved", "reporting"}
        /\ pass'.at = "reporting" => pass'.state = state /\ ~state["report"]
    <3>1. CASE state["report"] /\ pass' = ReportOver
      BY <3>1, ReportOverType
    <3>2. CASE ~state["report"] /\ GoesOn("reporting", state)
      BY <3>2, PassType DEF GoesOn
    <3> QED BY <1>3, <3>1, <3>2
  <2>2. SendsWhatIsMissing'
    BY <2>1 DEF SendsWhatIsMissing
  <2>3. /\ slips' \in 0..MaxSlips /\ slips <= slips'
        /\ \A kind \in Kinds : ~state[kind] => sends[kind] <= slips'
    BY <1>1, <1>3, LoadedIsOwed
  <2> QED BY <1>1, <2>1, <2>2, <2>3, PassStep
<1> QED BY <1>2, <1>3 DEF StartPass

LEMMA CheckBackupStep == UpkeepIInv /\ CheckBackup => UpkeepIInv'
<1> SUFFICES ASSUME UpkeepIInv, CheckBackup  PROVE UpkeepIInv'
  OBVIOUS
<1>1. /\ pass.at = "saved" /\ UNCHANGED <<clock, marks, sends>>
      /\ clock \in [saturday : BOOLEAN, late : BOOLEAN]
      /\ \A kind \in Kinds : ~Unwritten(kind)
  BY DEF CheckBackup, UpkeepIInv, UpkeepTypeOK, Unwritten
<1>2. PICK state \in Marks : /\ Loaded(state)
                             /\ IF state["backup"] \/ ~clock.late
                                  THEN pass' = NoPass ELSE GoesOn("dumping", state)
  BY DEF CheckBackup
<1>3. /\ slips' \in 0..MaxSlips /\ slips <= slips'
      /\ \A kind \in Kinds : ~state[kind] => sends[kind] <= slips'
  BY <1>1, <1>2, LoadedIsOwed
<1>4. CASE pass' = NoPass
  BY <1>1, <1>3, <1>4, NoPassType, PassStep DEF SendsWhatIsMissing
<1>5. CASE GoesOn("dumping", state) /\ ~state["backup"]
  <2>1. pass' \in Pass /\ pass'.state = state /\ pass'.at = "dumping"
    BY <1>5, PassType DEF GoesOn
  <2>2. SendsWhatIsMissing'
    BY <1>5, <2>1 DEF SendsWhatIsMissing
  <2> QED BY <1>1, <1>3, <2>1, <2>2, PassStep
<1> QED BY <1>2, <1>4, <1>5

(* The pass ends with a slip, which pays for what it has not written.      *)
LEMMA CutShortStep == UpkeepIInv /\ (SaveFails \/ UpkeepDies) => UpkeepIInv'
<1> SUFFICES ASSUME UpkeepIInv, SaveFails \/ UpkeepDies  PROVE UpkeepIInv'
  OBVIOUS
<1>1. pass' = NoPass /\ UNCHANGED <<clock, marks, sends>> /\ Slip
  BY DEF SaveFails, UpkeepDies
<1>2. slips \in 0..MaxSlips /\ clock \in [saturday : BOOLEAN, late : BOOLEAN]
  BY DEF UpkeepIInv, UpkeepTypeOK
<1>3. slips' \in 0..MaxSlips /\ slips' = slips + 1 /\ slips <= slips'
  BY <1>1, <1>2, SlipTypes
<1>4. \A kind \in Kinds : sends[kind] <= slips'
  BY <1>2, <1>3 DEF UpkeepIInv, UpkeepTypeOK, SentOncePerSlip
<1>5. SendsWhatIsMissing'
  BY <1>1, NoPassType DEF SendsWhatIsMissing
<1> QED BY <1>1, <1>2, <1>3, <1>4, <1>5, NoPassType, PassStep

(* A send that was owed makes the date of its kind one that is unwritten;  *)
(* when its answer is lost, the slip pays for it.                          *)
LEMMA SendStep == UpkeepIInv /\ (SendReport \/ Dump) => UpkeepIInv'
<1> SUFFICES ASSUME UpkeepIInv, SendReport \/ Dump  PROVE UpkeepIInv'
  OBVIOUS
<1>1. /\ pass \in Pass /\ slips \in 0..MaxSlips /\ slips \in Nat /\ UNCHANGED <<clock, marks>>
      /\ sends \in [Kinds -> Nat] /\ clock \in [saturday : BOOLEAN, late : BOOLEAN]
      /\ marks \in Marks /\ \A k \in Kinds : sends[k] \in Nat /\ sends[k] <= 1 + slips
  BY DEF UpkeepIInv, UpkeepTypeOK, SentOncePerSlip, SendReport, Dump
<1>2. PICK kind \in Kinds : /\ pass.at = IF kind = "report" THEN "reporting" ELSE "dumping"
                            /\ ~pass.state[kind]
                            /\ kind = "report" => SendReport
                            /\ kind # "report" => Dump
  BY DEF SendReport, Dump, Kinds, UpkeepIInv, SendsWhatIsMissing
<1>3. \A k \in Kinds : ~Unwritten(k)
  BY <1>2 DEF Unwritten
<1>4. Owed(kind)
  BY <1>2, <1>3 DEF UpkeepIInv, CopyIsOwed, Reads
<1>5. ASSUME pass' \in {NoPass, ReportOver}
      PROVE  pass' \in Pass /\ pass'.at \in {"idle", "saved"} /\ SendsWhatIsMissing'
  <2>1. pass' \in Pass /\ pass'.at \in {"idle", "saved"}
    BY <1>5, NoPassType, ReportOverType
  <2> QED BY <2>1 DEF SendsWhatIsMissing
<1>6. ASSUME Counted(kind)
      PROVE  /\ sends' \in [Kinds -> Nat]
             /\ \A k \in Kinds : k # kind => sends'[k] = sends[k]
             /\ sends'[kind] = IF pass.today THEN sends[kind] + 1 ELSE sends[kind]
  BY <1>1, <1>6 DEF Counted
<1>7. CASE /\ UNCHANGED <<sends, slips>>
           /\ pass' \in {NoPass, ReportOver}
  <2>1. slips <= slips' /\ slips' \in 0..MaxSlips
    BY <1>1, <1>7
  <2> QED BY <1>1, <1>3, <1>5, <1>7, <2>1, PassStep
<1>8. CASE /\ Counted(kind) /\ Slip
           /\ pass' \in {NoPass, ReportOver}
  <2>1. slips' \in 0..MaxSlips /\ slips' = slips + 1
    BY <1>1, <1>8, SlipTypes
  <2>2. \A k \in Kinds : sends'[k] \in Nat /\ sends'[k] <= slips'
    BY <1>1, <1>4, <1>6, <1>8, <2>1 DEF Owed
  <2>3. UpkeepTypeOK'
    BY <1>1, <1>5, <1>6, <1>8, <2>1 DEF UpkeepTypeOK
  <2>4. SentOncePerSlip' /\ MissingIsOwed' /\ CopyIsOwed'
    BY <1>1, <2>1, <2>2 DEF SentOncePerSlip, MissingIsOwed, CopyIsOwed, Owed
  <2> QED BY <1>5, <1>8, <2>3, <2>4 DEF UpkeepIInv
<1>9. CASE /\ Counted(kind) /\ UNCHANGED slips
           /\ pass' = [pass EXCEPT !.at = IF kind = "report" THEN "reported" ELSE "stored"]
  <2>1. /\ pass' \in Pass /\ pass'.at = IF kind = "report" THEN "reported" ELSE "stored"
        /\ pass'.today = pass.today /\ pass'.state = pass.state
    BY <1>1, <1>9 DEF Pass
  <2>2. UpkeepTypeOK'
    BY <1>1, <1>6, <1>9, <2>1 DEF UpkeepTypeOK
  <2>3. sends'[kind] <= 1 + slips /\ (pass.today \/ sends'[kind] <= slips)
    BY <1>1, <1>4, <1>6, <1>9 DEF Owed
  <2>4. SentOncePerSlip'
    BY <1>1, <1>6, <1>9, <2>3 DEF SentOncePerSlip
  <2>5. \A k \in Kinds : k # kind => (Owed(k))' = Owed(k)
    BY <1>6, <1>9 DEF Owed
  <2>6. ~(Unwritten(kind))' => (Owed(kind))'
    BY <1>9, <2>1, <2>3 DEF Unwritten, Owed
  <2>7. MissingIsOwed'
    BY <1>1, <1>3, <2>5, <2>6 DEF UpkeepIInv, MissingIsOwed
  <2>8. CopyIsOwed'
    BY <1>2, <1>3, <2>1, <2>5, <2>6 DEF UpkeepIInv, CopyIsOwed, Reads
  <2>9. SendsWhatIsMissing'
    BY <1>2, <2>1 DEF SendsWhatIsMissing, Kinds
  <2> QED BY <2>2, <2>4, <2>7, <2>8, <2>9 DEF UpkeepIInv
<1> QED BY <1>2, <1>7, <1>8, <1>9 DEF SendReport, Dump, Sends, Kinds

(* Writing the whole state back: the date of the kind is there, unless     *)
(* midnight has passed, and the other date is the one that was read.       *)
LEMMA WriteStep == UpkeepIInv /\ (MarkReport \/ MarkBackup) => UpkeepIInv'
<1> SUFFICES ASSUME UpkeepIInv, MarkReport \/ MarkBackup  PROVE UpkeepIInv'
  OBVIOUS
<1>1. /\ pass \in Pass /\ UNCHANGED <<clock, sends, slips>>
      /\ pass.state \in Marks /\ pass.today \in BOOLEAN
  BY DEF UpkeepIInv, UpkeepTypeOK, MarkReport, MarkBackup, Pass
<1>2. PICK kind \in Kinds : /\ pass.at = IF kind = "report" THEN "reported" ELSE "stored"
                            /\ SavesMark(kind)
  BY DEF MarkReport, MarkBackup, Kinds
<1>3. pass' \in Pass /\ pass'.at \in {"saved", "idle"}
  BY NoPassType, ReportOverType DEF MarkReport, MarkBackup
<1>4. /\ marks' \in Marks
      /\ marks'[kind] = pass.today
      /\ \A k \in Kinds : k # kind => marks'[k] = pass.state[k]
  BY <1>1, <1>2 DEF SavesMark, Marks
<1>5. \A k \in Kinds : ~(Unwritten(k))' /\ (Owed(k))' = Owed(k)
  BY <1>1, <1>3 DEF Unwritten, Owed
<1>6. \A k \in Kinds : ~pass.state[k] /\ ~Unwritten(k) => Owed(k)
  BY <1>2 DEF UpkeepIInv, CopyIsOwed, Reads
<1>7. \A k \in Kinds : Unwritten(k) => k = kind
  BY <1>2 DEF Unwritten, Kinds
<1>8. ~pass.today => \A k \in Kinds : ~Unwritten(k)
  BY DEF Unwritten
<1>9. ~pass.state[kind]
  BY <1>2 DEF UpkeepIInv, SendsWhatIsMissing, Kinds
<1>10. MissingIsOwed'
  <2> SUFFICES ASSUME NEW k \in Kinds, ~marks'[k]  PROVE Owed(k)
    BY <1>5 DEF MissingIsOwed
  <2>1. CASE k = kind
    BY <1>4, <1>6, <1>8, <1>9, <2>1
  <2>2. CASE k # kind
    BY <1>4, <1>6, <1>7, <2>2
  <2> QED BY <2>1, <2>2
<1>11. UpkeepTypeOK' /\ SentOncePerSlip'
  BY <1>1, <1>3, <1>4 DEF UpkeepIInv, UpkeepTypeOK, SentOncePerSlip
<1>12. CopyIsOwed' /\ SendsWhatIsMissing'
  BY <1>3 DEF CopyIsOwed, Reads, SendsWhatIsMissing
<1> QED BY <1>10, <1>11, <1>12 DEF UpkeepIInv

LEMMA BackupHourStep == UpkeepIInv /\ BackupHour => UpkeepIInv'
<1> SUFFICES ASSUME UpkeepIInv, BackupHour  PROVE UpkeepIInv'
  OBVIOUS
<1>1. clock' \in [saturday : BOOLEAN, late : BOOLEAN] /\ UNCHANGED <<marks, pass, sends, slips>>
  BY DEF BackupHour, UpkeepIInv, UpkeepTypeOK
<1> QED BY <1>1 DEF UpkeepIInv, UpkeepTypeOK, SentOncePerSlip, MissingIsOwed, CopyIsOwed, Reads,
                    SendsWhatIsMissing, Unwritten, Owed

(* Midnight: nothing is sent for the new day, and a pass that began before *)
(* it writes back no date of today's.                                      *)
LEMMA MidnightStep == UpkeepIInv /\ NewDay => UpkeepIInv'
<1> SUFFICES ASSUME UpkeepIInv, NewDay  PROVE UpkeepIInv'
  OBVIOUS
<1>1. pass \in Pass /\ MaxSlips \in Nat
  BY DEF UpkeepIInv, UpkeepTypeOK
<1>2. pass' \in Pass /\ pass'.state = NoMarks
  BY <1>1, MarksType DEF NewDay, Pass
<1>3. sends' \in [Kinds -> Nat] /\ slips' = 0 /\ \A kind \in Kinds : sends'[kind] = 0
  BY DEF NewDay
<1>4. UpkeepTypeOK'
  BY <1>1, <1>2, <1>3, MarksType DEF NewDay, UpkeepTypeOK
<1>5. SentOncePerSlip' /\ MissingIsOwed' /\ CopyIsOwed'
  BY <1>3 DEF SentOncePerSlip, MissingIsOwed, CopyIsOwed, Owed
<1>6. SendsWhatIsMissing'
  BY <1>2, MarksType DEF SendsWhatIsMissing, Kinds
<1> QED BY <1>4, <1>5, <1>6 DEF UpkeepIInv

LEMMA UpkeepInvInit == UpkeepInit => UpkeepIInv
<1> SUFFICES ASSUME UpkeepInit  PROVE UpkeepIInv
  OBVIOUS
<1>1. UpkeepTypeOK
  BY MarksType, NoPassType DEF UpkeepInit, UpkeepTypeOK
<1>2. SentOncePerSlip /\ MissingIsOwed /\ CopyIsOwed
  BY DEF UpkeepInit, SentOncePerSlip, MissingIsOwed, CopyIsOwed, Owed
<1>3. SendsWhatIsMissing
  BY NoPassType DEF UpkeepInit, SendsWhatIsMissing
<1> QED BY <1>1, <1>2, <1>3 DEF UpkeepIInv

LEMMA UpkeepInvNext == UpkeepIInv /\ (UpkeepNext \/ UpkeepDies \/ UNCHANGED upkeepVars) => UpkeepIInv'
<1> SUFFICES ASSUME UpkeepIInv, UpkeepNext \/ UpkeepDies \/ UNCHANGED upkeepVars  PROVE UpkeepIInv'
  OBVIOUS
<1>1. CASE UNCHANGED upkeepVars
  BY <1>1 DEF upkeepVars, UpkeepIInv, UpkeepTypeOK, SentOncePerSlip, MissingIsOwed, CopyIsOwed, Reads,
              SendsWhatIsMissing, Unwritten, Owed
<1> QED BY <1>1, StartStep, SendStep, WriteStep, CheckBackupStep, CutShortStep, BackupHourStep,
           MidnightStep DEF UpkeepNext

-----------------------------------------------------------------------------
(*                                The gate                                 *)
LEMMA GoesHandler ==
  ASSUME GateTypeOK, NEW k \in Checks, NEW next \in Handler, Goes(k, next)
  PROVE  check' \in [Checks -> Handler]
  BY DEF GateTypeOK, Goes

LEMMA NoHandlerType == NoHandler \in Handler
  BY DEF NoHandler, Handler

LEMMA EntryTypes == NoEntry \in Entry /\ \A b \in BOOLEAN : [age |-> 0, joined |-> b] \in Entry
  BY DEF NoEntry, Entry, TTL

LEMMA AnswersTypes ==
  ASSUME GateTypeOK, NEW k \in Checks, NEW passes, Answers(k, passes)
  PROVE  check' \in [Checks -> Handler] /\ answer' \in {"none", "passed", "blocked"}
  BY GoesHandler, NoHandlerType DEF Answers

LEMMA SeesGateTypes ==
  ASSUME GateTypeOK, NEW on, SeesGate(on)
  PROVE  config' \in {"none", "on", "off"}
  BY DEF GateTypeOK, SeesGate

LEMMA CheckTypes ==
  ASSUME GateTypeOK, NEW k \in Checks,
         \/ Arrive(k) \/ Verify(k) \/ Handle(k)
         \/ \E c \in Channels, missing \in BOOLEAN : AskFails(k, c, missing)
  PROVE  GateTypeOK'
<1>1. /\ check[k] \in Handler
      /\ [NoHandler EXCEPT !.at = "gated"] \in Handler
      /\ [NoHandler EXCEPT !.at = "gated", !.force = TRUE] \in Handler
  BY NoHandlerType DEF GateTypeOK, Handler
<1>2. CASE Arrive(k)
  <2>1. config' \in {"none", "on", "off"}
    BY <1>2, SeesGateTypes DEF Arrive
  <2>2. check' \in [Checks -> Handler] /\ answer' \in {"none", "passed", "blocked"}
    BY <1>1, <1>2, GoesHandler, AnswersTypes DEF Arrive, GateTypeOK
  <2> QED BY <1>2, <2>1, <2>2 DEF Arrive, world, GateTypeOK
<1>3. CASE Verify(k)
  BY <1>1, <1>3, GoesHandler, EntryTypes DEF Verify, world, GateTypeOK
<1>4. CASE Hit(k)
  <2>1. config' \in {"none", "on", "off"}
    BY <1>4, SeesGateTypes DEF Hit, Gated
  <2> QED BY <1>4, <2>1, AnswersTypes DEF Hit, world, GateTypeOK
<1>5. CASE BeginCheck(k)
  <2>1. [check[k] EXCEPT !.at = "asking", !.force = FALSE, !.pending = required] \in Handler
    BY <1>1 DEF Handler, GateTypeOK
  <2>2. config' \in {"none", "on", "off"}
    BY <1>5, SeesGateTypes DEF BeginCheck, Gated
  <2> QED BY <1>5, <2>1, <2>2, GoesHandler DEF BeginCheck, world, GateTypeOK
<1>6. CASE PassOpen(k)
  <2>1. config' \in {"none", "on", "off"}
    BY <1>6, SeesGateTypes DEF PassOpen
  <2> QED BY <1>6, <2>1, AnswersTypes DEF PassOpen, world, GateTypeOK
<1>7. CASE Store(k)
  <2>1. (~check[k].missing) \in BOOLEAN
    OBVIOUS
  <2> QED BY <1>7, <2>1, EntryTypes, AnswersTypes DEF Store, world, GateTypeOK
<1>8. ASSUME NEW c \in Channels, Ask(k, c)  PROVE GateTypeOK'
  <2>1. [check[k] EXCEPT !.pending = @ \ {c}, !.missing = @ \/ c \notin joined] \in Handler
    BY <1>1 DEF Handler
  <2> QED BY <1>8, <2>1, GoesHandler DEF Ask, world, GateTypeOK
<1>9. ASSUME NEW c \in Channels, NEW missing \in BOOLEAN, AskFails(k, c, missing)  PROVE GateTypeOK'
  <2>1. [check[k] EXCEPT !.pending = @ \ {c}, !.missing = @ \/ missing] \in Handler
    BY <1>1 DEF Handler
  <2> QED BY <1>9, <2>1, GoesHandler DEF AskFails, world, GateTypeOK
<1> QED BY <1>2, <1>3, <1>4, <1>5, <1>6, <1>7, <1>8, <1>9 DEF Handle

LEMMA AroundTypes ==
  ASSUME GateTypeOK,
         \/ \E c \in Channels : Join(c) \/ Leave(c) \/ Require(c) \/ Drop(c)
         \/ \E on \in BOOLEAN : Toggle(on)
         \/ Elapse \/ Turn \/ GateDies
  PROVE  GateTypeOK'
<1>1. ASSUME NEW c \in Channels, Join(c) \/ Leave(c) \/ Require(c) \/ Drop(c)  PROVE GateTypeOK'
  BY <1>1 DEF Join, Leave, Require, Drop, GateTypeOK
<1>2. ASSUME NEW on \in BOOLEAN, Toggle(on)  PROVE GateTypeOK'
  BY <1>2 DEF Toggle, GateTypeOK
<1>3. CASE Elapse
  <2>1. cache' \in Entry
    BY <1>3, EntryTypes DEF Elapse, GateTypeOK, Entry, TTL
  <2> QED BY <1>3, <2>1 DEF Elapse, world, GateTypeOK
<1>4. CASE Turn
  <2>1. (~trouble) \in BOOLEAN
    OBVIOUS
  <2> QED BY <1>4, <2>1 DEF Turn, GateTypeOK
<1>5. CASE GateDies
  BY <1>5, NoHandlerType, EntryTypes DEF GateDies, world, GateTypeOK
<1> QED BY <1>1, <1>2, <1>3, <1>4, <1>5

BotIInv == GateTypeOK /\ UpkeepIInv

LEMMA BotInvInit == BotInit => BotIInv
<1>1. ASSUME GateInit  PROVE GateTypeOK
  BY <1>1, NoHandlerType, EntryTypes DEF GateInit, GateTypeOK
<1> QED BY <1>1, UpkeepInvInit DEF BotInit, BotIInv

LEMMA BotInvNext == BotIInv /\ [BotNext]_botVars => BotIInv'
<1> SUFFICES ASSUME BotIInv, [BotNext]_botVars  PROVE BotIInv'
  OBVIOUS
<1>1. CASE GateNext /\ UNCHANGED upkeepVars
  <2>1. GateTypeOK'
    BY <1>1, CheckTypes, AroundTypes DEF GateNext, BotIInv
  <2> QED BY <1>1, <2>1, UpkeepInvNext DEF BotIInv
<1>2. CASE UpkeepNext /\ UNCHANGED gateVars
  BY <1>2, UpkeepInvNext DEF BotIInv, gateVars, GateTypeOK
<1>3. CASE GateDies /\ UpkeepDies
  BY <1>3, AroundTypes, UpkeepInvNext DEF BotIInv
<1>4. CASE UNCHANGED botVars
  <2>1. UNCHANGED gateVars /\ UNCHANGED upkeepVars
    BY <1>4 DEF botVars
  <2> QED BY <2>1, UpkeepInvNext DEF BotIInv, gateVars, GateTypeOK
<1> QED BY <1>1, <1>2, <1>3, <1>4 DEF BotNext

(* The report and the backup of a day go out once, and once more at most   *)
(* for each slip of that day, a lost answer among them, for any number of  *)
(* slips and any updates that are handled in the same process.             *)
THEOREM DailySendsOnce == BotSpec => [](BotTypeOK /\ SentOncePerSlip)
<1>1. BotIInv => BotTypeOK /\ SentOncePerSlip
  BY DEF BotIInv, UpkeepIInv, BotTypeOK
<1> QED BY BotInvInit, BotInvNext, <1>1, PTL DEF BotSpec
=============================================================================
