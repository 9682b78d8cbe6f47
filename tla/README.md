# A TLA+ model of FemonaSence

FemonaSence is a Telegram service for films and series: a bot and a FastAPI backend over
PostgreSQL, with workers that transcode and publish video, payments through
the WinaPay gateway and Telegram Stars, and scheduled notifications. This directory
models the parts of it where several processes, an external service or a crash
can meet in an order nobody wrote a test for. The tests of the repository are
static: none runs two handlers at once.

Contents: [Inventory](#inventory) · [Modules](#modules) · [Runs](#runs) ·
[What is proved](#what-is-proved) · [Finding](#finding) · [Behaviours](#behaviours-the-models-contain) · [Not modelled](#not-modelled) ·
[Plan](#plan)

## Inventory

Every process is asyncio over one PostgreSQL database. Components talk through
rows, not through messages: an API handler or bot handler inserts or updates a
row, a worker polls for it. The isolation level is READ COMMITTED, row locks are
`FOR UPDATE [SKIP LOCKED]`, and each SQLAlchemy session has
`expire_on_commit=False`, so an object loaded once keeps its attributes for the
life of the request.

| component | state | operations | interacts with | hard behaviour |
|---|---|---|---|---|
| media job queue (`services/media_jobs.py`, `services/admin_ops.py`) | `media_jobs` rows | enqueue, claim, heartbeat, success, failure, recovery, retry, cancel | workers, maintenance, operators, pipeline | lease lost while the worker still runs, crash on the last attempt, cancel of a retrying job |
| media worker (`workers/media_worker.py`) | its task slots, a source cache on disk | download, probe, encode, upload, publish | queue, pipeline, Telegram | long phases without a transaction, shared cache files |
| content pipeline (`services/content_pipeline.py`) | `content_pipeline_runs`, items, releases | build the matrix, auto publish, synchronise | queue, worker, maintenance | concurrent last jobs, stale item status |
| maintenance (`workers/maintenance.py`) | none | recovery, run synchronisation, expiry, reports | all tables | reads a job and writes its item later |
| WinaPay checkout (`api/payments.py`, `services/winapay_billing.py`, `payments/winapay.py`) | orders, attempts, webhook events, payments | start, callback, verify, settle, fail | gateway, coupons, subscriptions, wallet | callbacks repeat and race, gateway answers get lost, stale session objects |
| Stars billing (`services/billing.py`) | orders, attempts, payments | pre-checkout, successful_payment | Telegram, subscriptions | duplicate updates, stale row under FOR UPDATE |
| coupons (`services/coupons.py`) | coupons, redemptions | reserve, expire, redeem, release | checkout | late redeem and late release |
| subscriptions, access | subscriptions | extend, expire | checkout, Stars, reminders | two payments at once |
| notification queue and worker (`services/notification_jobs.py`, `workers/notification_worker.py`, `services/subscription_reminders.py`) | `notification_jobs`, `notification_attempts` | schedule, claim batch, send, finalize, recover | Telegram, supervisor | crash between send and commit, batch longer than the lease, shared worker id |
| runtime supervisor (`workers/runtime_worker.py`) | children | restart, recovery loop | notification worker | crash loops |
| advertising (`services/ads.py`, `bot/handlers/ads.py`) | `ad_requests` | submit, approve, reject, publish | Telegram | moderation during publication |
| rate limiter, webhook (`services/rate_limit.py`, `api/telegram_webhook.py`) | Redis keys, `telegram_updates` | hit; receive, dispatch | Redis, Telegram | key expiring between two commands; crash in mid-update |
| growth (`services/growth.py`) | wallet, referrals, state file | reward, link, report, win back | checkout, notifications | crash between send and save, concurrent first contact |
| delivery (`bot/handlers/releases.py`) | `download_history` | press | catalogue, subscriptions, Telegram | presses at once, midnight |
| membership gate (`services/membership.py`, `bot/handlers/membership.py`) | a file, channels, a cache in the process | gate, verify, toggle | Telegram, panel | overlapping checks of one user, 90 s of stale answers |
| catalogue and administration (`api/admin.py`, `services/content_admin.py`) | titles, series, releases, files, policies | edit, publish | pipeline, delivery | edits that read the same row |
| UI, configuration | none | menus, settings | | |

What makes each component correct: a job is worked on by one claim at a time, at most
`max_attempts` times, and always settles; a captured payment serves its order
exactly once and is not lost in a race; a coupon once redeemed stays redeemed; a
notification is sent, at most once per claim, or given up for cause. For the
pipeline: a run's status follows its jobs and its release is published once and only
when complete. For ads: an
approved ad is posted once. For growth: a wallet is the sum of its ledger, an invited user is
rewarded once. For the webhook: an update is not handled by two processes at once. For
delivery: a day grants the limit of free downloads. For the shared source: what is
marked done is complete, and waiting ends. For the gate: an answer does not outlive the facts.

## Modules

| module | models | lines of code it stands for |
|---|---|---|
| `JobContract` | what the job queue promises, without workers, leases or clocks | abstract |
| `PurchaseContract` | what both payment providers promise about money, without callbacks, updates or crashes | abstract |
| `MediaJobs` | the queue, its task slots, recovery and the operator | `media_jobs.py`, `admin_ops.py:35-83`, the job loop of `media_worker.py` |
| `WinaPay` | one checkout: start, gateway, callback, settlement, coupon | `api/payments.py`, `winapay_billing.py`, `winapay.py`, `coupons.py:186-229` |
| `Notifications` | the notification queue, its workers, Telegram, the recovery loop | `notification_jobs.py`, `notification_worker.py`, `subscription_reminders.py`, `runtime_worker.py` |
| `ContentPipeline` | the quality matrix: builds, rebuilds, synchronisation, auto publish, over `JobContract` | `content_pipeline.py:184-524`, `media_worker.py:638-756`, `maintenance.py:249-264`, `admin.py:373-410, 467-496` |
| `StarPayments` | orders in Stars, the subscription they extend with two other payers, one coupon over several orders | `billing.py`, `payments.py:346-469`, `coupons.py:39-219`, `main.py:89-132` |
| `Ads` | the dialogue, submission, moderation and posting of ads | `services/ads.py`, `bot/handlers/ads.py`, `admin_features.py` (ads) |
| `Growth` | users, codes, referrals, wallets, in transactions of several statements | `user_account.py`, `growth.py:210-345`, `winapay_billing.py` (wallet), the /start and invitation handlers |
| `Webhook` | the ledger of updates, over `Growth` | `api/telegram_webhook.py`, `bot/app.py` |
| `Catalogue` | what the panel writes: titles, trees, releases, files, policies | `api/admin.py`, `admin_extended.py`, `content_admin.py`, `storage_ingest.py` |
| `Delivery` | the download button, over `Catalogue` | `bot/handlers/releases.py`, `release_matrix.py`, `access.py`, `growth.py:98-127` |
| `MediaSources` | the shared source directory: lock, part files, done mark, clean-up, janitor; and the phases of a job | `media_worker.py:293-418, 606-756`, `ffmpeg_engine.py`, `telegram_media.py` |
| `Gate` | the membership gate, its cache and its copy of the panel's file, for one user | `services/membership.py`, `bot/handlers/membership.py`, `admin_features.py:141-270` |
| `Upkeep` | the weekly report, the backup and their state file | `growth.py:61-93, 418-602`, `maintenance.py:282-332` |
| `BotProcess` | the process that runs the two, `RUN_MAINTENANCE_IN_BOT` | composes `Gate` and `Upkeep` |
| `MediaJobsProofs`, `WinaPayProofs`, `NotificationsProofs`, `ContentPipelineProofs`, `StarPaymentsProofs`, `WebhookProofs`, `MediaSourcesProofs` | theorems about the module, or about the composition, they are named after | |
| `BotProofs` | theorems about `Ads`, `Catalogue`, `Delivery`, `Upkeep` and `BotProcess` | |
| `MC*` | instances for TLC | |

### MediaJobs

`jobs` is the table; each UPDATE or INSERT of the source is one operator from row to
row (`RequeueStale`, `Claimable`, `Beaten`, `Failed`, ...), so that its WHERE clause and
its SET list can be compared side by side. `task[w]` is the dict a task slot
got from `claim_job`: the verdict of `mark_failure` comes from the attempts in it,
not from the row. Time is in the rows: `idle` is the age of the lease, `wait` what is
left until `available_at`; `Tick` ages both. `MEDIA_WORKER_CONCURRENCY` slots of a
process share its worker id. SKIP LOCKED lets a claim return any claimable
row, so priority is not modelled. `CheckPoint` is the transaction between two
phases with its cancel test; `Complete` is the queue's part of the final
transaction; `Crash` frees the slot and leaves the row.

### WinaPay

One action per transaction or gateway call. A request keeps in `seen` what its
session loaded; `Written(row, old, new)` is the flush, which writes only attributes that
differ from what was loaded. This is the point of the module: a
`SELECT ... FOR UPDATE` in the same session takes the lock and returns the object
of before, so a later test for PAID can look at an old status. The settlement's
actions are preflight and phase A (`CallbackLoad`), phase V
(`VerifySucceeds`, `VerifyFails`, `VerifyAnswerLost`) and phase B (`CallbackSettle`,
`CallbackSettleAgain`, `CallbackReject`), plus the except paths (`CallbackAborts`,
`CallbackError`) and a dying process. Preflight and phase A are one action: all the
later code uses is what they read. The gateway is external: it opens a
transaction, the customer pays or aborts, the first verification captures. A wrong amount
or reference is a verification that is refused. What each kind of plan buys,
wallet top-ups and format details are left out: `fulfilled` counts whatever the order buys.
`Purchase` shows a transaction of the gateway as a payment of `PurchaseContract`: open from `issued`, taken
when the gateway has captured it, served as often as `fulfilled` says.

### Notifications

A worker claims a batch, then takes its claims one at a time through the ownership
check, the send, the reading of `MAX(attempt_number) + 1` and the finalizing
transaction. It renews no lease and any step may be slow, so the recovery may
hit any PROCESSING row at any moment; the model needs no clock. `WorkerId` need not
be injective, because every process defaults to `notification-worker-1`. `copies`
counts, per claim, the messages Telegram delivered.

### ContentPipeline

Composes the pipeline with the queue: `queue` is a `JobContract` state per job, and
every action that touches a job takes one of that contract's steps. Runs of one
source with the same options share the target release and the job of a quality
(`pipeline_key`, `idempotency_key`), so targets and jobs are named by the quality;
`Wants` says which run asks for which.

A synchronisation is a transaction of several statements, and the module's actions are those
that another transaction can come between: loading the run with its items (`FinishBegin`,
`MaintenanceSync`, `ListPipelines`), reading each job (`SyncRead`), and the
commit (`SyncCommit`), which flushes the attributes that differ from what was loaded. A
worker's final transaction is such a synchronisation that also attaches the file, sets the
target READY and tries `mark_succeeded` (`own`, `won`). A first build is one action, since its
upserts hold the job rows to the end and nobody knows its run before; a rebuild of a FAILED run
loads first and writes later (`RebuildBegin`, `RebuildCommit`).

Row locks only order commits here. Two transactions that write the same items
are allowed to commit in either order or to abort (`SessionAborts`, `Fail`), which covers every
outcome of PostgreSQL's waiting and deadlock detection. `SessionAborts` is enabled after the last
read only: an abort before it leaves the same state. The maintenance synchronises up to 50 runs
in one transaction; the model takes them one at a time, so that commits of one pass
need not coincide. The title's rights (`content_rights_required`) are taken to be verified,
so that the guard at `content_pipeline.py:462-472` passes. The checks that refuse a build before it writes anything, access
policies and priorities are left out.

### StarPayments

One user, one coupon, several orders. An invoice stays payable until its order is PAID, so the
same order may be charged twice (`Approve`, `Capture`). aiogram starts a task per update and
acknowledges the update by its next `getUpdates`, whether or not the task has ended, which
makes two things possible: tasks of one order that run together, and a charge lost in a
crash (`Acknowledge`, `Crash`). The delivery rules of `TELEGRAM_MODE=webhook` are in module `Webhook`.

A task loads the order first and locks it later (`Deliver`, `SettleBegin`); as in
WinaPay the lock returns the object that the session has, so that `SettleBegin` has no test for
PAID that a waiting task could fail: only the lookup of the charge sees what is committed.
Row locks are guards: `OrderLocked`, and in `Pick` the lock on every live row of the user. A
failed settlement is rolled back as a whole and traced in a second transaction that
reads the attempt without a lock (`TraceBegin`, `TraceCommit`).

An expiry date is modelled by what it is made of: the set of settlements whose days it
counts. The settlement loads that set with the lock (`counted`) and writes it back with its own
member (`Extended`), so a lost update is a lost member. `Grants` are the bank's
settlements, whose order and gateway are in `WinaPay`; `Upgrades` are the admin's. They take
part only by extending the same row. `reserving` is the time in which an order's
creation holds the coupon's row. `Purchase` shows a charge as a payment of `PurchaseContract`: open from its
approval, taken from its capture, served once for each subscription row whose expiry counts its days.
In contrast to a bank order, an order in Stars never loses its mark as paid (`Reopens`). A reservation past its 30 minutes is `LAPSED`, released or
not, since both count alike; one that a late payment still redeems is `LATE`.
Reminders are left out: no settlement reads them, and the foreign key of a
reminder makes its insertion wait for a locked subscription.

### Ads

`status[r]` is the row of a message that became a request; several messages may pass the filter on the
user's dialogue before the first of them clears it (`received`). A press on publish, or an approval with
automatic publishing, opens a transaction, takes an advisory lock on the request's id, reads
the row anew and posts: `copying` is the first way to post, `resending` the fallbacks, `sent` the time
between Telegram's answer and the commit. A rejection and the panel do not take that lock, so the
row may change under the poster. `posts` counts copies in the channel and `forgotten` those whose
answer was lost or whose record was not committed; `OnePost` says that there is no other
reason for a second copy.

### Growth and Webhook

A handler is one transaction: its statements are actions, what it has written and not
committed is in its `task`, and a statement waits (is not enabled) while another
transaction holds the row or the unique key. `Join` and `InsertCode` fail for the loser of a
race. `Webhook` composes these handlers with the two ways updates arrive. In webhook mode an
update is a row of `telegram_updates`, re-armed when FAILED or older than
`RECEIVED_REPLAY_GRACE`; `outlived` marks the updates whose handler ran longer than that, about
which `OneDispatch` says nothing. That a process dies between any two steps is `Restart`. The bot
library, external here, lets a router be included in one dispatcher per process: `attached`.

### Catalogue and Delivery

An edit of the panel reads a row without a lock, checks the request against it, and writes the
columns it was given: two actions. A press of the download button is a transaction whose
statements each see what is committed (`ReadVariant`, `CheckTitle`, `CheckAccess`, `Lock`, `Judge`,
`Commit`), followed by `Copy`. `used` counts rows of `download_history`, dated with the start
of their transaction, and `granted` those that were free and judged on the day they are
dated with; a press that waits for the lock over midnight is judged by the new day's count and
dated with the old one, and is not in `granted` (`late`).

### MediaSources

`entry[n]` is the file of each name in the directory of one source: the lock, the done mark,
the source, and one part file per worker. Every call that touches the disk is an action. A file
is torn from its opening to its last byte. `LockAges` makes a lock stale at any moment, also
while its owner still downloads: 3900 seconds may pass in any step. A clean-up counts the active
jobs, lists the directory, unlinks name by name and removes the directory, and other
processes run between any two of these. Of the queue only the status, attempts and owner of two jobs are
kept; `MediaJobs` has the rest.

### Gate and Upkeep

`Gate` follows one user who is no administrator. `check[k]` is the handler of one update: it asks
Telegram channel by channel and stores the answer over whatever another handler has stored
meanwhile. `cache.age` counts to the end of the ninety seconds. `config` is the bot's copy of the panel's
file, valid until the file's mtime changes (two writes are taken to have different mtimes): a read that fails counts
as "off" and is kept as the copy, a failed `stat` counts as "off" once. `trouble` is a spell in which calls of
Telegram and reads of the file may fail, and the process may die, any number of times; spells come and go. Telegram's
errors either count as "missing" or let the user pass, as the code's table of messages has it; both are tried.

`Upkeep` sees dates from today: `marks` says of each mark in the state file whether its date is today's,
and midnight makes them all past. Each of the two functions reads the file and writes it back
as a whole. A send may be answered, arrive without its answer (the code's `except` then leaves the day unmarked, and
the next pass sends again) or not arrive. A misread, a failed write, a lost answer or a death is a slip;
`SentOncePerSlip` allows one send more for each slip of the day, and no other: a send that fails without arriving
repeats nothing. The code puts no bound on the slips of a day: if every answer is lost, every pass sends. `BotProcess` composes the two, as they share a
process where `RUN_MAINTENANCE_IN_BOT` is set; in production the maintenance has a process of its
own, whose behaviours are among those of the composition.

## Runs

Each property of a passing run has a mutant: an operator whose comment begins with "Mutant:" is
no part of the model, but what its definition would be with a plausible mistake in the code; with
it in place TLC finds the property violated.

| run | instance | asks | states |
|---|---|---|---|
| `media_jobs` | 2 jobs, 2 slots, 2 attempts, lease of 1 tick, 3 operator calls | 3 invariants, the action property, the refinement of `JobContract`, liveness | 74,218 |
| `winapay` | 1 order, 2 authorities, 2 callbacks, 2 starts in flight, symmetric | 4 invariants, `RedemptionIsFinal`, the refinement of `PurchaseContract` | 1,245,962 |
| `notifications` | 2 rows, 2 workers with one id, 2 attempts, batch of 2 | 3 invariants, `SentIsFinal`, liveness | 245,120 |
| `pipeline_liveness` | 1 run of 2 qualities, 2 workers, 1 session, no operator | `EveryRunSettles` under fairness | 34,187 |
| `shared_targets` | 2 runs that share a target and its job, 1 worker, 1 session, 1 operator call | `SucceededRunIsComplete`, `PublishedWithItsRun`, `KeepsQueueContract` | 1,173,499 |
| `star_payments` | 2 orders, one payable twice, 1 bank settlement, 1 upgrade, 2 tasks, 3 subscription rows, 1 place of the coupon, symmetric | 3 invariants, the refinement of `PurchaseContract` | 889,988 |
| `ads` | 2 messages of one user, 2 presses, 2 lost answers per ad, symmetric | 2 invariants, `RecordedIsLast` | 32,304 |
| `webhook` | 2 users, 2 slots, 2 updates: u1 asks for a code, u2 starts with it; 1 top-up; both modes, symmetric | 3 invariants | 1,557,534 |
| `delivery` | 1 user with 2 presses at once, 1 title, release, file and panel request, limit 1, 2 days, symmetric | 2 invariants | 479,189 |
| `media_sources` | 2 workers, 2 jobs of one source, the first with 2 attempts, 1 janitor | 2 invariants, `EveryWaitEnds` under fairness | 702,892 |
| `bot_process` | 1 user with 2 updates at once, 2 channels, any failures and deaths; 2 slips a day; gate and sends one at a time | 2 invariants, `JoinedGetsIn`, `LeaverIsStopped` under fairness | 334,368 |
| `source_twice` | as `media_sources` | `DownloadedOnce`, found violated | |

Why the bounds suffice. Two slots give a stale worker and the one that took its job;
two attempts give a first, a retry and a last one; two jobs let a statement
that moves several rows (recovery, batch) hit one and spare the other.
`MaxOperatorCalls` bounds only the operator: enqueue, cancel, retry is its longest
story about one job. Two authorities are an order started twice; two callbacks are the
gateway's and the browser's. The
pipeline needs two workers for two last jobs that finish at once, and two runs for a shared
job; the instances have one each, because the two questions are independent and the product
is large. `star_payments` has two tasks, because what it asks is of two payers that meet, and three rows, one for
each expiry with payments after it. One operator call is a rebuild, a listing, a retry, a cancel or an edit at any
moment. The theorems below do not depend on these bounds.

`ads` has two messages for the dialogue that lets both through, and two presses for the two posters. In
`webhook` two slots are two processes that get one update, and `MaxTopUps` bounds the ledger.
`delivery` bounds the downloads of a day at which presses end (`MaxUsed`) by one above the limit, and by
its constraint `Explored` lets the catalogue take every shape before the first press, and holds a
film with rights and a public release while presses and days are explored: presses on other
shapes are refused without effect. `media_sources` gives one job a second attempt, so that a task can come
back to a directory that a clean-up has begun to empty; of the janitors, one per worker, it has one, and the theorem
has any number. `bot_process` explores the gate while the sends are at rest and the sends while the gate is
(`Apart` in `MCBotProcess`): the two share no variable, and no step but the death of the process, which is explored for
each. The theorem is about the whole composition.

`CHECK_DEADLOCK FALSE` is set where a system really stops: a checkout is over when its
authorities are used up, a notification when it is SENT or FAILED, a user when the subscription rows are used up, a pipeline when its runs are settled, a
source when its jobs are over, updates when none is queued, and presses of a day when `MaxUsed` is
reached. `media_jobs`, `ads` and `bot_process` never deadlock.

Symmetry is used in `winapay`, `star_payments`, `ads`, `webhook` and `delivery`, which check no liveness.

Fairness. `MediaJobs`: weak fairness of a slot's next checkpoint (every phase has a
timeout of its own), strong fairness of claiming a job (the poll loop looks every few
seconds but the row may be locked or the slots busy), weak of recovery (every
worker's loop and the maintenance run it) and of time. `Notifications`: weak fairness
of a delivery's steps, strong of the claim of a due row, weak of the recovery of
each stale row. `ContentPipeline`: weak fairness of claims, of a slot's end and of a transaction's
statements; strong fairness of a session's commit (some passes of the maintenance may fail, not all)
and of the maintenance taking up each RUNNING run (it does every few seconds while fewer
than 50 runs are active); weak of the recovery of a job nobody works on. `MediaSources`: weak fairness of a waiting task's poll (every ten
seconds) and of the ageing of a lock; nothing is assumed of the owner, who may be dead or stuck.
`Gate`: handlers come to an end, time passes and the user goes on writing; what the user and the panel do
is in the antecedents of the two properties, and so is that trouble ends: a channel that Telegram does not let the bot
query fails open on every call (`membership.py:202-209`), so that nothing is promised while calls go on failing or the
process goes on dying. Elsewhere nothing is assumed of crashes, failures, heartbeats or operators, whose
calls `MaxOperatorCalls` bounds.

## What is proved

For every value of the constants that the modules' `ASSUME`s allow, by TLAPS. Each result has its inductive
invariant; the lemmas that it is kept go through `Next` one action at a time. Every invariant and every action
property of the passing runs is stated by one of these theorems.

- `QueueInvariant` (MediaJobs): types, `LockedIffRunning`, `FenceMatchesClaim`,
  `NoStrandedJob`, `GivenUpForCause`. Assumes `DistinctIds`: without it the fence, which
  compares worker ids and not claims, can confuse two claims. The
  conjunction of the five is inductive as it stands.
- `OnlyHolderMoves`: the action property, from that invariant.
- `QueueImplementsContract`: the initial rows map to the contract's, and each statement
  maps each row by a contract step or a stutter.
- `SettlementInvariant` (WinaPay): types, `FulfilledOnce`, `PaidIsBacked`,
  `ProcessedIsSettled`, `NoCaptureStranded`, for any number of orders, authorities and
  requests in flight. The inductive invariant links requests to the gateway: a
  transaction is unused exactly when it has no order (`GatewayOK`), and a callback past
  its verification has a paid or captured transaction, captured when it is about to
  settle, and saw an order that was not PAID (`RequestOK`).
- `RedemptionStays`: a redeemed coupon is never released.
- `WinaPayKeepsContract`: the checkout implements `PurchaseContract`. From the invariant, a step moves a transaction
  at most once, and a settlement finds its transaction captured, unserved and its order loaded as not PAID
  (`Moves`), so that the flush really writes PAID; a mark that a late start has taken away comes back only
  by a transaction that had served the order.
- `DeliveryInvariant` (Notifications): types, `LockedIffProcessing`, `OneCopyPerClaim`,
  `SentIsDelivered`, `FailedForCause`, `LedgerHonest`, for any assignment of worker ids, the shared
  default included. The inductive invariant says that the claims in the workers' hands
  are distinct and issued, and that one not yet sent has delivered nothing.
- `SentStays`: no step takes a row out of SENT.
- `PipelineInvariant` (ContentPipeline): types, `SucceededItemIsDone`,
  `SucceededRunIsComplete`, `PublishedHasFile`. The inductive invariant speaks of open transactions:
  a job read as SUCCEEDED is done, or will be by the reader's own commit; a matched
  `mark_succeeded` holds its job until then, since everyone else waits for the row; a done job
  left its file.
- `PublishesCompleteRuns`: the action property, from that invariant.
- `PipelineKeepsContract`: the composed queue moves by `JobContract`'s steps.
- `StarInvariant` (StarPayments): types, `DaysAreKept`, `PaidIsPaidFor`, `CouponWithinLimit`.
  `DaysAreKept` needs to know that what a task loaded is still in the row: no two tasks hold one
  row (`HeldByOne`), a held row is not one that another task could insert, since whatever is
  live was paid for (`LiveIsPaid`). `CouponWithinLimit` needs the order in creation to hold a place
  before its redemption exists (`PlacesOK`).
- `StarsKeepContract`: the billing in Stars implements `PurchaseContract` too. The service of a charge is not a counter
  here but the number of subscription rows that hold its days: `ServedOnOneRow` derives from `DaysAreKept` that it is one
  exactly when the charge has its payment row. That no charge is served before its capture needs that a
  task works only on a charge whose update has arrived (`ChargesOK`).

- `AdsInvariant` (Ads): types and `OnePost`. The inductive invariant says that one task holds an
  ad's lock (`OnePoster`), that a recorded ad is PUBLISHED with nobody posting it (`RecordedIsOver`), and
  that every copy is recorded, forgotten or in the hand of the one poster (`Counted`).
- `RecordedStays`: no copy is posted after one is recorded.
- `WalletsAddUp` (Growth under Webhook): types, `WalletAddsUp` and `RewardedOnce`, that no invited user is
  paid for twice. A task that credits has read the balance that is still in the row, and no two tasks
  hold one wallet or one invited user (`TasksFit`, `NoClash`).
- `DispatchedByOne` (Webhook): `OneDispatch`.
- `FreeDownloadsWithinLimit` (Delivery): `FreeLimit`, for any catalogue. The lock has one holder, and a free
  judgement of the day still stands when its row is written (`JudgedBelow`).
- `DeliveryTypes`, `CopiesWhatIsStored`, `PublicReleasesHaveFiles`, `CatalogueLasts` (Delivery over Catalogue): types; a
  press that is about to copy holds a release with a ready file; a PUBLISHED release has files and
  every file in a release is ready; nothing of the catalogue vanishes. One invariant gives all four: what an edit has found
  before its transaction writes still holds when it does (`FoundStays`), because no column it rests on goes back
  (`Lasting`), and a press knows a release that existed when it looked (`Known`).
- `SourceIsWhole` (MediaSources): types and `DoneIsWhole`. A worker that has received a file has its own part whole, or
  the clean-up has unlinked it (`PartsReceived`); so what any worker renames to `source.bin`, thief of the lock or robbed
  of it, is whole (`FinalWhole`). It rests on part files being named after the worker: `SourcesAssumption` says that the
  names differ from each other and from the lock's, the mark's and the source's.
- `DailySendsOnce` (BotProcess): types of gate and upkeep, and `SentOncePerSlip`, with lost answers among the slips. A mark that is missing in the file is
  owed: nothing was sent beyond the slips (`MissingIsOwed`). The copy of the file that a pass holds may be old by midnight
  or by a slip, never in favour of a second report (`CopyIsOwed`), and a pass sends only what its copy says is missing.

Parts of these invariants that no run checks by themselves, `LockedIffRunning`, `GivenUpForCause`,
`LockedIffProcessing`, `SentIsDelivered`, `FailedForCause`, `SucceededItemIsDone`, `PublishedHasFile`, `FulfilledOnce`,
`PaidIsPaidFor`, are proved here with the others. `FulfilledOnce` and `PaidIsPaidFor` follow from the refinement of
`PurchaseContract`, which the runs check in their stead.

Model-checked only: liveness (`EveryJobSettles`, `EveryClaimEnds`, `EveryRunSettles`, `EveryWaitEnds`,
`JoinedGetsIn`, `LeaverIsStopped`), which is out of the prover's reach, and with it what the gate promises: its types are
proved, its two promises are about what follows in time. Refinement is proved for its safety part: the contracts
state no fairness. `Notifications` implements no `JobContract`: its recovery puts a row back whose attempts are used up.

## Finding

`source_twice`: the docstring of `_ensure_shared_source` says that the source is downloaded once and shared between
all quality jobs, and that the others wait for the mark (`media_worker.py:294-298`). A waiting task tries to create the lock
before it looks at the mark, and the owner unlinks the lock right after it writes the mark: the
task that wakes finds no lock, takes it, and downloads the whole source again. `DoneIsWhole` shows that
this costs time and traffic, not a torn file.

## Behaviours the models contain

Steps of the modules that contradict a comment of the code, or that the code states no rule for. No
passing run makes a claim about them; the properties that are checked hold in spite of them.

- WinaPay, `CallbackReject`: "NEVER downgrade a PAID order's attempt to FAILED" (`winapay_billing.py:222`). A
  duplicate loads the order PENDING, a rival settles, the duplicate's verification is refused, and
  FOR UPDATE returns the loaded object: FAILED is written over the PAID attempt. The order stays PAID.
- WinaPay, `CallbackError`: "the FAILED update still lands" (`api/payments.py:221-224`). The rollback expires the
  order, reading `order.id` raises, and the event stays RECEIVED.
- Notifications, `Recover`: a worker that dies on the last attempt leaves a row that becomes PENDING with its attempts
  used up, which no claim takes ("AT-LEAST-ONCE", `notification_worker.py:29`).
- ContentPipeline: a FAILED run that shares its job with a later run stays FAILED after the job succeeds for the
  other, until somebody lists or rebuilds it (`content_pipeline.py:442-443`).
- StarPayments, `SettleBegin`: two charges of one invoice that are handled at once extend the
  subscription twice (`billing.py:82-83`); the user paid twice.
- Ads: a rejection committed while an approved ad is being posted is overwritten by PUBLISHED
  (`services/ads.py:60`).
- Growth, `Join`: of two first messages of one user the loser's transaction is aborted, as the flush precedes
  the SAVEPOINT (`user_account.py:47`).
- Webhook: a process that has handled one update takes no further one, since `create_bot` includes the
  module-level routers a second time (`bot/app.py:23`); a duplicate of an update in hand is answered 200 and the update
  is lost if its handler then fails.
- Catalogue: of two edits that read one draft, one publishes it and the other takes its rights away, so that
  a public title has none (`api/admin.py:285`).
- Delivery: a press that waits for the lock over midnight is dated with the day before.
- Gate: one read of `membership.json` that fails after its `stat` is cached as "off" under the file's mtime
  (`membership.py:46-56`); until the panel saves again or the process restarts, everybody passes. `LeaverIsStopped` names
  this outcome (`Misread`) beside being turned away.
- Upkeep: a report or backup whose answer is lost is sent again by the next pass (`growth.py:521-526, 600-602`).
- MediaSources: a clean-up may unlink the lock or the source of a job that was claimed after its
  count; the job fails and is retried.
- StarPayments: a polling process acknowledges an update before its task ends, and a crash then loses the charge.

## Not modelled

Rendering, keyboards, catalogue queries, encoding command lines, migrations and
configuration have no protocol. Of the panel, lists and single-row forms are left out. The rate limiter is a
counter in Redis in front of the handlers: it refuses updates and changes nothing they read. Reminder dates after a renewal,
the clean-up of history, win-back jobs, ratings and broadcasts are not modelled.
PROJECT.json lists each component with its reason.

## Plan

All modules of the first plan are written, with proofs of every safety property that a run checks. Left: a
safety counterpart of the gate's promises (an answer let through is at most ninety seconds older than the facts) and
its proof; reminder dates; the limiter's key that loses its expiry between two commands; the order in which the
maintenance takes up more than 50 active runs.
