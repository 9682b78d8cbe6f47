----------------------------- MODULE MediaSources -----------------------------
(***************************************************************************)
(* The directory in which the media workers of a host share one source     *)
(* file (app/workers/media_worker.py, MEDIA_SOURCE_CACHE), as the jobs     *)
(* that encode that source use it: the lock file and the waiting for it,   *)
(* the download through a part file of the worker's own, the done mark,    *)
(* the clean-up after every job and the janitor.                           *)
(*                                                                         *)
(* A worker is a process with its own MEDIA_WORKER_ID and one task, the    *)
(* default of MEDIA_WORKER_CONCURRENCY; every call that touches the disk   *)
(* is a step, since other processes run between any two of them.  Of the   *)
(* job row only what the cache reads is kept; module MediaJobs has it all. *)
(***************************************************************************)
EXTENDS Naturals

CONSTANTS
  Workers, Jobs,   \* the processes, and the jobs of the one source
  Janitors, None,  \* the sweeps of the poll loops, and no job
  MaxAttempts      \* MaxAttempts[j]: media_jobs.max_attempts

(* A part file is named after its worker, so a worker's id is never one    *)
(* of the other three names of the directory.                              *)
ASSUME SourcesAssumption ==
  /\ MaxAttempts \in [Jobs -> Nat]
  /\ Janitors \cap Workers = {} /\ None \notin Jobs
  /\ Workers \cap {"lock", "done", "final"} = {}

VARIABLES
  job,     \* job[j]: status, attempts and locked_by of the row
  task,    \* task[a]: what a worker, or the janitor, is doing
  entry,   \* entry[n]: the file of that name in the shared directory
  dir      \* the directory: none, fresh, or unchanged for an hour

vars == <<job, task, entry, dir>>

-----------------------------------------------------------------------------
Row == [status : {"ABSENT", "QUEUED", "RUNNING", "RETRY", "OVER"},
        attempts : Nat, by : Workers \cup {None}]

Active == \E j \in Jobs : job[j].status \in {"QUEUED", "RETRY", "RUNNING"}

(* Mutant: source.bin.part, one part file for all workers.                 *)
OnePart(w) == CHOOSE v \in Workers : TRUE

(* The part file carries the worker's id in its name.                      *)
Part(w) == w

(* source.bin.lock, source.bin.done, source.bin and the part files.        *)
Names == {"lock", "done", "final"} \cup Workers

(* A file is whole, or torn: opened and not yet written to its end.  The   *)
(* lock is stale once it is older than SOURCE_CACHE_LOCK_STALE_SECONDS.    *)
Contents == {"none", "torn", "whole", "stale"}

Actors == Workers \cup Janitors

Waits   == {"waiting", "looking", "stealing"}
Fetches == {"locked", "downloading", "received", "installed", "marked"}
Encodes == {"ready", "probed", "encoded", "uploaded", "registered"}
Task == [at : {"idle", "claimed", "failed", "counting", "judging", "clearing", "removing"}
              \cup Waits \cup Fetches \cup Encodes,
         job : Jobs \cup {None}, listed : SUBSET Names]
NoTask == [at |-> "idle", job |-> None, listed |-> {}]

Goes(a, at) == task' = [task EXCEPT ![a].at = at]

(* Files appear, change their name or go; the directory's mtime is now.    *)
Writes(new) == entry' = new /\ dir' = "fresh"
Unlinks(names) ==
  LET gone == {n \in names : entry[n] # "none"}
  IN /\ entry' = [n \in Names |-> IF n \in gone THEN "none" ELSE entry[n]]
     /\ dir' = IF gone = {} THEN dir ELSE "fresh"

Cached == entry["done"] # "none" /\ entry["final"] # "none"

-----------------------------------------------------------------------------
(* The table, as the queue's statements change it.                         *)
Enqueue(j) ==
  /\ job[j].status = "ABSENT"
  /\ job' = [job EXCEPT ![j].status = "QUEUED"]
  /\ UNCHANGED <<task, entry, dir>>

Claim(w, j) ==
  /\ task[w] = NoTask
  /\ job[j].status \in {"QUEUED", "RETRY"} /\ job[j].attempts < MaxAttempts[j]
  /\ job' = [job EXCEPT ![j] = [status |-> "RUNNING", attempts |-> @.attempts + 1, by |-> w]]
  /\ task' = [task EXCEPT ![w] = [NoTask EXCEPT !.at = "claimed", !.job = j]]
  /\ UNCHANGED <<entry, dir>>

Retried(j) ==
  [job[j] EXCEPT !.status = IF @ = "RUNNING" /\ job[j].attempts < MaxAttempts[j]
                              THEN "RETRY" ELSE "OVER", !.by = None]

(* The lease of a job whose worker died runs out; the heartbeat of a live  *)
(* one keeps it (module MediaJobs has the leases that are lost).           *)
Recover(j) ==
  /\ job[j].status = "RUNNING" /\ task[job[j].by].job # j
  /\ job' = [job EXCEPT ![j] = Retried(j)]
  /\ UNCHANGED <<task, entry, dir>>

(* The end of a job is written if the worker still holds it; then follows  *)
(* the clean-up.                                                           *)
Settles(w, row) ==
  /\ job' = IF job[task[w].job].by = w THEN [job EXCEPT ![task[w].job] = row] ELSE job
  /\ Goes(w, "counting")
  /\ UNCHANGED <<entry, dir>>

Over(j) == [job[j] EXCEPT !.status = "OVER", !.by = None]

-----------------------------------------------------------------------------
(* _ensure_shared_source: the directory is made; the cache may be ready.   *)
Enter(w) ==
  /\ task[w].at = "claimed"
  /\ Goes(w, IF Cached THEN "ready" ELSE "waiting")
  /\ dir' = IF dir = "none" THEN "fresh" ELSE dir
  /\ UNCHANGED <<job, entry>>

(* Open the lock with O_EXCL.  A directory that is gone fails the job.     *)
TryLock(w) ==
  /\ task[w].at = "waiting"
  /\ IF dir = "none" THEN Goes(w, "failed") /\ UNCHANGED <<entry, dir>>
     ELSE IF entry["lock"] = "none"
       THEN Goes(w, "locked") /\ Writes([entry EXCEPT !["lock"] = "whole"])
       ELSE Goes(w, "looking") /\ UNCHANGED <<entry, dir>>
  /\ UNCHANGED job

(* Mutant: a stale lock is waited for like any other.                      *)
LookPatiently(w) ==
  /\ task[w].at = "looking"
  /\ Goes(w, IF entry["lock"] = "none" THEN "stealing"
             ELSE IF Cached THEN "ready" ELSE "waiting")
  /\ UNCHANGED <<job, entry, dir>>

(* A lock that is stale, or gone since, is taken for an orphan.            *)
Look(w) ==
  /\ task[w].at = "looking"
  /\ Goes(w, IF entry["lock"] \in {"none", "stale"} THEN "stealing"
             ELSE IF Cached THEN "ready" ELSE "waiting")
  /\ UNCHANGED <<job, entry, dir>>

(* The orphan is unlinked, or whatever lock has that name by now.          *)
Steal(w) ==
  /\ task[w].at = "stealing"
  /\ Unlinks({"lock"})
  /\ Goes(w, "waiting")
  /\ UNCHANGED job

Poll(w) == TryLock(w) \/ Look(w) \/ Steal(w)

(* Mutant: download_file does not make the directory of its destination.   *)
OpenPartBare(w) ==
  /\ task[w].at = "locked"
  /\ entry' = [entry EXCEPT ![Part(w)] = "torn"]
  /\ Goes(w, "downloading")
  /\ UNCHANGED <<job, dir>>

(* download_file makes the directory again, if it is gone.                 *)
OpenPart(w) ==
  /\ task[w].at = "locked"
  /\ Writes([entry EXCEPT ![Part(w)] = "torn"])
  /\ Goes(w, "downloading")
  /\ UNCHANGED job

(* The stream ends; a part unlinked meanwhile is written to the end too.   *)
Receive(w) ==
  /\ task[w].at = "downloading"
  /\ entry' = [entry EXCEPT ![Part(w)] = IF @ = "none" THEN "none" ELSE "whole"]
  /\ Goes(w, "received")
  /\ UNCHANGED <<job, dir>>

(* os.replace(part, final)                                                 *)
Install(w) ==
  /\ task[w].at = "received"
  /\ entry[Part(w)] # "none"
  /\ Writes([entry EXCEPT !["final"] = entry[Part(w)], ![Part(w)] = "none"])
  /\ Goes(w, "installed")
  /\ UNCHANGED job

Mark(w) ==
  /\ task[w].at = "installed"
  /\ dir # "none"
  /\ Writes([entry EXCEPT !["done"] = "whole"])
  /\ Goes(w, "marked")
  /\ UNCHANGED job

(* The outer finally unlinks the lock, whoever holds it now.               *)
Release(w) ==
  /\ task[w].at = "marked"
  /\ Unlinks({"lock"})
  /\ Goes(w, "ready")
  /\ UNCHANGED job

(* The download or a call on its files fails: both finally blocks.         *)
Abandon(w) ==
  /\ task[w].at \in Fetches \ {"marked"}
  /\ Unlinks({Part(w), "lock"})
  /\ Goes(w, "failed")
  /\ UNCHANGED job

-----------------------------------------------------------------------------
(* The rest of the job: ffprobe and then ffmpeg open the source, and fail  *)
(* if it is gone.                                                          *)
Probe(w) ==
  /\ task[w].at = "ready"
  /\ entry["final"] # "none"
  /\ Goes(w, "probed")
  /\ UNCHANGED <<job, entry, dir>>

Transcode(w) ==
  /\ task[w].at = "probed"
  /\ entry["final"] # "none"
  /\ Goes(w, "encoded")
  /\ UNCHANGED <<job, entry, dir>>

(* A ready file with the same hash is the output: nothing is sent.         *)
Reuse(w) ==
  /\ task[w].at = "encoded"
  /\ Goes(w, "registered")
  /\ UNCHANGED <<job, entry, dir>>

(* Otherwise the output is sent to the storage channel, and its message is *)
(* registered in a transaction of its own.                                 *)
Upload(w) ==
  /\ task[w].at = "encoded"
  /\ Goes(w, "uploaded")
  /\ UNCHANGED <<job, entry, dir>>

Register(w) ==
  /\ task[w].at = "uploaded"
  /\ Goes(w, "registered")
  /\ UNCHANGED <<job, entry, dir>>

Publish(w) ==
  /\ task[w].at = "registered"
  /\ Settles(w, Over(task[w].job))

(* The flag is read when the job starts, after the download, the probe and *)
(* the encoding.                                                           *)
Cancel(w) ==
  /\ task[w].at \in {"claimed", "ready", "probed", "encoded"}
  /\ Settles(w, Over(task[w].job))

(* Any step of the job may fail, a source that is gone fails it always.    *)
Fail(w) ==
  /\ task[w].at \in {"claimed", "failed"} \cup Encodes
  /\ Settles(w, Retried(task[w].job))

-----------------------------------------------------------------------------
(* _maybe_cleanup_shared_source: count the active jobs of the source, and  *)
(* remove its directory if there are none.                                 *)
Count(w) ==
  /\ task[w].at = "counting"
  /\ task' = [task EXCEPT ![w] = IF Active THEN NoTask ELSE [NoTask EXCEPT !.at = "clearing"]]
  /\ UNCHANGED <<job, entry, dir>>

(* _janitor_shared_sources reads the sources with active jobs.             *)
Sweep(a) ==
  /\ task[a] = NoTask
  /\ dir # "none" /\ ~Active
  /\ Goes(a, "judging")
  /\ UNCHANGED <<job, entry, dir>>

(* It spares a directory that is gone or has changed within the hour.      *)
Judge(a) ==
  /\ task[a].at = "judging"
  /\ IF dir = "old" THEN Goes(a, "clearing") ELSE task' = [task EXCEPT ![a] = NoTask]
  /\ UNCHANGED <<job, entry, dir>>

(* rmtree lists the directory.                                             *)
List(a) ==
  /\ task[a].at = "clearing"
  /\ task' = [task EXCEPT ![a] =
       IF dir = "none" THEN NoTask
       ELSE [@ EXCEPT !.at = "removing", !.listed = {n \in Names : entry[n] # "none"}]]
  /\ UNCHANGED <<job, entry, dir>>

Remove(a, n) ==
  /\ task[a].at = "removing" /\ n \in task[a].listed
  /\ Unlinks({n})
  /\ task' = [task EXCEPT ![a].listed = @ \ {n}]
  /\ UNCHANGED job

(* rmdir fails, and is ignored, when a file was put there meanwhile.       *)
RemoveDir(a) ==
  /\ task[a].at = "removing" /\ task[a].listed = {}
  /\ dir' = IF \A n \in Names : entry[n] = "none" THEN "none" ELSE dir
  /\ task' = [task EXCEPT ![a] = NoTask]
  /\ UNCHANGED <<job, entry>>

-----------------------------------------------------------------------------
(* A process dies: nothing is unlinked.                                    *)
Crash(a) ==
  /\ task[a] # NoTask
  /\ task' = [task EXCEPT ![a] = NoTask]
  /\ UNCHANGED <<job, entry, dir>>

(* Time passes.                                                            *)
LockAges ==
  /\ entry["lock"] = "whole"
  /\ entry' = [entry EXCEPT !["lock"] = "stale"]
  /\ UNCHANGED <<job, task, dir>>

DirAges ==
  /\ dir = "fresh"
  /\ dir' = "old"
  /\ UNCHANGED <<job, task, entry>>

Init ==
  /\ job = [j \in Jobs |-> [status |-> "ABSENT", attempts |-> 0, by |-> None]]
  /\ task = [a \in Actors |-> NoTask]
  /\ entry = [n \in Names |-> "none"]
  /\ dir = "none"

Work(w) ==
  \/ Enter(w) \/ Poll(w)
  \/ OpenPart(w) \/ Receive(w) \/ Install(w) \/ Mark(w) \/ Release(w) \/ Abandon(w)
  \/ Probe(w) \/ Transcode(w) \/ Reuse(w) \/ Upload(w) \/ Register(w)
  \/ Publish(w) \/ Cancel(w) \/ Fail(w) \/ Count(w)

Clear(a) == List(a) \/ RemoveDir(a) \/ \E n \in Names : Remove(a, n)

Next ==
  \/ \E j \in Jobs : Enqueue(j) \/ Recover(j)
  \/ \E w \in Workers, j \in Jobs : Claim(w, j)
  \/ \E w \in Workers : Work(w)
  \/ \E a \in Janitors : Sweep(a) \/ Judge(a)
  \/ LockAges \/ DirAges
  \/ \E a \in Actors : Clear(a) \/ Crash(a)

Spec == Init /\ [][Next]_vars

(* A waiting task polls every ten seconds, and time passes.                *)
Fairness == (\A w \in Workers : WF_vars(Poll(w))) /\ WF_vars(LockAges)

FairSpec == Spec /\ Fairness

-----------------------------------------------------------------------------
(* Every variable keeps its type, and files lie in a directory: one that   *)
(* is gone holds none, whatever a clean-up removes under a running task.   *)
TypeOK ==
  /\ job \in [Jobs -> Row]
  /\ task \in [Actors -> Task]
  /\ entry \in [Names -> Contents]
  /\ dir \in {"none", "fresh", "old"}
  /\ dir = "none" => \A n \in Names : entry[n] = "none"

(* _ensure_shared_source returns a complete file: what the done mark and   *)
(* source.bin together promise is never torn, though locks are stolen from *)
(* owners that still write and unlinked by owners that lost them.          *)
DoneIsWhole == Cached => entry["final"] = "whole"

(* A task that waits for the shared download stops waiting: the download   *)
(* ends, or the lock of an owner that died grows stale and is stolen.      *)
EveryWaitEnds ==
  \A w \in Workers : (task[w].at \in Waits) ~> (task[w].at \notin Waits)

(* The source is downloaded once for all jobs: a task that waited does not *)
(* download what the owner of the lock has completed meanwhile.            *)
DownloadedOnce ==
  [][\A w \in Workers : Cached => ~(task[w].at = "waiting" /\ task'[w].at = "locked")]_vars
=============================================================================
