--------------------------- MODULE MediaSourcesProofs ---------------------------
(***************************************************************************)
(* Proofs about MediaSources, for any number of workers and jobs of the    *)
(* source and any number of attempts.                                      *)
(***************************************************************************)
EXTENDS MediaSources, TLAPS

USE SourcesAssumption

Places == {"idle", "claimed", "failed", "counting", "judging", "clearing", "removing"}
            \cup Waits \cup Fetches \cup Encodes

(* Files lie in a directory.                                               *)
FilesOK ==
  /\ entry \in [Names -> Contents]
  /\ dir \in {"none", "fresh", "old"}
  /\ dir = "none" => \A n \in Names : entry[n] = "none"

(* A worker that is told that its stream has ended, and goes on to rename  *)
(* its part, has no torn part: nobody else writes to it.                   *)
PartsReceived ==
  \A w \in Workers : task[w].at = "received" => entry[w] \in {"none", "whole"}

FinalWhole == entry["final"] \in {"none", "whole"}

IInv == TypeOK /\ PartsReceived /\ FinalWhole

-----------------------------------------------------------------------------
LEMMA NameFacts ==
  /\ "lock" \in Names /\ "done" \in Names /\ "final" \in Names /\ Workers \subseteq Names
  /\ Workers \subseteq Actors /\ Janitors \subseteq Actors
  /\ \A w \in Workers : Part(w) = w /\ w # "lock" /\ w # "done" /\ w # "final"
  BY DEF Names, Actors, Part

LEMMA TaskType ==
  ASSUME NEW at \in Places, NEW j \in Jobs \cup {None}, NEW l \in SUBSET Names
  PROVE  [at |-> at, job |-> j, listed |-> l] \in Task
  BY DEF Task, Places

LEMMA NoTaskType == NoTask \in Task /\ NoTask.at = "idle"
  BY DEF NoTask, Task

LEMMA GoesTypes ==
  ASSUME TypeOK, NEW a \in Actors, NEW at \in Places, Goes(a, at)
  PROVE  /\ task' \in [Actors -> Task]
         /\ task'[a].at = at
         /\ \A b \in Actors : b # a => task'[b] = task[b]
<1>1. task[a] \in Task /\ task \in [Actors -> Task]
  BY DEF TypeOK
<1>2. [task[a] EXCEPT !.at = at] \in Task /\ [task[a] EXCEPT !.at = at].at = at
  BY <1>1 DEF Task, Places
<1> QED BY <1>1, <1>2 DEF Goes

LEMMA WritesTypes ==
  ASSUME NEW new \in [Names -> Contents], Writes(new)
  PROVE  FilesOK'
  BY DEF Writes, FilesOK

(* Files that are unlinked are gone, the others stay as they are.          *)
LEMMA UnlinksTypes ==
  ASSUME FilesOK, NEW names, Unlinks(names)
  PROVE  FilesOK' /\ \A n \in Names : entry'[n] \in {entry[n], "none"}
<1>1. \A n \in Names : entry'[n] \in {entry[n], "none"}
  BY DEF Unlinks, FilesOK
<1>2. entry' \in [Names -> Contents]
  BY <1>1 DEF Unlinks, FilesOK, Contents
<1>3. dir' \in {"none", "fresh", "old"} /\ (dir' = "none" => dir = "none")
  BY DEF Unlinks, FilesOK
<1> QED BY <1>1, <1>2, <1>3 DEF FilesOK

-----------------------------------------------------------------------------
(* The rows: what a statement of the queue writes is a row.                *)
LEMMA SettlesTypes ==
  ASSUME TypeOK, NEW w \in Workers, NEW row, Settles(w, row),
         \A j \in Jobs : task[w].job = j => row \in Row
  PROVE  job' \in [Jobs -> Row]
<1>1. CASE task[w].job \in Jobs
  BY <1>1 DEF Settles, TypeOK
<1>2. CASE task[w].job \notin Jobs
  BY <1>2 DEF Settles, TypeOK
<1> QED BY <1>1, <1>2

LEMMA RowTypes ==
  ASSUME TypeOK, NEW j \in Jobs
  PROVE  Retried(j) \in Row /\ Over(j) \in Row
<1>1. job[j] \in Row
  BY DEF TypeOK
<1>2. /\ (IF job[j].status = "RUNNING" /\ job[j].attempts < MaxAttempts[j]
             THEN "RETRY" ELSE "OVER") \in {"RETRY", "OVER"}
  OBVIOUS
<1> QED BY <1>1, <1>2 DEF Retried, Over, Row

-----------------------------------------------------------------------------
(* What the invariant asks of a step that neither writes to a part, nor    *)
(* renames one: files of the source stay or go, and no stream ends.        *)
Quiet ==
  /\ job' \in [Jobs -> Row] /\ task' \in [Actors -> Task] /\ FilesOK'
  /\ \A n \in Workers \cup {"final"} : entry'[n] \in {entry[n], "none"}
  /\ \A w \in Workers : task'[w].at = "received" => task[w].at = "received"

LEMMA QuietStep == IInv /\ Quiet => IInv'
<1> SUFFICES ASSUME IInv, Quiet  PROVE IInv'
  OBVIOUS
<1>1. TypeOK'
  BY DEF Quiet, FilesOK, TypeOK
<1>2. PartsReceived'
  BY DEF Quiet, IInv, PartsReceived
<1>3. FinalWhole'
  BY DEF Quiet, IInv, FinalWhole
<1> QED BY <1>1, <1>2, <1>3 DEF IInv

(* Steps that move one task and leave the directory alone.                 *)
LEMMA MoveStep ==
  ASSUME IInv, NEW a \in Actors, NEW at \in Places \ {"received"}, Goes(a, at),
         job' \in [Jobs -> Row], entry' = entry, dir' = dir
  PROVE  IInv'
<1>1. /\ task' \in [Actors -> Task]
      /\ task'[a].at = at
      /\ \A b \in Actors : b # a => task'[b] = task[b]
  BY GoesTypes DEF IInv
<1>2. FilesOK'
  BY DEF IInv, TypeOK, FilesOK
<1>3. Quiet
  BY <1>1, <1>2, NameFacts DEF Quiet
<1> QED BY <1>3, QuietStep

(* Steps that move one task and unlink files.                              *)
LEMMA UnlinkStep ==
  ASSUME IInv, NEW a \in Actors, NEW at \in Places \ {"received"}, Goes(a, at),
         job' = job, NEW names, Unlinks(names)
  PROVE  IInv'
<1>1. /\ task' \in [Actors -> Task]
      /\ task'[a].at = at
      /\ \A b \in Actors : b # a => task'[b] = task[b]
  BY GoesTypes DEF IInv
<1>2. FilesOK' /\ \A n \in Names : entry'[n] \in {entry[n], "none"}
  BY UnlinksTypes DEF IInv, TypeOK, FilesOK
<1>3. Quiet
  BY <1>1, <1>2, NameFacts DEF Quiet, IInv, TypeOK
<1> QED BY <1>3, QuietStep

-----------------------------------------------------------------------------
LEMMA QueueStep ==
  ASSUME IInv, NEW j \in Jobs, Enqueue(j) \/ Recover(j)
  PROVE  IInv'
<1>1. [job[j] EXCEPT !.status = "QUEUED"] \in Row /\ Retried(j) \in Row
  BY RowTypes DEF IInv, TypeOK, Row
<1>2. job' \in [Jobs -> Row]
  BY <1>1 DEF Enqueue, Recover, IInv, TypeOK
<1>3. UNCHANGED <<task, entry, dir>>
  BY DEF Enqueue, Recover
<1> QED BY <1>2, <1>3 DEF IInv, TypeOK, PartsReceived, FinalWhole

LEMMA ClaimStep ==
  ASSUME IInv, NEW w \in Workers, NEW j \in Jobs, Claim(w, j)
  PROVE  IInv'
<1> DEFINE row == [status |-> "RUNNING", attempts |-> job[j].attempts + 1, by |-> w]
           t == [NoTask EXCEPT !.at = "claimed", !.job = j]
<1>1. row \in Row
  BY DEF IInv, TypeOK, Row
<1>2. t \in Task /\ t.at = "claimed"
  BY DEF NoTask, Task
<1>3. job' = [job EXCEPT ![j] = row] /\ task' = [task EXCEPT ![w] = t] /\ UNCHANGED <<entry, dir>>
  BY DEF Claim
<1> HIDE DEF row, t
<1>4. /\ job' \in [Jobs -> Row] /\ task' \in [Actors -> Task]
      /\ \A v \in Workers : task'[v].at = "received" => task[v].at = "received"
  BY <1>1, <1>2, <1>3, NameFacts DEF IInv, TypeOK
<1>5. Quiet
  BY <1>3, <1>4 DEF Quiet, IInv, TypeOK, FilesOK
<1> QED BY <1>5, QuietStep

(* The wait for the lock: the lock file may appear, and may be unlinked.   *)
LEMMA WaitStep ==
  ASSUME IInv, NEW w \in Workers, Enter(w) \/ Poll(w)
  PROVE  IInv'
<1>1. w \in Actors
  BY NameFacts
<1>2. CASE Enter(w)
  <2>1. PICK at \in {"ready", "waiting"} : Goes(w, at)
    BY <1>2 DEF Enter
  <2>2. /\ task' \in [Actors -> Task]
        /\ task'[w].at = at
        /\ \A b \in Actors : b # w => task'[b] = task[b]
    BY <1>1, <2>1, GoesTypes DEF IInv, Places, Waits, Encodes
  <2>3. UNCHANGED <<job, entry>> /\ FilesOK'
    BY <1>2 DEF Enter, IInv, TypeOK, FilesOK
  <2>4. Quiet
    BY <2>2, <2>3, NameFacts DEF Quiet, IInv, TypeOK
  <2> QED BY <2>4, QuietStep
<1>3. CASE TryLock(w)
  <2>1. CASE Goes(w, "locked") /\ Writes([entry EXCEPT !["lock"] = "whole"])
    <3>1. /\ task' \in [Actors -> Task]
          /\ task'[w].at = "locked"
          /\ \A b \in Actors : b # w => task'[b] = task[b]
      BY <1>1, <2>1, GoesTypes DEF IInv, Places, Fetches
    <3>2. [entry EXCEPT !["lock"] = "whole"] \in [Names -> Contents]
      BY NameFacts DEF IInv, TypeOK, Contents
    <3>3. FilesOK'
      BY <2>1, <3>2, WritesTypes
    <3>4. \A n \in Workers \cup {"final"} : entry'[n] = entry[n]
      BY <2>1, NameFacts DEF Writes, IInv, TypeOK
    <3>5. Quiet
      BY <1>3, <3>1, <3>3, <3>4, NameFacts DEF Quiet, TryLock, IInv, TypeOK
    <3> QED BY <3>5, QuietStep
  <2>2. CASE (Goes(w, "failed") \/ Goes(w, "looking")) /\ UNCHANGED <<entry, dir>>
    BY <1>1, <1>3, <2>2, MoveStep DEF TryLock, IInv, TypeOK, Places, Waits
  <2> QED BY <1>3, <2>1, <2>2 DEF TryLock
<1>4. CASE Look(w)
  <2>1. PICK at \in {"stealing", "ready", "waiting"} : Goes(w, at)
    BY <1>4 DEF Look
  <2> QED BY <1>1, <1>4, <2>1, MoveStep DEF Look, IInv, TypeOK, Places, Waits, Encodes
<1>5. CASE Steal(w)
  BY <1>1, <1>5, UnlinkStep DEF Steal, Places, Waits
<1> QED BY <1>2, <1>3, <1>4, <1>5 DEF Poll

LEMMA OpenPartStep ==
  ASSUME IInv, NEW w \in Workers, OpenPart(w)
  PROVE  IInv'
<1>1. /\ task' \in [Actors -> Task]
      /\ task'[w].at = "downloading"
      /\ \A b \in Actors : b # w => task'[b] = task[b]
  BY GoesTypes, NameFacts DEF OpenPart, IInv, Places, Fetches
<1>2. [entry EXCEPT ![w] = "torn"] \in [Names -> Contents]
  BY DEF IInv, TypeOK, Contents
<1>3. entry' = [entry EXCEPT ![w] = "torn"] /\ FilesOK' /\ job' = job
  BY <1>2, WritesTypes, NameFacts DEF OpenPart, Writes
<1>4. TypeOK'
  BY <1>1, <1>3 DEF IInv, TypeOK, FilesOK
<1>5. \A n \in Names : n # w => entry'[n] = entry[n]
  BY <1>3 DEF IInv, TypeOK
<1>6. PartsReceived'
  BY <1>1, <1>5, NameFacts DEF IInv, PartsReceived
<1>7. FinalWhole'
  BY <1>5, NameFacts DEF IInv, FinalWhole
<1> QED BY <1>4, <1>6, <1>7 DEF IInv

LEMMA ReceiveStep ==
  ASSUME IInv, NEW w \in Workers, Receive(w)
  PROVE  IInv'
<1>1. /\ task' \in [Actors -> Task]
      /\ \A b \in Actors : b # w => task'[b] = task[b]
  BY GoesTypes, NameFacts DEF Receive, IInv, Places, Fetches
<1>2. /\ entry' \in [Names -> Contents]
      /\ entry'[w] \in {"none", "whole"}
      /\ \A n \in Names : n # w => entry'[n] = entry[n]
      /\ entry[w] = "none" => entry'[w] = "none"
      /\ UNCHANGED <<job, dir>>
  BY NameFacts DEF Receive, IInv, TypeOK, Contents
<1>3. TypeOK'
  BY <1>1, <1>2 DEF IInv, TypeOK
<1>4. PartsReceived'
  BY <1>1, <1>2, NameFacts DEF IInv, PartsReceived
<1>5. FinalWhole'
  BY <1>2, NameFacts DEF IInv, FinalWhole
<1> QED BY <1>3, <1>4, <1>5 DEF IInv

(* The rename: what becomes source.bin is the part of a worker that was    *)
(* told that its stream has ended.                                         *)
LEMMA InstallStep ==
  ASSUME IInv, NEW w \in Workers, Install(w)
  PROVE  IInv'
<1>1. /\ task' \in [Actors -> Task]
      /\ task'[w].at = "installed"
      /\ \A b \in Actors : b # w => task'[b] = task[b]
  BY GoesTypes, NameFacts DEF Install, IInv, Places, Fetches
<1> DEFINE new == [entry EXCEPT !["final"] = entry[w], ![w] = "none"]
<1>2. entry[w] \in Contents
  BY NameFacts DEF IInv, TypeOK
<1>3. new \in [Names -> Contents]
  BY <1>2, NameFacts DEF IInv, TypeOK, Contents
<1>4. new["final"] = entry[w] /\ \A n \in Names \ {"final", w} : new[n] = entry[n]
  BY NameFacts DEF IInv, TypeOK
<1>5. entry' = new /\ Writes(new) /\ job' = job
  BY NameFacts DEF Install, Writes
<1> HIDE DEF new
<1>6. TypeOK'
  BY <1>1, <1>3, <1>5, WritesTypes DEF IInv, TypeOK, FilesOK
<1>7. PartsReceived'
  BY <1>1, <1>4, <1>5, NameFacts DEF IInv, PartsReceived
<1>8. entry[w] = "whole"
  BY DEF Install, Part, IInv, PartsReceived
<1>9. FinalWhole'
  BY <1>4, <1>5, <1>8 DEF FinalWhole
<1> QED BY <1>6, <1>7, <1>9 DEF IInv

LEMMA MarkStep ==
  ASSUME IInv, NEW w \in Workers, Mark(w)
  PROVE  IInv'
<1>1. /\ task' \in [Actors -> Task]
      /\ task'[w].at = "marked"
      /\ \A b \in Actors : b # w => task'[b] = task[b]
  BY GoesTypes, NameFacts DEF Mark, IInv, Places, Fetches
<1>2. [entry EXCEPT !["done"] = "whole"] \in [Names -> Contents]
  BY NameFacts DEF IInv, TypeOK, Contents
<1>3. FilesOK' /\ job' = job /\ entry' = [entry EXCEPT !["done"] = "whole"]
  BY <1>2, WritesTypes DEF Mark, Writes
<1>4. \A n \in Workers \cup {"final"} : entry'[n] = entry[n]
  BY <1>3, NameFacts DEF IInv, TypeOK
<1>5. Quiet
  BY <1>1, <1>3, <1>4, NameFacts DEF Quiet, IInv, TypeOK
<1> QED BY <1>5, QuietStep

LEMMA FetchStep ==
  ASSUME IInv, NEW w \in Workers,
         \/ OpenPart(w) \/ Receive(w) \/ Install(w) \/ Mark(w) \/ Release(w) \/ Abandon(w)
  PROVE  IInv'
<1>1. CASE Release(w)
  BY <1>1, UnlinkStep, NameFacts DEF Release, Places, Encodes
<1>2. CASE Abandon(w)
  BY <1>2, UnlinkStep, NameFacts DEF Abandon, Places
<1> QED BY <1>1, <1>2, OpenPartStep, ReceiveStep, InstallStep, MarkStep

(* The rest of the job, up to the row of its end.                          *)
LEMMA EncodeStep ==
  ASSUME IInv, NEW w \in Workers,
         \/ Probe(w) \/ Transcode(w) \/ Reuse(w) \/ Upload(w) \/ Register(w)
         \/ Publish(w) \/ Cancel(w) \/ Fail(w)
  PROVE  IInv'
<1>1. w \in Actors
  BY NameFacts
<1>2. CASE Probe(w) \/ Transcode(w) \/ Reuse(w) \/ Upload(w) \/ Register(w)
  <2>1. PICK at \in {"probed", "encoded", "registered", "uploaded"} : Goes(w, at)
    BY <1>2 DEF Probe, Transcode, Reuse, Upload, Register
  <2>2. at \in Places \ {"received"} /\ UNCHANGED <<job, entry, dir>>
    BY <1>2 DEF Probe, Transcode, Reuse, Upload, Register, Places, Encodes
  <2> QED BY <1>1, <2>1, <2>2, MoveStep DEF IInv, TypeOK
<1>3. CASE Publish(w) \/ Cancel(w) \/ Fail(w)
  <2>1. PICK row \in {Over(task[w].job), Retried(task[w].job)} : Settles(w, row)
    BY <1>3 DEF Publish, Cancel, Fail
  <2>2. \A j \in Jobs : task[w].job = j => row \in Row
    BY <2>1, RowTypes DEF IInv
  <2>3. job' \in [Jobs -> Row]
    BY <2>1, <2>2, SettlesTypes DEF IInv
  <2>4. Goes(w, "counting") /\ UNCHANGED <<entry, dir>>
    BY <2>1 DEF Settles
  <2> QED BY <1>1, <2>3, <2>4, MoveStep DEF Places
<1> QED BY <1>2, <1>3

-----------------------------------------------------------------------------
(* Steps that end the work of a worker or a janitor.                       *)
LEMMA ResetStep ==
  ASSUME IInv, NEW a \in Actors, NEW t \in Task, t.at # "received",
         task' = [task EXCEPT ![a] = t], UNCHANGED <<job, entry>>, FilesOK'
  PROVE  IInv'
<1>1. /\ task' \in [Actors -> Task]
      /\ \A w \in Workers : task'[w].at = "received" => task[w].at = "received"
  BY NameFacts DEF IInv, TypeOK
<1>2. Quiet
  BY <1>1 DEF Quiet, IInv, TypeOK
<1> QED BY <1>2, QuietStep

LEMMA CleanStep ==
  ASSUME IInv, NEW a \in Actors,
         \/ a \in Workers /\ Count(a)
         \/ a \in Janitors /\ (Sweep(a) \/ Judge(a))
         \/ Clear(a) \/ Crash(a)
  PROVE  IInv'
<1>1. CASE a \in Workers /\ Count(a)
  <2>1. PICK t \in {NoTask, [NoTask EXCEPT !.at = "clearing"]} : task' = [task EXCEPT ![a] = t]
    BY <1>1 DEF Count
  <2>2. t \in Task /\ t.at # "received"
    BY <2>1, NoTaskType DEF NoTask, Task
  <2>3. UNCHANGED <<job, entry>> /\ FilesOK'
    BY <1>1 DEF Count, IInv, TypeOK, FilesOK
  <2> QED BY <2>1, <2>2, <2>3, ResetStep
<1>2. CASE List(a)
  <2> DEFINE listing == [task[a] EXCEPT !.at = "removing", !.listed = {n \in Names : entry[n] # "none"}]
  <2>1. task[a] \in Task /\ task \in [Actors -> Task]
    BY DEF IInv, TypeOK
  <2>2. listing \in Task /\ listing.at = "removing"
    BY <2>1 DEF Task
  <2>3. task' = [task EXCEPT ![a] = NoTask] \/ task' = [task EXCEPT ![a] = listing]
    BY <1>2, <2>1 DEF List
  <2>4. UNCHANGED <<job, entry>> /\ FilesOK'
    BY <1>2 DEF List, IInv, TypeOK, FilesOK
  <2> HIDE DEF listing
  <2> QED BY <2>2, <2>3, <2>4, NoTaskType, ResetStep
<1>3. ASSUME NEW n \in Names, Remove(a, n)  PROVE IInv'
  <2> DEFINE shorter == [task[a] EXCEPT !.listed = @ \ {n}]
  <2>1. task[a] \in Task /\ task[a].at = "removing"
    BY <1>3 DEF IInv, TypeOK, Remove
  <2>2. shorter \in Task /\ shorter.at = "removing"
    BY <2>1 DEF Task
  <2>3. task' = [task EXCEPT ![a] = shorter] /\ job' = job /\ Unlinks({n})
    BY <1>3 DEF Remove
  <2> HIDE DEF shorter
  <2>4. FilesOK' /\ \A m \in Names : entry'[m] \in {entry[m], "none"}
    BY <2>3, UnlinksTypes DEF IInv, TypeOK, FilesOK
  <2>5. Quiet
    BY <2>2, <2>3, <2>4, NameFacts DEF Quiet, IInv, TypeOK
  <2> QED BY <2>5, QuietStep
<1>4. CASE RemoveDir(a)
  <2>1. task' = [task EXCEPT ![a] = NoTask] /\ UNCHANGED <<job, entry>> /\ FilesOK'
    BY <1>4 DEF RemoveDir, IInv, TypeOK, FilesOK
  <2> QED BY <2>1, NoTaskType, ResetStep
<1>5. CASE Crash(a)
  <2>1. task' = [task EXCEPT ![a] = NoTask] /\ UNCHANGED <<job, entry>> /\ FilesOK'
    BY <1>5 DEF Crash, IInv, TypeOK, FilesOK
  <2> QED BY <2>1, NoTaskType, ResetStep
<1>6. CASE Sweep(a)
  BY <1>6, MoveStep DEF Sweep, IInv, TypeOK, Places
<1>7. CASE Judge(a)
  <2>1. CASE Goes(a, "clearing") /\ dir = "old"
    BY <1>7, <2>1, MoveStep DEF Judge, IInv, TypeOK, Places
  <2>2. CASE task' = [task EXCEPT ![a] = NoTask]
    <3>1. UNCHANGED <<job, entry>> /\ FilesOK'
      BY <1>7 DEF Judge, IInv, TypeOK, FilesOK
    <3> QED BY <2>2, <3>1, NoTaskType, ResetStep
  <2> QED BY <1>7, <2>1, <2>2 DEF Judge
<1> QED BY <1>1, <1>2, <1>3, <1>4, <1>5, <1>6, <1>7 DEF Clear

LEMMA TimeStep ==
  ASSUME IInv, LockAges \/ DirAges
  PROVE  IInv'
<1>1. CASE LockAges
  <2>1. /\ entry' \in [Names -> Contents] /\ dir # "none" /\ UNCHANGED <<job, task, dir>>
        /\ \A n \in Names : n # "lock" => entry'[n] = entry[n]
    BY <1>1, NameFacts DEF LockAges, IInv, TypeOK, Contents
  <2>2. Quiet
    BY <2>1, NameFacts DEF Quiet, FilesOK, IInv, TypeOK
  <2> QED BY <2>2, QuietStep
<1>2. CASE DirAges
  BY <1>2 DEF DirAges, IInv, TypeOK, PartsReceived, FinalWhole
<1> QED BY <1>1, <1>2

LEMMA InitIInv == Init => IInv
<1> SUFFICES ASSUME Init  PROVE IInv
  OBVIOUS
<1>1. TypeOK
  BY NoTaskType DEF Init, TypeOK, Row, Contents
<1>2. PartsReceived /\ FinalWhole
  BY NameFacts, NoTaskType DEF Init, PartsReceived, FinalWhole
<1> QED BY <1>1, <1>2 DEF IInv

LEMMA NextIInv == IInv /\ [Next]_vars => IInv'
<1> SUFFICES ASSUME IInv, [Next]_vars  PROVE IInv'
  OBVIOUS
<1>1. ASSUME NEW j \in Jobs, Enqueue(j) \/ Recover(j)  PROVE IInv'
  BY <1>1, QueueStep
<1>2. ASSUME NEW w \in Workers, NEW j \in Jobs, Claim(w, j)  PROVE IInv'
  BY <1>2, ClaimStep
<1>3. ASSUME NEW w \in Workers, Work(w)  PROVE IInv'
  <2>1. CASE Enter(w) \/ Poll(w)
    BY <2>1, WaitStep
  <2>2. CASE \/ OpenPart(w) \/ Receive(w) \/ Install(w) \/ Mark(w) \/ Release(w) \/ Abandon(w)
    BY <2>2, FetchStep
  <2>3. CASE \/ Probe(w) \/ Transcode(w) \/ Reuse(w) \/ Upload(w) \/ Register(w)
             \/ Publish(w) \/ Cancel(w) \/ Fail(w)
    BY <2>3, EncodeStep
  <2>4. CASE Count(w)
    BY <2>4, CleanStep, NameFacts
  <2> QED BY <1>3, <2>1, <2>2, <2>3, <2>4 DEF Work
<1>4. CASE LockAges \/ DirAges
  BY <1>4, TimeStep
<1>5. ASSUME NEW a \in Actors, Clear(a) \/ Crash(a)  PROVE IInv'
  BY <1>5, CleanStep
<1>6. ASSUME NEW a \in Janitors, Sweep(a) \/ Judge(a)  PROVE IInv'
  BY <1>6, CleanStep, NameFacts
<1>7. CASE UNCHANGED vars
  BY <1>7 DEF vars, IInv, TypeOK, PartsReceived, FinalWhole
<1> QED BY <1>1, <1>2, <1>3, <1>4, <1>5, <1>6, <1>7 DEF Next

(* The done mark and source.bin together promise a whole file, for any     *)
(* number of workers that steal each other's lock and remove each other's  *)
(* files; and files lie in a directory that exists.                        *)
THEOREM SourceIsWhole == Spec => [](TypeOK /\ DoneIsWhole)
<1>1. IInv => TypeOK /\ DoneIsWhole
  BY DEF IInv, FinalWhole, DoneIsWhole, Cached
<1> QED BY InitIInv, NextIInv, <1>1, PTL DEF Spec
=============================================================================
