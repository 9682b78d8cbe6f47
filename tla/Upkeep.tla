-------------------------------- MODULE Upkeep --------------------------------
(***************************************************************************)
(* What the bot process does once a day besides its users: the second      *)
(* phase of the maintenance loop (app/workers/maintenance.py,              *)
(* app/services/growth.py), which sends the administrators their weekly    *)
(* report and the storage channel a backup of the database.  A file with   *)
(* the date of the last of each keeps the passes, one every fifteen        *)
(* minutes, from sending them again.  Dates are seen from today: a date    *)
(* is today's or it is not.                                                *)
(***************************************************************************)
EXTENDS Naturals

CONSTANT MaxSlips   \* bound: misreads, failed writes, lost answers and deaths in one day

ASSUME UpkeepAssumption == MaxSlips \in Nat

VARIABLES
  clock,   \* saturday, and whether AUTO_BACKUP_HOUR has come, in Tehran
  marks,   \* growth_state.json: is the date of each send today's
  pass,    \* the running pass of the second phase
  sends,   \* what reached Telegram for today
  slips    \* what went wrong today

upkeepVars == <<clock, marks, pass, sends, slips>>

-----------------------------------------------------------------------------
Kinds == {"report", "backup"}
Marks == [Kinds -> BOOLEAN]
NoMarks == [kind \in Kinds |-> FALSE]

(* today: the pass took the date when it was today's; state: what it read. *)
Pass == [at : {"idle", "reporting", "reported", "saved", "dumping", "stored"},
         today : BOOLEAN, state : Marks]
NoPass == [at |-> "idle", today |-> FALSE, state |-> NoMarks]
ReportOver == [NoPass EXCEPT !.at = "saved"]

Slip == slips < MaxSlips /\ slips' = slips + 1

(* _load_state: a file that cannot be read is an empty one.                *)
Loaded(state) ==
  \/ state = marks /\ UNCHANGED slips
  \/ state = NoMarks /\ Slip

GoesOn(at, state) == pass' = [at |-> at, today |-> TRUE, state |-> state]
Counted(kind) == sends' = IF pass.today THEN [sends EXCEPT ![kind] = @ + 1] ELSE sends

-----------------------------------------------------------------------------
(* send_weekly_admin_report: on Saturday, unless the file says it is done. *)
StartPass ==
  /\ pass = NoPass
  /\ \/ ~clock.saturday /\ pass' = ReportOver /\ UNCHANGED slips
     \/ /\ clock.saturday
        /\ \E state \in Marks :
             /\ Loaded(state)
             /\ IF state["report"] THEN pass' = ReportOver ELSE GoesOn("reporting", state)
  /\ UNCHANGED <<clock, marks, sends>>

(* A call of Telegram: it is answered; or it arrives and the answer is     *)
(* lost, so that the code takes it for failed; or nothing arrives.         *)
Sends(kind, answered, failed) ==
  \/ pass' = answered /\ Counted(kind) /\ UNCHANGED slips
  \/ pass' = failed /\ Counted(kind) /\ Slip
  \/ pass' = failed /\ UNCHANGED <<sends, slips>>

(* One message per administrator: one that is answered makes it sent.      *)
SendReport ==
  /\ pass.at = "reporting"
  /\ Sends("report", [pass EXCEPT !.at = "reported"], ReportOver)
  /\ UNCHANGED <<clock, marks>>

(* Mutant: the file is written with the one date only.                     *)
SavesOnlyMark(kind) == marks' = [NoMarks EXCEPT ![kind] = pass.today]

(* _save_state writes back the whole state this function has read.         *)
SavesMark(kind) == marks' = [pass.state EXCEPT ![kind] = pass.today]

MarkReport ==
  /\ pass.at = "reported"
  /\ SavesMark("report")
  /\ pass' = ReportOver
  /\ UNCHANGED <<clock, sends, slips>>

(* auto_backup_if_due reads the file anew, and after the hour dumps.       *)
CheckBackup ==
  /\ pass.at = "saved"
  /\ \E state \in Marks :
       /\ Loaded(state)
       /\ IF state["backup"] \/ ~clock.late THEN pass' = NoPass ELSE GoesOn("dumping", state)
  /\ UNCHANGED <<clock, marks, sends>>

(* pg_dump and sendDocument, for up to fifteen minutes; either may fail.   *)
Dump ==
  /\ pass.at = "dumping"
  /\ Sends("backup", [pass EXCEPT !.at = "stored"], NoPass)
  /\ UNCHANGED <<clock, marks>>

MarkBackup ==
  /\ pass.at = "stored"
  /\ SavesMark("backup")
  /\ pass' = NoPass
  /\ UNCHANGED <<clock, sends, slips>>

(* The file cannot be written: the exception ends the pass.                *)
SaveFails ==
  /\ pass.at \in {"reported", "stored"}
  /\ Slip
  /\ pass' = NoPass
  /\ UNCHANGED <<clock, marks, sends>>

UpkeepDies ==
  /\ Slip
  /\ pass' = NoPass
  /\ UNCHANGED <<clock, marks, sends>>

-----------------------------------------------------------------------------
BackupHour ==
  /\ ~clock.late
  /\ clock' = [clock EXCEPT !.late = TRUE]
  /\ UNCHANGED <<marks, pass, sends, slips>>

(* Midnight: every date that was today's is yesterday's.                   *)
NewDay ==
  /\ clock.late
  /\ \E saturday \in BOOLEAN : ~(saturday /\ clock.saturday) /\ clock' = [saturday |-> saturday, late |-> FALSE]
  /\ marks' = NoMarks
  /\ pass' = [pass EXCEPT !.today = FALSE, !.state = NoMarks]
  /\ sends' = [kind \in Kinds |-> 0] /\ slips' = 0

UpkeepInit ==
  /\ clock = [saturday |-> TRUE, late |-> FALSE]
  /\ marks = NoMarks /\ pass = NoPass
  /\ sends = [kind \in Kinds |-> 0] /\ slips = 0

UpkeepNext ==
  \/ StartPass \/ SendReport \/ MarkReport \/ CheckBackup \/ Dump \/ MarkBackup
  \/ SaveFails \/ BackupHour \/ NewDay

UpkeepTypeOK ==
  /\ clock \in [saturday : BOOLEAN, late : BOOLEAN]
  /\ marks \in Marks /\ pass \in Pass
  /\ sends \in [Kinds -> Nat] /\ slips \in 0..MaxSlips

(* The report and the backup of a day go out once, and once more at most   *)
(* for each time that day the process died, the file could not be read or  *)
(* written, or Telegram's answer to a send that arrived was lost.  A send  *)
(* that fails outright costs nothing, and the mark of one is never lost    *)
(* when the mark of the other is written.                                  *)
SentOncePerSlip == \A kind \in Kinds : sends[kind] <= 1 + slips
=============================================================================
