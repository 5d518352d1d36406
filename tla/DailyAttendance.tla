------------------------------- MODULE DailyAttendance -------------------------------
(* The HTTP register of attendance: one student, one day, a row per schedule.    *)
(* Students, parents and the staff submit, each for one schedule or for all      *)
(* active schedules of the student; a submission is one transaction that writes  *)
(* its rows one after the other, and two submissions may be under way at once.   *)
(*                                                                              *)
(* A submission that is refused changes nothing and is not modelled; isLocked is *)
(* checked before each row is written, and nothing in the program ever sets it.  *)
EXTENDS Naturals, FiniteSets

CONSTANTS
  Submissions,    \* BOUND: submissions, each made once
  Schedules,      \* of the routes the student's stops are on
  MaxSwitches     \* BOUND: schedules switched on or off meanwhile

(* A submission is never mistaken for the absence of one.                       *)
ASSUME SubmissionAssumption == "none" \notin Submissions

VARIABLES
  inUse,      \* the schedules that are active
  register,   \* schedule -> the committed row: its status and who wrote it
  locks,      \* schedule -> the transaction that has written the row, or none
  taken,      \* submission -> the rows it is to write, and how far it is
  switches

daVars == <<inUse, register, locks, taken, switches>>

AttendanceStatus == {"PENDING", "PRESENT", "ABSENT"}
NoRow == [status |-> "none", by |-> "none"]
NotMade == [step |-> "none", status |-> "none", rows |-> {}, todo |-> {}]

DaInit ==
  /\ inUse = Schedules
  /\ register = [s \in Schedules |-> NoRow]
  /\ locks = [s \in Schedules |-> "none"]
  /\ taken = [r \in Submissions |-> NotMade]
  /\ switches = 0

(* Another request changes the schedules, see Records.                          *)
Switch(s) ==
  /\ switches < MaxSwitches /\ switches' = switches + 1
  /\ inUse' = IF s \in inUse THEN inUse \ {s} ELSE inUse \cup {s}
  /\ UNCHANGED <<register, locks, taken>>

(* What a body asks for: the schedule it names, active or not, or all.          *)
RowsAskedFor == ({{s} : s \in Schedules} \cup {inUse}) \ {{}}

(* The schedules are looked up before the transaction starts.                   *)
SubmitAttendance(r) ==
  /\ taken[r] = NotMade
  /\ \E rows \in RowsAskedFor, status \in AttendanceStatus :
       taken' = [taken EXCEPT ![r] =
         [step |-> "writing", status |-> status, rows |-> rows, todo |-> rows]]
  /\ UNCHANGED <<inUse, register, locks, switches>>

(* MUTANT of Upsert: the repository writes outside the transaction.             *)
UpsertAtOnce(r, s) ==
  /\ locks[s] = "none" /\ UNCHANGED locks
  /\ register' = [register EXCEPT ![s] = [status |-> taken[r].status, by |-> r]]

(* The row stays locked until the transaction ends; a second one waits for it.  *)
Upsert(r, s) ==
  /\ locks[s] = "none" /\ locks' = [locks EXCEPT ![s] = r]
  /\ UNCHANGED register

WriteRow(r, s) ==
  /\ taken[r].step = "writing" /\ s \in taken[r].todo
  /\ Upsert(r, s)
  /\ taken' = [taken EXCEPT ![r].todo = @ \ {s}]
  /\ UNCHANGED <<inUse, switches>>

Written(r) == {s \in Schedules : locks[s] = r}
Release(r) == locks' = [s \in Schedules |-> IF locks[s] = r THEN "none" ELSE locks[s]]

CommitRows(r) ==
  /\ taken[r].step = "writing" /\ taken[r].todo = {}
  /\ register' = [s \in Schedules |->
       IF s \in Written(r) THEN [status |-> taken[r].status, by |-> r] ELSE register[s]]
  /\ Release(r)
  /\ taken' = [taken EXCEPT ![r].step = "committed"]
  /\ UNCHANGED <<inUse, switches>>

(* A statement fails, the transaction takes too long, the database ends a        *)
(* deadlock of two transactions that write the rows in different orders, or the  *)
(* server crashes.                                                              *)
RollBack(r) ==
  /\ taken[r].step = "writing"
  /\ Release(r) /\ taken' = [taken EXCEPT ![r].step = "failed"]
  /\ UNCHANGED <<inUse, register, switches>>

(* The entry in the audit log, whose errors are only logged.                    *)
LogAttendance(r) ==
  /\ taken[r].step = "committed"
  /\ \E step \in {"logged", "unlogged"} : taken' = [taken EXCEPT ![r].step = step]
  /\ UNCHANGED <<inUse, register, locks, switches>>

DaNext ==
  \/ \E s \in Schedules : Switch(s)
  \/ \E r \in Submissions :
       \/ SubmitAttendance(r) \/ CommitRows(r) \/ RollBack(r) \/ LogAttendance(r)
       \/ \E s \in Schedules : WriteRow(r, s)

DaSpec == DaInit /\ [][DaNext]_daVars

-----------------------------------------------------------------------------------
(* TYPE. What the variables range over.                                         *)
DaTypeOK ==
  /\ inUse \subseteq Schedules
  /\ \A s \in Schedules : register[s].status \in AttendanceStatus \cup {"none"}
  /\ \A r \in Submissions : taken[r].todo \subseteq taken[r].rows

(* SAFETY. Two submissions never share out between them the rows both were for:  *)
(* where they overlap one of them has the last word on all of it, and one that   *)
(* failed leaves no row behind.                                                 *)
DayIsUniform ==
  /\ \A q, r \in Submissions : \A s, t \in taken[q].rows \cap taken[r].rows :
       ~(q # r /\ register[s].by = q /\ register[t].by = r)
  /\ \A s \in Schedules, r \in Submissions :
       register[s].by = r => taken[r].step \in {"committed", "logged", "unlogged"}
====================================================================================
