----------------------------- MODULE EmergencyService -----------------------------
(* EmergencyService over EmergencyRepository: reporting an emergency and moving *)
(* it on.  A report checks and then inserts; a move validates against a status  *)
(* read outside the transaction, and the transaction reads the row once more    *)
(* before it updates it by version.  The database runs at READ COMMITTED and    *)
(* refuses two emergencies of one trip with one status                          *)
(* (activeEmergencyPerTrip).  Any number of handlers interleave.                *)
EXTENDS Naturals, Sequences

CONSTANTS
  Emergencies,    \* emergency ids
  NoEmergency,
  Trips,
  TripOf,         \* emergency -> the trip it is about
  Requests        \* handlers that may run at once

ASSUME TripOfAssumption == TripOf \in [Emergencies -> Trips]
ASSUME NoEmergencyAssumption == NoEmergency \notin Emergencies

VARIABLES
  status, version,         \* the Emergency rows; "none" and 0 before the insert
  history,                 \* emergency -> its EmergencyHistory rows, oldest first
  emitted,                 \* emergency and state -> times it was announced on the event bus
  pc, em,                  \* per handler: step, and emergency it serves
  next, expectedVersion,   \* what the caller asked for
  current                  \* status the transaction read before its update

vars == <<status, version, history, emitted, pc, em, next, expectedVersion, current>>
rows == <<status, version, history>>

Desk == INSTANCE EmergencyDesk
EmergencyStatus == Desk!EmergencyStatus
validTransitions == Desk!validTransitions
Open == {"ACTIVE", "ACKNOWLEDGED", "RESPONDING"}

Init ==
  /\ status = [e \in Emergencies |-> "none"]
  /\ version = [e \in Emergencies |-> 0]
  /\ history = [e \in Emergencies |-> <<>>]
  /\ emitted = [e \in Emergencies |-> [s \in EmergencyStatus |-> 0]]
  /\ pc = [r \in Requests |-> "idle"]
  /\ em = [r \in Requests |-> NoEmergency]
  /\ next = [r \in Requests |-> "none"]
  /\ expectedVersion = [r \in Requests |-> 0]
  /\ current = [r \in Requests |-> "none"]

(* The handler returns or throws; its local variables are gone.                *)
Finish(r) ==
  /\ pc' = [pc EXCEPT ![r] = "idle"]
  /\ em' = [em EXCEPT ![r] = NoEmergency]
  /\ next' = [next EXCEPT ![r] = "none"]
  /\ expectedVersion' = [expectedVersion EXCEPT ![r] = 0]
  /\ current' = [current EXCEPT ![r] = "none"]

Goto(r, step) ==
  /\ pc' = [pc EXCEPT ![r] = step]
  /\ UNCHANGED <<em, next, expectedVersion>>

(* @@unique([tripId, status]): no other emergency of the trip has status s.    *)
activeEmergencyPerTrip(e, s) ==
  \A f \in Emergencies \ {e} : TripOf[f] = TripOf[e] => status[f] # s

-----------------------------------------------------------------------------------
(* createEmergency, first await: findActiveByTripId finds none.                *)
CreateCheck(r, e) ==
  /\ pc[r] = "idle"
  /\ status[e] = "none"
  /\ e \notin {em[q] : q \in Requests}
  /\ \A f \in Emergencies : TripOf[f] = TripOf[e] => status[f] \notin Open
  /\ pc' = [pc EXCEPT ![r] = "create"]
  /\ em' = [em EXCEPT ![r] = e]
  /\ next' = [next EXCEPT ![r] = "ACTIVE"]
  /\ UNCHANGED <<rows, emitted, expectedVersion, current>>

Insert(r, historyState) ==
  /\ status' = [status EXCEPT ![em[r]] = "ACTIVE"]
  /\ version' = [version EXCEPT ![em[r]] = 1]
  /\ history' = [history EXCEPT ![em[r]] =
                   Append(@, [previousState |-> "none", newState |-> historyState])]
  /\ Goto(r, "emit")
  /\ UNCHANGED <<emitted, current>>

(* MUTANT of CreateWithHistory: the table lacks activeEmergencyPerTrip.        *)
CreateUnconstrained(r) ==
  /\ pc[r] = "create"
  /\ Insert(r, "ACTIVE")

(* createWithHistory: one transaction inserts the row and its first history.   *)
CreateWithHistory(r) ==
  /\ pc[r] = "create"
  /\ activeEmergencyPerTrip(em[r], "ACTIVE")
  /\ Insert(r, "ACTIVE")

(* transitionState: findById and validateTransition.  The caller asks for the  *)
(* state n and names a version it has seen, not necessarily the newest.        *)
ValidateTransition(r, e, n, v) ==
  /\ pc[r] = "idle"
  /\ v \in 1 .. version[e]
  /\ n \in validTransitions[status[e]]
  /\ pc' = [pc EXCEPT ![r] = "read"]
  /\ em' = [em EXCEPT ![r] = e]
  /\ next' = [next EXCEPT ![r] = n]
  /\ expectedVersion' = [expectedVersion EXCEPT ![r] = v]
  /\ UNCHANGED <<rows, emitted, current>>

(* The transaction's findUnique, whose status becomes history.previousState.   *)
ReadCurrent(r) ==
  /\ pc[r] = "read"
  /\ current' = [current EXCEPT ![r] = status[em[r]]]
  /\ Goto(r, "update")
  /\ UNCHANGED <<rows, emitted>>

(* update where id and version, the history row, and the commit.               *)
Move(r) ==
  LET e == em[r] IN
  /\ activeEmergencyPerTrip(e, next[r])
  /\ status' = [status EXCEPT ![e] = next[r]]
  /\ version' = [version EXCEPT ![e] = @ + 1]
  /\ history' = [history EXCEPT ![e] =
                   Append(@, [previousState |-> current[r], newState |-> next[r]])]
  /\ Goto(r, "emit")
  /\ UNCHANGED <<emitted, current>>

(* MUTANT of UpdateByVersion: the update names the id alone.                   *)
UpdateAnyVersion(r) ==
  /\ pc[r] = "update"
  /\ Move(r)

UpdateByVersion(r) ==
  /\ pc[r] = "update"
  /\ version[em[r]] = expectedVersion[r]
  /\ Move(r)

Announce(e, s) == emitted' = [emitted EXCEPT ![e] = [@ EXCEPT ![s] = emitted[e][s] + 1]]

(* MUTANT of EmitEvent: what is announced is the row as it is by then.         *)
EmitRow(r) ==
  /\ pc[r] = "emit"
  /\ Announce(em[r], status[em[r]])
  /\ Finish(r)
  /\ UNCHANGED rows

(* eventBus.emitEvent with the state the transaction returned.                 *)
EmitEvent(r) ==
  /\ pc[r] = "emit"
  /\ Announce(em[r], next[r])
  /\ Finish(r)
  /\ UNCHANGED rows

(* The check refused, the version or the constraint did, the transaction       *)
(* failed, or the process died: nothing of an open transaction stays.          *)
Abort(r) ==
  /\ pc[r] # "idle"
  /\ Finish(r)
  /\ UNCHANGED <<rows, emitted>>

Handle(r) ==
  \/ \E e \in Emergencies : CreateCheck(r, e)
  \/ CreateWithHistory(r)
  \/ \E e \in Emergencies, n \in EmergencyStatus : \E v \in 1 .. version[e] :
       ValidateTransition(r, e, n, v)
  \/ ReadCurrent(r)
  \/ UpdateByVersion(r)
  \/ EmitEvent(r)
  \/ Abort(r)

Next == \E r \in Requests : Handle(r)

Spec == Init /\ [][Next]_vars

-----------------------------------------------------------------------------------
(* Every column and local variable keeps its type.                             *)
StatusOrNone == EmergencyStatus \cup {"none"}
HistoryRow == [previousState : StatusOrNone, newState : EmergencyStatus]
TypeOK ==
  /\ status \in [Emergencies -> StatusOrNone]
  /\ version \in [Emergencies -> Nat]
  /\ history \in [Emergencies -> Seq(HistoryRow)]
  /\ emitted \in [Emergencies -> [EmergencyStatus -> Nat]]
  /\ pc \in [Requests -> {"idle", "create", "read", "update", "emit"}]
  /\ em \in [Requests -> Emergencies \cup {NoEmergency}]
  /\ next \in [Requests -> StatusOrNone]
  /\ expectedVersion \in [Requests -> Nat]
  /\ current \in [Requests -> StatusOrNone]

(* The history is the path the emergency took: each row starts where the one   *)
(* before it ended, every step is in the table, there is one row per version   *)
(* and the last one ends in the row's status, although previousState is read   *)
(* before the update.                                                          *)
HistoryIsPath ==
  \A e \in Emergencies :
    LET h == history[e] IN
    /\ Len(h) = version[e]
    /\ h # <<>> => h[Len(h)].newState = status[e]
    /\ \A i \in 1 .. Len(h) - 1 :
         /\ h[i + 1].previousState = h[i].newState
         /\ h[i + 1].newState \in validTransitions[h[i].newState]

(* Events are emitted after the commit, from whichever handler gets there:     *)
(* each state an emergency was in is announced at most once, and none that it  *)
(* was never in, so a listener may count them.                                 *)
AnnouncedOnce ==
  \A e \in Emergencies, s \in EmergencyStatus :
    /\ emitted[e][s] <= 1
    /\ emitted[e][s] = 1 => \E i \in 1 .. Len(history[e]) : history[e][i].newState = s

(* The two-phase moves of concurrent handlers are the atomic moves of          *)
(* EmergencyDesk, and no trip has two ACTIVE emergencies.                      *)
ImplementsEmergencyDesk == Desk!Spec

(* The table gives every open emergency a state to go to, and                  *)
(* activeEmergencyPerTrip is about active emergencies only: one that is closed *)
(* never stands in the way of one that is open.                                *)
OpenEmergencyCanMove ==
  \A e \in Emergencies : status[e] \in Open =>
    \E n \in validTransitions[status[e]] : activeEmergencyPerTrip(e, n)
===================================================================================
