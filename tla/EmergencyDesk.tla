------------------------------ MODULE EmergencyDesk ------------------------------
(* What the emergency service promises: an emergency moves only along the      *)
(* transition table, each move is decided and made at once and makes one new   *)
(* version, and a trip never has two ACTIVE emergencies.  EmergencyService,    *)
(* where a move is decided in one place and made in another, implements it.    *)
EXTENDS Naturals

CONSTANTS Emergencies, Trips, TripOf   \* TripOf: the trip each emergency is about

EmergencyStatus == {"ACTIVE", "ACKNOWLEDGED", "RESPONDING", "RESOLVED", "CANCELLED"}

(* validTransitions of EmergencyService.validateTransition.                    *)
validTransitions ==
  [ ACTIVE       |-> {"ACKNOWLEDGED", "CANCELLED"},
    ACKNOWLEDGED |-> {"RESPONDING", "RESOLVED"},
    RESPONDING   |-> {"RESOLVED"},
    RESOLVED     |-> {},
    CANCELLED    |-> {} ]

VARIABLES status,   \* emergency -> its status, "none" before it is reported
          version   \* emergency -> number of states it has been in

deskVars == <<status, version>>

Init ==
  /\ status = [e \in Emergencies |-> "none"]
  /\ version = [e \in Emergencies |-> 0]

Report(e) ==
  /\ status[e] = "none"
  /\ \A f \in Emergencies : TripOf[f] = TripOf[e] => status[f] # "ACTIVE"
  /\ status' = [status EXCEPT ![e] = "ACTIVE"]
  /\ version' = [version EXCEPT ![e] = 1]

Move(e, next) ==
  /\ status[e] \in EmergencyStatus
  /\ next \in validTransitions[status[e]]
  /\ status' = [status EXCEPT ![e] = next]
  /\ version' = [version EXCEPT ![e] = @ + 1]

Next == \E e \in Emergencies : Report(e) \/ \E next \in EmergencyStatus : Move(e, next)

Spec == Init /\ [][Next]_deskVars
==================================================================================
