--------------------------- MODULE TripStateMachine ---------------------------
(* The transition table of a trip, and the predicates the orchestrator and the *)
(* GPS service ask of a status (src/src/modules/trip/trip.state-machine.ts).   *)

(* The statuses POST /trips/:id/status accepts.  The schema's other values     *)
(* (ATTENDANCE_OPEN, ATTENDANCE_CLOSED, ROUTE_OPTIMIZED, READY, ACTIVE) are    *)
(* written by no code.                                                         *)
TripStatus == {"SCHEDULED", "STARTED", "EN_ROUTE", "AT_STOP",
               "COMPLETED", "CANCELLED", "EMERGENCY"}

(* TRIP_TRANSITIONS; a status without an entry in the code's table has no      *)
(* successor.                                                                  *)
TRIP_TRANSITIONS ==
  [ SCHEDULED |-> {"STARTED", "CANCELLED"},
    STARTED   |-> {"EN_ROUTE", "EMERGENCY"},
    EN_ROUTE  |-> {"AT_STOP", "COMPLETED", "EMERGENCY"},
    AT_STOP   |-> {"EN_ROUTE"},
    EMERGENCY |-> {"COMPLETED"},
    COMPLETED |-> {},
    CANCELLED |-> {} ]

(* validateTransition returns without throwing: the same status is allowed,    *)
(* whatever it is.                                                             *)
MayBecome(current, new) == new = current \/ new \in TRIP_TRANSITIONS[current]

(* What a trip that once had status s may have become since: the reflexive     *)
(* transitive closure of the table, which the MC module compares with it.      *)
Later ==
  LET onTheRoad == {"EN_ROUTE", "AT_STOP", "EMERGENCY", "COMPLETED"} IN
  [ SCHEDULED |-> TripStatus,
    STARTED   |-> onTheRoad \cup {"STARTED"},
    EN_ROUTE  |-> onTheRoad,
    AT_STOP   |-> onTheRoad,
    EMERGENCY |-> {"EMERGENCY", "COMPLETED"},
    COMPLETED |-> {"COMPLETED"},
    CANCELLED |-> {"CANCELLED"} ]
===============================================================================
