------------------------------- MODULE TripBoard -------------------------------
(* What the trip service promises its callers. An assignment opens with the    *)
(* trips that are on the board then, and puts its trip on the board only when  *)
(* those of them that are still live leave its driver, its vehicle and its     *)
(* schedule free that day; it may clash only with a trip put there meanwhile.  *)
(* A booking never changes, and a status moves one arrow of TRIP_TRANSITIONS   *)
(* at a time. TripLifecycle, where each operation is several database calls,   *)
(* is shown to implement it.                                                   *)
EXTENDS TripStateMachine

CONSTANTS Trips, Bookings, NoBooking, Requests

VARIABLES status,   \* trip -> its status, "ABSENT" before the row exists
          booking,  \* trip -> driver, vehicle, schedule and service day
          open,     \* the requests with an open assignment
          known     \* request -> the trips on the board when it opened

boardVars == <<status, booking, open, known>>

(* The trips that hold a driver, a vehicle and a schedule.                     *)
Live(t) == status[t] \notin {"ABSENT", "CANCELLED"}

(* Two bookings want the same resource on the same day.                        *)
Clash(a, b) ==
  /\ a.day = b.day
  /\ \/ a.driver = b.driver
     \/ a.vehicle = b.vehicle
     \/ a.schedule = b.schedule

OnBoard == {t \in Trips : status[t] # "ABSENT"}

Init ==
  /\ status = [t \in Trips |-> "ABSENT"]
  /\ booking = [t \in Trips |-> NoBooking]
  /\ open = {}
  /\ known = [r \in Requests |-> {}]

Open(r) ==
  /\ open' = open \cup {r}
  /\ known' = [known EXCEPT ![r] = OnBoard]
  /\ UNCHANGED <<status, booking>>

Close(r) ==
  /\ open' = open \ {r}
  /\ known' = [known EXCEPT ![r] = {}]

GiveUp(r) == Close(r) /\ UNCHANGED <<status, booking>>

Assign(r, t, b) ==
  /\ \A u \in known[r] : Live(u) => ~Clash(booking[u], b)
  /\ status' = [status EXCEPT ![t] = "SCHEDULED"]
  /\ booking' = [booking EXCEPT ![t] = b]
  /\ Close(r)

Move(t, s) ==
  /\ status' = [status EXCEPT ![t] = s]
  /\ UNCHANGED <<booking, open, known>>

Next ==
  \/ \E r \in Requests \ open : Open(r)
  \/ \E r \in open : GiveUp(r)
  \/ \E r \in open, t \in Trips \ OnBoard, b \in Bookings : Assign(r, t, b)
  \/ \E t \in OnBoard : \E s \in TRIP_TRANSITIONS[status[t]] : Move(t, s)

Spec == Init /\ [][Next]_boardVars
================================================================================
