---------------------------- MODULE MCTripLifecycle ----------------------------
(* A small instance of TripLifecycle for TLC.                                  *)
EXTENDS TripLifecycle, FiniteSets, TLC

Symmetry == Permutations(Trips) \cup Permutations(Drivers)
              \cup Permutations(Vehicles) \cup Permutations(Schedules)
              \cup Permutations(Requests)

(* What can be reached from s in at most n arrows of the transition table.     *)
Reached[n \in 0 .. Cardinality(TripStatus), s \in TripStatus] ==
  IF n = 0 THEN {s}
  ELSE LET nearer == Reached[n - 1, s] IN
       nearer \cup UNION {TRIP_TRANSITIONS[u] : u \in nearer}

(* Later is the reflexive transitive closure of the transition table.          *)
ASSUME LaterIsClosure ==
  \A s \in TripStatus : Later[s] = Reached[Cardinality(TripStatus), s]
================================================================================
