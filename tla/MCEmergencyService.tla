---------------------------- MODULE MCEmergencyService ----------------------------
(* Two emergencies of one trip and two handlers: the second may be reported  *)
(* while the first is open, closing or closed.                                 *)
EXTENDS EmergencyService, TLC

CONSTANTS e1, e2, t1, r1, r2

MCTripOf == e1 :> t1 @@ e2 :> t1
Handlers == Permutations({r1, r2})
===================================================================================
