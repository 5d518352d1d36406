SPECIFICATION Spec
CONSTANTS
  e1 = e1
  e2 = e2
  t1 = t1
  r1 = r1
  r2 = r2
  Emergencies = {e1, e2}
  NoEmergency = NoEmergency
  Trips = {t1}
  TripOf <- MCTripOf
  Requests = {r1, r2}
SYMMETRY Handlers
CHECK_DEADLOCK FALSE
INVARIANT
  OpenEmergencyCanMove
