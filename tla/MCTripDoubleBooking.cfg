SPECIFICATION Spec
CONSTANTS
  Trips = {t1, t2}
  Drivers = {d1}
  Vehicles = {v1}
  Schedules = {s1}
  MaxDay = 1
  Requests = {r1, r2}
  NoBooking = NoBooking
  NoTrip = NoTrip
SYMMETRY Symmetry
INVARIANT NoDoubleBooking
