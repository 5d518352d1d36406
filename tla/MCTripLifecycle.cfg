SPECIFICATION Spec
CONSTANTS
  Trips = {t1, t2}
  Drivers = {d1, d2}
  Vehicles = {v1}
  Schedules = {s1}
  MaxDay = 2
  Requests = {r1, r2}
  NoBooking = NoBooking
  NoTrip = NoTrip
SYMMETRY Symmetry
INVARIANTS
  OnlyRacesDoubleBook
  StartAnnouncedOnce
  AnnouncementIsHistory
PROPERTY ImplementsTripBoard
