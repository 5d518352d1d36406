CONSTANTS
  Parts = {"gateway", "location", "fleet", "reports", "fences", "records",
           "register", "preferences", "alerts", "snapshots"}
  Sockets = {"p1", "p2", "d1", "o1"}
  Users = {"driver", "parent", "operator"}
  Trips = {"t1"}
  UserOf <- UserOfSocket
  RoleOf <- RoleOfUser
  OrgOf <- OrgOfAny
  DriverOf <- DriverOfTrip
  Devices = {one, two}
  Journeys = {one, two}
  MaxFixes = 3
  MaxOutages = 1
  MaxStarts = 2
  Vehicles = {one, two}
  DeltaCap = 2
  MaxChanges = 4
  MaxClock = 3
  MaxVisits = 2
  Subs = {"daily"}
  Workers = {one, two}
  Day = 1
  MaxRetries = 3
  Retention = 2
  MaxTime = 3
  MaxExecutions = 3
  MaxExports = 1
  MaxCrashesOf = 1
  Pings = {1, 2}
  Hosts = {h1}
  MaxEdits = 1
  MaxExpiries = 1
  Requests = {one, two}
  Actors = {3, 4, 5, 6}
  Seed <- SeedRows
  Numbers = {"n1", "n4"}
  Busy = {7}
  Submissions = {one, two}
  Schedules = {one, two}
  MaxSwitches = 1
  Options <- TwoOptions
  DayLength = 4
  CacheTtl = 1
  MaxQuery = 1
  MaxMinutes = 4
  MaxRows = 3
  Readers = {one, two}
  Evaluations = {one, two}
  MaxEvaluations = 4
  Servers = {one, two}
  Hour = 4
  LockTtl = 2
  MaxSkew = 1
  KeepHours = 1
  MaxHours = 3
SPECIFICATION Spec
SYMMETRY Symmetry
INVARIANTS
  PresenceIsTrue MembersAreEntitled PositionsGoToTheirTrip OnlyRivalsAreLate
  QuietCopyIsTrue MailedOnce CrossingsAlternate OneAlertPerLock
  StoredInOrder AccountedFor DayIsUniform DecisionsAreRecent
  RecoveriesAreEarned OneSnapshotPerHour
PROPERTY PictureNeverGoesBack
CHECK_DEADLOCK FALSE
