CONSTANTS
  Parts = {"gateway"}
  Sockets = {"p1", "d1"}
  Users = {"driver", "parent"}
  Trips = {"t1"}
  UserOf <- UserOfSocket
  RoleOf <- RoleOfUser
  OrgOf <- OrgOfAny
  DriverOf <- DriverOfTrip
  QueueCap = 2
  MaxEmits = 4
  MaxTokens = 2
  MaxDrops = 1
  Students = {s1, s2}
  MaxTaps = 3
  MaxBreaks = 1
  MaxCrashes = 1
  MaxLate = 1
  Calls = {c1, c2}
  MaxVersions = 2
  LoginSends = {"email", "password", "deviceType"}
SPECIFICATION Spec
PROPERTIES SubscribersAreFed
CHECK_DEADLOCK FALSE
