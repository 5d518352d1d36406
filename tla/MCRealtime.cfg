CONSTANTS
  Parts = {"gateway", "client", "attendance", "browser", "screens"}
  Sockets = {"p1", "d1"}
  Users = {"driver", "parent"}
  Trips = {"t1"}
  UserOf <- UserOfSocket
  RoleOf <- RoleOfUser
  OrgOf <- OrgOfAny
  DriverOf <- DriverOfTrip
  QueueCap = 2
  MaxEmits = 4
  MaxTokens = 2
  MaxDrops = 1
  Students = {s1, s2}
  MaxTaps = 3
  MaxBreaks = 1
  MaxCrashes = 1
  MaxLate = 1
  Calls = {c1, c2}
  MaxVersions = 2
  LoginSends = {"email", "password", "deviceType"}
SPECIFICATION Spec
INVARIANTS ReceivedInOrder SignOutForgets MarksSurviveTheLink OwnChangesShow
PROPERTIES ImplementsRollCall JoinsAreAnswered AttemptsEnd MarksAreSettled RedirectsEnd RequestsAreSettled
CHECK_DEADLOCK FALSE
