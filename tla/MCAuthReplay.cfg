SPECIFICATION Spec
CONSTANTS
  Sessions = {s1}
  NoSession = NoSession
  Requests = {r1, r2}
  TTL = 2
  MaxTime = 1
  MaxGen = 3
INVARIANT LosingRefreshKeepsSession
