SPECIFICATION Spec
CONSTANTS
  Sessions = {s1}
  NoSession = NoSession
  Requests = {r1, r2, r3}
  TTL = 2
  MaxTime = 3
  MaxGen = 3
SYMMETRY Symmetry
INVARIANTS
  TokenExchangedOnce
  ReplayMeansStale
PROPERTY ImplementsTokenChain
