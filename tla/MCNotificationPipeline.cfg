SPECIFICATION FairSpec
CONSTANTS
  m1 = m1
  m2 = m2
  x1 = x1
  x2 = x2
  x3 = x3
  n1 = n1
  n2 = n2
  Notifications = {m1}
  Recipients = {x1, x2}
  Audience <- MCAudience
  Nodes = {n1, n2}
  Raised = {"HIGH", "CRITICAL"}
  MaxStops = 1
CHECK_DEADLOCK FALSE
INVARIANTS
  OneCopy
  Persistence
  SentIsSettled
PROPERTY
  PolledQueuesDrain
