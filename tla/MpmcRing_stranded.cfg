SPECIFICATION FairSpec
CONSTANTS
  Producers = {p1, p2, p3}
  Consumers = {c1}
  N = 2
  Reserve = "ticket"
  MaxPushes = 1
  None = None
CHECK_DEADLOCK FALSE
PROPERTY
  PushReturns
