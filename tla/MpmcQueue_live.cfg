SPECIFICATION FairSpec
CONSTANTS
  Producers = {p1}
  Consumers = {c1}
  Closer = m
  Waiters = {p1, c1, m}
  Counts = {"not_empty", "not_full"}
  Coalesce = TRUE
  N = 2
  Configs <- MCLive
  FullWakeEvery = 1
  MaxPushes = 3
  Closes = TRUE
  Deadlines = FALSE
  Backstop = FALSE
PROPERTIES
  EventsDelivered
  PushReturns
  CloseDrains
