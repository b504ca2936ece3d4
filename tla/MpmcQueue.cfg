SPECIFICATION Spec
CONSTANTS
  Producers = {p1, p2}
  Consumers = {c1, c2}
  Closer = m
  Waiters = {p1, p2, c1, c2, m}
  Counts = {"not_empty", "not_full"}
  Coalesce = TRUE
  N = 2
  Configs <- MCConfigs
  FullWakeEvery = 1
  MaxPushes = 3
  Closes = TRUE
  Deadlines = TRUE
  Backstop = TRUE
SYMMETRY Symmetry
VIEW View
INVARIANTS
  EventCountsSound
  NoEventMissed
  NoRoomMissed
  NobodySleepsClosed
