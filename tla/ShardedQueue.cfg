SPECIFICATION Spec
CONSTANTS
  P = 2
  C = 1
  kRing = 4
  Pushes <- MCPushes
  Deadlines = FALSE
  Waiters <- Threads
  Counts <- Sleepers
  Coalesce = TRUE
VIEW View
INVARIANTS
  RingsInOrder
  DrainedForGood
  NobodySleepsThrough
  NoRingStarves
