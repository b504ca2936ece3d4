SPECIFICATION Spec
CONSTANTS
  Producers = {0, 1}
  Consumers = {2, 3}
  Main = 4
  Free = 5
  Moved = Moved
  N = 2
  MaxEvents = 2
  W = 4
  S = 1
  Latencies = {0, 1, 2, 3, 4, 5, 6, 7, 8, 9, 10, 11, 12, 13, 14, 15}
  RunSpecs <- MCRunSpecs
INVARIANTS
  RunBalances
  QuantileSound
PROPERTIES
  RunEnds
  ImplementsWorkQueue
