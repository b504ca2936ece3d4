SPECIFICATION Spec
CONSTANTS
  Producers = {p1, p2}
  Consumers = {c1, c2}
  N = 2
  Reserve = "ticket"
  MaxPushes = 2
  None = None
SYMMETRY Symmetry
CHECK_DEADLOCK FALSE
INVARIANTS
  IInv
  NoDataRace
  SlotHandoff
  ExactlyOnce
  PerProducerOrder
  NothingLost
  DrainedTakesAll
  DestructorFindsLiveObjects
PROPERTY
  ImplementsQueue
