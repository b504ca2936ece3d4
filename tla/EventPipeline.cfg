SPECIFICATION Spec
CONSTANTS
  Producers = {p1, p2}
  Slots = {s1, s2}
  Configs <- MCConfigs
  StageSize = 1
  MaxPushes = 2
  MaxHandles = 2
  NoSlot = NoSlot
SYMMETRY Symmetry
VIEW View
INVARIANTS
  LastPassDelivers
  BitsCoverRings
  SleepIsWatched
  NothingStranded
  FreeIsDrained
  PushesAccounted
