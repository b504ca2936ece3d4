SPECIFICATION Spec
CONSTANTS
  Producers = {p1}
  Slots = {s1}
  Configs <- LateConfigs
  StageSize = 2
  MaxPushes = 1
  MaxHandles = 1
  NoSlot = NoSlot
SYMMETRY Symmetry
VIEW View
INVARIANTS
  DrainLosesNothing
