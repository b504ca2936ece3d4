SPECIFICATION FairSpec
CONSTANTS
  Producers = {p1}
  Slots = {s1}
  Configs <- LeakConfigs
  StageSize = 1
  MaxPushes = 1
  MaxHandles = 1
  NoSlot = NoSlot
PROPERTIES
  RetiredIsFreed
