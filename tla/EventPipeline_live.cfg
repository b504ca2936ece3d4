SPECIFICATION FairSpec
CONSTANTS
  Producers = {p1}
  Slots = {s1}
  Configs <- LiveConfigs
  StageSize = 1
  MaxPushes = 2
  MaxHandles = 1
  NoSlot = NoSlot
PROPERTIES
  EventsRead
  StopHeldBySinkAlone
