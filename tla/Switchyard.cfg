SPECIFICATION Spec
CONSTANTS
  level1 = level1
  level2 = level2
  future = future
  ending = ending
  stub = stub
  broken = broken
  v1 = v1
  v2 = v2
  Libraries = {level1, level2, future, ending, stub, broken}
  Image <- MCImage
  Loaders = {v1, v2}
  Finds <- MCFinds
  Selves = {s1, s2}
  Batchers = {v2}
  kHandlers = 100
  kSize = 1024
  HostHandlers <- MCHandlers
  Packets <- MCPackets
  MaxHandlers = 2
  kPacketPool = 2
  kPasses = 2
  kReps = 2
  Lows = {0, 3}
  Measured <- MCMeasured
SYMMETRY Symmetry
INVARIANTS
  ArmsAgree
  TablesKeepFirstMatch
  ReadsAreGated
  InstancesPaired
