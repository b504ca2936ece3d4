SPECIFICATION Spec
CONSTANTS
  Capacity = 4
  MaxPushes = 7
  MaxItems = 3
  None = None
INVARIANTS
  RingInv
  SlotsOrdered
  CopiesInOrder
  HintBrackets
