CONSTANTS
  s1 = s1
  s2 = s2
  b1 = b1
  b2 = b2
  Slots = {s1, s2}
  Bottles = {b1, b2}
  None = None
  Volumes = {4}
  Dose = 2
  LowAt = 4
  Worth = 2
  Cap = 3
  Asking = {s1}
  Tended = {s2}
SPECIFICATION Spec
SYMMETRY MCSymmetry
INVARIANTS
  SlotHoldsGoods
  CompensationIsDue
  RequestFollowsSession

  
CHECK_DEADLOCK FALSE
