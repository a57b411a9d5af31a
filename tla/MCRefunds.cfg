CONSTANTS
  o1 = o1
  s1 = s1
  Orders = {o1}
  Diags = {}
  Slots = {s1}
  SlotOf <- MCSlotOf
  MaxTransfers = 2
  StopKinds = {}
SPECIFICATION RefundsSpec
INVARIANTS
  ClaimsPayOnce
  OwedOrClaimed
PROPERTIES
  ImplementsTrail
CHECK_DEADLOCK FALSE

