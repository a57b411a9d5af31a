\* A broker that delivers a command twice.
CONSTANTS
  o1 = o1
  o2 = o2
  d1 = d1
  s1 = s1
  Orders = {o1}
  Diags = {}
  Slots = {s1}
  SlotOf <- MCSlotOf
  MaxTransfers = 1
  StopKinds = {}
  MaxCopies = 2
  MaxReboots = 0
  AllowDiagnostics = TRUE
SPECIFICATION DispensingSpec
INVARIANTS
  RejectedNeverSprays
CHECK_DEADLOCK FALSE
