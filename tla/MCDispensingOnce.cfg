\* A broker that delivers each command at most once.
CONSTANTS
  o1 = o1
  o2 = o2
  d1 = d1
  s1 = s1
  Orders = {o1}
  Diags = {d1}
  Slots = {s1}
  SlotOf <- MCSlotOf
  MaxTransfers = 1
  StopKinds = {}
  MaxCopies = 1
  MaxReboots = 1
  AllowDiagnostics = TRUE
SPECIFICATION DispensingSpec
INVARIANTS
  RejectedNeverSprays
CHECK_DEADLOCK FALSE
