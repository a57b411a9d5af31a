CONSTANTS
  o1 = o1
  o2 = o2
  s1 = s1
  s2 = s2
  Purchases = {o1, o2}
  Scents = {s1, s2}
  Stages = {"FAILED"}
  CallsAtOnce = 1
  None = None
  CancelMayFail = FALSE
SPECIFICATION FairKioskSpec
INVARIANTS
  ShownIsChosen
PROPERTIES
  PaidCustomerStays
  KioskIsFreed
CHECK_DEADLOCK FALSE
