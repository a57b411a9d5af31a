\* Two customers and every way of stopping the machine.
CONSTANTS
  o1 = o1
  o2 = o2
  o3 = o3
  d1 = d1
  s1 = s1
  Orders = {o1, o2}
  Diags = {d1}
  Slots = {s1}
  SlotOf <- MCSlotOf
  MaxTransfers = 2
  StopKinds = {"drain", "force", "disable", "refill", "connection", "slot"}
SPECIFICATION ContractSpec
SYMMETRY Symmetry
INVARIANTS
  OpenOrdersInTurn
  OwedIsOnTheList
  ServedHasCommand
PROPERTIES
  StoppedOnlyShrinks
  ImplementsLifecycle
CHECK_DEADLOCK FALSE
