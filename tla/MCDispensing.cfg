\* One customer; a broker that delivers twice, a power loss, a machine being drained or forced
\* into maintenance.
CONSTANTS
  o1 = o1
  o2 = o2
  d1 = d1
  s1 = s1
  Orders = {o1}
  Diags = {}
  Slots = {s1}
  SlotOf <- MCSlotOf
  MaxTransfers = 1
  StopKinds = {"drain", "force"}
  MaxCopies = 2
  MaxReboots = 1
  AllowDiagnostics = TRUE
SPECIFICATION FairDispensingSpec
INVARIANTS
  OneSprayPerCommand
  ResultsAreTrue
PROPERTIES
  ServiceEnds
  MachineIsFreed
  SprayIsBooked
CHECK_DEADLOCK FALSE
