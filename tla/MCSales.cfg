\* A customer, two bank transfers, a machine drained or forced into maintenance.
CONSTANTS
  o1 = o1
  s1 = s1
  Orders = {o1}
  Diags = {}
  Slots = {s1}
  SlotOf <- MCSlotOf
  MaxTransfers = 2
  StopKinds = {"drain", "force"}
SPECIFICATION FairSalesSpec
INVARIANTS
  PaymentFollowsOrder
  ServedMeansPaid
  MoneyAccounted
PROPERTIES
  PaymentsAreAnswered
  DrainingEnds
  ImplementsContract
CHECK_DEADLOCK FALSE
