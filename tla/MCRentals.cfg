CONSTANTS
  c1 = c1
  c2 = c2
  c3 = c3
  s1 = s1
  s2 = s2
  brandA = brandA
  brandB = brandB
  Checkouts = {c1, c2, c3}
  BrandOf <- MCBrandOf
  Slots = {s1, s2}
  Carts <- MCCarts
  Nobody = Nobody
  Platform = Platform
  Payments <- MCPayments
  MaxPayments = 2
  HoldLimit = 2
  MaxRequests = 2
SPECIFICATION Spec
INVARIANTS
  HoldsArePaidFor
  RenewalIsKept
  
 
CHECK_DEADLOCK FALSE
