CONSTANTS
  a1 = a1
  a2 = a2
  r1 = r1
  w1 = w1
  w2 = w2
  nobody = nobody
  Records = {a1, a2}
  Rentals = {r1}
  Workers = {w1, w2}
  Writers = {w1}
  Milestones = {1}
  FirstDay = 2
  MaxAttempts = 2
  MaxRetries = 1
  MaxLost = 1
  NoMail = nobody
SPECIFICATION FairAlertsSpec
INVARIANTS
  DeliveryIsEvidence
PROPERTIES
  BrandIsTold
  EmptyIsAlerted
CHECK_DEADLOCK FALSE
