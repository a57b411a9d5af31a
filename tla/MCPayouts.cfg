CONSTANTS
  o1 = o1
  o2 = o2
  Sprays = {o1, o2}
  LastMonth = 3
SPECIFICATION FairPayoutsSpec
INVARIANTS
  PaidForWhatWasEarned
PROPERTIES
  ClosedFiguresStay
  MonthsAreClosed
CHECK_DEADLOCK FALSE
