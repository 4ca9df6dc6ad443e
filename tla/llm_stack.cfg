SPECIFICATION FairSpec
CONSTANTS
  Nil = Nil
  c1 = c1
  c2 = c2
  Caller = {c1, c2}
  Estimate <- MCEstimate
  Actual <- MCActual
  Ceiling = 4
  Interval = 1
  MaxTries = 2
INVARIANTS
  Accounting
  CeilingHeld
  CallsBounded
PROPERTIES
  RateSpacing
  EveryCallEnds
CHECK_DEADLOCK FALSE
