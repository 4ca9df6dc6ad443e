SPECIFICATION Spec
CONSTANTS
  Nil = Nil
  c1 = c1
  c2 = c2
  Caller = {c1, c2}
  Estimate <- MCEstimate
  Actual <- MCActual
  Ceiling = 4
  Interval = 1
  MaxTries = 2
INVARIANTS
  BudgetStopRaised
CHECK_DEADLOCK FALSE
