SPECIFICATION FairSpec
CONSTANTS
  Process = {p1, p2, p3}
  Data = {d1, d2}
  Torn = Torn
  Nil = Nil
  MaxAttempts = 3
  MaxSaves = 3
INVARIANTS
  WholeCheckpoint
  NoLeftovers
PROPERTIES
  ImplementsRegister
  SaveEnds
