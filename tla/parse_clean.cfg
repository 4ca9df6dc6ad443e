SPECIFICATION CLISpec
CONSTANTS
  r1 = r1
  r2 = r2
  Runner = {r1, r2}
  Shell = r1
  Disturbed = {r1}
  Settings <- MCSettings
  Outside = {"reasoner", "foreign"}
  MaxPolls = 1
  MaxRetries = 2
  MaxSignals = 1
  MaxJump = 1
  Run = {"run1", "run2"}
  EventType = {"finding_created"}
  MaxPublished = 3
  MaxLives = 2
  Invocations <- OnLayouts
INVARIANTS
  CleanIsFaithful
CHECK_DEADLOCK FALSE
