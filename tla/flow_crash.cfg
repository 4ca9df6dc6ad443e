SPECIFICATION Spec
CONSTANTS
  Nil = Nil
  f1 = f1
  f2 = f2
  Runner = {r1}
  File = {f1, f2}
  Article <- MCArticle
  Contents <- AnyContent
  Requests <- OneRequestPerFile
  UseBlackboard = TRUE
  AllowDegraded = FALSE
  GuardVisible = TRUE
  PreviewWithStore = FALSE
  MaxCalls = 3
  MaxEdits = 0
  MaxSpend = 1
INVARIANTS
  CheckpointComplete
  NeverBehindCheckpoint
  FailureIsReal
  SpendSurvives
  SelectionRespected
