SPECIFICATION Spec
CONSTANTS
  Nil = Nil
  f1 = f1
  f2 = f2
  Runner = {r1, r2}
  File = {f1, f2}
  Article <- MCArticle
  Contents <- CleanOrGap
  Requests <- AllOrStrict
  UseBlackboard = FALSE
  AllowDegraded = TRUE
  GuardVisible = TRUE
  PreviewWithStore = FALSE
  MaxCalls = 2
  MaxEdits = 1
  MaxSpend = 0
SYMMETRY RunnerSymmetry
INVARIANTS
  StageOutputs
  RunCompletes
  OneSource
  AuditTrail
  PublishedSound
