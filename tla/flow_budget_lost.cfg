SPECIFICATION Spec
CONSTANTS
  Nil = Nil
  f1 = f1
  f2 = f2
  Runner = {r1}
  File = {f1}
  Article <- MCArticle
  Contents <- CleanOrGap
  Requests <- SelectOne
  UseBlackboard = TRUE
  AllowDegraded = FALSE
  GuardVisible = FALSE
  PreviewWithStore = FALSE
  MaxCalls = 2
  MaxEdits = 0
  MaxSpend = 1
INVARIANTS
  SpendSurvives
