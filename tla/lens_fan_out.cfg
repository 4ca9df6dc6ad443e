SPECIFICATION Spec
CONSTANTS
  Article = {a1, a2}
  Lens = {l1, l2}
  Settings <- AllSettings
INVARIANTS SlotsConserved SilentMeansAnswered GivesUpLate
PROPERTIES ImplementsTable DocumentEnds

CHECK_DEADLOCK FALSE
