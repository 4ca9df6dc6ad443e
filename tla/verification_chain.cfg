SPECIFICATION Spec
CONSTANTS
  Article <- MCArticle
  Bare <- MCBare
  Token <- MCToken
  Adjustment <- MCAdjustment
  MaxQuestions = 2
  Document <- MCDocument
  Cases <- MCCases
INVARIANTS BatchBounded EventsAccount FailuresLoseNothing RankedAsPublished StrongestStays
PROPERTIES ImplementsFates ChainEnds
CHECK_DEADLOCK FALSE
