SPECIFICATION Spec
CONSTANTS
  Article <- MCArticle
  Bare <- MCBare
  Token <- MCToken
  Adjustment <- MCAdjustment
  MaxQuestions = 2
  Document <- MCDocument
  Cases <- QuotesOnly
PROPERTY RealQuotesPass
CHECK_DEADLOCK FALSE
