SPECIFICATION Spec
CONSTANTS
  Word = 7
  Second = 4
  MaxRetryDelay = 30
  MaxSeconds = 40
  Factors <- MCFactors
  DefaultFactor <- MCDefaultFactor
  MaxFailures = 6
INVARIANTS
  TypeOK
  StopsOnlyWhenSpent
PROPERTIES
  NeverHastier
CHECK_DEADLOCK FALSE
