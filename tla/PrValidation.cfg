CONSTANTS
  Jobs = {1, 2, 3}
  Commits = {A, B}
  Requests = {r1}
  MaxMoves = 2
  MaxCrashes = 0
SPECIFICATION BothSpec
INVARIANTS OneOpenValidation
PROPERTIES LiveNotAbandoned StaleNeverGates HeadIsValidated
CHECK_DEADLOCK FALSE
