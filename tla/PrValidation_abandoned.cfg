CONSTANTS
  Jobs = {1, 2, 3}
  Commits = {A, B}
  Requests = {}
  MaxMoves = 2
  MaxCrashes = 0
SPECIFICATION Spec
PROPERTIES NeverAbandonPaid
CHECK_DEADLOCK FALSE
