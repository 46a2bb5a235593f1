CONSTANTS
  Keys = {1, 2}
  Kind <- PlainAndReport
  MaxAttempts = 2
  Operator = TRUE
  MaxCrashes = 1
SPECIFICATION BothSpec
INVARIANTS AtMostOnce
PROPERTIES Implements StaleNeverPosted QueueIsServed QueueSettles
CHECK_DEADLOCK FALSE
