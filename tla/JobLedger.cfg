CONSTANTS
  Jobs = {1, 2, 3}
  Kind <- ValidationRemediationRepair
  MaxSessions = 2
  MaxAttempts = 1
  AllowDispatch = {TRUE, FALSE}
  ReportHeld = FALSE
  Requests = {r1}
  MaxCrashes = 1
  MaxTries = 3
SPECIFICATION BothSpec
INVARIANTS     AtMostOneSession 
  
CHECK_DEADLOCK FALSE
