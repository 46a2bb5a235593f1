CONSTANTS
  Jobs = {1, 2}
  Kind <- IntegrationAndRemediation
  MaxSessions = 2
  MaxAttempts = 1
  AllowDispatch = {TRUE}
  ReportHeld = TRUE
  Requests = {}
  MaxCrashes = 0
  MaxTries = 1
SPECIFICATION Spec
PROPERTIES ExpiryMeansCrash
CHECK_DEADLOCK FALSE
