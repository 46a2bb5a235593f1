CONSTANTS
  worker = worker
  request = request
  Callers <- Overlapping
SPECIFICATION FairCircuitSpec
INVARIANTS ThreeStrikes
PROPERTIES AuthenticationHeld RecoversByItself
