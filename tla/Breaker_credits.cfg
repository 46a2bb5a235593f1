CONSTANTS
  worker = worker
  request = request
  Callers <- WorkerOnly
SPECIFICATION FairCircuitSpec
PROPERTIES CreditHeld
