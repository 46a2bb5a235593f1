CONSTANTS
  discovery = discovery
  secrets = secrets
  asked1 = asked1
  Recipes = {secrets}
  Maintenance = {secrets}
  Failing = {}
  Calls = {c1, c2}
  RequestOf <- Retried
  RecipeOf <- OnSecrets
  Operators = {o1}
  Commits = {A, B}
  MaxDue = 1
  MaxEdits = 2
  MaxMoves = 1
SPECIFICATION BothSpec
INVARIANTS NoTwoRuns
PROPERTIES RetryFindsItsRun EditsWhatWasSeen DueBesideFailing
CHECK_DEADLOCK FALSE
