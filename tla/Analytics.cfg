CONSTANTS
  N = 3
  LastDay = 2
  Ceiling = 2
  PageSize = 1
  Importers = {i1, i2}
  MaxAttempts = 1
  MaxFaults = 2
  Total = 3
  PerPage = 1
  MaxPages = 2
  Overlap = 0
  Readers = {cli}
  Worker = worker
  MaxTime = 3
  MaxBreaks = 1
  Pulls = {p1}
  Requests = {x1, x2}
  MaxKept = 2
  MaxWrites = 1
SPECIFICATION AnalyticsSpec
INVARIANTS CoveredMeansStored NoGap MeasuresMatch AnswersAreCurrent
PROPERTIES MonthComesToRest
CHECK_DEADLOCK FALSE
