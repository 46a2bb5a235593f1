CONSTANTS
  MaxJobs = 5
  Commits = {A, B}
  FirstHead = A
  Deliveries = {d1}
  MaxMoves = 2
  MaxFaults = 1
SPECIFICATION FairSpec
 
PROPERTIES NoEventLost Settles Converges
