SPECIFICATION FairSpec
CONSTANTS
  Requests = {r1}
  Handoffs = {partial, blocked, complete}
  Complete = {complete}
  Blocked = {blocked}
  HasCandidate = TRUE
  MaxFollowups = 2
  MaxFaults = 2
PROPERTIES NoReplay AskedOnce RunningEnds AttentionEnds
