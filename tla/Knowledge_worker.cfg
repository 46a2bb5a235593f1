CONSTANTS
  MaxLessons = 3
  Runs = {r}
  Groups = {g}
  About <- Correction
  Settings = {TRUE, FALSE}
  MaxFaults = 2
SPECIFICATION FairSpec
INVARIANTS OneNotePerLesson NoStaleGuidance
PROPERTIES Converges
