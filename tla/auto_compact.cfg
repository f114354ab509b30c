SPECIFICATION FairSpec
CONSTANTS
  NumZones = 3
  MaxBios = 2
  WriteErrors = TRUE
  AllocFails = TRUE
INVARIANTS
  CandidateIsFull
  PendingIsWanted
  PendingIsWatched
PROPERTIES
  PendingIsServed
CHECK_DEADLOCK FALSE
