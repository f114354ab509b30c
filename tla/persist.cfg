SPECIFICATION FairSpec
CONSTANTS
  NumPages = 3
  NumZones = 3
  PSTORE_QDEPTH = 2
  PSTORE_PG_EDG = 0
  PSTORE_PG_GAP = 2
  IoErrors = TRUE
  MaxClock = 4
  MaxRestarts = 1
  MapPages <- MCMapPages
INVARIANTS
  TypeOK
  LoadIsPast
  SaveIsCurrent
  QueueBounded

  
  
CHECK_DEADLOCK FALSE
