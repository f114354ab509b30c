SPECIFICATION Spec
CONSTANTS
  NumPages = 3
  NumZones = 2
  PSTORE_QDEPTH = 1
  PSTORE_PG_EDG = 0
  PSTORE_PG_GAP = 2
  IoErrors = FALSE
  MaxClock = 5
  MaxRestarts = 1
  MapPages <- MCMapPages
INVARIANTS
  StatusIsFlushed
CHECK_DEADLOCK FALSE
