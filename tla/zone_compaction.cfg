SPECIFICATION Spec
CONSTANTS
  NumZones = 2
  TOP = 1
  BOTTOM = 2
  TRACKS = 2
  PHASE = 2
  HostKeys <- MCFirstZoneAndOne
  MaxBlocks = 1
  QueueDepth = 2
  InOrder = TRUE
  DiscardKeys = {1, 4}
  CompactZones = {0}
  CompactBusy = TRUE
  MaxIncidents = 1
  AllocFails = TRUE
  MaxMapped = 6
INVARIANTS
  TypeOK
  LostOnlyExposed
  NoSharedBlock
  
PROPERTIES
  LockReleased
CHECK_DEADLOCK FALSE
