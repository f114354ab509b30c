SPECIFICATION Spec
CONSTANTS
  NumZones = 1
  TOP = 1
  BOTTOM = 1
  TRACKS = 2
  PHASE = 3
  HostKeys <- MCFirstZone
  MaxBlocks = 1
  QueueDepth = 2
  InOrder = FALSE
  DiscardKeys = {0, 1}
  CompactZones = {}
  CompactBusy = FALSE
  MaxIncidents = 1
  AllocFails = TRUE
  MaxMapped = 6
INVARIANTS
  LostOnlyExposed
  NoSharedBlock
  
CHECK_DEADLOCK FALSE
