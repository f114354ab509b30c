SPECIFICATION Spec
CONSTANTS
  NumZones = 2
  TOP = 1
  BOTTOM = 2
  TRACKS = 2
  PHASE = 2
  HostKeys <- MCFirstZone
  MaxBlocks = 2
  QueueDepth = 2
  InOrder = FALSE
  DiscardKeys = {}
  CompactZones = {}
  CompactBusy = FALSE
  MaxIncidents = 0
  AllocFails = FALSE
  MaxMapped = 10
INVARIANTS
  NoSharedBlock
CHECK_DEADLOCK FALSE
