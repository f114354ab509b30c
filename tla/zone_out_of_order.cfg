SPECIFICATION Spec
CONSTANTS
  NumZones = 2
  TOP = 1
  BOTTOM = 1
  TRACKS = 2
  PHASE = 2
  HostKeys <- MCFirstZoneAndOne
  MaxBlocks = 1
  QueueDepth = 1
  InOrder = FALSE
  DiscardKeys = {}
  CompactZones = {0}
  CompactBusy = FALSE
  MaxIncidents = 0
  AllocFails = FALSE
  MaxMapped = 10
INVARIANTS
  PayloadKept
CHECK_DEADLOCK FALSE
