SPECIFICATION Spec
CONSTANTS
  NumZones = 1
  TOP = 3
  BOTTOM = 3
  TRACKS = 1
  LEVELS = 2
  HostKeys = {0, 3}
  BloomHash <- MCBloomHash
  BitsPerKey <- MCBitsPerKey
  MinBits = 2
  MaxBits = 8
  MinHashes = 1
  MaxHashes = 2
  Modes = {3}
  CopyBusy = FALSE
  MaxFailures = 0
  MaxMapped = 3
  MaxTimestamp = 3
  MaxSegments = 3
INVARIANTS
  ReadsFindPayload
CHECK_DEADLOCK FALSE
