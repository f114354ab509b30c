SPECIFICATION Spec
CONSTANTS
  NumZones = 2
  TOP = 2
  BOTTOM = 1
  TRACKS = 2
  LEVELS = 2
  HostKeys = {0, 1, 2, 6}
  BloomHash <- MCBloomHash
  BitsPerKey <- MCBitsPerKey
  MinBits = 2
  MaxBits = 8
  MinHashes = 1
  MaxHashes = 2
  Modes = {3}
  CopyBusy = FALSE
  MaxFailures = 2
  MaxMapped = 4
  MaxTimestamp = 3
  MaxSegments = 4
INVARIANTS
  TypeOK
  OutputsApart
  
  FiltersAdmit
CHECK_DEADLOCK FALSE
