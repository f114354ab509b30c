SPECIFICATION MCLevelsSpec
CONSTANTS
  k1 = k1
  k2 = k2
  p1 = p1
  p2 = p2
  NoPayload = NoPayload
  Keys <- MCSequentialKeys
  Payload <- MCOnePayload
  Zones <- MCNoZones
  LEVELS = 7
  Thresholds = {1, 4, 16}
  ReadTreeLimits = {1}
  AllocFail = {"table"}
  MaxTimestamp = 6
  MaxSegments = 0
INVARIANTS NewestKept ReadsNewest
PROPERTIES LevelsSettled
