SPECIFICATION Spec
CONSTANTS
  k1 = k1
  k2 = k2
  p1 = p1
  p2 = p2
  NoPayload = NoPayload
  Keys <- MCKeys
  Payload <- MCPayload
  Zones <- MCOneZone
  LEVELS = 7
  Thresholds = {1, 2}
  ReadTreeLimits = {1}
  AllocFail = {"append"}
  MaxTimestamp = 3
  MaxSegments = 3
SYMMETRY MCSymmetry
INVARIANTS TombstoneMasks
