SPECIFICATION Spec
CONSTANTS
  None = None
  Tombstone = Tombstone
  Torn = Torn
  Partial = Partial
  k1 = k1
  k2 = k2
  v1 = v1
  v2 = v2
  Keys = {k1, k2}
  Values = {v1, v2}
  EncodeSize <- MixedSize
  FlushThreshold = 2
  Trigger = 2
  MaxLevel = 3
  Radix = 10
  Calls = {"put", "remove"}
  Faults = {}
  MaxStops = 0
  TimestampBound <- Writes7
SYMMETRY Symmetry
INVARIANT TypeOK
INVARIANT SearchOrderIsTimeOrder
INVARIANT LevelsAreCompacted
PROPERTY LiveValuesKept
PROPERTY DeletedReturnsOnlyFromNextLevel
