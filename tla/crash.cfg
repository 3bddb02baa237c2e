SPECIFICATION Spec
CONSTANTS
  None = None
  Tombstone = Tombstone
  Torn = Torn
  Partial = Partial
  k1 = k1
  k2 = k2
  v1 = v1
  v2 = v2
  Keys = {k1, k2}
  Values = {v1, v2}
  EncodeSize <- MixedSize
  FlushThreshold = 2
  Trigger = 2
  MaxLevel = 3
  Radix = 10
  Calls = {"put", "remove", "clear"}
  Faults = {"crash", "torn"}
  MaxStops = 1
  TimestampBound <- Writes4Then0
INVARIANT AckedIsDurable
INVARIANT IdsAreFresh
PROPERTY ImplementsMap
