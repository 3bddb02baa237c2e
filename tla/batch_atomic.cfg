SPECIFICATION BatchSpec
CONSTANTS
  Batches <- MCBatches
  None = None
  Tombstone = Tombstone
  Torn = Torn
  Partial = Partial
  k1 = k1
  k2 = k2
  v1 = v1
  v2 = v2
  Keys = {k1, k2}
  Values = {v1, v2}
  EncodeSize <- UnitSize
  FlushThreshold = 2
  Trigger = 9
  MaxLevel = 2
  Radix = 10
  Calls = {"put"}
  Faults = {"walFails"}
  MaxStops = 0
  TimestampBound <- Writes4
INVARIANT BatchIsAtomic
