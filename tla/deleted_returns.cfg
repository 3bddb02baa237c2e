SPECIFICATION Spec
CONSTANTS
  None = None
  Tombstone = Tombstone
  Torn = Torn
  Partial = Partial
  k1 = k1
  k2 = k2
  v1 = v1
  v2 = v2
  Keys = {k1}
  Values = {v1}
  EncodeSize <- UnitSize
  FlushThreshold = 1
  Trigger = 4
  MaxLevel = 4
  Radix = 10
  Calls = {"put", "remove"}
  Faults = {}
  MaxStops = 0
  TimestampBound <- Writes8
PROPERTY DeletedStaysDeleted
