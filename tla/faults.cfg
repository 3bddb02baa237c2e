SPECIFICATION Spec
CONSTANTS
  None = None
  Tombstone = Tombstone
  Torn = Torn
  Partial = Partial
  k1 = k1
  k2 = k2
  v1 = v1
  v2 = v2
  Keys = {k1}
  Values = {v1}
  EncodeSize <- UnitSize
  FlushThreshold = 1
  Trigger = 2
  MaxLevel = 2
  Radix = 10
  Calls = {"put", "remove", "clear"}
  Faults = {"sstFails", "sstShort", "readFails", "walFails"}
  MaxStops = 0
  TimestampBound <- Writes4
INVARIANT TablesAreOnDisk
 
PROPERTY LiveLostOnlyByDrop
PROPERTY DurableLostOnlyByRetry
