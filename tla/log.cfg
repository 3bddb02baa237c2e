SPECIFICATION FlushedSpec
CONSTANTS
  MaxBatch = 3
  MaxRecords = 4
  MaxStops = 1
  Faults = {"write", "fsync", "open", "crash", "power"}
CHECK_DEADLOCK FALSE
INVARIANT LogTypeOK
INVARIANT AckedIsRead
INVARIANT ReadInOrder
INVARIANT SizeIsAtMostFile
INVARIANT OnlyUnsyncedTablesAreLost
INVARIANT MemtableHoldsTheLog
