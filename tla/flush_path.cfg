SPECIFICATION FlushSpec
CONSTANTS
  Nil = Nil
  Keys <- MCKeys
  KeyText <- MCKeyText
  Entries <- MCEntries
  MAX_LEVEL = 3
  Hash1 <- MCHash1
  Hash2 <- MCHash2
  HashLimit = 32
  LZ4_MAX_INPUT_SIZE = 19
  Word = 25
  Garbage = Garbage
  MaxFailedOpens = 2
  Damages = {"cut", "data"}
  Versions = {1, 2, 3}
INVARIANT MemTableTypeOK
INVARIANT ListIsSound
INVARIANT SearchFinds
INVARIANT TotalIsSum
INVARIANT WalkIsSorted
INVARIANT FoundIsWritten
INVARIANT AllOrNothing
INVARIANT NoFalseNegative
INVARIANT CodecRoundTrip
