SPECIFICATION Spec
CONSTANTS
  t1 = t1  t2 = t2  t3 = t3  b1 = b1  b2 = b2  b3 = b3  b4 = b4  b5 = b5
  Threads <- TwoThreads
  Addrs <- FiveAddrs
  Flusher = flusher
  Handler = handler
  NULL = NULL
  PrefixLen = 1
  LongNames = FALSE
  Limit = 3
  BufferSize = 9
  FlushMin = 2
  IdxMod = 4
  Sizes = {1}
  FlusherOn = TRUE
  MallocFails = FALSE
  MayExit = TRUE
  Renamed = TRUE
  MaxRecs = 2
  MaxPid = 2
  MaxSignals = 1
SYMMETRY Symmetry
INVARIANTS FlushInv OwnRecords ExclusiveFlush WholeRecords
PROPERTIES ImplementsRecordLog
