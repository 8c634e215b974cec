SPECIFICATION Spec
CONSTANTS
  t1 = t1  t2 = t2  t3 = t3  b1 = b1  b2 = b2  b3 = b3  b4 = b4  b5 = b5
  Threads <- ThreeThreads
  Addrs <- OneAddr
  Flusher = flusher
  Handler = handler
  NULL = NULL
  PrefixLen = 1
  LongNames = TRUE
  Limit = 4
  BufferSize = 9
  FlushMin = 2
  IdxMod = 5
  Sizes = {1, 3, 7}
  FlusherOn = FALSE
  MallocFails = TRUE
  MayExit = FALSE
  Renamed = FALSE
  MaxRecs = 4
  MaxPid = 1
  MaxSignals = 0
SYMMETRY Symmetry
INVARIANTS WholeRecords
PROPERTIES ImplementsRecordLog
