SPECIFICATION FairSpec
CONSTANTS
  t1 = t1  t2 = t2  t3 = t3  b1 = b1  b2 = b2  b3 = b3  b4 = b4  b5 = b5
  Threads <- TwoThreads
  Addrs <- ThreeAddrs
  Flusher = flusher
  Handler = handler
  NULL = NULL
  PrefixLen = 1
  LongNames = FALSE
  Limit = 4
  BufferSize = 9
  FlushMin = 3
  IdxMod = 64
  Sizes = {1, 2}
  FlusherOn = TRUE
  MallocFails = FALSE
  MayExit = FALSE
  Renamed = TRUE
  MaxRecs = 2
  MaxPid = 1
  MaxSignals = 0
PROPERTIES AppendsEnd FlusherDrains
