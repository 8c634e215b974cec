SPECIFICATION FairSpec
CONSTANTS
  t1 = t1  t2 = t2  f1 = f1  f2 = f2  i1 = i1  i2 = i2
  Threads <- TwoThreads
  Main = t1
  Flushers <- TwoFlushers
  Infos <- TwoInfos
  Signals = {s1}
  NULL = NULL
  Junk = Junk
  MallocFails = TRUE
  CreateFails = TRUE
  Renamed = TRUE
  MaxForks = 1
  MaxSignals = 1
  MaxPhantoms = 1
INVARIANTS TypeOK FlusherInv SafeUntilExit CountKept OldHandlers
PROPERTIES ExitEnds
