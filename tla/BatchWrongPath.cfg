SPECIFICATION Spec
CONSTANTS
  t1 = t1  t2 = t2  f1 = f1  f2 = f2  f3 = f3
  Threads <- OneThread
  Fds = {fd1, fd2}
  NoFd = NoFd
  Files <- TwoFiles
  Traced <- TwoFiles
  Regular <- TwoFiles
  NULL = NULL
  SeekOps = {}
  StdioOps = {}
  PosOps = {pread}
  Sizes = {1}
  Fills = {0, 2}
  Offsets = {0}
  BlkSize = 2
  Cap = 3
  MaxAccess = 3
INVARIANTS DispatchedUnderItsPath
