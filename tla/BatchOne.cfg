SPECIFICATION Spec
CONSTANTS
  t1 = t1  t2 = t2  f1 = f1  f2 = f2  f3 = f3
  Threads <- OneThread
  Fds = {fd1, fd2}
  NoFd = NoFd
  Files = {f1, f3}
  Traced <- TracedFiles
  Regular = {f1, f3}
  NULL = NULL
  SeekOps = {read}
  StdioOps = {}
  PosOps = {pread}
  Sizes = {1, 3}
  Fills = {0, 2}
  Offsets = {0, 4}
  BlkSize = 2
  Cap = 3
  MaxAccess = 3
INVARIANTS ExtentExact TraceIsHistory
