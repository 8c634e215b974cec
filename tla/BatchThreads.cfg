SPECIFICATION Spec
CONSTANTS
  t1 = t1  t2 = t2  f1 = f1  f2 = f2  f3 = f3
  Threads <- TwoThreads
  Fds = {fd1}
  NoFd = NoFd
  Files = {f1, f2}
  Traced = {f1, f2}
  Regular = {f1}
  NULL = NULL
  SeekOps = {}
  StdioOps = {fwrite}
  PosOps = {}
  Sizes = {2}
  Fills = {0, 2}
  Offsets = {2}
  BlkSize = 2
  Cap = 2
  MaxAccess = 3
SYMMETRY Symmetry
INVARIANTS TypeOK BatchInv ExtentCovers EachOnceInOrder ExitDispatches
