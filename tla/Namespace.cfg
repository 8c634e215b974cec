SPECIFICATION Spec
CONSTANTS
  d1 = d1  d2 = d2  d3 = d3  na = na  nb = nb
  Threads = {t1, t2}
  Dirs = {d1, d2, d3}
  TracedDirs = {d1, d3}
  Denied = {d3}
  Cwd = d1
  Names = {na, nb}
  Target <- TargetPlace
  Calls <- Forms
  Files <- SomeFiles
  StdinClosed = TRUE
  Rel = Rel  Odd = Odd  AT_FDCWD = AT_FDCWD  Bad = Bad  None = None
  MaxEvents = 2
INVARIANTS TypeOK TraceReplays NewFilesRecorded ModeTrue
SYMMETRY ThreadSymmetry
