SPECIFICATION Spec
CONSTANTS
  t1 = t1  t2 = t2  t3 = t3  p1 = p1  p2 = p2  p3 = p3
  Threads <- ThreeThreads
  Addrs <- ThreeAddrs
  NULL = NULL
  Titles = {zygote, app}
  Zygote = zygote
  Uid = uid
  MaxCalls = 4
  MaxPid = 2
SYMMETRY Symmetry
INVARIANTS NameInv FreedOnce RightName
PROPERTIES NameStays
