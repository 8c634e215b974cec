SPECIFICATION FairSpec
CONSTANTS
  Adders = {a1, a2}
  Worker = w
  Bufs = {b1, b2, b3}
  Nodes = {n1, n2}
  Heads = {h1, h2}
  Size = 1
  None = None
  Fails = TRUE
  Idle = TRUE
  Cap = 2
  MaxEntries = 4
INVARIANTS TypeOK SlotsApart OneSwapper FlushedOnce ListWhole
PROPERTIES AddEnds QueuedIsFlushed
