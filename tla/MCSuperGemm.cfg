SPECIFICATION FairSpec
CONSTANTS
  t1 = t1
  t2 = t2
  t3 = t3
  w1 = w1
  w2 = w2
  None = None
  Threads <- MCThreads
  Warps <- MCWarps
  WarpOf <- MCWarpOf
  Copies = 1
  KTiles = 3
  Bands = 2
INVARIANTS
  NoRace
  TilesExact
  QuiescentAtExit
PROPERTIES
  StoresProduct
  EveryThreadReturns
\* The block ends when its threads have returned.
CHECK_DEADLOCK FALSE
