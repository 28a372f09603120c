\* Eager and compiled calls, aligned or not, and nested captures.
SPECIFICATION Spec
CONSTANTS
  mm = mm  mmTn = mmTn  softmax = softmax  total = total
  supergemm = supergemm  tc2d = tc2d  bt2d = bt2d  rowsoftmax = rowsoftmax  reduce = reduce
  None = None
  Meta = {mm, mmTn, softmax, total}
  Key = {mm, mmTn, softmax, total}
  KeyOf <- OwnKeys
  Spec_ = {supergemm, tc2d, bt2d, rowsoftmax, reduce}
  CandidatesOf <- Backends
  Vectorised = {supergemm, tc2d, bt2d}
  NeedsAligned = {supergemm}
  Tuned <- File
  Broken = {rowsoftmax}
  Nodes <- MatmulNodes
  CacheMax = 2
  MaxCalls = 4
  MaxNest = 2
INVARIANTS ClaimsAreProvisional StockOnlyFromCapture
PROPERTIES RefusedOnlyStale
\* The program stops once it has made MaxCalls calls.
CHECK_DEADLOCK FALSE
