\* A process dies inside a batch build and captures the same kernels again.
SPECIFICATION FairSpec
CONSTANTS
  p1 = p1  p2 = p2  t1 = t1  t2 = t2  t3 = t3  k1 = k1  k2 = k2
  None = None
  Proc = {p1}
  Thread = {t1}
  ProcOf <- SoloOf
  Kernel = {k1}
  Rejected = {}
  Capturers = {t1}
  Deleters = {}
  Flushers = {}
  MaxCalls <- FourEach
  MaxCrashes = 1
PROPERTIES EveryCallReturns
\* The threads stop once they have made MaxCalls calls.
CHECK_DEADLOCK FALSE
