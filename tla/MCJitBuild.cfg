\* A build pool of two threads and a deleting, flushing process.
SPECIFICATION FairSpec
CONSTANTS
  p1 = p1  p2 = p2  t1 = t1  t2 = t2  t3 = t3  k1 = k1  k2 = k2
  None = None
  Proc = {p1, p2}
  Thread = {t1, t2, t3}
  ProcOf <- PoolOf
  Kernel = {k1, k2}
  Rejected = {k2}
  Capturers = {}
  Deleters = {t1, t3}
  Flushers = {p2}
  MaxCalls <- OneOneTwo
  MaxCrashes = 0
INVARIANTS TypeOK SourcesComplete NoSecondLoad OnlyRejectedFail
PROPERTIES EveryCallReturns
\* The threads stop once they have made MaxCalls calls.
CHECK_DEADLOCK FALSE
