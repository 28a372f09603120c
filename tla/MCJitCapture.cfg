\* A capturing process, and a deleting and flushing one, with a crash.
SPECIFICATION Spec
CONSTANTS
  p1 = p1  p2 = p2  t1 = t1  t2 = t2  t3 = t3  k1 = k1  k2 = k2
  None = None
  Proc = {p1, p2}
  Thread = {t1, t2}
  ProcOf <- PairOf
  Kernel = {k1, k2}
  Rejected = {}
  Capturers = {t1}
  Deleters = {t2}
  Flushers = {p1, p2}
  MaxCalls <- ThreeAndTwo
  MaxCrashes = 1
INVARIANTS LockOrder RemovedBatonIsOrphan
PROPERTIES QueuedSourcesStay
\* The threads stop once they have made MaxCalls calls.
CHECK_DEADLOCK FALSE
