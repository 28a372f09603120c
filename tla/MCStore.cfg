\* Processes with different tuning schemas, colliding keys and deaths.
SPECIFICATION FairSpec
CONSTANTS
  p1 = p1  p2 = p2  t1 = t1  t2 = t2  t3 = t3
  k1 = k1  k2 = k2  k3 = k3  d1 = d1  d2 = d2  s1 = s1  s2 = s2
  None = None  NoEntry = NoEntry
  Proc = {p1, p2}
  Thread = {t1, t2, t3}
  ProcOf <- PoolOf
  Version = {6, 7}
  SchemaOf <- OldSchema
  Key = {k1, k2, k3}
  Digest = {d1, d2}
  DigestOf <- Hash
  Params = {s1}
  MaxUpdates = 1
  MaxCrashes = 1
INVARIANTS NeverTorn
PROPERTIES Atomic UpdatesEnd
\* The threads stop once they have made MaxUpdates updates.
CHECK_DEADLOCK FALSE
