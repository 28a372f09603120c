\* A tuning process with two threads beside a process that only looks up.
SPECIFICATION Spec
CONSTANTS
  p1 = p1  p2 = p2  t1 = t1  t2 = t2  t3 = t3
  ka = ka  kb = kb  g1 = g1  m1 = m1  m2 = m2  m3 = m3  m4 = m4  m5 = m5
  None = None  NoEntry = NoEntry
  Proc = {p1, p2}
  Device = {g1}
  Key = {ka, kb}
  Module = {m1, m2, m3, m4, m5}
  Version = 7
  Thread = {t1, t2, t3}
  ProcOf <- PoolOf
  Tuners = {p1}
  Outcome <- AllRun
  CallsOf <- Calls
  MaxCalls = 2
  MaxCrashes = 0
INVARIANTS LegalChoice
PROPERTIES TimedOnce
\* The threads stop once they have made MaxCalls calls.
CHECK_DEADLOCK FALSE
