\* Two tuning processes, one of which may die, and candidates that fail.
SPECIFICATION FairSpec
CONSTANTS
  p1 = p1  p2 = p2  t1 = t1  t2 = t2  t3 = t3
  ka = ka  kb = kb  g1 = g1  m1 = m1  m2 = m2  m3 = m3  m4 = m4  m5 = m5
  None = None  NoEntry = NoEntry
  Proc = {p1, p2}
  Device = {g1}
  Key = {ka, kb}
  Module = {m1, m2, m3, m4, m5}
  Version = 7
  Thread = {t1, t2}
  ProcOf <- PairOf
  Tuners = {p1, p2}
  Outcome <- SomeFail
  CallsOf <- CallsFailing
  MaxCalls = 2
  MaxCrashes = 1
PROPERTIES ReferencedKept SelectedKept FailuresRecorded CallsEnd
\* The threads stop once they have made MaxCalls calls.
CHECK_DEADLOCK FALSE
