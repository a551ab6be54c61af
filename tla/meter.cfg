SPECIFICATION FairSpec
CONSTANTS
  e1 = e1  e2 = e2  e3 = e3  s1 = s1  s2 = s2
  None = None
  Event = {e1,e2,e3}
  Ship = {s1, s2}
  MaxBuf = 2
  Trigger = 2
  Batch = 1
  Failures = TRUE
CHECK_DEADLOCK FALSE
INVARIANTS Accounted NothingSentAfterFinal
PROPERTIES EventsDrain QueueSpec
