SPECIFICATION Spec
CONSTANTS
  NoJob = NoJob
  Nobody = Nobody
  Threads = {t1, t2}
  Callers = {c1, c2}
  Waiters = {c1, c2}
  Jobs = {j1, j2, j3}
  Calls = {"pause", "destroy", "nest"}
  OtherPools = TRUE
SYMMETRY PoolSymmetry
INVARIANTS
  FreedQuiet
PROPERTIES
  ImplementsJobPool
  WaitMeansDone
CHECK_DEADLOCK FALSE
