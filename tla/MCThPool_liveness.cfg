SPECIFICATION FairSpec
CONSTANTS
  NoJob = NoJob
  Nobody = Nobody
  Threads = {t1, t2}
  Callers = {c1, c2}
  Waiters = {c1}
  Jobs = {j1, j2, j3}
  Calls = {"destroy"}
  OtherPools = FALSE
INVARIANTS
  JobsAnnounced
  SomebodyAwake
  WaiterRemembered
PROPERTIES
  JobsRun
  WaitEnds
  DestroyEnds
CHECK_DEADLOCK FALSE
