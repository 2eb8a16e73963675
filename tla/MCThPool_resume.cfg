SPECIFICATION FairSpec
CONSTANTS
  NoJob = NoJob
  Nobody = Nobody
  Threads = {t1, t2}
  Callers = {c1}
  Waiters = {}
  Jobs = {j1}
  Calls = {"pause"}
  OtherPools = FALSE
PROPERTIES
  ResumeReleases
CHECK_DEADLOCK FALSE
