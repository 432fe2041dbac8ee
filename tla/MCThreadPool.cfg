SPECIFICATION FairSpec
CONSTANTS
  Callers = {c1, c2}
  Workers = {w1, w2}
  QueueCapacity = 2
  MaxJobs = 2
  Nobody = Nobody
INVARIANTS
  JobInOnePlace
PROPERTIES
  EveryJobRuns
  DestructorReturns
CHECK_DEADLOCK FALSE
