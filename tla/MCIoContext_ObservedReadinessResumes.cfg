SPECIFICATION Spec
CONSTANTS
  s1 = s1
  s2 = s2
  Nobody = Nobody
  Socks <- TwoSocks
  Coros <- TwoCoros
  Workloads <- Splice
  MaxTime = 1
INVARIANT ObservedReadinessResumes
CHECK_DEADLOCK FALSE
