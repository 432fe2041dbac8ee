SPECIFICATION FairSpec
CONSTANTS
  s1 = s1
  s2 = s2
  Nobody = Nobody
  Socks <- TwoSocks
  Coros <- TwoCoros
  Workloads <- ThreeWorkloads
  MaxTime = 1
INVARIANTS
  CoroutineInOnePlace
  OnlyPumpsFreeEarly
PROPERTIES
  WaitersAreResumed
  StopEndsLoop
CHECK_DEADLOCK FALSE
