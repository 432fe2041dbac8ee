SPECIFICATION FairSpec
CONSTANTS
  Clients = {k1, k2, k3}
  port <- DialsBoth
  SecureClients = {k3}
  N = 2
  MaxConnections = 1
  Nobody = Nobody
INVARIANTS
  OverrunIsBounded
PROPERTIES
  HandedOverIsTaken
  StopOfBlockedRunWorks
CHECK_DEADLOCK FALSE
