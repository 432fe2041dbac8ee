SPECIFICATION FairSpec
CONSTANTS
  Clients = {k1}
  port <- DialsBoth
  SecureClients = {}
  N = 2
  MaxConnections = 1
  Nobody = Nobody
PROPERTIES
  StopEndsRun
CHECK_DEADLOCK FALSE
