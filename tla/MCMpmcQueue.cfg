CONSTANTS
  Producers = {p1, p2}
  Consumers = {c1, c2}
  Capacity = 2
  MaxItems = 2
  None = None
SPECIFICATION FairSpec
INVARIANTS
  SlotExclusive
  Conservation
  QueueInv
PROPERTIES
  FalseHasACause
  ImplementsFifo
  EveryCallReturns
