SPECIFICATION FairSpec
CONSTANTS
  c1 = c1
  c2 = c2
  n1 = n1
  n2 = n2
  e1 = e1
  Conns = {c1, c2}
  Nodes = {n1, n2}
  Events = {e1}
  NoNode = NoNode
  MaxFaults = 2
CHECK_DEADLOCK FALSE
INVARIANTS Findable DeliveredOnce
PROPERTIES Reached OfflineInTheEnd
