SPECIFICATION FairSpec
CONSTANTS
  alice = alice
  m1 = m1
  m2 = m2
  h1 = h1
  h2 = h2
  n1 = n1
  n2 = n2
  Users = {alice}
  ClientIds = {m1, m2}
  Handlers = {h1, h2}
  Nodes = {n1, n2}
  SenderOf <- MCSenderOf
  NodeOf <- MCNodeOf
  NoHandler = NoHandler
  NoMsg = NoMsg
  AntiSpam = TRUE
  Window = 1
INVARIANTS SeqsContiguous AcksMatchStore IInv
PROPERTIES ImplementsTimeline RequestsEnd
