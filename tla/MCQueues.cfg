SPECIFICATION QueuesSpec
CONSTANTS
  m1 = m1
  i1 = i1
  i2 = i2
  r1 = r1
  r2 = r2
  Msgs = {m1}
  MaxAttempts = 5
  AntiSpam = TRUE
  MaxTroubles = 2
  Items = {i1, i2}
  Replicas = {r1, r2}
  BatchSize = 2
  MaxLoopFaults = 2
INVARIANTS CopiesExplained CancelledUnsent
PROPERTIES OutboxDrains DueLeavesQueue
