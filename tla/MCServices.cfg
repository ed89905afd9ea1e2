SPECIFICATION ServicesSpec
CONSTANTS
  x1 = x1
  x2 = x2
  i1 = i1
  i2 = i2
  u1 = u1
  u2 = u2
  u3 = u3
  Ips = {i1, i2}
  Tries = {x1, x2}
  MaxAttempts = 2
  MaxStrikes = 2
  FirstLockout = 1
  RetryLockout = 1
  MaxNow = 1
  MaxTries = 3
  MaxResets = 1
  MaxBreaks = 1
  People = {u1, u2, u3}
  Changes = {x1, x2}
  Nobody = Nobody
  MaxChanges = 2
  Peers = {u1, u2}
  Posts = {i1, i2}
  Replies = {x1, x2}
  NoAsk = NoAsk
  MaxReplies = 3
  MaxFailures = 1
  Scans = {i1, i2}
  Polls = {x1, x2}
  NoScan = NoScan
  MaxLost = 1
  Pages = {x1, x2}
  Notes = {i1, i2}
  MaxLoads = 2
  MaxPuts = 2
  MaxStorageFaults = 1
INVARIANTS StrikesEarned HasOwner ServicesAgree PairedStaysSignedIn KeptOverReloads
PROPERTIES BannedStaysOut
CHECK_DEADLOCK FALSE
