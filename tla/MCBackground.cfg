SPECIFICATION BackgroundSpec
CONSTANTS
  Undefined = Undefined
  SyncPage = 1
  OpenPage = 1
  RefreshPage = 2
  OlderPage = 1
  OldRows = 1
  MaxRows = 3
  MaxConnects = 1
  MaxVisits = 1
  MaxScrolls = 1
  MaxLag = 1
  x1 = x1
  x2 = x2
  Tabs = {x1, x2}
  MaxTokens = 4
  MaxFaults = 1
INVARIANTS CatchUpContiguous StaysSignedIn
PROPERTIES Converges RevokedSignsOut
CHECK_DEADLOCK FALSE
