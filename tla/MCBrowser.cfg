SPECIFICATION BrowserSpec
CONSTANTS
  a = a
  b = b
  r1 = r1
  r2 = r2
  Users = {a, b}
  None = None
  MaxCalls = 2
  MaxLost = 1
  MaxPresses = 4
  Devices = {a, b}
  Requests = {r1, r2}
  NoDevice = NoDevice
  MaxEvents = 4
  MaxTakes = 2
  c1 = c1
  Chats = {c1}
  Pages = {a, b}
  Nothing = Nothing
  MaxChoices = 2
  MaxUpsets = 1
  Tabs = {a, b}
  MaxTurns = 6
INVARIANTS PickupKept CallsSettle ScreenAgrees RecordsWhileHeld ChoicesKept CoverKept
SYMMETRY MCSymmetry
CHECK_DEADLOCK FALSE
