SPECIFICATION Spec
CONSTANTS
  m1 = m1
  m2 = m2
  Msgs = {m1, m2}
  MaxAttempts = 1
  AntiSpam = TRUE
  MaxTroubles = 1
VIEW MCView
SYMMETRY MCSymmetry
PROPERTIES KeptUntilStored
