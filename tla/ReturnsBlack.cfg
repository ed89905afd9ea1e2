SPECIFICATION SealSpec
CONSTANTS
  Tabs = {t1, t2}
  MaxTurns = 6
PROPERTIES ReturnsRecoverable
CHECK_DEADLOCK FALSE
