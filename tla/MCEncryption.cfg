SPECIFICATION Spec
CONSTANTS
  a = a
  b = b
  t1 = t1
  t2 = t2
  s1 = s1
  s2 = s2
  r1 = r1
  r2 = r2
  Users = {a, b}
  Tasks = {t1, t2}
  None = None
  MaxSkip = 1
  MaxSent = 4
  Members = {a, b}
  Slots = {t1, t2}
  NoRecord = NoRecord
  MaxSaid = 3
  Sends = {s1, s2}
  MediaReplicas = {r1, r2}
  Nothing = Nothing
  Original = Original
  Chunks = 2
  MaxTicks = 1
  MaxMishaps = 2
SYMMETRY MCSymmetry
INVARIANTS AnyOrder KeysUsedOnce ChainsAdvance MediaReadable UploadFailsForReason RowShowsItsMessage
CHECK_DEADLOCK FALSE
