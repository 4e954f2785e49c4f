CONSTANTS
  Calls = {own, c1, c2, c3}
  Own = own
  MaxHeard = 2
  Bucket = 2
  RateLimit = 3
  MaxTime = 5
  NoFile = NoFile
  NoFrame = NoFrame
  Faults = {"open", "read", "write", "rename"}
SYMMETRY Symmetry
SPECIFICATION Spec
INVARIANTS Recency AgesAscend SavedInTime
PROPERTY WholeOnFlash
