CONSTANTS
  BaseLen = 6
  Stations <- TheStations
  Args <- TheArgs
  MaxMessages = 2
  MaxPosts = 3
  MaxResets = 1
SPECIFICATION Spec
INVARIANTS HiddenOnlyAfterReset Addressed
PROPERTIES StaysRead RemovedByRight LedSettles
