CONSTANTS
  Stations = {s1, s2}
  None = None
  ChallengeTimeout = 1
  SessionTimeout = 2
  LockoutTime = 2
  MaxAttempts = 2
  Wrap = 100
  MaxTime = 0
  MaxWrong = 1
  QueueLen = 2
SPECIFICATION AppSpec
INVARIANT LedTruthful
