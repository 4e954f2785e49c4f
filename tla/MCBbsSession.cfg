CONSTANTS
  Stations = {s1, s2}
  None = None
  ChallengeTimeout = 1
  SessionTimeout = 2
  LockoutTime = 2
  MaxAttempts = 2
  Wrap = 100
  MaxTime = 5
  MaxWrong = 5
SYMMETRY Symmetry
SPECIFICATION Spec
INVARIANTS ViewsAgree RightsProved AuthorPosts TerminalTapped IdleCommandsDenied AttemptsBounded
PROPERTIES LeadsWhereAsked TimelyAccepted
