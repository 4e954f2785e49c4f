CONSTANTS
  LineMax = 3
  BodyMax = 6
  Sends = Sends
  Ends = Ends
  Other = Other
  CR = CR
  LF = LF
  CtrlZ = CtrlZ
  MaxTyped = 8
  MaxSessions = 2
SPECIFICATION Spec
INVARIANTS TypeOK LinesOfOneMode OneAuthor StoredAsTyped
CHECK_DEADLOCK FALSE
