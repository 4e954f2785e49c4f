CONSTANTS
  IndexCount = 3
  ResponseLen = 4
  SecretMin = 3
  SecretMax = 4
  Letters = {a, b}
  OtherChar = z
SPECIFICATION Spec
INVARIANT RightAnswers
CHECK_DEADLOCK FALSE
