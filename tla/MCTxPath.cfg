CONSTANTS
  InfoLen = 2
  RetryMax = 2
  Window = 1
  TextMax = 5
SPECIFICATION Spec
INVARIANTS Whole FewPackets
PROPERTY ReplyEnds
