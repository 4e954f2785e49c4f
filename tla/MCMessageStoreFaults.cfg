CONSTANTS
  Msgs = {m1, m2, m3, m4}
  MaxMessages = 2
  Torn = Torn
  Faults = {"mount", "open", "write", "read", "close"}
SYMMETRY Symmetry
SPECIFICATION Spec
PROPERTIES EvictsOldest ImplementsBoard
