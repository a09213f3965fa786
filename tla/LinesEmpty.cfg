SPECIFICATION Spec
CONSTANTS
  MaxLines = 1
  MaxEntries = 1
  Numbers = {9}
  Offsets = {0}
  PktWidths = {4}
  LineWidths = {3}
  MaxInserts = 1
  MaxGenerates = 1
CHECK_DEADLOCK FALSE
INVARIANT
  NeverGarbage
