SPECIFICATION Spec
CONSTANTS
  MaxLines = 2
  MaxEntries = 3
  Numbers = {l1, l2, l3}
  Offsets = {0, 3}
  PktWidths = {1, 4}
  LineWidths = {6}
  MaxInserts = 4
  MaxGenerates = 2
SYMMETRY Symmetry
CHECK_DEADLOCK FALSE
INVARIANTS
  TypeOK
  PackedPrefix
  NoHoles
  PacketsWhole
  NoneLeftOut
  LineSetSound
