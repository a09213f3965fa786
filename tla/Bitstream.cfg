SPECIFICATION Spec
CONSTANTS
  Capacity = 3
  Words <- MCWords
  Counts = {1, 3, 8, 10}
INVARIANTS
  TypeOK
  PeekForesees
PROPERTY
  ImplementsQueue
CHECK_DEADLOCK FALSE
