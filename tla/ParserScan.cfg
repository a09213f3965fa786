SPECIFICATION Spec
CONSTANTS
  Lines <- AllLines
  Fills = {64}
  Types <- MCTypes
  MaxPayload = 300
  UintModulus = 65536
  MaxNoMemory = 1
  LineNrs = {9, 2048}
  CacheLines = 2048
  NULL = NULL
CHECK_DEADLOCK FALSE
INVARIANTS
  TypeOK
  RoundTrip
  NoWrongFrame
  EveryFrameFound
  EveryFrameCached
