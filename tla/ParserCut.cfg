SPECIFICATION Spec
CONSTANTS
  Lines <- CutLines
  Fills = {64}
  Types <- MCTypes
  MaxPayload = 300
  UintModulus = 65536
  MaxNoMemory = 0
  LineNrs = {9}
  CacheLines = 2048
  NULL = NULL
CHECK_DEADLOCK FALSE
INVARIANT
  ReadsOnLine
