SPECIFICATION Spec
CONSTANTS
  MaxFragments = 3
  MaxPayload = 64
  MaxMessages = 2
  MaxPackets = 4
  MaxLost = 2
  MaxRepeated = 1
  Malformed = TRUE
CHECK_DEADLOCK FALSE
INVARIANTS
  TypeOK
  StoredRun
  DeliveredFromHead
  TooLongNeverDelivered
  OneLossHarmless
  Recovers
  LeaksArePaidFor
