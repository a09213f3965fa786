SPECIFICATION Spec
CONSTANTS
  MaxWords = 13
  BufInitial = 128
  BufStep = 128
  BufLimit = 256
  SizeInitial = 72
  SizeMax = 1048576
  GrowFactor = 2
  Junk <- MCJunk
  PacketSize = 36
  Pid = 128
  Frames <- MCFrames
  MaxFrames = 3
  MaxFaults = 2
INVARIANTS
  TypeOK
  RingIsQueue
  BufferFits
  UndisturbedArrives
  NothingInvented
  SoundIsSafe
CHECK_DEADLOCK FALSE
