SPECIFICATION FairSpec
CONSTANTS
  Parsers = {parser}
  Users = {ui1, ui2}
  NKeys = 1
  NLines = 1
  CountModulus = 3
  MaxCount = 2
  Objs = {o1, o2}
  NULL = NULL
INVARIANTS
  TypeOK
  LockDiscipline
  PointerIsLive
  SoleOwner
PROPERTY
  LockIsReleased
