SPECIFICATION Spec
CONSTANTS
  Parsers = {parser}
  Users = {ui}
  NKeys = 1
  NLines = 1
  CountModulus = 100
  MaxCount = 2
  Objs = {o1}
  NULL = NULL
INVARIANT
  FreeReleasesAll
