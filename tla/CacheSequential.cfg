SPECIFICATION Spec
CONSTANTS
  Parsers = {main}
  Users = {main}
  NKeys = 2
  NLines = 2
  CountModulus = 5
  MaxCount = 2
  Objs = {o1, o2, o3, o4}
  NULL = NULL
SYMMETRY Symmetry
INVARIANTS
  FreeReleasesAll
  StatsConsistent
