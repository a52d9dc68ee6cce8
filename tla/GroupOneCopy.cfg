SPECIFICATION Spec
CONSTANTS
  Server = {s1, s2}
  Bucket = {b1, b2}
  NoServer = none
  CopyCount = 1
  DataNeedMove = TRUE
  AutoAccept = FALSE
  MinServerCount = 1
  MinConfigVersion = 10
  ServerUpIncStep = 100
  MaxDisturbances = 2
SYMMETRY Symmetry
INVARIANTS
  Bookkeeping
PROPERTIES
  DestFixedByVersion
CHECK_DEADLOCK FALSE
