SPECIFICATION Spec
CONSTANTS
  Server = {s1, s2, s3}
  Bucket = {b1}
  NoServer = none
  CopyCount = 2
  DataNeedMove = TRUE
  AutoAccept = TRUE
  MinServerCount = 2
  MinConfigVersion = 10
  ServerUpIncStep = 100
  MaxDisturbances = 2
SYMMETRY Symmetry
INVARIANTS
  MigrationTracked
  NoServerForgotten
CHECK_DEADLOCK FALSE
