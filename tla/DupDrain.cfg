SPECIFICATION FairSpec
CONSTANTS
  p1 = p1
  p2 = p2
  h1 = h1
  l1 = l1
  b1 = b1
  b2 = b2
  s1 = s1
  s2 = s2
  Request = {p1, p2, h1}
  Kind <- MCKind
  Bucket = {b1, b2}
  BucketOf <- MCBucketOf
  Server = {s1, s2}
  SlaveLists <- OneSlave
  MayStop = {}
  Threads = 2
  IdMod = 16
  LastIds = {15}
  MAX_DUP_COUNT = 2
  TAIR_MAX_DUP_MAP_SIZE = 0
INVARIANTS
  MapBounded

  
  
CHECK_DEADLOCK FALSE
