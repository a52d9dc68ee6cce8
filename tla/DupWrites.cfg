SPECIFICATION Spec
CONSTANTS
  p1 = p1
  p2 = p2
  h1 = h1
  l1 = l1
  b1 = b1
  b2 = b2
  s1 = s1
  s2 = s2
  Request = {p1, l1}
  Kind <- MCKind
  Bucket = {b1, b2}
  BucketOf <- MCBucketOf
  Server = {s1, s2}
  SlaveLists <- AnySlaves
  MayStop = {s2}
  Threads = 2
  IdMod = 8
  LastIds = {0, 6}
  MAX_DUP_COUNT = 2
  TAIR_MAX_DUP_MAP_SIZE = 1
INVARIANTS
  
  OneReply
  WaitMapTracked
  IdNeverMixed
  AnswerAfterAcks
CHECK_DEADLOCK FALSE
