SPECIFICATION NetSpec
CONSTANTS
  KeyMax = 1024
  DataMax = 1000000
  Loads <- MCLoads
  MaxCalls = 3
  QueueLimit = 3
  ClosedLimit = 0
  MaxDrops = 1
  MaxRequests = 2
  Workers = {1, 2}
  QueueSize = 1
  Grace = 2
INVARIANTS AnsweredOnce CopiesTold CallsTrue SizesAgree CalledOnce DeletedUnreferenced
PROPERTIES  ConnectionsSettle
CHECK_DEADLOCK FALSE
