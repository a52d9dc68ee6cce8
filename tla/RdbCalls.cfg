SPECIFICATION RedisSpec
CONSTANTS
  VersionMod = 3
  IntHalf = 2
  ListMax = 3
  HashMax = 1
  SetMax = 2
  ZsetMax = 2
  MaxFlushes = 1
  Long = long
  word = word
  NameOrder <- Letters3
  Loads <- MCLoads
  Pushes <- SomePushes
  Counts <- SomeCounts
  Scores <- SomeScores
VIEW RedisView
INVARIANTS
  StaleKeysCounted
  ObjectSound
PROPERTIES
  
  VersionsGuard
  SizesRight
  PushedExactly
  DeadStaysDead
