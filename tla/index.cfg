SPECIFICATION FairSpec
CONSTANTS
  Day <- BoundaryDay
  MaxEntries = 4
  InputDay <- AskedDay
  Interval <- Steps
  Beyond <- Anything
  PG_INT32_MAX = 127
INVARIANTS
  TypeOK
  PageMapExact
  ReadsEntries
  ClosestUpToLast
  AnswerAsDocumented
PROPERTIES
  SearchReturns
