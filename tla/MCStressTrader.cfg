SPECIFICATION FairSpec
CONSTANTS
  Limit = 2
  Target = 1
  MaxAge = 2
  FirstInterval = 1000
  MaxSends = 2
  MaxLag = 1
\* The process exits.
CHECK_DEADLOCK FALSE
INVARIANTS
  TypeOK
  EverySampleInOneRow
PROPERTIES
  DeadServerEndsTest
