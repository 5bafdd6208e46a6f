CONSTANTS
  Versions <- MCBoth
  Recreated <- MCV2
  MaxOoms = 2
  QueueMax = 2
SPECIFICATION FairSpec
INVARIANTS TypeOK
PROPERTIES KeepsPromise OomReported ClosedAfterRemoval
CHECK_DEADLOCK FALSE
