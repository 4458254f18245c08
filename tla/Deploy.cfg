\* Two processes that start, serve, crash and stop again and again on either database; two
\* tables, so that one migration can be ahead of the other, and one statement that outlives
\* its client.
CONSTANTS
  Replicas = {r1, r2}
  NumTables = 2
  NumIndexes = 1
  NumColumns = 2
  MaxRequests = 1
  MaxOrphans = 1
  Free = Free
  Dead = Dead
SPECIFICATION FairSpec
INVARIANTS ServesCompleteSchema StartsDoNotCollide NothingUsedAfterClose
PROPERTY EveryStartEnds
