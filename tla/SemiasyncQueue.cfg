SPECIFICATION FairSpec
CONSTANTS
  NumJobs = 6
  WorkPerThread = 2
  WorkValues = {1, 2}
  ThreadCounts = {0, 1, 2, 3}
INVARIANTS
  TypeOK
  CommitInOrder
  PreparedBeforeCommit
  CompleteIsComplete
  NothingLost
PROPERTIES
  CompleteReturns
  ImplementsOrderedBuild
