SPECIFICATION BuilderSpec
CONSTANTS
  NumJobs = 3
  WorkPerThread = 2
  WorkValues = {1, 2}
  ThreadCounts = {0, 1, 2}
  Builders = {{"lists"}, {"docs", "freqs"}}
  EncodedSizes = {1, 2}
  NumDirect = 2
INVARIANTS
  BuilderTypeOK
  ListsInCallOrder
  ListsWhole
  BuffersFreed
PROPERTIES
  ImplementsOrderedStore
