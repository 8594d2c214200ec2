SPECIFICATION Spec
CONSTANTS
  LinearScanThreshold = 1
  PvbBlockSize = 2
  Garbage = 1000
  EfLogSampling0 = 2
  EfLogSampling1 = 2
  RbLogRank1Sampling = 2
  RbLogSampling1 = 2
  NoSampling = 20
  LogPartitionSize = 1
  IntLimit = 8
  Universe = 7
  MaxValues = 6
  MaxWeakValues = 5
  Inputs <- EveryInput
INVARIANTS
  TypeOK
  MovesToPosition
  SeeksFirstGeq
  PrevIsBefore
  OpensAsWritten

