SPECIFICATION Spec
CONSTANTS
  LinearScanThreshold = 1
  PvbBlockSize = 2
  Garbage = 1000
  EfLogSampling0 = 1
  EfLogSampling1 = 1
  RbLogRank1Sampling = 1
  RbLogSampling1 = 1
  NoSampling = 20
  LogPartitionSize = 1
  IntLimit = 16
  Universe = 4
  Inputs <- EveryInput
INVARIANTS
  FreqOfDocid
PROPERTIES
  ImplementsCursor
