SPECIFICATION SeekAnywhereSpec
CONSTANTS
  LinearScanThreshold = 8
  PvbBlockSize = 2
  Garbage = 1000
  EfLogSampling0 = 4
  EfLogSampling1 = 5
  RbLogRank1Sampling = 9
  RbLogSampling1 = 8
  NoSampling = 20
  LogPartitionSize = 7
  IntLimit = 8
  Universe = 2
  MaxValues = 1
  MaxWeakValues = 1
  Inputs <- TestSingleton
INVARIANTS
  StaysWithinSize
