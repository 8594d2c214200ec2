SPECIFICATION DintSpec
CONSTANTS
  BlockSize = 128
  PossLogs <- SomeLogs
  Workloads <- Workload
  Behind <- BehindBytes
  DintWorkloads <- DintWorkload
  Collections <- DintCollections
  NumEntries = 40
  NumNarrow = 16
  NumSelectors = 6
  Transformed <- TransformedCodecs
INVARIANTS
  DecodesWhatWasEncoded
  StopsAtTheEnd
  StaysInOverflow
  EveryTargetFound
  ShortestParse
CHECK_DEADLOCK FALSE
