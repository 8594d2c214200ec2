SPECIFICATION SeekSpec
CONSTANTS
  BlockSize = 2
  Modulus = 256
  LinearScanThreshold = 16
  Universe = 82
  MaxReorder = 0
  Lists <- LongList
INVARIANTS
  SeekMovesTheCursor
