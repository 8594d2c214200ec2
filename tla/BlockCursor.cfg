SPECIFICATION Spec
CONSTANTS
  BlockSize = 2
  Modulus = 8
  LinearScanThreshold = 16
  Universe = 6
  MaxReorder = 3
  Lists <- ShortLists
INVARIANTS
  TypeOK
  AtPosting
  RoundTrip
PROPERTIES
  ImplementsCursor
