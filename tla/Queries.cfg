SPECIFICATION Spec
CONSTANTS
  Terms <- MCTerms
  NumDocs = 4
  Lists <- MCLists
  Ks <- MCKs
INVARIANTS
  TypeOK
  FindsTheAnswer
  NothingSkipped
  SkippedCannotEnter
  StaysSorted
  CallsAreSafe
PROPERTIES
  Returns
