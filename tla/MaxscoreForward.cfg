SPECIFICATION Spec
CONSTANTS
  Terms <- MCTerms
  NumDocs = 3
  Lists <- MCLists
  Ks <- MCKs
INVARIANTS
  MaxscoreCallsForward
