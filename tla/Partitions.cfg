SPECIFICATION Spec
CONSTANTS
  Universe = 11
  Eps1 = 50
  Eps2 = 30
  ValueLists <- MCValueLists
  WindowFixCost = 4
  CostFun <- MCCostFun
  FixCost = 2
  Gaps <- MCGaps
  EncoderCost <- MCEncoderCost
  MaxPostings = 9
  GapLists <- MCGapLists
INVARIANTS BlocksInOrder CutsAtLeastCost CostIsFound NearBestCut
