SPECIFICATION ProgramSpec
CONSTANTS
  MaxTotal = 2
  MaxLoops = 2
  Trees <- PlannedTrees
  MayBeMined = {0}
  GasBuffer = 2
  Amount = 9
  Prices = {1}
  RootBalances <- SomeRootBalances
  Payments = 1
INVARIANTS
  StuckAlwaysReported
