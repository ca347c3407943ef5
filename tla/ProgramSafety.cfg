SPECIFICATION ProgramSpec
CONSTANTS
  MaxTotal = 6
  MaxLoops = 3
  Trees <- PlannedTrees
  MayBeMined = {0}
  GasBuffer = 2
  Amount = 9
  Prices = {1, 2}
  RootBalances <- SomeRootBalances
  Payments = 2
INVARIANTS
  ProgramTypeOK
  NoSharedSender
  SweepIsolated
  FundedBeforeUse
  GoalReached
  StuckIsReported
  TotalsExact
