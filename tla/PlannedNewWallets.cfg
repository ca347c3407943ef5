SPECIFICATION Spec
CONSTANTS
  MaxTotal = 3
  MaxLoops = 2
  Trees <- PlannedTrees
  MayBeMined = {0}
INVARIANTS
  NewWalletsActivated
