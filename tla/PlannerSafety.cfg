SPECIFICATION Spec
CONSTANTS
  MaxTotal = 9
  MaxLoops = 4
  Shapes <- ComputedShapes
INVARIANTS
  KeysBackedUp
  SendersSigned
  PlanIsBalanced
  PlanIsSafe
