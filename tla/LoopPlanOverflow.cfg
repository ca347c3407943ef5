SPECIFICATION Spec
CONSTANTS
  MaxInt = 15
  Requests <- AllRequests
INVARIANTS
  Distributes
