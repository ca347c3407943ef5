SPECIFICATION FairSpec
CONSTANTS
  MaxInt = 22
  Requests <- AllRequests
INVARIANTS
  TypeOK
  NeverOverAssigns
  SearchBrackets
  MinimizesTime
  MatchesPlan
PROPERTIES
  Terminates
