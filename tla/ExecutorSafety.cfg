SPECIFICATION FairSpec
CONSTANTS
  MaxNode = 3
  Trees <- SmallTrees
  MayBeMined = {0}
INVARIANTS
  TypeOK
  ParentFirst
  NeverCycle
  Bookkeeping
  CountsAgree
  Accounting
  WalksAgree
PROPERTIES
  RunsOnce
  Termination
  ImplementsDependency
