------------------------------ MODULE MCPlanned ------------------------------
(* PlannedExecution for every tree the program generates for at most        *)
(* MaxTotal addresses in at most MaxLoops loops.                            *)
EXTENDS PlannedExecution

CONSTANTS MaxTotal, MaxLoops

PlannedTrees ==
  {BalancedTree(AddressesPerLoop(n, l)) : n \in 1..MaxTotal, l \in 1..MaxLoops}
=============================================================================
