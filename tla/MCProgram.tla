------------------------------ MODULE MCProgram ------------------------------
(* Program on every tree the planner makes for at most MaxTotal addresses   *)
(* in at most MaxLoops loops, and on the lone root of an empty plan; with a *)
(* root wallet that can pay for two funding operations, or for three at the *)
(* highest price: one paid twice leaves too little for a third.             *)
EXTENDS Program

CONSTANTS MaxTotal, MaxLoops

PlannedTrees ==
  {BalancedTree(AddressesPerLoop(n, l)) : n \in 1..MaxTotal, l \in 0..MaxLoops}

SomeRootBalances == {2 * (Amount + 1), 3 * (Amount + 2)}
=============================================================================
