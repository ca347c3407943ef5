------------------------------ MODULE MCPlanner ------------------------------
(* Planner for every allocation of at most MaxTotal addresses to at most    *)
(* MaxLoops loops that LoopPlan computes.                                   *)
EXTENDS Planner

CONSTANTS MaxTotal, MaxLoops

ComputedShapes == {AddressesPerLoop(n, l) : n \in 0..MaxTotal, l \in 0..MaxLoops}
=============================================================================
