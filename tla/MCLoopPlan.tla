----------------------------- MODULE MCLoopPlan -----------------------------
(* LoopPlan for every pair of values of the type.                           *)
EXTENDS LoopPlan

AllRequests == {<<n, l>> : n \in -1..MaxInt, l \in -1..MaxInt}
=============================================================================
