----------------------------- MODULE MCExecutor -----------------------------
(***************************************************************************)
(* Executor on every tree shape of at most MaxNode + 1 nodes, as the       *)
(* library's API allows (WalletManager::operations is a public field).     *)
(***************************************************************************)
EXTENDS Executor

CONSTANT MaxNode   \* the nodes are 0 .. MaxNode

(* Every tree on 0 .. m whose parents have the smaller id.                 *)
Shapes(m) == {p \in [1..m -> 0..(m - 1)] : \A n \in 1..m : p[n] < n}

ChildrenOf(p, m) ==
  [n \in 0..m |-> SetToSortSeq({c \in 1..m : p[c] = n}, <)]

(* Senders: one address each, or one address for all; the root operation   *)
(* is the planner's dummy self-transfer, or a transfer like the others.    *)
SmallTree(p, m, shared, dummy) ==
  [root |-> 0,
   children |-> ChildrenOf(p, m),
   op |-> [n \in 0..m |->
             LET sender == IF shared THEN 0 ELSE n IN
             [from |-> sender,
              to |-> IF n = 0 /\ dummy THEN sender ELSE m + 1,
              sweep |-> FALSE]]]

SmallTrees ==
  UNION {{SmallTree(p, m, shared, dummy) :
            p \in Shapes(m), shared \in BOOLEAN, dummy \in BOOLEAN} : m \in 0..MaxNode}
=============================================================================
