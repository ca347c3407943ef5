---------------------------- MODULE DependencyRun ----------------------------
(***************************************************************************)
(* What executing an operation tree promises (the documentation of         *)
(* WalletManager::operations: "every sub-operation is dependent on the     *)
(* completion of its parent operation"), with no queue, no batches and no  *)
(* task map: an operation may start once its parent has succeeded, runs    *)
(* once, and the run closes only when nothing runs and nothing may start.  *)
(***************************************************************************)
EXTENDS OpTree

CONSTANT Trees

VARIABLES
  tree,    \* the tree being executed
  state,   \* per node: "waiting", "running", "ok" or "failed"
  closed   \* whether the run is over

dependencyVars == <<tree, state, closed>>

MayStart(n) ==
  /\ state[n] = "waiting"
  /\ n = tree.root \/ state[ParentOf(tree, n)] = "ok"

Init ==
  /\ tree \in Trees
  /\ state = [n \in Nodes(tree) |-> "waiting"]
  /\ closed = FALSE

(* Any set of operations that may start does, together.                    *)
Start(S) ==
  /\ ~closed
  /\ \A n \in S : MayStart(n)
  /\ state' = [n \in Nodes(tree) |-> IF n \in S THEN "running" ELSE state[n]]
  /\ UNCHANGED <<tree, closed>>

Finish(n, r) ==
  /\ state[n] = "running"
  /\ state' = [state EXCEPT ![n] = r]
  /\ UNCHANGED <<tree, closed>>

Close ==
  /\ ~closed
  /\ \A n \in Nodes(tree) : state[n] # "running" /\ ~MayStart(n)
  /\ closed' = TRUE
  /\ UNCHANGED <<tree, state>>

Next ==
  \/ \E S \in SUBSET Nodes(tree) : Start(S)
  \/ \E n \in Nodes(tree), r \in {"ok", "failed"} : Finish(n, r)
  \/ Close

Spec == Init /\ [][Next]_dependencyVars
=============================================================================
