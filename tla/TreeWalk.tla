------------------------------ MODULE TreeWalk ------------------------------
(***************************************************************************)
(* The iterative walks over the operation tree: TreeNode::flatten and      *)
(* find_node_by_id (src/src/tree.rs), count_total_operations               *)
(* (wallet/execution.rs), collect_orphaned_nodes (wallet/transaction.rs)   *)
(* and pretty_print_tree (utils.rs).                                       *)
(*                                                                         *)
(* Each is a loop that pops a stack until it is empty.  A walk is a record *)
(* of the stack and what was collected, a step one turn of the loop, and   *)
(* the loop as many turns as it needs: WalksCorrect says how many that is. *)
(***************************************************************************)
EXTENDS OpTree, SequencesExt

Pop(stack) == stack[Len(stack)]

Below(stack) == SubSeq(stack, 1, Len(stack) - 1)

(* What a loop has come to after each number of turns; one that finds the  *)
(* stack empty is none.                                                     *)
Loop(Step(_), start) ==
  LET walk[turns \in Nat] ==
        IF turns = 0 THEN start
        ELSE LET w == walk[turns - 1] IN IF w.stack = <<>> THEN w ELSE Step(w)
  IN  walk

-----------------------------------------------------------------------------
(* Mutated form: a node collects itself instead of its children.            *)
CollectPopped(t, w) ==
  LET node == Pop(w.stack) IN
  [stack |-> Below(w.stack) \o t.children[node], out |-> Append(w.out, node)]

-----------------------------------------------------------------------------
CountStep(t, w) ==
  [stack |-> Below(w.stack) \o t.children[Pop(w.stack)], out |-> w.out + 1]

(* Every child of the popped node is collected and pushed.                  *)
CollectStep(t, w) ==
  LET kids == t.children[Pop(w.stack)] IN
  [stack |-> Below(w.stack) \o kids, out |-> w.out \o kids]

(* A node is pushed back below its children; it is collected when it comes  *)
(* up again.                                                                *)
FlattenStep(t, w) ==
  LET node == Pop(w.stack).node IN
  IF Pop(w.stack).processed
  THEN [stack |-> Below(w.stack), out |-> Append(w.out, node)]
  ELSE [stack |-> Below(w.stack) \o <<[node |-> node, processed |-> TRUE]>> \o
                    [i \in DOMAIN t.children[node] |->
                       [node |-> Reverse(t.children[node])[i], processed |-> FALSE]],
        out |-> w.out]

(* The search stops at the node it looks for: nothing is left to pop.       *)
FindStep(t, id, w) ==
  IF Pop(w.stack) = id THEN [stack |-> <<>>, out |-> {id}]
  ELSE [stack |-> Below(w.stack) \o Reverse(t.children[Pop(w.stack)]), out |-> {}]

(* A line for every node, indented by its depth.                            *)
PrintStep(t, w) ==
  LET top == Pop(w.stack) IN
  [stack |-> Below(w.stack) \o
               [i \in DOMAIN t.children[top.node] |->
                  [node |-> Reverse(t.children[top.node])[i], depth |-> top.depth + 1]],
   out |-> Append(w.out, top)]

CountWalk(t, turns) ==
  Loop(LAMBDA w : CountStep(t, w), [stack |-> <<t.root>>, out |-> 0])[turns]

CollectWalk(t, n, turns) ==
  Loop(LAMBDA w : CollectStep(t, w), [stack |-> <<n>>, out |-> <<>>])[turns]

FlattenWalk(t, turns) ==
  Loop(LAMBDA w : FlattenStep(t, w),
       [stack |-> <<[node |-> t.root, processed |-> FALSE]>>, out |-> <<>>])[turns]

FindWalk(t, id, turns) ==
  IF id = t.root THEN [stack |-> <<>>, out |-> {id}]
  ELSE Loop(LAMBDA w : FindStep(t, id, w), [stack |-> <<t.root>>, out |-> {}])[turns]

PrintWalk(t, turns) ==
  Loop(LAMBDA w : PrintStep(t, w),
       [stack |-> <<[node |-> t.root, depth |-> 0]>>, out |-> <<>>])[turns]

-----------------------------------------------------------------------------
IsPermutationOf(s, S) == Len(s) = Cardinality(S) /\ ToSet(s) = S

Before(s, m, n) == \E i, j \in DOMAIN s : i < j /\ s[i] = m /\ s[j] = n

(* On tree t every loop ends, with one turn per node it has to visit (two   *)
(* for flatten), and returns what the relation `children` says: the number  *)
(* of nodes; each proper descendant once; a node exactly when the tree has  *)
(* it; every node once, siblings in their order; every node before its      *)
(* descendants at its level.  Above is that relation too.                   *)
WalksCorrect(t) ==
  LET size == Cardinality(Nodes(t))
      count == CountWalk(t, size)
      flat == FlattenWalk(t, 2 * size)
      lines == PrintWalk(t, size)
      printed == [i \in DOMAIN lines.out |-> lines.out[i].node]
  IN  /\ count.stack = <<>> /\ count.out = size
      /\ \A n \in Nodes(t) :
           LET orphans == CollectWalk(t, n, Cardinality(Descendants(t, n)) + 1) IN
           orphans.stack = <<>> /\ IsPermutationOf(orphans.out, Descendants(t, n))
      /\ \A id \in Nodes(t) \cup {size} :
           LET found == FindWalk(t, id, size) IN
           found.stack = <<>> /\ found.out = Nodes(t) \cap {id}
      /\ \A m, n \in Nodes(t) : Above(t, m, n) <=> n \in Descendants(t, m)
      /\ flat.stack = <<>> /\ IsPermutationOf(flat.out, Nodes(t))
      /\ lines.stack = <<>> /\ IsPermutationOf(printed, Nodes(t))
      /\ \A i \in DOMAIN lines.out : lines.out[i].depth = Level(t, lines.out[i].node)
      /\ \A n \in Nodes(t) :
           /\ \A d \in Descendants(t, n) : Before(printed, n, d)
           /\ \A i, j \in DOMAIN t.children[n] : i < j =>
                /\ Before(flat.out, t.children[n][i], t.children[n][j])
                /\ Before(printed, t.children[n][i], t.children[n][j])

(* What tree.rs says of flatten: "Flattens the tree into a vector where      *)
(* parent operations precede their children.  This ensures that operations   *)
(* are executed in the correct dependency order."                            *)
FlattensInDependencyOrder(t) ==
  LET flat == FlattenWalk(t, 2 * Cardinality(Nodes(t)))
  IN  \A n \in Nodes(t) : \A d \in Descendants(t, n) : Before(flat.out, n, d)
=============================================================================
