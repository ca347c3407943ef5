------------------------------- MODULE OpTree -------------------------------
(***************************************************************************)
(* The operation tree: TreeNode<Operation> (src/src/tree.rs, types.rs).    *)
(*                                                                         *)
(* A tree is a record                                                      *)
(*   root     : the id of the root node                                    *)
(*   children : for each node id, the sequence of its children's ids       *)
(*   op       : for each node id, its Operation [from, to, sweep]; sweep   *)
(*              is TRUE when the code's `amount` is None ("send all         *)
(*              available funds minus a gas buffer").                      *)
(*                                                                         *)
(* The code nests the children by value; ids come from the atomic counter  *)
(* NEXT_ID, so an id names a node and the nesting is the relation          *)
(* `children`.                                                             *)
(***************************************************************************)
EXTENDS Naturals, Sequences, FiniteSets, Functions

Nodes(t) == DOMAIN t.children

Kids(t, n) == Range(t.children[n])

From(t, n) == t.op[n].from

To(t, n) == t.op[n].to

Addresses(t) == {From(t, n) : n \in Nodes(t)} \cup {To(t, n) : n \in Nodes(t)}

(* The node that holds n among its children; n is not the root.            *)
ParentOf(t, n) == CHOOSE p \in Nodes(t) : n \in Kids(t, p)

(***************************************************************************)
(* What makes a record a tree, as nesting by value does: every node but     *)
(* the root is the child of exactly one node, the root of none, and no set *)
(* of nodes is closed under its own parents.                               *)
(***************************************************************************)
IsTree(t) ==
  /\ t.root \in Nodes(t)
  /\ DOMAIN t.op = Nodes(t)
  /\ \A n \in Nodes(t) :
       /\ t.children[n] \in Seq(Nodes(t))
       /\ t.root \notin Kids(t, n)
       /\ \A i, j \in DOMAIN t.children[n] :
            i # j => t.children[n][i] # t.children[n][j]
  /\ \A m, n \in Nodes(t) : m # n => Kids(t, m) \cap Kids(t, n) = {}
  /\ \A n \in Nodes(t) \ {t.root} : \E p \in Nodes(t) : n \in Kids(t, p)
  /\ \A S \in (SUBSET (Nodes(t) \ {t.root})) \ {{}} :
       \E n \in S : ParentOf(t, n) \notin S

(***************************************************************************)
(* The proper ancestors of every node, and from them the level of a node   *)
(* and the nodes that a failure of n orphans (its proper descendants).     *)
(***************************************************************************)
Ancestors(t) ==
  LET anc[n \in Nodes(t)] ==
        IF n = t.root THEN {}
        ELSE LET p == ParentOf(t, n) IN anc[p] \cup {p}
  IN  anc

Level(t, n) == Cardinality(Ancestors(t)[n])

Descendants(t, n) == {d \in Nodes(t) : n \in Ancestors(t)[d]}

(***************************************************************************)
(* The same without recursion: a is above n when every set of nodes that    *)
(* holds n and, with each node, its parent, holds a; beneath a node is what *)
(* it is above of.  Proofs use this form.                                   *)
(***************************************************************************)
ParentClosed(t) ==
  {S \in SUBSET Nodes(t) : \A k \in S \ {t.root} : ParentOf(t, k) \in S}

Above(t, a, n) == a # n /\ \A S \in ParentClosed(t) : n \in S => a \in S

Beneath(t, n) == {d \in Nodes(t) : Above(t, n, d)}
=============================================================================
