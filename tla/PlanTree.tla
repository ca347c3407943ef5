------------------------------ MODULE PlanTree ------------------------------
(***************************************************************************)
(* The operation trees the program generates (src/src/operations.rs), as   *)
(* data: BalancedTree(shape) is the value generate_balanced_split_loops    *)
(* returns when calculate_addresses_per_loop answered `shape`, and         *)
(* AddressesPerLoop is what that function answers when nothing overflows.  *)
(* The machines that compute them are LoopPlan and Planner.                *)
(*                                                                         *)
(* Node ids count in the order of creation from the root's 0, and a new    *)
(* wallet is named by the node whose operation first sends to it; 0 is     *)
(* the address of the root wallet.                                         *)
(***************************************************************************)
EXTENDS OpTree, Integers

Smaller(a, b) == IF a <= b THEN a ELSE b

(* Tasks that can finish by time t when loop i starts i steps late.        *)
Capacity(t, loops) ==
  LET used == Smaller(loops, t) IN
  (used * (2 * t - used + 1)) \div 2

(* The least time by which `total` tasks can finish.                       *)
MinTime(total, loops) ==
  CHOOSE t \in 0..total :
    /\ Capacity(t, loops) >= total
    /\ \A s \in 0..(t - 1) : Capacity(s, loops) < total

(* Loop i (from 1) takes what it can finish by then of what is left.       *)
AddressesPerLoop(total, loops) ==
  IF total <= 0 \/ loops <= 0 THEN <<>>
  ELSE LET t == MinTime(total, loops)
           count == CHOOSE c \in 1..Smaller(loops, t) :
                      /\ Capacity(t, c) >= total
                      /\ \A d \in 1..(c - 1) : Capacity(t, d) < total
       IN  [i \in 1..count |->
              Smaller(t - i + 1, total - Capacity(t, i - 1))]

-----------------------------------------------------------------------------
(* The id of the funding operation of loop j: after the root, the earlier   *)
(* funding operations and the earlier loops.                                *)
FundingId(shape) ==
  LET id[j \in 1..(Len(shape) + 1)] ==
        IF j = 1 THEN 1 ELSE id[j - 1] + 1 + shape[j - 1]
  IN  id

LoopStarts(shape) == {FundingId(shape)[j] : j \in DOMAIN shape}

LoopEnds(shape) == {FundingId(shape)[j] + shape[j] : j \in DOMAIN shape}

(* Mutated forms of ChainChildren: every wallet funded from the root at     *)
(* once; a loop attached to the operation its funding was attached to.      *)
ParallelChildren(shape, n) ==
  IF n = 0 THEN [j \in DOMAIN shape |-> FundingId(shape)[j]]
  ELSE IF n \in LoopEnds(shape) THEN <<>> ELSE <<n + 1>>

SiblingChildren(shape, n) ==
  LET id == FundingId(shape) IN
  IF n = 0 THEN IF shape = <<>> THEN <<>> ELSE <<2, 1>>
  ELSE IF n \in LoopStarts(shape)
       THEN LET j == CHOOSE k \in DOMAIN shape : id[k] = n IN
            IF j < Len(shape) THEN <<id[j + 1] + 1, id[j + 1]>> ELSE <<>>
  ELSE IF n \in LoopEnds(shape) THEN <<>> ELSE <<n + 1>>

(* A funding operation has the first operation of its loop as its first     *)
(* child and the next funding operation as its second; every other          *)
(* operation of a loop has its successor.                                   *)
ChainChildren(shape, n) ==
  LET id == FundingId(shape) IN
  IF n = 0 THEN IF shape = <<>> THEN <<>> ELSE <<1>>
  ELSE IF n \in LoopStarts(shape)
       THEN LET j == CHOOSE k \in DOMAIN shape : id[k] = n IN
            IF j < Len(shape) THEN <<n + 1, id[j + 1]>> ELSE <<n + 1>>
  ELSE IF n \in LoopEnds(shape) THEN <<>> ELSE <<n + 1>>

(* Funding and loop operations send to a new wallet, the last operation of  *)
(* a loop back to the root's; an operation sends from where the one before  *)
(* it sent to, funding operations from the root's.                          *)
Target(shape, n) ==
  IF n = 0 \/ n \in LoopEnds(shape) THEN 0 ELSE n

Sender(shape, n) ==
  IF n = 0 \/ n \in LoopStarts(shape) THEN 0 ELSE n - 1

BalancedTree(shape) ==
  LET ids == 0..(FundingId(shape)[Len(shape) + 1] - 1) IN
  [root |-> 0,
   children |-> [n \in ids |-> ChainChildren(shape, n)],
   op |-> [n \in ids |-> [from |-> Sender(shape, n),
                          to |-> Target(shape, n),
                          sweep |-> n \notin LoopStarts(shape)]]]
-----------------------------------------------------------------------------
(* What a plan promises to the executor that runs it.  No two operations    *)
(* that could disturb each other are unordered: of two with one sender, and *)
(* of a sweep and an operation that moves the balance it sweeps, one is     *)
(* above the other ...                                                      *)
Conflict(t, m, n) ==
  \/ From(t, m) = From(t, n)
  \/ /\ t.op[n].sweep /\ From(t, n) # To(t, n)
     /\ From(t, n) \in {From(t, m), To(t, m)}

ConflictsOrdered(t) ==
  LET closed == ParentClosed(t) IN
  \A m, n \in Nodes(t) :
    m # n /\ Conflict(t, m, n) =>
      \/ \A S \in closed : n \in S => m \in S
      \/ \A S \in closed : m \in S => n \in S

(* ... an operation sends from the root wallet, or from where its parent    *)
(* has sent to ...                                                          *)
SendsWhatItGot(t) ==
  \A n \in Nodes(t) :
    From(t, n) # From(t, t.root) => From(t, n) = To(t, ParentOf(t, n))

(* ... every wallet sends something on ...                                  *)
EveryWalletSends(t) ==
  \A w \in Addresses(t) \ {From(t, t.root)} :
    \E n \in Nodes(t) : From(t, n) = w /\ To(t, n) # w

(* ... and gets money once, which whatever it sends empties: a wallet       *)
(* filled again after its sweep, or not swept, would keep the money.        *)
FilledOnceAndEmptied(t) ==
  /\ \A m, n \in Nodes(t) : m # n /\ To(t, m) = To(t, n) => To(t, m) = From(t, t.root)
  /\ \A n \in Nodes(t) : From(t, n) # From(t, t.root) => t.op[n].sweep

SafePlan(t) ==
  ConflictsOrdered(t) /\ SendsWhatItGot(t) /\ EveryWalletSends(t) /\ FilledOnceAndEmptied(t)
=============================================================================
