-------------------------- MODULE PlannedExecution --------------------------
(***************************************************************************)
(* The executor on the trees the program itself generates: what main runs. *)
(* The properties here need the shape of those trees and the executor's    *)
(* batching together; neither gives them alone.                            *)
(***************************************************************************)
EXTENDS Executor, PlanTree

RootAddress == From(tree, tree.root)

Wallets == Addresses(tree) \ {RootAddress}

(* Two operations from one sender never run together: the provider fills    *)
(* in the nonce from the chain when it sends, so two of them would race for *)
(* the same nonce.                                                          *)
NoSharedSender ==
  \A m, n \in Nodes(tree) :
    m # n /\ InFlight(m) /\ InFlight(n) => From(tree, m) # From(tree, n)

(* A sweep sends the balance it read a moment before.  While it runs no     *)
(* other running operation moves that balance, in or out.                   *)
SweepIsolated ==
  \A m, n \in Nodes(tree) :
    m # n /\ InFlight(m) /\ InFlight(n) /\ tree.op[n].sweep /\ From(tree, n) # To(tree, n)
      => From(tree, n) \notin {From(tree, m), To(tree, m)}

(* A generated wallet is never used as a sender before a transfer to it     *)
(* has succeeded.                                                           *)
FundedBeforeUse ==
  \A n \in Nodes(tree) :
    Started(n) /\ From(tree, n) # RootAddress =>
      \E m \in Nodes(tree) : To(tree, m) = From(tree, n) /\ status[m] = "ok"

(* A run without errors has executed every operation and counted every      *)
(* generated wallet as new, and every wallet of the plan has sent a         *)
(* transaction: the addresses are active.                                   *)
GoalReached ==
  outcome = "ok" /\ errors = {} =>
    /\ progress.successful = progress.total
    /\ Wallets \subseteq newWallets
    /\ Wallets \subseteq mined

(* types.rs, new_wallets_count: "Number of new wallets that were activated  *)
(* during execution".  A generated wallet in the count has sent a           *)
(* transaction, or has left one that may still be mined.                    *)
NewWalletsActivated ==
  outcome = "ok" => newWallets \ {RootAddress} \subseteq mined \cup mempool
=============================================================================
