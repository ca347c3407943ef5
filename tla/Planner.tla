------------------------------ MODULE Planner ------------------------------
(***************************************************************************)
(* generate_balanced_split_loops (src/src/operations.rs) and what it calls *)
(* as the machine that builds the tree, creates the wallets, writes their  *)
(* backups and registers their signers.  calculate_addresses_per_loop is   *)
(* module LoopPlan; `shape` is its answer.                                 *)
(*                                                                         *)
(* A wallet is named by the node whose operation first sends to it and 0   *)
(* is the root's address, as in PlanTree; main uses the planner once, so   *)
(* the ids that NEXT_ID hands out start at 0.                              *)
(***************************************************************************)
EXTENDS PlanTree

CONSTANT Shapes     \* what calculate_addresses_per_loop may answer

VARIABLES
  shape,        \* addresses_per_loop; chosen once
  pc,
  loop,         \* position in shape
  children,     \* the tree built so far ...
  op,           \* ... and its operations
  lastOp,       \* last_op_node: the latest funding operation
  current,      \* current_address in the loop being generated
  chain,        \* operations of the loop being generated, not yet nodes
  signers,      \* signers of that loop, not yet registered
  backups,      \* wallets with a key file in the backup directory
  registered    \* wallets whose signer the root wallet holds

vars == <<shape, pc, loop, children, op, lastOp, current, chain, signers, backups, registered>>

treeVars == <<children, op, lastOp>>

NextId == Cardinality(DOMAIN op)

Extend(f, x, v) == [y \in DOMAIN f \cup {x} |-> IF y = x THEN v ELSE f[y]]

Transfer(a, b, all) == [from |-> a, to |-> b, sweep |-> all]

-----------------------------------------------------------------------------
(* Mutated forms: the loop hung on the root, the loop's signers forgotten,  *)
(* the loop closed to its own first wallet, and a key file not awaited.     *)
AttachToRoot == 0

ForgetSigners == {}

ReturnToStart == lastOp

KeepBackups(w) == backups

-----------------------------------------------------------------------------
Init ==
  /\ shape \in Shapes
  /\ pc = "fund"
  /\ loop = 1
  /\ children = [n \in {0} |-> <<>>]
  /\ op = [n \in {0} |-> Transfer(0, 0, TRUE)]     \* create_dummy_root
  /\ lastOp = 0
  /\ current = 0 /\ chain = <<>> /\ signers = {}
  /\ backups = {} /\ registered = {}

(* The key file of a new wallet.                                           *)
BackupsWith(w) == backups \cup {w}

(* Where the next loop is attached.                                        *)
LoopParent == lastOp

(* Where the last operation of a loop returns to.                          *)
ReturnAddress == 0

(* What attach_loop_to_parent hands back for registration.                 *)
LoopSigners == signers

(* The wallet that the next operation node will first send to.             *)
NewWallet == NextId + Len(chain)

(* A funding operation to a new wallet whose signer is registered at once; *)
(* it becomes the child of the previous funding operation.                 *)
Fund ==
  /\ pc = "fund"
  /\ loop <= Len(shape)
  /\ pc' = "loop"
  /\ backups' = BackupsWith(NextId)
  /\ registered' = registered \cup {NextId}
  /\ op' = Extend(op, NextId, Transfer(0, NextId, FALSE))
  /\ children' = [Extend(children, NextId, <<>>) EXCEPT ![lastOp] = Append(@, NextId)]
  /\ lastOp' = NextId
  /\ current' = NextId
  /\ chain' = <<>> /\ signers' = {}
  /\ UNCHANGED <<shape, loop>>

(* generate_operation_loop: one more transfer to a new wallet.  The node   *)
(* of the transfer is created later, with the id that follows.             *)
ExtendLoop ==
  /\ pc = "loop"
  /\ Len(chain) < shape[loop] - 1
  /\ backups' = BackupsWith(NewWallet)
  /\ chain' = Append(chain, Transfer(current, NewWallet, TRUE))
  /\ current' = NewWallet
  /\ signers' = signers \cup {NewWallet}
  /\ UNCHANGED <<shape, pc, loop, treeVars, registered>>

(* The last transfer of the loop, back to the root's address; the nodes of *)
(* the whole chain, each the child of the one before; the chain's first    *)
(* node attached; the signers registered.                                  *)
CloseLoop ==
  /\ pc = "loop"
  /\ Len(chain) = shape[loop] - 1
  /\ LET ops == Append(chain, Transfer(current, ReturnAddress, TRUE))
         ids == NextId..(NextId + Len(ops) - 1)
         last == NextId + Len(ops) - 1 IN
       /\ op' = [n \in DOMAIN op \cup ids |-> IF n \in ids THEN ops[n - NextId + 1] ELSE op[n]]
       /\ children' = [n \in DOMAIN op \cup ids |->
                         IF n \in ids THEN IF n = last THEN <<>> ELSE <<n + 1>>
                         ELSE IF n = LoopParent THEN Append(children[n], NextId)
                         ELSE children[n]]
  /\ registered' = registered \cup LoopSigners
  /\ loop' = loop + 1
  /\ pc' = "fund"
  /\ chain' = <<>> /\ signers' = {}
  /\ UNCHANGED <<shape, lastOp, current, backups>>

(* A key file cannot be written (the directory is missing, say): the ?     *)
(* leaves the planner and main, with the earlier key files in place.       *)
BackupFails ==
  /\ \/ pc = "fund" /\ loop <= Len(shape)
     \/ pc = "loop" /\ Len(chain) < shape[loop] - 1
  /\ pc' = "failed"
  /\ UNCHANGED <<shape, loop, treeVars, current, chain, signers, backups, registered>>

Finish ==
  /\ pc = "fund"
  /\ loop > Len(shape)
  /\ pc' = "done"
  /\ UNCHANGED <<shape, loop, treeVars, current, chain, signers, backups, registered>>

Done == pc \in {"done", "failed"} /\ UNCHANGED vars

Next == Fund \/ ExtendLoop \/ CloseLoop \/ BackupFails \/ Finish \/ Done

Spec == Init /\ [][Next]_vars

-----------------------------------------------------------------------------
Plan == [root |-> 0, children |-> children, op |-> op]

(* The addresses the plan names so far, the loop in hand included.          *)
Named == Addresses(Plan) \cup {chain[k].to : k \in DOMAIN chain}

(* A wallet's key is on disk before its address is in any operation, also   *)
(* when the planner fails half-way: no funds can go where no key remains.   *)
KeysBackedUp == Named \cup registered \subseteq backups \cup {0}

(* The provider can sign for every sender of the finished plan.             *)
SendersSigned ==
  pc = "done" => {From(Plan, n) : n \in Nodes(Plan)} \subseteq registered \cup {0}

(* One new wallet per address asked for, each funded by exactly one         *)
(* operation and swept by exactly one, and money that leaves the root comes *)
(* back: every leaf returns to it.                                          *)
WalletsUsedOnce ==
  /\ Cardinality(backups) = FoldFunction(+, 0, shape)
  /\ \A w \in backups :
       /\ Cardinality({n \in Nodes(Plan) : To(Plan, n) = w}) = 1
       /\ Cardinality({n \in Nodes(Plan) : From(Plan, n) = w}) = 1
  /\ \A n \in Nodes(Plan) : children[n] = <<>> => To(Plan, n) = 0

(* The finished plan is BalancedTree of the allocation.                     *)
PlanIsBalanced ==
  pc = "done" => Plan = BalancedTree(shape) /\ WalletsUsedOnce

(* Between loops as at the end, the plan built so far is a tree and keeps   *)
(* the promises that the executor's runs rest on, however many of its       *)
(* operations run at once: what may disturb each other is ordered, nothing  *)
(* is sent from where nothing came, and every wallet is used.               *)
PlanIsSafe == pc \in {"fund", "done"} => IsTree(Plan) /\ SafePlan(Plan)
=============================================================================
