------------------------------ MODULE Executor ------------------------------
(***************************************************************************)
(* ExecutionManager::parallel_execute_operations and the task queue under  *)
(* it (src/src/wallet/execution.rs).                                       *)
(*                                                                         *)
(* One task runs the loop below; inside a batch, futures::join_all polls   *)
(* one future per ready task, and the futures interleave at every RPC      *)
(* await.  A second task, the progress reporter, is spawned before the     *)
(* loop and aborted after it.                                              *)
(*                                                                         *)
(* The tasks in `queue`, `pending` and `batch` are named by their node:    *)
(* parent_id is copied from the node that queued them, ParentOf(tree, n),  *)
(* and is_executed is false until the task moves into task_map.  The two   *)
(* VecDeques and the result vector are sets: the order inside a batch      *)
(* decides only the order of log lines and of the errors vector, so        *)
(* Collect takes the results of a batch in any order.                      *)
(*                                                                         *)
(* The chain is external: `mined` holds the addresses whose transaction    *)
(* count is not zero, `mempool` those with a transaction that was          *)
(* broadcast by an operation that gave up on it and may still be mined.    *)
(* What happens inside build_and_send_operation is module TxRetry; here    *)
(* it answers Ok or Err.                                                   *)
(***************************************************************************)
EXTENDS TreeWalk, Integers

CONSTANTS
  Trees,       \* the operation trees a run may be given
  MayBeMined   \* the addresses that may have sent transactions before the run

ASSUME TreesAssumption == \A t \in Trees : IsTree(t) /\ IsFiniteSet(Nodes(t))

VARIABLES
  tree,        \* root_node; chosen once, never written
  pc,          \* where parallel_execute_operations is
  queue,       \* queue: nodes of the tasks to sort
  pending,     \* pending_tasks: nodes of the tasks for the next round
  batch,       \* ready_tasks whose result has not been processed
  status,      \* per node, how far its operation's future has come
  taskMap,     \* keys of task_map, all of them with is_executed set
  taskNew,     \* nodes whose future put its sender in task_new_wallets
  newWallets,  \* new_wallets: the senders seen with transaction count 0
  errors,      \* the node ids in the errors vector
  progress,    \* ProgressStats: total, completed, successful
  reporter,    \* the spawned progress task
  outcome,     \* what the call returns
  mined,       \* external: addresses with a mined transaction
  mempool      \* external: abandoned transactions that may still be mined

queueVars == <<queue, pending, batch, taskMap>>
resultVars == <<newWallets, errors, progress>>
chainVars == <<mined, mempool>>
vars == <<tree, pc, queueVars, status, taskNew, resultVars, reporter, outcome,
          chainVars>>

-----------------------------------------------------------------------------
(* Mutated forms of the definitions below, each the way a plausible bug     *)
(* would change it; the runs replace a definition by one of them.           *)

CountNoRoot(t) == Cardinality(Nodes(t)) - 1

OwnExecuted(n) == n = tree.root \/ n \in taskMap

ChildrenAlways(n, r) == Kids(tree, n)

ChildrenNever(n, r) == {}

ChildrenOrRetry(n, r) == IF r = "ok" THEN Kids(tree, n) ELSE {n}

NewWalletsReplaced(n) == IF n \in taskNew THEN {From(tree, n)} ELSE newWallets

SpinUntilAllRan ==
  /\ pc = "loop"
  /\ queue = {}
  /\ \/ taskMap # Nodes(tree) /\ UNCHANGED vars
     \/ /\ taskMap = Nodes(tree)
        /\ pc' = "final"
        /\ reporter' = "aborted"
        /\ UNCHANGED <<tree, queueVars, status, taskNew, resultVars, outcome, chainVars>>

AnyReplied == \E n \in batch : status[n] \in {"ok", "failed"}

-----------------------------------------------------------------------------
(* count_total_operations: one per node of the tree.                       *)
CountOperations(t) == Cardinality(Nodes(t))

(* A task is ready when it has no parent or its parent is in task_map.     *)
ParentExecuted(n) == n = tree.root \/ ParentOf(tree, n) \in taskMap

(* What a processed result with outcome r queues for the next round.       *)
Successors(n, r) == IF r = "ok" THEN Kids(tree, n) ELSE {}

(* What new_wallets is once the result of n has been merged into it.       *)
NewWalletsWith(n) ==
  IF n \in taskNew THEN newWallets \cup {From(tree, n)} ELSE newWallets

InFlight(n) == status[n] \in {"counting", "sending"}

(* join_all is done when every future is.                                  *)
AllReplied == \A n \in batch : ~InFlight(n)

-----------------------------------------------------------------------------
Init ==
  /\ tree \in Trees
  /\ pc = "begin"
  /\ queue = {} /\ pending = {} /\ batch = {} /\ taskMap = {}
  /\ status = [n \in Nodes(tree) |-> "idle"]
  /\ taskNew = {} /\ newWallets = {} /\ errors = {}
  /\ progress = [total |-> 0, completed |-> 0, successful |-> 0]
  /\ reporter = "none"
  /\ outcome = "none"
  /\ mined \in SUBSET MayBeMined
  /\ mempool = {}

(* Count the operations and replace the shared statistics.                 *)
Begin ==
  /\ pc = "begin"
  /\ pc' = "balance"
  /\ progress' = [total |-> CountOperations(tree), completed |-> 0, successful |-> 0]
  /\ UNCHANGED <<tree, queueVars, status, taskNew, newWallets, errors, reporter,
                 outcome, chainVars>>

(* The initial balance arrives: spawn the reporter, queue the root.        *)
InitialBalance ==
  /\ pc = "balance"
  /\ pc' = "loop"
  /\ reporter' = "running"
  /\ queue' = {tree.root}
  /\ UNCHANGED <<tree, pending, batch, taskMap, status, taskNew, resultVars, outcome,
                 chainVars>>

(* It does not: the ? returns before anything is spawned or sent.          *)
InitialBalanceFails ==
  /\ pc = "balance"
  /\ pc' = "returned"
  /\ outcome' = "providerError"
  /\ UNCHANGED <<tree, queueVars, status, taskNew, resultVars, reporter, chainVars>>

(* One pass of the while loop up to join_all: sort the whole queue into    *)
(* ready and pending, and start a future for every ready task; with tasks  *)
(* but none ready, give up on a dependency cycle.                          *)
Dispatch ==
  /\ pc = "loop"
  /\ queue # {}
  /\ LET ready == {n \in queue : ParentExecuted(n)} IN
       /\ queue' = {}
       /\ pending' = queue \ ready
       /\ batch' = ready
       /\ status' = [n \in Nodes(tree) |-> IF n \in ready THEN "counting" ELSE status[n]]
       /\ pc' = IF ready = {} THEN "returned" ELSE "running"
       /\ outcome' = IF ready = {} THEN "cycleError" ELSE outcome
  /\ UNCHANGED <<tree, taskMap, taskNew, resultVars, reporter, chainVars>>

-----------------------------------------------------------------------------
(* process_single_operation: the transaction count of the sender arrives.  *)
(* A count of zero records the sender before anything is sent; a transfer  *)
(* to the sender itself succeeds without a transaction.                    *)
CountReply(n) ==
  /\ status[n] = "counting"
  /\ taskNew' = IF From(tree, n) \in mined THEN taskNew ELSE taskNew \cup {n}
  /\ status' = [status EXCEPT ![n] =
                  IF From(tree, n) = To(tree, n) THEN "ok" ELSE "sending"]
  /\ UNCHANGED <<tree, pc, queueVars, resultVars, reporter, outcome, chainVars>>

(* The count does not arrive: the operation fails and nothing is sent.     *)
CountFails(n) ==
  /\ status[n] = "counting"
  /\ status' = [status EXCEPT ![n] = "failed"]
  /\ UNCHANGED <<tree, pc, queueVars, taskNew, resultVars, reporter, outcome, chainVars>>

(* build_and_send_operation returns Ok: a receipt exists.                  *)
SendOk(n) ==
  /\ status[n] = "sending"
  /\ status' = [status EXCEPT ![n] = "ok"]
  /\ mined' = mined \cup {From(tree, n)}
  /\ UNCHANGED <<tree, pc, queueVars, taskNew, resultVars, reporter, outcome, mempool>>

(* It returns Err: no attempt left anything behind, or one left a          *)
(* transaction that the chain may still include.                           *)
SendFails(n) ==
  /\ status[n] = "sending"
  /\ status' = [status EXCEPT ![n] = "failed"]
  /\ mempool' \in {mempool, mempool \cup {From(tree, n)}}
  /\ UNCHANGED <<tree, pc, queueVars, taskNew, resultVars, reporter, outcome, mined>>

(* External: the chain mines a transaction nobody waits for any more.      *)
LateLanding(a) ==
  /\ a \in mempool
  /\ mempool' = mempool \ {a}
  /\ mined' = mined \cup {a}
  /\ UNCHANGED <<tree, pc, queueVars, status, taskNew, resultVars, reporter, outcome>>

-----------------------------------------------------------------------------
(* join_all returns once every future of the batch has.                    *)
JoinAll ==
  /\ pc = "running"
  /\ AllReplied
  /\ pc' = "collect"
  /\ UNCHANGED <<tree, queueVars, status, taskNew, resultVars, reporter, outcome,
                 chainVars>>

(* Process one result of the batch; after the last, pending_tasks becomes  *)
(* the queue of the next round.                                            *)
Collect(n) ==
  /\ pc = "collect"
  /\ n \in batch
  /\ progress' = [progress EXCEPT
                    !.completed = @ + 1,
                    !.successful = IF status[n] = "ok" THEN @ + 1 ELSE @]
  /\ newWallets' = NewWalletsWith(n)
  /\ errors' = IF status[n] = "failed" THEN errors \cup {n} ELSE errors
  /\ taskMap' = taskMap \cup {n}
  /\ batch' = batch \ {n}
  /\ LET rest == pending \cup Successors(n, status[n]) IN
       \/ /\ batch' # {}
          /\ pending' = rest
          /\ UNCHANGED <<pc, queue>>
       \/ /\ batch' = {}
          /\ queue' = rest
          /\ pending' = {}
          /\ pc' = "loop"
  /\ UNCHANGED <<tree, status, taskNew, reporter, outcome, chainVars>>

(* The queue is empty: leave the loop and abort the reporter.              *)
FinishQueue ==
  /\ pc = "loop"
  /\ queue = {}
  /\ pc' = "final"
  /\ reporter' = "aborted"
  /\ UNCHANGED <<tree, queueVars, status, taskNew, resultVars, outcome, chainVars>>

(* The final balance: its failure discards every result of the run.        *)
FinalBalance ==
  /\ pc = "final"
  /\ pc' = "returned"
  /\ outcome' \in {"ok", "providerError"}
  /\ UNCHANGED <<tree, queueVars, status, taskNew, resultVars, reporter, chainVars>>

(* The call has returned; the run is over.                                 *)
Done == pc = "returned" /\ UNCHANGED vars

-----------------------------------------------------------------------------
Step ==
  \/ Begin \/ InitialBalance \/ InitialBalanceFails
  \/ Dispatch \/ JoinAll \/ FinishQueue \/ FinalBalance
  \/ \E n \in Nodes(tree) : Collect(n)

Reply(n) == CountReply(n) \/ CountFails(n) \/ SendOk(n) \/ SendFails(n)

Next ==
  \/ Step
  \/ \E n \in Nodes(tree) : Reply(n)
  \/ \E a \in mempool : LateLanding(a)
  \/ Done

Spec == Init /\ [][Next]_vars
-----------------------------------------------------------------------------
(* Weak fairness of every step of the executor, and of every RPC answer:   *)
(* alloy's futures are polled until they resolve, and the model assumes    *)
(* that the node answers each call.  The chain owes nobody a late landing. *)
Fairness ==
  /\ WF_vars(Step)
  /\ \A n \in UNION {Nodes(t) : t \in Trees} : WF_vars(n \in Nodes(tree) /\ Reply(n))

FairSpec == Spec /\ Fairness

-----------------------------------------------------------------------------
Pcs == {"begin", "balance", "loop", "running", "collect", "final", "returned"}

Statuses == {"idle", "counting", "sending", "ok", "failed"}

(* Every variable has its type; a completed operation is never counted     *)
(* beyond the total that the progress bar divides by.                      *)
TypeOK ==
  /\ tree \in Trees
  /\ pc \in Pcs
  /\ queue \subseteq Nodes(tree)
  /\ pending \subseteq Nodes(tree)
  /\ batch \subseteq Nodes(tree)
  /\ status \in [Nodes(tree) -> Statuses]
  /\ taskMap \subseteq Nodes(tree)
  /\ taskNew \subseteq Nodes(tree)
  /\ newWallets \subseteq Addresses(tree)
  /\ errors \subseteq Nodes(tree)
  /\ progress \in [total : Nat, completed : Nat, successful : Nat]
  /\ progress.successful <= progress.completed
  /\ progress.completed <= progress.total
  /\ reporter \in {"none", "running", "aborted"}
  /\ outcome \in {"none", "ok", "providerError", "cycleError"}
  /\ mined \subseteq MayBeMined \cup Addresses(tree)
  /\ mempool \subseteq Addresses(tree)

Started(n) == status[n] # "idle"

(* No operation is started before the operation it depends on has          *)
(* succeeded and its result has been processed.                            *)
ParentFirst ==
  \A n \in Nodes(tree) \ {tree.root} :
    Started(n) => /\ status[ParentOf(tree, n)] = "ok"
                  /\ ParentOf(tree, n) \in taskMap

(* The "Dependency cycle detected" branch is dead: a round never sorts a    *)
(* task that is not ready.  It returns through ? before the abort of the    *)
(* reporter, so this is also why no reporter outlives the call.             *)
NeverCycle ==
  /\ outcome # "cycleError"
  /\ pc = "returned" => reporter # "running"

(* May n run?  The executor asks ParentExecuted; the promise is more.       *)
MayRun(n) ==
  n = tree.root \/ (ParentOf(tree, n) \in taskMap /\ status[ParentOf(tree, n)] = "ok")

(* Which collections are in use, and whether the reporter runs, is decided  *)
(* by where the loop is.                                                    *)
Phases ==
  /\ pc \in {"begin", "balance"} => reporter = "none"
  /\ pc \in {"loop", "running", "collect"} => reporter = "running"
  /\ pc = "final" => reporter = "aborted"
  /\ reporter = "aborted" => pc \in {"final", "returned"}
  /\ reporter = "none" => queue = {} /\ taskMap = {}
  /\ pc # "loop" => queue = {}
  /\ pc # "collect" => pending = {}
  /\ pc \notin {"running", "collect"} => batch = {}
  /\ pc \in {"running", "collect"} => batch # {}

(* The task collections and the task map stay disjoint and complete:        *)
(* whatever runs belongs to the current batch; every operation started and  *)
(* not in the batch is in the task map; only operations whose parent has    *)
(* succeeded are queued, and once the loop has begun every one of those     *)
(* that has not started is queued: none is lost between two rounds.         *)
Bookkeeping ==
  /\ Phases
  /\ \A n \in Nodes(tree) : InFlight(n) => pc = "running" /\ n \in batch
  /\ \A n \in Nodes(tree) : Started(n) <=> n \in taskMap \cup batch
  /\ taskMap \cap batch = {}
  /\ \A n \in queue \cup pending : ~Started(n) /\ MayRun(n)
  /\ reporter # "none" =>
       \A n \in Nodes(tree) : ~Started(n) /\ MayRun(n) => n \in queue \cup pending

(* The statistics always agree with the task map, and the errors vector     *)
(* with the futures that failed: nothing is counted twice or lost.          *)
CountsAgree ==
  /\ pc # "begin" => progress.total = Cardinality(Nodes(tree))
  /\ progress.completed = Cardinality(taskMap)
  /\ progress.successful = Cardinality({n \in taskMap : status[n] = "ok"})
  /\ errors = {n \in taskMap : status[n] = "failed"}

(* A returned result accounts for every operation exactly once: it was      *)
(* completed, or it is orphaned by one of the reported errors, and no       *)
(* operation is orphaned by two of them (print_statistics adds the counts   *)
(* up as "Total Orphaned Operations").                                      *)
Accounting ==
  outcome = "ok" =>
    /\ taskMap \cup UNION {Beneath(tree, e) : e \in errors} = Nodes(tree)
    /\ \A e \in errors :
         /\ Beneath(tree, e) \cap taskMap = {}
         /\ \A f \in errors \ {e} : Beneath(tree, e) \cap Beneath(tree, f) = {}
    /\ progress.completed + Cardinality(UNION {Beneath(tree, e) : e \in errors})
         = progress.total

(* The iterative walks that count the operations, find a failed one, list   *)
(* what it orphans, flatten and print the tree agree with the tree.         *)
WalksAgree == pc = "begin" => WalksCorrect(tree)

(* A future is created once per operation, whatever was queued meanwhile,   *)
(* and a finished one stays finished.                                       *)
RunsOnce ==
  [][\A n \in Nodes(tree) :
       /\ Started(n) => Started(n)'
       /\ status[n] \in {"ok", "failed"} => status'[n] = status[n]]_vars

(* If every RPC call is answered the call returns.                          *)
Termination == <>(pc = "returned")

-----------------------------------------------------------------------------
(* The task queue implements DependencyRun: an operation runs while its     *)
(* future is in flight, and the run is closed when the loop has ended and   *)
(* the reporter was aborted.                                                *)
DependencyState ==
  [n \in Nodes(tree) |->
     IF ~Started(n) THEN "waiting" ELSE IF InFlight(n) THEN "running" ELSE status[n]]

RunClosed == reporter = "aborted"

Dependency == INSTANCE DependencyRun WITH state <- DependencyState, closed <- RunClosed

ImplementsDependency == Dependency!Spec
=============================================================================
