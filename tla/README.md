# Verification of address-smith

TLA+ modules, TLC runs and TLAPS proofs for the program under `src/`: a Rust
executable that plans a tree of transfers through freshly generated wallets,
executes it on an EVM chain, and reports what it did. Paths below are relative
to `src/src/`.

## 1. The system

| Component | State | Operations | Interacts with |
|---|---|---|---|
| Operation tree (`tree.rs`, `types.rs`) | nodes nested by value, ids from the atomic `NEXT_ID` | `new`, `add_child`, and the stack walks `flatten`, `find_node_by_id` | built by the planner, read by everything else |
| Planner (`operations.rs`, `utils.rs`) | the tree being built, key files, the signers of the root wallet | `calculate_addresses_per_loop`, `generate_balanced_split_loops`, `generate_operation_loop`, `generate_signer` | called once by `main` |
| Executor (`wallet/execution.rs`) | `queue`, `pending_tasks`, `ready_tasks`, `task_map`, `new_wallets`, `errors` | `parallel_execute_operations`, `execute_operations_with_task_queue`, `process_single_operation` | transaction manager per operation, progress manager per result, chain for counts and balances |
| Transaction retry (`wallet/transaction.rs`) | `retry_count`, the transaction being built, the awaited hash | `build_and_send_operation`, `build_transaction`, `calculate_max_value`, `attempt_transaction` | chain, through the RPC cache |
| Failure analysis (`wallet/transaction.rs`) | none | `analyze_failure_impact`, `collect_orphaned_nodes` | the executor's errors, the tree |
| Progress (`wallet/progress.rs`) | `ProgressStats` and `last_status_update`, each behind a tokio RwLock | `update_progress`, `print_status_if_needed`, `print_statistics` | executor task and reporter task |
| RPC cache (`cache_gas.rs`) | an LRU map and a map of timestamps, each behind its own lock; a file | lookup, store, `save_cache`, `load_cache` | every RPC call of the provider |
| WalletManager, Config, main (`wallet/mod.rs`, `main.rs`) | configuration, the tree, the provider | start-up, execution, report; every early return | all |

What is hard here: the futures of a batch interleave at every RPC answer and
any of them may fail; the executor carries tasks from round to round; a
transaction may be accepted, lost, mined late or reverted while the code
decides whether to retry; two tasks share the statistics; the cache is read and
written under two locks; the planner does unchecked `i32` arithmetic on values
from the environment, and writes keys and plans in steps that can fail.
The full list, at its lines, is under "hazards" in `PROJECT.json`.

What makes each component correct:

* **Tree walks**: five loops over a stack visit what the tree relation says.
* **Executor**: an operation runs once, after its parent has succeeded; nothing
  is lost between rounds; statistics and errors agree with what ran; every
  operation is completed or orphaned by exactly one error; the call returns.
* **Executor on planned trees**: no two running operations share a sender or
  touch a balance that a running sweep has read; no wallet sends before it is
  funded; a run without errors has activated every wallet.
* **Transaction retry**: bounded attempts; success means paid; failure means
  nothing moved; paid at most once; a sweep empties its wallet; it returns.
* **Program**: after a run with errors, every wallet with money in it has been
  reported, and the totals count it once; lookups for display do not prevent it.
* **Planner**: the distribution is complete and completes as early as any;
  the search ends; a key is on disk before its address is planned; every sender
  can sign; the tree is the balanced one, and operations that could disturb each
  other are ordered in it.
* **Progress**: whole updates are printed, the speed is that of the last minute,
  lines are spaced as far as the two locks space them, and the locks never stop
  the executor.
* **RPC cache**: no gas price older than its time to live; bounded size, one
  entry per key; requests for the latest block are never answered from it.

## 2. The modules

| Module | Models | How state and actions correspond |
|---|---|---|
| `OpTree` | `TreeNode<Operation>` | A record of children and operations per id. `IsTree` is what nesting by value guarantees. `Descendants` is what `collect_orphaned_nodes` collects; `Beneath` is the same without recursion, for proofs. |
| `TreeWalk` | `flatten`, `find_node_by_id`, `count_total_operations`, `collect_orphaned_nodes`, `pretty_print_tree` | A walk is a record of the stack and what was collected; what a loop has come to is a function of the number of turns. `WalksCorrect` says what the loops return, that they are through after as many turns as the code needs, and that `Beneath` and `Descendants` agree; `FlattensInDependencyOrder` is what the comment of `flatten` says. |
| `DependencyRun` | *abstract* | What executing a tree promises, without queue, batches or map: start any operations whose parent has succeeded, finish them, close when nothing can start. |
| `Executor` | `wallet/execution.rs` | One action per stretch between two awaits: `Begin`, the two balances, `Dispatch` (the sort, the cycle check and the start of the batch), one reply action per RPC answer of an operation, `JoinAll`, `Collect` (one result), `FinishQueue`. |
| `PlanTree` | `operations.rs` as data | The value of the planner and of the distribution, as functions; `SafePlan`, what a plan promises to the executor: conflicting operations are ordered, every wallet sends only what it got, every wallet sends, and it is filled once and emptied. |
| `PlannedExecution` | `Executor` with `PlanTree` | The properties that need the shape of the planned trees and the batching together. |
| `LoopPlan` | `calculate_addresses_per_loop` | The binary search, its probe loop and the assignment, step by step, sums wrapped to `MaxInt`. |
| `Planner` | `generate_balanced_split_loops` and below | One action per new wallet, one for closing a loop; a backup may fail at each wallet. |
| `Transfer` | *abstract* | What sending one operation promises its caller: the money moves some number of times, and one outcome is reported. |
| `TxRetry` | `build_and_send_operation` and below | One action per RPC answer or failure; the chain (`Mine`, `Drop`) moves in between. The network, chosen at the start, says what can go wrong: answers lost, transactions late, transactions reverted. |
| `Program` | `main.rs`, `wallet/mod.rs`, `print_statistics`, `analyze_failure_impact` | The phases of `main`, the steps of `Executor` in the middle, and a ledger: `Pay`, `GiveUp` and `LandLate` move money as `Transfer` lets them. |
| `Progress` | `ProgressManager` | Two tasks, one action per await; the statistics' lock is a variable because it is held across awaits. A stamp is taken when the line is printed and written at a later step. |
| `RpcCache` | `CacheProvider`, `SharedCache` | One action per lock acquisition or RPC event of a request; `inner` is the LRU order. Every overridden method is a request. |
| `ExecutorProofs`, `ProgramProofs`, `PlannerProofs`, `LoopPlanProofs`, `TxRetryProofs`, `ProgressProofs`, `RpcCacheProofs` | | The theorems, section 5. |
| `FoldFacts` | | Lemmas on induction, on repeated steps and on the sums of the community modules, for the proofs. |
| `MC*` | | Constants for TLC: all small trees, all planned trees, sets of requests, balances, prices and networks. |

How they fit together. `Executor` extends `TreeWalk`, so that the walks are
checked and proved on the trees it is given. It refines `DependencyRun`, `TxRetry`
refines `Transfer`. The answer of `build_and_send_operation` is a free choice in
`Executor`; `Program` adds the money to that choice, as the contract `Transfer`
allows it. `PlannedExecution` composes executor and planner, and `Program`
extends it: its properties are checked and proved of the whole program.
`LoopPlan` and `Planner` are tied to `PlanTree` by `MatchesPlan` and
`PlanIsBalanced`, so the trees on which `Program` is checked are the ones the two
machines compute, and its last theorems are about these and all like them.

Abstractions worth knowing:

* Inside a batch the executor's vectors are sets: order decides only the order
  of log lines and of `errors`. `Collect` takes results in any order, which
  includes the code's. A task queued twice within one vector would not show in
  the set; `RunsOnce` shows that none is started twice.
* `Planner` has no `continue` for an empty loop (`operations.rs:142-144`):
  `NoLoopIsEmpty` says that no allocation has one.
* A wallet is named by the node that first sends to it. `PrivateKeySigner::random`
  never repeats a key.
* `TxRetry` and `Program` count money in units of `GAS_LIMIT` times the lowest
  gas price. Transactions are mined in nonce order, because the provider fills in
  the pending nonce. Backoff and random delays are the chain's steps in between.
* In `Program` nothing reverts and nobody else sends to the wallets; a fixed
  amount may be paid up to `Payments` times (finding 3), a sweep pays once,
  because its repetition finds nothing left; an operation that fails may leave
  one transaction behind. `GasBuffer` is at least 1, as a gas buffer below the
  gas itself makes every sweep unaffordable. Gas prices only rise.
* `Progress` treats `last_status_update` as a register: it is never held across
  an await. What is written to it is the time at which the line was printed,
  because `Instant::now()` (`wallet/progress.rs:83`) is evaluated before the lock
  is awaited; the other task may have written a later time meanwhile. The
  executor's gas price answer may fail like any other and changes no counter.
* In `RpcCache` an answer is the block it was taken from; no time passes between
  two adjacent lock acquisitions, so every staleness found there is the code's
  and not a slow thread's.

## 3. The runs

| Run | Shows | Bounds |
|---|---|---|
| `ExecutorSafety` | `TypeOK`, `ParentFirst`, `NeverCycle`, `Bookkeeping`, `CountsAgree`, `Accounting`, `RunsOnce`, `Termination`, `ImplementsDependency`; `WalksAgree` | all trees of up to 4 nodes, distinct or equal senders, root a dummy or not |
| `ProgramSafety` | `NoSharedSender`, `SweepIsolated`, `FundedBeforeUse`, `GoalReached`, `StuckIsReported`, `TotalsExact`, `ProgramTypeOK` | plans for 1 to 6 addresses in 0 to 3 loops, 2 gas prices, 2 balances of the root wallet, up to 2 payments per operation |
| `ReportLost` | a violation of `StuckAlwaysReported`, finding 5 | plans for 1 or 2 addresses |
| `PlannedNewWallets` | a violation, finding 1 | plans for up to 3 addresses |
| `LoopPlanAll` | `TypeOK`, `NeverOverAssigns`; `SearchBrackets`, `MinimizesTime`, `MatchesPlan`, `Terminates` where no sum overflows (`Fits`) | every pair of values from -1 to 22, the largest of the type; up to 10 addresses or 10 loops fit |
| `LoopPlanOverflow` | a violation, finding 2 | the same, with a largest value of 15 |
| `PlannerSafety` | `KeysBackedUp`, `SendersSigned`, `PlanIsBalanced`, `PlanIsSafe` | up to 9 addresses, 4 loops, none of either included |
| `TxAll` | `TypeOK`, `AttemptsBounded`, `SweepEmptiesWallet`, `ImplementsTransfer`, `ReturnsOrWaits` | all 8 networks, 2 retries, 6 balances, 2 gas prices |
| `TxLost` | a violation, finding 3 | the networks that do not revert |
| `TxReverted` | a violation, finding 4 | the network that only reverts |
| `Progress` | `TypeOK`, `PrintsWholeUpdates`, `RateIsRecent`, `ThreePerInterval`, `ExecutorFinishes` | 3 updates, interval 2, minute 3, 5 seconds |
| `CacheTask` | `TypeOK`, `GasFresh`, `LatestIsLive` | two callers in one task, three workloads that together use every method, each with more keys than the cache's two entries, saves that may fail, restarts and loads, 3 seconds, time to live 2 |

Why the bounds are enough. Four nodes include a chain, a fork, a fork below a
chain and a fork whose branches have different depths, so that a batch mixes
results, and a task waits (never, as it turns out) while others run. Six
addresses in three loops give plans with three concurrent operations and loops
of unequal length; the root wallet can pay for two or three funding operations,
so that runs fail for want of money, and one paid twice starves another. Two
retries separate the first attempt, a middle one and the last. The balances
cover nothing, less than the buffer, one payment and several. In `Progress` the
clock stops at `MaxClock`, after two intervals and a minute; updates beyond that
are still explored. Two callers are enough for `RpcCache` because every race is
between one reader and one writer, and three seconds let a price stored in the
first one expire. The theorems of section 5 have no bounds.

How the properties are kept honest: each property of a passing run has a mutant
in `PROJECT.json`, a plausible bug in a mapped definition (children queued
although the parent failed, a loop attached to the wrong node, a probe's offset
forgotten, a lock dropped before the RPC) under which the same run must find the
property violated. The mutated forms stand in the modules before the definitions
they replace.

### Fairness

* `Executor`: weak fairness of the executor's own steps and of every RPC answer.
  Tokio polls the futures of `join_all`, and an RPC call that fails is an
  answer. A late landing owes nothing. That `build_and_send_operation` returns
  is assumed here and is not so on every chain, see `TxRetry`.
* `TxRetry`: weak fairness of the answers to single requests. Nothing makes the
  wait for a receipt end, neither a failure of it nor the chain: `get_receipt`
  has no timeout, and so `ReturnsOrWaits` allows that one wait and no other. On a
  network that is not late a transaction has been mined or dropped by the time of
  the check ten seconds after an error, which is what "not late" means.
* `Progress`: weak fairness of both tasks, strong fairness of the executor's
  acquisition of the write lock: tokio's RwLock queues its waiters, so readers
  that come and go cannot keep a writer out. Time need not advance.
* `LoopPlan`: weak fairness of a sequential program.
* `Program`, `Planner` and `RpcCache` are checked for safety only.

## 4. Findings

Each is a run whose single property TLC violates; `PROJECT.json` quotes the line
it disagrees with.

1. `wallet/execution.rs:329`: a wallet is counted as activated before, and even
   if not, it sends anything.
2. `operations.rs:186`: the "safe big upper bound" overflows; the plan is empty.
3. `wallet/transaction.rs:240`: a send whose answer is lost is retried unchecked;
   the wallet is paid twice.
4. `wallet/transaction.rs:189`: a reverted transaction is a success; its
   children run.
5. `wallet/progress.rs:129`: the ETH price is looked up, for display only, before
   the errors are analysed. In the run a funding operation succeeds, the
   operation after it fails, and so does the lookup: the wallet and the amount
   that are stuck are reported nowhere. The executor has logged that an operation
   failed (`wallet/execution.rs:238`), without either.

What remains true where finding 5 breaks a promise is checked too:
`StuckIsReported` says that nothing stuck goes unreported once the report is
through.

One disagreement is proved and not run. The comment of `flatten`, which nothing
calls, promises that parents precede children (`tree.rs:48`); it returns children
first. `FlattensInDependencyOrder` is the comment's order, which `WalksCorrect`
does not assert, and theorem `FlattenOrderRefuted` says that it fails on every
tree in which anything depends on anything.

Weaknesses of the same code that no run demonstrates, listed as hazards: status
lines may come sooner than "every 5 seconds" (`wallet/execution.rs:66`), because
both tasks may find one due (`wallet/progress.rs:38`) and because an older stamp
may overwrite a newer one (`:83`) - with an interval of 2, an executor that prints
at 2 and a reporter that prints and stamps at 3 are followed by another line of
the reporter at 4 - though, as `ThreePerInterval` shows, no more than three in an
interval; when the final balance cannot be read nothing is reported either
(`wallet/execution.rs:87`), though there `main` returns that error; a missing
receipt is cached for good (`cache_gas.rs:380`); the block is not part of a key
(`cache_gas.rs:460`); saving and loading the cache makes a gas price of any age
new (`cache_gas.rs:611`, `:648`), which `GasFresh` leaves out by counting from the
load; a caller on another thread may take an old price for a new one
(`cache_gas.rs:585`), which the constant `Parallel` admits and the one task of the
executor does not.

## 5. Proofs

TLC's instances are small; these theorems hold for every value of the
constants. All are checked by TLAPS to the last leaf.

**`ExecutorProofs`**, for every set of finite trees (`TreesAssumption`:
each member is a tree and has finitely many nodes). The inductive invariant

    IInv == TypeOK /\ ParentFirst /\ NeverCycle /\ Bookkeeping /\ CountsAgree

is the conjunction of the checked invariants. None of the interesting ones is
inductive alone: `NeverCycle` needs `Bookkeeping` (whatever is queued may run,
so a round that sorts a non-empty queue finds all of it ready); `CountsAgree`
needs it to know that a collected task is not in the map yet; `ParentFirst`
needs it for the parents of what is dispatched. `Bookkeeping` in turn rests on
two facts about trees, stated as lemmas: the children of a node have that node
as their parent, and every node but the root has one. From `IInv` follow
`TypeCorrect`, `ParentsFirst`, `CycleUnreachable`, `TasksKept`,
`StatisticsExact`, the action property `StartedOnce`, and `Refinement`: a
`Dispatch` maps to a `Start` of the batch, each reply that ends an operation
to a `Finish`, `FinishQueue` to `Close` (which needs the completeness half of
`Bookkeeping`), everything else to a stutter.

`EveryOperationAccounted` is `Accounting`, which is about descendants.
`Descendants` is a recursive function, so `Accounting` uses `Beneath`, where "a
is above n" means that every set closed under parents that holds n holds a; that
the two are the same is part of `WalksAreRight` below. Each part of the proof is
then one well-chosen set. That every node is completed or beneath an error: the
nodes that are neither, with all those above them, would be a set closed under
parents that leaves out the root (`OrphansExplained`). That no two errors share
an orphan: of two nodes above a third one is above the other (`AboveLinear`), and
what is above an error has succeeded (`AboveSucceeded`).

`WalksAreRight` is `WalksCorrect`, for every finite tree of any shape, and
`WalksHold` says it of the tree of a run; `FlattensChildrenFirst` and
`FlattenOrderRefuted` are about the order of `flatten`, which `WalksCorrect`
leaves open. There is no induction over trees in it. A
walk is proved right the way a behaviour is: an invariant of the record at turn k
holds at the start and is kept by every turn. The span of a node is that node and
all beneath it. The spans of the nodes on the stack have no node in common
(`IsStack`), and a popped node's span is itself and the spans of its children
(`SpanParts`, `StackStep`), which are apart because of two nodes above a third one
is above the other. So while the stack is not empty the nodes outside all spans on
it are those visited, and there are as many of them as turns; when the turns are as
many as the nodes, nothing is left to span and the stack is empty. `count`,
`collect` and `find` need no more. For the two orders the invariant adds that
siblings leave the stack in their order (`InOrder`), that a node is pushed only
once its parent is printed (`ParentsOut`), and for `flatten`, which visits a node
twice, that a node pushed back lies below its children that have not come out yet
(`ChildrenOut`). `Descendants` and `Level` are compared with `Above` through their
recursive equations (`AncestorsAreAbove`, `OrphansAreBeneath`, `LevelFacts`).

**`ProgramProofs`**, first of the executor on every set of trees that keep
`SafePlan` (`SafeTrees`). The operation in flight together with all that have
succeeded is a set closed under parents, by `ParentFirst`; so whatever is above
an operation in flight has succeeded, and two operations in flight are unordered.
`SafePlan` says that operations in conflict are ordered: `SendersApart`,
`SweepsApart`. `Funded` uses that an operation sends what its parent's target
got. `Goal` also assumes that only the root wallet has sent anything before
(`NewWalletsOnly`), and adds an invariant that says where every sender is recorded
between its first operation's transaction count and the merge of its result
(`NewWalletFacts`).

Then of the whole program. Every behaviour of `Program` is one of `Executor`
(`ProgramExecutes`), so the theorems above are theorems of the program with its
start-up, its report and its money: `ProgramParentFirst`, `ProgramSendersApart`,
`ProgramGoal`. Three more are about the money and the report:

* `ProgramTypes` is `ProgramTypeOK`, of which "no balance goes below zero" is the
  part that could be wrong. `MInv` adds to it what each phase of `main` has
  already done (`MainFacts`) and that a transaction left behind belongs to an
  operation that has failed (`LeftFailed`).
* `NothingStuckUnreported` is `StuckIsReported`. Its invariant `LedgerFacts`
  speaks of the wallets that nothing left behind can still pay: there is money in
  one only once the operation that fills it has succeeded, and no more than a
  sweep keeps back once one that empties it has. It needs that a wallet is not
  filled again after its sweep and that whatever it sends is a sweep - which the
  other parts of `SafePlan` do not say, so the attempt to prove it gave
  `SafePlan` the conjunct `FilledOnceAndEmptied`.
* `TotalsAreExact` is `TotalsExact`. `TotalsFacts` says that while the errors are
  analysed the totals are those of the errors analysed so far; the sum over their
  senders is exact because two failed operations never have one sender
  (`StuckApart`), and the orphans add up because no two errors share one
  (`Accounting` again).

Last, the assumption `SafeTrees` goes. `PlannedProgram` and `PlannedGoal` are
about a program that is given the trees of any allocations (`GivenPlans`), of any
number of addresses and loops, and assume nothing else of them: `BalancedIsSafe`,
taken from `PlannerProofs` by an instance of that module, says that these keep
`SafePlan`.

**`PlannerProofs`**, for every allocation, computed by `LoopPlan` or not, and
every point at which the planner may fail: `KeysSafe`, `SendersCanSign`, and
`PlansAreSafe` - the plan is a finite tree (`PlansAreFinite`) and keeps `SafePlan`.
The invariant `PlanInv` describes the parent of an operation
by its id: the operation before it, or, for a funding operation, the latest
funding operation before it; so parents have smaller ids, and a counterexample
with the least id shows what is above what.

`PlansAreBalanced` is `PlanIsBalanced`: the finished plan is the tree
`BalancedTree` defines, node by node, and it makes one wallet per address. It
assumes that loops have at least one address (`Allocation`), which the
allocations that `LoopPlan` computes do (`TypeOK` of `LoopPlan`, theorem
`SumsInRange`). `BalancedTree` is defined with the sum of the loops before each
one, so the proof needs where those sums put each node: the start and end of a
loop, and that loops do not overlap (`FundingIdFacts`, `LoopsApart`,
`Placement`). The inductive invariant `BInv` says that unless a key could not be
saved, the planner stands where those sums say (`Position`), the tree so far is
that part of the balanced tree (`Balanced`), and the wallets so far are as many
as the addresses (`Wallets`).

`BalancedIsSafe` is the same as `PlansAreSafe`, of the tree alone: the balanced
tree of every allocation is a finite tree that keeps `SafePlan`. What makes a
plan safe is stated once, of any numbered tree whose operations are sent and hung
as `PlanInv` says (`PlanShape`, `SendsOn`, `ShapeIsSafe`); the planner's plan has
that shape by its invariant (`ShapeOfPlan`), the balanced tree because the loops
fill it (`LoopsFill`) and each node of a loop has the parent its place gives it
(`BalancedParent`, `BalancedKids`).

**`LoopPlanProofs`**, for every request and every integer width. `SumsInRange`
(`TypeOK`): probes are made only below a positive upper bound, so no sum
underflows, whatever overflows. `SearchSound` (`SearchBrackets`) and
`ComputesPlan` (`MatchesPlan`), where `Fits` holds. They rest on lemmas about
`Capacity`: it grows in both arguments (`CapacityGrows`, `CapacityGrowsInLoops`),
one loop more adds what that loop can take (`CapacityNext`), and the times that
are sufficient are those from `MinTime` on (`MinTimeFacts`, from the well-founded
order of the naturals). So a probe compares its middle with `MinTime`, and the
assignment stops at the first loop that leaves nothing (`LastLoop`).
`NothingOverAssigned` (`NeverOverAssigns`) needs no `Fits`: each turn hands out
no more than is left, so what is handed out and what is left are together the
addresses asked for (`NInv`). `TimeIsMinimal` (`MinimizesTime`): any distribution
that completes at some time fits into the capacity of that time
(`NoMoreThanCapacity`, from sums over the loops), so none completes before
`MinTime`, and the one computed is through by then (`FastEnough`).
`NoLoopIsEmpty`: `AddressesPerLoop` never answers an empty loop, so what it
answers, for any request, is one of the allocations that `PlannerProofs` and
`ProgramProofs` speak of.

**`TxRetryProofs`**, for every retry limit, buffer, amount, set of balances, set
of gas prices and set of networks (`TxAssumption`: naturals, prices and amount
positive). `AttemptInv` (type, attempts, the awaited hash is the latest
transaction) holds on every network and gives `TxTypeCorrect` and
`AttemptsAreBounded`. `SweepInv` says of every attempt of a sweep, from the moment
its value is fixed until it is mined, that the balance is at most that value and
the gas buffer at its own price - the balance only falls, whatever happens to the
other attempts, so a value computed from a stale balance still takes all that is
above the buffer - and gives `SweepsEmptyWallets` (`SweepEmptiesWallet`). `OkInv`
adds, where nothing reverts, that success implies a mined transaction
(`OkIsPaid`). `PromptInv` adds, where answers are neither lost nor late, that all
transactions but the awaited or successful one have come to nothing, which gives
`PromptPaysOnce`. The two hypotheses are exactly what findings 3 and 4 drop.
`RetriesImplementTransfer` puts them together: `Mine` maps to `Move`, a return to
`Succeed` or `Fail`, everything else to a stutter; it needs that mined
transactions never outnumber attempts.

**`ProgressProofs`**, for every interval, minute and number of updates: the lock
discipline (`Locks`: a task prints with the read lock, the gas price is awaited
with the write lock) gives `WholeUpdates`. `LinesSpaced` (`ThreePerInterval`)
needs that before a task looks again its last line has been stamped, and that a
stamp which overwrites this one is no older than the line before it, or that line
was an interval earlier (`Spacing`): so a line that is found due is an interval
after the line before the last one of its task, and after the last one or the
other task's line before its last. `ProgressTyped` (`TypeOK`) and `SpeedIsRecent`
(`RateIsRecent`) compare `recent_operations` with the whole history: it is always
the end of the history, and all that was forgotten ended more than a minute ago
(`Pruned`); times only grow, so the operations of the last minute are the last of
both and are counted alike (`RateFacts`), and a line once printed keeps that speed
(`Lines`).

**`RpcCacheProofs`**, for every capacity, time to live, number of callers and set
of requests (`CacheAssumption`: these are positive, requests are of the
overridden methods). `CacheTyped` (`TypeOK`, with the entries distinct and no more
than the capacity) rests on what one put and a whole load do to such a list
(`WithoutFacts`, `PutFacts`, `LoadedFacts`). `LatestLive` (`LatestIsLive`) holds
with callers on any number of threads: an answer in hand for such a request is
never one read from the cache. `GasIsFresh` (`GasFresh`) assumes that the callers
share one task (`~Parallel`), as the executor's futures do; on several threads
the hazard at `cache_gas.rs:585` is real. Its invariant (`GInv`) says that outside
the two steps of a store the gas price in the cache has a timestamp no younger
than itself, that a store in progress has put in a price of this moment, and that
no gas price was saved without a timestamp.

**`FoldFacts`** holds what these proofs need of induction and of the folds of the
community modules. The library's induction theorems take an operator as a
parameter, which no installed prover can instantiate; here a property is the set
of the values that have it, so induction over the naturals (`NatSetInduction`)
and over the subsets of a finite set (`SubsetInduction`) are statements about
sets. `FoldExists` shows from them that the function which a fold over a set
chooses exists, `IterateExists` the same of a loop as a function of its turns,
and `SumNone`, `SumSplit`, `SumMono`, `SumSame` and `SumAdd` are the laws of
`SumFunctionOnSet`.

Only model-checked is liveness: `Termination`, `ReturnsOrWaits`, `Terminates` and
`ExecutorFinishes`. It rests on fairness, which is beyond this prover. Every other
property of a passing run is the statement of a theorem.

## 6. Not modelled

* Reading the environment and setting up the log in `main`: that `.env.example`
  allows several private keys while `main` concatenates them is noted here and
  modelled nowhere. That `GAS_BUFFER_MULTIPLIER` has a default in the README and
  none in `Config` is a way for `StartUpFails` to happen.
* `generate_operation_loop` with no address or without a return address: public,
  not used by the program. `get_gas_buffer_multiplier` repeats `Config` and is
  called by nothing.
* In `print_statistics`: the division of the costs, and the subtraction of the two
  balances, which wraps when the root wallet has received money from outside; the
  ledger of `Program` has no outside.
* The estimate of the remaining time and the percentages of a status line.
* `error.rs` and `lib.rs`: an enum, whose variants appear as results, and
  re-exports.
* Formatting, logging, (de)serialization, HTTP; a cache entry of a wrong type,
  and a client that has been dropped.

## 7. Plan

Done: the executor and its abstract run; the trees of the planner, and the walks
over them; the distribution and the planner as machines; the transaction retry
and its contract; the whole program with its money; progress; cache; and the
proofs of section 5.

What could follow: `TxRetry` per operation inside `Program`, in place of its
contract, so that reverted transactions meet the ledger (today's instances are at
the limit of what TLC can hold without it).
