--------------------------- MODULE ExecutorProofs ---------------------------
(***************************************************************************)
(* Proofs about Executor for every set of finite trees.                    *)
(*                                                                         *)
(* The inductive invariant is the conjunction of the invariants the runs   *)
(* check.  ParentFirst and NeverCycle are not inductive alone: the round   *)
(* that sorts the queue finds every task ready only because Bookkeeping    *)
(* says that whatever is queued has a parent in the task map.              *)
(***************************************************************************)
EXTENDS Executor, FoldFacts, SequenceTheorems, TLAPS

IInv == TypeOK /\ ParentFirst /\ NeverCycle /\ Bookkeeping /\ CountsAgree

(* The children of a node are nodes other than the root, and the parent of  *)
(* each is that node.                                                       *)
LEMMA KidFacts ==
  ASSUME NEW t \in Trees, NEW p \in Nodes(t), NEW c \in Kids(t, p)
  PROVE  c \in Nodes(t) /\ c # t.root /\ ParentOf(t, c) = p
<1>1. IsTree(t)
  BY TreesAssumption
<1>2. c \in Nodes(t) /\ c # t.root
  BY <1>1 DEF IsTree, Kids, Range
<1>3. \A q \in Nodes(t) : c \in Kids(t, q) => q = p
  BY <1>1 DEF IsTree
<1>4. ParentOf(t, c) = p
  BY <1>3 DEF ParentOf
<1> QED
  BY <1>2, <1>4

(* Every node but the root has a parent, which is a node and holds it.      *)
LEMMA ParentFacts ==
  ASSUME NEW t \in Trees, NEW n \in Nodes(t), n # t.root
  PROVE  ParentOf(t, n) \in Nodes(t) /\ n \in Kids(t, ParentOf(t, n))
<1>1. IsTree(t)
  BY TreesAssumption
<1>2. \E p \in Nodes(t) : n \in Kids(t, p)
  BY <1>1 DEF IsTree
<1> QED
  BY <1>2 DEF ParentOf

LEMMA RootFact == \A t \in Trees : t.root \in Nodes(t)
  BY TreesAssumption DEF IsTree

(* The nodes of a tree are finite, so subsets of them can be counted.       *)
LEMMA CountFacts ==
  ASSUME NEW t \in Trees, NEW S \in SUBSET Nodes(t), NEW T \in SUBSET S
  PROVE  /\ IsFiniteSet(S) /\ IsFiniteSet(T)
         /\ Cardinality(T) \in Nat /\ Cardinality(S) \in Nat
         /\ Cardinality(Nodes(t)) \in Nat
         /\ Cardinality(T) <= Cardinality(S)
         /\ Cardinality(S) <= Cardinality(Nodes(t))
<1>1. IsFiniteSet(Nodes(t))
  BY TreesAssumption
<1>2. IsFiniteSet(S) /\ Cardinality(S) <= Cardinality(Nodes(t))
  BY <1>1, FS_Subset
<1>3. IsFiniteSet(T) /\ Cardinality(T) <= Cardinality(S)
  BY <1>2, FS_Subset
<1> QED
  BY <1>1, <1>2, <1>3, FS_CardinalityType

(* In a state of the inductive invariant, an operation in flight belongs to *)
(* the batch, is not in the task map, and nothing is queued.                *)
LEMMA InFlightFacts ==
  ASSUME IInv, NEW n \in Nodes(tree), InFlight(n)
  PROVE  /\ pc = "running" /\ n \in batch /\ n \notin taskMap
         /\ queue = {} /\ pending = {}
<1>1. pc = "running" /\ n \in batch
  BY DEF IInv, Bookkeeping
<1> QED
  BY <1>1 DEF IInv, Bookkeeping, Phases

-----------------------------------------------------------------------------
LEMMA InitInv == Init => IInv
<1> SUFFICES ASSUME Init PROVE IInv
  OBVIOUS
<1> USE DEF Init
<1>1. TypeOK
  BY RootFact DEF TypeOK, Pcs, Statuses
<1>2. ParentFirst
  BY DEF ParentFirst, Started
<1>3. NeverCycle
  BY DEF NeverCycle
<1>4. Bookkeeping
  BY DEF Bookkeeping, Phases, InFlight, Started
<1>5. CountsAgree
  <2>1. {n \in taskMap : status[n] = "ok"} = {} /\ {n \in taskMap : status[n] = "failed"} = {}
    OBVIOUS
  <2> QED
    BY <2>1, FS_EmptySet DEF CountsAgree
<1> QED
  BY <1>1, <1>2, <1>3, <1>4, <1>5 DEF IInv

-----------------------------------------------------------------------------
(* The steps before and after the loop, and the step that closes a batch:   *)
(* none of them starts, finishes or records an operation.                   *)
Outer == Begin \/ InitialBalance \/ InitialBalanceFails \/ JoinAll \/ FinishQueue \/ FinalBalance

LEMMA OuterInv == IInv /\ Outer => IInv'
<1> SUFFICES ASSUME IInv, Outer PROVE IInv'
  OBVIOUS
<1> USE DEF Outer, Begin, InitialBalance, InitialBalanceFails, JoinAll, FinishQueue, FinalBalance,
            queueVars, resultVars, chainVars
<1>1. UNCHANGED <<tree, status, taskMap, batch, newWallets, errors>>
  OBVIOUS
<1>2. TypeOK'
  <2>1. CountOperations(tree) \in Nat
    BY CountFacts DEF CountOperations, IInv, TypeOK
  <2>2. queue' \subseteq Nodes(tree)
    BY RootFact DEF IInv, TypeOK
  <2> QED
    BY <2>1, <2>2 DEF IInv, TypeOK, Pcs, Statuses
<1>3. ParentFirst'
  BY <1>1 DEF IInv, ParentFirst, Started
<1>4. NeverCycle'
  BY DEF IInv, NeverCycle, Bookkeeping, Phases
<1>5. Bookkeeping'
  <2>1. Phases'
    BY DEF IInv, Bookkeeping, Phases
  <2>2. \A n \in Nodes(tree) : InFlight(n)' => pc' = "running" /\ n \in batch'
    BY <1>1, InFlightFacts DEF InFlight, AllReplied
  <2>3. (\A n \in Nodes(tree) : Started(n) <=> n \in taskMap \cup batch)'
    BY <1>1 DEF IInv, Bookkeeping, Started
  <2>4. (taskMap \cap batch = {})'
    BY <1>1 DEF IInv, Bookkeeping
  <2>5. \A n \in Nodes(tree) : MayRun(n)' <=> MayRun(n)
    BY <1>1 DEF MayRun
  <2>6. CASE InitialBalance
    <3>1. queue' = {tree.root} /\ pending' = {} /\ taskMap = {} /\ batch = {}
      BY <2>6 DEF IInv, Bookkeeping, Phases
    <3>2. \A n \in Nodes(tree) : ~Started(n)
      BY <3>1 DEF IInv, Bookkeeping
    <3>3. tree.root \in Nodes(tree)
      BY RootFact DEF IInv, TypeOK
    <3> QED
      BY <1>1, <2>1, <2>2, <2>3, <2>4, <3>1, <3>2, <3>3 DEF Bookkeeping, MayRun, Started
  <2>7. CASE ~InitialBalance
    <3>1. UNCHANGED <<queue, pending>> /\ (reporter' # "none" => reporter # "none")
      BY <2>7 DEF IInv, Bookkeeping, Phases
    <3> QED
      BY <1>1, <2>1, <2>2, <2>3, <2>4, <2>5, <3>1 DEF IInv, TypeOK, Bookkeeping, Started
  <2> QED
    BY <2>6, <2>7
<1>6. CountsAgree'
  <2>1. CASE Begin
    <3>1. taskMap = {}
      BY <2>1 DEF IInv, Bookkeeping, Phases
    <3>2. {n \in taskMap : status[n] = "ok"} = {}
      BY <3>1
    <3> QED
      BY <1>1, <2>1, <3>1, <3>2, FS_EmptySet DEF IInv, CountsAgree, CountOperations
  <2>2. CASE ~Begin
    BY <1>1, <2>2 DEF IInv, CountsAgree
  <2> QED
    BY <2>1, <2>2
<1> QED
  BY <1>2, <1>3, <1>4, <1>5, <1>6 DEF IInv

-----------------------------------------------------------------------------
(* A round finds every queued task ready: it starts the whole queue, and    *)
(* the cycle branch is not taken.                                           *)
LEMMA DispatchFacts ==
  ASSUME IInv, Dispatch
  PROVE  /\ pc' = "running" /\ outcome' = outcome
         /\ batch' = queue /\ queue' = {} /\ pending' = {}
         /\ status' = [n \in Nodes(tree) |-> IF n \in queue THEN "counting" ELSE status[n]]
         /\ \A n \in queue : n \in Nodes(tree) /\ status[n] = "idle" /\ n \notin taskMap
         /\ batch = {}
<1>1. \A n \in queue : ParentExecuted(n)
  BY DEF IInv, Bookkeeping, MayRun, ParentExecuted
<1>2. {n \in queue : ParentExecuted(n)} = queue
  BY <1>1
<1>3. batch = {}
  BY DEF Dispatch, IInv, Bookkeeping, Phases
<1>4. \A n \in queue : n \in Nodes(tree) /\ status[n] = "idle" /\ n \notin taskMap
  BY DEF IInv, Bookkeeping, TypeOK, Started
<1> QED
  BY <1>2, <1>3, <1>4 DEF Dispatch

LEMMA DispatchInv == IInv /\ Dispatch => IInv'
<1> SUFFICES ASSUME IInv, Dispatch PROVE IInv'
  OBVIOUS
<1>1. UNCHANGED <<tree, taskMap, taskNew, newWallets, errors, progress, reporter, mined, mempool>>
  BY DEF Dispatch, resultVars, chainVars
<1>2. pc = "loop"
  BY DEF Dispatch
<1>3. TypeOK'
  BY <1>1, DispatchFacts DEF IInv, TypeOK, Pcs, Statuses
<1>4. \A n \in Nodes(tree) : (Started(n)' <=> Started(n) \/ n \in queue)
  BY DispatchFacts DEF Started, IInv, TypeOK
<1>5. \A n \in Nodes(tree) : n \in taskMap => status'[n] = status[n]
  BY DispatchFacts DEF IInv, TypeOK
<1>6. \A n \in Nodes(tree) \ {tree.root} : ParentOf(tree, n) \in Nodes(tree)
  BY ParentFacts DEF IInv, TypeOK
<1>7. ParentFirst'
  <2> SUFFICES ASSUME NEW n \in Nodes(tree) \ {tree.root}, Started(n)'
               PROVE  status'[ParentOf(tree, n)] = "ok" /\ ParentOf(tree, n) \in taskMap
    BY <1>1 DEF ParentFirst
  <2>1. status[ParentOf(tree, n)] = "ok" /\ ParentOf(tree, n) \in taskMap
    BY <1>4 DEF IInv, ParentFirst, Bookkeeping, MayRun
  <2> QED
    BY <2>1, <1>5, <1>6
<1>8. NeverCycle'
  BY <1>1, DispatchFacts DEF IInv, NeverCycle
<1>9. Bookkeeping'
  <2>1. Phases'
    BY <1>1, <1>2, DispatchFacts DEF IInv, Bookkeeping, Phases, Dispatch
  <2>2. \A n \in Nodes(tree) : InFlight(n)' => pc' = "running" /\ n \in batch'
    <3> SUFFICES ASSUME NEW n \in Nodes(tree), InFlight(n)' PROVE n \in queue
      BY DispatchFacts
    <3>1. n \notin queue => InFlight(n)
      BY DispatchFacts DEF InFlight
    <3> QED
      BY <3>1, <1>2, InFlightFacts
  <2>3. \A n \in Nodes(tree) : Started(n)' <=> n \in taskMap \cup batch'
    BY <1>4, DispatchFacts DEF IInv, Bookkeeping
  <2>4. taskMap \cap batch' = {}
    BY DispatchFacts
  <2>5. \A n \in Nodes(tree) : MayRun(n)' <=> MayRun(n)
    BY <1>1, <1>5, <1>6 DEF MayRun
  <2>6. reporter # "none" => \A n \in Nodes(tree) : ~(~Started(n)' /\ MayRun(n)')
    <3>1. pending = {}
      BY <1>2 DEF IInv, Bookkeeping, Phases
    <3> QED
      BY <3>1, <1>4, <2>5 DEF IInv, Bookkeeping
  <2> QED
    BY <1>1, <2>1, <2>2, <2>3, <2>4, <2>6, DispatchFacts DEF Bookkeeping
<1>10. CountsAgree'
  <2>1. {n \in taskMap : status'[n] = "ok"} = {n \in taskMap : status[n] = "ok"}
    BY <1>5 DEF IInv, TypeOK
  <2>2. {n \in taskMap : status'[n] = "failed"} = {n \in taskMap : status[n] = "failed"}
    BY <1>5 DEF IInv, TypeOK
  <2> QED
    BY <1>1, <1>2, <2>1, <2>2 DEF IInv, CountsAgree
<1> QED
  BY <1>3, <1>7, <1>8, <1>9, <1>10 DEF IInv

-----------------------------------------------------------------------------
(* An RPC answer moves one operation in flight on; it does not touch what   *)
(* the executor's own variables hold.                                       *)
LEMMA ReplyFacts ==
  ASSUME IInv, NEW n \in Nodes(tree), Reply(n)
  PROVE  /\ InFlight(n)
         /\ UNCHANGED <<tree, pc, queue, pending, batch, taskMap, newWallets, errors,
                        progress, reporter, outcome>>
         /\ \E s \in {"sending", "ok", "failed"} : status' = [status EXCEPT ![n] = s]
  BY DEF Reply, CountReply, CountFails, SendOk, SendFails, InFlight, queueVars, resultVars, chainVars

LEMMA ReplyInv == IInv /\ (\E n \in Nodes(tree) : Reply(n)) => IInv'
<1> SUFFICES ASSUME IInv, NEW n \in Nodes(tree), Reply(n) PROVE IInv'
  OBVIOUS
<1>1. InFlight(n) /\ UNCHANGED <<tree, pc, queue, pending, batch, taskMap, newWallets, errors,
                                 progress, reporter, outcome>>
  BY ReplyFacts
<1>2. PICK s \in {"sending", "ok", "failed"} : status' = [status EXCEPT ![n] = s]
  BY ReplyFacts
<1>3. pc = "running" /\ n \in batch /\ n \notin taskMap /\ queue = {} /\ pending = {}
  BY <1>1, InFlightFacts
<1>4. TypeOK'
  <2>1. From(tree, n) \in Addresses(tree)
    BY DEF Addresses
  <2>2. taskNew' \subseteq Nodes(tree)
    BY DEF IInv, TypeOK, Reply, CountReply, CountFails, SendOk, SendFails
  <2>3. mined' \subseteq MayBeMined \cup Addresses(tree) /\ mempool' \subseteq Addresses(tree)
    BY <2>1 DEF IInv, TypeOK, Reply, CountReply, CountFails, SendOk, SendFails, chainVars
  <2>4. status' \in [Nodes(tree) -> Statuses]
    BY <1>2 DEF IInv, TypeOK, Statuses
  <2> QED
    BY <1>1, <2>2, <2>3, <2>4 DEF IInv, TypeOK
<1>5. \A m \in Nodes(tree) : Started(m)' <=> Started(m)
  BY <1>1, <1>2 DEF Started, InFlight, IInv, TypeOK
<1>6. \A m \in Nodes(tree) : m \in taskMap => status'[m] = status[m]
  BY <1>2, <1>3 DEF IInv, TypeOK
<1>7. \A m \in Nodes(tree) \ {tree.root} : ParentOf(tree, m) \in Nodes(tree)
  BY ParentFacts DEF IInv, TypeOK
<1>8. ParentFirst'
  BY <1>1, <1>5, <1>6, <1>7 DEF IInv, ParentFirst
<1>9. NeverCycle'
  BY <1>1 DEF IInv, NeverCycle
<1>10. Bookkeeping'
  <2>1. Phases'
    BY <1>1 DEF IInv, Bookkeeping, Phases
  <2>2. \A m \in Nodes(tree) : InFlight(m)' => pc' = "running" /\ m \in batch'
    <3> SUFFICES ASSUME NEW m \in Nodes(tree), InFlight(m)' PROVE m \in batch
      BY <1>1, <1>3
    <3>1. m = n \/ InFlight(m)
      BY <1>2 DEF InFlight, IInv, TypeOK
    <3> QED
      BY <3>1, <1>3, InFlightFacts
  <2>3. \A m \in Nodes(tree) : MayRun(m)' <=> MayRun(m)
    BY <1>1, <1>6, <1>7 DEF MayRun
  <2> QED
    BY <1>1, <1>3, <1>5, <2>1, <2>2, <2>3 DEF IInv, Bookkeeping
<1>11. CountsAgree'
  <2>1. {m \in taskMap : status'[m] = "ok"} = {m \in taskMap : status[m] = "ok"}
    BY <1>6 DEF IInv, TypeOK
  <2>2. {m \in taskMap : status'[m] = "failed"} = {m \in taskMap : status[m] = "failed"}
    BY <1>6 DEF IInv, TypeOK
  <2> QED
    BY <1>1, <2>1, <2>2 DEF IInv, CountsAgree
<1> QED
  BY <1>4, <1>8, <1>9, <1>10, <1>11 DEF IInv

LEMMA LateLandingInv == IInv /\ (\E a \in mempool : LateLanding(a)) => IInv'
<1> SUFFICES ASSUME IInv, NEW a \in mempool, LateLanding(a) PROVE IInv'
  OBVIOUS
<1>1. UNCHANGED <<tree, pc, queueVars, status, taskNew, resultVars, reporter, outcome>>
  BY DEF LateLanding
<1>2. TypeOK'
  BY <1>1 DEF LateLanding, IInv, TypeOK, queueVars, resultVars
<1> QED
  BY <1>1, <1>2 DEF IInv, queueVars, resultVars, ParentFirst, NeverCycle, Bookkeeping, Phases,
     CountsAgree, Started, InFlight, MayRun

-----------------------------------------------------------------------------
(* Processing one result moves its operation from the batch to the task     *)
(* map and queues its children exactly when it succeeded.                   *)
LEMMA CollectFacts ==
  ASSUME IInv, NEW n \in Nodes(tree), Collect(n)
  PROVE  /\ UNCHANGED <<tree, status, taskNew, reporter, outcome, mined, mempool>>
         /\ pc = "collect" /\ n \in batch /\ n \notin taskMap /\ queue = {}
         /\ reporter = "running"
         /\ status[n] \in {"ok", "failed"}
         /\ taskMap' = taskMap \cup {n} /\ batch' = batch \ {n}
         /\ queue' \cup pending' = pending \cup Successors(n, status[n])
         /\ \/ batch' # {} /\ pc' = "collect" /\ queue' = {}
            \/ batch' = {} /\ pc' = "loop" /\ pending' = {}
<1>1. pc = "collect" /\ n \in batch
  BY DEF Collect
<1>2. queue = {} /\ reporter = "running" /\ n \notin taskMap
  BY <1>1 DEF IInv, Bookkeeping, Phases
<1>3. status[n] \in {"ok", "failed"}
  BY <1>1 DEF IInv, Bookkeeping, InFlight, Started, TypeOK, Statuses
<1> QED
  BY <1>1, <1>2, <1>3 DEF Collect, chainVars

(* The children it queues are nodes that have not started, and they are all *)
(* the operations that the larger task map allows to run.                   *)
LEMMA SuccessorFacts ==
  ASSUME IInv, NEW n \in Nodes(tree), Collect(n)
  PROVE  \A m \in Nodes(tree) :
           /\ m \in Successors(n, status[n]) => ~Started(m)
           /\ MayRun(m)' <=> MayRun(m) \/ m \in Successors(n, status[n])
<1>1. UNCHANGED <<tree, status>> /\ taskMap' = taskMap \cup {n} /\ n \notin taskMap
  BY CollectFacts
<1>2. tree \in Trees
  BY DEF IInv, TypeOK
<1>3. SUFFICES ASSUME NEW m \in Nodes(tree)
               PROVE  /\ m \in Successors(n, status[n]) => ~Started(m)
                      /\ MayRun(m)' <=> MayRun(m) \/ m \in Successors(n, status[n])
  OBVIOUS
<1>4. m \in Kids(tree, n) => m # tree.root /\ ParentOf(tree, m) = n
  BY <1>2, KidFacts
<1>5. m # tree.root /\ ParentOf(tree, m) = n => m \in Kids(tree, n)
  BY <1>2, ParentFacts
<1>6. m \in Successors(n, status[n]) <=>
        m # tree.root /\ ParentOf(tree, m) = n /\ status[n] = "ok"
  BY <1>4, <1>5 DEF Successors
<1>7. m \in Successors(n, status[n]) => ~Started(m)
  BY <1>1, <1>6 DEF IInv, ParentFirst
<1>8. MayRun(m)' <=> MayRun(m) \/ m \in Successors(n, status[n])
  BY <1>1, <1>6 DEF MayRun
<1> QED
  BY <1>7, <1>8

LEMMA CollectInv == IInv /\ (\E n \in Nodes(tree) : Collect(n)) => IInv'
<1> SUFFICES ASSUME IInv, NEW n \in Nodes(tree), Collect(n) PROVE IInv'
  OBVIOUS
<1>1. UNCHANGED <<tree, status, taskNew, reporter, outcome, mined, mempool>>
  BY CollectFacts
<1>2. taskMap' = taskMap \cup {n} /\ batch' = batch \ {n} /\ n \in batch /\ n \notin taskMap
  BY CollectFacts
<1>3. \A m \in Nodes(tree) : Started(m)' <=> Started(m)
  BY <1>1 DEF Started
<1>4. Successors(n, status[n]) \subseteq Nodes(tree)
  BY KidFacts DEF IInv, TypeOK, Successors
<1>5. CountsAgree'
  <2>1. IsFiniteSet(taskMap) /\ Cardinality(taskMap) \in Nat
    BY CountFacts DEF IInv, TypeOK
  <2>2. Cardinality(taskMap') = Cardinality(taskMap) + 1
    BY <1>2, <2>1, FS_AddElement
  <2> DEFINE Ok == {m \in taskMap : status[m] = "ok"}
             Failed == {m \in taskMap : status[m] = "failed"}
  <2>3. IsFiniteSet(Ok) /\ n \notin Ok
    BY <1>2, <2>1, FS_Subset
  <2>4. CASE status[n] = "ok"
    <3>1. {m \in taskMap' : status'[m] = "ok"} = Ok \cup {n}
      BY <1>1, <1>2, <2>4
    <3>2. {m \in taskMap' : status'[m] = "failed"} = Failed
      BY <1>1, <1>2, <2>4
    <3>3. Cardinality(Ok \cup {n}) = Cardinality(Ok) + 1
      BY <2>3, FS_AddElement
    <3> QED
      BY <1>1, <2>2, <2>4, <3>1, <3>2, <3>3, CollectFacts DEF Collect, IInv, CountsAgree, TypeOK
  <2>5. CASE status[n] = "failed"
    <3>1. {m \in taskMap' : status'[m] = "ok"} = Ok
      BY <1>1, <1>2, <2>5
    <3>2. {m \in taskMap' : status'[m] = "failed"} = Failed \cup {n}
      BY <1>1, <1>2, <2>5
    <3> QED
      BY <1>1, <2>2, <2>5, <3>1, <3>2, CollectFacts DEF Collect, IInv, CountsAgree, TypeOK
  <2> QED
    BY <2>4, <2>5, CollectFacts
<1>6. TypeOK'
  <2>1. queue' \subseteq Nodes(tree) /\ pending' \subseteq Nodes(tree) /\ pc' \in Pcs
    BY <1>4, CollectFacts DEF IInv, TypeOK, Pcs
  <2>2. newWallets' \subseteq Addresses(tree) /\ errors' \subseteq Nodes(tree)
    BY DEF IInv, TypeOK, Collect, NewWalletsWith, Addresses
  <2>3. progress' \in [total : Nat, completed : Nat, successful : Nat]
    <3> DEFINE more == IF status[n] = "ok" THEN progress.successful + 1 ELSE progress.successful
    <3>1. progress \in [total : Nat, completed : Nat, successful : Nat]
      BY DEF IInv, TypeOK
    <3>2. progress' = [progress EXCEPT !.completed = progress.completed + 1, !.successful = more]
      BY DEF Collect
    <3>3. more \in Nat /\ progress.completed + 1 \in Nat
      BY <3>1
    <3> HIDE DEF more
    <3> QED
      BY <3>1, <3>2, <3>3
  <2>4. progress'.successful <= progress'.completed /\ progress'.completed <= progress'.total
    <3>1. taskMap' \in SUBSET Nodes(tree)
      BY <1>2 DEF IInv, TypeOK
    <3>2. pc' # "begin"
      BY CollectFacts
    <3> DEFINE Ok == {m \in taskMap' : status'[m] = "ok"}
    <3>3. Ok \in SUBSET taskMap'
      OBVIOUS
    <3>4. tree \in Trees
      BY DEF IInv, TypeOK
    <3>5. Cardinality(Ok) <= Cardinality(taskMap') /\ Cardinality(taskMap') <= Cardinality(Nodes(tree))
      BY <3>1, <3>3, <3>4, CountFacts
    <3> QED
      BY <1>1, <1>5, <3>2, <3>5 DEF CountsAgree
  <2> QED
    BY <1>1, <1>2, <2>1, <2>2, <2>3, <2>4 DEF IInv, TypeOK
<1>7. ParentFirst'
  BY <1>1, <1>2, <1>3 DEF IInv, ParentFirst
<1>8. NeverCycle'
  BY <1>1, CollectFacts DEF IInv, NeverCycle
<1>9. Bookkeeping'
  <2>1. Phases'
    BY CollectFacts DEF IInv, Bookkeeping, Phases
  <2>2. \A m \in Nodes(tree) : ~InFlight(m)'
    BY <1>1, CollectFacts, InFlightFacts DEF InFlight
  <2>3. \A m \in Nodes(tree) : Started(m)' <=> m \in taskMap' \cup batch'
    BY <1>2, <1>3 DEF IInv, Bookkeeping
  <2>4. taskMap' \cap batch' = {}
    BY <1>2 DEF IInv, Bookkeeping
  <2>5. queue' \cup pending' = pending \cup Successors(n, status[n])
    BY CollectFacts
  <2>6. \A m \in queue' \cup pending' : ~Started(m)' /\ MayRun(m)'
    BY <1>3, <1>4, <2>5, SuccessorFacts DEF IInv, Bookkeeping, TypeOK
  <2>7. \A m \in Nodes(tree) : ~Started(m)' /\ MayRun(m)' => m \in queue' \cup pending'
    BY <1>3, <2>5, SuccessorFacts, CollectFacts DEF IInv, Bookkeeping
  <2> QED
    BY <1>1, <2>1, <2>2, <2>3, <2>4, <2>6, <2>7 DEF Bookkeeping
<1> QED
  BY <1>5, <1>6, <1>7, <1>8, <1>9 DEF IInv

-----------------------------------------------------------------------------
(* Every step, or a stutter, keeps the invariant.                           *)
LEMMA NextInv == IInv /\ [Next]_vars => IInv'
<1> SUFFICES ASSUME IInv, [Next]_vars PROVE IInv'
  OBVIOUS
<1>1. CASE Outer
  BY <1>1, OuterInv
<1>2. CASE Dispatch
  BY <1>2, DispatchInv
<1>3. CASE \E n \in Nodes(tree) : Collect(n)
  BY <1>3, CollectInv
<1>4. CASE \E n \in Nodes(tree) : Reply(n)
  BY <1>4, ReplyInv
<1>5. CASE \E a \in mempool : LateLanding(a)
  BY <1>5, LateLandingInv
<1>6. CASE UNCHANGED vars
  BY <1>6 DEF vars, queueVars, resultVars, chainVars, IInv, TypeOK, ParentFirst, NeverCycle,
     Bookkeeping, Phases, CountsAgree, Started, InFlight, MayRun
<1> QED
  BY <1>1, <1>2, <1>3, <1>4, <1>5, <1>6 DEF Next, Step, Outer, Done

LEMMA Invariance == Spec => []IInv
  BY InitInv, NextInv, PTL DEF Spec

(* Whatever the trees, every variable keeps its type and the statistics     *)
(* never exceed the total.                                                  *)
THEOREM TypeCorrect == Spec => []TypeOK
<1>1. IInv => TypeOK
  BY DEF IInv
<1> QED
  BY <1>1, Invariance, PTL

(* Whatever the trees and whatever the RPC answers, no operation starts     *)
(* before the one it depends on has succeeded.                              *)
THEOREM ParentsFirst == Spec => []ParentFirst
<1>1. IInv => ParentFirst
  BY DEF IInv
<1> QED
  BY <1>1, Invariance, PTL

(* The cycle branch is unreachable on every set of finite trees, and no     *)
(* call returns with its reporter running.                                  *)
THEOREM CycleUnreachable == Spec => []NeverCycle
<1>1. IInv => NeverCycle
  BY DEF IInv
<1> QED
  BY <1>1, Invariance, PTL

(* No operation is lost or duplicated between the queue, the batch and the  *)
(* task map.                                                                *)
THEOREM TasksKept == Spec => []Bookkeeping
<1>1. IInv => Bookkeeping
  BY DEF IInv
<1> QED
  BY <1>1, Invariance, PTL

(* The statistics and the errors vector agree with the task map.            *)
THEOREM StatisticsExact == Spec => []CountsAgree
<1>1. IInv => CountsAgree
  BY DEF IInv
<1> QED
  BY <1>1, Invariance, PTL

-----------------------------------------------------------------------------
(* What a step may do to one operation: start an idle one from the queue,   *)
(* or move one in flight on.                                                *)
LEMMA StatusStep ==
  ASSUME IInv, [Next]_vars
  PROVE  /\ tree' = tree
         /\ \/ status' = status
            \/ Dispatch
            \/ \E n \in Nodes(tree) : Reply(n)
<1>1. CASE Outer
  BY <1>1 DEF Outer, Begin, InitialBalance, InitialBalanceFails, JoinAll, FinishQueue, FinalBalance
<1>2. CASE Dispatch
  BY <1>2 DEF Dispatch
<1>3. CASE \E n \in Nodes(tree) : Collect(n)
  BY <1>3, CollectFacts
<1>4. CASE \E n \in Nodes(tree) : Reply(n)
  BY <1>4, ReplyFacts
<1>5. CASE \E a \in mempool : LateLanding(a)
  BY <1>5 DEF LateLanding
<1>6. CASE UNCHANGED vars
  BY <1>6 DEF vars
<1> QED
  BY <1>1, <1>2, <1>3, <1>4, <1>5, <1>6 DEF Next, Step, Outer, Done

(* The action that RunsOnce forbids the negation of.                        *)
OnceStep ==
  \A n \in Nodes(tree) :
    /\ Started(n) => Started(n)'
    /\ status[n] \in {"ok", "failed"} => status'[n] = status[n]

LEMMA OnceKept == IInv /\ [Next]_vars => OnceStep
<1> SUFFICES ASSUME IInv, [Next]_vars PROVE OnceStep
  OBVIOUS
<1>1. CASE status' = status
  BY <1>1 DEF OnceStep, Started
<1>2. CASE Dispatch
  BY <1>2, DispatchFacts DEF OnceStep, Started, IInv, TypeOK
<1>3. CASE \E n \in Nodes(tree) : Reply(n)
  <2>1. PICK n \in Nodes(tree) : Reply(n)
    BY <1>3
  <2>2. InFlight(n)
    BY <2>1, ReplyFacts
  <2>3. PICK s \in {"sending", "ok", "failed"} : status' = [status EXCEPT ![n] = s]
    BY <2>1, ReplyFacts
  <2> QED
    BY <2>2, <2>3 DEF OnceStep, Started, InFlight, IInv, TypeOK
<1> QED
  BY <1>1, <1>2, <1>3, StatusStep

(* An operation is started at most once and its result never changes.       *)
THEOREM StartedOnce == Spec => RunsOnce
<1>1. IInv /\ [Next]_vars => [OnceStep]_vars
  BY OnceKept
<1> QED
  BY <1>1, Invariance, PTL DEF Spec, RunsOnce, OnceStep

-----------------------------------------------------------------------------
(* The refinement: a round starts a set of operations that may start, an    *)
(* answer finishes one (or leaves it running), and the end of the loop      *)
(* closes the run when nothing runs and nothing may start.                  *)
(* The instance has its own copy of the tree operators.                     *)
LEMMA InstanceFacts ==
  \A t : /\ Dependency!Nodes(t) = Nodes(t)
        /\ \A n : Dependency!ParentOf(t, n) = ParentOf(t, n)
  BY DEF Dependency!Nodes, Nodes, Dependency!ParentOf, ParentOf, Dependency!Kids, Kids,
     Dependency!Range, Range

LEMMA InitRefines == Init => Dependency!Init
  BY InstanceFacts DEF Init, Dependency!Init, DependencyState, RunClosed, Started, InFlight

LEMMA DispatchRefines == IInv /\ Dispatch => \E S \in SUBSET Nodes(tree) : Dependency!Start(S)
<1> SUFFICES ASSUME IInv, Dispatch PROVE Dependency!Start(queue) /\ queue \subseteq Nodes(tree)
  OBVIOUS
<1>1. UNCHANGED <<tree, reporter>> /\ reporter = "running"
  BY DEF Dispatch, IInv, Bookkeeping, Phases
<1>2. queue \subseteq Nodes(tree)
  BY DEF IInv, TypeOK
<1>3. \A n \in queue : Dependency!MayStart(n)
  <2> SUFFICES ASSUME NEW n \in queue PROVE Dependency!MayStart(n)
    OBVIOUS
  <2>1. ~Started(n) /\ MayRun(n) /\ n \in Nodes(tree)
    BY <1>2 DEF IInv, Bookkeeping
  <2>2. DependencyState[n] = "waiting"
    BY <2>1 DEF DependencyState
  <2>3. n # tree.root => DependencyState[ParentOf(tree, n)] = "ok"
    <3>1. n # tree.root => ParentOf(tree, n) \in Nodes(tree) /\ status[ParentOf(tree, n)] = "ok"
      BY <2>1, ParentFacts DEF IInv, TypeOK, MayRun
    <3> QED
      BY <3>1 DEF DependencyState, Started, InFlight
  <2> QED
    BY <2>2, <2>3, InstanceFacts DEF Dependency!MayStart
<1>4. DependencyState' = [n \in Nodes(tree) |-> IF n \in queue THEN "running" ELSE DependencyState[n]]
  <2>1. \A n \in Nodes(tree) : status'[n] = IF n \in queue THEN "counting" ELSE status[n]
    BY DispatchFacts
  <2> QED
    BY <1>1, <2>1 DEF DependencyState, Started, InFlight
<1> QED
  BY <1>1, <1>2, <1>3, <1>4, InstanceFacts DEF Dependency!Start, RunClosed

LEMMA ReplyRefines ==
  ASSUME IInv, NEW n \in Nodes(tree), Reply(n)
  PROVE  \/ UNCHANGED <<tree, DependencyState, RunClosed>>
         \/ \E r \in {"ok", "failed"} : Dependency!Finish(n, r)
<1>1. InFlight(n) /\ UNCHANGED <<tree, reporter>>
  BY ReplyFacts
<1>2. PICK s \in {"sending", "ok", "failed"} : status' = [status EXCEPT ![n] = s]
  BY ReplyFacts
<1>3. \A m \in Nodes(tree) : status'[m] = IF m = n THEN s ELSE status[m]
  BY <1>2 DEF IInv, TypeOK
<1>4. DependencyState[n] = "running"
  BY <1>1 DEF DependencyState, Started, InFlight
<1>5. DependencyState' = [m \in Nodes(tree) |->
                            IF m = n THEN IF s = "sending" THEN "running" ELSE s
                            ELSE DependencyState[m]]
  BY <1>1, <1>3 DEF DependencyState, Started, InFlight
<1>6. CASE s = "sending"
  <2>1. DependencyState' = DependencyState
    BY <1>4, <1>5, <1>6 DEF DependencyState
  <2> QED
    BY <1>1, <2>1 DEF RunClosed
<1>7. CASE s \in {"ok", "failed"}
  <2>1. DependencyState' = [DependencyState EXCEPT ![n] = s]
    BY <1>5, <1>7 DEF DependencyState
  <2> QED
    BY <1>1, <1>4, <1>7, <2>1 DEF Dependency!Finish, RunClosed
<1> QED
  BY <1>2, <1>6, <1>7

LEMMA FinishRefines == IInv /\ FinishQueue => Dependency!Close
<1> SUFFICES ASSUME IInv, FinishQueue PROVE Dependency!Close
  OBVIOUS
<1>1. UNCHANGED <<tree, status>> /\ reporter' = "aborted" /\ pc = "loop" /\ queue = {}
  BY DEF FinishQueue
<1>2. reporter = "running" /\ pending = {}
  BY <1>1 DEF IInv, Bookkeeping, Phases
<1>3. \A n \in Nodes(tree) : ~InFlight(n) /\ ~(~Started(n) /\ MayRun(n))
  BY <1>1, <1>2 DEF IInv, Bookkeeping
<1>4. ASSUME NEW n \in Nodes(tree)
      PROVE  DependencyState[n] # "running" /\ ~Dependency!MayStart(n)
  <2>1. DependencyState[n] # "running"
    BY <1>3 DEF DependencyState, InFlight, IInv, TypeOK, Statuses
  <2>2. ASSUME Dependency!MayStart(n) PROVE FALSE
    <3>1. ~Started(n)
      BY <2>2 DEF Dependency!MayStart, DependencyState, Started, InFlight, IInv, TypeOK, Statuses
    <3>2. n # tree.root
      BY <1>3, <3>1 DEF MayRun
    <3>3. ParentOf(tree, n) \in Nodes(tree)
      BY <3>2, ParentFacts DEF IInv, TypeOK
    <3>4. status[ParentOf(tree, n)] = "ok"
      BY <2>2, <3>2, <3>3, InstanceFacts DEF Dependency!MayStart, DependencyState, Started, InFlight
    <3>5. ParentOf(tree, n) \in taskMap
      BY <1>1, <3>3, <3>4 DEF IInv, Bookkeeping, Phases, Started
    <3> QED
      BY <1>3, <3>1, <3>4, <3>5 DEF MayRun
  <2> QED
    BY <2>1, <2>2
<1>5. DependencyState' = DependencyState
  BY <1>1 DEF DependencyState, Started, InFlight
<1> QED
  BY <1>1, <1>2, <1>4, <1>5, InstanceFacts DEF Dependency!Close, RunClosed

(* The remaining steps are invisible to DependencyRun.                      *)
LEMMA OtherRefines ==
  ASSUME IInv, [Next]_vars, status' = status, ~FinishQueue
  PROVE  UNCHANGED <<tree, DependencyState, RunClosed>>
<1>1. tree' = tree
  BY StatusStep
<1>2. DependencyState' = DependencyState
  BY <1>1 DEF DependencyState, Started, InFlight
<1>3. RunClosed' = RunClosed
  <2>1. CASE Outer
    BY <2>1 DEF Outer, Begin, InitialBalance, InitialBalanceFails, JoinAll, FinalBalance,
       RunClosed, IInv, Bookkeeping, Phases
  <2>2. CASE Dispatch
    BY <2>2 DEF Dispatch, RunClosed
  <2>3. CASE \E n \in Nodes(tree) : Collect(n)
    BY <2>3, CollectFacts DEF RunClosed
  <2>4. CASE \E n \in Nodes(tree) : Reply(n)
    BY <2>4, ReplyFacts DEF RunClosed
  <2>5. CASE \E a \in mempool : LateLanding(a)
    BY <2>5 DEF LateLanding, RunClosed
  <2>6. CASE UNCHANGED vars
    BY <2>6 DEF vars, RunClosed
  <2> QED
    BY <2>1, <2>2, <2>3, <2>4, <2>5, <2>6 DEF Next, Step, Outer, Done
<1> QED
  BY <1>1, <1>2, <1>3

(* For every set of finite trees the task queue implements DependencyRun:   *)
(* level by level execution with a task map keeps the promise that needs    *)
(* neither.                                                                 *)
THEOREM Refinement == Spec => ImplementsDependency
<1>1. IInv /\ [Next]_vars => [Dependency!Next]_(Dependency!dependencyVars)
  <2> SUFFICES ASSUME IInv, [Next]_vars
               PROVE  Dependency!Next \/ UNCHANGED <<tree, DependencyState, RunClosed>>
    BY DEF Dependency!dependencyVars
  <2>1. CASE Dispatch
    BY <2>1, DispatchRefines, InstanceFacts DEF Dependency!Next
  <2>2. CASE \E n \in Nodes(tree) : Reply(n)
    BY <2>2, ReplyRefines, InstanceFacts DEF Dependency!Next
  <2>3. CASE FinishQueue
    BY <2>3, FinishRefines DEF Dependency!Next
  <2>4. CASE status' = status /\ ~FinishQueue
    BY <2>4, OtherRefines
  <2> QED
    BY <2>1, <2>2, <2>3, <2>4, StatusStep
<1> QED
  BY <1>1, InitRefines, Invariance, PTL DEF Spec, Dependency!Spec, ImplementsDependency

-----------------------------------------------------------------------------
(* What is above a started operation has succeeded.                         *)
LEMMA AboveSucceeded ==
  ASSUME IInv, NEW m \in Nodes(tree), NEW n \in Nodes(tree), m # n, Started(n),
         \A S \in ParentClosed(tree) : n \in S => m \in S
  PROVE  status[m] = "ok"
<1> DEFINE S == {k \in Nodes(tree) : k = n \/ status[k] = "ok"}
<1>1. ASSUME NEW k \in S \ {tree.root} PROVE ParentOf(tree, k) \in S
  <2>1. Started(k)
    BY DEF Started
  <2>2. status[ParentOf(tree, k)] = "ok"
    BY <2>1 DEF IInv, ParentFirst
  <2>3. ParentOf(tree, k) \in Nodes(tree)
    BY ParentFacts DEF IInv, TypeOK
  <2> QED
    BY <2>2, <2>3
<1>2. S \in ParentClosed(tree)
  BY <1>1 DEF ParentClosed
<1>3. m \in S
  BY <1>2
<1> QED
  BY <1>3

(* No set of nodes below the root holds the parents of all of its nodes.    *)
LEMMA NoRing ==
  ASSUME NEW t \in Trees, NEW S \in SUBSET (Nodes(t) \ {t.root}), S # {}
  PROVE  \E n \in S : ParentOf(t, n) \notin S
  BY TreesAssumption DEF IsTree

(* A node's parent is above it, and so is what is above its parent.         *)
LEMMA AboveParent ==
  ASSUME NEW t \in Trees, NEW n \in Nodes(t) \ {t.root}
  PROVE  /\ Above(t, ParentOf(t, n), n)
         /\ \A e : Above(t, e, ParentOf(t, n)) => \A S \in ParentClosed(t) : n \in S => e \in S
<1>1. ParentOf(t, n) # n
  <2>1. \E k \in {n} : ParentOf(t, k) \notin {n}
    BY NoRing
  <2> QED
    BY <2>1
<1>2. \A S \in ParentClosed(t) : n \in S => ParentOf(t, n) \in S
  BY DEF ParentClosed
<1> QED
  BY <1>1, <1>2 DEF Above

(* Two nodes above a third are not unordered.                               *)
LEMMA AboveLinear ==
  ASSUME NEW t \in Trees, NEW d \in Nodes(t), NEW e \in Nodes(t), NEW f \in Nodes(t), e # f,
         Above(t, e, d), Above(t, f, d)
  PROVE  Above(t, e, f) \/ Above(t, f, e)
<1> SUFFICES ASSUME NEW A \in ParentClosed(t), f \in A, e \notin A,
                    NEW B \in ParentClosed(t), e \in B, f \notin B
             PROVE  FALSE
  BY DEF Above
<1> DEFINE T == {k \in Nodes(t) : \A S \in ParentClosed(t) : k \in S => e \in S /\ f \in S}
<1>1. d \in T
  BY DEF Above
<1>2. t.root \notin T
  <2>1. {t.root} \in ParentClosed(t)
    BY RootFact DEF ParentClosed
  <2> QED
    BY <2>1
<1>3. PICK k \in T : ParentOf(t, k) \notin T
  <2>1. T \subseteq Nodes(t) \ {t.root} /\ T # {}
    BY <1>1, <1>2
  <2> HIDE DEF T
  <2> QED
    BY <2>1, NoRing
<1>4. k # t.root /\ ParentOf(t, k) \in Nodes(t)
  BY <1>2, <1>3, ParentFacts
<1>5. PICK S \in ParentClosed(t) : ParentOf(t, k) \in S /\ ~(e \in S /\ f \in S)
  BY <1>3, <1>4
<1>6. S \cup {k} \in ParentClosed(t)
  BY <1>3, <1>5 DEF ParentClosed
<1>7. k = e \/ k = f
  BY <1>3, <1>5, <1>6
<1> QED
  BY <1>3, <1>7

(* When the loop has ended, an operation that did not run is beneath one    *)
(* that failed: a highest one with none above it would have been queued.    *)
LEMMA OrphansExplained ==
  ASSUME IInv, reporter = "aborted", NEW d \in Nodes(tree), d \notin taskMap
  PROVE  \E e \in errors : Above(tree, e, d)
<1> SUFFICES ASSUME ~\E e \in errors : Above(tree, e, d) PROVE FALSE
  OBVIOUS
<1> DEFINE T == {k \in Nodes(tree) \ taskMap : ~\E e \in errors : Above(tree, e, k)}
<1>1. tree \in Trees /\ queue = {} /\ pending = {} /\ batch = {} /\ reporter # "none"
  BY DEF IInv, TypeOK, Bookkeeping, Phases
<1>2. \A n \in Nodes(tree) : MayRun(n) => n \in taskMap
  BY <1>1 DEF IInv, Bookkeeping
<1>3. T \subseteq Nodes(tree) \ {tree.root} /\ T # {}
  BY <1>2 DEF MayRun
<1>4. PICK n \in T : ParentOf(tree, n) \notin T
  <2> HIDE DEF T
  <2> QED
    BY <1>1, <1>3, NoRing
<1> DEFINE p == ParentOf(tree, n)
<1>5. n \in Nodes(tree) \ {tree.root} /\ p \in Nodes(tree) /\ Above(tree, p, n)
  BY <1>1, <1>3, <1>4, ParentFacts, AboveParent
<1>6. CASE p \in taskMap
  <2>1. status[p] # "ok"
    BY <1>2, <1>4, <1>5, <1>6 DEF MayRun
  <2>2. Started(p) /\ ~InFlight(p)
    BY <1>1, <1>5, <1>6 DEF IInv, Bookkeeping
  <2>3. status[p] = "failed"
    BY <1>5, <2>1, <2>2 DEF IInv, TypeOK, Statuses, Started, InFlight
  <2>4. p \in errors
    BY <1>6, <2>3 DEF IInv, CountsAgree
  <2> QED
    BY <1>4, <1>5, <2>4
<1>7. CASE p \notin taskMap
  <2>1. PICK e \in errors : Above(tree, e, p)
    BY <1>4, <1>5, <1>7
  <2>2. e \in taskMap
    BY <2>1 DEF IInv, CountsAgree
  <2>3. Above(tree, e, n)
    BY <1>1, <1>4, <1>5, <2>1, <2>2, AboveParent DEF Above
  <2> QED
    BY <1>4, <2>1, <2>3
<1> QED
  BY <1>6, <1>7

(* A result is only returned after the loop has ended.                      *)
OkReturned == outcome = "ok" => pc = "returned" /\ reporter = "aborted"

RInv == IInv /\ OkReturned

LEMMA OkReturnedStep == IInv /\ OkReturned /\ [Next]_vars => OkReturned'
<1> SUFFICES ASSUME IInv, OkReturned, [Next]_vars PROVE OkReturned'
  OBVIOUS
<1>1. CASE FinalBalance
  <2>1. reporter = "aborted"
    BY <1>1 DEF FinalBalance, IInv, Bookkeeping, Phases
  <2> QED
    BY <1>1, <2>1 DEF FinalBalance, OkReturned
<1>2. CASE ~FinalBalance
  <2>1. outcome' = "ok" => outcome = "ok" /\ pc = "returned"
    BY <1>2 DEF Next, Step, Reply, Begin, InitialBalance, InitialBalanceFails, Dispatch, JoinAll,
       FinishQueue, Collect, CountReply, CountFails, SendOk, SendFails, LateLanding, Done, vars,
       OkReturned
  <2>2. pc = "returned" => UNCHANGED <<pc, reporter>>
    BY <1>2 DEF Next, Step, Reply, Begin, InitialBalance, InitialBalanceFails, Dispatch, JoinAll,
       FinishQueue, Collect, CountReply, CountFails, SendOk, SendFails, LateLanding, Done, vars
  <2> QED
    BY <2>1, <2>2 DEF OkReturned
<1> QED
  BY <1>1, <1>2

LEMMA ReturnInvariance == Spec => []RInv
<1>1. Init => OkReturned
  BY DEF Init, OkReturned
<1> QED
  BY <1>1, OkReturnedStep, Invariance, PTL DEF Spec, RInv

LEMMA AccountingHolds == RInv => Accounting
<1> DEFINE lost == UNION {Beneath(tree, e) : e \in errors}
<1>1. ASSUME RInv, outcome = "ok" PROVE Nodes(tree) \subseteq taskMap \cup lost
  BY <1>1, OrphansExplained DEF RInv, OkReturned, Beneath
<1>2. ASSUME RInv, NEW e \in errors
      PROVE  /\ Beneath(tree, e) \cap taskMap = {}
             /\ \A f \in errors \ {e} : Beneath(tree, e) \cap Beneath(tree, f) = {}
  <2>1. tree \in Trees /\ taskMap \subseteq Nodes(tree)
    BY <1>2 DEF RInv, IInv, TypeOK
  <2>2. ASSUME NEW f \in errors PROVE f \in taskMap /\ status[f] = "failed"
    BY <1>2 DEF RInv, IInv, CountsAgree
  <2>3. \A d \in taskMap : ~Above(tree, e, d)
    <3>1. ASSUME NEW d \in taskMap, Above(tree, e, d) PROVE FALSE
      <4>1. Started(d) /\ d \in Nodes(tree) /\ e \in Nodes(tree)
        BY <1>2, <2>1, <2>2 DEF RInv, IInv, Bookkeeping
      <4>2. status[e] = "ok"
        BY <1>2, <3>1, <4>1, AboveSucceeded DEF Above, RInv
      <4> QED
        BY <2>2, <4>2
    <3> QED
      BY <3>1
  <2>4. ASSUME NEW f \in errors \ {e}, NEW d \in Beneath(tree, e) \cap Beneath(tree, f)
        PROVE  FALSE
    <3>1. f \in taskMap /\ e \in taskMap /\ (Above(tree, e, f) \/ Above(tree, f, e))
      BY <2>1, <2>2, AboveLinear DEF Beneath
    <3>2. Above(tree, f, e)
      BY <2>2, <2>3, <3>1
    <3>3. Started(e) /\ e \in Nodes(tree) /\ f \in Nodes(tree)
      BY <1>2, <2>1, <2>2 DEF RInv, IInv, Bookkeeping
    <3>4. status[f] = "ok"
      BY <1>2, <3>2, <3>3, AboveSucceeded DEF Above, RInv
    <3> QED
      BY <2>2, <3>4
  <2> QED
    BY <2>3, <2>4 DEF Beneath
<1>3. ASSUME RInv, outcome = "ok" PROVE progress.completed + Cardinality(lost) = progress.total
  <2>1. /\ tree \in Trees /\ taskMap \subseteq Nodes(tree) /\ lost \subseteq Nodes(tree)
        /\ pc = "returned"
    BY <1>3 DEF RInv, OkReturned, IInv, TypeOK, Beneath
  <2>2. IsFiniteSet(Nodes(tree)) /\ IsFiniteSet(taskMap) /\ IsFiniteSet(lost)
    BY <2>1, TreesAssumption, FS_Subset
  <2>3. Nodes(tree) = taskMap \cup lost /\ taskMap \cap lost = {}
    BY <1>1, <1>2, <1>3, <2>1
  <2>4. Cardinality(Nodes(tree)) = Cardinality(taskMap) + Cardinality(lost) - Cardinality({})
    BY <2>2, <2>3, FS_Union
  <2>5. Cardinality({}) = 0 /\ Cardinality(taskMap) \in Nat /\ Cardinality(lost) \in Nat
    BY <2>2, FS_EmptySet, FS_CardinalityType
  <2> QED
    BY <1>3, <2>1, <2>4, <2>5 DEF RInv, IInv, CountsAgree
<1> QED
  BY <1>1, <1>2, <1>3 DEF Accounting, Beneath, RInv, IInv, TypeOK

(* What a returned result reports is complete and counts nothing twice.     *)
THEOREM EveryOperationAccounted == Spec => []Accounting
  BY AccountingHolds, ReturnInvariance, PTL

-----------------------------------------------------------------------------
(* What the walks of the failure analysis compute: the recursion of         *)
(* Ancestors gives every node what is above it, so Descendants is Beneath.  *)

(* Nothing is above its own parent.                                         *)
LEMMA NotAboveParent ==
  ASSUME NEW t \in Trees, NEW n \in Nodes(t) \ {t.root}
  PROVE  \E S \in ParentClosed(t) : ParentOf(t, n) \in S /\ n \notin S
<1> SUFFICES ASSUME \A S \in ParentClosed(t) : ParentOf(t, n) \in S => n \in S
             PROVE  FALSE
  OBVIOUS
<1> DEFINE T == {k \in Nodes(t) : \A S \in ParentClosed(t) : k \in S => n \in S}
<1>1. n \in T /\ ParentOf(t, n) \in T
  BY ParentFacts
<1>2. t.root \notin T
  <2>1. {t.root} \in ParentClosed(t)
    BY RootFact DEF ParentClosed
  <2> QED
    BY <2>1
<1>3. PICK k \in T : ParentOf(t, k) \notin T
  <2>1. T \subseteq Nodes(t) \ {t.root} /\ T # {}
    BY <1>1, <1>2
  <2> HIDE DEF T
  <2> QED
    BY <2>1, NoRing
<1>4. k # n /\ k # t.root /\ k \in Nodes(t) /\ ParentOf(t, k) \in Nodes(t)
  BY <1>1, <1>2, <1>3, ParentFacts
<1>5. PICK S \in ParentClosed(t) : ParentOf(t, k) \in S /\ n \notin S
  BY <1>3, <1>4
<1>6. S \cup {k} \in ParentClosed(t)
  BY <1>4, <1>5 DEF ParentClosed
<1> QED
  BY <1>3, <1>4, <1>5, <1>6

AllAbove(t) == [n \in Nodes(t) |-> {a \in Nodes(t) : Above(t, a, n)}]

(* What is above a node is its parent and what is above that.               *)
LEMMA AboveStep ==
  ASSUME NEW t \in Trees, NEW n \in Nodes(t)
  PROVE  AllAbove(t)[n] = IF n = t.root THEN {}
                          ELSE AllAbove(t)[ParentOf(t, n)] \cup {ParentOf(t, n)}
<1> DEFINE p == ParentOf(t, n)
<1>1. CASE n = t.root
  <2>1. {t.root} \in ParentClosed(t)
    BY RootFact DEF ParentClosed
  <2> QED
    BY <1>1, <2>1 DEF AllAbove, Above
<1>2. CASE n # t.root
  <2>1. p \in Nodes(t) /\ Above(t, p, n)
    BY <1>2, ParentFacts, AboveParent
  <2>2. PICK B \in ParentClosed(t) : p \in B /\ n \notin B
    BY <1>2, NotAboveParent
  <2>3. \A a \in Nodes(t) : Above(t, a, p) => Above(t, a, n)
    BY <1>2, <2>2, AboveParent DEF Above
  <2>4. ASSUME NEW a \in Nodes(t), Above(t, a, n), a # p PROVE Above(t, a, p)
    <3>1. ASSUME NEW S \in ParentClosed(t), p \in S PROVE a \in S
      <4>1. S \cup {n} \in ParentClosed(t)
        BY <3>1 DEF ParentClosed
      <4> QED
        BY <2>4, <4>1 DEF Above
    <3> QED
      BY <2>4, <3>1 DEF Above
  <2> QED
    BY <1>2, <2>1, <2>3, <2>4 DEF AllAbove
<1> QED
  BY <1>1, <1>2

LEMMA AncestorsAreAbove ==
  ASSUME NEW t \in Trees
  PROVE  \A n \in Nodes(t) : Ancestors(t)[n] = {a \in Nodes(t) : Above(t, a, n)}
<1> DEFINE Body(anc) == [n \in Nodes(t) |->
              IF n = t.root THEN {} ELSE anc[ParentOf(t, n)] \cup {ParentOf(t, n)}]
<1>1. AllAbove(t) = Body(AllAbove(t))
  <2>1. \A n \in Nodes(t) : AllAbove(t)[n] = Body(AllAbove(t))[n]
    BY AboveStep
  <2>2. AllAbove(t) = [n \in Nodes(t) |-> AllAbove(t)[n]]
    BY DEF AllAbove
  <2>3. Body(AllAbove(t)) = [n \in Nodes(t) |-> Body(AllAbove(t))[n]]
    OBVIOUS
  <2> HIDE DEF Body
  <2> QED
    BY <2>1, <2>2, <2>3
<1>2. Ancestors(t) = CHOOSE anc : anc = Body(anc)
  BY DEF Ancestors
<1>3. Ancestors(t) = Body(Ancestors(t))
  <2> HIDE DEF Body
  <2> QED
    BY <1>1, <1>2
<1> DEFINE T == {n \in Nodes(t) : Ancestors(t)[n] # AllAbove(t)[n]}
<1>4. t.root \notin T
  BY <1>3, RootFact, AboveStep
<1>5. ASSUME T # {} PROVE FALSE
  <2>1. PICK n \in T : ParentOf(t, n) \notin T
    <3>1. T \subseteq Nodes(t) \ {t.root}
      BY <1>4
    <3> HIDE DEF T
    <3> QED
      BY <1>5, <3>1, NoRing
  <2>2. n \in Nodes(t) /\ n # t.root /\ ParentOf(t, n) \in Nodes(t)
    BY <1>4, <2>1, ParentFacts
  <2>3. Ancestors(t)[ParentOf(t, n)] = AllAbove(t)[ParentOf(t, n)]
    BY <2>1, <2>2
  <2>4. Ancestors(t)[n] = Ancestors(t)[ParentOf(t, n)] \cup {ParentOf(t, n)}
    BY <1>3, <2>2
  <2> QED
    BY <2>1, <2>2, <2>3, <2>4, AboveStep
<1> HIDE DEF T
<1>6. T = {}
  BY <1>5
<1> QED
  BY <1>6 DEF T, AllAbove

LEMMA OrphansAreBeneath ==
  ASSUME NEW t \in Trees, NEW n \in Nodes(t) PROVE Descendants(t, n) = Beneath(t, n)
  BY AncestorsAreAbove DEF Descendants, Beneath

-----------------------------------------------------------------------------
(***************************************************************************)
(* The walks.  A walk is proved right the way a behaviour is: an invariant *)
(* of the record a loop works on, at turn k, holds at the start and is     *)
(* kept by every turn; when the turns are used up it leaves the stack      *)
(* empty.  Every invariant says that the spans of the nodes on the stack   *)
(* have no node in common and are what is left to visit.                   *)
(***************************************************************************)

(* What a stack of nodes still has to visit: the spans of its nodes.        *)
Span(t, n) == {n} \cup Beneath(t, n)

Cover(t, F) == UNION {Span(t, n) : n \in F}

(* No node of F is in the span of another.                                  *)
Apart(t, F) == F \subseteq Nodes(t) /\ \A m, n \in F : m # n => Span(t, m) \cap Span(t, n) = {}

LEMMA AboveCases ==
  ASSUME NEW t \in Trees, NEW n \in Nodes(t), NEW a \in Nodes(t)
  PROVE  Above(t, a, n) <=>
           n # t.root /\ (a = ParentOf(t, n) \/ Above(t, a, ParentOf(t, n)))
<1>1. Above(t, a, n) <=> a \in AllAbove(t)[n]
  BY DEF AllAbove
<1>2. ASSUME n # t.root PROVE Above(t, a, ParentOf(t, n)) <=> a \in AllAbove(t)[ParentOf(t, n)]
  BY <1>2, ParentFacts DEF AllAbove
<1>3. n = t.root => AllAbove(t)[n] = {}
  BY AboveStep
<1>4. n # t.root => AllAbove(t)[n] = AllAbove(t)[ParentOf(t, n)] \cup {ParentOf(t, n)}
  BY AboveStep
<1> QED
  BY <1>1, <1>2, <1>3, <1>4

(* Of two nodes at most one is above the other.                             *)
LEMMA AboveOneWay ==
  ASSUME NEW t \in Trees, NEW a \in Nodes(t), NEW b \in Nodes(t), Above(t, a, b)
  PROVE  ~Above(t, b, a)
<1> SUFFICES ASSUME Above(t, b, a) PROVE FALSE
  OBVIOUS
<1>1. b # t.root
  BY AboveCases
<1>2. PICK S \in ParentClosed(t) : ParentOf(t, b) \in S /\ b \notin S
  BY <1>1, NotAboveParent
<1>3. a = ParentOf(t, b) \/ Above(t, a, ParentOf(t, b))
  BY <1>1, AboveCases
<1>4. a \in S
  BY <1>2, <1>3 DEF Above
<1> QED
  BY <1>2, <1>4 DEF Above

(* The span of a node is the node and the spans of its children, which      *)
(* have no node in common.                                                  *)
LEMMA SpanParts ==
  ASSUME NEW t \in Trees, NEW n \in Nodes(t)
  PROVE  /\ Span(t, n) \subseteq Nodes(t)
         /\ Apart(t, Kids(t, n))
         /\ n \notin Cover(t, Kids(t, n))
         /\ Span(t, n) = {n} \cup Cover(t, Kids(t, n))
<1>1. Span(t, n) \subseteq Nodes(t)
  BY DEF Span, Beneath
<1>2. \A c \in Kids(t, n) : c \in Nodes(t) /\ c # t.root /\ ParentOf(t, c) = n /\ Above(t, n, c)
  BY KidFacts, AboveParent
<1>3. ASSUME NEW c \in Kids(t, n), NEW d \in Beneath(t, c) PROVE d \in Beneath(t, n)
  <2>1. c \in Nodes(t) /\ d \in Nodes(t) /\ Above(t, n, c) /\ Above(t, c, d)
    BY <1>2, <1>3 DEF Beneath
  <2>2. d # n
    BY <2>1, AboveOneWay
  <2> QED
    BY <2>1, <2>2 DEF Beneath, Above
<1>4. ASSUME NEW c \in Kids(t, n), NEW d \in Kids(t, n), c # d, NEW k \in Span(t, c) \cap Span(t, d)
      PROVE  FALSE
  <2>1. c \in Nodes(t) /\ d \in Nodes(t) /\ k \in Nodes(t)
    BY <1>2, <1>4 DEF Span, Beneath
  <2>2. \A x, y \in Kids(t, n) : ~Above(t, x, y)
    <3>1. ASSUME NEW x \in Kids(t, n), NEW y \in Kids(t, n), Above(t, x, y) PROVE FALSE
      <4>1. x = n \/ Above(t, x, n)
        BY <1>2, <3>1, AboveCases
      <4>2. x # n /\ Above(t, n, x)
        BY <1>2, <3>1 DEF Above
      <4> QED
        BY <1>2, <4>1, <4>2, AboveOneWay
    <3> QED
      BY <3>1
  <2>3. (k = c \/ Above(t, c, k)) /\ (k = d \/ Above(t, d, k))
    BY <1>4 DEF Span, Beneath
  <2> QED
    BY <1>4, <2>1, <2>2, <2>3, AboveLinear
<1>5. Beneath(t, n) \subseteq Cover(t, Kids(t, n))
  <2> DEFINE T == {d \in Beneath(t, n) : \A c \in Kids(t, n) : d \notin Span(t, c)}
  <2>1. T \subseteq Nodes(t) \ {t.root}
    <3>1. \A d \in Beneath(t, n) : d \in Nodes(t) /\ d # t.root
      BY AboveCases DEF Beneath
    <3> QED
      BY <3>1
  <2>2. ASSUME NEW d \in T, ParentOf(t, d) \notin T PROVE FALSE
    <3>1. d \in Nodes(t) /\ d # t.root /\ d \in Beneath(t, n)
      BY <2>1, <2>2
    <3>2. ParentOf(t, d) \in Nodes(t) /\ d \in Kids(t, ParentOf(t, d))
      BY <3>1, ParentFacts
    <3>3. ParentOf(t, d) # n
      BY <2>2, <3>2 DEF Span
    <3>4. Above(t, n, ParentOf(t, d))
      BY <3>1, <3>3, AboveCases DEF Beneath
    <3>5. PICK c \in Kids(t, n) : ParentOf(t, d) \in Span(t, c)
      BY <2>2, <3>2, <3>4 DEF Beneath
    <3>6. Above(t, c, d)
      BY <1>2, <3>1, <3>5, AboveCases DEF Span, Beneath
    <3> QED
      BY <2>2, <3>1, <3>6 DEF Span, Beneath
  <2>3. T = {}
    <3> HIDE DEF T
    <3> QED
      BY <2>1, <2>2, NoRing
  <2> QED
    BY <2>3 DEF Cover
<1>6. \A c \in Kids(t, n) : n \notin Span(t, c)
  BY <1>2, AboveOneWay DEF Span, Beneath, Above
<1>7. Cover(t, Kids(t, n)) \subseteq Beneath(t, n)
  BY <1>2, <1>3 DEF Cover, Span, Beneath
<1> QED
  BY <1>1, <1>2, <1>4, <1>5, <1>6, <1>7 DEF Apart, Cover, Span

(* To replace a node by its children visits that node and leaves the rest.  *)
LEMMA VisitOne ==
  ASSUME NEW t \in Trees, NEW F, Apart(t, F), NEW p \in F
  PROVE  LET G == (F \ {p}) \cup Kids(t, p) IN
         /\ Apart(t, G) /\ Cover(t, G) = Cover(t, F) \ {p}
         /\ p \in Cover(t, F) /\ Kids(t, p) \cap F = {} /\ p \notin Kids(t, p)
         /\ Kids(t, p) \subseteq Cover(t, F) /\ Cover(t, F) \subseteq Nodes(t)
<1> DEFINE G == (F \ {p}) \cup Kids(t, p)
<1>1. \A n \in F : n \in Nodes(t) /\ Span(t, n) \subseteq Nodes(t)
  BY SpanParts DEF Apart
<1>2. /\ Apart(t, Kids(t, p)) /\ p \notin Cover(t, Kids(t, p))
      /\ Span(t, p) = {p} \cup Cover(t, Kids(t, p))
  BY <1>1, SpanParts
<1>3. \A n \in F \ {p} : Span(t, n) \cap Span(t, p) = {}
  BY DEF Apart
<1>4. \A c \in Kids(t, p) : Span(t, c) \subseteq Span(t, p) /\ c \in Span(t, c) /\ p \notin Span(t, c)
  BY <1>2 DEF Cover, Span
<1>5. \A n \in F : n \in Span(t, n)
  BY DEF Span
<1>6. Apart(t, G)
  BY <1>2, <1>3, <1>4 DEF Apart
<1>7. Cover(t, G) = Cover(t, F) \ {p}
  <2>1. Cover(t, F) = Cover(t, F \ {p}) \cup Span(t, p)
    BY DEF Cover
  <2>2. Cover(t, G) = Cover(t, F \ {p}) \cup Cover(t, Kids(t, p))
    BY DEF Cover
  <2>3. p \notin Cover(t, F \ {p})
    BY <1>3, <1>5 DEF Cover
  <2> QED
    BY <1>2, <2>1, <2>2, <2>3
<1>8. Kids(t, p) \cap F = {} /\ p \notin Kids(t, p)
  BY <1>3, <1>4, <1>5
<1>9. p \in Cover(t, F) /\ Kids(t, p) \subseteq Cover(t, F) /\ Cover(t, F) \subseteq Nodes(t)
  BY <1>1, <1>4, <1>5 DEF Cover
<1> QED
  BY <1>6, <1>7, <1>8, <1>9

(* The whole tree is the span of its root.                                  *)
LEMMA RootSpan == ASSUME NEW t \in Trees PROVE Span(t, t.root) = Nodes(t)
<1> DEFINE T == {n \in Nodes(t) : n \notin Span(t, t.root)}
<1>1. T \subseteq Nodes(t) \ {t.root}
  BY DEF Span
<1>2. ASSUME NEW n \in T, ParentOf(t, n) \notin T PROVE FALSE
  <2>1. n \in Nodes(t) /\ n # t.root /\ ParentOf(t, n) \in Nodes(t)
    BY <1>1, <1>2, ParentFacts
  <2>2. ParentOf(t, n) = t.root \/ Above(t, t.root, ParentOf(t, n))
    BY <1>2, <2>1 DEF Span, Beneath
  <2>3. Above(t, t.root, n)
    BY <2>1, <2>2, AboveCases, RootFact
  <2> QED
    BY <1>2, <2>1, <2>3 DEF Span, Beneath
<1>3. T = {}
  <2> HIDE DEF T
  <2> QED
    BY <1>1, <1>2, NoRing
<1>4. Span(t, t.root) \subseteq Nodes(t)
  BY RootFact, SpanParts
<1> QED
  BY <1>3, <1>4

-----------------------------------------------------------------------------
(* A stack without its top.                                                 *)
LEMMA BelowFacts ==
  ASSUME NEW E, NEW s \in Seq(E), s # <<>>
  PROVE  /\ Len(s) \in Nat \ {0} /\ DOMAIN s = 1..Len(s) /\ Pop(s) = s[Len(s)] /\ Pop(s) \in E
         /\ Below(s) \in Seq(E) /\ Len(Below(s)) = Len(s) - 1
         /\ DOMAIN Below(s) = 1..(Len(s) - 1) /\ \A i \in 1..(Len(s) - 1) : Below(s)[i] = s[i]
<1>1. Len(s) \in Nat \ {0} /\ DOMAIN s = 1..Len(s) /\ \A i \in 1..Len(s) : s[i] \in E
  BY EmptySeq, LenProperties, ElementOfSeq
<1>2. /\ Below(s) \in Seq(E) /\ Len(Below(s)) = Len(s) - 1
      /\ \A i \in 1..(Len(s) - 1) : Below(s)[i] = s[i]
  BY <1>1, SubSeqProperties DEF Below
<1>3. DOMAIN Below(s) = 1..(Len(s) - 1)
  BY <1>2, LenProperties
<1> QED
  BY <1>1, <1>2, <1>3 DEF Pop

(* What one turn does to a stack.                                           *)
LEMMA PushFacts ==
  ASSUME NEW E, NEW s \in Seq(E), s # <<>>, NEW push \in Seq(E)
  PROVE  /\ Len(s) \in Nat \ {0} /\ Pop(s) \in E /\ Len(s) \in DOMAIN s
         /\ Below(s) \o push \in Seq(E)
         /\ Len(Below(s) \o push) = Len(s) - 1 + Len(push)
         /\ DOMAIN (Below(s) \o push) = 1..(Len(s) - 1 + Len(push))
         /\ \A i \in 1..(Len(s) - 1) : (Below(s) \o push)[i] = s[i]
         /\ \A i \in 1..Len(push) : (Below(s) \o push)[Len(s) - 1 + i] = push[i]
<1>1. Len(s) \in Nat \ {0} /\ DOMAIN s = 1..Len(s) /\ Pop(s) \in E
  BY BelowFacts
<1>2. /\ Below(s) \in Seq(E) /\ Len(Below(s)) = Len(s) - 1
      /\ \A i \in 1..(Len(s) - 1) : Below(s)[i] = s[i]
  BY BelowFacts
<1>3. /\ Below(s) \o push \in Seq(E)
      /\ Len(Below(s) \o push) = Len(s) - 1 + Len(push)
      /\ \A i \in 1..(Len(s) - 1 + Len(push)) :
           (Below(s) \o push)[i] = IF i <= Len(s) - 1 THEN Below(s)[i] ELSE push[i - (Len(s) - 1)]
  <2>1. \A low \in Seq(E) :
          /\ low \o push \in Seq(E) /\ Len(low \o push) = Len(low) + Len(push)
          /\ \A i \in 1..(Len(low) + Len(push)) :
               (low \o push)[i] = IF i <= Len(low) THEN low[i] ELSE push[i - Len(low)]
    BY ConcatProperties
  <2> DEFINE low == Below(s)
  <2>2. low \in Seq(E) /\ Len(low) = Len(s) - 1
    BY <1>2
  <2> HIDE DEF low
  <2>3. /\ low \o push \in Seq(E) /\ Len(low \o push) = Len(s) - 1 + Len(push)
        /\ \A i \in 1..(Len(s) - 1 + Len(push)) :
             (low \o push)[i] = IF i <= Len(s) - 1 THEN low[i] ELSE push[i - (Len(s) - 1)]
    BY <2>1, <2>2
  <2> QED
    BY <2>3 DEF low
<1>4. DOMAIN (Below(s) \o push) = 1..(Len(s) - 1 + Len(push)) /\ Len(push) \in Nat
  BY <1>3, LenProperties
<1>5. \A i \in 1..(Len(s) - 1) : (Below(s) \o push)[i] = s[i]
  BY <1>1, <1>2, <1>3, <1>4
<1>6. ASSUME NEW i \in 1..Len(push) PROVE (Below(s) \o push)[Len(s) - 1 + i] = push[i]
  <2>1. /\ Len(s) - 1 + i \in 1..(Len(s) - 1 + Len(push)) /\ ~(Len(s) - 1 + i <= Len(s) - 1)
        /\ (Len(s) - 1 + i) - (Len(s) - 1) = i
    BY <1>1, <1>4
  <2> QED
    BY <1>3, <2>1
<1> QED
  BY <1>1, <1>3, <1>4, <1>5, <1>6

Distinct(s) == \A i, j \in DOMAIN s : i # j => s[i] # s[j]

LEMMA DistinctCount ==
  ASSUME NEW E, NEW s \in Seq(E), Distinct(s)
  PROVE  IsFiniteSet(Range(s)) /\ Cardinality(Range(s)) = Len(s) /\ Len(s) \in Nat
<1>1. Len(s) \in Nat /\ DOMAIN s = 1..Len(s)
  BY LenProperties
<1>2. s \in Bijection(1..Len(s), Range(s))
  BY <1>1, LenProperties DEF Distinct, Range, Bijection, Injection, Surjection, IsInjective
<1>3. IsFiniteSet(1..Len(s)) /\ Cardinality(1..Len(s)) = Len(s)
  BY <1>1, FS_Interval
<1> QED
  BY <1>1, <1>2, <1>3, FS_Bijection DEF ExistsBijection

(* A stack of distinct nodes whose spans have no node in common.            *)
IsStack(t, s) == s \in Seq(Nodes(t)) /\ Distinct(s) /\ Apart(t, Range(s))

(* The children of a node, in either order.                                 *)
LEMMA ChildrenFacts ==
  ASSUME NEW t \in Trees, NEW n \in Nodes(t)
  PROVE  LET kids == t.children[n]
             back == Reverse(kids) IN
         /\ kids \in Seq(Nodes(t)) /\ Distinct(kids) /\ Range(kids) = Kids(t, n)
         /\ back \in Seq(Nodes(t)) /\ Distinct(back) /\ Range(back) = Kids(t, n)
         /\ Len(kids) \in Nat /\ Len(back) = Len(kids)
         /\ DOMAIN kids = 1..Len(kids) /\ DOMAIN back = 1..Len(kids)
         /\ \A i \in 1..Len(kids) : back[i] = kids[Len(kids) - i + 1]
<1> DEFINE kids == t.children[n]
           back == Reverse(kids)
<1>1. kids \in Seq(Nodes(t)) /\ Distinct(kids) /\ Range(kids) = Kids(t, n)
  BY TreesAssumption DEF IsTree, Distinct, Kids
<1>2. Len(kids) \in Nat /\ DOMAIN kids = 1..Len(kids) /\ \A i \in 1..Len(kids) : kids[i] \in Nodes(t)
  BY <1>1, LenProperties, ElementOfSeq
<1>3. \A i \in 1..Len(kids) : Len(kids) - i + 1 \in 1..Len(kids)
  BY <1>2
<1>4. back = [i \in 1..Len(kids) |-> kids[(Len(kids) - i) + 1]]
  BY DEF Reverse
<1>5. back \in [1..Len(kids) -> Nodes(t)]
  BY <1>2, <1>3, <1>4
<1>6. back \in Seq(Nodes(t)) /\ Len(back) = Len(kids) /\ DOMAIN back = 1..Len(kids)
  BY <1>2, <1>5, <1>4
<1>7. Distinct(back)
  <2>1. ASSUME NEW i \in 1..Len(kids), NEW j \in 1..Len(kids), i # j PROVE back[i] # back[j]
    <3>1. Len(kids) - i + 1 # Len(kids) - j + 1
      BY <1>2, <2>1
    <3> QED
      BY <1>1, <1>2, <1>3, <1>4, <3>1 DEF Distinct
  <2> QED
    BY <1>6, <2>1 DEF Distinct
<1>8. Range(back) = Range(kids)
  <2>1. Range(back) \subseteq Range(kids)
    <3>1. ASSUME NEW i \in 1..Len(kids) PROVE back[i] \in Range(kids)
      <4>1. back[i] = kids[Len(kids) - i + 1] /\ Len(kids) - i + 1 \in DOMAIN kids
        BY <1>2, <1>3, <1>4
      <4> HIDE DEF back, kids
      <4> QED
        BY <4>1 DEF Range
    <3> HIDE DEF back
    <3> QED
      BY <1>6, <3>1 DEF Range
  <2>2. ASSUME NEW i \in 1..Len(kids) PROVE kids[i] \in Range(back)
    <3>1. Len(kids) - i + 1 \in 1..Len(kids) /\ Len(kids) - (Len(kids) - i + 1) + 1 = i
      BY <1>2
    <3>2. back[Len(kids) - i + 1] = kids[i]
      BY <1>4, <3>1
    <3> QED
      BY <1>6, <3>1, <3>2 DEF Range
  <2> QED
    BY <1>2, <2>1, <2>2 DEF Range
<1> QED
  BY <1>1, <1>2, <1>4, <1>6, <1>7, <1>8

(* A turn takes one node off what is to be visited.                         *)
LEMMA StackStep ==
  ASSUME NEW t \in Trees, NEW s, IsStack(t, s), s # <<>>,
         NEW push \in Seq(Nodes(t)), Distinct(push), Range(push) = Kids(t, Pop(s))
  PROVE  LET r == Below(s) \o push
             p == Pop(s) IN
         /\ p \in Nodes(t) /\ p \in Range(s) /\ IsStack(t, r)
         /\ Range(r) = (Range(s) \ {p}) \cup Kids(t, p)
         /\ Cover(t, Range(r)) = Cover(t, Range(s)) \ {p}
         /\ p \in Cover(t, Range(s)) /\ Kids(t, p) \cap Range(s) = {} /\ p \notin Kids(t, p)
         /\ Kids(t, p) \subseteq Cover(t, Range(s)) /\ Cover(t, Range(s)) \subseteq Nodes(t)
<1>1. s \in Seq(Nodes(t)) /\ DOMAIN s = 1..Len(s) /\ Len(push) \in Nat /\ DOMAIN push = 1..Len(push)
  BY LenProperties DEF IsStack
<1> DEFINE r == Below(s) \o push
           p == Pop(s)
<1>2. /\ Len(s) \in Nat \ {0} /\ p \in Nodes(t) /\ Len(s) \in DOMAIN s
      /\ r \in Seq(Nodes(t))
      /\ DOMAIN r = 1..(Len(s) - 1 + Len(push))
      /\ \A i \in 1..(Len(s) - 1) : r[i] = s[i]
      /\ \A i \in 1..Len(push) : r[Len(s) - 1 + i] = push[i]
  <2>1. s \in Seq(Nodes(t)) /\ s # <<>> /\ push \in Seq(Nodes(t))
    BY <1>1
  <2> QED
    <3>1. Len(s) \in Nat \ {0} /\ Pop(s) \in Nodes(t) /\ Len(s) \in DOMAIN s
      BY ONLY <2>1, BelowFacts
    <3>2. Below(s) \o push \in Seq(Nodes(t))
      BY ONLY <2>1, PushFacts
    <3>3. DOMAIN (Below(s) \o push) = 1..(Len(s) - 1 + Len(push))
      BY ONLY <2>1, PushFacts
    <3>4. \A i \in 1..(Len(s) - 1) : (Below(s) \o push)[i] = s[i]
      BY ONLY <2>1, PushFacts
    <3>5. \A i \in 1..Len(push) : (Below(s) \o push)[Len(s) - 1 + i] = push[i]
      BY ONLY <2>1, PushFacts
    <3> QED
      BY ONLY <3>1, <3>2, <3>3, <3>4, <3>5
<1> HIDE DEF r
<1>3. p \in Range(s)
  BY <1>2 DEF Range, Pop
<1>4. /\ Kids(t, p) \cap Range(s) = {} /\ p \notin Kids(t, p)
      /\ Apart(t, (Range(s) \ {p}) \cup Kids(t, p))
      /\ Cover(t, (Range(s) \ {p}) \cup Kids(t, p)) = Cover(t, Range(s)) \ {p}
      /\ p \in Cover(t, Range(s))
      /\ Kids(t, p) \subseteq Cover(t, Range(s)) /\ Cover(t, Range(s)) \subseteq Nodes(t)
  BY <1>3, VisitOne DEF IsStack
<1>5. \A i \in DOMAIN r : (i \in 1..(Len(s) - 1)) \/ (i - (Len(s) - 1) \in 1..Len(push)
                          /\ r[i] = push[i - (Len(s) - 1)])
  <2>1. ASSUME NEW i \in DOMAIN r, i \notin 1..(Len(s) - 1)
        PROVE  i - (Len(s) - 1) \in 1..Len(push) /\ r[i] = push[i - (Len(s) - 1)]
    <3>1. i - (Len(s) - 1) \in 1..Len(push) /\ Len(s) - 1 + (i - (Len(s) - 1)) = i
      BY <1>1, <1>2, <2>1
    <3> QED
      BY <1>2, <3>1
  <2> QED
    BY <2>1
<1>6. \A i \in 1..(Len(s) - 1) : i \in DOMAIN s /\ i # Len(s) /\ s[i] # p /\ s[i] \in Range(s)
  <2>1. ASSUME NEW i \in 1..(Len(s) - 1) PROVE i \in DOMAIN s /\ i # Len(s)
    BY <1>1, <1>2
  <2>2. \A i \in DOMAIN s : i # Len(s) => s[i] # p
    BY <1>2 DEF IsStack, Distinct, Pop
  <2> QED
    BY <2>1, <2>2 DEF Range
<1>7. Range(r) = (Range(s) \ {p}) \cup Kids(t, p)
  <2>1. Range(r) \subseteq (Range(s) \ {p}) \cup Kids(t, p)
    <3>1. \A i \in 1..Len(push) : push[i] \in Kids(t, p)
      BY <1>1 DEF Range
    <3>2. \A i \in DOMAIN r : r[i] \in (Range(s) \ {p}) \cup Kids(t, p)
      BY <1>2, <1>5, <1>6, <3>1
    <3> QED
      BY <3>2 DEF Range
  <2>2. ASSUME NEW x \in Range(s), x # p PROVE x \in Range(r)
    <3>1. PICK i \in DOMAIN s : s[i] = x
      BY DEF Range
    <3>2. i \in 1..(Len(s) - 1) /\ i \in DOMAIN r
      BY <1>1, <1>2, <2>2, <3>1 DEF Pop
    <3> QED
      BY <1>2, <3>1, <3>2 DEF Range
  <2>3. ASSUME NEW x \in Range(push) PROVE x \in Range(r)
    <3>1. PICK i \in 1..Len(push) : push[i] = x
      BY <1>1 DEF Range
    <3>2. Len(s) - 1 + i \in DOMAIN r
      BY <1>1, <1>2
    <3> QED
      BY <1>2, <3>1, <3>2 DEF Range
  <2> QED
    BY <2>1, <2>2, <2>3
<1>8. Distinct(r)
  <2>1. ASSUME NEW i \in DOMAIN r, NEW j \in DOMAIN r, i # j PROVE r[i] # r[j]
    <3>5. \A k \in 1..Len(push) : push[k] \in Kids(t, p)
      BY <1>1 DEF Range
    <3>1. CASE i \in 1..(Len(s) - 1) /\ j \in 1..(Len(s) - 1)
      BY <1>2, <1>6, <2>1, <3>1 DEF IsStack, Distinct
    <3>2. CASE i \in 1..(Len(s) - 1) /\ j \notin 1..(Len(s) - 1)
      BY <1>2, <1>4, <1>5, <1>6, <3>2, <3>5
    <3>3. CASE i \notin 1..(Len(s) - 1) /\ j \in 1..(Len(s) - 1)
      BY <1>2, <1>4, <1>5, <1>6, <3>3, <3>5
    <3>4. CASE i \notin 1..(Len(s) - 1) /\ j \notin 1..(Len(s) - 1)
      <4>1. i - (Len(s) - 1) # j - (Len(s) - 1)
        BY <1>2, <2>1
      <4> QED
        BY <1>1, <1>5, <3>4, <4>1 DEF Distinct
    <3> QED
      BY <3>1, <3>2, <3>3, <3>4
  <2> QED
    BY <2>1 DEF Distinct
<1>9. IsStack(t, r)
  BY <1>2, <1>4, <1>7, <1>8 DEF IsStack
<1> QED
  BY <1>2, <1>3, <1>4, <1>7, <1>9 DEF r

-----------------------------------------------------------------------------
(* The walks, turn by turn: each is a function of the number of turns that  *)
(* its body defines by recursion, and has one value for every number.       *)
CountType(t) == [stack : Seq(Nodes(t)), out : Nat]

CollectType(t) == [stack : Seq(Nodes(t)), out : Seq(Nodes(t))]

FlattenType(t) == [stack : Seq([node : Nodes(t), processed : BOOLEAN]), out : Seq(Nodes(t))]

FindType(t) == [stack : Seq(Nodes(t)), out : SUBSET Nodes(t)]

Line(t) == [node : Nodes(t), depth : Nat]

PrintType(t) == [stack : Seq(Line(t)), out : Seq(Line(t))]

LEMMA StepTypes ==
  ASSUME NEW t \in Trees
  PROVE  /\ \A w \in CountType(t) : w.stack # <<>> => CountStep(t, w) \in CountType(t)
         /\ \A w \in CollectType(t) : w.stack # <<>> => CollectStep(t, w) \in CollectType(t)
         /\ \A w \in FlattenType(t) : w.stack # <<>> => FlattenStep(t, w) \in FlattenType(t)
         /\ \A id : \A w \in FindType(t) : w.stack # <<>> => FindStep(t, id, w) \in FindType(t)
         /\ \A w \in PrintType(t) : w.stack # <<>> => PrintStep(t, w) \in PrintType(t)
<1>1. ASSUME NEW n \in Nodes(t)
      PROVE  /\ t.children[n] \in Seq(Nodes(t)) /\ Reverse(t.children[n]) \in Seq(Nodes(t))
             /\ DOMAIN t.children[n] = 1..Len(t.children[n]) /\ Len(t.children[n]) \in Nat
             /\ \A i \in 1..Len(t.children[n]) : Reverse(t.children[n])[i] \in Nodes(t)
  BY <1>1, ChildrenFacts, ElementOfSeq, Zenon
<1>2. ASSUME NEW w \in CountType(t), w.stack # <<>> PROVE CountStep(t, w) \in CountType(t)
  <2>1. w.stack \in Seq(Nodes(t)) /\ w.out \in Nat
    BY DEF CountType
  <2>2. Pop(w.stack) \in Nodes(t) /\ Below(w.stack) \o t.children[Pop(w.stack)] \in Seq(Nodes(t))
    <3>1. Pop(w.stack) \in Nodes(t)
      BY <1>2, <2>1, PushFacts, EmptySeq
    <3> QED
      BY <1>1, <1>2, <2>1, <3>1, PushFacts
  <2> QED
    BY <2>1, <2>2 DEF CountStep, CountType
<1>3. ASSUME NEW w \in CollectType(t), w.stack # <<>> PROVE CollectStep(t, w) \in CollectType(t)
  <2>1. w.stack \in Seq(Nodes(t)) /\ w.out \in Seq(Nodes(t))
    BY DEF CollectType
  <2>2. /\ Pop(w.stack) \in Nodes(t) /\ Below(w.stack) \o t.children[Pop(w.stack)] \in Seq(Nodes(t))
        /\ t.children[Pop(w.stack)] \in Seq(Nodes(t))
    <3>1. Pop(w.stack) \in Nodes(t)
      BY <1>3, <2>1, PushFacts, EmptySeq
    <3> QED
      BY <1>1, <1>3, <2>1, <3>1, PushFacts
  <2>3. w.out \o t.children[Pop(w.stack)] \in Seq(Nodes(t))
    BY <2>1, <2>2, ConcatProperties
  <2> QED
    BY <2>1, <2>2, <2>3 DEF CollectStep, CollectType
<1>4. ASSUME NEW w \in FlattenType(t), w.stack # <<>> PROVE FlattenStep(t, w) \in FlattenType(t)
  <2> DEFINE Entry == [node : Nodes(t), processed : BOOLEAN]
             top == Pop(w.stack)
             pushed == [i \in DOMAIN t.children[top.node] |->
                          [node |-> Reverse(t.children[top.node])[i], processed |-> FALSE]]
             self == <<[node |-> top.node, processed |-> TRUE]>>
  <2>1. w.stack \in Seq(Entry) /\ w.out \in Seq(Nodes(t))
    BY DEF FlattenType
  <2>2. top \in Entry
    <3> HIDE DEF Entry
    <3> QED
      BY <1>4, <2>1, PushFacts, EmptySeq
  <2>3. top.node \in Nodes(t)
    BY <2>2
  <2>4. pushed \in Seq(Entry) /\ self \in Seq(Entry)
    <3>1. \A i \in DOMAIN t.children[top.node] :
            [node |-> Reverse(t.children[top.node])[i], processed |-> FALSE] \in Entry
      BY <1>1, <2>3
    <3> HIDE DEF Entry, top
    <3>2. DOMAIN t.children[top.node] = 1..Len(t.children[top.node]) /\ Len(t.children[top.node]) \in Nat
      BY <1>1, <2>3
    <3>3. [node |-> top.node, processed |-> TRUE] \in Entry
      BY <2>3 DEF Entry
    <3> QED
      BY <3>1, <3>2, <3>3
  <2>5. Below(w.stack) \in Seq(Entry)
    <3> HIDE DEF Entry
    <3>1. Below(w.stack) \o <<>> \in Seq(Entry) /\ Len(w.stack) \in Nat \ {0}
      BY <1>4, <2>1, PushFacts, EmptySeq
    <3>2. \A i \in 1..(Len(w.stack) - 1) : w.stack[i] \in Entry
      BY <2>1, <3>1, ElementOfSeq
    <3> QED
      BY <3>1, <3>2, SubSeqProperties DEF Below
  <2>6. Below(w.stack) \o self \o pushed \in Seq(Entry)
    <3> HIDE DEF Entry, self, pushed
    <3> QED
      BY <2>4, <2>5, ConcatProperties
  <2>7. Append(w.out, top.node) \in Seq(Nodes(t))
    BY <2>1, <2>3
  <2>8. FlattenStep(t, w) =
          IF top.processed THEN [stack |-> Below(w.stack), out |-> Append(w.out, top.node)]
          ELSE [stack |-> Below(w.stack) \o self \o pushed, out |-> w.out]
    BY DEF FlattenStep
  <2> HIDE DEF top, self, pushed
  <2> QED
    BY <2>1, <2>5, <2>6, <2>7, <2>8 DEF FlattenType
<1>5. ASSUME NEW id, NEW w \in FindType(t), w.stack # <<>> PROVE FindStep(t, id, w) \in FindType(t)
  <2>1. w.stack \in Seq(Nodes(t))
    BY DEF FindType
  <2>2. Pop(w.stack) \in Nodes(t) /\ Below(w.stack) \o Reverse(t.children[Pop(w.stack)]) \in Seq(Nodes(t))
    <3>1. Pop(w.stack) \in Nodes(t)
      BY <1>5, <2>1, PushFacts, EmptySeq
    <3> QED
      BY <1>1, <1>5, <2>1, <3>1, PushFacts
  <2>3. <<>> \in Seq(Nodes(t))
    OBVIOUS
  <2> QED
    BY <2>1, <2>2, <2>3 DEF FindStep, FindType
<1>6. ASSUME NEW w \in PrintType(t), w.stack # <<>> PROVE PrintStep(t, w) \in PrintType(t)
  <2> DEFINE top == Pop(w.stack)
             pushed == [i \in DOMAIN t.children[top.node] |->
                          [node |-> Reverse(t.children[top.node])[i], depth |-> top.depth + 1]]
  <2>1. w.stack \in Seq(Line(t)) /\ w.out \in Seq(Line(t))
    BY DEF PrintType
  <2>2. top \in Line(t)
    BY <1>6, <2>1, PushFacts, EmptySeq
  <2>3. top.node \in Nodes(t) /\ top.depth \in Nat
    BY <2>2 DEF Line
  <2>4. pushed \in Seq(Line(t))
    <3>1. \A i \in DOMAIN t.children[top.node] :
            [node |-> Reverse(t.children[top.node])[i], depth |-> top.depth + 1] \in Line(t)
      BY <1>1, <2>3 DEF Line
    <3> HIDE DEF top
    <3>2. DOMAIN t.children[top.node] = 1..Len(t.children[top.node]) /\ Len(t.children[top.node]) \in Nat
      BY <1>1, <2>3
    <3> QED
      BY <3>1, <3>2
  <2>5. PrintStep(t, w) = [stack |-> Below(w.stack) \o pushed, out |-> Append(w.out, top)]
    BY DEF PrintStep
  <2> HIDE DEF top, pushed
  <2>6. Below(w.stack) \o pushed \in Seq(Line(t)) /\ Append(w.out, top) \in Seq(Line(t))
    BY <1>6, <2>1, <2>2, <2>4, PushFacts, AppendProperties
  <2> QED
    BY <2>5, <2>6 DEF PrintType
<1> QED
  BY <1>2, <1>3, <1>4, <1>5, <1>6

LEMMA CountTurns ==
  ASSUME NEW t \in Trees, NEW k \in Nat
  PROVE  /\ CountWalk(t, 0) = [stack |-> <<t.root>>, out |-> 0]
         /\ CountWalk(t, k + 1) =
              IF CountWalk(t, k).stack = <<>> THEN CountWalk(t, k)
              ELSE CountStep(t, CountWalk(t, k))
<1> DEFINE W == CountType(t)
           start == [stack |-> <<t.root>>, out |-> 0]
           Turn(w) == IF w.stack = <<>> THEN w ELSE CountStep(t, w)
           next == [w \in W |-> Turn(w)]
           Body(g) == [j \in Nat |-> IF j = 0 THEN start ELSE Turn(g[j - 1])]
           walk == CHOOSE g : g = Body(g)
<1>1. start \in W
  BY RootFact DEF CountType
<1>2. next \in [W -> W]
  BY StepTypes
<1>3. \E g : g = Body(g)
  <2>1. PICK f \in [Nat -> W] : f = [j \in Nat |-> IF j = 0 THEN start ELSE next[f[j - 1]]]
    <3> HIDE DEF W, start, next
    <3> QED
      BY <1>1, <1>2, IterateExists
  <2> HIDE DEF W
  <2>2. \A j \in Nat : j # 0 => f[j - 1] \in W
    OBVIOUS
  <2>3. \A j \in Nat : j # 0 => next[f[j - 1]] = Turn(f[j - 1])
    BY <2>2
  <2> HIDE DEF next, start, Turn
  <2>4. \A j \in Nat : (IF j = 0 THEN start ELSE next[f[j - 1]]) = (IF j = 0 THEN start ELSE Turn(f[j - 1]))
    BY <2>3
  <2>5. f = Body(f)
    BY <2>1, <2>4
  <2> HIDE DEF Body
  <2> QED
    BY <2>5
<1>4. walk = Body(walk)
  <2> HIDE DEF Body
  <2> QED
    BY <1>3
<1>5. CountWalk(t, 0) = walk[0] /\ CountWalk(t, k) = walk[k] /\ CountWalk(t, k + 1) = walk[k + 1]
  BY DEF CountWalk, Loop
<1>6. walk[0] = start /\ walk[k + 1] = Turn(walk[k])
  <2>1. k + 1 \in Nat /\ k + 1 # 0 /\ (k + 1) - 1 = k
    OBVIOUS
  <2> HIDE DEF walk, start, Turn
  <2> QED
    BY <1>4, <2>1
<1> HIDE DEF walk
<1> QED
  BY <1>5, <1>6

LEMMA CollectTurns ==
  ASSUME NEW t \in Trees, NEW n \in Nodes(t), NEW k \in Nat
  PROVE  /\ CollectWalk(t, n, 0) = [stack |-> <<n>>, out |-> <<>>]
         /\ CollectWalk(t, n, k + 1) =
              IF CollectWalk(t, n, k).stack = <<>> THEN CollectWalk(t, n, k)
              ELSE CollectStep(t, CollectWalk(t, n, k))
<1> DEFINE W == CollectType(t)
           start == [stack |-> <<n>>, out |-> <<>>]
           Turn(w) == IF w.stack = <<>> THEN w ELSE CollectStep(t, w)
           next == [w \in W |-> Turn(w)]
           Body(g) == [j \in Nat |-> IF j = 0 THEN start ELSE Turn(g[j - 1])]
           walk == CHOOSE g : g = Body(g)
<1>1. start \in W
  BY RootFact DEF CollectType
<1>2. next \in [W -> W]
  BY StepTypes
<1>3. \E g : g = Body(g)
  <2>1. PICK f \in [Nat -> W] : f = [j \in Nat |-> IF j = 0 THEN start ELSE next[f[j - 1]]]
    <3> HIDE DEF W, start, next
    <3> QED
      BY <1>1, <1>2, IterateExists
  <2> HIDE DEF W
  <2>2. \A j \in Nat : j # 0 => f[j - 1] \in W
    OBVIOUS
  <2>3. \A j \in Nat : j # 0 => next[f[j - 1]] = Turn(f[j - 1])
    BY <2>2
  <2> HIDE DEF next, start, Turn
  <2>4. \A j \in Nat : (IF j = 0 THEN start ELSE next[f[j - 1]]) = (IF j = 0 THEN start ELSE Turn(f[j - 1]))
    BY <2>3
  <2>5. f = Body(f)
    BY <2>1, <2>4
  <2> HIDE DEF Body
  <2> QED
    BY <2>5
<1>4. walk = Body(walk)
  <2> HIDE DEF Body
  <2> QED
    BY <1>3
<1>5. CollectWalk(t, n, 0) = walk[0] /\ CollectWalk(t, n, k) = walk[k] /\ CollectWalk(t, n, k + 1) = walk[k + 1]
  BY DEF CollectWalk, Loop
<1>6. walk[0] = start /\ walk[k + 1] = Turn(walk[k])
  <2>1. k + 1 \in Nat /\ k + 1 # 0 /\ (k + 1) - 1 = k
    OBVIOUS
  <2> HIDE DEF walk, start, Turn
  <2> QED
    BY <1>4, <2>1
<1> HIDE DEF walk
<1> QED
  BY <1>5, <1>6

LEMMA FlattenTurns ==
  ASSUME NEW t \in Trees, NEW k \in Nat
  PROVE  /\ FlattenWalk(t, 0) = [stack |-> <<[node |-> t.root, processed |-> FALSE]>>, out |-> <<>>]
         /\ FlattenWalk(t, k + 1) =
              IF FlattenWalk(t, k).stack = <<>> THEN FlattenWalk(t, k)
              ELSE FlattenStep(t, FlattenWalk(t, k))
<1> DEFINE W == FlattenType(t)
           start == [stack |-> <<[node |-> t.root, processed |-> FALSE]>>, out |-> <<>>]
           Turn(w) == IF w.stack = <<>> THEN w ELSE FlattenStep(t, w)
           next == [w \in W |-> Turn(w)]
           Body(g) == [j \in Nat |-> IF j = 0 THEN start ELSE Turn(g[j - 1])]
           walk == CHOOSE g : g = Body(g)
<1>1. start \in W
  BY RootFact DEF FlattenType
<1>2. next \in [W -> W]
  BY StepTypes
<1>3. \E g : g = Body(g)
  <2>1. PICK f \in [Nat -> W] : f = [j \in Nat |-> IF j = 0 THEN start ELSE next[f[j - 1]]]
    <3> HIDE DEF W, start, next
    <3> QED
      BY <1>1, <1>2, IterateExists
  <2> HIDE DEF W
  <2>2. \A j \in Nat : j # 0 => f[j - 1] \in W
    OBVIOUS
  <2>3. \A j \in Nat : j # 0 => next[f[j - 1]] = Turn(f[j - 1])
    BY <2>2
  <2> HIDE DEF next, start, Turn
  <2>4. \A j \in Nat : (IF j = 0 THEN start ELSE next[f[j - 1]]) = (IF j = 0 THEN start ELSE Turn(f[j - 1]))
    BY <2>3
  <2>5. f = Body(f)
    BY <2>1, <2>4
  <2> HIDE DEF Body
  <2> QED
    BY <2>5
<1>4. walk = Body(walk)
  <2> HIDE DEF Body
  <2> QED
    BY <1>3
<1>5. FlattenWalk(t, 0) = walk[0] /\ FlattenWalk(t, k) = walk[k] /\ FlattenWalk(t, k + 1) = walk[k + 1]
  BY DEF FlattenWalk, Loop
<1>6. walk[0] = start /\ walk[k + 1] = Turn(walk[k])
  <2>1. k + 1 \in Nat /\ k + 1 # 0 /\ (k + 1) - 1 = k
    OBVIOUS
  <2> HIDE DEF walk, start, Turn
  <2> QED
    BY <1>4, <2>1
<1> HIDE DEF walk
<1> QED
  BY <1>5, <1>6

LEMMA FindTurns ==
  ASSUME NEW t \in Trees, NEW id, id # t.root, NEW k \in Nat
  PROVE  /\ FindWalk(t, id, 0) = [stack |-> <<t.root>>, out |-> {}]
         /\ FindWalk(t, id, k + 1) =
              IF FindWalk(t, id, k).stack = <<>> THEN FindWalk(t, id, k)
              ELSE FindStep(t, id, FindWalk(t, id, k))
<1> DEFINE W == FindType(t)
           start == [stack |-> <<t.root>>, out |-> {}]
           Turn(w) == IF w.stack = <<>> THEN w ELSE FindStep(t, id, w)
           next == [w \in W |-> Turn(w)]
           Body(g) == [j \in Nat |-> IF j = 0 THEN start ELSE Turn(g[j - 1])]
           walk == CHOOSE g : g = Body(g)
<1>1. start \in W
  BY RootFact DEF FindType
<1>2. next \in [W -> W]
  BY StepTypes
<1>3. \E g : g = Body(g)
  <2>1. PICK f \in [Nat -> W] : f = [j \in Nat |-> IF j = 0 THEN start ELSE next[f[j - 1]]]
    <3> HIDE DEF W, start, next
    <3> QED
      BY <1>1, <1>2, IterateExists
  <2> HIDE DEF W
  <2>2. \A j \in Nat : j # 0 => f[j - 1] \in W
    OBVIOUS
  <2>3. \A j \in Nat : j # 0 => next[f[j - 1]] = Turn(f[j - 1])
    BY <2>2
  <2> HIDE DEF next, start, Turn
  <2>4. \A j \in Nat : (IF j = 0 THEN start ELSE next[f[j - 1]]) = (IF j = 0 THEN start ELSE Turn(f[j - 1]))
    BY <2>3
  <2>5. f = Body(f)
    BY <2>1, <2>4
  <2> HIDE DEF Body
  <2> QED
    BY <2>5
<1>4. walk = Body(walk)
  <2> HIDE DEF Body
  <2> QED
    BY <1>3
<1>5. FindWalk(t, id, 0) = walk[0] /\ FindWalk(t, id, k) = walk[k] /\ FindWalk(t, id, k + 1) = walk[k + 1]
  BY DEF FindWalk, Loop
<1>6. walk[0] = start /\ walk[k + 1] = Turn(walk[k])
  <2>1. k + 1 \in Nat /\ k + 1 # 0 /\ (k + 1) - 1 = k
    OBVIOUS
  <2> HIDE DEF walk, start, Turn
  <2> QED
    BY <1>4, <2>1
<1> HIDE DEF walk
<1> QED
  BY <1>5, <1>6

LEMMA PrintTurns ==
  ASSUME NEW t \in Trees, NEW k \in Nat
  PROVE  /\ PrintWalk(t, 0) = [stack |-> <<[node |-> t.root, depth |-> 0]>>, out |-> <<>>]
         /\ PrintWalk(t, k + 1) =
              IF PrintWalk(t, k).stack = <<>> THEN PrintWalk(t, k)
              ELSE PrintStep(t, PrintWalk(t, k))
<1> DEFINE W == PrintType(t)
           start == [stack |-> <<[node |-> t.root, depth |-> 0]>>, out |-> <<>>]
           Turn(w) == IF w.stack = <<>> THEN w ELSE PrintStep(t, w)
           next == [w \in W |-> Turn(w)]
           Body(g) == [j \in Nat |-> IF j = 0 THEN start ELSE Turn(g[j - 1])]
           walk == CHOOSE g : g = Body(g)
<1>1. start \in W
  BY RootFact DEF PrintType, Line
<1>2. next \in [W -> W]
  BY StepTypes
<1>3. \E g : g = Body(g)
  <2>1. PICK f \in [Nat -> W] : f = [j \in Nat |-> IF j = 0 THEN start ELSE next[f[j - 1]]]
    <3> HIDE DEF W, start, next
    <3> QED
      BY <1>1, <1>2, IterateExists
  <2> HIDE DEF W
  <2>2. \A j \in Nat : j # 0 => f[j - 1] \in W
    OBVIOUS
  <2>3. \A j \in Nat : j # 0 => next[f[j - 1]] = Turn(f[j - 1])
    BY <2>2
  <2> HIDE DEF next, start, Turn
  <2>4. \A j \in Nat : (IF j = 0 THEN start ELSE next[f[j - 1]]) = (IF j = 0 THEN start ELSE Turn(f[j - 1]))
    BY <2>3
  <2>5. f = Body(f)
    BY <2>1, <2>4
  <2> HIDE DEF Body
  <2> QED
    BY <2>5
<1>4. walk = Body(walk)
  <2> HIDE DEF Body
  <2> QED
    BY <1>3
<1>5. PrintWalk(t, 0) = walk[0] /\ PrintWalk(t, k) = walk[k] /\ PrintWalk(t, k + 1) = walk[k + 1]
  BY DEF PrintWalk, Loop
<1>6. walk[0] = start /\ walk[k + 1] = Turn(walk[k])
  <2>1. k + 1 \in Nat /\ k + 1 # 0 /\ (k + 1) - 1 = k
    OBVIOUS
  <2> HIDE DEF walk, start, Turn
  <2> QED
    BY <1>4, <2>1
<1> HIDE DEF walk
<1> QED
  BY <1>5, <1>6

-----------------------------------------------------------------------------
(* How many nodes were visited: one more with every turn.                   *)
Visited(t, s) == Nodes(t) \ Cover(t, Range(s))

LEMMA VisitedFacts ==
  ASSUME NEW t \in Trees, NEW S \in SUBSET Nodes(t), NEW C \in SUBSET S
  PROVE  /\ Cardinality(S \ C) \in Nat /\ Cardinality(S \ C) <= Cardinality(S)
         /\ Cardinality(S) \in Nat /\ IsFiniteSet(S)
         /\ \A p \in C : /\ Cardinality(S \ (C \ {p})) = Cardinality(S \ C) + 1
                         /\ Cardinality(S \ C) < Cardinality(S)
<1>1. IsFiniteSet(S) /\ IsFiniteSet(S \ C)
  BY TreesAssumption, FS_Subset
<1>2. Cardinality(S \ C) \in Nat /\ Cardinality(S) \in Nat /\ Cardinality(S \ C) <= Cardinality(S)
  BY <1>1, FS_CardinalityType, FS_Subset
<1>3. ASSUME NEW p \in C
      PROVE  /\ Cardinality(S \ (C \ {p})) = Cardinality(S \ C) + 1
             /\ Cardinality(S \ C) < Cardinality(S)
  <2>1. S \ (C \ {p}) = (S \ C) \cup {p} /\ p \notin S \ C
    OBVIOUS
  <2>2. Cardinality(S \ (C \ {p})) = Cardinality(S \ C) + 1
    BY <1>1, <2>1, FS_AddElement
  <2>3. Cardinality(S \ (C \ {p})) <= Cardinality(S)
    BY <1>1, FS_Subset
  <2> QED
    BY <1>2, <2>2, <2>3
<1> QED
  BY <1>1, <1>2, <1>3

(* A stack of one node.                                                     *)
LEMMA StackOfOne ==
  ASSUME NEW t \in Trees, NEW n \in Nodes(t)
  PROVE  IsStack(t, <<n>>) /\ Range(<<n>>) = {n} /\ Cover(t, Range(<<n>>)) = Span(t, n)
<1>1. Range(<<n>>) = {n}
  BY DEF Range
<1> QED
  BY <1>1 DEF IsStack, Distinct, Apart, Cover

LEMMA EmptyStack == ASSUME NEW t PROVE Cover(t, Range(<<>>)) = {}
  BY DEF Cover, Range

(* While there is something on the stack not every node was visited.        *)
LEMMA StackTop ==
  ASSUME NEW t \in Trees, NEW s, IsStack(t, s), s # <<>>
  PROVE  /\ Pop(s) \in Nodes(t) /\ Pop(s) \in Range(s) /\ Pop(s) \in Cover(t, Range(s))
         /\ Cover(t, Range(s)) \subseteq Nodes(t)
         /\ Cardinality(Visited(t, s)) < Cardinality(Nodes(t))
<1>1. s \in Seq(Nodes(t)) /\ <<>> \in Seq(Nodes(t))
  BY DEF IsStack
<1>2. Pop(s) \in Nodes(t) /\ Len(s) \in DOMAIN s
  BY <1>1, PushFacts
<1>3. Pop(s) \in Range(s)
  BY <1>2 DEF Pop, Range
<1>4. Pop(s) \in Cover(t, Range(s)) /\ Cover(t, Range(s)) \subseteq Nodes(t)
  BY <1>3, VisitOne DEF IsStack
<1> QED
  BY <1>2, <1>3, <1>4, VisitedFacts DEF Visited

LEMMA VisitedNext ==
  ASSUME NEW t \in Trees, NEW s, IsStack(t, s), s # <<>>,
         NEW push \in Seq(Nodes(t)), Distinct(push), Range(push) = Kids(t, Pop(s))
  PROVE  /\ IsStack(t, Below(s) \o push)
         /\ Visited(t, Below(s) \o push) = Visited(t, s) \cup {Pop(s)}
         /\ Pop(s) \notin Visited(t, s)
         /\ Cardinality(Visited(t, Below(s) \o push)) = Cardinality(Visited(t, s)) + 1
<1>1. /\ IsStack(t, Below(s) \o push)
      /\ Cover(t, Range(Below(s) \o push)) = Cover(t, Range(s)) \ {Pop(s)}
  BY StackStep
<1>2. Pop(s) \in Cover(t, Range(s)) /\ Cover(t, Range(s)) \subseteq Nodes(t)
  BY StackTop
<1> DEFINE C == Cover(t, Range(s))
<1>3. Cardinality(Nodes(t) \ (C \ {Pop(s)})) = Cardinality(Nodes(t) \ C) + 1
  <2> HIDE DEF C
  <2> QED
    BY <1>2, VisitedFacts DEF C
<1> QED
  BY <1>1, <1>2, <1>3 DEF Visited

(* count_total_operations counts the nodes it has visited.                  *)
Counted(t, w, k) ==
  /\ w \in CountType(t) /\ IsStack(t, w.stack)
  /\ w.out = Cardinality(Visited(t, w.stack))
  /\ w.stack # <<>> => w.out = k

LEMMA CountStart == ASSUME NEW t \in Trees PROVE Counted(t, CountWalk(t, 0), 0)
<1>1. CountWalk(t, 0) = [stack |-> <<t.root>>, out |-> 0]
  BY CountTurns
<1>2. t.root \in Nodes(t) /\ IsStack(t, <<t.root>>) /\ Visited(t, <<t.root>>) = {}
  BY RootFact, StackOfOne, RootSpan DEF Visited
<1>3. Cardinality({}) = 0 /\ <<t.root>> # <<>> /\ <<t.root>> \in Seq(Nodes(t))
  BY <1>2, FS_EmptySet
<1>4. [stack |-> <<t.root>>, out |-> 0] \in CountType(t)
  BY <1>3 DEF CountType
<1>5. Counted(t, [stack |-> <<t.root>>, out |-> 0], 0)
  BY <1>2, <1>3, <1>4 DEF Counted
<1> QED
  BY <1>1, <1>5

LEMMA CountTurn ==
  ASSUME NEW t \in Trees, NEW k \in Nat, NEW w, Counted(t, w, k), w.stack # <<>>
  PROVE  Counted(t, CountStep(t, w), k + 1)
<1> DEFINE p == Pop(w.stack)
           v == CountStep(t, w)
<1>1. v.stack = Below(w.stack) \o t.children[p] /\ v.out = w.out + 1
  BY DEF CountStep
<1>2. v \in CountType(t) /\ IsStack(t, w.stack)
  BY StepTypes DEF Counted
<1>3. /\ t.children[p] \in Seq(Nodes(t)) /\ Distinct(t.children[p])
      /\ Range(t.children[p]) = Kids(t, p)
  BY <1>2, StackTop, ChildrenFacts
<1>4. IsStack(t, v.stack) /\ Cardinality(Visited(t, v.stack)) = Cardinality(Visited(t, w.stack)) + 1
  <2> HIDE DEF v
  <2> QED
    BY <1>1, <1>2, <1>3, VisitedNext
<1>5. w.out = k /\ w.out = Cardinality(Visited(t, w.stack))
  BY DEF Counted
<1>6. Counted(t, v, k + 1)
  <2> HIDE DEF v
  <2> QED
    BY <1>1, <1>2, <1>4, <1>5 DEF Counted
<1> QED
  BY <1>6

LEMMA CountsAll ==
  ASSUME NEW t \in Trees
  PROVE  LET count == CountWalk(t, Cardinality(Nodes(t)))
         IN  count.stack = <<>> /\ count.out = Cardinality(Nodes(t))
<1> DEFINE S == {k \in Nat : Counted(t, CountWalk(t, k), k)}
           size == Cardinality(Nodes(t))
           count == CountWalk(t, size)
<1>1. Nat \subseteq S
  <2>1. ASSUME NEW k \in Nat, Counted(t, CountWalk(t, k), k)
        PROVE  Counted(t, CountWalk(t, k + 1), k + 1)
    <3>1. CASE CountWalk(t, k).stack = <<>>
      BY <2>1, <3>1, CountTurns DEF Counted
    <3>2. CASE CountWalk(t, k).stack # <<>>
      BY <2>1, <3>2, CountTurns, CountTurn
    <3> QED
      BY <3>1, <3>2
  <2>2. 0 \in S
    BY CountStart
  <2>3. \A k \in Nat : k \in S => k + 1 \in S
    BY <2>1
  <2> HIDE DEF S
  <2> QED
    BY <2>2, <2>3, NatSetInduction
<1>2. size \in Nat
  BY VisitedFacts
<1>3. Counted(t, count, size)
  BY <1>1, <1>2
<1> HIDE DEF count
<1>4. count.stack = <<>>
  BY <1>2, <1>3, StackTop DEF Counted
<1>5. Visited(t, <<>>) = Nodes(t)
  BY EmptyStack DEF Visited
<1> QED
  BY <1>3, <1>4, <1>5 DEF Counted, count

-----------------------------------------------------------------------------
(* find_node_by_id visits nodes until it meets the one it looks for.        *)
Sought(t, id, w, k) ==
  \/ id \in Nodes(t) /\ w.stack = <<>> /\ w.out = {id}
  \/ /\ w \in FindType(t) /\ IsStack(t, w.stack) /\ w.out = {}
     /\ id \notin Visited(t, w.stack)
     /\ w.stack # <<>> => Cardinality(Visited(t, w.stack)) = k

LEMMA FindTurn ==
  ASSUME NEW t \in Trees, NEW id, NEW k \in Nat, NEW w, Sought(t, id, w, k), w.stack # <<>>
  PROVE  Sought(t, id, FindStep(t, id, w), k + 1)
<1> DEFINE p == Pop(w.stack)
           v == FindStep(t, id, w)
<1>1. v \in FindType(t) /\ IsStack(t, w.stack)
  BY StepTypes DEF Sought
<1>2. p \in Nodes(t)
  BY <1>1, StackTop
<1>3. CASE p = id
  BY <1>2, <1>3 DEF FindStep, Sought
<1>4. CASE p # id
  <2>1. v.stack = Below(w.stack) \o Reverse(t.children[p]) /\ v.out = {}
    BY <1>4 DEF FindStep
  <2>2. /\ Reverse(t.children[p]) \in Seq(Nodes(t)) /\ Distinct(Reverse(t.children[p]))
        /\ Range(Reverse(t.children[p])) = Kids(t, p)
    BY <1>2, ChildrenFacts
  <2>3. /\ IsStack(t, v.stack) /\ Visited(t, v.stack) = Visited(t, w.stack) \cup {p}
        /\ Cardinality(Visited(t, v.stack)) = Cardinality(Visited(t, w.stack)) + 1
    <3> HIDE DEF v
    <3> QED
      BY <1>1, <2>1, <2>2, VisitedNext
  <2>4. id \notin Visited(t, w.stack) /\ Cardinality(Visited(t, w.stack)) = k
    BY DEF Sought
  <2>5. Sought(t, id, v, k + 1)
    <3> HIDE DEF v
    <3> QED
      BY <1>1, <1>4, <2>1, <2>3, <2>4 DEF Sought
  <2> QED
    BY <2>5
<1> QED
  BY <1>3, <1>4

LEMMA FindsAll ==
  ASSUME NEW t \in Trees, NEW id
  PROVE  LET found == FindWalk(t, id, Cardinality(Nodes(t)))
         IN  found.stack = <<>> /\ found.out = Nodes(t) \cap {id}
<1> DEFINE S == {k \in Nat : Sought(t, id, FindWalk(t, id, k), k)}
           size == Cardinality(Nodes(t))
           found == FindWalk(t, id, size)
<1>1. CASE id = t.root
  BY <1>1, RootFact DEF FindWalk
<1>2. CASE id # t.root
  <2>1. Nat \subseteq S
    <3>1. ASSUME NEW k \in Nat, Sought(t, id, FindWalk(t, id, k), k)
          PROVE  Sought(t, id, FindWalk(t, id, k + 1), k + 1)
      <4>1. CASE FindWalk(t, id, k).stack = <<>>
        BY <1>2, <3>1, <4>1, FindTurns DEF Sought
      <4>2. CASE FindWalk(t, id, k).stack # <<>>
        BY <1>2, <3>1, <4>2, FindTurns, FindTurn
      <4> QED
        BY <4>1, <4>2
    <3>2. 0 \in S
      <4>1. FindWalk(t, id, 0) = [stack |-> <<t.root>>, out |-> {}]
        BY <1>2, FindTurns
      <4>2. t.root \in Nodes(t) /\ IsStack(t, <<t.root>>) /\ Visited(t, <<t.root>>) = {}
        BY RootFact, StackOfOne, RootSpan DEF Visited
      <4>3. Cardinality({}) = 0 /\ <<t.root>> \in Seq(Nodes(t))
        BY <4>2, FS_EmptySet
      <4>4. Sought(t, id, [stack |-> <<t.root>>, out |-> {}], 0)
        BY <4>2, <4>3 DEF Sought, FindType
      <4> QED
        BY <4>1, <4>4
    <3>3. \A k \in Nat : k \in S => k + 1 \in S
      BY <3>1
    <3> HIDE DEF S
    <3> QED
      BY <3>2, <3>3, NatSetInduction
  <2>2. size \in Nat
    BY VisitedFacts
  <2>3. Sought(t, id, found, size)
    BY <2>1, <2>2
  <2> HIDE DEF found
  <2>4. found.stack = <<>>
    BY <2>2, <2>3, StackTop DEF Sought
  <2>5. Visited(t, <<>>) = Nodes(t)
    BY EmptyStack DEF Visited
  <2> QED
    BY <2>3, <2>4, <2>5 DEF Sought, found
<1> QED
  BY <1>1, <1>2

-----------------------------------------------------------------------------
(* Sequences of distinct elements, one after the other.                     *)
LEMMA JoinFacts ==
  ASSUME NEW E, NEW a \in Seq(E), NEW b \in Seq(E), Distinct(a), Distinct(b),
         Range(a) \cap Range(b) = {}
  PROVE  a \o b \in Seq(E) /\ Distinct(a \o b) /\ Range(a \o b) = Range(a) \cup Range(b)
<1>1. /\ Len(a) \in Nat /\ DOMAIN a = 1..Len(a) /\ Len(b) \in Nat /\ DOMAIN b = 1..Len(b)
      /\ a \o b \in Seq(E)
      /\ Len(a \o b) = Len(a) + Len(b)
      /\ \A i \in 1..(Len(a) + Len(b)) : (a \o b)[i] = IF i <= Len(a) THEN a[i] ELSE b[i - Len(a)]
  BY LenProperties, ConcatProperties
<1>2. DOMAIN (a \o b) = 1..(Len(a) + Len(b))
  BY <1>1, LenProperties
<1> DEFINE c == a \o b
<1>3. \A i \in 1..(Len(a) + Len(b)) :
        \/ i \in DOMAIN a /\ c[i] = a[i] /\ c[i] \in Range(a)
        \/ i > Len(a) /\ i - Len(a) \in DOMAIN b /\ c[i] = b[i - Len(a)] /\ c[i] \in Range(b)
  <2>1. ASSUME NEW i \in 1..(Len(a) + Len(b))
        PROVE  \/ i \in DOMAIN a /\ c[i] = a[i]
               \/ i > Len(a) /\ i - Len(a) \in DOMAIN b /\ c[i] = b[i - Len(a)]
    BY <1>1
  <2> HIDE DEF c
  <2> QED
    BY <2>1 DEF Range
<1>4. ASSUME NEW i \in DOMAIN c, NEW j \in DOMAIN c, i # j PROVE c[i] # c[j]
  <2>1. i \in 1..(Len(a) + Len(b)) /\ j \in 1..(Len(a) + Len(b))
    BY <1>2
  <2>2. i - Len(a) # j - Len(a)
    BY <1>1, <1>4, <2>1
  <2> HIDE DEF c
  <2> QED
    BY <1>3, <1>4, <2>1, <2>2 DEF Distinct
<1>5. Range(c) = Range(a) \cup Range(b)
  BY RangeConcatenation
<1> QED
  BY <1>1, <1>4, <1>5 DEF Distinct

(* collect_orphaned_nodes has collected what is beneath n but for what is   *)
(* strictly beneath the stack.                                              *)
Collected(t, n, w, k) ==
  /\ w \in CollectType(t) /\ IsStack(t, w.stack)
  /\ Cover(t, Range(w.stack)) \subseteq Span(t, n)
  /\ Distinct(w.out)
  /\ Range(w.out) = Beneath(t, n) \ (Cover(t, Range(w.stack)) \ Range(w.stack))
  /\ w.stack # <<>> => Cardinality(Span(t, n) \ Cover(t, Range(w.stack))) = k

LEMMA CollectStart ==
  ASSUME NEW t \in Trees, NEW n \in Nodes(t) PROVE Collected(t, n, CollectWalk(t, n, 0), 0)
<1>1. CollectWalk(t, n, 0) = [stack |-> <<n>>, out |-> <<>>]
  BY CollectTurns
<1>2. IsStack(t, <<n>>) /\ Range(<<n>>) = {n} /\ Cover(t, Range(<<n>>)) = Span(t, n)
  BY StackOfOne
<1>3. [stack |-> <<n>>, out |-> <<>>] \in CollectType(t)
  BY DEF CollectType
<1>4. Distinct(<<>>) /\ Range(<<>>) = {}
  BY DEF Distinct, Range
<1>5. Beneath(t, n) \ (Span(t, n) \ {n}) = {} /\ Span(t, n) \ Span(t, n) = {} /\ Cardinality({}) = 0
  BY FS_EmptySet DEF Span, Beneath, Above
<1>6. Collected(t, n, [stack |-> <<n>>, out |-> <<>>], 0)
  BY <1>2, <1>3, <1>4, <1>5 DEF Collected
<1> QED
  BY <1>1, <1>6

LEMMA CollectTurn ==
  ASSUME NEW t \in Trees, NEW n \in Nodes(t), NEW k \in Nat, NEW w,
         Collected(t, n, w, k), w.stack # <<>>
  PROVE  Collected(t, n, CollectStep(t, w), k + 1)
<1> DEFINE p == Pop(w.stack)
           v == CollectStep(t, w)
           C == Cover(t, Range(w.stack))
<1>1. v.stack = Below(w.stack) \o t.children[p] /\ v.out = w.out \o t.children[p]
  BY DEF CollectStep
<1>2. v \in CollectType(t) /\ IsStack(t, w.stack) /\ w.out \in Seq(Nodes(t))
  BY StepTypes DEF Collected, CollectType
<1>3. /\ t.children[p] \in Seq(Nodes(t)) /\ Distinct(t.children[p])
      /\ Range(t.children[p]) = Kids(t, p)
  BY <1>2, StackTop, ChildrenFacts
<1> HIDE DEF v
<1>4. /\ p \in Nodes(t) /\ p \in Range(w.stack) /\ IsStack(t, v.stack)
      /\ Range(v.stack) = (Range(w.stack) \ {p}) \cup Kids(t, p)
      /\ Cover(t, Range(v.stack)) = C \ {p}
      /\ p \in C /\ Kids(t, p) \cap Range(w.stack) = {} /\ p \notin Kids(t, p)
      /\ Kids(t, p) \subseteq C
  BY <1>1, <1>2, <1>3, StackStep
<1>5. C \subseteq Span(t, n) /\ Span(t, n) \subseteq Nodes(t) /\ n \notin Beneath(t, n)
  BY SpanParts DEF Collected, Beneath, Above
<1>6. Range(w.out) = Beneath(t, n) \ (C \ Range(w.stack))
  BY DEF Collected
<1>7. Kids(t, p) \subseteq Beneath(t, n)
  <2>1. n \notin Kids(t, p)
    <3>1. SUFFICES ASSUME n \in Kids(t, p) PROVE FALSE
      OBVIOUS
    <3>2. Above(t, p, n) /\ p \in Nodes(t)
      BY <1>4, <3>1, KidFacts, AboveParent
    <3>3. p = n \/ Above(t, n, p)
      BY <1>4, <1>5 DEF Span, Beneath
    <3> QED
      BY <3>2, <3>3, AboveOneWay DEF Above
  <2> QED
    BY <1>4, <1>5, <2>1 DEF Span
<1>8. Distinct(v.out) /\ Range(v.out) = Range(w.out) \cup Kids(t, p)
  <2>1. Range(w.out) \cap Kids(t, p) = {}
    BY <1>4, <1>6
  <2>2. Distinct(w.out)
    BY DEF Collected
  <2> QED
    BY <1>1, <1>2, <1>3, <2>1, <2>2, JoinFacts
<1>9. Range(v.out) = Beneath(t, n) \ (Cover(t, Range(v.stack)) \ Range(v.stack))
  BY <1>4, <1>6, <1>7, <1>8
<1>10. Cardinality(Span(t, n) \ Cover(t, Range(v.stack))) = k + 1
  <2>1. Cardinality(Span(t, n) \ C) = k
    BY DEF Collected
  <2> HIDE DEF C
  <2>2. Cardinality(Span(t, n) \ (C \ {p})) = Cardinality(Span(t, n) \ C) + 1
    BY <1>4, <1>5, VisitedFacts
  <2> QED
    BY <1>4, <2>1, <2>2
<1>11. Collected(t, n, v, k + 1)
  BY <1>2, <1>4, <1>5, <1>8, <1>9, <1>10 DEF Collected
<1> QED
  BY <1>11 DEF v

LEMMA CollectsAll ==
  ASSUME NEW t \in Trees, NEW n \in Nodes(t)
  PROVE  LET orphans == CollectWalk(t, n, Cardinality(Descendants(t, n)) + 1)
         IN  orphans.stack = <<>> /\ IsPermutationOf(orphans.out, Descendants(t, n))
<1> DEFINE S == {k \in Nat : Collected(t, n, CollectWalk(t, n, k), k)}
           size == Cardinality(Descendants(t, n)) + 1
           orphans == CollectWalk(t, n, size)
<1>1. Nat \subseteq S
  <2>1. ASSUME NEW k \in Nat, Collected(t, n, CollectWalk(t, n, k), k)
        PROVE  Collected(t, n, CollectWalk(t, n, k + 1), k + 1)
    <3>1. CASE CollectWalk(t, n, k).stack = <<>>
      BY <2>1, <3>1, CollectTurns DEF Collected
    <3>2. CASE CollectWalk(t, n, k).stack # <<>>
      BY <2>1, <3>2, CollectTurns, CollectTurn
    <3> QED
      BY <3>1, <3>2
  <2>2. 0 \in S
    BY CollectStart
  <2>3. \A k \in Nat : k \in S => k + 1 \in S
    BY <2>1
  <2> HIDE DEF S
  <2> QED
    BY <2>2, <2>3, NatSetInduction
<1>2. size \in Nat /\ size = Cardinality(Span(t, n))
  <2>1. Descendants(t, n) = Beneath(t, n) /\ Beneath(t, n) \subseteq Nodes(t) /\ n \notin Beneath(t, n)
    BY OrphansAreBeneath DEF Beneath, Above
  <2>2. IsFiniteSet(Beneath(t, n)) /\ Cardinality(Beneath(t, n)) \in Nat
    BY <2>1, VisitedFacts
  <2>3. Cardinality(Beneath(t, n) \cup {n}) = Cardinality(Beneath(t, n)) + 1
    BY <2>1, <2>2, FS_AddElement
  <2>4. Span(t, n) = Beneath(t, n) \cup {n}
    BY DEF Span
  <2> QED
    BY <2>1, <2>2, <2>3, <2>4
<1>3. Collected(t, n, orphans, size)
  BY <1>1, <1>2
<1> HIDE DEF orphans, size
<1>4. orphans.stack = <<>>
  <2>1. SUFFICES ASSUME orphans.stack # <<>> PROVE FALSE
    OBVIOUS
  <2> DEFINE C == Cover(t, Range(orphans.stack))
  <2>2. Pop(orphans.stack) \in C /\ C \subseteq Span(t, n) /\ Span(t, n) \subseteq Nodes(t)
    BY <1>3, <2>1, StackTop, SpanParts DEF Collected
  <2>3. Cardinality(Span(t, n) \ C) = size
    BY <1>3, <2>1 DEF Collected
  <2> HIDE DEF C
  <2>4. Cardinality(Span(t, n) \ C) < Cardinality(Span(t, n))
    BY <2>2, VisitedFacts
  <2> QED
    BY <1>2, <2>3, <2>4
<1>5. Range(orphans.out) = Beneath(t, n) /\ Distinct(orphans.out) /\ orphans.out \in Seq(Nodes(t))
  BY <1>3, <1>4, EmptyStack DEF Collected, CollectType
<1>6. Len(orphans.out) = Cardinality(Beneath(t, n)) /\ ToSet(orphans.out) = Beneath(t, n)
  BY <1>5, DistinctCount DEF ToSet, Range
<1> QED
  BY <1>4, <1>6, OrphansAreBeneath DEF IsPermutationOf, orphans, size

-----------------------------------------------------------------------------
(* What comes before what in a sequence.                                    *)
LEMMA BeforeJoined ==
  ASSUME NEW E, NEW a \in Seq(E), NEW b \in Seq(E)
  PROVE  /\ \A x, y : Before(a, x, y) \/ Before(b, x, y) => Before(a \o b, x, y)
         /\ \A x \in Range(a) : \A y \in Range(b) : Before(a \o b, x, y)
<1> DEFINE c == a \o b
<1>1. /\ Len(a) \in Nat /\ DOMAIN a = 1..Len(a) /\ Len(b) \in Nat /\ DOMAIN b = 1..Len(b)
      /\ c \in Seq(E) /\ Len(c) = Len(a) + Len(b)
      /\ \A i \in 1..(Len(a) + Len(b)) : c[i] = IF i <= Len(a) THEN a[i] ELSE b[i - Len(a)]
  BY LenProperties, ConcatProperties
<1>2. DOMAIN c = 1..(Len(a) + Len(b))
  BY <1>1, LenProperties
<1> HIDE DEF c
<1>3. \A i \in DOMAIN a : i \in DOMAIN c /\ c[i] = a[i]
  BY <1>1, <1>2
<1>4. ASSUME NEW i \in DOMAIN b PROVE Len(a) + i \in DOMAIN c /\ c[Len(a) + i] = b[i]
  <2>1. i \in 1..Len(b) /\ (Len(a) + i) - Len(a) = i /\ ~(Len(a) + i <= Len(a))
    BY <1>1
  <2> QED
    BY <1>1, <1>2, <2>1
<1>5. ASSUME NEW x, NEW y, Before(a, x, y) PROVE Before(c, x, y)
  BY <1>3, <1>5 DEF Before
<1>6. ASSUME NEW x, NEW y, Before(b, x, y) PROVE Before(c, x, y)
  <2>1. PICK i \in DOMAIN b, j \in DOMAIN b : i < j /\ b[i] = x /\ b[j] = y
    BY <1>6 DEF Before
  <2>2. Len(a) + i < Len(a) + j
    BY <1>1, <2>1
  <2> QED
    BY <1>4, <2>1, <2>2 DEF Before
<1>7. ASSUME NEW x \in Range(a), NEW y \in Range(b) PROVE Before(c, x, y)
  <2>1. PICK i \in DOMAIN a : a[i] = x
    BY DEF Range
  <2>2. PICK j \in DOMAIN b : b[j] = y
    BY DEF Range
  <2>3. i < Len(a) + j
    BY <1>1
  <2> QED
    BY <1>3, <1>4, <2>1, <2>2, <2>3 DEF Before
<1> QED
  BY <1>5, <1>6, <1>7 DEF c

LEMMA BeforeAppended ==
  ASSUME NEW E, NEW a \in Seq(E), NEW e \in E
  PROVE  /\ Append(a, e) \in Seq(E) /\ Range(Append(a, e)) = Range(a) \cup {e}
         /\ Distinct(a) /\ e \notin Range(a) => Distinct(Append(a, e))
         /\ Len(Append(a, e)) = Len(a) + 1
         /\ \A x, y : Before(a, x, y) => Before(Append(a, e), x, y)
         /\ \A x \in Range(a) : Before(Append(a, e), x, e)
<1>1. Append(a, e) = a \o <<e>> /\ <<e>> \in Seq(E)
  OBVIOUS
<1>2. Range(<<e>>) = {e} /\ Distinct(<<e>>)
  BY DEF Range, Distinct
<1>3. /\ \A x, y : Before(a, x, y) => Before(a \o <<e>>, x, y)
      /\ \A x \in Range(a) : Before(a \o <<e>>, x, e)
  BY <1>1, <1>2, BeforeJoined
<1>4. Range(a \o <<e>>) = Range(a) \cup {e} /\ a \o <<e>> \in Seq(E)
  BY <1>1, <1>2, RangeConcatenation, ConcatProperties
<1>5. Distinct(a) /\ e \notin Range(a) => Distinct(a \o <<e>>)
  BY <1>1, <1>2, JoinFacts
<1> QED
  BY <1>1, <1>3, <1>4, <1>5, AppendProperties

(* Nothing comes after the top; without it the rest keeps its order.        *)
LEMMA BeforePopped ==
  ASSUME NEW E, NEW s \in Seq(E), s # <<>>, Distinct(s)
  PROVE  /\ Below(s) \in Seq(E) /\ Range(Below(s)) = Range(s) \ {Pop(s)} /\ Distinct(Below(s))
         /\ Pop(s) \in E /\ Pop(s) \in Range(s)
         /\ \A x, y : Before(s, x, y) => x # Pop(s) /\ x \in Range(s) /\ y \in Range(s)
         /\ \A x, y : Before(s, x, y) /\ y # Pop(s) => Before(Below(s), x, y)
<1> DEFINE r == Below(s)
<1>1. Len(s) \in Nat \ {0} /\ DOMAIN s = 1..Len(s) /\ Pop(s) \in E /\ Pop(s) = s[Len(s)]
  BY BelowFacts
<1>2. r \in Seq(E) /\ \A i \in 1..(Len(s) - 1) : r[i] = s[i]
  BY BelowFacts
<1>3. DOMAIN r = 1..(Len(s) - 1)
  BY BelowFacts
<1> HIDE DEF r
<1>4. \A i \in DOMAIN s : i # Len(s) => i \in DOMAIN r /\ r[i] = s[i]
  BY <1>1, <1>2, <1>3
<1>5. \A i \in DOMAIN r : i \in DOMAIN s /\ i # Len(s) /\ r[i] = s[i]
  BY <1>1, <1>2, <1>3
<1>6. Len(s) \in DOMAIN s /\ \A i \in DOMAIN s : s[i] = Pop(s) => i = Len(s)
  BY <1>1 DEF Distinct
<1>7. Range(r) = Range(s) \ {Pop(s)} /\ Pop(s) \in Range(s)
  BY <1>1, <1>4, <1>5, <1>6 DEF Range
<1>8. Distinct(r)
  BY <1>5 DEF Distinct
<1>9. ASSUME NEW x, NEW y, Before(s, x, y)
      PROVE  /\ x # Pop(s) /\ x \in Range(s) /\ y \in Range(s)
             /\ y # Pop(s) => Before(r, x, y)
  <2>1. PICK i \in DOMAIN s, j \in DOMAIN s : i < j /\ s[i] = x /\ s[j] = y
    BY <1>9 DEF Before
  <2>2. i # Len(s)
    BY <1>1, <2>1
  <2>3. x # Pop(s)
    BY <1>6, <2>1, <2>2
  <2>4. ASSUME y # Pop(s) PROVE Before(r, x, y)
    <3>1. j # Len(s)
      BY <1>1, <2>1, <2>4
    <3> QED
      BY <1>4, <2>1, <2>2, <3>1 DEF Before
  <2> QED
    BY <2>1, <2>3, <2>4 DEF Range
<1> QED
  BY <1>1, <1>2, <1>7, <1>8, <1>9 DEF r

(* Before is an order on the elements of a sequence without repetitions.    *)
LEMMA BeforeOrder ==
  ASSUME NEW E, NEW s \in Seq(E), Distinct(s), NEW x, NEW y, Before(s, x, y)
  PROVE  x # y /\ x \in Range(s) /\ y \in Range(s) /\ \A z : Before(s, y, z) => Before(s, x, z)
<1>1. DOMAIN s = 1..Len(s) /\ Len(s) \in Nat
  BY LenProperties
<1>2. PICK i \in DOMAIN s, j \in DOMAIN s : i < j /\ s[i] = x /\ s[j] = y
  BY DEF Before
<1>3. x # y
  BY <1>1, <1>2 DEF Distinct
<1>4. ASSUME NEW z, Before(s, y, z) PROVE Before(s, x, z)
  <2>1. PICK k \in DOMAIN s, l \in DOMAIN s : k < l /\ s[k] = y /\ s[l] = z
    BY <1>4 DEF Before
  <2>2. k = j
    BY <1>2, <2>1 DEF Distinct
  <2>3. i < l
    BY <1>1, <1>2, <2>1, <2>2
  <2> QED
    BY <1>2, <2>1, <2>3 DEF Before
<1> QED
  BY <1>2, <1>3, <1>4 DEF Range

(* Pushed in reverse, a later child lies under an earlier one.              *)
LEMMA BackFacts ==
  ASSUME NEW t \in Trees, NEW n \in Nodes(t),
         NEW i \in DOMAIN t.children[n], NEW j \in DOMAIN t.children[n], i < j
  PROVE  LET c == t.children[n][i]
             d == t.children[n][j] IN
         /\ c \in Nodes(t) /\ d \in Nodes(t) /\ d \in Kids(t, n) /\ ParentOf(t, d) = n
         /\ Before(Reverse(t.children[n]), d, c)
<1> DEFINE kids == t.children[n]
           back == Reverse(kids)
<1>1. /\ kids \in Seq(Nodes(t)) /\ Len(kids) \in Nat /\ DOMAIN kids = 1..Len(kids)
      /\ DOMAIN back = 1..Len(kids) /\ Range(kids) = Kids(t, n)
      /\ \A k \in 1..Len(kids) : back[k] = kids[Len(kids) - k + 1]
  BY ChildrenFacts
<1> HIDE DEF kids, back
<1>2. i \in 1..Len(kids) /\ j \in 1..Len(kids)
  BY <1>1 DEF kids
<1>3. kids[i] \in Nodes(t) /\ kids[j] \in Nodes(t) /\ kids[j] \in Kids(t, n)
  BY <1>1, <1>2, ElementOfSeq DEF Range
<1>4. /\ Len(kids) - j + 1 \in 1..Len(kids) /\ Len(kids) - i + 1 \in 1..Len(kids)
      /\ Len(kids) - j + 1 < Len(kids) - i + 1
      /\ Len(kids) - (Len(kids) - j + 1) + 1 = j /\ Len(kids) - (Len(kids) - i + 1) + 1 = i
  <2>1. \A m \in Nat : \A a, b \in 1..m : a < b =>
          /\ m - b + 1 \in 1..m /\ m - a + 1 \in 1..m /\ m - b + 1 < m - a + 1
          /\ m - (m - b + 1) + 1 = b /\ m - (m - a + 1) + 1 = a
    OBVIOUS
  <2> QED
    BY <1>1, <1>2, <2>1
<1>5. back[Len(kids) - j + 1] = kids[j] /\ back[Len(kids) - i + 1] = kids[i]
  BY <1>1, <1>4
<1>6. Before(back, kids[j], kids[i])
  BY <1>1, <1>4, <1>5 DEF Before
<1> QED
  BY <1>3, <1>6, KidFacts DEF kids, back

-----------------------------------------------------------------------------
(* Siblings leave the stack s for the output o in their order.              *)
InOrder(t, s, o) ==
  \A n \in Nodes(t) : \A i, j \in DOMAIN t.children[n] : i < j =>
    LET c == t.children[n][i]
        d == t.children[n][j]
    IN  /\ d \in Range(o) => Before(o, c, d)
        /\ d \in Range(s) => c \in Range(o) \/ Before(s, d, c)

LEMMA PopInOrder ==
  ASSUME NEW t \in Trees, NEW s \in Seq(Nodes(t)), s # <<>>, Distinct(s),
         NEW o \in Seq(Nodes(t)), InOrder(t, s, o)
  PROVE  InOrder(t, Below(s), Append(o, Pop(s)))
<1> DEFINE p == Pop(s)
<1>1. /\ Range(Below(s)) = Range(s) \ {p} /\ p \in Nodes(t) /\ p \in Range(s)
      /\ \A x, y : Before(s, x, y) => x # p
      /\ \A x, y : Before(s, x, y) /\ y # p => Before(Below(s), x, y)
  BY BeforePopped
<1>2. /\ Range(Append(o, p)) = Range(o) \cup {p}
      /\ \A x, y : Before(o, x, y) => Before(Append(o, p), x, y)
      /\ \A x \in Range(o) : Before(Append(o, p), x, p)
  BY <1>1, BeforeAppended
<1>3. ASSUME NEW n \in Nodes(t),
             NEW i \in DOMAIN t.children[n], NEW j \in DOMAIN t.children[n], i < j
      PROVE  LET c == t.children[n][i]
                 d == t.children[n][j]
             IN  /\ d \in Range(Append(o, p)) => Before(Append(o, p), c, d)
                 /\ d \in Range(Below(s)) => c \in Range(Append(o, p)) \/ Before(Below(s), d, c)
  <2> DEFINE c == t.children[n][i]
             d == t.children[n][j]
  <2>1. /\ d \in Range(o) => Before(o, c, d)
        /\ d \in Range(s) => c \in Range(o) \/ Before(s, d, c)
    BY <1>3 DEF InOrder
  <2> HIDE DEF c, d, p
  <2>2. d \in Range(Append(o, p)) => Before(Append(o, p), c, d)
    BY <1>1, <1>2, <2>1
  <2>3. d \in Range(Below(s)) => c \in Range(Append(o, p)) \/ Before(Below(s), d, c)
    BY <1>1, <1>2, <2>1
  <2> QED
    BY <2>2, <2>3 DEF c, d
<1> QED
  BY <1>3 DEF InOrder

LEMMA PushInOrder ==
  ASSUME NEW t \in Trees, NEW s \in Seq(Nodes(t)), NEW o, InOrder(t, s, o), NEW p \in Nodes(t)
  PROVE  InOrder(t, s \o Reverse(t.children[p]), o)
<1> DEFINE back == Reverse(t.children[p])
<1>1. back \in Seq(Nodes(t)) /\ Range(back) = Kids(t, p)
  BY ChildrenFacts
<1> HIDE DEF back
<1>2. Range(s \o back) = Range(s) \cup Kids(t, p)
  BY <1>1, RangeConcatenation
<1>3. \A x, y : Before(s, x, y) \/ Before(back, x, y) => Before(s \o back, x, y)
  BY <1>1, BeforeJoined
<1>4. ASSUME NEW n \in Nodes(t),
             NEW i \in DOMAIN t.children[n], NEW j \in DOMAIN t.children[n], i < j
      PROVE  LET c == t.children[n][i]
                 d == t.children[n][j]
             IN  /\ d \in Range(o) => Before(o, c, d)
                 /\ d \in Range(s \o back) => c \in Range(o) \/ Before(s \o back, d, c)
  <2> DEFINE c == t.children[n][i]
             d == t.children[n][j]
  <2>1. /\ d \in Range(o) => Before(o, c, d)
        /\ d \in Range(s) => c \in Range(o) \/ Before(s, d, c)
    BY <1>4 DEF InOrder
  <2>2. ASSUME d \in Kids(t, p) PROVE Before(back, d, c)
    <3>1. ParentOf(t, d) = n /\ Before(Reverse(t.children[n]), d, c)
      BY <1>4, BackFacts
    <3>2. ParentOf(t, d) = p
      BY <2>2, KidFacts
    <3> QED
      BY <3>1, <3>2 DEF back
  <2> HIDE DEF c, d
  <2>3. d \in Range(s \o back) => c \in Range(o) \/ Before(s \o back, d, c)
    BY <1>2, <1>3, <2>1, <2>2
  <2> QED
    BY <2>1, <2>3 DEF c, d
<1>5. InOrder(t, s \o back, o)
  BY <1>4 DEF InOrder
<1> QED
  BY <1>5 DEF back

(* The nodes of a sequence of lines or of stack entries.                    *)
NodesOf(q) == [i \in DOMAIN q |-> q[i].node]

LEMMA NodesOfFacts ==
  ASSUME NEW N, NEW E, \A e \in E : e.node \in N, NEW a \in Seq(E)
  PROVE  /\ NodesOf(a) \in Seq(N) /\ Len(NodesOf(a)) = Len(a)
         /\ a = <<>> <=> NodesOf(a) = <<>>
         /\ \A b \in Seq(E) : NodesOf(a \o b) = NodesOf(a) \o NodesOf(b)
         /\ \A e \in E : NodesOf(Append(a, e)) = Append(NodesOf(a), e.node)
         /\ a # <<>> => /\ Pop(a) \in E /\ Pop(NodesOf(a)) = Pop(a).node
                        /\ Below(a) \in Seq(E) /\ NodesOf(Below(a)) = Below(NodesOf(a))
<1>1. \A b \in Seq(E) : /\ Len(b) \in Nat /\ DOMAIN b = 1..Len(b)
                        /\ \A i \in 1..Len(b) : b[i] \in E
  BY LenProperties, ElementOfSeq
<1>2. ASSUME NEW b \in Seq(E)
      PROVE  /\ NodesOf(b) \in Seq(N) /\ Len(NodesOf(b)) = Len(b) /\ DOMAIN NodesOf(b) = 1..Len(b)
             /\ \A i \in 1..Len(b) : NodesOf(b)[i] = b[i].node
  <2>1. Len(b) \in Nat /\ NodesOf(b) \in [1..Len(b) -> N]
    BY <1>1 DEF NodesOf
  <2>2. NodesOf(b) \in Seq(N) /\ DOMAIN NodesOf(b) = 1..Len(b) /\ Len(NodesOf(b)) = Len(b)
    BY <2>1
  <2> QED
    BY <1>1, <2>2 DEF NodesOf
<1>3. a = <<>> <=> NodesOf(a) = <<>>
  BY <1>2, EmptySeq
<1>4. ASSUME NEW b \in Seq(E) PROVE NodesOf(a \o b) = NodesOf(a) \o NodesOf(b)
  <2> DEFINE l == NodesOf(a \o b)
             r == NodesOf(a) \o NodesOf(b)
  <2>1. /\ a \o b \in Seq(E) /\ Len(a \o b) = Len(a) + Len(b)
        /\ \A i \in 1..(Len(a) + Len(b)) : (a \o b)[i] = IF i <= Len(a) THEN a[i] ELSE b[i - Len(a)]
    BY ConcatProperties
  <2>2. /\ r \in Seq(N) /\ Len(r) = Len(a) + Len(b)
        /\ \A i \in 1..(Len(a) + Len(b)) :
              r[i] = IF i <= Len(a) THEN NodesOf(a)[i] ELSE NodesOf(b)[i - Len(a)]
    <3>1. NodesOf(a) \in Seq(N) /\ NodesOf(b) \in Seq(N) /\ Len(NodesOf(a)) = Len(a) /\ Len(NodesOf(b)) = Len(b)
      BY <1>2
    <3> HIDE DEF r
    <3>2. /\ NodesOf(a) \o NodesOf(b) \in Seq(N)
          /\ Len(NodesOf(a) \o NodesOf(b)) = Len(NodesOf(a)) + Len(NodesOf(b))
          /\ \A i \in 1..(Len(NodesOf(a)) + Len(NodesOf(b))) : (NodesOf(a) \o NodesOf(b))[i] =
               IF i <= Len(NodesOf(a)) THEN NodesOf(a)[i] ELSE NodesOf(b)[i - Len(NodesOf(a))]
      BY <3>1, ConcatProperties
    <3> QED
      BY <3>1, <3>2 DEF r
  <2>3. l \in Seq(N) /\ Len(l) = Len(a) + Len(b) /\ \A i \in 1..(Len(a) + Len(b)) : l[i] = (a \o b)[i].node
    BY <1>2, <2>1
  <2> HIDE DEF l, r
  <2>4. ASSUME NEW i \in 1..(Len(a) + Len(b)) PROVE l[i] = r[i]
    <3>1. CASE i <= Len(a)
      <4>1. i \in 1..Len(a)
        BY <1>1, <3>1
      <4> QED
        BY <1>2, <2>1, <2>2, <2>3, <3>1, <4>1
    <3>2. CASE ~(i <= Len(a))
      <4>1. i - Len(a) \in 1..Len(b)
        BY <1>1, <3>2
      <4> QED
        BY <1>2, <2>1, <2>2, <2>3, <3>2, <4>1
    <3> QED
      BY <3>1, <3>2
  <2>5. l = r
    BY <2>2, <2>3, <2>4, SeqEqual
  <2> QED
    BY <2>5 DEF l, r
<1>5. ASSUME NEW e \in E PROVE NodesOf(Append(a, e)) = Append(NodesOf(a), e.node)
  <2>1. <<e>> \in Seq(E) /\ NodesOf(<<e>>) = <<e.node>>
    BY DEF NodesOf
  <2>2. Append(a, e) = a \o <<e>> /\ Append(NodesOf(a), e.node) = NodesOf(a) \o <<e.node>>
    BY <1>2
  <2> QED
    BY <1>4, <2>1, <2>2
<1>6. ASSUME a # <<>>
      PROVE  /\ Pop(a) \in E /\ Pop(NodesOf(a)) = Pop(a).node
             /\ Below(a) \in Seq(E) /\ NodesOf(Below(a)) = Below(NodesOf(a))
  <2> DEFINE l == NodesOf(Below(a))
             r == Below(NodesOf(a))
  <2>1. Len(a) \in Nat \ {0} /\ Len(a) \in 1..Len(a)
    BY <1>1, <1>6, EmptySeq
  <2>2. Pop(a) \in E /\ Pop(NodesOf(a)) = Pop(a).node
    BY <1>1, <1>2, <2>1 DEF Pop
  <2>3. /\ Below(a) \in Seq(E) /\ Len(Below(a)) = Len(a) - 1
        /\ \A i \in 1..(Len(a) - 1) : Below(a)[i] = a[i]
    BY <1>6, BelowFacts
  <2>4. /\ r \in Seq(N) /\ Len(r) = Len(a) - 1
        /\ \A i \in 1..(Len(a) - 1) : r[i] = NodesOf(a)[i]
    <3>1. NodesOf(a) \in Seq(N) /\ Len(NodesOf(a)) = Len(a) /\ NodesOf(a) # <<>>
      BY <1>2, <1>3, <1>6
    <3> QED
      BY <3>1, BelowFacts
  <2>5. l \in Seq(N) /\ Len(l) = Len(a) - 1 /\ \A i \in 1..(Len(a) - 1) : l[i] = Below(a)[i].node
    BY <1>2, <2>3
  <2> HIDE DEF l, r
  <2>6. \A i \in 1..(Len(a) - 1) : i \in 1..Len(a) /\ l[i] = r[i]
    <3>1. \A i \in 1..(Len(a) - 1) : i \in 1..Len(a)
      BY <2>1
    <3> QED
      BY <1>2, <2>3, <2>4, <2>5, <3>1
  <2>7. l = r
    BY <2>4, <2>5, <2>6, SeqEqual
  <2> QED
    BY <2>2, <2>3, <2>7 DEF l, r
<1> QED
  BY <1>2, <1>3, <1>4, <1>5, <1>6

-----------------------------------------------------------------------------
(* A child is one level below its parent.                                   *)
LEMMA LevelFacts ==
  ASSUME NEW t \in Trees
  PROVE  /\ Level(t, t.root) = 0
         /\ \A n \in Nodes(t) : \A c \in Kids(t, n) : Level(t, c) = Level(t, n) + 1
<1>1. \A n \in Nodes(t) : Level(t, n) = Cardinality(AllAbove(t)[n])
  BY AncestorsAreAbove DEF Level, AllAbove
<1>2. Level(t, t.root) = 0
  BY <1>1, RootFact, AboveStep, FS_EmptySet
<1>3. ASSUME NEW n \in Nodes(t), NEW c \in Kids(t, n) PROVE Level(t, c) = Level(t, n) + 1
  <2>1. c \in Nodes(t) /\ c # t.root /\ ParentOf(t, c) = n
    BY KidFacts
  <2>2. AllAbove(t)[c] = AllAbove(t)[n] \cup {n}
    BY <2>1, AboveStep
  <2>3. AllAbove(t)[n] \subseteq Nodes(t) /\ n \notin AllAbove(t)[n]
    BY DEF AllAbove, Above
  <2>4. IsFiniteSet(AllAbove(t)[n])
    BY <2>3, VisitedFacts
  <2> QED
    BY <1>1, <2>1, <2>2, <2>3, <2>4, FS_AddElement
<1> QED
  BY <1>2, <1>3

AtLevels(t, q) == \A e \in Range(q) : e.depth = Level(t, e.node)

(* A node is put on the stack when its parent is printed, and printed after *)
(* it.                                                                      *)
ParentsOut(t, s, o) ==
  \A d \in Nodes(t) \ {t.root} :
    /\ d \in Range(o) => Before(o, ParentOf(t, d), d)
    /\ d \in Range(s) => ParentOf(t, d) \in Range(o)

(* pretty_print_tree has printed the nodes it has visited, parents first,   *)
(* siblings in their order and each at its level.                           *)
Printed(t, w, k) ==
  LET s == NodesOf(w.stack)
      o == NodesOf(w.out)
  IN  /\ w \in PrintType(t) /\ IsStack(t, s) /\ Distinct(o) /\ Range(o) = Visited(t, s)
      /\ ParentsOut(t, s, o) /\ InOrder(t, s, o)
      /\ AtLevels(t, w.stack) /\ AtLevels(t, w.out)
      /\ w.stack # <<>> => Len(w.out) = k

LEMMA PrintStart == ASSUME NEW t \in Trees PROVE Printed(t, PrintWalk(t, 0), 0)
<1> DEFINE line == [node |-> t.root, depth |-> 0]
           w == [stack |-> <<line>>, out |-> <<>>]
<1>1. PrintWalk(t, 0) = w
  BY PrintTurns
<1>2. t.root \in Nodes(t) /\ IsStack(t, <<t.root>>) /\ Visited(t, <<t.root>>) = {}
  BY RootFact, StackOfOne, RootSpan DEF Visited
<1>3. NodesOf(w.stack) = <<t.root>> /\ NodesOf(w.out) = <<>>
  BY DEF NodesOf
<1>4. w \in PrintType(t)
  BY <1>2 DEF PrintType, Line
<1>5. Distinct(<<>>) /\ Range(<<>>) = {} /\ Range(<<t.root>>) = {t.root} /\ Range(<<line>>) = {line}
  BY DEF Distinct, Range
<1>6. AtLevels(t, <<line>>) /\ AtLevels(t, <<>>)
  BY <1>5, LevelFacts DEF AtLevels
<1>7. ParentsOut(t, <<t.root>>, <<>>)
  BY <1>5 DEF ParentsOut
<1>8. InOrder(t, <<t.root>>, <<>>)
  BY <1>5, BackFacts, KidFacts DEF InOrder
<1>9. Printed(t, w, 0)
  <2>1. w.stack = <<line>> /\ w.out = <<>> /\ Len(<<>>) = 0
    OBVIOUS
  <2> HIDE DEF w
  <2> QED
    BY <1>2, <1>3, <1>4, <1>5, <1>6, <1>7, <1>8, <2>1 DEF Printed
<1> QED
  BY <1>1, <1>9

(* What a turn of the loop does to the nodes.                               *)
LEMMA PrintNodes ==
  ASSUME NEW t \in Trees, NEW s, IsStack(t, s), s # <<>>,
         NEW o \in Seq(Nodes(t)), Distinct(o), Range(o) = Visited(t, s),
         ParentsOut(t, s, o), InOrder(t, s, o)
  PROVE  LET r == Below(s) \o Reverse(t.children[Pop(s)])
             q == Append(o, Pop(s))
         IN  /\ IsStack(t, r) /\ Distinct(q) /\ Range(q) = Visited(t, r)
             /\ ParentsOut(t, r, q) /\ InOrder(t, r, q)
<1> DEFINE p == Pop(s)
           back == Reverse(t.children[p])
           r == Below(s) \o back
           q == Append(o, p)
<1>1. s \in Seq(Nodes(t)) /\ Distinct(s) /\ p \in Nodes(t) /\ p \in Range(s)
  BY StackTop DEF IsStack
<1>2. back \in Seq(Nodes(t)) /\ Distinct(back) /\ Range(back) = Kids(t, p)
  BY <1>1, ChildrenFacts
<1> HIDE DEF back
<1>3. IsStack(t, r) /\ Visited(t, r) = Visited(t, s) \cup {p} /\ p \notin Visited(t, s)
  BY <1>2, VisitedNext
<1>4. Range(r) = (Range(s) \ {p}) \cup Kids(t, p)
  BY <1>2, StackStep
<1>5. /\ Range(q) = Range(o) \cup {p} /\ Distinct(q)
      /\ \A x, y : Before(o, x, y) => Before(q, x, y)
      /\ \A x \in Range(o) : Before(q, x, p)
  BY <1>1, <1>3, BeforeAppended
<1>6. InOrder(t, r, q)
  <2>1. InOrder(t, Below(s), q) /\ Below(s) \in Seq(Nodes(t))
    BY <1>1, PopInOrder, BelowFacts
  <2> HIDE DEF q
  <2> QED
    BY <1>1, <2>1, PushInOrder DEF back
<1>7. ParentsOut(t, r, q)
  <2> HIDE DEF r, q, p
  <2>1. ASSUME NEW d \in Nodes(t) \ {t.root}, d \in Range(q) PROVE Before(q, ParentOf(t, d), d)
    BY <1>1, <1>5, <2>1 DEF ParentsOut
  <2>2. ASSUME NEW d \in Nodes(t) \ {t.root}, d \in Range(r) PROVE ParentOf(t, d) \in Range(q)
    <3>1. CASE d \in Range(s)
      BY <1>5, <3>1 DEF ParentsOut
    <3>2. CASE d \in Kids(t, p)
      BY <1>1, <1>5, <3>2, KidFacts
    <3> QED
      BY <1>4, <2>2, <3>1, <3>2
  <2> QED
    BY <2>1, <2>2 DEF ParentsOut
<1> QED
  BY <1>3, <1>5, <1>6, <1>7 DEF back

LEMMA LineNodes ==
  ASSUME NEW t \in Trees, NEW a \in Seq(Line(t))
  PROVE  /\ NodesOf(a) \in Seq(Nodes(t)) /\ Len(NodesOf(a)) = Len(a)
         /\ a = <<>> <=> NodesOf(a) = <<>>
         /\ \A b \in Seq(Line(t)) : NodesOf(a \o b) = NodesOf(a) \o NodesOf(b)
         /\ \A e \in Line(t) : NodesOf(Append(a, e)) = Append(NodesOf(a), e.node)
         /\ a # <<>> => /\ Pop(a) \in Line(t) /\ Pop(NodesOf(a)) = Pop(a).node
                        /\ Below(a) \in Seq(Line(t)) /\ NodesOf(Below(a)) = Below(NodesOf(a))
<1>1. \A e \in Line(t) : e.node \in Nodes(t)
  BY DEF Line
<1> QED
  BY <1>1, NodesOfFacts

LEMMA PrintTurn ==
  ASSUME NEW t \in Trees, NEW k \in Nat, NEW w, Printed(t, w, k), w.stack # <<>>
  PROVE  Printed(t, PrintStep(t, w), k + 1)
<1> DEFINE v == PrintStep(t, w)
           s == NodesOf(w.stack)
           o == NodesOf(w.out)
           top == Pop(w.stack)
           p == top.node
           back == Reverse(t.children[p])
           pushed == [i \in DOMAIN t.children[p] |-> [node |-> back[i], depth |-> top.depth + 1]]
<1>1. v.stack = Below(w.stack) \o pushed /\ v.out = Append(w.out, top)
  BY DEF PrintStep
<1>2. w \in PrintType(t) /\ v \in PrintType(t)
  BY StepTypes DEF Printed
<1>3. w.stack \in Seq(Line(t)) /\ w.out \in Seq(Line(t)) /\ v.stack \in Seq(Line(t))
  BY <1>2 DEF PrintType
<1>5. /\ s \in Seq(Nodes(t)) /\ s # <<>> /\ o \in Seq(Nodes(t)) /\ Len(o) = Len(w.out)
      /\ top \in Line(t) /\ Pop(s) = p /\ Below(w.stack) \in Seq(Line(t))
      /\ NodesOf(Below(w.stack)) = Below(s) /\ NodesOf(Append(w.out, top)) = Append(o, p)
  BY <1>3, LineNodes
<1>6. p \in Nodes(t) /\ top.depth \in Nat
  BY <1>5 DEF Line
<1>7. /\ back \in Seq(Nodes(t)) /\ Range(back) = Kids(t, p) /\ Len(back) \in Nat
      /\ DOMAIN back = 1..Len(back) /\ DOMAIN t.children[p] = 1..Len(back)
      /\ \A i \in 1..Len(back) : back[i] \in Kids(t, p) /\ back[i] \in Nodes(t)
  <2>1. /\ back \in Seq(Nodes(t)) /\ Range(back) = Kids(t, p) /\ Len(back) \in Nat
        /\ DOMAIN back = 1..Len(back) /\ DOMAIN t.children[p] = 1..Len(back)
    BY <1>6, ChildrenFacts
  <2> HIDE DEF back
  <2> QED
    BY <2>1, ElementOfSeq DEF Range
<1> HIDE DEF back, top, v
<1>8. /\ pushed \in Seq(Line(t)) /\ DOMAIN pushed = 1..Len(back) /\ NodesOf(pushed) = back
      /\ \A e \in Range(pushed) : e.node \in Kids(t, p) /\ e.depth = top.depth + 1
  <2>1. pushed \in [1..Len(back) -> Line(t)] /\ DOMAIN pushed = 1..Len(back)
    BY <1>6, <1>7 DEF Line
  <2>2. pushed \in Seq(Line(t))
    <3> HIDE DEF pushed
    <3> QED
      BY <1>7, <2>1
  <2>3. NodesOf(pushed) = [i \in 1..Len(back) |-> back[i]]
    BY <2>1 DEF NodesOf
  <2>4. back = [i \in 1..Len(back) |-> back[i]]
    BY <1>7
  <2>5. \A e \in Range(pushed) : e.node \in Kids(t, p) /\ e.depth = top.depth + 1
    BY <1>7, <2>1 DEF Range
  <2> QED
    BY <2>1, <2>2, <2>3, <2>4, <2>5
<1> HIDE DEF pushed
<1>9. NodesOf(v.stack) = Below(s) \o back /\ NodesOf(v.out) = Append(o, p)
  <2>1. NodesOf(Below(w.stack) \o pushed) = NodesOf(Below(w.stack)) \o NodesOf(pushed)
    <3>1. Below(w.stack) \in Seq(Line(t)) /\ pushed \in Seq(Line(t))
      BY <1>5, <1>8
    <3>2. \A b \in Seq(Line(t)) : NodesOf(Below(w.stack) \o b) = NodesOf(Below(w.stack)) \o NodesOf(b)
      BY <3>1, LineNodes
    <3> QED
      BY <3>1, <3>2
  <2> HIDE DEF s, o, p
  <2> QED
    BY <1>1, <1>5, <1>8, <2>1
<1>10. /\ IsStack(t, NodesOf(v.stack)) /\ Distinct(NodesOf(v.out))
       /\ Range(NodesOf(v.out)) = Visited(t, NodesOf(v.stack))
       /\ ParentsOut(t, NodesOf(v.stack), NodesOf(v.out))
       /\ InOrder(t, NodesOf(v.stack), NodesOf(v.out))
  <2>1. /\ IsStack(t, s) /\ Distinct(o) /\ Range(o) = Visited(t, s)
        /\ ParentsOut(t, s, o) /\ InOrder(t, s, o)
    BY DEF Printed
  <2> HIDE DEF s, o, p
  <2> QED
    BY <1>5, <1>9, <2>1, PrintNodes DEF back
<1>11. top \in Range(w.stack) /\ Range(Below(w.stack)) \subseteq Range(w.stack)
  <2>1. /\ Len(w.stack) \in DOMAIN w.stack
        /\ \A i \in DOMAIN Below(w.stack) : i \in DOMAIN w.stack /\ Below(w.stack)[i] = w.stack[i]
    <3>1. w.stack \in Seq(Line(t)) /\ w.stack # <<>>
      BY <1>3
    <3>2. /\ Len(w.stack) \in Nat \ {0} /\ DOMAIN w.stack = 1..Len(w.stack)
          /\ DOMAIN Below(w.stack) = 1..(Len(w.stack) - 1)
          /\ \A i \in 1..(Len(w.stack) - 1) : Below(w.stack)[i] = w.stack[i]
      BY ONLY <3>1, BelowFacts
    <3> QED
      BY <3>2
  <2> QED
    BY <2>1 DEF Range, Pop, top
<1>12. AtLevels(t, v.stack) /\ AtLevels(t, v.out)
  <2>1. AtLevels(t, w.stack) /\ AtLevels(t, w.out)
    BY DEF Printed
  <2>2. Range(v.stack) = Range(Below(w.stack)) \cup Range(pushed)
    BY <1>1, RangeConcatenation, <1>5, <1>8
  <2>3. Range(v.out) = Range(w.out) \cup {top}
    BY <1>1, <1>3, <1>5, BeforeAppended
  <2>4. top.depth = Level(t, p)
    BY <1>11, <2>1 DEF AtLevels
  <2>5. \A e \in Range(pushed) : e.depth = Level(t, e.node)
    BY <1>6, <1>8, <2>4, LevelFacts
  <2> QED
    BY <1>11, <2>1, <2>2, <2>3, <2>4, <2>5 DEF AtLevels
<1>13. Len(v.out) = k + 1
  <2>1. Len(w.out) = k
    BY DEF Printed
  <2> QED
    BY <1>1, <1>3, <1>5, <2>1, AppendProperties
<1>14. Printed(t, v, k + 1)
  BY <1>2, <1>10, <1>12, <1>13 DEF Printed
<1> QED
  BY <1>14 DEF v

(* From parents to ancestors.                                               *)
LEMMA AncestorsOut ==
  ASSUME NEW t \in Trees, NEW o \in Seq(Nodes(t)), Distinct(o), Range(o) = Nodes(t),
         \A d \in Nodes(t) \ {t.root} : Before(o, ParentOf(t, d), d),
         NEW n \in Nodes(t), NEW d \in Nodes(t), Above(t, n, d)
  PROVE  Before(o, n, d)
<1> DEFINE S == {m \in Nodes(t) : m = d \/ Before(o, m, d)}
<1>1. ASSUME NEW m \in S \ {t.root} PROVE ParentOf(t, m) \in S
  <2>1. m \in Nodes(t) /\ ParentOf(t, m) \in Nodes(t) /\ Before(o, ParentOf(t, m), m)
    BY <1>1, ParentFacts
  <2>2. Before(o, m, d) => Before(o, ParentOf(t, m), d)
    BY <2>1, BeforeOrder
  <2> QED
    BY <1>1, <2>1, <2>2
<1>2. S \in ParentClosed(t)
  BY <1>1 DEF ParentClosed
<1>3. n \in S /\ n # d
  BY <1>2 DEF Above
<1> QED
  BY <1>3

LEMMA PrintsAll ==
  ASSUME NEW t \in Trees
  PROVE  LET lines == PrintWalk(t, Cardinality(Nodes(t)))
             printed == [i \in DOMAIN lines.out |-> lines.out[i].node]
         IN  /\ lines.stack = <<>> /\ IsPermutationOf(printed, Nodes(t))
             /\ \A i \in DOMAIN lines.out : lines.out[i].depth = Level(t, lines.out[i].node)
             /\ \A n \in Nodes(t) :
                  /\ \A d \in Descendants(t, n) : Before(printed, n, d)
                  /\ \A i, j \in DOMAIN t.children[n] : i < j =>
                       Before(printed, t.children[n][i], t.children[n][j])
<1> DEFINE S == {k \in Nat : Printed(t, PrintWalk(t, k), k)}
           size == Cardinality(Nodes(t))
           lines == PrintWalk(t, size)
           printed == NodesOf(lines.out)
<1>1. Nat \subseteq S
  <2>1. ASSUME NEW k \in Nat, Printed(t, PrintWalk(t, k), k)
        PROVE  Printed(t, PrintWalk(t, k + 1), k + 1)
    <3>1. CASE PrintWalk(t, k).stack = <<>>
      BY <2>1, <3>1, PrintTurns DEF Printed
    <3>2. CASE PrintWalk(t, k).stack # <<>>
      BY <2>1, <3>2, PrintTurns, PrintTurn
    <3> QED
      BY <3>1, <3>2
  <2>2. 0 \in S
    BY PrintStart
  <2>3. \A k \in Nat : k \in S => k + 1 \in S
    BY <2>1
  <2> HIDE DEF S
  <2> QED
    BY <2>2, <2>3, NatSetInduction
<1>2. size \in Nat
  BY VisitedFacts
<1>3. Printed(t, lines, size)
  BY <1>1, <1>2
<1> HIDE DEF lines
<1>4. lines.stack \in Seq(Line(t)) /\ lines.out \in Seq(Line(t))
  BY <1>3 DEF Printed, PrintType
<1>5. printed \in Seq(Nodes(t)) /\ Len(printed) = Len(lines.out)
  BY <1>4, LineNodes
<1>6. /\ IsStack(t, NodesOf(lines.stack)) /\ Distinct(printed)
      /\ Range(printed) = Visited(t, NodesOf(lines.stack))
      /\ ParentsOut(t, NodesOf(lines.stack), printed)
      /\ InOrder(t, NodesOf(lines.stack), printed)
      /\ AtLevels(t, lines.out)
      /\ lines.stack # <<>> => Len(lines.out) = size
  BY <1>3 DEF Printed
<1>7. Cardinality(Range(printed)) = Len(printed)
  BY <1>5, <1>6, DistinctCount
<1>8. lines.stack = <<>>
  <2>1. SUFFICES ASSUME lines.stack # <<>> PROVE FALSE
    OBVIOUS
  <2>2. NodesOf(lines.stack) # <<>>
    BY <1>4, <2>1, LineNodes
  <2>3. Cardinality(Visited(t, NodesOf(lines.stack))) < size
    BY <1>6, <2>2, StackTop
  <2> QED
    BY <1>2, <1>5, <1>6, <1>7, <2>1, <2>3
<1>9. Range(printed) = Nodes(t)
  <2>1. NodesOf(lines.stack) = <<>>
    BY <1>4, <1>8, LineNodes
  <2> QED
    BY <1>6, <2>1, EmptyStack DEF Visited
<1>10. IsPermutationOf(printed, Nodes(t))
  <2>1. Len(printed) = size /\ ToSet(printed) = Nodes(t)
    BY <1>7, <1>9 DEF ToSet, Range
  <2> QED
    BY <2>1 DEF IsPermutationOf
<1>11. \A i \in DOMAIN lines.out : lines.out[i].depth = Level(t, lines.out[i].node)
  BY <1>6 DEF AtLevels, Range
<1> HIDE DEF printed
<1>12. ASSUME NEW n \in Nodes(t), NEW d \in Descendants(t, n) PROVE Before(printed, n, d)
  <2>1. d \in Nodes(t) /\ Above(t, n, d)
    BY <1>12, OrphansAreBeneath DEF Beneath
  <2>2. \A e \in Nodes(t) \ {t.root} : Before(printed, ParentOf(t, e), e)
    BY <1>6, <1>9 DEF ParentsOut
  <2> QED
    BY <1>5, <1>6, <1>9, <2>1, <2>2, AncestorsOut
<1>13. ASSUME NEW n \in Nodes(t),
              NEW i \in DOMAIN t.children[n], NEW j \in DOMAIN t.children[n], i < j
       PROVE  Before(printed, t.children[n][i], t.children[n][j])
  BY <1>6, <1>9, <1>13, BackFacts DEF InOrder
<1>14. printed = [i \in DOMAIN lines.out |-> lines.out[i].node]
  BY DEF printed, NodesOf
<1> QED
  BY <1>8, <1>10, <1>11, <1>12, <1>13, <1>14 DEF lines

-----------------------------------------------------------------------------
(* A node that was pushed back, one of P, comes out after the children that *)
(* were pushed on top of it.                                                *)
ChildrenOut(t, s, P, o) ==
  \A d \in Nodes(t) \ {t.root} :
    /\ ParentOf(t, d) \in Range(o) => Before(o, d, ParentOf(t, d))
    /\ ParentOf(t, d) \in P => d \in Range(o) \/ Before(s, ParentOf(t, d), d)

(* The rest of the stack s has its spans to come: the visited nodes wait on *)
(* the stack or came out.                                                   *)
HalfFlat(t, s, P, o) ==
  /\ s \in Seq(Nodes(t)) /\ Distinct(s) /\ P \subseteq Range(s)
  /\ o \in Seq(Nodes(t)) /\ Distinct(o) /\ Range(o) \cap Range(s) = {}
  /\ Apart(t, Range(s) \ P)
  /\ Nodes(t) \ Cover(t, Range(s) \ P) = P \cup Range(o)
  /\ ChildrenOut(t, s, P, o) /\ InOrder(t, s, o)

(* A node is pushed back below its children.                                *)
LEMMA OpenNode ==
  ASSUME NEW t \in Trees, NEW s, NEW P, NEW o, HalfFlat(t, s, P, o), s # <<>>, Pop(s) \notin P
  PROVE  LET r == s \o Reverse(t.children[Pop(s)])
             Q == P \cup {Pop(s)}
         IN  /\ HalfFlat(t, r, Q, o)
             /\ Cardinality(Nodes(t) \ Cover(t, Range(r) \ Q)) =
                  Cardinality(Nodes(t) \ Cover(t, Range(s) \ P)) + 1
<1> DEFINE p == Pop(s)
           back == Reverse(t.children[p])
           r == s \o back
           Q == P \cup {p}
           U == Range(s) \ P
           V == Range(r) \ Q
<1>1. /\ s \in Seq(Nodes(t)) /\ Distinct(s) /\ P \subseteq Range(s)
      /\ o \in Seq(Nodes(t)) /\ Distinct(o) /\ Range(o) \cap Range(s) = {}
      /\ Apart(t, U) /\ Nodes(t) \ Cover(t, U) = P \cup Range(o)
      /\ ChildrenOut(t, s, P, o) /\ InOrder(t, s, o)
  BY DEF HalfFlat
<1>2. p \in Nodes(t) /\ p \in U
  BY <1>1, BeforePopped
<1>3. back \in Seq(Nodes(t)) /\ Distinct(back) /\ Range(back) = Kids(t, p)
  BY <1>2, ChildrenFacts
<1> HIDE DEF back, p
<1>4. LET G == (U \ {p}) \cup Kids(t, p) IN
      /\ Apart(t, G) /\ Cover(t, G) = Cover(t, U) \ {p} /\ p \in Cover(t, U)
      /\ Kids(t, p) \cap U = {} /\ p \notin Kids(t, p)
      /\ Kids(t, p) \subseteq Cover(t, U) /\ Cover(t, U) \subseteq Nodes(t)
  <2> HIDE DEF U
  <2> QED
    BY <1>1, <1>2, VisitOne
<1>5. Kids(t, p) \cap P = {} /\ Kids(t, p) \cap Range(o) = {} /\ Kids(t, p) \cap Range(s) = {}
  BY <1>1, <1>4
<1>6. r \in Seq(Nodes(t)) /\ Distinct(r) /\ Range(r) = Range(s) \cup Kids(t, p)
  <2>1. Range(s) \cap Range(back) = {}
    BY <1>3, <1>5
  <2> QED
    BY <1>1, <1>3, <2>1, JoinFacts
<1> HIDE DEF r
<1>7. V = (U \ {p}) \cup Kids(t, p)
  BY <1>4, <1>5, <1>6
<1>8. Apart(t, V) /\ Nodes(t) \ Cover(t, V) = Q \cup Range(o)
  BY <1>1, <1>4, <1>7
<1>9. InOrder(t, r, o)
  BY <1>1, <1>2, PushInOrder DEF r, back
<1>10. ChildrenOut(t, r, Q, o)
  <2>1. /\ \A x, y : Before(s, x, y) => Before(r, x, y)
        /\ \A x \in Range(s) : \A y \in Range(back) : Before(r, x, y)
    BY <1>1, <1>3, BeforeJoined DEF r
  <2>2. ASSUME NEW d \in Nodes(t) \ {t.root}, ParentOf(t, d) \in Q
        PROVE  d \in Range(o) \/ Before(r, ParentOf(t, d), d)
    <3>1. CASE ParentOf(t, d) \in P
      BY <1>1, <2>1, <3>1 DEF ChildrenOut
    <3>2. CASE ParentOf(t, d) = p
      <4>1. d \in Kids(t, p)
        BY <3>2, ParentFacts
      <4> QED
        BY <1>2, <1>3, <2>1, <3>2, <4>1
    <3> QED
      BY <2>2, <3>1, <3>2
  <2> QED
    BY <1>1, <2>2 DEF ChildrenOut
<1>11. Cardinality(Nodes(t) \ Cover(t, V)) = Cardinality(Nodes(t) \ Cover(t, U)) + 1
  <2> DEFINE C == Cover(t, U)
  <2>1. C \subseteq Nodes(t) /\ p \in C /\ Cover(t, V) = C \ {p}
    BY <1>4, <1>7
  <2> HIDE DEF C
  <2>2. Cardinality(Nodes(t) \ (C \ {p})) = Cardinality(Nodes(t) \ C) + 1
    BY <2>1, VisitedFacts
  <2> QED
    BY <2>1, <2>2 DEF C
<1>12. HalfFlat(t, r, Q, o)
  <2>1. Q \subseteq Range(r) /\ Range(o) \cap Range(r) = {}
    BY <1>1, <1>2, <1>5, <1>6
  <2> QED
    BY <1>1, <1>6, <1>8, <1>9, <1>10, <2>1 DEF HalfFlat
<1> QED
  BY <1>11, <1>12 DEF r, back, p

(* A node that comes up again comes out.                                    *)
LEMMA CloseNode ==
  ASSUME NEW t \in Trees, NEW s, NEW P, NEW o, HalfFlat(t, s, P, o), s # <<>>, Pop(s) \in P
  PROVE  LET Q == P \ {Pop(s)} IN
         /\ HalfFlat(t, Below(s), Q, Append(o, Pop(s)))
         /\ Range(Below(s)) \ Q = Range(s) \ P
<1> DEFINE p == Pop(s)
           r == Below(s)
           Q == P \ {p}
           q == Append(o, p)
<1>1. /\ s \in Seq(Nodes(t)) /\ Distinct(s) /\ P \subseteq Range(s)
      /\ o \in Seq(Nodes(t)) /\ Distinct(o) /\ Range(o) \cap Range(s) = {}
      /\ Apart(t, Range(s) \ P) /\ Nodes(t) \ Cover(t, Range(s) \ P) = P \cup Range(o)
      /\ ChildrenOut(t, s, P, o) /\ InOrder(t, s, o)
  BY DEF HalfFlat
<1>2. /\ r \in Seq(Nodes(t)) /\ Range(r) = Range(s) \ {p} /\ Distinct(r)
      /\ p \in Nodes(t) /\ p \in Range(s)
      /\ \A x, y : Before(s, x, y) => x # p
      /\ \A x, y : Before(s, x, y) /\ y # p => Before(r, x, y)
  BY <1>1, BeforePopped
<1>3. /\ q \in Seq(Nodes(t)) /\ Range(q) = Range(o) \cup {p} /\ Distinct(q)
      /\ \A x, y : Before(o, x, y) => Before(q, x, y)
      /\ \A x \in Range(o) : Before(q, x, p)
  BY <1>1, <1>2, BeforeAppended
<1>4. InOrder(t, r, q)
  BY <1>1, PopInOrder
<1>5. p \in P
  OBVIOUS
<1> HIDE DEF p, r, q
<1>6. Range(r) \ Q = Range(s) \ P
  BY <1>1, <1>2, <1>5
<1>7. ChildrenOut(t, r, Q, q)
  <2>1. ASSUME NEW d \in Nodes(t) \ {t.root}, ParentOf(t, d) \in Range(q)
        PROVE  Before(q, d, ParentOf(t, d))
    <3>1. CASE ParentOf(t, d) \in Range(o)
      BY <1>1, <1>3, <3>1 DEF ChildrenOut
    <3>2. CASE ParentOf(t, d) = p
      <4>1. d \in Range(o)
        BY <1>1, <1>2, <1>5, <3>2 DEF ChildrenOut
      <4> QED
        BY <1>3, <3>2, <4>1
    <3> QED
      BY <1>3, <2>1, <3>1, <3>2
  <2>2. ASSUME NEW d \in Nodes(t) \ {t.root}, ParentOf(t, d) \in Q
        PROVE  d \in Range(q) \/ Before(r, ParentOf(t, d), d)
    BY <1>1, <1>2, <1>3, <2>2 DEF ChildrenOut
  <2> QED
    BY <2>1, <2>2 DEF ChildrenOut
<1>8. Q \subseteq Range(r) /\ Range(q) \cap Range(r) = {} /\ Q \cup Range(q) = P \cup Range(o)
  BY <1>1, <1>2, <1>3, <1>5
<1>9. HalfFlat(t, r, Q, q)
  BY <1>1, <1>2, <1>3, <1>4, <1>6, <1>7, <1>8 DEF HalfFlat
<1> QED
  BY <1>6, <1>9 DEF p, r, q

Entry(t) == [node : Nodes(t), processed : BOOLEAN]

LEMMA OneFacts ==
  ASSUME NEW E, NEW x \in E PROVE <<x>> \in Seq(E) /\ Range(<<x>>) = {x}
  BY DEF Range

LEMMA EntryNodes ==
  ASSUME NEW t \in Trees, NEW a \in Seq(Entry(t))
  PROVE  /\ NodesOf(a) \in Seq(Nodes(t)) /\ Len(NodesOf(a)) = Len(a)
         /\ a = <<>> <=> NodesOf(a) = <<>>
         /\ \A b \in Seq(Entry(t)) : NodesOf(a \o b) = NodesOf(a) \o NodesOf(b)
         /\ \A e \in Entry(t) : NodesOf(Append(a, e)) = Append(NodesOf(a), e.node)
         /\ a # <<>> => /\ Pop(a) \in Entry(t) /\ Pop(NodesOf(a)) = Pop(a).node
                        /\ Below(a) \in Seq(Entry(t)) /\ NodesOf(Below(a)) = Below(NodesOf(a))
<1>1. \A e \in Entry(t) : e.node \in Nodes(t)
  BY DEF Entry
<1> QED
  BY <1>1, NodesOfFacts

(* The nodes of the entries that were pushed back.                          *)
PushedBack(stack) == {e.node : e \in {f \in Range(stack) : f.processed}}

(* flatten is at its turn k: each node it has opened took one, each that    *)
(* came out another.                                                        *)
Flattened(t, w, k) ==
  LET s == NodesOf(w.stack)
      P == PushedBack(w.stack)
  IN  /\ w \in FlattenType(t) /\ HalfFlat(t, s, P, w.out)
      /\ w.stack # <<>> => k = Cardinality(Nodes(t) \ Cover(t, Range(s) \ P)) + Len(w.out)

LEMMA FlattenStart == ASSUME NEW t \in Trees PROVE Flattened(t, FlattenWalk(t, 0), 0)
<1> DEFINE entry == [node |-> t.root, processed |-> FALSE]
           w == [stack |-> <<entry>>, out |-> <<>>]
<1>1. FlattenWalk(t, 0) = w
  BY FlattenTurns
<1>2. /\ t.root \in Nodes(t) /\ IsStack(t, <<t.root>>) /\ Range(<<t.root>>) = {t.root}
      /\ Cover(t, {t.root}) = Nodes(t)
  BY RootFact, StackOfOne, RootSpan
<1>3. NodesOf(<<entry>>) = <<t.root>> /\ PushedBack(<<entry>>) = {}
  <2>1. entry.node = t.root /\ entry.processed = FALSE
    OBVIOUS
  <2> HIDE DEF entry
  <2>2. Range(<<entry>>) = {entry}
    BY OneFacts
  <2>3. ~entry.processed
    BY <2>1
  <2>4. PushedBack(<<entry>>) = {}
    BY <2>2, <2>3 DEF PushedBack
  <2> QED
    BY <2>1, <2>4 DEF NodesOf
<1>4. w \in FlattenType(t)
  BY <1>2 DEF FlattenType
<1>5. Distinct(<<>>) /\ Range(<<>>) = {} /\ <<>> \in Seq(Nodes(t)) /\ Len(<<>>) = 0
  BY DEF Distinct, Range
<1>6. ChildrenOut(t, <<t.root>>, {}, <<>>)
  BY <1>5 DEF ChildrenOut
<1>7. InOrder(t, <<t.root>>, <<>>)
  BY <1>2, <1>5, BackFacts, KidFacts DEF InOrder
<1>8. HalfFlat(t, <<t.root>>, {}, <<>>)
  BY <1>2, <1>5, <1>6, <1>7 DEF HalfFlat, IsStack
<1>9. Cardinality(Nodes(t) \ Cover(t, Range(<<t.root>>) \ {})) = 0
  <2>1. Range(<<t.root>>) \ {} = {t.root} /\ Nodes(t) \ Nodes(t) = {}
    BY <1>2
  <2> QED
    BY <1>2, <2>1, FS_EmptySet
<1>10. Flattened(t, w, 0)
  <2>1. w.stack = <<entry>> /\ w.out = <<>>
    OBVIOUS
  <2> HIDE DEF w, entry
  <2> QED
    <3>1. NodesOf(w.stack) = <<t.root>> /\ PushedBack(w.stack) = {}
      BY <1>3, <2>1
    <3>2. HalfFlat(t, NodesOf(w.stack), PushedBack(w.stack), w.out)
      BY <1>8, <2>1, <3>1
    <3>3. 0 = Cardinality(Nodes(t) \ Cover(t, Range(NodesOf(w.stack)) \ PushedBack(w.stack)))
                + Len(w.out)
      <4>1. Range(NodesOf(w.stack)) \ PushedBack(w.stack) = Range(<<t.root>>) \ {}
        BY <3>1
      <4>2. Len(w.out) = 0
        BY <1>5, <2>1
      <4>3. Cardinality(Nodes(t) \ Cover(t, Range(NodesOf(w.stack)) \ PushedBack(w.stack))) = 0
        BY <1>9, <4>1
      <4> QED
        BY <4>2, <4>3
    <3> QED
      BY <1>4, <3>2, <3>3 DEF Flattened
<1> QED
  BY <1>1, <1>10

LEMMA FlattenTurn ==
  ASSUME NEW t \in Trees, NEW k \in Nat, NEW w, Flattened(t, w, k), w.stack # <<>>
  PROVE  Flattened(t, FlattenStep(t, w), k + 1)
<1> DEFINE v == FlattenStep(t, w)
           stack == w.stack
           s == NodesOf(stack)
           P == PushedBack(stack)
           top == Pop(stack)
           p == top.node
<1>1. /\ w \in FlattenType(t) /\ v \in FlattenType(t) /\ HalfFlat(t, s, P, w.out)
      /\ k = Cardinality(Nodes(t) \ Cover(t, Range(s) \ P)) + Len(w.out)
  BY StepTypes DEF Flattened
<1>2. stack \in Seq(Entry(t)) /\ stack # <<>> /\ w.out \in Seq(Nodes(t)) /\ Len(w.out) \in Nat
  BY <1>1 DEF FlattenType, Entry
<1> HIDE DEF v, stack
<1>3. /\ s \in Seq(Nodes(t)) /\ s # <<>> /\ top \in Entry(t) /\ Pop(s) = p
      /\ Below(stack) \in Seq(Entry(t)) /\ NodesOf(Below(stack)) = Below(s)
  BY <1>2, EntryNodes
<1>4. /\ DOMAIN s = DOMAIN stack /\ \A i \in DOMAIN stack : s[i] = stack[i].node
      /\ Distinct(s)
  BY <1>1 DEF NodesOf, HalfFlat
<1> HIDE DEF s, P
<1>5. Distinct(stack)
  BY <1>4 DEF Distinct
<1>6. /\ Range(Below(stack)) = Range(stack) \ {top} /\ top \in Range(stack)
  BY <1>2, <1>5, BeforePopped
<1>7. \A e, f \in Range(stack) : e.node = f.node => e = f
  BY <1>4 DEF Distinct, Range
<1>8. p \in P <=> top.processed
  <2>1. p \in P => top.processed
    BY <1>6, <1>7 DEF P, PushedBack
  <2>2. top.processed => p \in P
    BY <1>6 DEF P, PushedBack
  <2> QED
    BY <2>1, <2>2
<1>9. p \in Nodes(t) /\ top.processed \in BOOLEAN
  BY <1>3 DEF Entry
<1> HIDE DEF top
<1>10. Cardinality(Nodes(t) \ Cover(t, Range(s) \ P)) \in Nat
  <2>1. Cover(t, Range(s) \ P) \subseteq Nodes(t)
    BY <1>1, SpanParts DEF HalfFlat, Apart, Cover
  <2> DEFINE C == Cover(t, Range(s) \ P)
  <2> HIDE DEF C
  <2>2. Cardinality(Nodes(t) \ C) \in Nat
    BY <2>1, VisitedFacts DEF C
  <2> QED
    BY <2>2 DEF C
<1>11. CASE top.processed
  <2>1. v.stack = Below(stack) /\ v.out = Append(w.out, p)
    BY <1>11 DEF v, FlattenStep, stack, top
  <2>2. PushedBack(v.stack) = P \ {p}
    BY <1>6, <1>7, <2>1 DEF P, PushedBack
  <2>3. /\ HalfFlat(t, Below(s), P \ {p}, Append(w.out, p))
        /\ Range(Below(s)) \ (P \ {p}) = Range(s) \ P
    <3>1. Pop(s) \in P
      BY <1>3, <1>8, <1>11
    <3>2. HalfFlat(t, s, P, w.out) /\ s # <<>>
      BY <1>1, <1>3
    <3>3. /\ HalfFlat(t, Below(s), P \ {Pop(s)}, Append(w.out, Pop(s)))
          /\ Range(Below(s)) \ (P \ {Pop(s)}) = Range(s) \ P
      BY ONLY t \in Trees, <3>1, <3>2, CloseNode
    <3> QED
      BY <1>3, <3>3
  <2>4. Len(v.out) = Len(w.out) + 1
    BY <1>2, <1>9, <2>1, AppendProperties
  <2>5. NodesOf(v.stack) = Below(s)
    BY <1>3, <2>1
  <2>6. k + 1 = Cardinality(Nodes(t) \ Cover(t, Range(s) \ P)) + Len(v.out)
    BY <1>1, <1>2, <1>10, <2>4
  <2> QED
    BY <1>1, <2>1, <2>2, <2>3, <2>5, <2>6 DEF Flattened, v
<1>12. CASE ~top.processed
  <2> DEFINE back == Reverse(t.children[p])
             self == [node |-> p, processed |-> TRUE]
             pushed == [i \in DOMAIN t.children[p] |-> [node |-> back[i], processed |-> FALSE]]
  <2>1. v.stack = Below(stack) \o <<self>> \o pushed /\ v.out = w.out
    BY <1>12 DEF v, FlattenStep, stack, top
  <2>2. /\ back \in Seq(Nodes(t)) /\ Len(back) \in Nat
        /\ DOMAIN back = 1..Len(back) /\ DOMAIN t.children[p] = 1..Len(back)
        /\ \A i \in 1..Len(back) : back[i] \in Nodes(t)
    <3>1. /\ back \in Seq(Nodes(t)) /\ Len(back) \in Nat
          /\ DOMAIN back = 1..Len(back) /\ DOMAIN t.children[p] = 1..Len(back)
      BY <1>9, ChildrenFacts
    <3> HIDE DEF back
    <3> QED
      BY <3>1, ElementOfSeq
  <2> HIDE DEF back
  <2>3. /\ pushed \in Seq(Entry(t)) /\ NodesOf(pushed) = back
        /\ \A e \in Range(pushed) : ~e.processed
    <3>1. pushed \in [1..Len(back) -> Entry(t)] /\ DOMAIN pushed = 1..Len(back)
      BY <2>2 DEF Entry
    <3>2. pushed \in Seq(Entry(t))
      <4> HIDE DEF pushed
      <4> QED
        BY <2>2, <3>1
    <3>3. NodesOf(pushed) = [i \in 1..Len(back) |-> back[i]]
      BY <3>1 DEF NodesOf
    <3>4. back = [i \in 1..Len(back) |-> back[i]]
      BY <2>2
    <3>5. \A e \in Range(pushed) : ~e.processed
      <4>1. \A i \in DOMAIN pushed : pushed[i].processed = FALSE
        BY <3>1
      <4> HIDE DEF pushed
      <4> QED
        BY <4>1 DEF Range
    <3> QED
      BY <3>2, <3>3, <3>4, <3>5
  <2>4. <<self>> \in Seq(Entry(t)) /\ NodesOf(<<self>>) = <<p>> /\ Range(<<self>>) = {self}
    <3>1. self \in Entry(t) /\ self.node = p
      BY <1>9 DEF Entry
    <3> HIDE DEF self
    <3>2. NodesOf(<<self>>) = <<p>>
      BY <3>1 DEF NodesOf
    <3> QED
      BY <3>1, <3>2, OneFacts
  <2>5. self.node = p /\ self.processed
    OBVIOUS
  <2> HIDE DEF pushed, self
  <2>6. /\ Below(stack) \o <<self>> \in Seq(Entry(t))
        /\ Range(Below(stack) \o <<self>>) = Range(Below(stack)) \cup {self}
        /\ NodesOf(Below(stack) \o <<self>>) = Below(s) \o <<p>>
    <3>1. Below(stack) \o <<self>> \in Seq(Entry(t))
      BY <1>3, <2>4, ConcatProperties
    <3>2. Range(Below(stack) \o <<self>>) = Range(Below(stack)) \cup Range(<<self>>)
      BY <1>3, <2>4, RangeConcatenation
    <3>3. NodesOf(Below(stack) \o <<self>>) = NodesOf(Below(stack)) \o NodesOf(<<self>>)
      <4>1. \A b \in Seq(Entry(t)) : NodesOf(Below(stack) \o b) = NodesOf(Below(stack)) \o NodesOf(b)
        BY <1>3, EntryNodes
      <4> QED
        BY <2>4, <4>1
    <3> QED
      BY <1>3, <2>4, <3>1, <3>2, <3>3
  <2>7. Below(s) \o <<p>> = s
    <3>1. /\ Below(s) \in Seq(Nodes(t)) /\ Len(Below(s)) = Len(s) - 1 /\ Len(s) \in Nat \ {0}
          /\ \A i \in 1..(Len(s) - 1) : Below(s)[i] = s[i]
          /\ s[Len(s)] = p
      BY <1>3, BelowFacts
    <3>2. Below(s) \o <<p>> = Append(Below(s), p)
      BY <3>1
    <3>3. /\ Append(Below(s), p) \in Seq(Nodes(t)) /\ Len(Append(Below(s), p)) = Len(s)
          /\ \A i \in 1..(Len(s) - 1) : Append(Below(s), p)[i] = s[i]
          /\ Append(Below(s), p)[Len(s)] = s[Len(s)]
      BY <1>9, <3>1, AppendProperties
    <3>4. \A i \in 1..Len(s) : i \in 1..(Len(s) - 1) \/ i = Len(s)
      BY <3>1
    <3>5. \A i \in 1..Len(s) : Append(Below(s), p)[i] = s[i]
      BY <3>3, <3>4
    <3>6. Append(Below(s), p) = s
      BY <1>3, <3>3, <3>5, SeqEqual
    <3> QED
      BY <3>2, <3>6
  <2>8. NodesOf(v.stack) = s \o back
    <3>1. NodesOf(v.stack) = NodesOf(Below(stack) \o <<self>>) \o NodesOf(pushed)
      <4> DEFINE low == Below(stack) \o <<self>>
      <4> HIDE DEF low
      <4>1. low \in Seq(Entry(t)) /\ v.stack = low \o pushed
        BY <2>1, <2>6 DEF low
      <4>2. \A b \in Seq(Entry(t)) : NodesOf(low \o b) = NodesOf(low) \o NodesOf(b)
        BY <4>1, EntryNodes
      <4> QED
        BY <2>3, <4>1, <4>2 DEF low
    <3> QED
      BY <2>3, <2>6, <2>7, <3>1
  <2>9. PushedBack(v.stack) = P \cup {p}
    <3>1. Range(v.stack) = (Range(stack) \ {top}) \cup {self} \cup Range(pushed)
      <4>1. Range(v.stack) = Range(Below(stack) \o <<self>>) \cup Range(pushed)
        <5> DEFINE low == Below(stack) \o <<self>>
        <5>1. low \in Seq(Entry(t)) /\ v.stack = low \o pushed /\ pushed \in Seq(Entry(t))
          BY <2>1, <2>3, <2>6
        <5> HIDE DEF low
        <5>2. Range(low \o pushed) = Range(low) \cup Range(pushed)
          BY <5>1, RangeConcatenation
        <5> QED
          BY <5>1, <5>2 DEF low
      <4> QED
        BY <1>6, <2>6, <4>1
    <3> QED
      BY <1>6, <1>12, <2>3, <2>5, <3>1 DEF P, PushedBack
  <2>10. /\ HalfFlat(t, s \o back, P \cup {p}, w.out)
         /\ Cardinality(Nodes(t) \ Cover(t, Range(s \o back) \ (P \cup {p}))) =
              Cardinality(Nodes(t) \ Cover(t, Range(s) \ P)) + 1
    <3>1. Pop(s) \notin P
      BY <1>3, <1>8, <1>12
    <3> DEFINE r == s \o Reverse(t.children[Pop(s)])
               Q == P \cup {Pop(s)}
    <3>2. /\ HalfFlat(t, r, Q, w.out)
          /\ Cardinality(Nodes(t) \ Cover(t, Range(r) \ Q)) =
               Cardinality(Nodes(t) \ Cover(t, Range(s) \ P)) + 1
      BY <1>1, <1>3, <3>1, OpenNode
    <3>3. r = s \o back /\ Q = P \cup {p}
      BY <1>3 DEF back
    <3> HIDE DEF r, Q
    <3> QED
      BY <3>2, <3>3
  <2>11. k + 1 = Cardinality(Nodes(t) \ Cover(t, Range(s \o back) \ (P \cup {p}))) + Len(v.out)
    BY <1>1, <1>2, <1>10, <2>1, <2>10
  <2> QED
    BY <1>1, <2>1, <2>8, <2>9, <2>10, <2>11 DEF Flattened, v
<1> QED
  BY <1>9, <1>11, <1>12 DEF v

LEMMA FlattensAll ==
  ASSUME NEW t \in Trees
  PROVE  LET flat == FlattenWalk(t, 2 * Cardinality(Nodes(t)))
         IN  /\ flat.stack = <<>> /\ IsPermutationOf(flat.out, Nodes(t))
             /\ flat.out \in Seq(Nodes(t)) /\ Distinct(flat.out)
             /\ \A n \in Nodes(t) :
                  /\ \A d \in Descendants(t, n) : Before(flat.out, d, n)
                  /\ \A i, j \in DOMAIN t.children[n] : i < j =>
                       Before(flat.out, t.children[n][i], t.children[n][j])
<1> DEFINE S == {k \in Nat : Flattened(t, FlattenWalk(t, k), k)}
           size == Cardinality(Nodes(t))
           flat == FlattenWalk(t, 2 * size)
           out == flat.out
           s == NodesOf(flat.stack)
           P == PushedBack(flat.stack)
<1>1. Nat \subseteq S
  <2>1. ASSUME NEW k \in Nat, Flattened(t, FlattenWalk(t, k), k)
        PROVE  Flattened(t, FlattenWalk(t, k + 1), k + 1)
    <3>1. CASE FlattenWalk(t, k).stack = <<>>
      BY <2>1, <3>1, FlattenTurns DEF Flattened
    <3>2. CASE FlattenWalk(t, k).stack # <<>>
      BY <2>1, <3>2, FlattenTurns, FlattenTurn
    <3> QED
      BY <3>1, <3>2
  <2>2. 0 \in S
    BY FlattenStart
  <2>3. \A k \in Nat : k \in S => k + 1 \in S
    BY <2>1
  <2> HIDE DEF S
  <2> QED
    BY <2>2, <2>3, NatSetInduction
<1>2. size \in Nat /\ 2 * size \in Nat
  <2>1. size \in Nat
    BY VisitedFacts
  <2> HIDE DEF size
  <2> QED
    BY <2>1
<1>3. Flattened(t, flat, 2 * size)
  BY <1>1, <1>2
<1> HIDE DEF flat
<1>4. /\ flat.stack \in Seq(Entry(t)) /\ HalfFlat(t, s, P, out)
      /\ flat.stack # <<>> =>
           2 * size = Cardinality(Nodes(t) \ Cover(t, Range(s) \ P)) + Len(out)
  BY <1>3 DEF Flattened, FlattenType, Entry
<1>5. /\ s \in Seq(Nodes(t)) /\ P \subseteq Range(s) /\ out \in Seq(Nodes(t)) /\ Distinct(out)
      /\ Range(out) \cap Range(s) = {} /\ Apart(t, Range(s) \ P)
      /\ Nodes(t) \ Cover(t, Range(s) \ P) = P \cup Range(out)
      /\ ChildrenOut(t, s, P, out) /\ InOrder(t, s, out)
  BY <1>4 DEF HalfFlat
<1>6. Cardinality(Range(out)) = Len(out) /\ Len(out) \in Nat /\ Range(out) \subseteq Nodes(t)
  <2>1. Range(out) \subseteq Nodes(t)
    BY <1>5, ElementOfSeq, LenProperties DEF Range
  <2> QED
    BY <1>5, <2>1, DistinctCount
<1> HIDE DEF s, P, out
<1>7. flat.stack = <<>>
  <2>1. SUFFICES ASSUME flat.stack # <<>> PROVE FALSE
    OBVIOUS
  <2>2. s # <<>>
    BY <1>4, <2>1, EntryNodes DEF s
  <2>3. Pop(s) \in Range(s) /\ Pop(s) \in Nodes(t)
    <3>1. /\ Len(s) \in Nat \ {0} /\ DOMAIN s = 1..Len(s) /\ Pop(s) = s[Len(s)]
          /\ Pop(s) \in Nodes(t)
      BY <1>5, <2>2, BelowFacts
    <3> QED
      BY <3>1 DEF Range
  <2> DEFINE C == Nodes(t) \ Range(out)
             D == Nodes(t) \ (P \cup Range(out))
  <2>4. Pop(s) \in C
    BY <1>5, <2>3
  <2>5. Nodes(t) \ C = Range(out)
    BY <1>6
  <2>6. Cardinality(Nodes(t) \ C) < size
    <3> HIDE DEF C
    <3> QED
      BY <2>4, VisitedFacts DEF C
  <2>7. Nodes(t) \ D = P \cup Range(out)
    BY <1>5
  <2>8. Cardinality(Nodes(t) \ D) <= size /\ Cardinality(Nodes(t) \ D) \in Nat
    <3>1. D \subseteq Nodes(t)
      OBVIOUS
    <3> HIDE DEF D
    <3> QED
      BY <3>1, VisitedFacts
  <2>9. 2 * size = Cardinality(P \cup Range(out)) + Len(out)
    BY <1>4, <1>5, <2>1
  <2>10. Len(out) < size /\ Cardinality(P \cup Range(out)) <= size
    BY <1>6, <2>5, <2>6, <2>7, <2>8
  <2>11. Len(out) \in Nat /\ Cardinality(P \cup Range(out)) \in Nat
    BY <1>6, <2>7, <2>8
  <2> HIDE DEF C, D, size
  <2> QED
    BY <1>2, <2>9, <2>10, <2>11
<1>8. Range(out) = Nodes(t)
  <2>1. s = <<>> /\ Range(<<>>) = {}
    <3>1. s = <<>>
      BY <1>4, <1>7, EntryNodes DEF s
    <3> QED
      BY <3>1 DEF Range
  <2>2. P = {} /\ Cover(t, {}) = {}
    BY <1>5, <2>1 DEF Cover
  <2> QED
    BY <1>5, <2>1, <2>2
<1>9. IsPermutationOf(out, Nodes(t))
  <2>1. Len(out) = size /\ ToSet(out) = Nodes(t)
    BY <1>6, <1>8 DEF ToSet, Range
  <2> QED
    BY <2>1 DEF IsPermutationOf
<1>10. ASSUME NEW n \in Nodes(t), NEW d \in Descendants(t, n) PROVE Before(out, d, n)
  <2>1. d \in Nodes(t) /\ Above(t, n, d)
    BY <1>10, OrphansAreBeneath DEF Beneath
  <2> DEFINE A == {m \in Nodes(t) : m = d \/ Before(out, d, m)}
  <2>2. ASSUME NEW m \in A \ {t.root} PROVE ParentOf(t, m) \in A
    <3>1. m \in Nodes(t) /\ ParentOf(t, m) \in Nodes(t)
      BY <2>2, ParentFacts
    <3>2. Before(out, m, ParentOf(t, m))
      BY <1>5, <1>8, <2>2, <3>1 DEF ChildrenOut
    <3>3. Before(out, d, m) => Before(out, d, ParentOf(t, m))
      BY <1>5, <3>2, BeforeOrder
    <3> QED
      BY <2>2, <3>1, <3>2, <3>3
  <2>3. A \in ParentClosed(t) /\ d \in A
    BY <2>1, <2>2 DEF ParentClosed
  <2>4. n \in A /\ n # d
    BY <2>1, <2>3 DEF Above
  <2> QED
    BY <2>4
<1>11. ASSUME NEW n \in Nodes(t),
              NEW i \in DOMAIN t.children[n], NEW j \in DOMAIN t.children[n], i < j
       PROVE  Before(out, t.children[n][i], t.children[n][j])
  BY <1>5, <1>8, <1>11, BackFacts DEF InOrder
<1> QED
  BY <1>5, <1>7, <1>9, <1>10, <1>11 DEF flat, out

-----------------------------------------------------------------------------
(* On every finite tree, of any depth and branching, the five loops end     *)
(* within the turns WalksCorrect gives them and return what it says:        *)
(* count_total_operations, collect_orphaned_nodes, find_node_by_id,         *)
(* TreeNode::flatten and pretty_print_tree.                                 *)
THEOREM WalksAreRight == \A t \in Trees : WalksCorrect(t)
<1> SUFFICES ASSUME NEW t \in Trees PROVE WalksCorrect(t)
  OBVIOUS
<1> DEFINE size == Cardinality(Nodes(t))
           count == CountWalk(t, size)
           flat == FlattenWalk(t, 2 * size)
           lines == PrintWalk(t, size)
           printed == [i \in DOMAIN lines.out |-> lines.out[i].node]
<1>1. count.stack = <<>> /\ count.out = size
  BY CountsAll
<1>2. \A n \in Nodes(t) :
        LET orphans == CollectWalk(t, n, Cardinality(Descendants(t, n)) + 1) IN
        orphans.stack = <<>> /\ IsPermutationOf(orphans.out, Descendants(t, n))
  BY CollectsAll
<1>3. \A id \in Nodes(t) \cup {size} :
        LET found == FindWalk(t, id, size) IN
        found.stack = <<>> /\ found.out = Nodes(t) \cap {id}
  BY FindsAll
<1>4. \A m, n \in Nodes(t) : Above(t, m, n) <=> n \in Descendants(t, m)
  BY OrphansAreBeneath DEF Beneath
<1>5. /\ flat.stack = <<>> /\ IsPermutationOf(flat.out, Nodes(t))
      /\ \A n \in Nodes(t) : \A i, j \in DOMAIN t.children[n] : i < j =>
           Before(flat.out, t.children[n][i], t.children[n][j])
  BY FlattensAll
<1>6. /\ lines.stack = <<>> /\ IsPermutationOf(printed, Nodes(t))
      /\ \A i \in DOMAIN lines.out : lines.out[i].depth = Level(t, lines.out[i].node)
      /\ \A n \in Nodes(t) :
           /\ \A d \in Descendants(t, n) : Before(printed, n, d)
           /\ \A i, j \in DOMAIN t.children[n] : i < j =>
                Before(printed, t.children[n][i], t.children[n][j])
  BY PrintsAll
<1>7. ASSUME NEW n \in Nodes(t)
      PROVE  /\ \A d \in Descendants(t, n) : Before(printed, n, d)
             /\ \A i, j \in DOMAIN t.children[n] : i < j =>
                  /\ Before(flat.out, t.children[n][i], t.children[n][j])
                  /\ Before(printed, t.children[n][i], t.children[n][j])
  <2> HIDE DEF flat, printed
  <2> QED
    BY <1>5, <1>6
<1> HIDE DEF count, flat, lines, printed
<1> QED
  BY <1>1, <1>2, <1>3, <1>4, <1>5, <1>6, <1>7, Zenon
     DEF WalksCorrect, count, flat, lines, printed

(* The order flatten does have, on every finite tree: an operation comes    *)
(* after all that depend on it, and never before one of them.               *)
THEOREM FlattensChildrenFirst ==
  \A t \in Trees : \A n \in Nodes(t) : \A d \in Descendants(t, n) :
    LET out == FlattenWalk(t, 2 * Cardinality(Nodes(t))).out
    IN  Before(out, d, n) /\ ~Before(out, n, d)
<1> SUFFICES ASSUME NEW t \in Trees, NEW n \in Nodes(t), NEW d \in Descendants(t, n)
             PROVE  LET out == FlattenWalk(t, 2 * Cardinality(Nodes(t))).out
                    IN  Before(out, d, n) /\ ~Before(out, n, d)
  OBVIOUS
<1> DEFINE out == FlattenWalk(t, 2 * Cardinality(Nodes(t))).out
<1>1. Before(out, d, n) /\ out \in Seq(Nodes(t)) /\ Distinct(out)
  BY FlattensAll
<1> HIDE DEF out
<1>2. ~Before(out, n, d)
  BY <1>1, BeforeOrder DEF Before, Distinct
<1> QED
  BY <1>1, <1>2 DEF out

(* So its comment is wrong of every tree in which anything depends on       *)
(* anything, and right only of a lone operation.                            *)
THEOREM FlattenOrderRefuted ==
  \A t \in Trees :
    FlattensInDependencyOrder(t) <=> \A n \in Nodes(t) : Descendants(t, n) = {}
BY FlattensChildrenFirst DEF FlattensInDependencyOrder

(* The loops agree with the relation `children` on the tree the run was     *)
(* given.                                                                   *)
THEOREM WalksHold == Spec => []WalksAgree
<1>1. IInv => WalksAgree
  BY WalksAreRight DEF IInv, TypeOK, WalksAgree
<1> QED
  BY <1>1, Invariance, PTL
=============================================================================
