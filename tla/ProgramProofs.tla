---------------------------- MODULE ProgramProofs ----------------------------
(***************************************************************************)
(* What the executor makes of the plans it is given, and the program of    *)
(* both, on every set of trees that keep the promises of SafePlan - as     *)
(* every plan of the planner does: the last section takes that from        *)
(* PlannerProofs, and its theorems assume nothing but such plans.          *)
(*                                                                         *)
(* The argument for "no two operations disturb each other" is one set: an  *)
(* operation in flight together with all that have succeeded is closed     *)
(* under parents, by ParentFirst, so whatever is above the operation has   *)
(* succeeded and is not in flight.                                         *)
(*                                                                         *)
(* Every step of Program is a step of Executor or leaves the executor      *)
(* alone, so what is proved of the executor holds of the program, whatever *)
(* the operations pay and whatever main does before and after them.  On    *)
(* that rests where the money is: a wallet is filled by one operation and  *)
(* emptied by the next, so what a failure leaves is in its sender.         *)
(***************************************************************************)
EXTENDS Program, ExecutorProofs, FoldFacts

SafeTrees == \A t \in Trees : SafePlan(t)

(* Only the root wallet may have sent anything before the run.              *)
NewWalletsOnly == \A t \in Trees : MayBeMined \subseteq {From(t, t.root)}

-----------------------------------------------------------------------------
(* Two operations in flight are unordered, and so not in conflict.          *)
LEMMA InFlightApart ==
  ASSUME IInv, SafeTrees, NEW m \in Nodes(tree), NEW n \in Nodes(tree), m # n,
         InFlight(m), InFlight(n)
  PROVE  ~Conflict(tree, m, n)
<1>1. Started(m) /\ Started(n) /\ status[m] # "ok" /\ status[n] # "ok"
  BY DEF InFlight, Started
<1>2. ~\A S \in ParentClosed(tree) : n \in S => m \in S
  BY <1>1, AboveSucceeded
<1>3. ~\A S \in ParentClosed(tree) : m \in S => n \in S
  BY <1>1, AboveSucceeded
<1>4. ConflictsOrdered(tree)
  BY DEF SafeTrees, SafePlan, IInv, TypeOK
<1> QED
  BY <1>2, <1>3, <1>4 DEF ConflictsOrdered

(* Two operations of one sender never run together, so they never race for  *)
(* a nonce, whatever fails and however the answers interleave.              *)
THEOREM SendersApart == ASSUME SafeTrees PROVE Spec => []NoSharedSender
<1>1. IInv => NoSharedSender
  BY InFlightApart DEF NoSharedSender, Conflict
<1> QED
  BY <1>1, Invariance, PTL

(* Nothing moves the balance of a sweep while it runs.                      *)
THEOREM SweepsApart == ASSUME SafeTrees PROVE Spec => []SweepIsolated
<1>1. IInv => SweepIsolated
  BY InFlightApart DEF SweepIsolated, Conflict
<1> QED
  BY <1>1, Invariance, PTL

(* A generated wallet sends only after a transfer to it has succeeded.      *)
THEOREM Funded == ASSUME SafeTrees PROVE Spec => []FundedBeforeUse
<1>1. ASSUME IInv PROVE FundedBeforeUse
  <2> SUFFICES ASSUME NEW n \in Nodes(tree), Started(n), From(tree, n) # RootAddress
               PROVE  \E m \in Nodes(tree) : To(tree, m) = From(tree, n) /\ status[m] = "ok"
    BY DEF FundedBeforeUse
  <2>1. n # tree.root /\ tree \in Trees
    BY <1>1 DEF RootAddress, IInv, TypeOK
  <2>2. ParentOf(tree, n) \in Nodes(tree) /\ status[ParentOf(tree, n)] = "ok"
    BY <1>1, <2>1, ParentFacts DEF IInv, ParentFirst
  <2>3. From(tree, n) = To(tree, ParentOf(tree, n))
    BY <2>1 DEF SafeTrees, SafePlan, SendsWhatItGot, RootAddress
  <2> QED
    BY <2>2, <2>3
<1> QED
  BY <1>1, Invariance, PTL

-----------------------------------------------------------------------------
(* Whose transactions the chain has, who is taken for new, and on what the  *)
(* executor decides it: a sender's first operation finds its transaction    *)
(* count 0, and what was found is merged with the operation's result.       *)
Replied(n) == status[n] \in {"sending", "ok"}

NewSenders == {From(tree, n) : n \in taskNew}

NewWalletFacts ==
  /\ \A n \in Nodes(tree) :
       /\ status[n] = "ok" /\ From(tree, n) # To(tree, n) => From(tree, n) \in mined
       /\ Replied(n) => From(tree, n) \in MayBeMined \cup NewSenders
  /\ mined \cup mempool \subseteq MayBeMined \cup NewSenders
  /\ \A n \in taskNew \cap taskMap : From(tree, n) \in newWallets

GInv == RInv /\ NewWalletFacts

LEMMA InitGoal == Init => NewWalletFacts
<1> SUFFICES ASSUME Init PROVE NewWalletFacts
  OBVIOUS
<1>1. \A n \in Nodes(tree) : status[n] = "idle"
  BY DEF Init
<1>2. mined \cup mempool \subseteq MayBeMined /\ taskNew = {}
  BY DEF Init
<1> QED
  BY <1>1, <1>2 DEF NewWalletFacts, Replied

(* A step that answers no operation and collects no result changes none of  *)
(* what NewWalletFacts speaks of, but for operations that start.            *)
LEMMA QuietStep ==
  ASSUME NewWalletFacts, UNCHANGED <<tree, taskNew, taskMap, newWallets, mined, mempool>>,
         \A n \in Nodes(tree) : status'[n] = status[n] \/ status'[n] \notin {"sending", "ok"}
  PROVE  NewWalletFacts'
<1>1. NewSenders' = NewSenders
  BY DEF NewSenders
<1>2. \A n \in Nodes(tree)' : Replied(n)' => Replied(n) /\ status'[n] = status[n]
  BY DEF Replied
<1> QED
  BY <1>1, <1>2 DEF NewWalletFacts, Replied

(* One operation n is answered: only its status, taskNew and the chain      *)
(* change, and taskNew only by n, which is not in the task map yet.         *)
LEMMA AnsweredStep ==
  ASSUME IInv, NewWalletFacts, NEW n \in Nodes(tree), Reply(n)
  PROVE  NewWalletFacts'
<1>1. UNCHANGED <<tree, taskMap, newWallets>>
  BY DEF Reply, CountReply, CountFails, SendOk, SendFails, queueVars, resultVars
<1>2. n \notin taskMap
  BY DEF Reply, CountReply, CountFails, SendOk, SendFails, IInv, Bookkeeping, InFlight
<1>3. status \in [Nodes(tree) -> Statuses] /\ taskNew \subseteq Nodes(tree)
  BY DEF IInv, TypeOK
<1>4. \A m \in Nodes(tree) \ {n} : status'[m] = status[m]
  BY <1>3 DEF Reply, CountReply, CountFails, SendOk, SendFails
<1>5. taskNew \subseteq taskNew' /\ taskNew' \subseteq taskNew \cup {n}
  BY DEF Reply, CountReply, CountFails, SendOk, SendFails
<1>6. NewSenders \subseteq NewSenders'
  BY <1>1, <1>5 DEF NewSenders
<1>7. From(tree, n) \in mined' \/ status'[n] # "ok" \/ From(tree, n) = To(tree, n)
  BY <1>3 DEF Reply, CountReply, CountFails, SendOk, SendFails
<1>8. status'[n] \in {"sending", "ok"} => From(tree, n) \in MayBeMined \cup NewSenders'
  <2>1. CASE CountReply(n)
    <3>1. From(tree, n) \in mined \/ n \in taskNew'
      BY <2>1 DEF CountReply
    <3> QED
      BY <1>1, <1>6, <3>1 DEF NewSenders, NewWalletFacts
  <2>2. CASE ~CountReply(n)
    <3>1. status'[n] \in {"sending", "ok"} => status[n] = "sending"
      BY <2>2, <1>3 DEF Reply, CountFails, SendOk, SendFails
    <3> QED
      BY <1>6, <3>1 DEF NewWalletFacts, Replied
  <2> QED
    BY <2>1, <2>2
<1>9. mined \subseteq mined' /\ mined' \cup mempool' \subseteq mined \cup mempool \cup {From(tree, n)}
  BY DEF Reply, CountReply, CountFails, SendOk, SendFails, chainVars
<1>10. mined' \cup mempool' \subseteq MayBeMined \cup NewSenders'
  <2>1. CASE SendOk(n) \/ SendFails(n)
    <3>1. From(tree, n) \in MayBeMined \cup NewSenders
      BY <2>1 DEF SendOk, SendFails, NewWalletFacts, Replied
    <3> QED
      BY <1>6, <1>9, <3>1 DEF NewWalletFacts
  <2>2. CASE ~(SendOk(n) \/ SendFails(n))
    <3>1. UNCHANGED <<mined, mempool>>
      BY <2>2 DEF Reply, CountReply, CountFails, chainVars
    <3> QED
      BY <1>6, <3>1 DEF NewWalletFacts
  <2> QED
    BY <2>1, <2>2
<1>11. \A m \in Nodes(tree)' :
         /\ (status[m] = "ok" /\ From(tree, m) # To(tree, m) => From(tree, m) \in mined)'
         /\ (Replied(m) => From(tree, m) \in MayBeMined \cup NewSenders)'
  BY <1>1, <1>4, <1>6, <1>7, <1>8, <1>9 DEF NewWalletFacts, Replied
<1>12. \A m \in taskNew' \cap taskMap' : From(tree, m)' \in newWallets'
  BY <1>1, <1>2, <1>5 DEF NewWalletFacts
<1> QED
  BY <1>10, <1>11, <1>12 DEF NewWalletFacts

LEMMA CollectedStep ==
  ASSUME NewWalletFacts, NEW n \in Nodes(tree), Collect(n)
  PROVE  NewWalletFacts'
<1>1. UNCHANGED <<tree, status, taskNew, mined, mempool>> /\ taskMap' = taskMap \cup {n}
  BY DEF Collect, chainVars
<1>2. newWallets \subseteq newWallets' /\ (n \in taskNew => From(tree, n) \in newWallets')
  BY DEF Collect, NewWalletsWith
<1>3. NewSenders' = NewSenders
  BY <1>1 DEF NewSenders
<1> QED
  BY <1>1, <1>2, <1>3 DEF NewWalletFacts, Replied

LEMMA NewWalletStep == IInv /\ NewWalletFacts /\ [Next]_vars => NewWalletFacts'
<1> SUFFICES ASSUME IInv, NewWalletFacts, [Next]_vars PROVE NewWalletFacts'
  OBVIOUS
<1>1. CASE \E n \in Nodes(tree) : Reply(n)
  BY <1>1, AnsweredStep
<1>2. CASE \E n \in Nodes(tree) : Collect(n)
  BY <1>2, CollectedStep
<1>3. CASE \E a \in mempool : LateLanding(a)
  <2>1. /\ UNCHANGED <<tree, status, taskNew, taskMap, newWallets>>
        /\ mined \subseteq mined' /\ mined' \cup mempool' \subseteq mined \cup mempool
    BY <1>3 DEF LateLanding, queueVars, resultVars
  <2>2. NewSenders' = NewSenders
    BY <2>1 DEF NewSenders
  <2> QED
    BY <2>1, <2>2 DEF NewWalletFacts, Replied
<1>4. CASE Dispatch
  <2>1. \A n \in Nodes(tree) : status'[n] = status[n] \/ status'[n] = "counting"
    BY <1>4 DEF Dispatch
  <2> QED
    BY <1>4, <2>1, QuietStep DEF Dispatch, resultVars, chainVars
<1>5. CASE Begin \/ InitialBalance \/ InitialBalanceFails \/ JoinAll \/ FinishQueue
           \/ FinalBalance \/ Done \/ UNCHANGED vars
  <2>1. UNCHANGED <<tree, status, taskNew, taskMap, newWallets, mined, mempool>>
    BY <1>5 DEF Begin, InitialBalance, InitialBalanceFails, JoinAll, FinishQueue, FinalBalance,
       Done, vars, queueVars, resultVars, chainVars
  <2> QED
    BY <2>1, QuietStep
<1> QED
  BY <1>1, <1>2, <1>3, <1>4, <1>5 DEF Next, Step

LEMMA GoalInvariance == Spec => []GInv
<1>1. NewWalletFacts /\ RInv /\ [Next]_vars => NewWalletFacts'
  BY NewWalletStep DEF RInv
<1> QED
  BY <1>1, InitGoal, ReturnInvariance, PTL DEF Spec, GInv

(* A run that returns no error has run the whole tree: an operation left    *)
(* out would, by IsTree, make one whose parent has run and succeeded, and   *)
(* that one would still be queued.                                          *)
LEMMA NothingLeftOut ==
  ASSUME GInv, outcome = "ok", errors = {}
  PROVE  taskMap = Nodes(tree) /\ \A n \in Nodes(tree) : status[n] = "ok"
<1> USE DEF GInv, RInv
<1>1. queue = {} /\ pending = {} /\ batch = {} /\ reporter # "none"
  BY DEF OkReturned, IInv, Bookkeeping, Phases
<1>2. \A n \in taskMap : status[n] = "ok"
  <2>1. status \in [Nodes(tree) -> Statuses] /\ taskMap \subseteq Nodes(tree)
    BY DEF IInv, TypeOK
  <2>2. \A n \in taskMap : Started(n) /\ ~InFlight(n) /\ status[n] # "failed"
    BY <1>1, <2>1 DEF IInv, Bookkeeping, CountsAgree
  <2> QED
    BY <2>1, <2>2 DEF Started, InFlight, Statuses
<1>3. \A n \in Nodes(tree) : MayRun(n) => n \in taskMap
  BY <1>1 DEF IInv, Bookkeeping
<1>4. tree.root \in taskMap
  <2>1. IsTree(tree)
    BY TreesAssumption DEF IInv, TypeOK
  <2> QED
    BY <1>3, <2>1 DEF IsTree, MayRun
<1>5. Nodes(tree) \ taskMap = {}
  <2> SUFFICES ASSUME Nodes(tree) \ taskMap # {} PROVE FALSE
    OBVIOUS
  <2>1. Nodes(tree) \ taskMap \in (SUBSET (Nodes(tree) \ {tree.root})) \ {{}}
    BY <1>4
  <2>2. PICK n \in Nodes(tree) \ taskMap : ParentOf(tree, n) \notin Nodes(tree) \ taskMap
    BY <2>1, TreesAssumption DEF IInv, TypeOK, IsTree
  <2>3. ParentOf(tree, n) \in taskMap
    BY <1>4, <2>2, ParentFacts DEF IInv, TypeOK
  <2> QED
    BY <1>2, <1>3, <2>2, <2>3 DEF MayRun
<1> QED
  BY <1>2, <1>5 DEF IInv, TypeOK

(* A run without errors has executed every operation, counted every wallet  *)
(* of the plan as new and made it send a transaction.                       *)
THEOREM Goal == ASSUME SafeTrees, NewWalletsOnly PROVE Spec => []GoalReached
<1>1. ASSUME GInv, outcome = "ok", errors = {}
      PROVE  /\ progress.successful = progress.total
             /\ Wallets \subseteq newWallets
             /\ Wallets \subseteq mined
  <2>1. taskMap = Nodes(tree) /\ \A n \in Nodes(tree) : status[n] = "ok"
    BY <1>1, NothingLeftOut
  <2>2. progress.successful = progress.total
    <3>1. {n \in taskMap : status[n] = "ok"} = Nodes(tree)
      BY <2>1
    <3>2. pc = "returned"
      BY <1>1 DEF GInv, RInv, OkReturned
    <3> QED
      BY <1>1, <3>1, <3>2 DEF GInv, RInv, IInv, CountsAgree
  <2>3. ASSUME NEW w \in Wallets PROVE w \in mined /\ w \in newWallets
    <3>1. tree \in Trees /\ w # From(tree, tree.root)
      BY <1>1 DEF GInv, RInv, IInv, TypeOK, Wallets, RootAddress
    <3>2. PICK n \in Nodes(tree) : From(tree, n) = w /\ To(tree, n) # w
      BY <3>1 DEF SafeTrees, SafePlan, EveryWalletSends, Wallets, RootAddress
    <3>3. w \in mined
      BY <1>1, <2>1, <3>2 DEF GInv, RInv, NewWalletFacts
    <3>4. w \notin MayBeMined
      BY <3>1 DEF NewWalletsOnly
    <3>5. PICK k \in taskNew : From(tree, k) = w
      BY <1>1, <3>3, <3>4 DEF GInv, RInv, NewWalletFacts, NewSenders
    <3>6. taskNew \subseteq taskMap
      BY <1>1, <2>1 DEF GInv, RInv, IInv, TypeOK
    <3> QED
      BY <1>1, <3>3, <3>5, <3>6 DEF GInv, RInv, NewWalletFacts
  <2> QED
    BY <2>2, <2>3
<1>2. GInv => GoalReached
  BY <1>1 DEF GoalReached
<1> QED
  BY <1>2, GoalInvariance, PTL

-----------------------------------------------------------------------------
(* The program runs the executor.                                           *)
LEMMA ProgramStep == [ProgramNext]_programVars => [Next]_vars
<1> SUFFICES ASSUME [ProgramNext]_programVars PROVE [Next]_vars
  OBVIOUS
<1>1. CASE Execute
  BY <1>1 DEF Execute, Next, Reply
<1>2. CASE \E n \in Nodes(tree) : Pay(n) \/ GiveUp(n)
  BY <1>2 DEF Pay, GiveUp, Next, Reply
<1>3. CASE \E tx \in left : LandLate(tx)
  <2>1. PICK tx \in left : LateLanding(From(tree, tx.node))
    BY <1>3 DEF LandLate
  <2>2. From(tree, tx.node) \in mempool
    BY <2>1 DEF LateLanding
  <2> QED
    BY <2>1, <2>2 DEF Next
<1>4. CASE Connect \/ Configure \/ StartUpFails \/ Executed \/ PriceReply \/ PriceFails \/ Exit
           \/ RaisePrice \/ \E n \in Nodes(tree) : Analyze(n)
  BY <1>4 DEF Connect, Configure, StartUpFails, Executed, PriceReply, PriceFails, Exit,
     RaisePrice, Analyze
<1>5. CASE Exited \/ UNCHANGED programVars
  BY <1>5 DEF Exited, programVars
<1> QED
  BY <1>1, <1>2, <1>3, <1>4, <1>5 DEF ProgramNext

(* The program is an executor with money.                                   *)
THEOREM ProgramExecutes == ProgramSpec => Spec
<1>1. ProgramInit => Init
  BY DEF ProgramInit
<1> QED
  BY <1>1, ProgramStep, PTL DEF ProgramSpec, Spec

(* What the tree alone ensures, on any set of trees: no operation of the    *)
(* program runs before the one it depends on has succeeded.                 *)
THEOREM ProgramParentFirst == ProgramSpec => []ParentFirst
<1>1. IInv => ParentFirst
  BY DEF IInv
<1> QED
  BY <1>1, ProgramExecutes, Invariance, PTL

(* What the plan ensures: no two operations of one sender, and nothing that *)
(* moves the balance of a running sweep, run together in the program ...    *)
THEOREM ProgramSendersApart ==
  ASSUME SafeTrees
  PROVE  ProgramSpec => [](NoSharedSender /\ SweepIsolated /\ FundedBeforeUse)
  BY ProgramExecutes, SendersApart, SweepsApart, Funded, PTL

(* ... and a program whose executor reports no error has used every wallet. *)
THEOREM ProgramGoal ==
  ASSUME SafeTrees, NewWalletsOnly PROVE ProgramSpec => []GoalReached
  BY ProgramExecutes, Goal, PTL

-----------------------------------------------------------------------------
(* What main and the report hold, for every set of finite trees.            *)

(* print_statistics is at the errors, or through.                           *)
Reporting == phase = "report" \/ exit = "ok"

(* Nothing is reported before print_statistics, which main reaches only     *)
(* with a result; what it has come to is in the impacts, at its sender.     *)
MainFacts ==
  /\ phase # "exited" => exit = "none"
  /\ phase \notin {"report", "exited"} =>
       unread = {} /\ impacts = {} /\ totals = [stuck |-> 0, orphans |-> 0]
  /\ phase = "price" \/ Reporting => outcome = "ok"
  /\ exit = "ok" => phase = "exited" /\ unread = {}
  /\ Reporting => \A e \in errors : e \in unread <=> ~(\E i \in impacts : i.node = e)
  /\ \A i \in impacts : i.address = From(tree, i.node)

(* What is left behind is of an operation that has failed.                  *)
LeftFailed ==
  /\ left \subseteq [node : Nodes(tree), value : Nat, price : Prices]
  /\ \A tx \in left : status[tx.node] = "failed"

MInv == RInv /\ ProgramTypeOK /\ MainFacts /\ LeftFailed

(* Where the money is: in a generated wallet that nothing left behind can   *)
(* still pay, there is some only once the operation that fills it has       *)
(* succeeded, and no more than a sweep keeps back once one that empties it  *)
(* has.                                                                     *)
Settled(w) == \A tx \in left : To(tree, tx.node) # w

LedgerFacts ==
  \A w \in Wallets :
    Settled(w) =>
      /\ balance[w] > 0 => \E n \in Nodes(tree) : To(tree, n) = w /\ status[n] = "ok"
      /\ \A n \in Nodes(tree) :
           From(tree, n) = w /\ To(tree, n) # w /\ status[n] = "ok" => balance[w] <= Remainder

(* The totals while the errors are analysed.                                *)
Analysed == errors \ unread

TotalsFacts ==
  Reporting =>
    /\ totals.orphans = Cardinality(UNION {Beneath(tree, e) : e \in Analysed})
    /\ left = {} /\ (\A i \in impacts : i.known) =>
         totals.stuck = SumFunctionOnSet(balance, {From(tree, e) : e \in Analysed})

-----------------------------------------------------------------------------
LEMMA PriceFacts ==
  /\ Prices \subseteq Nat \ {0} /\ Min(Prices) \in Prices
  /\ Max(Prices) \in Nat \ {0} /\ \A p \in Prices : p <= Max(Prices)
<1>1. Prices \subseteq Int /\ Prices \subseteq Nat \ {0}
  BY ProgramAssumption
<1> QED
  BY <1>1, Extremes, ProgramAssumption

LEMMA Products ==
  /\ \A a, b \in Nat : a * b \in Nat
  /\ \A a, b, c \in Nat : a * (b + c) = a * b + a * c
  /\ \A a, b, c \in Nat : b <= c => a * b <= a * c
<1>1. \A a, b \in Nat : a * b \in Nat
  OBVIOUS
<1>2. \A a, b, c \in Nat : a * (b + c) = a * b + a * c
  OBVIOUS
<1>3. ASSUME NEW a \in Nat, NEW b \in Nat, NEW c \in Nat, b <= c PROVE a * b <= a * c
  <2>1. c - b \in Nat /\ a * (c - b) \in Nat /\ c = b + (c - b)
    BY <1>1, <1>3
  <2>2. a * c = a * b + a * (c - b)
    BY <1>2, <2>1
  <2> QED
    BY <1>1, <2>1, <2>2
<1> QED
  BY <1>1, <1>2, <1>3

(* A transfer the sender can pay for: nobody but the recipient has more     *)
(* than before.                                                             *)
LEMMA MovedFacts ==
  ASSUME NEW A, balance \in [A -> Nat], NEW from \in A, NEW to \in A,
         NEW value \in Nat, NEW price \in Nat, value + price <= balance[from]
  PROVE  /\ Moved(from, to, value, price) \in [A -> Nat]
         /\ \A w \in A : w # to => Moved(from, to, value, price)[w] <= balance[w]
         /\ from # to => Moved(from, to, value, price)[from] = balance[from] - value - price
<1> DEFINE mid == [balance EXCEPT ![from] = balance[from] - value - price]
<1>1. balance[from] - value - price \in Nat
  OBVIOUS
<1>2. mid \in [A -> Nat] /\ mid[from] = balance[from] - value - price
      /\ \A w \in A : mid[w] <= balance[w]
  BY <1>1
<1>3. Moved(from, to, value, price) = [mid EXCEPT ![to] = @ + value]
  BY DEF Moved
<1> HIDE DEF mid
<1> QED
  BY <1>2, <1>3

(* What Pay and LandLate move, and from whom.                               *)
Transfers(n) ==
  \E v, p \in Nat :
    /\ v + p <= balance[From(tree, n)]
    /\ balance' = Moved(From(tree, n), To(tree, n), v, p)

LEMMA ValueFacts ==
  ASSUME TypeOK, ProgramTypeOK, NEW n \in Nodes(tree)
  PROVE  /\ Value(n) \in Nat /\ gasPrice \in Nat \ {0}
         /\ GasBuffer * gasPrice \in Nat
         /\ From(tree, n) \in Addresses(tree) /\ To(tree, n) \in Addresses(tree)
         /\ balance[From(tree, n)] \in Nat
<1>1. gasPrice \in Nat \ {0}
  BY PriceFacts DEF ProgramTypeOK
<1>2. GasBuffer * gasPrice \in Nat
  BY <1>1, ProgramAssumption, Products
<1>3. From(tree, n) \in Addresses(tree) /\ To(tree, n) \in Addresses(tree)
  BY DEF Addresses
<1>4. balance[From(tree, n)] \in Nat
  BY <1>3 DEF ProgramTypeOK
<1>5. Value(n) \in Nat
  BY <1>2, <1>4, ProgramAssumption DEF Value
<1> QED
  BY <1>1, <1>2, <1>3, <1>4, <1>5

LEMMA PayTransfers ==
  ASSUME TypeOK, ProgramTypeOK, NEW n \in Nodes(tree), Pay(n)
  PROVE  Transfers(n)
<1>1. PICK k \in 1..(IF tree.op[n].sweep THEN 1 ELSE Payments) :
         /\ k * (Value(n) + gasPrice) <= balance[From(tree, n)]
         /\ balance' = Moved(From(tree, n), To(tree, n), k * Value(n), k * gasPrice)
  BY DEF Pay
<1>2. k \in Nat
  BY ProgramAssumption
<1>3. k * Value(n) \in Nat /\ k * gasPrice \in Nat
      /\ k * (Value(n) + gasPrice) = k * Value(n) + k * gasPrice
  BY <1>2, ValueFacts, Products
<1> QED
  BY <1>1, <1>3 DEF Transfers

LEMMA LandTransfers ==
  ASSUME TypeOK, LeftFailed, NEW tx \in left, LandLate(tx)
  PROVE  Transfers(tx.node) /\ tx.node \in Nodes(tree)
<1>1. tx.node \in Nodes(tree) /\ tx.value \in Nat /\ tx.price \in Nat
  BY PriceFacts DEF LeftFailed
<1>2. /\ tx.value + tx.price <= balance[From(tree, tx.node)]
      /\ balance' = Moved(From(tree, tx.node), To(tree, tx.node), tx.value, tx.price)
  BY DEF LandLate
<1> QED
  BY <1>1, <1>2 DEF Transfers

LEMMA TransferFacts ==
  ASSUME TypeOK, ProgramTypeOK, NEW n \in Nodes(tree), Transfers(n)
  PROVE  /\ balance' \in [Addresses(tree) -> Nat]
         /\ \A w \in Addresses(tree) : w # To(tree, n) => balance'[w] <= balance[w]
<1>1. PICK v \in Nat, p \in Nat : /\ v + p <= balance[From(tree, n)]
                                 /\ balance' = Moved(From(tree, n), To(tree, n), v, p)
  BY DEF Transfers
<1>2. balance \in [Addresses(tree) -> Nat]
  BY DEF ProgramTypeOK
<1> QED
  BY <1>1, <1>2, ValueFacts, MovedFacts

(* Errors are kept, and a call that has returned Ok changes nothing any     *)
(* more.                                                                    *)
LEMMA ErrorsKept ==
  ASSUME RInv, [Next]_vars
  PROVE  /\ tree' = tree /\ errors \subseteq errors'
         /\ \A n \in Nodes(tree) : status[n] = "failed" => status'[n] = "failed"
         /\ outcome = "ok" => UNCHANGED <<outcome, errors, status, progress>>
<1> USE DEF RInv
<1>1. tree' = tree
  BY StatusStep
<1>2. errors \subseteq errors'
  <2>1. CASE \E n \in Nodes(tree) : Collect(n)
    BY <2>1 DEF Collect
  <2>2. CASE Outer
    BY <2>2 DEF Outer, Begin, InitialBalance, InitialBalanceFails, JoinAll, FinishQueue,
       FinalBalance, resultVars
  <2>3. CASE Dispatch \/ (\E a \in mempool : LateLanding(a)) \/ UNCHANGED vars
    BY <2>3 DEF Dispatch, LateLanding, vars, resultVars
  <2>4. CASE \E n \in Nodes(tree) : Reply(n)
    BY <2>4, ReplyFacts
  <2> QED
    BY <2>1, <2>2, <2>3, <2>4 DEF Next, Step, Outer, Done
<1>3. ASSUME NEW n \in Nodes(tree), status[n] = "failed" PROVE status'[n] = "failed"
  <2>1. CASE status' = status
    BY <1>3, <2>1
  <2>2. CASE Dispatch
    <3>1. n \notin queue
      BY <1>3, <2>2, DispatchFacts
    <3> QED
      BY <1>3, <2>2, <3>1, DispatchFacts
  <2>3. CASE \E m \in Nodes(tree) : Reply(m)
    <3>1. PICK m \in Nodes(tree) : Reply(m)
      BY <2>3
    <3>2. InFlight(m) /\ \E s \in {"sending", "ok", "failed"} : status' = [status EXCEPT ![m] = s]
      BY <3>1, ReplyFacts
    <3>3. n # m
      BY <1>3, <3>2 DEF InFlight
    <3> QED
      BY <1>3, <3>2, <3>3 DEF IInv, TypeOK
  <2> QED
    BY <2>1, <2>2, <2>3, StatusStep
<1>4. ASSUME outcome = "ok" PROVE UNCHANGED <<outcome, errors, status, progress>>
  <2>1. pc = "returned" /\ batch = {}
    BY <1>4 DEF OkReturned, IInv, Bookkeeping, Phases
  <2>2. ~Outer /\ ~Dispatch /\ ~(\E n \in Nodes(tree) : Collect(n))
    BY <2>1 DEF Outer, Begin, InitialBalance, InitialBalanceFails, JoinAll, FinishQueue,
       FinalBalance, Dispatch, Collect
  <2>3. ~(\E n \in Nodes(tree) : Reply(n))
    BY <2>1, ReplyFacts DEF IInv, Bookkeeping
  <2>4. CASE \E a \in mempool : LateLanding(a)
    BY <2>4 DEF LateLanding, resultVars
  <2>5. CASE UNCHANGED vars
    BY <2>5 DEF vars, resultVars
  <2> QED
    BY <2>2, <2>3, <2>4, <2>5 DEF Next, Step, Outer, Done
<1> QED
  BY <1>1, <1>2, <1>3, <1>4

LEMMA MainInit == ProgramInit => MInv
<1> SUFFICES ASSUME ProgramInit PROVE MInv
  OBVIOUS
<1>1. Init
  BY DEF ProgramInit
<1>2. RInv
  BY <1>1, InitInv DEF Init, OkReturned, RInv
<1>3. balance \in [Addresses(tree) -> Nat]
  BY ProgramAssumption DEF ProgramInit
<1>4. ProgramTypeOK
  BY <1>3, PriceFacts DEF ProgramInit, ProgramTypeOK
<1>5. MainFacts
  BY DEF ProgramInit, MainFacts, Reporting
<1>6. LeftFailed
  BY DEF ProgramInit, LeftFailed
<1> QED
  BY <1>2, <1>4, <1>5, <1>6 DEF MInv

(* What stays behind after a step is of failed operations, and those are    *)
(* in the batch or among the errors.                                        *)
LEMMA LeftStep == MInv /\ [ProgramNext]_programVars => LeftFailed'
<1> SUFFICES ASSUME MInv, [ProgramNext]_programVars PROVE LeftFailed'
  OBVIOUS
<1>1. /\ tree' = tree
      /\ \A n \in Nodes(tree) : status[n] = "failed" => status'[n] = "failed"
  BY ProgramStep, ErrorsKept DEF MInv
<1>2. CASE left' = left
  BY <1>1, <1>2 DEF MInv, LeftFailed
<1>3. CASE \E n \in Nodes(tree) : GiveUp(n)
  <2>1. PICK n \in Nodes(tree) : GiveUp(n)
    BY <1>3
  <2> DEFINE tx == [node |-> n, value |-> Value(n), price |-> gasPrice]
  <2>2. status'[n] = "failed"
    BY <2>1 DEF GiveUp, SendFails, MInv, RInv, IInv, TypeOK
  <2>3. tx \in [node : Nodes(tree), value : Nat, price : Prices] /\ tx.node = n
    BY ValueFacts DEF MInv, RInv, IInv, ProgramTypeOK
  <2>4. left' \subseteq left \cup {tx}
    BY <2>1 DEF GiveUp
  <2> HIDE DEF tx
  <2> QED
    BY <1>1, <2>2, <2>3, <2>4 DEF MInv, LeftFailed
<1>4. left' = left \/ \E n \in Nodes(tree) : GiveUp(n)
  BY DEF ProgramNext, Connect, Configure, StartUpFails, Execute, Executed, Pay, Analyze,
     PriceReply, PriceFails, Exit, Exited, LandLate, RaisePrice, programVars, ledgerVars
<1> QED
  BY <1>2, <1>3, <1>4

LEMMA ProgramTypeStep == MInv /\ [ProgramNext]_programVars => ProgramTypeOK'
<1> SUFFICES ASSUME MInv, [ProgramNext]_programVars PROVE ProgramTypeOK'
  OBVIOUS
<1> USE DEF MInv
<1>0. /\ tree' = tree /\ errors \subseteq errors' /\ RInv' /\ IInv' /\ LeftFailed'
  BY ProgramStep, ErrorsKept, LeftStep, NextInv, OkReturnedStep DEF RInv
<1>1. phase' \in {"start", "connected", "executing", "price", "report", "exited"}
      /\ exit' \in {"none", "ok", "error"}
  BY DEF ProgramTypeOK, ProgramNext, Connect, Configure, StartUpFails, Execute, Executed, Pay,
     GiveUp, Analyze, PriceReply, PriceFails, Exit, Exited, LandLate, RaisePrice, programVars,
     mainVars
<1>2. unread' \subseteq errors'
  <2>1. CASE PriceReply
    BY <1>0, <2>1 DEF PriceReply
  <2>2. CASE ~PriceReply
    <3>1. unread' \subseteq unread
      BY <2>2 DEF ProgramNext, Connect, Configure, StartUpFails, Execute, Executed, Pay,
         GiveUp, Analyze, PriceFails, Exit, Exited, LandLate, RaisePrice, programVars, mainVars
    <3> QED
      BY <1>0, <3>1 DEF ProgramTypeOK
  <2> QED
    BY <2>1, <2>2
<1>3. CASE \E n \in Nodes(tree) : Analyze(n)
  <2>1. PICK n \in Nodes(tree), known \in BOOLEAN :
          /\ n \in unread /\ UNCHANGED ledgerVars
          /\ impacts' = impacts \cup
               {[node |-> n, address |-> StuckAddress(n), known |-> known]}
          /\ totals' = [stuck |-> totals.stuck + (IF known THEN balance[StuckAddress(n)] ELSE 0),
                        orphans |-> totals.orphans + Cardinality(Orphans(n))]
    BY <1>3 DEF Analyze
  <2>2. From(tree, n) \in Addresses(tree) /\ balance[From(tree, n)] \in Nat
    BY ValueFacts DEF RInv, IInv
  <2>3. Cardinality(Orphans(n)) \in Nat
    <3>1. Orphans(n) \in SUBSET Nodes(tree) /\ tree \in Trees
      BY DEF Orphans, Descendants, RInv, IInv, TypeOK
    <3> QED
      BY <3>1, CountFacts
  <2>4. totals' \in [stuck : Nat, orphans : Nat]
    BY <2>1, <2>2, <2>3 DEF ProgramTypeOK, StuckAddress
  <2>5. impacts' \subseteq [node : errors', address : Addresses(tree), known : BOOLEAN]
    BY <1>0, <2>1, <2>2 DEF ProgramTypeOK, StuckAddress
  <2>6. left' \subseteq [node : errors' \cup batch', value : Nat, price : Prices]
    <3>1. UNCHANGED vars
      BY <1>3 DEF Analyze
    <3> QED
      BY <2>1, <3>1 DEF ProgramTypeOK, ledgerVars, vars, queueVars, resultVars
  <2> QED
    BY <1>0, <1>1, <1>2, <2>1, <2>4, <2>5, <2>6 DEF ProgramTypeOK, ledgerVars
<1>4. CASE ~(\E n \in Nodes(tree) : Analyze(n))
  <2>1. UNCHANGED <<impacts, totals>>
    BY <1>4 DEF ProgramNext, Connect, Configure, StartUpFails, Execute, Executed, Pay,
       GiveUp, PriceReply, PriceFails, Exit, Exited, LandLate, RaisePrice, programVars, mainVars
  <2>2. gasPrice' \in Prices
    BY DEF ProgramTypeOK, ProgramNext, Connect, Configure, StartUpFails, Execute, Executed, Pay,
       GiveUp, Analyze, PriceReply, PriceFails, Exit, Exited, LandLate, RaisePrice, programVars,
       ledgerVars
  <2>3. balance' \in [Addresses(tree) -> Nat]
    <3>1. CASE \E n \in Nodes(tree) : Pay(n)
      BY <3>1, PayTransfers, TransferFacts DEF RInv, IInv
    <3>2. CASE \E tx \in left : LandLate(tx)
      BY <3>2, LandTransfers, TransferFacts DEF RInv, IInv
    <3>3. CASE ~(\E n \in Nodes(tree) : Pay(n)) /\ ~(\E tx \in left : LandLate(tx))
      <4>1. balance' = balance
        BY <3>3 DEF ProgramNext, Connect, Configure, StartUpFails, Execute, Executed,
           GiveUp, Analyze, PriceReply, PriceFails, Exit, Exited, RaisePrice, programVars,
           ledgerVars
      <4> QED
        BY <4>1 DEF ProgramTypeOK
    <3> QED
      BY <3>1, <3>2, <3>3
  <2>4. left' \subseteq [node : errors' \cup batch', value : Nat, price : Prices]
    <3>1. ASSUME NEW n \in Nodes(tree), status'[n] = "failed" PROVE n \in errors' \cup batch'
      BY <1>0, <3>1 DEF RInv, IInv, Bookkeeping, CountsAgree, Started
    <3>2. /\ left' \subseteq [node : Nodes(tree), value : Nat, price : Prices]
          /\ \A tx \in left' : status'[tx.node] = "failed"
      BY <1>0 DEF LeftFailed
    <3> QED
      BY <3>1, <3>2
  <2>5. impacts' \subseteq [node : errors', address : Addresses(tree), known : BOOLEAN]
    BY <1>0, <2>1 DEF ProgramTypeOK
  <2> QED
    BY <1>0, <1>1, <1>2, <2>1, <2>2, <2>3, <2>4, <2>5 DEF ProgramTypeOK
<1> QED
  BY <1>3, <1>4

LEMMA MainStep == MInv /\ [ProgramNext]_programVars => MainFacts'
<1> SUFFICES ASSUME MInv, [ProgramNext]_programVars PROVE MainFacts'
  OBVIOUS
<1> USE DEF MInv
<1>1. /\ tree' = tree
      /\ outcome = "ok" => UNCHANGED <<outcome, errors>>
  BY ProgramStep, ErrorsKept
<1>2. CASE UNCHANGED mainVars
  BY <1>1, <1>2 DEF mainVars, MainFacts, Reporting
<1>3. CASE Connect \/ Configure \/ StartUpFails
  <2>1. ~Reporting'
    BY <1>3 DEF Connect, Configure, StartUpFails, MainFacts, Reporting
  <2> QED
    BY <1>1, <1>3, <2>1 DEF Connect, Configure, StartUpFails, MainFacts, Reporting
<1>4. CASE Executed \/ PriceFails
  <2>1. ~Reporting'
    BY <1>4 DEF Executed, PriceFails, MainFacts, Reporting
  <2> QED
    BY <1>1, <1>4, <2>1 DEF Executed, PriceFails, MainFacts, Reporting
<1>5. CASE PriceReply
  <2>1. impacts = {} /\ impacts' = {} /\ unread' = errors' /\ outcome' = "ok"
        /\ phase' = "report" /\ exit' = "none"
    BY <1>1, <1>5 DEF PriceReply, MainFacts
  <2> QED
    BY <2>1 DEF MainFacts, Reporting
<1>6. CASE \E n \in Nodes(tree) : Analyze(n)
  <2>1. PICK n \in Nodes(tree), known \in BOOLEAN :
          /\ phase = "report" /\ n \in unread /\ unread' = unread \ {n}
          /\ UNCHANGED <<phase, exit>>
          /\ impacts' = impacts \cup
               {[node |-> n, address |-> StuckAddress(n), known |-> known]}
    BY <1>6 DEF Analyze
  <2> DEFINE new == [node |-> n, address |-> StuckAddress(n), known |-> known]
  <2>2. \A e : (\E i \in impacts' : i.node = e) <=> e = n \/ \E i \in impacts : i.node = e
    <3>1. new.node = n /\ impacts' = impacts \cup {new}
      BY <2>1
    <3> HIDE DEF new
    <3> QED
      BY <3>1
  <2>3. errors' = errors /\ outcome' = "ok"
    BY <1>1, <2>1 DEF MainFacts, Reporting
  <2>4. \A e \in errors' : e \in unread' <=> ~(\E i \in impacts' : i.node = e)
    BY <2>1, <2>2, <2>3 DEF MainFacts, Reporting
  <2>5. \A i \in impacts' : i.address = From(tree, i.node)'
    BY <1>1, <2>1 DEF MainFacts, StuckAddress
  <2> QED
    BY <2>1, <2>3, <2>4, <2>5 DEF MainFacts, Reporting
<1>7. CASE Exit
  BY <1>1, <1>7 DEF Exit, MainFacts, Reporting
<1>8. UNCHANGED mainVars \/ Connect \/ Configure \/ StartUpFails \/ Executed \/ PriceFails
      \/ PriceReply \/ (\E n \in Nodes(tree) : Analyze(n)) \/ Exit
  BY DEF ProgramNext, Execute, Pay, GiveUp, Exited, LandLate, RaisePrice, programVars, mainVars
<1> QED
  BY <1>2, <1>3, <1>4, <1>5, <1>6, <1>7, <1>8

LEMMA MainInvariance == ProgramSpec => []MInv
<1>1. RInv /\ [Next]_vars => RInv'
  BY NextInv, OkReturnedStep DEF RInv
<1>2. MInv /\ [ProgramNext]_programVars => MInv'
  BY <1>1, ProgramStep, ProgramTypeStep, MainStep, LeftStep DEF MInv
<1> QED
  BY <1>2, MainInit, PTL DEF ProgramSpec

(* Every variable of the program keeps its type: no transfer takes a wallet *)
(* below zero, only failed operations leave transactions behind, and only   *)
(* errors of the executor are reported.                                     *)
THEOREM ProgramTypes == ProgramSpec => []ProgramTypeOK
<1>1. MInv => ProgramTypeOK
  BY DEF MInv
<1> QED
  BY <1>1, MainInvariance, PTL

-----------------------------------------------------------------------------
(* Where the money is, on trees that keep the promises of a plan.           *)

(* The operation that empties a wallet has above it the only one that fills *)
(* the wallet.                                                              *)
LEMMA FilledBefore ==
  ASSUME IInv, SafeTrees, NEW w \in Wallets, NEW b \in Nodes(tree), From(tree, b) = w
  PROVE  /\ b # tree.root /\ tree.op[b].sweep
         /\ ParentOf(tree, b) \in Nodes(tree) /\ To(tree, ParentOf(tree, b)) = w
         /\ \A a \in Nodes(tree) : To(tree, a) = w => a = ParentOf(tree, b)
<1>1. tree \in Trees /\ w # From(tree, tree.root)
  BY DEF IInv, TypeOK, Wallets, RootAddress
<1>2. SendsWhatItGot(tree) /\ FilledOnceAndEmptied(tree)
  BY <1>1 DEF SafeTrees, SafePlan
<1>3. b # tree.root /\ tree.op[b].sweep /\ w = To(tree, ParentOf(tree, b))
  BY <1>1, <1>2 DEF SendsWhatItGot, FilledOnceAndEmptied
<1>4. ParentOf(tree, b) \in Nodes(tree)
  BY <1>1, <1>3, ParentFacts
<1> QED
  BY <1>1, <1>2, <1>3, <1>4 DEF FilledOnceAndEmptied

(* What a sweep leaves is the gas buffer less the gas it paid.              *)
LEMMA SweepLeaves ==
  ASSUME IInv, ProgramTypeOK, NEW b \in Nodes(tree), Pay(b), tree.op[b].sweep,
         From(tree, b) # To(tree, b)
  PROVE  balance'[From(tree, b)] <= Remainder
<1> DEFINE w == From(tree, b)
           buffer == GasBuffer * gasPrice
<1>1. /\ Value(b) \in Nat /\ gasPrice \in Nat \ {0} /\ buffer \in Nat
      /\ w \in Addresses(tree) /\ To(tree, b) \in Addresses(tree) /\ balance[w] \in Nat
  BY ValueFacts DEF IInv
<1>2. /\ 1 * (Value(b) + gasPrice) <= balance[w]
      /\ balance' = Moved(w, To(tree, b), 1 * Value(b), 1 * gasPrice)
  BY DEF Pay
<1>3. Value(b) + gasPrice <= balance[w] /\ balance' = Moved(w, To(tree, b), Value(b), gasPrice)
  BY <1>1, <1>2
<1>4. balance'[w] = balance[w] - Value(b) - gasPrice
  BY <1>1, <1>3, MovedFacts DEF ProgramTypeOK
<1>5. Value(b) = balance[w] - buffer
  BY DEF Pay, Affordable, Value
<1>6. balance'[w] = buffer - gasPrice
  BY <1>1, <1>4, <1>5
<1>7. GasBuffer - 1 \in Nat /\ GasBuffer \in Nat
  BY ProgramAssumption
<1>8. buffer - gasPrice = (GasBuffer - 1) * gasPrice
  BY <1>1, <1>7
<1>9. (GasBuffer - 1) * gasPrice <= (GasBuffer - 1) * Max(Prices)
  BY <1>1, <1>7, Products, PriceFacts DEF ProgramTypeOK
<1> QED
  BY <1>6, <1>8, <1>9 DEF Remainder

LEMMA RemainderNat == Remainder \in Nat
<1>1. GasBuffer - 1 \in Nat /\ Max(Prices) \in Nat
  BY ProgramAssumption, PriceFacts
<1> QED
  BY <1>1, Products DEF Remainder

(* A step that pays nothing.                                                *)
LEMMA LedgerQuiet ==
  ASSUME LedgerFacts, UNCHANGED <<tree, balance>>, left \subseteq left',
         \A n \in Nodes(tree) : status[n] = "ok" => status'[n] = "ok",
         \A n \in Nodes(tree) : status'[n] = "ok" /\ From(tree, n) # To(tree, n) => status[n] = "ok"
  PROVE  LedgerFacts'
<1>1. Wallets' = Wallets
  BY DEF Wallets, RootAddress
<1>2. \A w : Settled(w)' => Settled(w)
  BY DEF Settled
<1> QED
  BY <1>1, <1>2 DEF LedgerFacts, Remainder

(* An operation pays: its recipient has money because it has succeeded, and *)
(* the sender it empties keeps the remainder.                               *)
LEMMA LedgerPay ==
  ASSUME SafeTrees, MInv, LedgerFacts, NEW n \in Nodes(tree), Pay(n)
  PROVE  LedgerFacts'
<1> USE DEF MInv, RInv
<1>1. /\ tree' = tree /\ left' = left /\ status[n] = "sending"
      /\ status' = [status EXCEPT ![n] = "ok"]
  BY DEF Pay, SendOk
<1>2. status \in [Nodes(tree) -> Statuses] /\ tree \in Trees
  BY DEF IInv, TypeOK
<1>3. Wallets' = Wallets /\ \A w : Settled(w)' <=> Settled(w)
  BY <1>1 DEF Wallets, RootAddress, Settled
<1>4. /\ balance' \in [Addresses(tree) -> Nat]
      /\ \A w \in Addresses(tree) : w # To(tree, n) => balance'[w] <= balance[w]
  BY PayTransfers, TransferFacts DEF IInv
<1>5. \A a \in Nodes(tree) : status'[a] = "ok" <=> status[a] = "ok" \/ a = n
  BY <1>1, <1>2
<1>6. balance \in [Addresses(tree) -> Nat]
  BY DEF ProgramTypeOK
<1> SUFFICES ASSUME NEW w \in Wallets, Settled(w)
             PROVE  /\ balance'[w] > 0 => \E a \in Nodes(tree) : To(tree, a) = w /\ status'[a] = "ok"
                    /\ \A b \in Nodes(tree) :
                         From(tree, b) = w /\ To(tree, b) # w /\ status'[b] = "ok" => balance'[w] <= Remainder
  BY <1>1, <1>3 DEF LedgerFacts, Remainder
<1>7. w \in Addresses(tree)
  BY DEF Wallets
<1>8. balance'[w] > 0 => \E a \in Nodes(tree) : To(tree, a) = w /\ status'[a] = "ok"
  <2>1. CASE To(tree, n) = w
    BY <1>5, <2>1
  <2>2. CASE To(tree, n) # w
    <3>1. balance'[w] > 0 => balance[w] > 0
      BY <1>4, <1>6, <1>7, <2>2
    <3> QED
      BY <1>5, <3>1 DEF LedgerFacts
  <2> QED
    BY <2>1, <2>2
<1>9. ASSUME NEW b \in Nodes(tree), From(tree, b) = w, To(tree, b) # w, status'[b] = "ok"
      PROVE  balance'[w] <= Remainder
  <2>1. b # tree.root /\ tree.op[b].sweep
        /\ \A a \in Nodes(tree) : To(tree, a) = w => a = ParentOf(tree, b)
    BY <1>9, FilledBefore
  <2>2. CASE b = n
    BY <1>9, <2>1, <2>2, SweepLeaves
  <2>3. CASE b # n
    <3>1. status[b] = "ok"
      BY <1>5, <1>9, <2>3
    <3>2. status[ParentOf(tree, b)] = "ok"
      BY <2>1, <3>1 DEF IInv, ParentFirst, Started
    <3>3. To(tree, n) # w
      BY <1>1, <2>1, <3>2
    <3>4. balance[w] <= Remainder
      BY <1>9, <3>1 DEF LedgerFacts
    <3> QED
      BY <1>4, <1>6, <1>7, <3>3, <3>4, RemainderNat
  <2> QED
    BY <2>2, <2>3
<1> QED
  BY <1>8, <1>9

(* A transaction left behind is mined: its recipient is not settled.        *)
LEMMA LedgerLand ==
  ASSUME MInv, LedgerFacts, NEW tx \in left, LandLate(tx)
  PROVE  LedgerFacts'
<1> USE DEF MInv, RInv
<1>1. UNCHANGED <<tree, left, status>>
  BY DEF LandLate, LateLanding
<1>2. Wallets' = Wallets /\ \A w : Settled(w)' <=> Settled(w)
  BY <1>1 DEF Wallets, RootAddress, Settled
<1>3. /\ balance' \in [Addresses(tree) -> Nat]
      /\ \A w \in Addresses(tree) : w # To(tree, tx.node) => balance'[w] <= balance[w]
  BY LandTransfers, TransferFacts DEF IInv
<1>4. \A w \in Wallets : Settled(w) => w \in Addresses(tree) /\ balance'[w] <= balance[w]
  BY <1>3 DEF Settled, Wallets
<1>5. \A w \in Wallets : balance[w] \in Nat /\ balance'[w] \in Nat
  BY <1>3 DEF ProgramTypeOK, Wallets
<1> QED
  BY <1>1, <1>2, <1>4, <1>5, RemainderNat DEF LedgerFacts, Remainder

LEMMA LedgerStep ==
  ASSUME SafeTrees
  PROVE  MInv /\ LedgerFacts /\ [ProgramNext]_programVars => LedgerFacts'
<1> SUFFICES ASSUME MInv, LedgerFacts, [ProgramNext]_programVars PROVE LedgerFacts'
  OBVIOUS
<1>1. CASE \E n \in Nodes(tree) : Pay(n)
  BY <1>1, LedgerPay
<1>2. CASE \E tx \in left : LandLate(tx)
  BY <1>2, LedgerLand
<1>3. CASE ~(\E n \in Nodes(tree) : Pay(n)) /\ ~(\E tx \in left : LandLate(tx))
  <2>1. balance' = balance /\ left \subseteq left'
    BY <1>3 DEF ProgramNext, Connect, Configure, StartUpFails, Execute, Executed, GiveUp,
       Analyze, PriceReply, PriceFails, Exit, Exited, RaisePrice, programVars, ledgerVars
  <2>2. tree' = tree /\ \A n \in Nodes(tree) : status[n] = "ok" => status'[n] = "ok"
    <3>1. tree' = tree
      BY ProgramStep, ErrorsKept DEF MInv
    <3> QED
      BY <3>1, ProgramStep, OnceKept DEF MInv, RInv, OnceStep
  <2>3. ASSUME NEW n \in Nodes(tree), status'[n] = "ok", From(tree, n) # To(tree, n)
        PROVE  status[n] = "ok"
    <3>1. CASE status' = status
      BY <2>3, <3>1
    <3>2. CASE Dispatch
      BY <2>3, <3>2, DispatchFacts DEF MInv, RInv
    <3>3. CASE \E m \in Nodes(tree) : CountReply(m) \/ CountFails(m) \/ SendFails(m)
      BY <2>3, <3>3 DEF CountReply, CountFails, SendFails, MInv, RInv, IInv, TypeOK
    <3>4. status' = status \/ Dispatch
          \/ \E m \in Nodes(tree) : CountReply(m) \/ CountFails(m) \/ SendFails(m)
      BY <1>3 DEF ProgramNext, Connect, Configure, StartUpFails, Execute, Executed, GiveUp,
         Analyze, PriceReply, PriceFails, Exit, Exited, RaisePrice, programVars, vars, Step,
         Begin, InitialBalance, InitialBalanceFails, JoinAll, FinishQueue, FinalBalance, Collect
    <3> QED
      BY <3>1, <3>2, <3>3, <3>4
  <2> QED
    BY <2>1, <2>2, <2>3, LedgerQuiet
<1> QED
  BY <1>1, <1>2, <1>3

LEMMA LedgerInvariance ==
  ASSUME SafeTrees PROVE ProgramSpec => [](MInv /\ LedgerFacts)
<1>1. ProgramInit => LedgerFacts
  <2> SUFFICES ASSUME ProgramInit PROVE LedgerFacts
    OBVIOUS
  <2>1. \A w \in Wallets : balance[w] = 0
    BY DEF ProgramInit, Wallets
  <2>2. \A n \in Nodes(tree) : status[n] = "idle"
    BY DEF ProgramInit, Init
  <2> QED
    BY <2>1, <2>2 DEF LedgerFacts
<1> QED
  BY <1>1, LedgerStep, MainInvariance, PTL DEF ProgramSpec

(* On every plan that keeps its promises, whatever fails, however the       *)
(* answers interleave and whatever gas costs: money that a wallet holds     *)
(* beyond what a sweep keeps back was reported as stuck there, or came by a *)
(* transaction that outlived its operation.                                 *)
THEOREM NothingStuckUnreported == ASSUME SafeTrees PROVE ProgramSpec => []StuckIsReported
<1>1. ASSUME MInv, LedgerFacts PROVE StuckIsReported
  <2> USE DEF MInv, RInv
  <2> SUFFICES ASSUME exit = "ok", NEW w \in Wallets, balance[w] > Remainder, Settled(w)
               PROVE  \E i \in impacts : i.address = w
    BY DEF StuckIsReported, StuckReported, Settled
  <2>1. tree \in Trees /\ w # From(tree, tree.root) /\ w \in Addresses(tree)
    BY <1>1 DEF IInv, TypeOK, Wallets, RootAddress
  <2>2. PICK b \in Nodes(tree) : From(tree, b) = w /\ To(tree, b) # w
    BY <2>1 DEF SafeTrees, SafePlan, EveryWalletSends
  <2>3. balance[w] \in Nat /\ balance[w] > 0
    BY <1>1, <2>1, RemainderNat DEF ProgramTypeOK
  <2>4. PICK a \in Nodes(tree) : To(tree, a) = w /\ status[a] = "ok"
    BY <1>1, <2>3 DEF LedgerFacts
  <2>5. b # tree.root /\ a = ParentOf(tree, b)
    BY <1>1, <2>2, <2>4, FilledBefore
  <2>6. pc = "returned" /\ reporter = "aborted" /\ unread = {}
    BY <1>1 DEF MainFacts, Reporting, OkReturned
  <2>7. queue = {} /\ pending = {} /\ batch = {}
    BY <1>1, <2>6 DEF IInv, Bookkeeping, Phases
  <2>8. a \in taskMap
    BY <1>1, <2>4, <2>7 DEF IInv, Bookkeeping, Started
  <2>9. b \in taskMap /\ Started(b) /\ ~InFlight(b)
    BY <1>1, <2>4, <2>5, <2>6, <2>7, <2>8 DEF IInv, Bookkeeping, MayRun
  <2>10. status[b] # "ok"
    BY <1>1, <2>2, <2>3, RemainderNat DEF LedgerFacts
  <2>11. b \in errors
    <3>1. status[b] \in Statuses
      BY <1>1 DEF IInv, TypeOK
    <3>2. status[b] = "failed"
      BY <2>9, <2>10, <3>1 DEF Started, InFlight, Statuses
    <3> QED
      BY <1>1, <2>9, <3>2 DEF IInv, CountsAgree
  <2>12. PICK i \in impacts : i.node = b
    BY <1>1, <2>6, <2>11 DEF MainFacts, Reporting
  <2> QED
    BY <1>1, <2>2, <2>12 DEF MainFacts
<1> QED
  BY <1>1, LedgerInvariance, PTL

-----------------------------------------------------------------------------
(* Two operations that failed have two senders: of two with one sender, one *)
(* is above the other, and has succeeded if the other was started.          *)
LEMMA StuckApart ==
  ASSUME IInv, SafeTrees, NEW m \in errors, NEW n \in errors, m # n
  PROVE  From(tree, m) # From(tree, n)
<1> SUFFICES ASSUME From(tree, m) = From(tree, n) PROVE FALSE
  OBVIOUS
<1>1. /\ m \in Nodes(tree) /\ n \in Nodes(tree)
      /\ status[m] = "failed" /\ status[n] = "failed"
  BY DEF IInv, TypeOK, CountsAgree
<1>2. ConflictsOrdered(tree)
  BY DEF SafeTrees, SafePlan, IInv, TypeOK
<1>3. \/ \A S \in ParentClosed(tree) : n \in S => m \in S
      \/ \A S \in ParentClosed(tree) : m \in S => n \in S
  BY <1>1, <1>2 DEF ConflictsOrdered, Conflict
<1> QED
  BY <1>1, <1>3, AboveSucceeded DEF Started

(* One error is analysed: what it orphans and what its sender owns are not  *)
(* in the totals yet.                                                       *)
LEMMA TotalsAnalyze ==
  ASSUME SafeTrees, MInv, TotalsFacts, NEW n \in Nodes(tree), Analyze(n)
  PROVE  TotalsFacts'
<1> USE DEF MInv, RInv
<1> DEFINE known == \E i \in impacts' : i.node = n /\ i.known
           lost == UNION {Beneath(tree, e) : e \in Analysed}
           stuckAt == {From(tree, e) : e \in Analysed}
<1>1. PICK b \in BOOLEAN :
        /\ phase = "report" /\ n \in unread /\ unread' = unread \ {n}
        /\ UNCHANGED <<vars, phase, exit, ledgerVars>>
        /\ impacts' = impacts \cup {[node |-> n, address |-> StuckAddress(n), known |-> b]}
        /\ totals' = [stuck |-> totals.stuck + (IF b THEN balance[StuckAddress(n)] ELSE 0),
                      orphans |-> totals.orphans + Cardinality(Orphans(n))]
  BY DEF Analyze
<1>2. UNCHANGED <<tree, errors, balance, left>>
  BY <1>1 DEF vars, ledgerVars, resultVars
<1>3. outcome = "ok" /\ Reporting
  BY <1>1 DEF MainFacts, Reporting
<1>4. /\ tree \in Trees /\ errors \subseteq Nodes(tree) /\ n \in errors
      /\ balance \in [Addresses(tree) -> Nat]
      /\ totals \in [stuck : Nat, orphans : Nat]
  BY <1>1 DEF IInv, TypeOK, ProgramTypeOK
<1>5. Analysed' = Analysed \cup {n} /\ n \notin Analysed /\ Analysed \subseteq errors
  BY <1>1, <1>2, <1>4 DEF Analysed
<1>6. totals'.orphans = Cardinality(UNION {Beneath(tree, e) : e \in Analysed'})
  <2>1. totals'.orphans = totals.orphans + Cardinality(Beneath(tree, n))
    BY <1>1, <1>4, OrphansAreBeneath DEF Orphans
  <2>2. totals.orphans = Cardinality(lost)
    BY <1>3 DEF TotalsFacts
  <2>3. UNION {Beneath(tree, e) : e \in Analysed'} = lost \cup Beneath(tree, n)
    BY <1>5
  <2>4. \A e \in Analysed : Beneath(tree, e) \cap Beneath(tree, n) = {}
    BY <1>3, <1>4, <1>5, AccountingHolds DEF Accounting
  <2>5. lost \cap Beneath(tree, n) = {}
    BY <2>4
  <2>6. lost \subseteq Nodes(tree) /\ Beneath(tree, n) \subseteq Nodes(tree)
    BY DEF Beneath
  <2>7. /\ IsFiniteSet(lost) /\ IsFiniteSet(Beneath(tree, n))
        /\ Cardinality(lost) \in Nat /\ Cardinality(Beneath(tree, n)) \in Nat
    BY <1>4, <2>6, CountFacts
  <2>8. Cardinality(lost \cup Beneath(tree, n))
          = Cardinality(lost) + Cardinality(Beneath(tree, n)) - Cardinality(lost \cap Beneath(tree, n))
    BY <2>7, FS_Union
  <2>9. Cardinality(lost \cap Beneath(tree, n)) = 0
    BY <2>5, FS_EmptySet
  <2>10. Cardinality(UNION {Beneath(tree, e) : e \in Analysed'}) = Cardinality(lost \cup Beneath(tree, n))
    BY <2>3
  <2> HIDE DEF lost
  <2> QED
    BY <2>1, <2>2, <2>7, <2>8, <2>9, <2>10
<1>7. ASSUME left' = {}, \A i \in impacts' : i.known
      PROVE  totals'.stuck = SumFunctionOnSet(balance, {From(tree, e) : e \in Analysed'})
  <2> DEFINE new == [node |-> n, address |-> StuckAddress(n), known |-> b]
  <2>1. b
    <3>1. new.known = b /\ new \in impacts'
      BY <1>1
    <3> HIDE DEF new
    <3> QED
      BY <1>7, <3>1
  <2>2. totals.stuck = SumFunctionOnSet(balance, stuckAt)
    BY <1>1, <1>2, <1>3, <1>7 DEF TotalsFacts
  <2>3. totals'.stuck = totals.stuck + balance[From(tree, n)]
    BY <1>1, <2>1 DEF StuckAddress
  <2>4. {From(tree, e) : e \in Analysed'} = stuckAt \cup {From(tree, n)}
    BY <1>5
  <2>5. From(tree, n) \notin stuckAt
    BY <1>4, <1>5, StuckApart
  <2>6. IsFiniteSet(stuckAt) /\ Ints(balance, stuckAt \cup {From(tree, n)})
    <3>1. IsFiniteSet(Analysed)
      BY <1>4, <1>5, CountFacts
    <3>2. IsFiniteSet(stuckAt)
      <4> DEFINE from == [e \in Analysed |-> From(tree, e)]
      <4>1. from \in Surjection(Analysed, stuckAt)
        BY Zenon DEF Surjection
      <4> QED
        BY <3>1, <4>1, FS_Surjection
    <3>3. stuckAt \cup {From(tree, n)} \subseteq Addresses(tree)
      BY <1>4, <1>5 DEF Addresses
    <3> HIDE DEF stuckAt
    <3> QED
      BY <1>4, <3>2, <3>3 DEF Ints
  <2> HIDE DEF stuckAt
  <2> QED
    BY <2>2, <2>3, <2>4, <2>5, <2>6, SumAdd
<1> QED
  BY <1>2, <1>6, <1>7 DEF TotalsFacts, Beneath

(* Nothing else happens to the totals; and with nothing left behind, no     *)
(* money moves once the executor has returned.                              *)
LEMMA TotalsStep ==
  ASSUME SafeTrees
  PROVE  MInv /\ TotalsFacts /\ [ProgramNext]_programVars => TotalsFacts'
<1> SUFFICES ASSUME MInv, TotalsFacts, [ProgramNext]_programVars, Reporting' PROVE TotalsFacts'
  BY DEF TotalsFacts
<1> USE DEF MInv, RInv
<1>1. CASE \E n \in Nodes(tree) : Analyze(n)
  BY <1>1, TotalsAnalyze
<1>2. CASE PriceReply
  <2>1. totals' = [stuck |-> 0, orphans |-> 0] /\ Analysed' = {}
    <3>1. UNCHANGED errors
      BY <1>2 DEF PriceReply, vars, resultVars
    <3> QED
      BY <1>2, <3>1 DEF PriceReply, MainFacts, Analysed
  <2>2. /\ UNION {Beneath(tree, e) : e \in Analysed}' = {}
        /\ {From(tree, e) : e \in Analysed}' = {}
    BY <2>1
  <2> QED
    BY <2>1, <2>2, FS_EmptySet, SumNone DEF TotalsFacts
<1>3. CASE ~PriceReply /\ ~\E n \in Nodes(tree) : Analyze(n)
  <2>1. Reporting /\ UNCHANGED <<unread, impacts, totals>>
    BY <1>3 DEF ProgramNext, Connect, Configure, StartUpFails, Execute, Executed, Pay, GiveUp,
       PriceFails, Exit, Exited, LandLate, RaisePrice, programVars, mainVars, MainFacts, Reporting
  <2>2. UNCHANGED <<tree, errors>>
    BY <2>1, ProgramStep, ErrorsKept DEF MainFacts
  <2>3. \A n \in Nodes(tree) : ~Pay(n)
    BY <2>1 DEF MainFacts, OkReturned, IInv, Bookkeeping, InFlight, Pay, SendOk
  <2>4. left \subseteq left' /\ (left = {} => balance' = balance)
    BY <1>3, <2>3 DEF ProgramNext, Connect, Configure, StartUpFails, Execute, Executed, GiveUp,
       PriceFails, Exit, Exited, LandLate, RaisePrice, programVars, ledgerVars
  <2>5. Analysed' = Analysed
    BY <2>1, <2>2 DEF Analysed
  <2>6. \A e : Beneath(tree, e)' = Beneath(tree, e)
    BY <2>2
  <2> QED
    BY <2>1, <2>2, <2>4, <2>5, <2>6 DEF TotalsFacts
<1> QED
  BY <1>1, <1>2, <1>3

(* On every plan that keeps its promises the totals of the report are exact *)
(* when nothing is left behind and every balance could be read: the sum     *)
(* counts no wallet twice, and the orphans are the operations not completed.*)
THEOREM TotalsAreExact == ASSUME SafeTrees PROVE ProgramSpec => []TotalsExact
<1>1. ProgramInit => TotalsFacts
  BY DEF ProgramInit, TotalsFacts, Reporting
<1>2. ASSUME MInv, TotalsFacts PROVE TotalsExact
  <2> USE DEF MInv, RInv
  <2> SUFFICES ASSUME exit = "ok", left = {}, \A i \in impacts : i.known
               PROVE  /\ totals.stuck = SumFunctionOnSet(balance, {From(tree, e) : e \in errors})
                      /\ totals.orphans = progress.total - progress.completed
    BY DEF TotalsExact, MapThenSumSet, SumFunctionOnSet, FoldFunctionOnSet
  <2>1. Reporting /\ Analysed = errors /\ outcome = "ok"
    BY <1>2 DEF MainFacts, Reporting, Analysed
  <2>2. totals.stuck = SumFunctionOnSet(balance, {From(tree, e) : e \in errors})
    BY <1>2, <2>1 DEF TotalsFacts
  <2>3. /\ totals.orphans = Cardinality(UNION {Beneath(tree, e) : e \in errors})
        /\ progress.completed + totals.orphans = progress.total
    BY <1>2, <2>1, AccountingHolds DEF TotalsFacts, Accounting
  <2>4. totals.orphans \in Nat /\ progress.completed \in Nat /\ progress.total \in Nat
    BY <1>2 DEF ProgramTypeOK, IInv, TypeOK
  <2> QED
    BY <2>2, <2>3, <2>4
<1> QED
  BY <1>1, <1>2, TotalsStep, MainInvariance, PTL DEF ProgramSpec

-----------------------------------------------------------------------------
(* The plans of the planner keep those promises, theorem BalancedIsSafe of  *)
(* PlannerProofs.  That module is about a machine with variables of its     *)
(* own; the theorem speaks of none of them, so it does not matter what      *)
(* stands for them here.                                                    *)
Plans == INSTANCE PlannerProofs
  WITH Shapes <- {}, shape <- <<>>, pc <- "done", loop <- 1,
       children <- tree.children, op <- tree.op, lastOp <- tree.root,
       current <- tree.root, chain <- <<>>, signers <- {}, backups <- {}, registered <- {}

(* A run is given plans for loops of at least one address, as all loops are *)
(* that calculate_addresses_per_loop makes (LoopPlanProofs).                *)
GivenPlans == Trees \subseteq {BalancedTree(s) : s \in Seq(Nat \ {0})}

(* The module's copies of the definitions are those of this one.            *)
LEMMA SamePlans ==
  /\ Plans!Allocation = Seq(Nat \ {0})
  /\ \A s : Plans!BalancedTree(s) = BalancedTree(s)
  /\ \A t : Plans!SafePlan(t) <=> SafePlan(t)
<1>1. Plans!Allocation = Seq(Nat \ {0})
  BY DEF Plans!Allocation
<1>2. ASSUME NEW s, NEW n
      PROVE  Plans!ChainChildren(s, n) = ChainChildren(s, n)
  BY DEF Plans!ChainChildren, ChainChildren, Plans!LoopStarts, LoopStarts,
         Plans!LoopEnds, LoopEnds, Plans!FundingId, FundingId
<1>3. \A s : /\ Plans!FundingId(s) = FundingId(s) /\ Plans!LoopStarts(s) = LoopStarts(s)
             /\ Plans!LoopEnds(s) = LoopEnds(s)
  BY DEF Plans!LoopStarts, LoopStarts, Plans!LoopEnds, LoopEnds, Plans!FundingId, FundingId
<1>4. \A s, n : Plans!Sender(s, n) = Sender(s, n) /\ Plans!Target(s, n) = Target(s, n)
  BY <1>3 DEF Plans!Sender, Sender, Plans!Target, Target
<1>5. \A s : Plans!BalancedTree(s) = BalancedTree(s)
  BY <1>2, <1>3, <1>4 DEF Plans!BalancedTree, BalancedTree
<1>6. \A t : Plans!SafePlan(t) <=> SafePlan(t)
  BY Zenon
     DEF Plans!SafePlan, SafePlan, Plans!ConflictsOrdered, ConflictsOrdered,
         Plans!SendsWhatItGot, SendsWhatItGot, Plans!EveryWalletSends, EveryWalletSends,
         Plans!FilledOnceAndEmptied, FilledOnceAndEmptied, Plans!Conflict, Conflict,
         Plans!ParentClosed, ParentClosed, Plans!ParentOf, ParentOf, Plans!Kids, Kids,
         Plans!Range, Range, Plans!Nodes, Nodes, Plans!Addresses, Addresses,
         Plans!From, From, Plans!To, To
<1> QED
  BY <1>1, <1>5, <1>6

LEMMA GivenPlansAreSafe == ASSUME GivenPlans PROVE SafeTrees
<1>1. \A s \in Plans!Allocation : Plans!SafePlan(Plans!BalancedTree(s))
  BY Plans!BalancedIsSafe
<1> QED
  BY <1>1, SamePlans DEF GivenPlans, SafeTrees

(* The whole program, on the plan of any allocation, however many addresses *)
(* and loops it has: no two running operations share a sender or disturb a  *)
(* running sweep, no wallet sends before it is funded, whatever is stuck is *)
(* reported and the totals of the report are exact.                         *)
THEOREM PlannedProgram ==
  ASSUME GivenPlans
  PROVE  ProgramSpec => [](/\ NoSharedSender /\ SweepIsolated /\ FundedBeforeUse
                           /\ StuckIsReported /\ TotalsExact)
  BY GivenPlansAreSafe, ProgramSendersApart, NothingStuckUnreported, TotalsAreExact, PTL

(* Where only the root wallet has sent anything before the run, a program   *)
(* without errors has used every wallet of the plan.                        *)
THEOREM PlannedGoal ==
  ASSUME GivenPlans, MayBeMined \subseteq {0} PROVE ProgramSpec => []GoalReached
<1>1. NewWalletsOnly
  <2>1. ASSUME NEW s \in Seq(Nat \ {0}) PROVE From(BalancedTree(s), BalancedTree(s).root) = 0
    <3>1. LET t == Plans!BalancedTree(s) IN t.root = 0 /\ t.op[0] = Plans!Transfer(0, 0, TRUE)
      BY SamePlans, Plans!BalancedNodes
    <3>2. BalancedTree(s).root = 0 /\ BalancedTree(s).op[0].from = 0
      BY <3>1, SamePlans DEF Plans!Transfer
    <3> QED
      BY <3>2 DEF From
  <2> QED
    BY <2>1 DEF GivenPlans, NewWalletsOnly
<1> QED
  BY <1>1, GivenPlansAreSafe, ProgramGoal
=============================================================================
