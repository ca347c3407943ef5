------------------------------ MODULE Program ------------------------------
(***************************************************************************)
(* The program as main runs it (src/src/main.rs): start up, execute the    *)
(* planned tree, print the statistics - with the money it moves.           *)
(*                                                                         *)
(* WalletManager (src/src/wallet/mod.rs) owns the tree and hands it to the *)
(* executor, module Executor, whose steps are the steps of this one; the   *)
(* result goes to ProgressManager::print_statistics, which looks up the    *)
(* ETH price and then asks TransactionManager::analyze_failure_impact      *)
(* about every error.  The plan itself is made by module Planner before    *)
(* this one begins.                                                        *)
(*                                                                         *)
(* The ledger is external.  What an operation does to it is the contract   *)
(* of module Transfer: an Ok has moved the money, on a network that loses  *)
(* answers more than once; an Err has not, but may leave one transaction   *)
(* behind that is mined later.  Nothing reverts here, and nobody else      *)
(* sends to these wallets.  Amounts are in units of GAS_LIMIT times the    *)
(* lowest gas price.                                                       *)
(***************************************************************************)
EXTENDS PlannedExecution, FiniteSetsExt

CONSTANTS
  GasBuffer,     \* config.gas_buffer_multiplier
  Amount,        \* AMOUNT_PER_WALLET
  Prices,        \* the gas prices of the run, each higher than the one before
  RootBalances,  \* what the root wallet may own at first
  Payments       \* how often one operation that succeeds may pay

ASSUME ProgramAssumption ==
  /\ GasBuffer \in Nat \ {0} /\ Amount \in Nat \ {0} /\ Payments \in Nat \ {0}
  /\ Prices \subseteq Nat \ {0} /\ Prices # {} /\ IsFiniteSet(Prices)
  /\ RootBalances \subseteq Nat

VARIABLES
  phase,      \* where main is
  unread,     \* errors print_statistics has not come to
  impacts,    \* the failure impacts it has printed
  totals,     \* total_eth_stuck and total_orphaned_ops
  exit,       \* what main returns
  balance,    \* external: what every wallet owns
  gasPrice,   \* external
  left        \* external: transactions that failed operations left behind

mainVars == <<phase, unread, impacts, totals, exit>>
ledgerVars == <<balance, gasPrice, left>>
programVars == <<vars, mainVars, ledgerVars>>

-----------------------------------------------------------------------------
(* Mutated forms: the wallet the money was meant for reported instead of    *)
(* the one it is stuck in, the failed operation counted among its orphans,  *)
(* and the gas taken off a balance that does not cover it.                  *)
TargetAddress(n) == To(tree, n)

OrphansWithSelf(n) == Descendants(tree, n) \cup {n}

ValueUnchecked(n) ==
  IF ~tree.op[n].sweep THEN Amount ELSE balance[From(tree, n)] - GasBuffer * gasPrice

-----------------------------------------------------------------------------
StuckAddress(n) == From(tree, n)

Orphans(n) == Descendants(tree, n)

(* The value an operation sends: its amount, or all above the gas buffer.   *)
Value(n) ==
  IF ~tree.op[n].sweep THEN Amount
  ELSE IF balance[From(tree, n)] < GasBuffer * gasPrice THEN 0
  ELSE balance[From(tree, n)] - GasBuffer * gasPrice

(* Can the sender pay for it, at the price read a moment before?            *)
Affordable(n) == Value(n) # 0 /\ Value(n) + gasPrice <= balance[From(tree, n)]

Moved(from, to, value, price) ==
  LET paid == [balance EXCEPT ![from] = @ - value - price]
  IN  [paid EXCEPT ![to] = @ + value]

ProgramInit ==
  /\ Init
  /\ phase = "start"
  /\ unread = {} /\ impacts = {}
  /\ totals = [stuck |-> 0, orphans |-> 0]
  /\ exit = "none"
  /\ \E b \in RootBalances :
       balance = [a \in Addresses(tree) |-> IF a = RootAddress THEN b ELSE 0]
  /\ gasPrice = Min(Prices)
  /\ left = {}

(* The provider connects and tells its chain ...                            *)
Connect ==
  /\ phase = "start"
  /\ phase' = "connected"
  /\ UNCHANGED <<vars, unread, impacts, totals, exit, ledgerVars>>

(* ... WalletManager::new loads the configuration and is given the tree ... *)
Configure ==
  /\ phase = "connected"
  /\ phase' = "executing"
  /\ UNCHANGED <<vars, unread, impacts, totals, exit, ledgerVars>>

(* ... or one of them fails, as Config::from_env does when a required       *)
(* variable is missing, and main returns before anything is sent.           *)
StartUpFails ==
  /\ phase \in {"start", "connected"}
  /\ phase' = "exited" /\ exit' = "error"
  /\ UNCHANGED <<vars, unread, impacts, totals, ledgerVars>>

(* A step of the executor that sends nothing.                               *)
Execute ==
  /\ phase = "executing"
  /\ Step \/ \E n \in Nodes(tree) : CountReply(n) \/ CountFails(n)
  /\ UNCHANGED <<mainVars, ledgerVars>>

(* An operation succeeds: it has paid, a fixed amount perhaps repeatedly.   *)
Pay(n) ==
  /\ SendOk(n)
  /\ Affordable(n)
  /\ \E k \in 1..(IF tree.op[n].sweep THEN 1 ELSE Payments) :
       /\ k * (Value(n) + gasPrice) <= balance[From(tree, n)]
       /\ balance' = Moved(From(tree, n), To(tree, n), k * Value(n), k * gasPrice)
  /\ UNCHANGED <<mainVars, gasPrice, left>>

(* It fails, leaving nothing or one transaction behind.                     *)
GiveUp(n) ==
  /\ SendFails(n)
  /\ \/ mempool' = mempool /\ UNCHANGED left
     \/ /\ mempool' # mempool
        /\ Affordable(n)
        /\ left' = left \cup {[node |-> n, value |-> Value(n), price |-> gasPrice]}
  /\ UNCHANGED <<mainVars, balance, gasPrice>>

(* External: such a transaction is mined after all.                         *)
LandLate(tx) ==
  LET from == From(tree, tx.node) IN
  /\ LateLanding(from)
  /\ tx.value + tx.price <= balance[from]
  /\ balance' = Moved(from, To(tree, tx.node), tx.value, tx.price)
  /\ UNCHANGED <<mainVars, gasPrice, left>>

(* External: gas becomes more expensive.  It matters while an operation is   *)
(* about to be sent; a rise at another time is one just before the next.    *)
RaisePrice ==
  /\ \E n \in Nodes(tree) : status[n] = "sending"
  /\ \E p \in Prices : p > gasPrice /\ gasPrice' = p
  /\ UNCHANGED <<vars, mainVars, balance, left>>

-----------------------------------------------------------------------------
(* The executor has returned.  Its error ends the program with nothing      *)
(* printed; its result goes to print_statistics.                            *)
Executed ==
  /\ phase = "executing" /\ pc = "returned"
  /\ \/ outcome = "ok" /\ phase' = "price" /\ UNCHANGED exit
     \/ outcome # "ok" /\ phase' = "exited" /\ exit' = "error"
  /\ UNCHANGED <<vars, unread, impacts, totals, ledgerVars>>

(* The ETH price arrives: print the summary and turn to the errors.         *)
PriceReply ==
  /\ phase = "price"
  /\ phase' = "report"
  /\ unread' = errors
  /\ UNCHANGED <<vars, impacts, totals, exit, ledgerVars>>

(* It does not: the ? returns before the summary and the errors.            *)
PriceFails ==
  /\ phase = "price"
  /\ phase' = "exited" /\ exit' = "error"
  /\ UNCHANGED <<vars, unread, impacts, totals, ledgerVars>>

(* One error is analysed; a balance that cannot be read counts as nothing.  *)
Analyze(n) ==
  /\ phase = "report"
  /\ n \in unread
  /\ unread' = unread \ {n}
  /\ \E known \in BOOLEAN :
       LET stuck == IF known THEN balance[StuckAddress(n)] ELSE 0 IN
       /\ impacts' = impacts \cup
            {[node |-> n, address |-> StuckAddress(n), known |-> known]}
       /\ totals' = [stuck |-> totals.stuck + stuck,
                     orphans |-> totals.orphans + Cardinality(Orphans(n))]
  /\ UNCHANGED <<vars, phase, exit, ledgerVars>>

(* After the last error print the totals and return.                        *)
Exit ==
  /\ phase = "report"
  /\ unread = {}
  /\ phase' = "exited" /\ exit' = "ok"
  /\ UNCHANGED <<vars, unread, impacts, totals, ledgerVars>>

Exited == phase = "exited" /\ UNCHANGED programVars

ProgramNext ==
  \/ Connect \/ Configure \/ StartUpFails \/ Execute \/ Executed
  \/ \E n \in Nodes(tree) : Pay(n) \/ GiveUp(n) \/ Analyze(n)
  \/ PriceReply \/ PriceFails \/ Exit \/ Exited
  \/ \E tx \in left : LandLate(tx)
  \/ RaisePrice

ProgramSpec == ProgramInit /\ [][ProgramNext]_programVars

-----------------------------------------------------------------------------
ProgramTypeOK ==
  /\ phase \in {"start", "connected", "executing", "price", "report", "exited"}
  /\ unread \subseteq errors
  /\ impacts \subseteq [node : errors, address : Addresses(tree), known : BOOLEAN]
  /\ totals \in [stuck : Nat, orphans : Nat]
  /\ exit \in {"none", "ok", "error"}
  /\ balance \in [Addresses(tree) -> Nat]
  /\ gasPrice \in Prices
  /\ left \subseteq [node : errors \cup batch, value : Nat, price : Prices]

(* What a sweep keeps back: the gas buffer less the gas it pays.            *)
Remainder == (GasBuffer - 1) * Max(Prices)

(* Every generated wallet that holds more than a sweep keeps back has been  *)
(* reported as a stuck address, or was paid by a transaction that outlived  *)
(* its operation.                                                           *)
StuckReported ==
  \A w \in Wallets :
    balance[w] > Remainder =>
      \/ \E i \in impacts : i.address = w
      \/ \E tx \in left : To(tree, tx.node) = w

(* When print_statistics is through, whatever is stuck has been reported.   *)
(* With no errors the money is back with the root wallet.                   *)
StuckIsReported == exit = "ok" => StuckReported

(* Where no transaction outlives its operation and every balance is read,   *)
(* "Total ETH Stuck" is what the stuck addresses own together, each counted *)
(* once, and "Total Orphaned Operations" what the run did not complete.     *)
TotalsExact ==
  exit = "ok" /\ left = {} /\ (\A i \in impacts : i.known) =>
    /\ totals.stuck = MapThenSumSet(LAMBDA a : balance[a], {From(tree, e) : e \in errors})
    /\ totals.orphans = progress.total - progress.completed

(* README, Error Handling: "Detailed error impact analysis", and Usage:      *)
(* "Generate detailed execution statistics".  When the program has ended    *)
(* with the executor's result in hand, every wallet that money is stuck in  *)
(* was reported, whatever became of the lookups that are for display only.  *)
StuckAlwaysReported == phase = "exited" /\ outcome = "ok" => StuckReported
=============================================================================
