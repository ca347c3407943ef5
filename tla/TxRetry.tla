------------------------------ MODULE TxRetry ------------------------------
(***************************************************************************)
(* TransactionManager::build_and_send_operation for one operation, with    *)
(* build_transaction, calculate_max_value, send_transaction and            *)
(* attempt_transaction under it (src/src/wallet/transaction.rs), and the   *)
(* part of the chain that its sender can see.                              *)
(*                                                                         *)
(* Each RPC call answers or fails; between the call and the answer the     *)
(* chain moves.  The sleeps (random delay, ten seconds, backoff) are steps *)
(* of the chain between two steps of the code.  Amounts are small numbers  *)
(* in units of GAS_LIMIT times the lowest gas price.                       *)
(*                                                                         *)
(* Transactions are external: they are in the mempool from the moment the  *)
(* node accepts them, in the order of their nonces (the provider fills the *)
(* nonce in from the sender's transaction count), and are mined in that    *)
(* order, successfully or reverted, while the sender can pay for them, or  *)
(* dropped.                                                                *)
(*                                                                         *)
(* A network is a record of what can go wrong between the program and the  *)
(* chain: `loses`, the answer to a send the node accepted may be lost;     *)
(* `late`, a transaction may be mined only after the check for it, and     *)
(* that check may fail; `reverts`, a mined transaction may have failed.    *)
(***************************************************************************)
EXTENDS Naturals, Sequences, FiniteSets

CONSTANTS
  MaxRetries,      \* config.max_retries
  GasBuffer,       \* config.gas_buffer_multiplier
  Amount,          \* the amount of a funding operation
  Balances,        \* what the sender may own at first
  Prices,          \* what eth_gasPrice may answer
  Networks         \* the networks the operation may meet

ASSUME TxAssumption ==
  /\ MaxRetries \in Nat /\ GasBuffer \in Nat /\ Amount \in Nat \ {0}
  /\ Balances \subseteq Nat /\ Prices \subseteq Nat \ {0}
  /\ Networks \subseteq [loses : BOOLEAN, late : BOOLEAN, reverts : BOOLEAN]

VARIABLES
  sweep,     \* operation.amount is None; chosen once
  net,       \* the network; chosen once
  pc,        \* the RPC call being awaited, or "returned"
  retries,   \* retry_count
  price,     \* gas price of the transaction being built
  value,     \* value of the transaction being built
  hash,      \* the transaction whose receipt is awaited
  result,    \* what the call returned
  balance,   \* external: the sender's balance
  txs        \* external: the transactions broadcast by this operation

inputs == <<sweep, net>>
codeVars == <<pc, retries, price, value, hash, result>>
chainVars == <<balance, txs>>
vars == <<inputs, codeVars, chainVars>>

InState(s) == {k \in DOMAIN txs : txs[k].state = s}

Cost(tx) == tx.value + tx.price

-----------------------------------------------------------------------------
(* The gas cost at price p with the buffer on top.                         *)
Buffered(p) == GasBuffer * p

(* Mutated forms: one retry too many, the check after an error skipped, and *)
(* a sweep whose retries send the value computed for the first attempt.     *)
OneMoreRetry == retries > MaxRetries

NeverLanded(k) == FALSE

FirstValue ==
  IF value > 0 \/ balance < Buffered(price) THEN value ELSE balance - Buffered(price)

-----------------------------------------------------------------------------
Exhausted == retries >= MaxRetries

(* The transaction has a receipt.                                          *)
InBlock(k) == txs[k].state \in {"mined", "reverted"}

(* get_transaction_receipt found it with a successful status.              *)
Landed(k) == txs[k].state = "mined"

(* calculate_max_value: what is left above the buffered gas cost, or 0.    *)
MaxValue ==
  IF balance < Buffered(price) THEN 0 ELSE balance - Buffered(price)

Init ==
  /\ sweep \in BOOLEAN /\ net \in Networks
  /\ pc = "gasPrice"
  /\ retries = 0 /\ price = 0 /\ value = 0 /\ hash = 0
  /\ result = "none"
  /\ balance \in Balances
  /\ txs = <<>>

Return(r) ==
  /\ pc' = "returned"
  /\ result' = r
  /\ UNCHANGED retries

(* A retriable error e: give up after max_retries, else build anew.        *)
RetryOrReturn(e) ==
  \/ Exhausted /\ Return(e)
  \/ ~Exhausted /\ pc' = "gasPrice" /\ retries' = retries + 1 /\ UNCHANGED result

(* The gas price arrives.  A fixed amount is ready to send; a sweep asks   *)
(* for the balance first.                                                  *)
GasPriceReply ==
  /\ pc = "gasPrice"
  /\ price' \in Prices
  /\ \/ ~sweep /\ value' = Amount /\ pc' = "send"
     \/ sweep /\ pc' = "balance" /\ UNCHANGED value
  /\ UNCHANGED <<inputs, retries, hash, result, chainVars>>

(* The balance arrives: the value of the sweep is fixed now, and nothing   *)
(* looks at the balance again before it is sent.                           *)
BalanceReply ==
  /\ pc = "balance"
  /\ value' = MaxValue
  /\ pc' = IF MaxValue = 0 THEN "balanceAgain" ELSE "send"
  /\ UNCHANGED <<inputs, retries, price, hash, result, chainVars>>

(* Mutated form: this copy of the retry code does not count.               *)
InsufficientUncounted ==
  /\ pc = "balanceAgain"
  /\ \/ Exhausted /\ Return("insufficientBalance")
     \/ ~Exhausted /\ pc' = "gasPrice" /\ UNCHANGED <<retries, result>>
  /\ UNCHANGED <<inputs, price, value, hash, chainVars>>

(* The second balance is only for the message of InsufficientBalance.      *)
InsufficientBalance ==
  /\ pc = "balanceAgain"
  /\ RetryOrReturn("insufficientBalance")
  /\ UNCHANGED <<inputs, price, value, hash, chainVars>>

(* A gas price or balance that fails ends the operation: no retry.         *)
BuildFails ==
  /\ pc \in {"gasPrice", "balance", "balanceAgain"}
  /\ Return("providerError")
  /\ UNCHANGED <<inputs, price, value, hash, chainVars>>

-----------------------------------------------------------------------------
(* The node accepts the transaction if the sender can pay for it.          *)
Broadcast ==
  /\ value + price <= balance
  /\ txs' = Append(txs, [value |-> value, price |-> price, state |-> "mempool"])
  /\ UNCHANGED balance

SendAccepted ==
  /\ pc = "send"
  /\ Broadcast
  /\ hash' = Len(txs')
  /\ pc' = "receipt"
  /\ UNCHANGED <<inputs, retries, price, value, result>>

(* The node accepts it, but the answer does not arrive: the error carries  *)
(* no hash, so nothing is checked before the retry.                        *)
SendResponseLost ==
  /\ net.loses
  /\ pc = "send"
  /\ Broadcast
  /\ RetryOrReturn("transactionError")
  /\ UNCHANGED <<inputs, price, value, hash>>

SendRejected ==
  /\ pc = "send"
  /\ RetryOrReturn("transactionError")
  /\ UNCHANGED <<inputs, price, value, hash, chainVars>>

(* The receipt arrives; whatever its status, the attempt succeeded.        *)
ReceiptReply ==
  /\ pc = "receipt"
  /\ InBlock(hash)
  /\ Return("ok")
  /\ UNCHANGED <<inputs, price, value, hash, chainVars>>

(* Watching for the receipt fails: look once more in ten seconds.          *)
ReceiptFails ==
  /\ pc = "receipt"
  /\ pc' = "landed"
  /\ UNCHANGED <<inputs, retries, price, value, hash, result, chainVars>>

LandedReply ==
  /\ pc = "landed"
  /\ txs[hash].state = "mempool" => net.late
  /\ \/ Landed(hash) /\ Return("ok")
     \/ ~Landed(hash) /\ RetryOrReturn("transactionError")
  /\ UNCHANGED <<inputs, price, value, hash, chainVars>>

LandedFails ==
  /\ pc = "landed"
  /\ net.late
  /\ RetryOrReturn("transactionError")
  /\ UNCHANGED <<inputs, price, value, hash, chainVars>>

(* External: the oldest transaction of the sender is mined.                *)
Mine ==
  /\ \E k \in InState("mempool") :
       /\ \A m \in InState("mempool") : k <= m
       /\ Cost(txs[k]) <= balance
       /\ \/ /\ txs' = [txs EXCEPT ![k].state = "mined"]
             /\ balance' = balance - Cost(txs[k])
          \/ /\ net.reverts
             /\ txs' = [txs EXCEPT ![k].state = "reverted"]
             /\ balance' = balance - txs[k].price
  /\ UNCHANGED <<inputs, codeVars>>

(* External: the node drops a transaction, as it does with one that pays   *)
(* too little, has been replaced or expires.  Nobody tells the sender.     *)
Drop ==
  /\ \E k \in InState("mempool") : txs' = [txs EXCEPT ![k].state = "dropped"]
  /\ UNCHANGED <<inputs, codeVars, balance>>

Done == pc = "returned" /\ UNCHANGED vars

(* The steps of the code that the answers to its calls bring about.        *)
Answered ==
  \/ GasPriceReply \/ BalanceReply \/ InsufficientBalance \/ BuildFails
  \/ SendAccepted \/ SendResponseLost \/ SendRejected
  \/ ReceiptReply \/ LandedReply \/ LandedFails

Next == Answered \/ ReceiptFails \/ Mine \/ Drop \/ Done

Spec == Init /\ [][Next]_vars

(* Every single request is answered or fails; the receipt is awaited with  *)
(* no limit of time, so nothing makes that wait end but the receipt.  The  *)
(* chain owes the sender nothing, but a network that is not late has mined *)
(* or dropped a transaction by the time of the check for it.               *)
FairSpec ==
  /\ Spec
  /\ WF_vars(Answered)
  /\ WF_vars(pc = "landed" /\ ~net.late /\ (Mine \/ Drop))

-----------------------------------------------------------------------------
TypeOK ==
  /\ sweep \in BOOLEAN /\ net \in Networks
  /\ pc \in {"gasPrice", "balance", "balanceAgain", "send", "receipt", "landed", "returned"}
  /\ retries \in 0..MaxRetries
  /\ price \in Prices \cup {0}
  /\ value \in Nat /\ balance \in Nat
  /\ hash \in 0..Len(txs)
  /\ result \in {"none", "ok", "providerError", "insufficientBalance", "transactionError"}
  /\ txs \in Seq([value : Nat, price : Prices, state : {"mempool", "mined", "reverted", "dropped"}])

(* Every attempt broadcasts at most one transaction, and there are at most  *)
(* max_retries + 1 of them, whichever errors are mixed.                     *)
AttemptsBounded ==
  /\ Len(txs) <= MaxRetries + 1
  /\ pc \in {"gasPrice", "balance", "balanceAgain", "send"} => Len(txs) <= retries

(* An operation that reports success has moved its money: a transaction of  *)
(* it was mined and did not revert.                                         *)
OkMeansPaid == result = "ok" => InState("mined") # {}

(* An operation moves money at most once, however often it is retried:      *)
(* README, AMOUNT_PER_WALLET: "Amount of ETH to send to each new wallet".   *)
PaidOnce == Cardinality(InState("mined")) <= 1

(* A sweep empties its wallet: once one of its transactions is mined, the   *)
(* wallet holds no more than what that transaction left of its own gas      *)
(* buffer.  The balance and the price are read before the send and not      *)
(* looked at again, and other attempts of the sweep, made at other prices,  *)
(* may be mined, reverted or dropped before or after this one.              *)
SweepEmptiesWallet ==
  sweep => \A k \in InState("mined") : balance + txs[k].price <= Buffered(txs[k].price)

(* The operation returns, or waits for ever for the receipt of a            *)
(* transaction that never makes it into a block: no other wait, and no      *)
(* mixture of retries, keeps it from returning.                             *)
ReturnsOrWaits ==
  \/ <>(pc = "returned")
  \/ <>[](pc = "receipt" /\ ~InBlock(hash))

-----------------------------------------------------------------------------
(* The retries implement Transfer: seen from its caller an operation only   *)
(* moves money, succeeds or fails.  A transaction still in the mempool has   *)
(* not moved any.                                                           *)
Outcome == IF result \in {"none", "ok"} THEN result ELSE "failed"

Moved == Cardinality(InState("mined"))

Contract == INSTANCE Transfer
              WITH Attempts <- MaxRetries + 1, outcome <- Outcome, moved <- Moved

ImplementsTransfer == Contract!Spec

=============================================================================
