---------------------------- MODULE TxRetryProofs ----------------------------
(***************************************************************************)
(* Proofs about TxRetry for every retry limit, gas buffer, amount, balance *)
(* and gas price.                                                          *)
(*                                                                         *)
(* AttemptInv is what holds on every chain: the type and the number of     *)
(* attempts.  It is inductive because the transaction that is awaited is   *)
(* the latest one, and a transaction is built with the price that was read *)
(* for it.  SweepInv says of every attempt of a sweep, from the moment its *)
(* value is fixed, that the balance has not outgrown it: no later read of  *)
(* the balance is needed, since only the sweep itself spends.  What an     *)
(* operation's result says about money depends on the network: OkInv       *)
(* assumes that nothing reverts, PromptInv that the node's answers are     *)
(* neither lost nor late.  From AttemptInv, OkInv and PromptInv follows    *)
(* that the retries implement Transfer.                                    *)
(***************************************************************************)
EXTENDS TxRetry, FiniteSetTheorems, TLAPS

Building == {"gasPrice", "balance", "balanceAgain", "send"}

AttemptInv ==
  /\ TypeOK
  /\ AttemptsBounded
  /\ Len(txs) <= retries + 1
  /\ pc \in {"receipt", "landed"} => hash \in DOMAIN txs
  /\ pc \in {"balance", "send"} => price \in Prices
  /\ pc # "returned" => result = "none"

(* What a sweep is about to send, or has in the mempool, takes all of the   *)
(* balance but its own gas buffer.                                          *)
SweepInv ==
  sweep =>
    /\ pc = "send" => balance <= value + Buffered(price)
    /\ \A k \in InState("mempool") : balance <= txs[k].value + Buffered(txs[k].price)
    /\ \A k \in InState("mined") : balance + txs[k].price <= Buffered(txs[k].price)

(* With no reverts, success means that the transaction was mined.           *)
OkInv ==
  ~net.reverts =>
    /\ \A k \in DOMAIN txs : txs[k].state # "reverted"
    /\ OkMeansPaid

Prompt == ~net.loses /\ ~net.late

(* With prompt answers every transaction is lost, but for the awaited one   *)
(* and the one that made the operation succeed.                             *)
PromptInv ==
  Prompt =>
    \A k \in DOMAIN txs :
      \/ txs[k].state \in {"reverted", "dropped"}
      \/ k = hash /\ pc \in {"receipt", "landed"}
      \/ k = hash /\ pc = "returned" /\ result = "ok" /\ InBlock(k)

-----------------------------------------------------------------------------
(* The buffered gas cost is a natural number: a fact without which          *)
(* calculate_max_value has no type.                                         *)
LEMMA BufferFact == \A p \in Prices \cup {0} : Buffered(p) \in Nat
<1>1. GasBuffer \in Nat /\ Prices \subseteq Nat
  BY TxAssumption
<1>2. \A m, n \in Nat : m * n \in Nat
  OBVIOUS
<1> QED
  BY <1>1, <1>2 DEF Buffered

(* What can be sent is a natural number that leaves no more of the balance  *)
(* than the buffered gas cost.                                              *)
LEMMA MaxValueFact ==
  ASSUME TypeOK, price \in Prices
  PROVE  MaxValue \in Nat /\ balance <= MaxValue + Buffered(price)
<1>1. Buffered(price) \in Nat /\ balance \in Nat
  BY BufferFact DEF TypeOK
<1> QED
  BY <1>1 DEF MaxValue

Tx == [value : Nat, price : Prices, state : {"mempool", "mined", "reverted", "dropped"}]

(* Broadcasting appends one transaction that awaits mining.                 *)
LEMMA BroadcastFact ==
  ASSUME AttemptInv, pc = "send", Broadcast
  PROVE  /\ txs' \in Seq(Tx)
         /\ Len(txs') = Len(txs) + 1
         /\ DOMAIN txs' = DOMAIN txs \cup {Len(txs')}
         /\ \A k \in DOMAIN txs : txs'[k] = txs[k]
         /\ txs'[Len(txs')].state = "mempool"
         /\ txs'[Len(txs')].value = value /\ txs'[Len(txs')].price = price
         /\ balance' = balance
<1> DEFINE tx == [value |-> value, price |-> price, state |-> "mempool"]
<1>1. txs \in Seq(Tx) /\ tx \in Tx
  BY DEF AttemptInv, TypeOK, Tx
<1>2. txs' = Append(txs, tx) /\ balance' = balance
  BY DEF Broadcast
<1>3. tx.state = "mempool" /\ tx.value = value /\ tx.price = price
  OBVIOUS
<1> HIDE DEF tx
<1> QED
  BY <1>1, <1>2, <1>3

(* Mining or dropping takes one transaction out of the mempool; the balance *)
(* falls by its cost if it is mined, and never grows.                       *)
LEMMA SettleFact ==
  ASSUME TypeOK, Mine \/ Drop
  PROVE  /\ txs' \in Seq(Tx)
         /\ Len(txs') = Len(txs)
         /\ DOMAIN txs' = DOMAIN txs
         /\ balance' \in Nat /\ balance' <= balance
         /\ \E k \in DOMAIN txs :
              /\ txs[k].state = "mempool"
              /\ txs'[k].state \in {"mined", "reverted", "dropped"}
              /\ ~net.reverts => txs'[k].state # "reverted"
              /\ txs'[k].value = txs[k].value /\ txs'[k].price = txs[k].price
              /\ txs'[k].state = "mined" => balance' + Cost(txs[k]) = balance
              /\ \A j \in DOMAIN txs \ {k} : txs'[j] = txs[j]
<1>1. PICK k \in InState("mempool"), s \in {"mined", "reverted", "dropped"} :
        /\ txs' = [txs EXCEPT ![k].state = s]
        /\ ~net.reverts => s # "reverted"
        /\ \/ balance' = balance
           \/ /\ Cost(txs[k]) <= balance
              /\ balance' \in {balance - Cost(txs[k]), balance - txs[k].price}
        /\ s = "mined" => balance' = balance - Cost(txs[k]) /\ Cost(txs[k]) <= balance
  BY DEF Mine, Drop
<1>2. k \in DOMAIN txs /\ txs[k].state = "mempool"
  BY DEF InState
<1>3. txs \in Seq(Tx) /\ balance \in Nat
  BY DEF TypeOK, Tx
<1>4. txs[k] \in Tx
  BY <1>2, <1>3
<1>5. txs[k].value \in Nat /\ txs[k].price \in Nat
  BY <1>4, TxAssumption DEF Tx
<1>6. /\ balance' \in Nat /\ balance' <= balance
      /\ s = "mined" => balance' + Cost(txs[k]) = balance
  BY <1>1, <1>3, <1>5 DEF Cost
<1> DEFINE new == [txs[k] EXCEPT !.state = s]
<1>7. /\ new \in Tx /\ new.state = s /\ new.value = txs[k].value /\ new.price = txs[k].price
      /\ txs' = [txs EXCEPT ![k] = new]
  BY <1>1, <1>4 DEF Tx
<1> HIDE DEF new
<1>8. /\ txs' \in Seq(Tx) /\ Len(txs') = Len(txs) /\ DOMAIN txs' = DOMAIN txs
      /\ txs'[k].state = s
      /\ txs'[k].value = txs[k].value /\ txs'[k].price = txs[k].price
      /\ \A j \in DOMAIN txs \ {k} : txs'[j] = txs[j]
  BY <1>2, <1>3, <1>7
<1> QED
  BY <1>1, <1>2, <1>6, <1>8

-----------------------------------------------------------------------------
LEMMA AttemptInit == Init => AttemptInv
<1> SUFFICES ASSUME Init PROVE AttemptInv
  OBVIOUS
<1>1. txs = <<>> /\ Len(txs) = 0 /\ DOMAIN txs = {} /\ pc = "gasPrice"
  BY DEF Init
<1>2. MaxRetries \in Nat /\ balance \in Nat
  BY TxAssumption DEF Init
<1>3. TypeOK
  BY <1>1, <1>2 DEF Init, TypeOK
<1> QED
  BY <1>1, <1>2, <1>3 DEF Init, AttemptInv, AttemptsBounded

(* A step that leaves the chain and the awaited transaction alone keeps the *)
(* type and the bound if it returns, or takes another attempt.              *)
LEMMA RetryStep ==
  ASSUME AttemptInv, pc # "returned", NEW e \in {"insufficientBalance", "transactionError"},
         RetryOrReturn(e), UNCHANGED <<sweep, net, price, value, hash>>,
         balance' = balance, txs' \in Seq(Tx), Len(txs') \in Nat,
         Len(txs) <= Len(txs'), Len(txs') <= retries + 1
  PROVE  AttemptInv'
<1>1. MaxRetries \in Nat /\ retries \in 0..MaxRetries /\ Len(txs) \in Nat /\ hash \in 0..Len(txs)
  BY TxAssumption DEF AttemptInv, TypeOK
<1>2. /\ pc' \in {"gasPrice", "returned"}
      /\ retries' \in 0..MaxRetries /\ retries <= retries'
      /\ pc' = "gasPrice" => Len(txs') <= retries'
      /\ result' \in {"none", "ok", "providerError", "insufficientBalance", "transactionError"}
  BY <1>1 DEF RetryOrReturn, Return, Exhausted, AttemptInv, TypeOK
<1>3. TypeOK'
  BY <1>1, <1>2 DEF AttemptInv, TypeOK, Tx
<1>4. AttemptsBounded'
  BY <1>1, <1>2 DEF AttemptsBounded
<1> QED
  BY <1>1, <1>2, <1>3, <1>4 DEF AttemptInv, RetryOrReturn, Return

LEMMA AttemptNext ==
  ASSUME AttemptInv, [Next]_vars
  PROVE  AttemptInv'
<1>0. /\ MaxRetries \in Nat /\ Amount \in Nat /\ retries \in 0..MaxRetries
      /\ Len(txs) \in Nat /\ hash \in 0..Len(txs) /\ txs \in Seq(Tx)
  BY TxAssumption DEF AttemptInv, TypeOK, Tx
<1>1. CASE GasPriceReply
  <2>1. TypeOK'
    BY <1>0, <1>1 DEF GasPriceReply, chainVars, inputs, AttemptInv, TypeOK
  <2>2. AttemptsBounded'
    BY <1>1 DEF GasPriceReply, chainVars, inputs, AttemptInv, AttemptsBounded
  <2> QED
    BY <1>1, <2>1, <2>2 DEF GasPriceReply, chainVars, inputs, AttemptInv
<1>2. CASE BalanceReply
  <2>1. MaxValue \in Nat
    BY <1>2, MaxValueFact DEF BalanceReply, AttemptInv
  <2>2. TypeOK'
    BY <1>2, <2>1 DEF BalanceReply, chainVars, inputs, AttemptInv, TypeOK
  <2>3. AttemptsBounded'
    BY <1>2 DEF BalanceReply, chainVars, inputs, AttemptInv, AttemptsBounded
  <2> QED
    BY <1>2, <2>2, <2>3 DEF BalanceReply, chainVars, inputs, AttemptInv
<1>3. CASE InsufficientBalance
  <2>1. UNCHANGED <<sweep, net, price, value, hash, balance, txs>>
    BY <1>3 DEF InsufficientBalance, chainVars, inputs
  <2> QED
    BY <1>0, <1>3, <2>1, RetryStep DEF InsufficientBalance, AttemptInv
<1>4. CASE BuildFails
  <2>1. TypeOK'
    BY <1>4 DEF BuildFails, Return, chainVars, inputs, AttemptInv, TypeOK
  <2> QED
    BY <1>4, <2>1
    DEF BuildFails, Return, chainVars, inputs, AttemptInv, AttemptsBounded
<1>5. CASE SendAccepted
  <2>1. /\ txs' \in Seq(Tx) /\ Len(txs') = Len(txs) + 1
        /\ DOMAIN txs' = DOMAIN txs \cup {Len(txs')} /\ balance' = balance
    BY <1>5, BroadcastFact DEF SendAccepted
  <2>2. Len(txs) <= retries
    BY <1>5 DEF SendAccepted, AttemptInv, AttemptsBounded
  <2>3. hash' = Len(txs') /\ pc' = "receipt" /\ UNCHANGED <<sweep, net, retries, price, value, result>>
    BY <1>5 DEF SendAccepted, inputs
  <2>4. TypeOK'
    BY <1>0, <2>1, <2>3 DEF AttemptInv, TypeOK, Tx
  <2>5. AttemptsBounded'
    BY <1>0, <2>1, <2>2, <2>3 DEF AttemptsBounded
  <2> QED
    BY <1>0, <1>5, <2>1, <2>2, <2>3, <2>4, <2>5 DEF SendAccepted, AttemptInv
<1>6. CASE SendResponseLost
  <2>1. txs' \in Seq(Tx) /\ Len(txs') = Len(txs) + 1 /\ balance' = balance
    BY <1>6, BroadcastFact DEF SendResponseLost
  <2>2. Len(txs) <= retries
    BY <1>6 DEF SendResponseLost, AttemptInv, AttemptsBounded
  <2> QED
    BY <1>0, <1>6, <2>1, <2>2, RetryStep DEF SendResponseLost, inputs
<1>7. CASE SendRejected
  <2>1. UNCHANGED <<sweep, net, price, value, hash, balance, txs>>
    BY <1>7 DEF SendRejected, chainVars, inputs
  <2> QED
    BY <1>0, <1>7, <2>1, RetryStep DEF SendRejected, AttemptInv
<1>8. CASE ReceiptReply
  <2>1. TypeOK'
    BY <1>8 DEF ReceiptReply, Return, chainVars, inputs, AttemptInv, TypeOK
  <2> QED
    BY <1>8, <2>1
    DEF ReceiptReply, Return, chainVars, inputs, AttemptInv, AttemptsBounded
<1>9. CASE ReceiptFails
  <2>1. TypeOK'
    BY <1>9 DEF ReceiptFails, chainVars, inputs, AttemptInv, TypeOK
  <2> QED
    BY <1>9, <2>1 DEF ReceiptFails, chainVars, inputs, AttemptInv, AttemptsBounded
<1>10. CASE LandedReply
  <2>1. UNCHANGED <<sweep, net, price, value, hash, balance, txs>>
    BY <1>10 DEF LandedReply, chainVars, inputs
  <2>2. CASE RetryOrReturn("transactionError")
    BY <1>0, <1>10, <2>1, <2>2, RetryStep DEF LandedReply, AttemptInv
  <2>3. CASE Return("ok")
    <3>1. TypeOK'
      BY <2>1, <2>3 DEF Return, AttemptInv, TypeOK
    <3> QED
      BY <2>1, <2>3, <3>1 DEF Return, AttemptInv, AttemptsBounded
  <2> QED
    BY <1>10, <2>2, <2>3 DEF LandedReply
<1>11. CASE LandedFails
  <2>1. UNCHANGED <<sweep, net, price, value, hash, balance, txs>>
    BY <1>11 DEF LandedFails, chainVars, inputs
  <2> QED
    BY <1>0, <1>11, <2>1, RetryStep DEF LandedFails, AttemptInv
<1>12. CASE Mine \/ Drop
  <2>1. /\ txs' \in Seq(Tx) /\ Len(txs') = Len(txs) /\ DOMAIN txs' = DOMAIN txs
        /\ balance' \in Nat
    BY <1>12, SettleFact DEF AttemptInv
  <2>2. UNCHANGED <<sweep, net, pc, retries, price, value, hash, result>>
    BY <1>12 DEF Mine, Drop, codeVars, inputs
  <2>3. TypeOK'
    BY <2>1, <2>2 DEF AttemptInv, TypeOK, Tx
  <2> QED
    BY <2>1, <2>2, <2>3 DEF AttemptInv, AttemptsBounded
<1>13. CASE UNCHANGED vars
  BY <1>13 DEF vars, codeVars, chainVars, inputs, AttemptInv, TypeOK, AttemptsBounded
<1> QED
  BY <1>1, <1>2, <1>3, <1>4, <1>5, <1>6, <1>7, <1>8, <1>9, <1>10, <1>11, <1>12, <1>13
  DEF Next, Answered, Done

-----------------------------------------------------------------------------
(* The network of an operation is chosen once.                              *)
LEMMA NetConstant == [Next]_vars => net' = net
  BY DEF Next, Answered, Done, GasPriceReply, BalanceReply, InsufficientBalance, BuildFails,
     SendAccepted, SendResponseLost, SendRejected, ReceiptReply, ReceiptFails, LandedReply,
     LandedFails, Mine, Drop, vars, inputs

LEMMA SweepConstant == [Next]_vars => sweep' = sweep
  BY DEF Next, Answered, Done, GasPriceReply, BalanceReply, InsufficientBalance, BuildFails,
     SendAccepted, SendResponseLost, SendRejected, ReceiptReply, ReceiptFails, LandedReply,
     LandedFails, Mine, Drop, vars, inputs

(* The value is fixed by the balance reply, a transaction is broadcast with *)
(* it, and the balance only falls until that transaction is mined.          *)
LEMMA SweepNext ==
  ASSUME AttemptInv, SweepInv, [Next]_vars
  PROVE  SweepInv'
<1> SUFFICES ASSUME sweep
             PROVE  /\ (pc = "send" => balance <= value + Buffered(price))'
                    /\ (\A k \in InState("mempool") :
                          balance <= txs[k].value + Buffered(txs[k].price))'
                    /\ (\A k \in InState("mined") :
                          balance + txs[k].price <= Buffered(txs[k].price))'
  BY SweepConstant DEF SweepInv
<1>1. /\ pc = "send" => balance <= value + Buffered(price)
      /\ \A k \in InState("mempool") : balance <= txs[k].value + Buffered(txs[k].price)
      /\ \A k \in InState("mined") : balance + txs[k].price <= Buffered(txs[k].price)
  BY DEF SweepInv
<1>2. txs \in Seq(Tx) /\ value \in Nat /\ balance \in Nat
  BY DEF AttemptInv, TypeOK, Tx
<1>3. \A k \in DOMAIN txs :
        txs[k].value \in Nat /\ txs[k].price \in Nat /\ Buffered(txs[k].price) \in Nat
  <2> SUFFICES ASSUME NEW k \in DOMAIN txs
               PROVE  txs[k].value \in Nat /\ txs[k].price \in Nat /\ Buffered(txs[k].price) \in Nat
    OBVIOUS
  <2>1. txs[k] \in Tx
    BY <1>2
  <2> QED
    BY <2>1, BufferFact, TxAssumption DEF Tx
<1>4. \A p : Buffered(p)' = Buffered(p)
  BY DEF Buffered
<1>5. CASE UNCHANGED chainVars /\ pc' # "send"
  BY <1>1, <1>5 DEF chainVars, InState, Buffered
<1>6. CASE GasPriceReply
  BY <1>1, <1>6 DEF GasPriceReply, inputs, chainVars, InState, Buffered
<1>7. CASE BalanceReply
  <2>1. price' = price /\ value' = MaxValue /\ UNCHANGED chainVars /\ price \in Prices
    BY <1>7 DEF BalanceReply, AttemptInv
  <2>2. balance <= MaxValue + Buffered(price)
    BY <2>1, MaxValueFact DEF AttemptInv
  <2> QED
    BY <1>1, <2>1, <2>2 DEF chainVars, InState, Buffered
<1>8. CASE SendAccepted \/ SendResponseLost
  <2>1. pc = "send" /\ Broadcast /\ pc' # "send"
    BY <1>8 DEF SendAccepted, SendResponseLost, RetryOrReturn, Return
  <2>2. /\ DOMAIN txs' = DOMAIN txs \cup {Len(txs')}
        /\ \A k \in DOMAIN txs : txs'[k] = txs[k]
        /\ txs'[Len(txs')].state = "mempool"
        /\ txs'[Len(txs')].value = value /\ txs'[Len(txs')].price = price
        /\ balance' = balance
    BY <2>1, BroadcastFact
  <2>3. balance <= value + Buffered(price)
    BY <1>1, <2>1
  <2> QED
    BY <1>1, <1>4, <2>1, <2>2, <2>3 DEF InState
<1>9. CASE Mine \/ Drop
  <2>1. UNCHANGED <<pc, value, price>> /\ DOMAIN txs' = DOMAIN txs
    BY <1>9, SettleFact DEF Mine, Drop, codeVars, AttemptInv
  <2>2. balance' \in Nat /\ balance' <= balance
    BY <1>9, SettleFact DEF AttemptInv
  <2>3. PICK k \in DOMAIN txs :
          /\ txs[k].state = "mempool"
          /\ txs'[k].state \in {"mined", "reverted", "dropped"}
          /\ txs'[k].value = txs[k].value /\ txs'[k].price = txs[k].price
          /\ txs'[k].state = "mined" => balance' + Cost(txs[k]) = balance
          /\ \A j \in DOMAIN txs \ {k} : txs'[j] = txs[j]
    BY <1>9, SettleFact DEF AttemptInv
  <2>4. (pc = "send" => balance <= value + Buffered(price))'
    <3>1. pc = "send" => Buffered(price) \in Nat
      BY BufferFact DEF AttemptInv
    <3> QED
      BY <1>1, <1>2, <1>4, <2>1, <2>2, <3>1
  <2>5. ASSUME NEW j \in DOMAIN txs, txs'[j].state = "mempool"
        PROVE  balance' <= txs'[j].value + Buffered(txs'[j].price)
    <3>1. j # k /\ txs'[j] = txs[j] /\ j \in InState("mempool")
      BY <2>3, <2>5 DEF InState
    <3>2. balance <= txs[j].value + Buffered(txs[j].price)
      BY <1>1, <3>1
    <3>3. balance' <= txs[j].value + Buffered(txs[j].price)
      BY <1>2, <1>3, <2>2, <3>2
    <3> QED
      BY <3>1, <3>3
  <2>6. ASSUME NEW j \in DOMAIN txs, txs'[j].state = "mined"
        PROVE  balance' + txs'[j].price <= Buffered(txs'[j].price)
    <3>1. CASE j = k
      <4>1. balance <= txs[k].value + Buffered(txs[k].price)
        BY <1>1, <2>3 DEF InState
      <4>2. balance' + (txs[k].value + txs[k].price) = balance
        BY <2>3, <2>6, <3>1 DEF Cost
      <4>3. balance' + txs[k].price <= Buffered(txs[k].price)
        BY <1>2, <1>3, <2>2, <4>1, <4>2
      <4> QED
        BY <2>3, <3>1, <4>3
    <3>2. CASE j # k
      <4>1. txs'[j] = txs[j] /\ j \in InState("mined")
        BY <2>3, <2>6, <3>2 DEF InState
      <4>2. balance + txs[j].price <= Buffered(txs[j].price)
        BY <1>1, <4>1
      <4>3. balance' + txs[j].price <= Buffered(txs[j].price)
        BY <1>2, <1>3, <2>2, <4>2
      <4> QED
        BY <4>1, <4>3
    <3> QED
      BY <3>1, <3>2
  <2> QED
    BY <1>4, <2>1, <2>4, <2>5, <2>6 DEF InState
<1>10. CASE UNCHANGED vars
  BY <1>1, <1>10 DEF vars, codeVars, chainVars, InState, Buffered
<1>11. InsufficientBalance \/ BuildFails \/ SendRejected \/ ReceiptReply \/ ReceiptFails
         \/ LandedReply \/ LandedFails => UNCHANGED chainVars /\ pc' # "send"
  BY DEF InsufficientBalance, BuildFails, SendRejected, ReceiptReply, ReceiptFails, LandedReply,
     LandedFails, RetryOrReturn, Return, inputs, chainVars
<1> QED
  BY <1>5, <1>6, <1>7, <1>8, <1>9, <1>10, <1>11 DEF Next, Answered, Done

(* Steps that touch no transaction; the retry of one never turns a result   *)
(* into success.                                                            *)
LEMMA OkNext ==
  ASSUME AttemptInv, OkInv, [Next]_vars
  PROVE  OkInv'
<1> SUFFICES ASSUME ~net.reverts
             PROVE  (\A k \in DOMAIN txs : txs[k].state # "reverted")' /\ OkMeansPaid'
  BY NetConstant DEF OkInv
<1>0. (\A k \in DOMAIN txs : txs[k].state # "reverted") /\ OkMeansPaid
  BY DEF OkInv
<1>1. CASE txs' = txs /\ (result' = "ok" => result = "ok")
  BY <1>0, <1>1 DEF OkMeansPaid, InState
<1>2. CASE SendAccepted \/ SendResponseLost
  <2>1. pc = "send" /\ Broadcast
    BY <1>2 DEF SendAccepted, SendResponseLost
  <2>2. /\ DOMAIN txs' = DOMAIN txs \cup {Len(txs')}
        /\ \A k \in DOMAIN txs : txs'[k] = txs[k]
        /\ txs'[Len(txs')].state = "mempool"
    BY <2>1, BroadcastFact
  <2>3. result' = "ok" => result = "ok"
    BY <1>2 DEF SendAccepted, SendResponseLost, RetryOrReturn, Return
  <2> QED
    BY <1>0, <2>2, <2>3 DEF OkMeansPaid, InState
<1>3. CASE ReceiptReply \/ LandedReply
  <2>1. hash \in DOMAIN txs /\ txs' = txs
    BY <1>3 DEF ReceiptReply, LandedReply, chainVars, inputs, AttemptInv
  <2>2. result' = "ok" => result = "ok" \/ InBlock(hash)
    BY <1>3 DEF ReceiptReply, LandedReply, RetryOrReturn, Return, Landed, InBlock
  <2> QED
    BY <1>0, <2>1, <2>2 DEF OkMeansPaid, InState, InBlock
<1>4. CASE Mine \/ Drop
  <2>1. DOMAIN txs' = DOMAIN txs
    BY <1>4, SettleFact DEF AttemptInv
  <2>2. PICK k \in DOMAIN txs :
          /\ txs[k].state = "mempool" /\ txs'[k].state # "reverted"
          /\ \A j \in DOMAIN txs \ {k} : txs'[j] = txs[j]
    BY <1>4, SettleFact DEF AttemptInv
  <2>3. result' = result
    BY <1>4 DEF Mine, Drop, codeVars
  <2> QED
    BY <1>0, <2>1, <2>2, <2>3 DEF OkMeansPaid, InState
<1>5. CASE \/ GasPriceReply \/ BalanceReply \/ InsufficientBalance \/ BuildFails
           \/ SendRejected \/ ReceiptFails \/ LandedFails \/ UNCHANGED vars
  <2>1. txs' = txs /\ (result' = "ok" => result = "ok")
    BY <1>5
    DEF GasPriceReply, BalanceReply, InsufficientBalance, BuildFails, SendRejected, ReceiptFails,
        LandedFails, RetryOrReturn, Return, vars, codeVars, chainVars, inputs
  <2> QED
    BY <1>1, <2>1
<1> QED
  BY <1>2, <1>3, <1>4, <1>5 DEF Next, Answered, Done

LEMMA PromptNext ==
  ASSUME AttemptInv, PromptInv, [Next]_vars
  PROVE  PromptInv'
<1> SUFFICES ASSUME Prompt, NEW k \in DOMAIN txs'
             PROVE  \/ txs'[k].state \in {"reverted", "dropped"}
                    \/ k = hash' /\ pc' \in {"receipt", "landed"}
                    \/ k = hash' /\ pc' = "returned" /\ result' = "ok" /\ InBlock(k)'
  BY NetConstant DEF PromptInv, Prompt
<1>0. \A j \in DOMAIN txs :
        \/ txs[j].state \in {"reverted", "dropped"}
        \/ j = hash /\ pc \in {"receipt", "landed"}
        \/ j = hash /\ pc = "returned" /\ result = "ok" /\ InBlock(j)
  BY DEF PromptInv
<1>1. CASE GasPriceReply \/ BalanceReply \/ InsufficientBalance \/ BuildFails \/ SendRejected
  <2>1. txs' = txs /\ pc \notin {"receipt", "landed", "returned"}
    BY <1>1
    DEF GasPriceReply, BalanceReply, InsufficientBalance, BuildFails, SendRejected, chainVars, inputs
  <2> QED
    BY <1>0, <2>1
<1>2. CASE SendAccepted
  <2>1. pc = "send" /\ Broadcast /\ hash' = Len(txs') /\ pc' = "receipt"
    BY <1>2 DEF SendAccepted
  <2>2. /\ DOMAIN txs' = DOMAIN txs \cup {Len(txs')}
        /\ \A j \in DOMAIN txs : txs'[j] = txs[j]
    BY <2>1, BroadcastFact
  <2> QED
    BY <1>0, <2>1, <2>2
<1>3. CASE ReceiptReply
  BY <1>0, <1>3 DEF ReceiptReply, Return, InBlock, chainVars, inputs
<1>4. CASE ReceiptFails
  BY <1>0, <1>4 DEF ReceiptFails, chainVars, inputs
<1>5. CASE LandedReply
  <2>1. hash \in DOMAIN txs /\ txs' = txs /\ hash' = hash /\ pc = "landed"
    BY <1>5 DEF LandedReply, chainVars, inputs, AttemptInv
  <2>2. txs[hash].state # "mempool"
    BY <1>5 DEF LandedReply, Prompt
  <2>3. CASE Landed(hash) /\ Return("ok")
    BY <1>0, <2>1, <2>3 DEF Return, Landed, InBlock
  <2>4. CASE ~Landed(hash)
    <3>1. txs \in Seq(Tx)
      BY DEF AttemptInv, TypeOK, Tx
    <3>2. txs[hash] \in Tx
      BY <2>1, <3>1
    <3>3. txs[hash].state \in {"reverted", "dropped"}
      BY <2>2, <2>4, <3>2 DEF Landed, Tx
    <3> QED
      BY <1>0, <2>1, <3>3
  <2> QED
    BY <1>5, <2>3, <2>4 DEF LandedReply
<1>6. CASE Mine \/ Drop
  <2>1. UNCHANGED <<pc, hash, result>> /\ DOMAIN txs' = DOMAIN txs
    BY <1>6, SettleFact DEF Mine, Drop, codeVars, AttemptInv
  <2>2. PICK m \in DOMAIN txs :
          /\ txs[m].state = "mempool"
          /\ txs'[m].state \in {"mined", "reverted", "dropped"}
          /\ \A j \in DOMAIN txs \ {m} : txs'[j] = txs[j]
    BY <1>6, SettleFact DEF AttemptInv
  <2> QED
    BY <1>0, <2>1, <2>2 DEF InBlock
<1>7. CASE UNCHANGED vars
  BY <1>0, <1>7 DEF InBlock, vars, codeVars, chainVars, inputs
<1>8. ~SendResponseLost /\ ~LandedFails
  BY DEF Prompt, SendResponseLost, LandedFails
<1> QED
  BY <1>1, <1>2, <1>3, <1>4, <1>5, <1>6, <1>7, <1>8 DEF Next, Answered, Done

-----------------------------------------------------------------------------
TxInv == AttemptInv /\ SweepInv /\ OkInv /\ PromptInv

(* The invariants of one attempt, of a sweep, of success and of a prompt    *)
(* network hold.                                                            *)
LEMMA TxInductive == Spec => []TxInv
<1>1. Init => TxInv
  <2> SUFFICES ASSUME Init PROVE TxInv
    OBVIOUS
  <2>1. DOMAIN txs = {} /\ result = "none"
    BY DEF Init
  <2>2. AttemptInv
    BY AttemptInit
  <2> QED
    BY <2>1, <2>2 DEF TxInv, SweepInv, InState, Init, OkInv, OkMeansPaid, PromptInv
<1>2. TxInv /\ [Next]_vars => TxInv'
  BY AttemptNext, SweepNext, OkNext, PromptNext DEF TxInv
<1> QED
  BY <1>1, <1>2, PTL DEF Spec

(* Every variable has its type on every network, and retry_count never      *)
(* exceeds max_retries.                                                     *)
THEOREM TxTypeCorrect == Spec => []TypeOK
<1>1. TxInv => TypeOK
  BY DEF TxInv, AttemptInv
<1> QED
  BY <1>1, TxInductive, PTL

(* build_and_send_operation broadcasts at most max_retries + 1              *)
(* transactions, whichever of its errors are mixed.                         *)
THEOREM AttemptsAreBounded == Spec => []AttemptsBounded
<1>1. TxInv => AttemptsBounded
  BY DEF TxInv, AttemptInv
<1> QED
  BY <1>1, TxInductive, PTL

(* Whichever attempt of a sweep is mined, at whatever price and after       *)
(* whatever happened to the others, it leaves its wallet with no more than  *)
(* the rest of that transaction's gas buffer.                               *)
THEOREM SweepsEmptyWallets == Spec => []SweepEmptiesWallet
<1>1. TxInv => SweepEmptiesWallet
  BY DEF TxInv, SweepInv, SweepEmptiesWallet
<1> QED
  BY <1>1, TxInductive, PTL

(* Where transactions cannot revert, an operation that reports success has  *)
(* moved its money, also when it learnt of it only after an error.          *)
THEOREM OkIsPaid == Spec => [](~net.reverts => OkMeansPaid)
<1>1. TxInv => (~net.reverts => OkMeansPaid)
  BY DEF TxInv, OkInv
<1> QED
  BY <1>1, TxInductive, PTL

(* With a node whose answers are neither lost nor late, an operation pays   *)
(* at most once, however often it is retried and whatever reverts.          *)
THEOREM PromptPaysOnce == Spec => [](Prompt => PaidOnce)
<1>1. ASSUME Prompt, TxInv PROVE PaidOnce
  <2>1. InState("mined") \subseteq {hash}
    BY <1>1 DEF TxInv, PromptInv, InState
  <2>2. IsFiniteSet({hash}) /\ Cardinality({hash}) = 1
    BY FS_Singleton
  <2>3. Cardinality(InState("mined")) <= 1
    BY <2>1, <2>2, FS_Subset
  <2> QED
    BY <2>3 DEF PaidOnce
<1>2. TxInv => (Prompt => PaidOnce)
  BY <1>1
<1> QED
  BY <1>2, TxInductive, PTL

-----------------------------------------------------------------------------
(* How often the money has moved is a number, and no more than the          *)
(* transactions broadcast.                                                  *)
LEMMA MovedFact ==
  ASSUME TypeOK
  PROVE  /\ IsFiniteSet(InState("mined"))
         /\ Moved \in Nat
         /\ Moved <= Len(txs)
         /\ Moved = 0 <=> InState("mined") = {}
<1>1. Len(txs) \in Nat /\ DOMAIN txs = 1..Len(txs)
  BY DEF TypeOK
<1>2. IsFiniteSet(1..Len(txs)) /\ Cardinality(1..Len(txs)) = Len(txs)
  <2>1. 0 \in Int /\ Len(txs) \in Int
    BY <1>1
  <2> QED
    BY <1>1, FS_Interval, SMTT(20)
<1>3. InState("mined") \subseteq 1..Len(txs)
  BY <1>1 DEF InState
<1>4. IsFiniteSet(InState("mined")) /\ Cardinality(InState("mined")) <= Len(txs)
  BY <1>2, <1>3, FS_Subset
<1> QED
  BY <1>4, FS_CardinalityType, FS_EmptySet DEF Moved

(* Giving up is a failure of the contract, trying again is no step of it,   *)
(* as long as a prompt network has moved nothing.                           *)
LEMMA RetryRefines ==
  ASSUME AttemptInv, pc # "returned",
         \/ Return("providerError")
         \/ \E e \in {"insufficientBalance", "transactionError"} : RetryOrReturn(e),
         net' = net, Moved' = Moved, Prompt => Moved = 0
  PROVE  Contract!Fail \/ UNCHANGED <<net, Outcome, Moved>>
<1>1. result = "none"
  BY DEF AttemptInv
<1>2. CASE result' = result
  BY <1>2 DEF Outcome
<1>3. CASE result' \in {"providerError", "insufficientBalance", "transactionError"}
  BY <1>1, <1>3 DEF Contract!Fail, Contract!Prompt, Prompt, Outcome
<1> QED
  BY <1>2, <1>3 DEF RetryOrReturn, Return

(* An operation that reports success has moved its money, or its            *)
(* transaction has reverted.                                                *)
LEMMA SuccessRefines ==
  ASSUME AttemptInv, OkInv, ReceiptReply \/ (LandedReply /\ Landed(hash))
  PROVE  Contract!Succeed
<1>1. /\ hash \in DOMAIN txs /\ InBlock(hash) /\ UNCHANGED <<net, txs>>
      /\ result = "none" /\ result' = "ok"
  BY DEF ReceiptReply, LandedReply, Landed, InBlock, Return, inputs, chainVars, AttemptInv
<1>2. ~net.reverts => hash \in InState("mined")
  BY <1>1 DEF OkInv, InBlock, InState
<1>3. ~net.reverts => Moved > 0
  BY <1>2, MovedFact DEF AttemptInv
<1>4. Moved' = Moved /\ Outcome = "none" /\ Outcome' = "ok"
  BY <1>1 DEF Moved, InState, Outcome
<1> QED
  BY <1>1, <1>3, <1>4 DEF Contract!Succeed

(* Mining moves the money or reverts; dropping does nothing.                *)
LEMMA SettleRefines ==
  ASSUME AttemptInv, AttemptInv', PromptInv, Mine \/ Drop
  PROVE  Contract!Move \/ UNCHANGED <<net, Outcome, Moved>>
<1>1. UNCHANGED <<net, pc, result, hash>> /\ DOMAIN txs' = DOMAIN txs /\ Len(txs') = Len(txs)
  BY SettleFact DEF Mine, Drop, inputs, codeVars, AttemptInv
<1>2. PICK k \in DOMAIN txs :
        /\ txs[k].state = "mempool"
        /\ txs'[k].state \in {"mined", "reverted", "dropped"}
        /\ \A j \in DOMAIN txs \ {k} : txs'[j] = txs[j]
  BY SettleFact DEF AttemptInv
<1>3. CASE txs'[k].state # "mined"
  <2>1. InState("mined")' = InState("mined")
    BY <1>1, <1>2, <1>3 DEF InState
  <2> QED
    BY <1>1, <2>1 DEF Moved, Outcome
<1>4. CASE txs'[k].state = "mined"
  <2>1. InState("mined")' = InState("mined") \cup {k} /\ k \notin InState("mined")
    BY <1>1, <1>2, <1>4 DEF InState
  <2>2. Moved \in Nat /\ Moved' = Moved + 1
    BY <2>1, MovedFact, FS_AddElement DEF Moved, AttemptInv
  <2>3. Moved' <= Len(txs') /\ Len(txs') <= MaxRetries + 1
    <3>1. Moved' <= Len(txs')
      <4>1. /\ InState("mined")' \subseteq 1..Len(txs') /\ Len(txs') \in Nat
        BY <1>1 DEF InState, AttemptInv, TypeOK
      <4>2. IsFiniteSet(1..Len(txs')) /\ Cardinality(1..Len(txs')) = Len(txs')
        BY <4>1, FS_Interval
      <4> QED
        BY <4>1, <4>2, FS_Subset DEF Moved
    <3> QED
      BY <3>1 DEF AttemptInv, AttemptsBounded
  <2>4. Moved < MaxRetries + 1
    <3>1. MaxRetries \in Nat /\ Len(txs') \in Nat
      BY <1>1, TxAssumption DEF AttemptInv, TypeOK
    <3> QED
      BY <2>2, <2>3, <3>1
  <2>5. Prompt => Outcome = "none" /\ Moved = 0
    <3> SUFFICES ASSUME Prompt PROVE Outcome = "none" /\ Moved = 0
      OBVIOUS
    <3>1. k = hash /\ pc \in {"receipt", "landed"}
      BY <1>2 DEF PromptInv, InBlock
    <3>2. InState("mined") = {}
      BY <1>2, <3>1 DEF PromptInv, InState
    <3> QED
      BY <3>1, <3>2, MovedFact DEF Outcome, AttemptInv
  <2>6. UNCHANGED <<net, Outcome>>
    BY <1>1 DEF Outcome
  <2> QED
    BY <2>2, <2>4, <2>5, <2>6 DEF Contract!Move, Contract!Prompt, Prompt
<1> QED
  BY <1>3, <1>4

LEMMA StepRefines ==
  ASSUME TxInv, TxInv', [Next]_vars
  PROVE  Contract!Next \/ UNCHANGED <<net, Outcome, Moved>>
<1>0. AttemptInv /\ AttemptInv' /\ OkInv /\ PromptInv
  BY DEF TxInv
<1>1. CASE InsufficientBalance \/ BuildFails \/ SendRejected
  <2>1. /\ UNCHANGED <<net, txs>> /\ pc \notin {"returned", "receipt", "landed"}
        /\ \/ Return("providerError")
           \/ \E e \in {"insufficientBalance", "transactionError"} : RetryOrReturn(e)
    BY <1>1 DEF InsufficientBalance, BuildFails, SendRejected, inputs, chainVars
  <2>2. Moved' = Moved
    BY <2>1 DEF Moved, InState
  <2>3. Prompt => Moved = 0
    <3>1. Prompt => InState("mined") = {}
      BY <1>0, <2>1 DEF PromptInv, InState
    <3> QED
      BY <1>0, <3>1, MovedFact DEF AttemptInv
  <2> QED
    BY <1>0, <2>1, <2>2, <2>3, RetryRefines DEF Contract!Next
<1>2. CASE SendResponseLost \/ LandedFails \/ (LandedReply /\ ~Landed(hash))
  <2>1. /\ net' = net /\ pc \in {"send", "landed"}
        /\ RetryOrReturn("transactionError")
    BY <1>2 DEF SendResponseLost, LandedFails, LandedReply, inputs
  <2>2. InState("mined")' = InState("mined")
    <3>1. CASE SendResponseLost
      <4>1. /\ DOMAIN txs' = DOMAIN txs \cup {Len(txs')}
            /\ \A j \in DOMAIN txs : txs'[j] = txs[j]
            /\ txs'[Len(txs')].state = "mempool"
        BY <1>0, <3>1, BroadcastFact DEF SendResponseLost
      <4> QED
        BY <4>1 DEF InState
    <3>2. CASE txs' = txs
      BY <3>2 DEF InState
    <3> QED
      BY <1>2, <3>1, <3>2 DEF LandedFails, LandedReply, chainVars
  <2>3. Prompt => InState("mined") = {}
    BY <1>0, <1>2
    DEF Prompt, SendResponseLost, LandedFails, LandedReply, Landed, PromptInv, InState
  <2>4. Moved' = Moved /\ (Prompt => Moved = 0)
    BY <1>0, <2>2, <2>3, MovedFact DEF Moved, AttemptInv
  <2> QED
    BY <1>0, <2>1, <2>4, RetryRefines DEF Contract!Next
<1>3. CASE ReceiptReply \/ (LandedReply /\ Landed(hash))
  BY <1>0, <1>3, SuccessRefines DEF Contract!Next
<1>4. CASE Mine \/ Drop
  BY <1>0, <1>4, SettleRefines DEF Contract!Next
<1>5. CASE SendAccepted
  <2>1. /\ DOMAIN txs' = DOMAIN txs \cup {Len(txs')}
        /\ \A j \in DOMAIN txs : txs'[j] = txs[j]
        /\ txs'[Len(txs')].state = "mempool"
    BY <1>0, <1>5, BroadcastFact DEF SendAccepted
  <2>2. InState("mined")' = InState("mined")
    BY <2>1 DEF InState
  <2> QED
    BY <1>5, <2>2 DEF SendAccepted, inputs, Outcome, Moved
<1>6. CASE GasPriceReply \/ BalanceReply \/ ReceiptFails \/ UNCHANGED vars
  <2>1. UNCHANGED <<net, result, txs>>
    BY <1>6 DEF GasPriceReply, BalanceReply, ReceiptFails, vars, inputs, codeVars, chainVars
  <2> QED
    BY <2>1 DEF Outcome, Moved, InState
<1> QED
  BY <1>1, <1>2, <1>3, <1>4, <1>5, <1>6 DEF Next, Answered, Done

(* The retries implement the contract of an operation: with a prompt        *)
(* network the money moves at most once and a failure has moved nothing and *)
(* never will; success means moved where nothing reverts; and no network    *)
(* makes the money move more often than there are attempts.                 *)
THEOREM RetriesImplementTransfer == Spec => ImplementsTransfer
<1>1. Init => Contract!Init
  <2> SUFFICES ASSUME Init PROVE Contract!Init
    OBVIOUS
  <2>1. InState("mined") = {}
    BY DEF Init, InState
  <2> QED
    BY <2>1, FS_EmptySet DEF Init, Contract!Init, Outcome, Moved
<1>2. TxInv /\ TxInv' /\ [Next]_vars => [Contract!Next]_(Contract!transferVars)
  BY StepRefines DEF Contract!transferVars
<1> QED
  BY <1>1, <1>2, TxInductive, PTL DEF Spec, Contract!Spec, ImplementsTransfer
=============================================================================
