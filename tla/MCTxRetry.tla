------------------------------ MODULE MCTxRetry ------------------------------
(* TxRetry with balances from nothing to enough for three funding           *)
(* operations, and a gas price that may double between two attempts.        *)
EXTENDS TxRetry

SomeBalances == {0, 2, 4, 7, 12, 16}

SomePrices == {1, 2}

(* Every network; those that never revert; and the ones that only revert.   *)
AllNetworks == [loses : BOOLEAN, late : BOOLEAN, reverts : BOOLEAN]

NeverReverting == {n \in AllNetworks : ~n.reverts}

OnlyReverting == {n \in AllNetworks : ~n.loses /\ ~n.late /\ n.reverts}
=============================================================================
