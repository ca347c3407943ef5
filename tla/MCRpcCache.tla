------------------------------ MODULE MCRpcCache ------------------------------
(* RpcCache with two callers.  Every method is in some workload, and each   *)
(* workload has more keys than the cache has entries.                       *)
EXTENDS RpcCache, TLC

MixedWorkloads ==
  {{GasPrice, Receipt, Code(0), Code(1)},
   {Transaction, BlockReceipts(0), Proof(0)},
   {RawTransaction, Logs(1), StorageAt(0)}}

Sym == Permutations(Callers)
=============================================================================
