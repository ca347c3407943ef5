------------------------------ MODULE Transfer ------------------------------
(***************************************************************************)
(* What sending one operation promises, with no transactions, prices or    *)
(* retries: the money moves some number of times and the caller is told    *)
(* one outcome.  It is the contract that TransactionManager's callers rely *)
(* on: the executor runs the next operation of a chain on an Ok, and       *)
(* print_statistics reports the money as stuck with its sender on an Err.  *)
(*                                                                         *)
(* How much is promised depends on the network.  With one whose answers    *)
(* are neither lost nor late the money moves at most once, not at all if   *)
(* the outcome is a failure, and never after the outcome is known; with    *)
(* any other it may move once per attempt, whatever is reported.           *)
(***************************************************************************)
EXTENDS Naturals

CONSTANTS
  Attempts,   \* how often the operation may be tried
  Networks    \* the networks it may meet, see TxRetry

VARIABLES
  net,       \* the network; chosen once
  outcome,   \* "none", "ok" or "failed"
  moved      \* how often the money has moved

transferVars == <<net, outcome, moved>>

Prompt == ~net.loses /\ ~net.late

Init == net \in Networks /\ outcome = "none" /\ moved = 0

Move ==
  /\ moved < Attempts
  /\ Prompt => outcome = "none" /\ moved = 0
  /\ moved' = moved + 1
  /\ UNCHANGED <<net, outcome>>

Succeed ==
  /\ outcome = "none"
  /\ net.reverts \/ moved > 0
  /\ outcome' = "ok"
  /\ UNCHANGED <<net, moved>>

Fail ==
  /\ outcome = "none"
  /\ Prompt => moved = 0
  /\ outcome' = "failed"
  /\ UNCHANGED <<net, moved>>

Next == Move \/ Succeed \/ Fail

Spec == Init /\ [][Next]_transferVars
=============================================================================
