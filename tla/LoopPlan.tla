------------------------------ MODULE LoopPlan ------------------------------
(***************************************************************************)
(* calculate_addresses_per_loop (src/src/operations.rs) as the machine it  *)
(* is: a binary search for the least completion time, whose probes add up  *)
(* the capacity of the loops one by one, then the assignment.              *)
(*                                                                         *)
(* The i32 sums that can leave the type are wrapped to MaxInt as the       *)
(* release build that the README runs does (a debug build panics there).   *)
(* `capacity` is an i64 and never overflows: it is at most mid squared.    *)
(***************************************************************************)
EXTENDS PlanTree, SequencesExt

CONSTANTS
  MaxInt,     \* i32::MAX, scaled down
  Requests    \* the pairs <<total_new_addresses, max_total_loops>>

ASSUME RequestsAssumption ==
  /\ MaxInt \in Nat
  /\ \A r \in Requests : r \in Int \X Int /\ r[1] <= MaxInt /\ r[2] <= MaxInt

VARIABLES
  request,     \* the arguments; chosen once
  pc,
  left, right, \* the search range of the time
  mid,         \* the time being probed, later min_time
  i,           \* the loop being counted or filled
  capacity,
  remaining,   \* addresses not yet assigned
  result

vars == <<request, pc, left, right, mid, i, capacity, remaining, result>>

total == request[1]
loops == request[2]

(* Two's complement: at most one overflow of one addition.                 *)
Wrap(x) == IF x > MaxInt THEN x - 2 * (MaxInt + 1) ELSE x

(* Integer division of Rust truncates towards zero.                        *)
Half(x) == IF x >= 0 THEN x \div 2 ELSE -((-x) \div 2)

(* No sum of the search leaves the type.                                   *)
Fits == total > 0 /\ loops > 0 /\ 2 * (total + loops) <= MaxInt

-----------------------------------------------------------------------------
(* Mutated forms: loops that all start at once, probes that stop the search *)
(* early or never, and an assignment that ignores what is left.             *)
NoOffset(m, k) == m

NewLeftTooFar == Wrap(mid + 2)

NewLeftStuck == mid

AssignFull == left - i

-----------------------------------------------------------------------------
UpperBound == Wrap(total + loops)

(* What loop k can take when the whole must finish by time m.              *)
LoopCapacity(m, k) == m - k

(* The next bounds after a probe that was large enough, or was not.        *)
NewRight == mid
NewLeft == Wrap(mid + 1)

Assigned == Smaller(LoopCapacity(left, i), remaining)

MoreLoops == i < Smaller(loops, mid) /\ LoopCapacity(mid, i) > 0

Init ==
  /\ request \in Requests
  /\ pc = "start"
  /\ left = 0 /\ right = 0 /\ mid = 0 /\ i = 0 /\ capacity = 0 /\ remaining = 0
  /\ result = <<>>

(* The edge cases answer an empty vector.                                  *)
NothingToDo ==
  /\ pc = "start"
  /\ total <= 0 \/ loops <= 0
  /\ pc' = "done"
  /\ UNCHANGED <<request, left, right, mid, i, capacity, remaining, result>>

BeginSearch ==
  /\ pc = "start"
  /\ total > 0 /\ loops > 0
  /\ pc' = "search"
  /\ right' = UpperBound
  /\ UNCHANGED <<request, left, mid, i, capacity, remaining, result>>

Probe ==
  /\ pc = "search"
  /\ left < right
  /\ pc' = "capacity"
  /\ mid' = Half(Wrap(left + right))
  /\ i' = 0 /\ capacity' = 0
  /\ UNCHANGED <<request, left, right, remaining, result>>

AddLoop ==
  /\ pc = "capacity"
  /\ MoreLoops
  /\ capacity' = capacity + LoopCapacity(mid, i)
  /\ i' = i + 1
  /\ UNCHANGED <<request, pc, left, right, mid, remaining, result>>

Compare ==
  /\ pc = "capacity"
  /\ ~MoreLoops
  /\ pc' = "search"
  /\ \/ capacity >= total /\ right' = NewRight /\ UNCHANGED left
     \/ capacity < total /\ left' = NewLeft /\ UNCHANGED right
  /\ UNCHANGED <<request, mid, i, capacity, remaining, result>>

BeginAssign ==
  /\ pc = "search"
  /\ left >= right
  /\ pc' = "assign"
  /\ i' = 0
  /\ remaining' = total
  /\ UNCHANGED <<request, left, right, mid, capacity, result>>

Assign ==
  /\ pc = "assign"
  /\ i < loops /\ i < left
  /\ result' = Append(result, Assigned)
  /\ remaining' = remaining - Assigned
  /\ i' = i + 1
  /\ pc' = IF remaining' <= 0 THEN "done" ELSE "assign"
  /\ UNCHANGED <<request, left, right, mid, capacity>>

(* No loop left to fill.                                                   *)
Exhausted ==
  /\ pc = "assign"
  /\ ~(i < loops /\ i < left)
  /\ pc' = "done"
  /\ UNCHANGED <<request, left, right, mid, i, capacity, remaining, result>>

Done == pc = "done" /\ UNCHANGED vars

Next ==
  \/ NothingToDo \/ BeginSearch \/ Probe \/ AddLoop \/ Compare
  \/ BeginAssign \/ Assign \/ Exhausted \/ Done

Spec == Init /\ [][Next]_vars

FairSpec == Spec /\ WF_vars(Next)

-----------------------------------------------------------------------------
TypeOK ==
  /\ request \in Requests
  /\ pc \in {"start", "search", "capacity", "assign", "done"}
  /\ {left, right, mid} \subseteq -(MaxInt + 1)..MaxInt
  /\ i \in 0..MaxInt
  /\ capacity \in Nat
  /\ remaining \in 0..MaxInt
  /\ result \in Seq(1..MaxInt)

SumOf(s) == FoldFunction(+, 0, s)

(* No allocation is empty (the planner's "skip if the loop is empty" is     *)
(* dead code), there are at most max_total_loops of them, and together      *)
(* they never exceed the request.                                           *)
NeverOverAssigns ==
  /\ \A k \in DOMAIN result : result[k] > 0
  /\ Len(result) <= IF loops > 0 THEN loops ELSE 0
  /\ SumOf(result) <= IF total > 0 THEN total ELSE 0

(* While it searches, the least sufficient time lies in [left, right], and  *)
(* a probe has counted exactly what the first i loops can take.             *)
SearchBrackets ==
  /\ Fits /\ pc \in {"search", "capacity"} =>
       left <= MinTime(total, loops) /\ MinTime(total, loops) <= right
  /\ Fits /\ pc = "capacity" =>
       left <= mid /\ mid < right /\ capacity = Capacity(mid, i)

(* "Distributes total_new_addresses across up to max_total_loops loops".    *)
Distributes ==
  pc = "done" /\ total > 0 /\ loops > 0 => SumOf(result) = total

(* The time a distribution needs: loop k starts k - 1 steps late.           *)
CompletionTime(s) ==
  CHOOSE t \in 0..(total + loops) :
    /\ \A k \in DOMAIN s : s[k] > 0 => k - 1 + s[k] <= t
    /\ t = 0 \/ \E k \in DOMAIN s : s[k] > 0 /\ k - 1 + s[k] = t

(* "so that the overall completion time (funding offset + tasks per loop)   *)
(* is minimized": the result distributes the total, and no distribution of  *)
(* it over the loops completes earlier.                                     *)
MinimizesTime ==
  Fits /\ pc = "done" =>
    /\ SumOf(result) = total
    /\ \A s \in [1..loops -> 0..total] :
         SumOf(s) = total => CompletionTime(result) <= CompletionTime(s)

(* The machine computes the distribution that BalancedTree is built from.   *)
MatchesPlan == Fits /\ pc = "done" => result = AddressesPerLoop(total, loops)

(* The search and the assignment end.                                       *)
Terminates == Fits => <>(pc = "done")

=============================================================================
