--------------------------- MODULE LoopPlanProofs ---------------------------
(***************************************************************************)
(* calculate_addresses_per_loop for every total, every number of loops and *)
(* every integer width: nothing is assigned that is not there, whatever    *)
(* sum wraps, and where none does the binary search ends at the least time *)
(* and the assignment is the one BalancedTree is built from.               *)
(***************************************************************************)
EXTENDS LoopPlan, FoldFacts, TLAPS

(* Twice what the first u of the loops can take by time t.                  *)
Twice(t, u) == u * (2 * t - u + 1)

LEMMA SmallerFacts ==
  ASSUME NEW a \in Int, NEW b \in Int
  PROVE  /\ Smaller(a, b) \in Int /\ Smaller(a, b) <= a /\ Smaller(a, b) <= b
         /\ Smaller(a, b) = a \/ Smaller(a, b) = b
         /\ a \in Nat /\ b \in Nat => Smaller(a, b) \in Nat
  BY DEF Smaller

LEMMA CapacityFacts ==
  ASSUME NEW t \in Nat, NEW l \in Nat
  PROVE  /\ Capacity(t, l) = Twice(t, Smaller(l, t)) \div 2
         /\ Capacity(t, l) = Capacity(t, Smaller(l, t))
         /\ Twice(t, Smaller(l, t)) \in Int /\ Capacity(t, l) \in Int
<1>1. Smaller(Smaller(l, t), t) = Smaller(l, t) /\ Smaller(l, t) \in Nat
  BY DEF Smaller
<1>2. 2 * t - Smaller(l, t) + 1 \in Int
  BY <1>1
<1>3. Twice(t, Smaller(l, t)) \in Int
  BY <1>1, <1>2 DEF Twice
<1>4. Capacity(t, l) = Twice(t, Smaller(l, t)) \div 2
  BY DEF Capacity, Twice
<1>5. Capacity(t, Smaller(l, t)) = Twice(t, Smaller(l, t)) \div 2
  BY <1>1 DEF Capacity, Twice
<1> QED
  BY <1>3, <1>4, <1>5

(* One loop more adds what it can take.                                     *)
LEMMA TwiceNext ==
  ASSUME NEW t \in Int, NEW u \in Int
  PROVE  Twice(t, u + 1) = Twice(t, u) + 2 * (t - u)
  BY DEF Twice

LEMMA TwiceGrowsInLoops ==
  ASSUME NEW t \in Nat, NEW u \in Nat, NEW v \in Nat, u <= v, v <= t
  PROVE  Twice(t, u) <= Twice(t, v)
<1>1. Twice(t, v) - Twice(t, u) = (v - u) * (2 * t + 1 - v - u)
  BY DEF Twice
<1>2. v - u \in Nat /\ 2 * t + 1 - v - u \in Nat
  OBVIOUS
<1>3. \A a, b \in Nat : a * b \in Nat
  OBVIOUS
<1>4. Twice(t, v) \in Int /\ Twice(t, u) \in Int
  BY DEF Twice
<1> QED
  BY <1>1, <1>2, <1>3, <1>4

LEMMA TwiceGrowsInTime ==
  ASSUME NEW s \in Nat, NEW t \in Nat, NEW u \in Nat, s <= t
  PROVE  Twice(s, u) <= Twice(t, u)
<1>1. Twice(t, u) - Twice(s, u) = (2 * u) * (t - s)
  BY DEF Twice
<1>2. t - s \in Nat /\ 2 * u \in Nat
  OBVIOUS
<1>3. \A a, b \in Nat : a * b \in Nat
  OBVIOUS
<1>4. Twice(t, u) \in Int /\ Twice(s, u) \in Int
  BY DEF Twice
<1> QED
  BY <1>1, <1>2, <1>3, <1>4

(* More time, or more loops, never take less.                               *)
LEMMA CapacityGrows ==
  ASSUME NEW s \in Nat, NEW t \in Nat, NEW l \in Nat, s <= t
  PROVE  Capacity(s, l) <= Capacity(t, l)
<1> DEFINE u == Smaller(l, s)
           v == Smaller(l, t)
<1>1. u \in Nat /\ v \in Nat /\ u <= v /\ v <= t
  BY DEF Smaller
<1>2. Twice(s, u) <= Twice(t, u) /\ Twice(t, u) <= Twice(t, v)
  BY <1>1, TwiceGrowsInTime, TwiceGrowsInLoops
<1>3. Twice(s, u) \in Int /\ Twice(t, u) \in Int /\ Twice(t, v) \in Int
  BY <1>1 DEF Twice
<1>4. Twice(s, u) \div 2 <= Twice(t, v) \div 2
  BY <1>2, <1>3
<1> QED
  BY <1>4, CapacityFacts

LEMMA CapacityGrowsInLoops ==
  ASSUME NEW t \in Nat, NEW c \in Nat, NEW d \in Nat, c <= d
  PROVE  Capacity(t, c) <= Capacity(t, d)
<1> DEFINE u == Smaller(c, t)
           v == Smaller(d, t)
<1>1. u \in Nat /\ v \in Nat /\ u <= v /\ v <= t
  BY DEF Smaller
<1>2. Twice(t, u) <= Twice(t, v) /\ Twice(t, u) \in Int /\ Twice(t, v) \in Int
  BY <1>1, TwiceGrowsInLoops DEF Twice
<1>3. Twice(t, u) \div 2 <= Twice(t, v) \div 2
  BY <1>2
<1> QED
  BY <1>3, CapacityFacts

(* As many steps as tasks are enough.                                       *)
LEMMA TotalIsEnough ==
  ASSUME NEW n \in Nat, NEW l \in Nat, n > 0, l > 0
  PROVE  Capacity(n, l) >= n
<1> DEFINE u == Smaller(l, n)
<1>1. u \in Nat /\ u >= 1 /\ u <= n
  BY DEF Smaller
<1>2. Twice(n, 1) <= Twice(n, u) /\ Twice(n, u) \in Int
  BY <1>1, TwiceGrowsInLoops DEF Twice
<1>3. Twice(n, 1) = 2 * n
  BY DEF Twice
<1>4. Twice(n, u) \div 2 >= n
  BY <1>2, <1>3
<1> QED
  BY <1>4, CapacityFacts

(* The least sufficient time exists, and sufficient are the times from it   *)
(* on and no other.                                                         *)
LEMMA MinTimeFacts ==
  ASSUME NEW n \in Nat, NEW l \in Nat, n > 0, l > 0
  PROVE  /\ MinTime(n, l) \in 1..n
         /\ \A t \in Nat : Capacity(t, l) >= n <=> MinTime(n, l) <= t
<1> DEFINE S == {t \in 0..n : Capacity(t, l) >= n}
<1>1. PICK t \in S : \A s \in S : t <= s
  <2>1. n \in S /\ S \subseteq Nat
    BY TotalIsEnough
  <2> HIDE DEF S
  <2> QED
    BY <2>1, LeastNat
<1>2. \A s \in 0..(t - 1) : Capacity(s, l) < n
  <2>1. ASSUME NEW s \in 0..(t - 1) PROVE Capacity(s, l) < n
    <3>1. s \in 0..n /\ ~(t <= s)
      BY <1>1
    <3>2. ~(Capacity(s, l) >= n)
      BY <1>1, <3>1
    <3> QED
      BY <3>1, <3>2, CapacityFacts
  <2> QED
    BY <2>1
<1>3. /\ MinTime(n, l) \in 0..n /\ Capacity(MinTime(n, l), l) >= n
      /\ \A s \in 0..(MinTime(n, l) - 1) : Capacity(s, l) < n
  <2>1. \E m \in 0..n : Capacity(m, l) >= n /\ \A s \in 0..(m - 1) : Capacity(s, l) < n
    BY <1>1, <1>2
  <2> QED
    BY <2>1 DEF MinTime
<1>4. ASSUME NEW m \in Nat PROVE Capacity(m, l) >= n <=> MinTime(n, l) <= m
  <2>1. CASE MinTime(n, l) <= m
    <3>1. Capacity(MinTime(n, l), l) <= Capacity(m, l)
      BY <1>3, <2>1, CapacityGrows
    <3> QED
      BY <1>3, <2>1, <3>1, CapacityFacts
  <2>2. CASE ~(MinTime(n, l) <= m)
    <3>1. Capacity(m, l) < n
      BY <1>3, <2>2
    <3> QED
      BY <2>2, <3>1, CapacityFacts
  <2> QED
    BY <2>1, <2>2
<1>5. MinTime(n, l) # 0
  <2>1. Capacity(0, l) = 0
    BY DEF Capacity, Smaller
  <2> QED
    BY <1>4, <2>1
<1> QED
  BY <1>3, <1>4, <1>5

-----------------------------------------------------------------------------
(* Whatever sum wraps: probes are made only below a positive upper bound,   *)
(* and a loop is filled only while something is left.                       *)
TInv ==
  /\ TypeOK
  /\ pc = "start" => left = 0 /\ result = <<>>
  /\ pc \in {"search", "capacity", "assign"} => total > 0 /\ loops > 0
  /\ pc = "search" => right >= 1 \/ left >= right
  /\ pc = "capacity" => right >= 1 /\ (mid <= 0 => capacity = 0)
  /\ pc = "assign" => remaining >= 1

LEMMA RequestIsInt ==
  ASSUME TypeOK
  PROVE  /\ MaxInt \in Nat
         /\ total \in Int /\ total <= MaxInt /\ loops \in Int /\ loops <= MaxInt
         /\ left \in Int /\ right \in Int /\ mid \in Int
         /\ -(MaxInt + 1) <= left /\ left <= MaxInt
         /\ -(MaxInt + 1) <= right /\ right <= MaxInt
         /\ -(MaxInt + 1) <= mid /\ mid <= MaxInt
  BY RequestsAssumption DEF TypeOK, total, loops

LEMMA WrapFacts ==
  ASSUME MaxInt \in Nat, NEW x \in Int, -(MaxInt + 1) <= x, x <= 2 * MaxInt + 1
  PROVE  /\ Wrap(x) \in Int /\ -(MaxInt + 1) <= Wrap(x) /\ Wrap(x) <= MaxInt
         /\ x <= MaxInt => Wrap(x) = x
         /\ MaxInt < x => Wrap(x) < 0
  BY DEF Wrap

LEMMA HalfFacts ==
  ASSUME MaxInt \in Nat, NEW x \in Int, -(MaxInt + 1) <= x, x <= MaxInt
  PROVE  /\ Half(x) \in Int /\ -(MaxInt + 1) <= Half(x) /\ Half(x) <= MaxInt
         /\ x >= 0 => Half(x) = x \div 2
<1>1. CASE x >= 0
  BY <1>1 DEF Half
<1>2. CASE ~(x >= 0)
  <2>1. -x \in Nat /\ (-x) \div 2 \in Nat /\ (-x) \div 2 <= -x
    BY <1>2
  <2> QED
    BY <1>2, <2>1 DEF Half
<1> QED
  BY <1>1, <1>2

LEMMA TypeInit == Init => TInv
<1> SUFFICES ASSUME Init PROVE TInv
  OBVIOUS
<1> USE RequestsAssumption DEF Init
<1>1. {left, right, mid} \subseteq -(MaxInt + 1)..MaxInt
  OBVIOUS
<1>2. result \in Seq(1..MaxInt)
  OBVIOUS
<1> QED
  BY <1>1, <1>2 DEF TInv, TypeOK

LEMMA TypeStep == TInv /\ [Next]_vars => TInv'
<1> SUFFICES ASSUME TInv, [Next]_vars PROVE TInv'
  OBVIOUS
<1>a. TypeOK
  BY DEF TInv
<1>b. /\ MaxInt \in Nat
      /\ total \in Int /\ total <= MaxInt /\ loops \in Int /\ loops <= MaxInt
      /\ left \in Int /\ right \in Int /\ mid \in Int
      /\ -(MaxInt + 1) <= left /\ left <= MaxInt
      /\ -(MaxInt + 1) <= right /\ right <= MaxInt
      /\ -(MaxInt + 1) <= mid /\ mid <= MaxInt
  BY <1>a, RequestIsInt
<1>c. request' = request
  BY DEF Next, NothingToDo, BeginSearch, Probe, AddLoop, Compare, BeginAssign, Assign,
         Exhausted, Done, vars
<1>d. total' = total /\ loops' = loops
  BY <1>c DEF total, loops
<1>1. CASE NothingToDo
  BY <1>1, <1>a, <1>d DEF NothingToDo, TInv, TypeOK
<1>2. CASE BeginSearch
  <2>1. /\ UpperBound \in Int /\ -(MaxInt + 1) <= UpperBound /\ UpperBound <= MaxInt
        /\ UpperBound >= 1 \/ 0 >= UpperBound
    BY <1>2, <1>b, WrapFacts DEF BeginSearch, UpperBound
  <2>2. right' = UpperBound /\ left' = 0 /\ mid' = mid
    BY <1>2 DEF BeginSearch, TInv
  <2>3. ({left, right, mid} \subseteq -(MaxInt + 1)..MaxInt)'
    BY <2>1, <2>2, <1>b
  <2> QED
    BY <1>2, <1>a, <1>d, <2>1, <2>2, <2>3 DEF BeginSearch, TInv, TypeOK
<1>3. CASE Probe
  <2>1. right >= 1
    BY <1>3, <1>b DEF Probe, TInv
  <2>2. left + right \in Int /\ -(MaxInt + 1) <= left + right /\ left + right <= 2 * MaxInt + 1
    BY <1>b, <2>1
  <2>3. /\ Wrap(left + right) \in Int
        /\ -(MaxInt + 1) <= Wrap(left + right) /\ Wrap(left + right) <= MaxInt
    BY <1>b, <2>2, WrapFacts
  <2>4. mid' \in Int /\ -(MaxInt + 1) <= mid' /\ mid' <= MaxInt
    BY <1>3, <1>b, <2>3, HalfFacts DEF Probe
  <2>5. ({left, right, mid} \subseteq -(MaxInt + 1)..MaxInt)'
    BY <1>3, <1>b, <2>4 DEF Probe
  <2> QED
    BY <1>3, <1>a, <1>b, <1>d, <2>1, <2>5 DEF Probe, TInv, TypeOK
<1>4. CASE AddLoop
  <2>1. i \in Nat /\ i < Smaller(loops, mid) /\ Smaller(loops, mid) <= mid
    BY <1>4, <1>a, <1>b, SmallerFacts DEF AddLoop, MoreLoops, TypeOK
  <2>2. i' \in 0..MaxInt
    BY <1>4, <1>b, <2>1, SmallerFacts DEF AddLoop
  <2>3. capacity' \in Nat
    BY <1>4, <1>a, <1>b, <2>1 DEF AddLoop, MoreLoops, LoopCapacity, TypeOK
  <2>4. mid' = mid /\ mid >= 1
    BY <1>4, <1>b, <2>1, SmallerFacts DEF AddLoop
  <2> QED
    BY <1>4, <1>a, <1>b, <1>d, <2>2, <2>3, <2>4 DEF AddLoop, TInv, TypeOK
<1>5. CASE Compare
  <2>1. capacity >= total => mid >= 1
    BY <1>5, <1>b DEF Compare, TInv
  <2>2. /\ NewLeft \in Int /\ -(MaxInt + 1) <= NewLeft /\ NewLeft <= MaxInt
    BY <1>b, WrapFacts DEF NewLeft
  <2>3. ({left, right, mid} \subseteq -(MaxInt + 1)..MaxInt)'
    BY <1>5, <1>b, <2>2 DEF Compare, NewRight
  <2>4. right' >= 1
    BY <1>5, <1>b, <2>1 DEF Compare, NewRight, TInv
  <2> QED
    BY <1>5, <1>a, <1>d, <2>3, <2>4 DEF Compare, TInv, TypeOK
<1>6. CASE BeginAssign
  BY <1>6, <1>a, <1>b, <1>d DEF BeginAssign, TInv, TypeOK
<1>7. CASE Assign
  <2>1. i \in Nat /\ remaining \in 1..MaxInt /\ i < loops /\ i < left
    BY <1>7, <1>a DEF Assign, TInv, TypeOK
  <2>2. Assigned \in 1..MaxInt /\ remaining - Assigned \in 0..MaxInt
    BY <1>b, <2>1 DEF Assigned, LoopCapacity, Smaller
  <2>3. result' \in Seq(1..MaxInt)
    BY <1>7, <1>a, <2>2 DEF Assign, TypeOK
  <2>4. i' \in 0..MaxInt
    BY <1>7, <1>b, <2>1 DEF Assign
  <2>5. remaining' = remaining - Assigned
    BY <1>7 DEF Assign
  <2> QED
    BY <1>7, <1>a, <1>d, <2>2, <2>3, <2>4, <2>5 DEF Assign, TInv, TypeOK
<1>8. CASE Exhausted
  BY <1>8, <1>a, <1>d DEF Exhausted, TInv, TypeOK
<1>9. CASE Done \/ UNCHANGED vars
  BY <1>9, <1>d DEF Done, vars, TInv, TypeOK
<1> QED
  BY <1>1, <1>2, <1>3, <1>4, <1>5, <1>6, <1>7, <1>8, <1>9 DEF Next

(* Every sum the search leaves behind, wrapped or not, is an i32.           *)
THEOREM SumsInRange == Spec => []TypeOK
<1>1. TInv => TypeOK
  BY DEF TInv
<1> QED
  BY <1>1, TypeInit, TypeStep, PTL DEF Spec

-----------------------------------------------------------------------------
(* What the first i loops take, while a probe adds them up.                 *)
SInv ==
  Fits /\ pc \in {"start", "search", "capacity"} =>
    /\ pc = "start" => left = 0
    /\ pc # "start" => left \in Nat /\ right \in Nat /\ right <= total + loops
    /\ pc # "start" => left <= MinTime(total, loops) /\ MinTime(total, loops) <= right
    /\ pc = "capacity" =>
         /\ left <= mid /\ mid < right
         /\ i \in Nat /\ i <= Smaller(loops, mid)
         /\ capacity = Capacity(mid, i)

LEMMA CapacityNext ==
  ASSUME NEW t \in Nat, NEW k \in Nat, k < t
  PROVE  Capacity(t, k + 1) = Capacity(t, k) + (t - k)
<1>1. Smaller(k, t) = k /\ Smaller(k + 1, t) = k + 1
  BY DEF Smaller
<1>2. Capacity(t, k) = Twice(t, k) \div 2 /\ Capacity(t, k + 1) = Twice(t, k + 1) \div 2
  BY <1>1, CapacityFacts
<1>3. Twice(t, k + 1) = Twice(t, k) + 2 * (t - k) /\ Twice(t, k) \in Int
  BY <1>1, TwiceNext, CapacityFacts
<1>4. \A x, y \in Int : (x + 2 * y) \div 2 = x \div 2 + y
  OBVIOUS
<1> QED
  BY <1>2, <1>3, <1>4

LEMMA CapacityOfNone == ASSUME NEW t \in Nat PROVE Capacity(t, 0) = 0
  BY DEF Capacity, Smaller

LEMMA SearchStep == TInv /\ SInv /\ [Next]_vars => SInv'
<1> SUFFICES ASSUME TInv, SInv, [Next]_vars, Fits', pc' \in {"start", "search", "capacity"}
             PROVE  SInv'
  BY DEF SInv
<1>a. TypeOK
  BY DEF TInv
<1>b. /\ MaxInt \in Nat
      /\ total \in Int /\ total <= MaxInt /\ loops \in Int /\ loops <= MaxInt
      /\ left \in Int /\ right \in Int /\ mid \in Int
  BY <1>a, RequestIsInt
<1>c. request' = request
  BY DEF Next, NothingToDo, BeginSearch, Probe, AddLoop, Compare, BeginAssign, Assign,
         Exhausted, Done, vars
<1>d. total' = total /\ loops' = loops /\ MinTime(total, loops)' = MinTime(total, loops)
  BY <1>c DEF total, loops
<1>e. total \in Nat /\ loops \in Nat /\ total > 0 /\ loops > 0 /\ 2 * (total + loops) <= MaxInt
      /\ Fits
  BY <1>b, <1>d DEF Fits
<1>f. /\ MinTime(total, loops) \in 1..total
      /\ \A t \in Nat : Capacity(t, loops) >= total <=> MinTime(total, loops) <= t
  BY <1>e, MinTimeFacts
<1> DEFINE Least == MinTime(total, loops)
<1>2. CASE BeginSearch
  <2>1. right' = total + loops /\ left' = 0
    <3>1. Wrap(total + loops) = total + loops
      BY <1>b, <1>e DEF Wrap
    <3> QED
      BY <1>2, <1>e, <3>1 DEF BeginSearch, UpperBound, SInv
  <2> QED
    BY <1>2, <1>b, <1>d, <1>e, <1>f, <2>1 DEF BeginSearch, SInv
<1>3. CASE Probe
  <2>1. left \in Nat /\ right \in Nat /\ right <= total + loops /\ left < right
        /\ left <= Least /\ Least <= right
    BY <1>3, <1>e DEF Probe, SInv
  <2>2. mid' = (left + right) \div 2
    <3>1. left + right \in Nat /\ left + right <= MaxInt
      BY <1>b, <1>e, <2>1
    <3>2. Wrap(left + right) = left + right
      BY <1>b, <3>1 DEF Wrap
    <3> QED
      BY <1>3, <3>1, <3>2 DEF Probe, Half
  <2>3. mid' \in Nat /\ left <= mid' /\ mid' < right
    BY <2>1, <2>2
  <2>4. Capacity(mid', 0) = 0 /\ 0 <= Smaller(loops, mid')
    BY <1>e, <2>3, CapacityOfNone, SmallerFacts
  <2>5. i' = 0 /\ capacity' = 0 /\ left' = left /\ right' = right /\ pc' = "capacity"
    BY <1>3 DEF Probe
  <2>6. i' <= Smaller(loops', mid') /\ capacity' = Capacity(mid', i') /\ i' \in Nat
    BY <1>d, <2>4, <2>5
  <2>7. /\ left' \in Nat /\ right' \in Nat /\ right' <= total' + loops'
        /\ left' <= Least' /\ Least' <= right' /\ left' <= mid' /\ mid' < right'
    BY <1>d, <2>1, <2>3, <2>5
  <2> QED
    BY <2>5, <2>6, <2>7 DEF SInv
<1>4. CASE AddLoop
  <2>1. /\ left \in Nat /\ right \in Nat /\ right <= total + loops
        /\ left <= Least /\ Least <= right /\ left <= mid /\ mid < right
        /\ i \in Nat /\ i < Smaller(loops, mid) /\ capacity = Capacity(mid, i)
    BY <1>4, <1>e DEF AddLoop, MoreLoops, SInv
  <2>2. i < mid /\ mid \in Nat /\ i + 1 <= Smaller(loops, mid)
    BY <1>b, <1>e, <2>1 DEF Smaller
  <2>3. Capacity(mid, i + 1) = Capacity(mid, i) + (mid - i)
    BY <2>1, <2>2, CapacityNext
  <2>4. /\ i' = i + 1 /\ capacity' = capacity + (mid - i) /\ mid' = mid
        /\ left' = left /\ right' = right /\ pc' = "capacity"
    BY <1>4 DEF AddLoop, LoopCapacity
  <2>5. i' \in Nat /\ i' <= Smaller(loops', mid') /\ capacity' = Capacity(mid', i')
    BY <1>d, <2>1, <2>2, <2>3, <2>4
  <2>6. /\ left' \in Nat /\ right' \in Nat /\ right' <= total' + loops'
        /\ left' <= Least' /\ Least' <= right' /\ left' <= mid' /\ mid' < right'
    BY <1>d, <2>1, <2>4
  <2> QED
    BY <2>4, <2>5, <2>6 DEF SInv
<1>5. CASE Compare
  <2>1. /\ left \in Nat /\ right \in Nat /\ right <= total + loops
        /\ left <= Least /\ Least <= right /\ left <= mid /\ mid < right
        /\ i \in Nat /\ i <= Smaller(loops, mid) /\ capacity = Capacity(mid, i)
    BY <1>5, <1>e DEF Compare, SInv
  <2>2. mid \in Nat /\ mid + 1 <= MaxInt
    BY <1>b, <1>e, <2>1
  <2>3. i = Smaller(loops, mid)
    BY <1>5, <1>e, <2>1, <2>2
       DEF Smaller, Compare, MoreLoops, LoopCapacity
  <2>4. capacity = Capacity(mid, loops)
    BY <1>e, <2>1, <2>2, <2>3, CapacityFacts
  <2>5. capacity >= total <=> Least <= mid
    BY <1>f, <2>2, <2>4
  <2>6. NewLeft = mid + 1
    BY <1>b, <2>2 DEF NewLeft, Wrap
  <2>7. /\ left' \in Nat /\ right' \in Nat /\ right' <= total + loops
        /\ left' <= Least /\ Least <= right'
    BY <1>5, <1>b, <1>e, <1>f, <2>1, <2>2, <2>4, <2>5, <2>6, CapacityFacts
       DEF Compare, NewRight
  <2>8. pc' = "search"
    BY <1>5 DEF Compare
  <2> QED
    BY <1>d, <2>7, <2>8 DEF SInv
<1>6. CASE Done \/ UNCHANGED vars
  <2>1. /\ pc' = pc /\ left' = left /\ right' = right /\ mid' = mid /\ i' = i
        /\ capacity' = capacity
    BY <1>6 DEF Done, vars
  <2> QED
    BY <1>d, <1>e, <2>1 DEF SInv
<1>7. CASE NothingToDo \/ BeginAssign \/ Assign \/ Exhausted
  BY <1>7 DEF NothingToDo, BeginAssign, Assign, Exhausted
<1> QED
  BY <1>2, <1>3, <1>4, <1>5, <1>6, <1>7 DEF Next

LEMMA SearchInvariance == Spec => [](TInv /\ SInv)
<1>1. Init => SInv
  BY DEF Init, SInv
<1> QED
  BY <1>1, TypeInit, TypeStep, SearchStep, PTL DEF Spec

(* The binary search never loses the least sufficient time, and a probe has *)
(* counted what the loops it has seen can take.                             *)
THEOREM SearchSound == Spec => []SearchBrackets
<1>1. SInv => SearchBrackets
  BY DEF SInv, SearchBrackets
<1> QED
  BY <1>1, SearchInvariance, PTL

-----------------------------------------------------------------------------
(* What the first i loops were given, and that more is left to give.        *)
Given(n) ==
  LET least == MinTime(total, loops) IN
  [k \in 1..n |-> Smaller(least - k + 1, total - Capacity(least, k - 1))]

AInv ==
  /\ Fits /\ pc \in {"start", "search", "capacity"} => result = <<>>
  /\ Fits /\ pc = "assign" =>
       /\ left = MinTime(total, loops)
       /\ i \in Nat /\ i <= Smaller(loops, left)
       /\ remaining = total - Capacity(left, i) /\ remaining >= 1
       /\ result = Given(i)
  /\ MatchesPlan

(* The loops that are needed are those up to the first that leaves nothing. *)
LEMMA LastLoop ==
  ASSUME NEW n \in Nat, NEW l \in Nat, n > 0, l > 0,
         NEW c \in 1..Smaller(l, MinTime(n, l)),
         Capacity(MinTime(n, l), c) >= n, Capacity(MinTime(n, l), c - 1) < n
  PROVE  AddressesPerLoop(n, l) =
           [k \in 1..c |-> Smaller(MinTime(n, l) - k + 1,
                                   n - Capacity(MinTime(n, l), k - 1))]
<1> DEFINE least == MinTime(n, l)
           Enough(d) == /\ Capacity(least, d) >= n
                        /\ \A e \in 1..(d - 1) : Capacity(least, e) < n
<1>1. least \in Nat
  BY MinTimeFacts
<1>2. c \in Nat /\ c - 1 \in Nat
  BY <1>1 DEF Smaller
<1>3. Enough(c)
  <2>1. ASSUME NEW e \in 1..(c - 1) PROVE Capacity(least, e) < n
    <3>1. Capacity(least, e) <= Capacity(least, c - 1)
      BY <1>1, <1>2, CapacityGrowsInLoops
    <3>2. Capacity(least, e) \in Int /\ Capacity(least, c - 1) \in Int
      BY <1>1, <1>2, CapacityFacts
    <3> QED
      BY <3>1, <3>2
  <2> QED
    BY <2>1
<1>4. ASSUME NEW d \in 1..Smaller(l, least), Enough(d) PROVE d = c
  <2>1. d \in Nat /\ Capacity(least, d) \in Int /\ Capacity(least, c) \in Int
    BY <1>1, <1>2, CapacityFacts DEF Smaller
  <2>2. ~(d < c)
    <3>1. SUFFICES ASSUME d < c PROVE FALSE
      OBVIOUS
    <3>2. d \in 1..(c - 1)
      BY <1>2, <2>1, <3>1
    <3>3. Capacity(least, d) < n
      BY <1>3, <3>2
    <3> QED
      BY <1>4, <2>1, <3>3
  <2>3. ~(c < d)
    <3>1. SUFFICES ASSUME c < d PROVE FALSE
      OBVIOUS
    <3>2. c \in 1..(d - 1)
      BY <1>2, <2>1, <3>1
    <3>3. Capacity(least, c) < n
      BY <1>4, <3>2
    <3> QED
      BY <2>1, <3>3
  <2> QED
    BY <1>2, <2>1, <2>2, <2>3
<1>5. (CHOOSE d \in 1..Smaller(l, least) : Enough(d)) = c
  <2> HIDE DEF Enough, least
  <2> QED
    BY <1>3, <1>4
<1>6. ~(n <= 0 \/ l <= 0)
  OBVIOUS
<1>7. AddressesPerLoop(n, l) =
        [k \in 1..(CHOOSE d \in 1..Smaller(l, least) : Enough(d)) |->
           Smaller(least - k + 1, n - Capacity(least, k - 1))]
  BY <1>6, Zenon DEF AddressesPerLoop
<1> QED
  BY <1>5, <1>7

(* The last loop exists: the first that brings the loops up to the total.   *)
LEMMA LastLoopExists ==
  ASSUME NEW n \in Nat, NEW l \in Nat, n > 0, l > 0
  PROVE  \E c \in 1..Smaller(l, MinTime(n, l)) :
           Capacity(MinTime(n, l), c) >= n /\ Capacity(MinTime(n, l), c - 1) < n
<1> DEFINE least == MinTime(n, l)
           most == Smaller(l, least)
           S == {c \in 1..most : Capacity(least, c) >= n}
<1>1. least \in Nat /\ least >= 1 /\ Capacity(least, l) >= n
  BY MinTimeFacts
<1> HIDE DEF least
<1>2. most \in Nat /\ most >= 1 /\ Capacity(least, most) >= n
  BY <1>1, CapacityFacts DEF Smaller
<1> HIDE DEF most
<1>3. PICK c \in S : \A d \in S : c <= d
  <2>1. most \in S /\ S \subseteq Nat
    BY <1>2
  <2> HIDE DEF S
  <2> QED
    BY <2>1, LeastNat
<1>4. c \in 1..most /\ Capacity(least, c) >= n
  BY <1>3
<1>5. Capacity(least, c - 1) < n
  <2>1. CASE c = 1
    BY <1>1, <2>1, CapacityOfNone
  <2>2. CASE c # 1
    <3>1. c - 1 \in 1..most /\ c - 1 \notin S
      BY <1>2, <1>3, <1>4, <2>2
    <3>2. Capacity(least, c - 1) \in Int
      BY <1>1, <1>2, <3>1, CapacityFacts
    <3> QED
      BY <3>1, <3>2
  <2> QED
    BY <2>1, <2>2
<1> QED
  BY <1>4, <1>5 DEF most, least

(* The distribution that the trees are built from has no empty loop,        *)
(* whatever is asked for: it is one of the allocations that PlannerProofs   *)
(* and ProgramProofs speak of.                                              *)
THEOREM NoLoopIsEmpty == \A n, l \in Int : AddressesPerLoop(n, l) \in Seq(Nat \ {0})
<1> SUFFICES ASSUME NEW n \in Int, NEW l \in Int
             PROVE  AddressesPerLoop(n, l) \in Seq(Nat \ {0})
  OBVIOUS
<1>1. CASE n <= 0 \/ l <= 0
  BY <1>1 DEF AddressesPerLoop
<1>2. CASE n > 0 /\ l > 0
  <2> DEFINE least == MinTime(n, l)
             part(k) == Smaller(least - k + 1, n - Capacity(least, k - 1))
  <2>1. n \in Nat /\ l \in Nat
    BY <1>2
  <2>2. PICK c \in 1..Smaller(l, least) : Capacity(least, c) >= n /\ Capacity(least, c - 1) < n
    BY <1>2, <2>1, LastLoopExists
  <2>3. AddressesPerLoop(n, l) = [k \in 1..c |-> part(k)]
    BY <1>2, <2>1, <2>2, LastLoop
  <2>4. least \in Nat
    BY <1>2, <2>1, MinTimeFacts
  <2> HIDE DEF least
  <2>5. c \in Nat /\ c >= 1 /\ c <= least
    BY <2>1, <2>2, <2>4 DEF Smaller
  <2>6. ASSUME NEW k \in 1..c PROVE part(k) \in Nat \ {0}
    <3>1. k - 1 \in Nat /\ c - 1 \in Nat /\ k - 1 <= c - 1
      BY <2>5
    <3>2. Capacity(least, k - 1) <= Capacity(least, c - 1)
      BY <2>4, <3>1, CapacityGrowsInLoops
    <3>3. Capacity(least, k - 1) \in Int /\ Capacity(least, c - 1) \in Int
      BY <2>4, <3>1, CapacityFacts
    <3>4. least - k + 1 \in Int /\ least - k + 1 >= 1
      BY <2>4, <2>5
    <3>5. n - Capacity(least, k - 1) \in Int /\ n - Capacity(least, k - 1) >= 1
      BY <2>1, <2>2, <3>2, <3>3
    <3> QED
      BY <3>4, <3>5 DEF Smaller
  <2> HIDE DEF part
  <2> QED
    BY <2>3, <2>5, <2>6
<1> QED
  BY <1>1, <1>2

LEMMA AssignStep == TInv /\ SInv /\ AInv /\ [Next]_vars => AInv'
<1> SUFFICES ASSUME TInv, SInv, AInv, [Next]_vars, Fits'
             PROVE  AInv'
  BY DEF AInv, MatchesPlan
<1>a. TypeOK
  BY DEF TInv
<1>b. /\ MaxInt \in Nat
      /\ total \in Int /\ total <= MaxInt /\ loops \in Int /\ loops <= MaxInt
      /\ left \in Int /\ right \in Int /\ mid \in Int
  BY <1>a, RequestIsInt
<1>c. request' = request
  BY DEF Next, NothingToDo, BeginSearch, Probe, AddLoop, Compare, BeginAssign, Assign,
         Exhausted, Done, vars
<1>d. /\ total' = total /\ loops' = loops /\ MinTime(total, loops)' = MinTime(total, loops)
      /\ AddressesPerLoop(total, loops)' = AddressesPerLoop(total, loops)
      /\ Given(i)' = Given(i')
  BY <1>c DEF total, loops, Given
<1>e. total \in Nat /\ loops \in Nat /\ total > 0 /\ loops > 0 /\ Fits
  BY <1>b, <1>d DEF Fits
<1>f. /\ MinTime(total, loops) \in 1..total
      /\ \A t \in Nat : Capacity(t, loops) >= total <=> MinTime(total, loops) <= t
  BY <1>e, MinTimeFacts
<1> DEFINE Least == MinTime(total, loops)
<1>g. Least \in Nat /\ Least >= 1
  BY <1>f
<1>1. CASE NothingToDo
  BY <1>1, <1>e DEF NothingToDo
<1>2. CASE BeginSearch \/ Probe \/ AddLoop \/ Compare
  BY <1>2, <1>d, <1>e DEF BeginSearch, Probe, AddLoop, Compare, AInv, MatchesPlan
<1>3. CASE BeginAssign
  <2>1. left = Least
    BY <1>3, <1>b, <1>e, <1>g DEF BeginAssign, SInv
  <2>2. /\ pc' = "assign" /\ left' = left /\ i' = 0 /\ remaining' = total
        /\ result' = result /\ result = <<>>
    BY <1>3, <1>e DEF BeginAssign, AInv
  <2>3. Capacity(Least, 0) = 0 /\ 0 <= Smaller(loops, Least)
    BY <1>e, <1>g, CapacityOfNone DEF Smaller
  <2>4. Given(0) = <<>>
    BY DEF Given
  <2>5. left' = Least' /\ i' \in Nat /\ i' <= Smaller(loops', left')
    BY <1>d, <2>1, <2>2, <2>3
  <2>6. remaining' = total' - Capacity(left', i') /\ remaining' >= 1
    BY <1>d, <1>e, <2>1, <2>2, <2>3
  <2>7. result' = Given(i)'
    BY <1>d, <2>2, <2>4
  <2> QED
    BY <2>2, <2>5, <2>6, <2>7 DEF AInv, MatchesPlan
<1>4. CASE Assign
  <2>1. /\ left = Least /\ i \in Nat /\ i <= Smaller(loops, left)
        /\ remaining = total - Capacity(Least, i) /\ remaining >= 1
        /\ result = Given(i)
    BY <1>4, <1>e DEF Assign, AInv
  <2>2. i < loops /\ i < Least /\ i + 1 \in 1..Smaller(loops, Least) /\ i + 1 \in Nat
    BY <1>4, <1>e, <1>g, <2>1 DEF Assign, Smaller
  <2>3. /\ Capacity(Least, i + 1) = Capacity(Least, i) + (Least - i)
        /\ Capacity(Least, i) \in Int
    BY <1>g, <2>1, <2>2, CapacityNext, CapacityFacts
  <2>4. Assigned = Smaller(Least - (i + 1) + 1, total - Capacity(Least, (i + 1) - 1))
    <3>1. Least - (i + 1) + 1 = Least - i /\ (i + 1) - 1 = i
      BY <1>g, <2>1
    <3> QED
      BY <2>1, <3>1 DEF Assigned, LoopCapacity
  <2>5. result' = Given(i + 1)
    <3>1. result' = Append(Given(i), Assigned)
      BY <1>4, <2>1 DEF Assign
    <3>2. Append(Given(i), Assigned) = Given(i + 1)
      <4> DEFINE g(k) == Smaller(Least - k + 1, total - Capacity(Least, k - 1))
      <4>1. Given(i) = [k \in 1..i |-> g(k)] /\ Given(i + 1) = [k \in 1..(i + 1) |-> g(k)]
        BY DEF Given
      <4>2. Assigned = g(i + 1)
        BY <2>4
      <4> HIDE DEF g
      <4>3. Append([k \in 1..i |-> g(k)], g(i + 1)) = [k \in 1..(i + 1) |-> g(k)]
        BY <2>1
      <4> QED
        BY <4>1, <4>2, <4>3
    <3> QED
      BY <3>1, <3>2
  <2>6. /\ left' = left /\ i' = i + 1 /\ remaining' = remaining - Assigned
        /\ pc' = IF remaining' <= 0 THEN "done" ELSE "assign"
    BY <1>4 DEF Assign
  <2>7. Assigned \in Int /\ Assigned = Smaller(Least - i, remaining)
    BY <1>b, <1>g, <2>1, <2>3 DEF Assigned, LoopCapacity, Smaller
  <2>8. CASE remaining' <= 0
    <3>1. Capacity(Least, i + 1) >= total /\ Capacity(Least, (i + 1) - 1) < total
      <4>1. remaining <= Least - i
        BY <1>e, <1>g, <2>1, <2>3, <2>6, <2>7, <2>8 DEF Smaller
      <4> QED
        BY <1>e, <1>g, <2>1, <2>3, <4>1
    <3>2. AddressesPerLoop(total, loops) = Given(i + 1)
      BY <1>e, <2>2, <3>1, LastLoop DEF Given
    <3> QED
      BY <1>d, <2>5, <2>6, <2>8, <3>2 DEF AInv, MatchesPlan
  <2>9. CASE ~(remaining' <= 0)
    <3>1. remaining' \in Int /\ remaining' >= 1
      BY <1>e, <2>1, <2>3, <2>6, <2>7, <2>9
    <3>2. remaining' = total - Capacity(Least, i + 1)
      BY <1>e, <1>g, <2>1, <2>3, <2>6, <2>7, <2>9 DEF Smaller
    <3>3. i' \in Nat /\ i' <= Smaller(loops', left') /\ left' = Least'
      BY <1>d, <2>1, <2>2, <2>6
    <3>4. remaining' = total' - Capacity(left', i') /\ result' = Given(i)'
      BY <1>d, <2>1, <2>5, <2>6, <3>2
    <3> QED
      BY <2>6, <2>9, <3>1, <3>3, <3>4 DEF AInv, MatchesPlan
  <2> QED
    BY <2>8, <2>9
<1>5. CASE Exhausted
  <2>1. /\ left = Least /\ i \in Nat /\ i <= Smaller(loops, Least)
        /\ remaining = total - Capacity(Least, i) /\ remaining >= 1
    BY <1>5, <1>e DEF Exhausted, AInv
  <2>2. i = Smaller(loops, Least)
    BY <1>5, <1>e, <1>g, <2>1 DEF Exhausted, Smaller
  <2>3. Capacity(Least, i) = Capacity(Least, loops) /\ Capacity(Least, i) \in Int
    BY <1>e, <1>g, <2>1, <2>2, CapacityFacts
  <2>4. Capacity(Least, loops) >= total
    BY <1>f, <1>g
  <2> QED
    BY <1>e, <2>1, <2>3, <2>4
<1>6. CASE Done \/ UNCHANGED vars
  <2>1. /\ pc' = pc /\ left' = left /\ i' = i /\ remaining' = remaining
        /\ result' = result
    BY <1>6 DEF Done, vars
  <2> QED
    BY <1>d, <1>e, <2>1 DEF AInv, MatchesPlan
<1> QED
  BY <1>1, <1>2, <1>3, <1>4, <1>5, <1>6 DEF Next

(* The search and the assignment compute the distribution the trees are     *)
(* built from, for every request no sum of the search overflows on.         *)
THEOREM ComputesPlan == Spec => []MatchesPlan
<1>1. Init => AInv
  BY DEF Init, AInv, MatchesPlan
<1>2. AInv => MatchesPlan
  BY DEF AInv
<1> QED
  BY <1>1, <1>2, SearchInvariance, AssignStep, PTL DEF Spec

-----------------------------------------------------------------------------
(* The sum of what the loops were given, one more loop at a time.           *)
LEMMA SumOfNone == SumOf(<<>>) = 0
<1>1. SumOf(<<>>) = SumFunctionOnSet(<<>>, DOMAIN <<>>)
  BY DEF SumOf, FoldFunction, SumFunctionOnSet
<1> QED
  BY <1>1, SumNone

LEMMA SumOfFacts ==
  ASSUME NEW s \in Seq(Int)
  PROVE  /\ SumOf(s) \in Int
         /\ \A x \in Int : SumOf(Append(s, x)) = SumOf(s) + x
<1>1. \A t : SumOf(t) = SumFunctionOnSet(t, DOMAIN t)
  BY DEF SumOf, FoldFunction, SumFunctionOnSet
<1>2. DOMAIN s = 1..Len(s) /\ Len(s) \in Nat /\ \A k \in 1..Len(s) : s[k] \in Int
  OBVIOUS
<1>3. IsFiniteSet(1..Len(s)) /\ Ints(s, 1..Len(s))
  BY <1>2, FS_Interval DEF Ints
<1>4. SumOf(s) \in Int
  BY <1>1, <1>2, <1>3, SumType
<1>5. ASSUME NEW x \in Int PROVE SumOf(Append(s, x)) = SumOf(s) + x
  <2> DEFINE a == Append(s, x)
             n == Len(s) + 1
  <2>1. /\ DOMAIN a = (1..Len(s)) \cup {n} /\ n \notin 1..Len(s)
        /\ a[n] = x /\ \A k \in 1..Len(s) : a[k] = s[k]
    BY <1>2
  <2> HIDE DEF a, n
  <2>2. Ints(a, (1..Len(s)) \cup {n})
    BY <1>2, <2>1 DEF Ints
  <2>3. SumFunctionOnSet(a, DOMAIN a) = SumFunctionOnSet(a, 1..Len(s)) + x
    BY <1>3, <2>1, <2>2, SumAdd
  <2>4. SumFunctionOnSet(s, 1..Len(s)) = SumFunctionOnSet(a, 1..Len(s))
    BY <1>3, <2>1, SumSame
  <2> QED
    BY <1>1, <1>2, <2>3, <2>4 DEF a
<1> QED
  BY <1>4, <1>5

(* What has been given and what remains make the total, whatever sum wraps. *)
NInv ==
  /\ pc \in {"start", "search", "capacity"} => result = <<>>
  /\ pc = "assign" =>
       /\ Len(result) = i /\ i <= loops
       /\ SumOf(result) = total - remaining
       /\ \A k \in DOMAIN result : k - 1 + result[k] <= left
  /\ NeverOverAssigns

LEMMA AssignedFacts ==
  ASSUME TypeOK, pc = "assign", i < left, remaining >= 1
  PROVE  Assigned \in Int /\ 1 <= Assigned /\ Assigned <= remaining /\ Assigned <= left - i
<1>1. left \in Int /\ i \in Int /\ remaining \in Int
  BY RequestIsInt DEF TypeOK
<1> QED
  BY <1>1 DEF Assigned, LoopCapacity, Smaller

LEMMA OverStep == TInv /\ NInv /\ [Next]_vars => NInv'
<1> SUFFICES ASSUME TInv, NInv, [Next]_vars PROVE NInv'
  OBVIOUS
<1>a. TypeOK
  BY DEF TInv
<1>b. total \in Int /\ loops \in Int /\ left \in Int /\ i \in Nat /\ remaining \in Int
      /\ result \in Seq(Int) /\ \A k \in DOMAIN result : result[k] \in Int
  BY <1>a, RequestIsInt DEF TypeOK
<1>c. request' = request
  BY DEF Next, NothingToDo, BeginSearch, Probe, AddLoop, Compare, BeginAssign, Assign,
         Exhausted, Done, vars
<1>d. total' = total /\ loops' = loops
  BY <1>c DEF total, loops
<1>1. CASE ~BeginAssign /\ ~Assign
  <2>1. /\ result' = result /\ i' \in Nat
        /\ pc' \in {"start", "search", "capacity"} => pc \in {"start", "search", "capacity"}
        /\ pc' = "assign" => pc = "assign" /\ UNCHANGED <<i, left, remaining>>
    BY <1>1, <1>b DEF Next, NothingToDo, BeginSearch, Probe, AddLoop, Compare, Exhausted, Done, vars
  <2>2. SumOf(result)' = SumOf(result)
    BY <2>1
  <2> QED
    BY <1>d, <2>1, <2>2 DEF NInv, NeverOverAssigns
<1>2. CASE BeginAssign
  <2>1. total > 0 /\ loops > 0 /\ result = <<>> /\ result' = <<>> /\ i' = 0 /\ pc' = "assign"
        /\ remaining' = total
    BY <1>2 DEF BeginAssign, TInv, NInv
  <2>2. SumOf(result') = 0
    BY <2>1, SumOfNone
  <2> QED
    BY <1>b, <1>d, <2>1, <2>2 DEF NInv, NeverOverAssigns
<1>3. CASE Assign
  <2>1. /\ pc = "assign" /\ i < loops /\ i < left /\ remaining >= 1 /\ total > 0 /\ loops > 0
        /\ result' = Append(result, Assigned) /\ remaining' = remaining - Assigned /\ i' = i + 1
        /\ left' = left /\ pc' \in {"assign", "done"}
    BY <1>3 DEF Assign, TInv
  <2>2. Assigned \in Int /\ 1 <= Assigned /\ Assigned <= remaining /\ Assigned <= left - i
    BY <1>a, <2>1, AssignedFacts
  <2>3. Len(result) = i /\ SumOf(result) = total - remaining
        /\ \A k \in DOMAIN result : result[k] > 0 /\ k - 1 + result[k] <= left
    BY <2>1 DEF NInv, NeverOverAssigns
  <2>4. SumOf(result') = total - remaining'
    <3>1. SumOf(result') = SumOf(result) + Assigned
      BY <1>b, <2>1, <2>2, SumOfFacts
    <3> QED
      BY <1>b, <2>1, <2>2, <2>3, <3>1
  <2>5. \A k \in DOMAIN result' : result'[k] > 0 /\ k - 1 + result'[k] <= left
    <3>1. DOMAIN result' = 1..(i + 1) /\ DOMAIN result = 1..i
      BY <1>b, <2>1, <2>2, <2>3
    <3>2. \A k \in 1..i : result'[k] = result[k]
      BY <1>b, <2>1, <2>2, <2>3
    <3>3. result'[i + 1] = Assigned
      BY <1>b, <2>1, <2>2, <2>3
    <3>4. i + 1 - 1 + Assigned <= left
      BY <1>b, <2>2
    <3> HIDE DEF Assigned
    <3> QED
      BY <1>b, <2>2, <2>3, <3>1, <3>2, <3>3, <3>4
  <2>6. Len(result') = i + 1 /\ i + 1 <= loops
    BY <1>b, <2>1, <2>2, <2>3
  <2>7. SumOf(result') <= total
    BY <1>b, <2>1, <2>2, <2>4
  <2> QED
    BY <1>d, <2>1, <2>4, <2>5, <2>6, <2>7 DEF NInv, NeverOverAssigns
<1> QED
  BY <1>1, <1>2, <1>3

LEMMA OverInvariance == Spec => [](TInv /\ NInv)
<1>1. Init => NInv
  <2> SUFFICES ASSUME Init PROVE NInv
    OBVIOUS
  <2>1. total \in Int /\ loops \in Int
    BY RequestsAssumption DEF Init, total, loops
  <2>2. result = <<>> /\ pc = "start" /\ SumOf(<<>>) = 0
    BY SumOfNone DEF Init
  <2> QED
    BY <2>1, <2>2 DEF NInv, NeverOverAssigns
<1> QED
  BY <1>1, TypeInit, TypeStep, OverStep, PTL DEF Spec

(* Whatever sum wraps, no loop is empty, there are no more than allowed and *)
(* together they never exceed the request.                                  *)
THEOREM NothingOverAssigned == Spec => []NeverOverAssigns
<1>1. NInv => NeverOverAssigns
  BY DEF NInv
<1> QED
  BY <1>1, OverInvariance, PTL

-----------------------------------------------------------------------------
(* The completion time of a distribution is that of its last loop to end.   *)
LEMMA CompletionFacts ==
  ASSUME total \in Nat, loops \in Nat, NEW n \in Nat, n <= loops,
         NEW s \in [1..n -> 0..total]
  PROVE  /\ CompletionTime(s) \in 0..(total + loops)
         /\ \A k \in 1..n : s[k] > 0 => k - 1 + s[k] <= CompletionTime(s)
         /\ CompletionTime(s) = 0
            \/ \E k \in 1..n : s[k] > 0 /\ k - 1 + s[k] = CompletionTime(s)
<1> DEFINE Busy == {k \in 1..n : s[k] > 0}
           Ends == {k - 1 + s[k] : k \in Busy}
           Latest(t) == /\ \A k \in DOMAIN s : s[k] > 0 => k - 1 + s[k] <= t
                        /\ t = 0 \/ \E k \in DOMAIN s : s[k] > 0 /\ k - 1 + s[k] = t
<1>1. DOMAIN s = 1..n /\ \A k \in 1..n : s[k] \in 0..total /\ k - 1 + s[k] \in 0..(total + loops)
  OBVIOUS
<1>2. IsFiniteSet(Ends)
  <2>1. Ends \subseteq 0..(total + loops)
    BY <1>1
  <2>2. IsFiniteSet(0..(total + loops))
    BY FS_Interval
  <2> HIDE DEF Ends
  <2> QED
    BY <2>1, <2>2, FS_Subset
<1>3. \E t \in 0..(total + loops) : Latest(t)
  <2>1. CASE Busy = {}
    <3>1. Latest(0)
      BY <1>1, <2>1
    <3>2. 0 \in 0..(total + loops)
      OBVIOUS
    <3> QED
      BY <3>1, <3>2
  <2>2. CASE Busy # {}
    <3>1. Ends # {} /\ Ends \subseteq Int
      BY <1>1, <2>2
    <3>2. Max(Ends) \in Ends /\ \A e \in Ends : e <= Max(Ends)
      <4> HIDE DEF Ends
      <4> QED
        BY <1>2, <3>1, Extremes
    <3>3. PICK k \in Busy : Max(Ends) = k - 1 + s[k]
      BY <3>2
    <3>4. Latest(Max(Ends)) /\ Max(Ends) \in 0..(total + loops)
      BY <1>1, <3>2, <3>3
    <3> QED
      BY <3>4
  <2> QED
    BY <2>1, <2>2
<1>4. CompletionTime(s) = CHOOSE t \in 0..(total + loops) : Latest(t)
  BY DEF CompletionTime
<1>5. CompletionTime(s) \in 0..(total + loops) /\ Latest(CompletionTime(s))
  <2> HIDE DEF Latest
  <2> QED
    BY <1>3, <1>4
<1> QED
  BY <1>1, <1>5

(* What ends by time t is no more than the capacity at t.                   *)
LEMMA NoMoreThanCapacity ==
  ASSUME NEW t \in Nat, NEW l \in Nat, NEW s, Ints(s, 1..l),
         \A k \in 1..l : s[k] > 0 => k - 1 + s[k] <= t
  PROVE  SumFunctionOnSet(s, 1..l) <= Capacity(t, l)
<1> DEFINE Upto == {n \in Nat : n <= l => SumFunctionOnSet(s, 1..n) <= Capacity(t, n)}
<1>1. 0 \in Upto
  <2>1. 1..0 = {}
    OBVIOUS
  <2> QED
    BY <2>1, SumNone, CapacityOfNone
<1>2. ASSUME NEW n \in Nat, n \in Upto PROVE n + 1 \in Upto
  <2> SUFFICES ASSUME n + 1 <= l
               PROVE  SumFunctionOnSet(s, 1..(n + 1)) <= Capacity(t, n + 1)
    OBVIOUS
  <2>1. SumFunctionOnSet(s, 1..n) <= Capacity(t, n)
    BY <1>2
  <2>2. /\ 1..(n + 1) = (1..n) \cup {n + 1} /\ n + 1 \notin 1..n /\ IsFiniteSet(1..n)
        /\ Ints(s, 1..n) /\ Ints(s, (1..n) \cup {n + 1}) /\ s[n + 1] \in Int
    <3>1. 1..(n + 1) = (1..n) \cup {n + 1} /\ n + 1 \notin 1..n
      OBVIOUS
    <3>2. IsFiniteSet(1..n)
      BY FS_Interval
    <3>3. \A k \in 1..(n + 1) : k \in 1..l
      OBVIOUS
    <3>4. \A k \in 1..(n + 1) : s[k] \in Int
      BY <3>3 DEF Ints
    <3> QED
      BY <3>1, <3>2, <3>4 DEF Ints
  <2> HIDE DEF Upto
  <2>3. SumFunctionOnSet(s, 1..(n + 1)) = SumFunctionOnSet(s, 1..n) + s[n + 1]
    <3>1. SumFunctionOnSet(s, (1..n) \cup {n + 1}) = SumFunctionOnSet(s, 1..n) + s[n + 1]
      <4> DEFINE D == 1..n
                 x == n + 1
      <4>1. IsFiniteSet(D) /\ x \notin D /\ Ints(s, D \cup {x})
        BY <2>2
      <4> HIDE DEF D, x
      <4>2. SumFunctionOnSet(s, D \cup {x}) = SumFunctionOnSet(s, D) + s[x]
        BY <4>1, SumAdd
      <4> QED
        BY <4>2 DEF D, x
    <3> QED
      BY <2>2, <3>1
  <2>4. SumFunctionOnSet(s, 1..n) \in Int
    BY <2>2, SumType
  <2>5. Capacity(t, n) \in Int /\ Capacity(t, n + 1) \in Int
    <3>1. \A m \in Nat : Capacity(t, m) \in Int
      BY CapacityFacts
    <3> QED
      BY <3>1
  <2>6. s[n + 1] > 0 => n + s[n + 1] <= t
    BY <2>2
  <2>7. CASE n < t
    <3>1. Capacity(t, n + 1) = Capacity(t, n) + (t - n)
      BY <2>7, CapacityNext
    <3> QED
      BY <2>1, <2>2, <2>3, <2>4, <2>5, <2>6, <2>7, <3>1
  <2>8. CASE ~(n < t)
    <3>1. Capacity(t, n) <= Capacity(t, n + 1)
      BY CapacityGrowsInLoops
    <3> QED
      BY <2>1, <2>2, <2>3, <2>4, <2>5, <2>6, <2>8, <3>1
  <2> QED
    BY <2>7, <2>8
<1>3. Nat \subseteq Upto
  <2> HIDE DEF Upto
  <2> QED
    BY <1>1, <1>2, NatSetInduction
<1> QED
  BY <1>3

(* The assignment gives everything away, and no loop ends after the least   *)
(* sufficient time.                                                         *)
DInv ==
  Fits /\ pc = "done" =>
    /\ SumOf(result) = total
    /\ \A k \in DOMAIN result : k - 1 + result[k] <= MinTime(total, loops)

LEMMA DistributeStep == TInv /\ SInv /\ AInv /\ NInv /\ DInv /\ [Next]_vars => DInv'
<1> SUFFICES ASSUME TInv, SInv, AInv, NInv, DInv, [Next]_vars, Fits', pc' = "done" PROVE DInv'
  BY DEF DInv
<1>a. TypeOK
  BY DEF TInv
<1>b. /\ total \in Int /\ loops \in Int /\ left \in Int /\ i \in Nat /\ remaining \in Int
      /\ result \in Seq(Int)
  BY <1>a, RequestIsInt DEF TypeOK
<1>c. request' = request
  BY DEF Next, NothingToDo, BeginSearch, Probe, AddLoop, Compare, BeginAssign, Assign,
         Exhausted, Done, vars
<1>d. total' = total /\ loops' = loops /\ MinTime(total, loops)' = MinTime(total, loops)
  BY <1>c DEF total, loops
<1>e. Fits /\ total \in Nat /\ loops \in Nat /\ total > 0 /\ loops > 0
  BY <1>b, <1>d DEF Fits
<1>1. CASE Assign
  <2>1. /\ pc = "assign" /\ i < left /\ remaining >= 1 /\ result' = Append(result, Assigned)
        /\ remaining' = remaining - Assigned /\ remaining' <= 0
    BY <1>1 DEF Assign, TInv
  <2>2. Assigned \in Int /\ 1 <= Assigned /\ Assigned <= remaining /\ Assigned <= left - i
    BY <1>a, <2>1, AssignedFacts
  <2>3. Len(result) = i /\ SumOf(result) = total - remaining
        /\ (\A k \in DOMAIN result : k - 1 + result[k] <= left)
        /\ left = MinTime(total, loops)
    BY <1>e, <2>1 DEF NInv, AInv
  <2>4. SumOf(result') = total
    <3>1. SumOf(result') = SumOf(result) + Assigned
      BY <1>b, <2>1, <2>2, SumOfFacts
    <3> QED
      BY <1>b, <2>1, <2>2, <2>3, <3>1
  <2>5. \A k \in DOMAIN result' : k - 1 + result'[k] <= left
    <3>1. DOMAIN result' = 1..(i + 1) /\ DOMAIN result = 1..i
      BY <1>b, <2>1, <2>2, <2>3
    <3>2. \A k \in 1..i : result'[k] = result[k]
      BY <1>b, <2>1, <2>2, <2>3
    <3>3. result'[i + 1] = Assigned
      BY <1>b, <2>1, <2>2, <2>3
    <3>4. i + 1 - 1 + Assigned <= left
      BY <1>b, <2>2
    <3> HIDE DEF Assigned
    <3> QED
      BY <1>b, <2>2, <2>3, <3>1, <3>2, <3>3, <3>4
  <2> QED
    BY <1>d, <2>3, <2>4, <2>5 DEF DInv
<1>2. CASE Exhausted
  <2> DEFINE Least == MinTime(total, loops)
  <2>1. /\ left = Least /\ i \in Nat /\ i <= Smaller(loops, Least)
        /\ remaining = total - Capacity(Least, i) /\ remaining >= 1
    BY <1>2, <1>e DEF Exhausted, AInv
  <2>2. /\ Least \in Nat
        /\ Capacity(Least, loops) >= total
    BY <1>e, MinTimeFacts
  <2>3. i = Smaller(loops, Least)
    BY <1>2, <1>e, <2>1, <2>2 DEF Exhausted, Smaller
  <2>4. Capacity(Least, i) = Capacity(Least, loops) /\ Capacity(Least, i) \in Int
    BY <1>e, <2>1, <2>2, <2>3, CapacityFacts
  <2> QED
    BY <1>e, <2>1, <2>2, <2>4
<1>3. CASE NothingToDo
  BY <1>3, <1>e DEF NothingToDo
<1>4. CASE Done \/ UNCHANGED vars
  <2>1. pc = "done" /\ result' = result
    BY <1>4 DEF Done, vars
  <2>2. SumOf(result') = SumOf(result)
    BY <2>1
  <2> QED
    BY <1>d, <1>e, <2>1, <2>2 DEF DInv
<1>5. CASE BeginSearch \/ Probe \/ AddLoop \/ Compare \/ BeginAssign
  BY <1>5 DEF BeginSearch, Probe, AddLoop, Compare, BeginAssign
<1> QED
  BY <1>1, <1>2, <1>3, <1>4, <1>5 DEF Next

(* No distribution of the total over the loops ends before the least        *)
(* sufficient time.                                                         *)
LEMMA NoneEndsEarlier ==
  ASSUME total \in Nat, loops \in Nat, total > 0, loops > 0,
         NEW s \in [1..loops -> 0..total], SumOf(s) = total
  PROVE  MinTime(total, loops) <= CompletionTime(s)
<1> DEFINE t == CompletionTime(s)
<1>1. t \in Nat /\ \A k \in 1..loops : s[k] > 0 => k - 1 + s[k] <= t
  <2>1. loops <= loops
    OBVIOUS
  <2>2. t \in 0..(total + loops) /\ \A k \in 1..loops : s[k] > 0 => k - 1 + s[k] <= t
    BY <2>1, CompletionFacts
  <2> HIDE DEF t
  <2> QED
    BY <2>2
<1>2. Ints(s, 1..loops) /\ SumOf(s) = SumFunctionOnSet(s, 1..loops)
  <2>1. DOMAIN s = 1..loops /\ \A k \in 1..loops : s[k] \in Int
    OBVIOUS
  <2>2. SumOf(s) = SumFunctionOnSet(s, DOMAIN s)
    BY DEF SumOf, FoldFunction, SumFunctionOnSet
  <2> QED
    BY <2>1, <2>2 DEF Ints
<1> HIDE DEF t
<1>3. total <= Capacity(t, loops)
  BY <1>1, <1>2, NoMoreThanCapacity
<1>4. Capacity(t, loops) >= total
  BY <1>1, <1>3, CapacityFacts
<1>5. MinTime(total, loops) <= t
  BY <1>1, <1>4, MinTimeFacts
<1> QED
  BY <1>5 DEF t

LEMMA FastEnough ==
  ASSUME TInv, NInv, DInv
  PROVE  MinimizesTime
<1> SUFFICES ASSUME Fits, pc = "done" PROVE
      /\ SumOf(result) = total
      /\ \A s \in [1..loops -> 0..total] :
           SumOf(s) = total => CompletionTime(result) <= CompletionTime(s)
  BY DEF MinimizesTime
<1>1. total \in Nat /\ loops \in Nat /\ total > 0 /\ loops > 0
  BY RequestIsInt DEF TInv, Fits
<1>2. /\ SumOf(result) = total
      /\ \A k \in DOMAIN result : k - 1 + result[k] <= MinTime(total, loops)
  BY DEF DInv
<1>3. /\ Len(result) \in Nat /\ Len(result) <= loops
      /\ DOMAIN result = 1..Len(result)
      /\ \A k \in 1..Len(result) : result[k] \in Int /\ result[k] > 0
  <2>1. result \in Seq(1..MaxInt)
    BY DEF TInv, TypeOK
  <2>2. Len(result) <= loops /\ \A k \in DOMAIN result : result[k] > 0
    BY <1>1 DEF NInv, NeverOverAssigns
  <2>3. Len(result) \in Nat /\ DOMAIN result = 1..Len(result)
    BY <2>1
  <2>4. \A k \in DOMAIN result : result[k] \in Int
    BY RequestIsInt DEF TInv, TypeOK
  <2> QED
    BY <2>2, <2>3, <2>4
<1>4. MinTime(total, loops) \in 1..total
  BY <1>1, MinTimeFacts
<1>5. \A k \in 1..Len(result) : result[k] \in 0..total
  BY <1>1, <1>2, <1>3, <1>4
<1>6. result \in [1..Len(result) -> 0..total]
  <2>1. result = [k \in 1..Len(result) |-> result[k]]
    BY DEF TInv, TypeOK
  <2> QED
    BY <1>5, <2>1
<1>7. /\ CompletionTime(result) \in 0..(total + loops)
      /\ CompletionTime(result) = 0
         \/ \E k \in 1..Len(result) : k - 1 + result[k] = CompletionTime(result)
  BY <1>1, <1>3, <1>6, CompletionFacts
<1>8. CompletionTime(result) <= MinTime(total, loops)
  BY <1>2, <1>3, <1>4, <1>7
<1>9. ASSUME NEW s \in [1..loops -> 0..total], SumOf(s) = total
      PROVE  CompletionTime(result) <= CompletionTime(s)
  <2>1. MinTime(total, loops) <= CompletionTime(s) 
    BY <1>1, <1>9, NoneEndsEarlier
  <2>2. CompletionTime(s) \in 0..(total + loops)
    BY <1>1, CompletionFacts
  <2> QED
    BY <1>1, <1>4, <1>7, <1>8, <2>1, <2>2
<1> QED
  BY <1>2, <1>9

(* "The overall completion time is minimized": for every request no sum of  *)
(* the search overflows on, the result gives the total away and no          *)
(* distribution of it over the loops ends earlier.                          *)
THEOREM TimeIsMinimal == Spec => []MinimizesTime
<1>1. Init => AInv /\ DInv
  BY DEF Init, AInv, MatchesPlan, DInv
<1> QED
  BY <1>1, SearchInvariance, OverInvariance, AssignStep, DistributeStep, FastEnough, PTL DEF Spec

=============================================================================
