--------------------------- MODULE ProgressProofs ---------------------------
(***************************************************************************)
(* The two tasks that share the statistics, for any number of updates, any *)
(* interval and any clock: the locks keep half an update from being shown, *)
(* no interval sees more than three lines although the check, the line and *)
(* the stamp are three steps and a stamp may overwrite a later one, and    *)
(* the speed shown is that of the last minute although the list it is      *)
(* counted from is pruned only by the results.                             *)
(***************************************************************************)
EXTENDS Progress, FoldFacts, SequenceTheorems, TLAPS

Awaits == {"next", "check", "read", "stamp", "gas", "sleep", "over", "aborted"}

Shape ==
  /\ pc \in [Tasks -> Awaits]
  /\ {clock, last, stats.completed} \subseteq Nat
  /\ DOMAIN printed = Tasks
  /\ \A t \in Tasks : {printed[t].time, printed[t].before, printed[t].completed} \subseteq Nat

(* The locks are held exactly at the awaits under them, never both kinds.   *)
Locks ==
  /\ writer = (IF pc["executor"] = "gas" THEN "executor" ELSE "nobody")
  /\ readers = {t \in Tasks : pc[t] = "stamp"}
  /\ pc["executor"] = "gas" => readers = {}

(* A line shows no update of the future, and none that is in progress.      *)
Counts ==
  \A t \in Tasks :
    /\ printed[t].completed <= stats.completed
    /\ pc["executor"] = "gas" => printed[t].completed < stats.completed

(* The task has written the time of its latest line, and goes on.           *)
Stamped(t) == pc[t] \notin {"stamp", "over", "aborted"}

(* A line of t whose stamp has been overwritten by an older one can only be *)
(* overwritten again by the stamp of a later line: while t has its stamp in *)
(* hand the other task cannot get one that is older than the line before.   *)
NotOlder(t, u) ==
  /\ Stamped(t) => last >= printed[t].before \/ printed[t].time >= printed[t].before + Interval
  /\ pc[u] = "stamp" =>
       printed[u].time >= printed[t].before \/ printed[t].time >= printed[t].before + Interval
  /\ Stamped(t) /\ last < printed[t].time /\ pc[u] = "stamp" => printed[u].time >= printed[t].time

(* An overwriting stamp is that of the other task's latest line, or that    *)
(* line came an interval after the one before it.                           *)
Overwritten(t, u) ==
  /\ Stamped(t) /\ last < printed[t].time =>
       last >= printed[u].before \/ printed[u].time >= printed[u].before + Interval
  /\ Stamped(t) /\ Stamped(u) => last \in {printed[t].time, printed[u].time}

(* What a task that has found a line due knows until it prints it.          *)
FoundDue(t, u) ==
  pc[t] = "read" =>
    /\ clock >= printed[t].before + Interval
    /\ clock >= printed[t].time + Interval \/ clock >= printed[u].before + Interval
    /\ clock >= printed[t].time + Interval
       \/ (pc[u] = "stamp" => printed[u].time >= printed[t].time)
    /\ pc[u] = "read" =>
         clock >= printed[t].time + Interval \/ clock >= printed[u].time + Interval

Spacing ==
  /\ last \in Nat /\ last <= clock
  /\ \A t \in Tasks : printed[t].before <= printed[t].time /\ printed[t].time <= clock
  /\ \A t, u \in Tasks : t # u => NotOlder(t, u) /\ Overwritten(t, u) /\ FoundDue(t, u)

PInv == Shape /\ Locks /\ Counts /\ Spacing

LEMMA ProgressInit == Init => PInv
  BY ProgressAssumption
  DEF Init, PInv, Shape, Locks, Counts, Spacing, Stamped, NotOlder, Overwritten, FoundDue,
     Tasks, Awaits

LEMMA CheckStep == ASSUME PInv, NEW t \in Tasks, Check(t) PROVE PInv'
<1> USE ProgressAssumption DEF PInv
<1>1. Shape'
  BY DEF Check, Shape, AfterPrint, Awaits, Tasks
<1>2. Locks'
  BY DEF Check, Shape, Locks, AfterPrint, Tasks
<1>3. Counts'
  BY DEF Check, Shape, Counts, AfterPrint, Tasks
<1>4. Spacing'
  BY DEF Check, Shape, Spacing, Stamped, NotOlder, Overwritten, FoundDue, AfterPrint, Due, Tasks
<1> QED
  BY <1>1, <1>2, <1>3, <1>4

LEMMA ShowStep == ASSUME PInv, NEW t \in Tasks, ShowStatus(t) PROVE PInv'
<1> USE ProgressAssumption DEF PInv
<1>1. /\ printed'[t].time = clock /\ printed'[t].before = printed[t].time
      /\ printed'[t].completed = stats.completed
  BY DEF ShowStatus, Shape, StatusLine
<1>2. \A u \in Tasks \ {t} : printed'[u] = printed[u]
  BY DEF ShowStatus, Shape
<1>3. Shape'
  BY <1>1, <1>2 DEF ShowStatus, Shape, Awaits
<1>4. Locks'
  BY DEF ShowStatus, Shape, Locks, Tasks
<1>5. Counts'
  BY <1>1, <1>2 DEF ShowStatus, Shape, Locks, Counts, Tasks
<1>6. Spacing'
  BY <1>1, <1>2 DEF ShowStatus, Shape, Spacing, Stamped, NotOlder, Overwritten, FoundDue, Tasks
<1> QED
  BY <1>3, <1>4, <1>5, <1>6

LEMMA StampStep == ASSUME PInv, NEW t \in Tasks, Stamp(t) PROVE PInv'
<1> USE ProgressAssumption DEF PInv
<1>1. Shape'
  BY DEF Stamp, Shape, AfterPrint, NewStamp, Awaits, Tasks
<1>2. Locks'
  BY DEF Stamp, Shape, Locks, AfterPrint, Tasks
<1>3. Counts'
  BY DEF Stamp, Shape, Counts, AfterPrint, Tasks
<1>4. Spacing'
  BY DEF Stamp, Shape, Spacing, Stamped, NotOlder, Overwritten, FoundDue, AfterPrint, NewStamp, Tasks
<1> QED
  BY <1>1, <1>2, <1>3, <1>4

LEMMA UpdateStep == PInv /\ (BeginUpdate \/ GasReply) => PInv'
<1> SUFFICES ASSUME PInv, BeginUpdate \/ GasReply PROVE PInv'
  OBVIOUS
<1> USE ProgressAssumption DEF PInv
<1>1. stats'.completed \in {stats.completed, stats.completed + 1}
      /\ (BeginUpdate => stats'.completed = stats.completed + 1)
  BY DEF BeginUpdate, GasReply, Counted
<1>2. Shape'
  <2>1. pc' \in [Tasks -> Awaits]
    BY DEF BeginUpdate, GasReply, Shape, Awaits, Tasks
  <2>2. UNCHANGED <<clock, last, printed>> /\ stats'.completed \in Nat
    BY <1>1 DEF BeginUpdate, GasReply, Shape
  <2> QED
    BY <2>1, <2>2 DEF Shape
<1>3. Locks'
  BY DEF BeginUpdate, GasReply, Shape, Locks, LockDuringRpc, LockAfterUpdate, Tasks
<1>4. Counts'
  BY <1>1 DEF BeginUpdate, GasReply, Shape, Counts, Tasks
<1>5. Spacing'
  BY DEF BeginUpdate, GasReply, Shape, Spacing, Stamped, NotOlder, Overwritten, FoundDue, Tasks
<1> QED
  BY <1>2, <1>3, <1>4, <1>5

LEMMA OtherStep == PInv /\ (Wake \/ Abort \/ Tick \/ UNCHANGED vars) => PInv'
<1> SUFFICES ASSUME PInv, Wake \/ Abort \/ Tick \/ UNCHANGED vars PROVE PInv'
  OBVIOUS
<1> USE ProgressAssumption DEF PInv
<1>1. Shape'
  BY DEF Wake, Abort, Tick, vars, Shape, Awaits, Tasks
<1>2. Locks'
  BY DEF Wake, Abort, Tick, vars, Shape, Locks, Tasks
<1>3. Counts'
  BY DEF Wake, Abort, Tick, vars, Shape, Counts, Tasks
<1>4. Spacing'
  BY DEF Wake, Abort, Tick, vars, Shape, Spacing, Stamped, NotOlder, Overwritten, FoundDue, Tasks
<1> QED
  BY <1>1, <1>2, <1>3, <1>4

LEMMA ProgressInvariance == Spec => []PInv
<1>1. PInv /\ [Next]_vars => PInv'
  BY CheckStep, ShowStep, StampStep, UpdateStep, OtherStep DEF Next
<1> QED
  BY <1>1, ProgressInit, PTL DEF Spec

(* No line is printed between the count of a result and the gas price that  *)
(* belongs to it, and none shows such a result.                             *)
THEOREM WholeUpdates == Spec => []PrintsWholeUpdates
<1>1. PInv => PrintsWholeUpdates
  BY DEF PInv, Locks, Counts, PrintsWholeUpdates, Tasks
<1> QED
  BY <1>1, ProgressInvariance, PTL

(* Three lines of one task span an interval, and so do two lines of each:   *)
(* no interval sees more than three lines, whatever stamp overwrites which. *)
THEOREM LinesSpaced == Spec => ThreePerInterval
<1> DEFINE Apart == \A t, u \in Tasks :
       t # u /\ printed'[t] # printed[t] =>
         /\ clock >= printed[t].before + Interval
         /\ clock >= printed[t].time + Interval \/ clock >= printed[u].before + Interval
<1>1. ASSUME PInv, [Next]_vars, NEW t \in Tasks, NEW u \in Tasks, t # u,
             printed'[t] # printed[t]
      PROVE  /\ clock >= printed[t].before + Interval
             /\ clock >= printed[t].time + Interval \/ clock >= printed[u].before + Interval
  <2>1. PICK v \in Tasks : ShowStatus(v)
    BY <1>1 DEF Next, Check, Stamp, Wake, BeginUpdate, GasReply, Abort, Tick, vars
  <2>2. v = t /\ pc[t] = "read"
    BY <1>1, <2>1 DEF ShowStatus, PInv, Shape
  <2> QED
    BY <1>1, <2>2 DEF PInv, Spacing, FoundDue
<1>2. PInv /\ [Next]_vars => [Apart]_vars
  BY <1>1
<1> QED
  BY <1>2, ProgressInvariance, PTL DEF Spec, ThreePerInterval

-----------------------------------------------------------------------------
Sorted(times) == \A i, j \in DOMAIN times : i <= j => times[i] <= times[j]

(* Of increasing times those after some moment are the last ones.           *)
LEMMA Youngest ==
  ASSUME NEW times \in Seq(Nat), Sorted(times), NEW x \in Int
  PROVE  \E a \in 1..(Len(times) + 1) :
           {i \in DOMAIN times : times[i] > x} = a..Len(times)
<1> DEFINE n == Len(times)
           young == {i \in DOMAIN times : times[i] > x}
<1>1. n \in Nat /\ DOMAIN times = 1..n /\ \A i \in 1..n : times[i] \in Nat
  OBVIOUS
<1>2. CASE young = {}
  <2>1. young = (n + 1)..n /\ n + 1 \in 1..(n + 1)
    BY <1>1, <1>2
  <2> QED
    BY <2>1
<1>3. CASE young # {}
  <2>1. young \in SUBSET Nat
    BY <1>1
  <2>2. PICK a \in young : \A i \in young : a <= i
    <3> HIDE DEF young
    <3> QED
      BY <1>3, <2>1, LeastNat
  <2>3. ASSUME NEW i \in a..n PROVE i \in young
    <3>1. times[a] <= times[i] /\ times[a] > x /\ times[a] \in Int /\ times[i] \in Int
      BY <1>1 DEF Sorted
    <3> QED
      BY <1>1, <3>1
  <2>4. young = a..n /\ a \in 1..(n + 1)
    BY <1>1, <2>2, <2>3
  <2> QED
    BY <2>4
<1> QED
  BY <1>2, <1>3

LEMMA CountOf ==
  ASSUME NEW a \in Int, NEW n \in Int, a <= n + 1
  PROVE  IsFiniteSet(a..n) /\ Cardinality(a..n) = n - a + 1
<1>1. IsFiniteSet(a..n) /\ Cardinality(a..n) = IF a > n THEN 0 ELSE n - a + 1
  BY FS_Interval
<1> QED
  BY <1>1

(* The prefix of an interval with j elements ends at its j-th.              *)
LEMMA NthOf ==
  ASSUME NEW a \in Nat, NEW n \in Nat, NEW j \in 1..(n - a + 1)
  PROVE  (CHOOSE i \in a..n : Cardinality({h \in a..n : h <= i}) = j) = a + j - 1
<1>1. ASSUME NEW i \in a..n PROVE Cardinality({h \in a..n : h <= i}) = i - a + 1
  <2>1. {h \in a..n : h <= i} = a..i
    OBVIOUS
  <2>2. Cardinality(a..i) = i - a + 1
    BY FS_Interval
  <2> QED
    BY <2>1, <2>2
<1>2. a + j - 1 \in a..n
  OBVIOUS
<1>3. \A i \in a..n : Cardinality({h \in a..n : h <= i}) = j <=> i = a + j - 1
  BY <1>1
<1> QED
  BY <1>2, <1>3

LEMMA WithinFacts ==
  ASSUME NEW times \in Seq(Nat), Sorted(times), NEW window \in Nat, clock \in Nat
  PROVE  \E a \in 1..(Len(times) + 1) :
           /\ \A i \in DOMAIN times : times[i] + window > clock <=> i >= a
           /\ Within(times, window) = [j \in 1..(Len(times) - a + 1) |-> times[a + j - 1]]
<1> DEFINE n == Len(times)
           kept == {i \in DOMAIN times : times[i] + window > clock}
<1>1. n \in Nat /\ DOMAIN times = 1..n /\ \A i \in 1..n : times[i] \in Nat
  OBVIOUS
<1>a. clock - window \in Int
  OBVIOUS
<1>2. PICK a \in 1..(n + 1) : {i \in DOMAIN times : times[i] > clock - window} = a..n
  BY <1>a, Youngest
<1>b. a \in Nat /\ a <= n + 1
  BY <1>1
<1>3. kept = a..n
  BY <1>1, <1>2
<1>4. Cardinality(a..n) = n - a + 1
  <2>1. a \in Int /\ n \in Int /\ a <= n + 1
    BY <1>1, <1>b
  <2> HIDE DEF n
  <2> QED
    BY <2>1, CountOf
<1>5. \A j \in 1..(n - a + 1) :
        (CHOOSE i \in a..n : Cardinality({h \in a..n : h <= i}) = j) = a + j - 1
  BY <1>1, <1>b, NthOf
<1>6. Within(times, window) =
        [j \in 1..Cardinality(kept) |->
           times[CHOOSE i \in kept : Cardinality({h \in kept : h <= i}) = j]]
  BY DEF Within
<1>7. Within(times, window) = [j \in 1..(n - a + 1) |-> times[a + j - 1]]
  <2>1. Within(times, window) =
          [j \in 1..(n - a + 1) |->
             times[CHOOSE i \in a..n : Cardinality({h \in a..n : h <= i}) = j]]
    <3> HIDE DEF kept, n
    <3> QED
      BY <1>3, <1>4, <1>6
  <2> QED
    BY <1>5, <2>1
<1>8. \A i \in DOMAIN times : times[i] + window > clock <=> i >= a
  BY <1>1, <1>3
<1> QED
  BY <1>7, <1>8

(* recent_operations is the end of the history, and all that went before    *)
(* ended more than a minute ago.                                            *)
Pruned ==
  /\ finished \in Seq(Nat) /\ Sorted(finished)
  /\ \A i \in DOMAIN finished : finished[i] <= clock
  /\ Len(finished) = stats.completed
  /\ \E d \in 0..stats.completed :
       /\ stats.recent = [j \in 1..(stats.completed - d) |-> finished[d + j]]
       /\ \A i \in 1..d : finished[i] + Minute <= clock

LEMMA LeastIsMin ==
  ASSUME NEW S, S \subseteq Int, NEW x \in S, \A y \in S : x <= y
  PROVE  Min(S) = x
<1>1. Min(S) \in S /\ \A y \in S : Min(S) <= y
  BY DEF Min
<1>2. Min(S) <= x /\ x <= Min(S) /\ x \in Int /\ Min(S) \in Int
  BY <1>1
<1> QED
  BY <1>2

(* The speed of a line, counted in the whole history.                       *)
Recent(time, n) == {i \in 1..n : time - finished[i] < Minute}

Speed(time, n) ==
  LET recent == Recent(time, n)
      first == n - Cardinality(recent) + 1
  IN  IF Cardinality(recent) < 2 \/ finished[first] = time
      THEN 0 ELSE (Minute * Cardinality(recent)) \div (time - finished[first])

(* Of n operations the first d are forgotten, and those from a on are less  *)
(* than a minute old.                                                       *)
SplitAt(n, d, a) ==
  /\ n \in Nat /\ d \in 0..n /\ a \in 1..(n + 1)
  /\ \A i \in 1..n : finished[i] \in Nat
  /\ \A i, j \in 1..n : i <= j => finished[i] <= finished[j]
  /\ \A i \in 1..d : finished[i] + Minute <= clock
  /\ stats.recent = [j \in 1..(n - d) |-> finished[d + j]]
  /\ {i \in 1..n : finished[i] > clock - Minute} = a..n

(* Counting recent_operations and counting the history give the same.       *)
LEMMA SameCount ==
  ASSUME clock \in Nat, Minute \in Nat, NEW n, NEW d, NEW a, SplitAt(n, d, a)
  PROVE  /\ {i \in 1..n : clock - finished[i] < Minute} = a..n
         /\ {i \in DOMAIN stats.recent : stats.recent[i] + Minute > clock} = (a - d)..(n - d)
         /\ Cardinality(a..n) = n - a + 1 /\ Cardinality((a - d)..(n - d)) = n - a + 1
         /\ a <= n => Min({stats.recent[i] : i \in (a - d)..(n - d)}) = finished[a]
<1> USE DEF SplitAt
<1>1. ASSUME NEW i \in 1..n PROVE finished[i] > clock - Minute <=> i >= a
  <2>1. i \in a..n <=> i >= a
    OBVIOUS
  <2>2. i \in {j \in 1..n : finished[j] > clock - Minute} <=> finished[i] > clock - Minute
    OBVIOUS
  <2> QED
    BY <2>1, <2>2
<1>2. \A i \in 1..n : clock - finished[i] < Minute <=> finished[i] > clock - Minute
  OBVIOUS
<1>3. {i \in 1..n : clock - finished[i] < Minute} = a..n
  BY <1>2
<1>4. a > d
  <2>1. CASE a \in 1..d
    <3>1. a \in 1..n /\ a >= a
      BY <2>1
    <3>2. finished[a] > clock - Minute /\ finished[a] + Minute <= clock /\ finished[a] \in Nat
      BY <1>1, <2>1, <3>1
    <3> QED
      BY <3>2
  <2>2. CASE a \notin 1..d
    BY <2>2
  <2> QED
    BY <2>1, <2>2
<1>5. ASSUME NEW i \in 1..(n - d) PROVE stats.recent[i] = finished[d + i] /\ d + i \in 1..n
  OBVIOUS
<1>6. {i \in DOMAIN stats.recent : stats.recent[i] + Minute > clock} = (a - d)..(n - d)
  <2>1. ASSUME NEW i \in 1..(n - d) PROVE stats.recent[i] + Minute > clock <=> i >= a - d
    <3>1. stats.recent[i] = finished[d + i] /\ d + i \in 1..n /\ finished[d + i] \in Nat
      BY <1>5
    <3>2. finished[d + i] > clock - Minute <=> d + i >= a
      BY <1>1, <3>1
    <3>3. finished[d + i] + Minute > clock <=> finished[d + i] > clock - Minute
      BY <3>1
    <3>4. d + i >= a <=> i >= a - d
      OBVIOUS
    <3> QED
      BY <3>1, <3>2, <3>3, <3>4
  <2>2. DOMAIN stats.recent = 1..(n - d)
    OBVIOUS
  <2>3. \A i \in (a - d)..(n - d) : i \in 1..(n - d) /\ i >= a - d
    BY <1>4
  <2>4. \A i \in 1..(n - d) : i >= a - d => i \in (a - d)..(n - d)
    OBVIOUS
  <2> QED
    BY <2>1, <2>2, <2>3, <2>4
<1>7. Cardinality(a..n) = n - a + 1
  BY CountOf
<1>8. Cardinality((a - d)..(n - d)) = n - a + 1
  <2>1. a - d \in Int /\ n - d \in Int /\ a - d <= (n - d) + 1 /\ (n - d) - (a - d) + 1 = n - a + 1
    OBVIOUS
  <2> QED
    BY <2>1, CountOf
<1>9. ASSUME a <= n PROVE Min({stats.recent[i] : i \in (a - d)..(n - d)}) = finished[a]
  <2> DEFINE T == {stats.recent[i] : i \in (a - d)..(n - d)}
  <2>1. a - d \in (a - d)..(n - d) /\ a - d \in 1..(n - d) /\ d + (a - d) = a /\ a \in 1..n
    BY <1>4, <1>9
  <2>2. finished[a] \in T
    <3>1. stats.recent[a - d] = finished[d + (a - d)]
      BY <1>5, <2>1
    <3> QED
      BY <2>1, <3>1
  <2>3. ASSUME NEW i \in (a - d)..(n - d) PROVE stats.recent[i] \in Int /\ finished[a] <= stats.recent[i]
    <3>1. i \in 1..(n - d) /\ a <= d + i
      BY <1>4
    <3>2. stats.recent[i] = finished[d + i] /\ d + i \in 1..n
      BY <1>5, <3>1
    <3> QED
      BY <2>1, <3>1, <3>2
  <2>4. T \subseteq Int /\ \A y \in T : finished[a] <= y
    BY <2>3
  <2> HIDE DEF T
  <2> QED
    BY <2>2, <2>4, LeastIsMin DEF T
<1> QED
  BY <1>3, <1>6, <1>7, <1>8, <1>9

LEMMA RateFacts ==
  ASSUME Pruned, clock \in Nat, Minute \in Nat
  PROVE  OperationsPerMinute = Speed(clock, stats.completed) /\ OperationsPerMinute \in Nat
<1> DEFINE n == stats.completed
           O == {i \in DOMAIN stats.recent : stats.recent[i] + Minute > clock}
<1>1. /\ n \in Nat /\ Len(finished) = n /\ DOMAIN finished = 1..n
      /\ \A i \in 1..n : finished[i] \in Nat
      /\ \A i \in 1..n : finished[i] <= clock
      /\ \A i, j \in 1..n : i <= j => finished[i] <= finished[j]
  BY DEF Pruned, Sorted
<1>2. PICK d \in 0..n :
        /\ stats.recent = [j \in 1..(n - d) |-> finished[d + j]]
        /\ \A i \in 1..d : finished[i] + Minute <= clock
  BY DEF Pruned
<1>a. clock - Minute \in Int
  OBVIOUS
<1>3. PICK a \in 1..(n + 1) : {i \in 1..n : finished[i] > clock - Minute} = a..n
  <2>1. finished \in Seq(Nat) /\ Sorted(finished)
    BY DEF Pruned
  <2>2. \E a \in 1..(Len(finished) + 1) :
          {i \in DOMAIN finished : finished[i] > clock - Minute} = a..Len(finished)
    BY <1>a, <2>1, Youngest
  <2> HIDE DEF n
  <2> QED
    BY <1>1, <2>2
<1> DEFINE m == n - a + 1
<1>4. /\ Recent(clock, n) = a..n
      /\ O = (a - d)..(n - d)
      /\ Cardinality(a..n) = m /\ Cardinality((a - d)..(n - d)) = m
      /\ a <= n => Min({stats.recent[i] : i \in (a - d)..(n - d)}) = finished[a]
  <2> HIDE DEF n
  <2>1. /\ {i \in 1..n : clock - finished[i] < Minute} = a..n
        /\ {i \in DOMAIN stats.recent : stats.recent[i] + Minute > clock} = (a - d)..(n - d)
        /\ Cardinality(a..n) = n - a + 1 /\ Cardinality((a - d)..(n - d)) = n - a + 1
        /\ a <= n => Min({stats.recent[i] : i \in (a - d)..(n - d)}) = finished[a]
    <3>1. SplitAt(n, d, a)
      BY <1>1, <1>2, <1>3 DEF SplitAt
    <3> QED
      BY <3>1, SameCount
  <2> QED
    BY <2>1 DEF Recent
<1>5. n - m + 1 = a
  BY <1>1
<1>6. Speed(clock, n) = IF m < 2 \/ finished[a] = clock
                        THEN 0 ELSE (Minute * m) \div (clock - finished[a])
  <2> HIDE DEF n, m
  <2> QED
    BY <1>4, <1>5 DEF Speed
<1>7. OperationsPerMinute = IF m <= 1 \/ Min({stats.recent[i] : i \in O}) = clock
                            THEN 0 ELSE (m * Minute) \div (clock - Min({stats.recent[i] : i \in O}))
  <2>1. Cardinality(O) = m
    BY <1>4
  <2> HIDE DEF m
  <2> QED
    BY <2>1 DEF OperationsPerMinute
<1>8. CASE m <= 1
  <2>1. m < 2
    BY <1>1, <1>8
  <2> HIDE DEF m, O
  <2> QED
    BY <1>6, <1>7, <1>8, <2>1
<1>9. CASE ~(m <= 1)
  <2>1. a \in 1..n /\ m \in Nat /\ ~(m < 2)
    BY <1>1, <1>9
  <2>2. Min({stats.recent[i] : i \in O}) = finished[a]
    <3>1. a <= n
      BY <2>1
    <3>2. O = (a - d)..(n - d)
      BY <1>4
    <3> HIDE DEF O
    <3> QED
      BY <1>4, <3>1, <3>2
  <2>3. finished[a] \in Nat /\ finished[a] <= clock
    BY <1>1, <2>1
  <2> HIDE DEF m, O, n
  <2>4. m * Minute = Minute * m
    BY <2>1
  <2>5. OperationsPerMinute = IF finished[a] = clock THEN 0 ELSE (m * Minute) \div (clock - finished[a])
    BY <1>7, <1>9, <2>2
  <2>6. Speed(clock, n) = OperationsPerMinute
    BY <1>6, <2>1, <2>4, <2>5
  <2>7. OperationsPerMinute \in Nat
    <3>1. CASE finished[a] # clock
      <4>1. clock - finished[a] \in Nat /\ clock - finished[a] > 0
        BY <2>3, <3>1
      <4>2. m * Minute \in Nat
        <5>1. \A u, v \in Nat : u * v \in Nat
          OBVIOUS
        <5> QED
          BY <2>1, <5>1
      <4>3. \A u, v \in Nat : v > 0 => u \div v \in Nat
        OBVIOUS
      <4> QED
        BY <2>5, <3>1, <4>1, <4>2, <4>3
    <3> QED
      BY <2>5, <3>1
  <2> QED
    BY <2>6, <2>7 DEF n
<1> QED
  BY <1>8, <1>9

-----------------------------------------------------------------------------
Types ==
  /\ stats.completed \in 0..Updates /\ stats.successful \in 0..stats.completed
  /\ {last, wake} \subseteq 0..(MaxClock + 1) /\ clock \in 0..MaxClock
  /\ printed \in [Tasks -> [time : 0..MaxClock, before : 0..MaxClock,
                            completed : 0..Updates, rate : Nat]]

Lines ==
  \A t \in Tasks : printed[t].rate = Speed(printed[t].time, printed[t].completed)

HInv == Types /\ Pruned /\ Lines

LEMMA SequenceFacts ==
  \A S : \A m \in Nat : \A f \in [1..m -> S] : f \in Seq(S) /\ Len(f) = m
<1> SUFFICES ASSUME NEW S, NEW m \in Nat, NEW f \in [1..m -> S]
             PROVE  f \in Seq(S) /\ Len(f) = m
  OBVIOUS
<1>1. f \in Seq(S)
  BY SeqDef
<1> QED
  BY <1>1, LenProperties

LEMMA HistoryInit == Init => HInv
<1> SUFFICES ASSUME Init PROVE HInv
  OBVIOUS
<1>1. Types
  BY ProgressAssumption DEF Init, Types
<1>2. Pruned
  <2>1. stats.recent = [j \in 1..(0 - 0) |-> finished[0 + j]]
    BY DEF Init
  <2>2. finished = <<>> /\ stats.completed = 0 /\ 0 \in 0..0 /\ 1..0 = {}
    BY DEF Init
  <2> QED
    BY <2>1, <2>2 DEF Pruned, Sorted
<1>3. Lines
  <2>1. Recent(0, 0) = {} /\ Cardinality({}) = 0
    BY FS_EmptySet DEF Recent
  <2>2. Cardinality(Recent(0, 0)) < 2
    BY <2>1
  <2>3. Speed(0, 0) = 0
    BY <2>2 DEF Speed
  <2> QED
    BY <2>3 DEF Init, Lines
<1> QED
  BY <1>1, <1>2, <1>3 DEF HInv

(* A new result changes no speed that was shown.                            *)
LEMMA SpeedKept ==
  ASSUME Pruned, finished' = Append(finished, clock), NEW time \in Nat,
         NEW n \in 0..stats.completed
  PROVE  Speed(time, n)' = Speed(time, n)
<1>1. n \in Nat /\ \A i \in 1..n : finished'[i] = finished[i]
  BY DEF Pruned
<1>2. Recent(time, n)' = Recent(time, n)
  BY <1>1 DEF Recent
<1>3. Cardinality(Recent(time, n)) \in 0..n
  <2>1. IsFiniteSet(1..n) /\ Cardinality(1..n) = n
    <3>1. 1 \in Int /\ n \in Int /\ 1 <= n + 1
      BY <1>1
    <3>2. IsFiniteSet(1..n) /\ Cardinality(1..n) = n - 1 + 1
      BY <3>1, CountOf
    <3> QED
      BY <1>1, <3>2
  <2>2. Recent(time, n) \subseteq 1..n
    BY DEF Recent
  <2>3. Cardinality(Recent(time, n)) <= Cardinality(1..n) /\ IsFiniteSet(Recent(time, n))
    BY <2>1, <2>2, FS_Subset
  <2> QED
    BY <1>1, <2>1, <2>3, FS_CardinalityType
<1> DEFINE k == Cardinality(Recent(time, n))
           first == n - k + 1
<1>4. ~(k < 2) => finished'[first] = finished[first]
  <2>1. ~(k < 2) => first \in 1..n
    BY <1>1, <1>3
  <2> QED
    BY <1>1, <2>1
<1>5. Speed(time, n) = IF k < 2 \/ finished[first] = time
                       THEN 0 ELSE (Minute * k) \div (time - finished[first])
  BY DEF Speed
<1>6. Speed(time, n)' = IF k < 2 \/ finished'[first] = time
                        THEN 0 ELSE (Minute * k) \div (time - finished'[first])
  BY <1>2 DEF Speed
<1> HIDE DEF k, first
<1>7. CASE k < 2
  BY <1>5, <1>6, <1>7
<1>8. CASE ~(k < 2)
  <2>1. finished'[first] = finished[first]
    BY <1>4, <1>8
  <2> QED
    BY <1>5, <1>6, <1>8, <2>1
<1> QED
  BY <1>7, <1>8

LEMMA PrunedStep ==
  ASSUME Types, Pruned, BeginUpdate
  PROVE  Pruned'
<1> DEFINE n == stats.completed
           times == Append(stats.recent, clock)
           later == Append(finished, clock)
<1>1. /\ n \in Nat /\ clock \in Nat /\ Minute \in Nat
      /\ finished \in Seq(Nat) /\ Len(finished) = n
      /\ \A i \in 1..n : finished[i] \in Nat /\ finished[i] <= clock
      /\ \A i, j \in 1..n : i <= j => finished[i] <= finished[j]
  <2>1. n \in Nat /\ clock \in Nat /\ Minute \in Nat
    BY ProgressAssumption DEF Types
  <2>2. finished \in Seq(Nat) /\ Len(finished) = n /\ DOMAIN finished = 1..n
    BY DEF Pruned
  <2>3. \A i \in 1..n : finished[i] \in Nat /\ finished[i] <= clock
    <3>1. \A i \in 1..n : finished[i] <= clock
      BY <2>2 DEF Pruned
    <3>2. \A i \in 1..n : finished[i] \in Nat
      BY <2>2, LenProperties
    <3> QED
      BY <3>1, <3>2
  <2>4. \A i, j \in 1..n : i <= j => finished[i] <= finished[j]
    BY <2>2 DEF Pruned, Sorted
  <2> QED
    BY <2>1, <2>2, <2>3, <2>4
<1>2. PICK d \in 0..n :
        /\ stats.recent = [j \in 1..(n - d) |-> finished[d + j]]
        /\ \A i \in 1..d : finished[i] + Minute <= clock
  BY DEF Pruned
<1>3. /\ finished' = later /\ clock' = clock /\ stats'.completed = n + 1
      /\ stats'.recent = Within(times, Minute)
  BY DEF BeginUpdate, Counted, Retained
<1> HIDE DEF n
<1>4. /\ later \in Seq(Nat) /\ Len(later) = n + 1 /\ DOMAIN later = 1..(n + 1)
      /\ \A i \in 1..n : later[i] = finished[i]
      /\ later[n + 1] = clock
  BY <1>1
<1> HIDE DEF later
<1>5. /\ \A i \in 1..(n + 1) : later[i] \in Nat /\ later[i] <= clock
      /\ \A i, j \in 1..(n + 1) : i <= j => later[i] <= later[j]
  <2>1. \A i \in 1..(n + 1) : i \in 1..n \/ i = n + 1
    BY <1>1
  <2>2. \A i \in 1..(n + 1) : later[i] \in Nat /\ later[i] <= clock
    BY <1>1, <1>4, <2>1
  <2>3. ASSUME NEW i \in 1..(n + 1), NEW j \in 1..(n + 1), i <= j
        PROVE  later[i] <= later[j]
    <3>1. CASE j = n + 1
      BY <1>4, <2>2, <3>1
    <3>2. CASE j # n + 1
      <4>1. i \in 1..n /\ j \in 1..n
        BY <1>1, <2>3, <3>2
      <4> QED
        BY <1>1, <1>4, <2>3, <4>1
    <3> QED
      BY <3>1, <3>2
  <2> QED
    BY <2>2, <2>3
<1>6. /\ times \in Seq(Nat) /\ Len(times) = n - d + 1
      /\ \A i \in 1..(n - d + 1) : times[i] = later[d + i]
  <2>1. \A j \in 1..(n - d) : d + j \in 1..n
    BY <1>1
  <2>2. stats.recent \in Seq(Nat) /\ Len(stats.recent) = n - d
    <3>1. \A j \in 1..(n - d) : finished[d + j] \in Nat
      BY <1>1, <2>1
    <3>2. n - d \in Nat
      BY <1>1
    <3> DEFINE m == n - d
    <3> HIDE DEF m
    <3>3. /\ m \in Nat /\ stats.recent = [j \in 1..m |-> finished[d + j]]
          /\ \A j \in 1..m : finished[d + j] \in Nat
      BY <1>2, <3>1, <3>2 DEF m
    <3> DEFINE f == stats.recent
    <3>a. /\ f = [j \in 1..m |-> f[j]] /\ DOMAIN f = 1..m
          /\ \A j \in 1..m : f[j] \in Nat
      BY <3>3
    <3> HIDE DEF f
    <3>b. f \in [1..m -> Nat] /\ m \in Nat
      BY <3>3, <3>a
    <3>c. f \in Seq(Nat) /\ Len(f) = m
      BY <3>b, SequenceFacts
    <3>4. stats.recent \in Seq(Nat) /\ Len(stats.recent) = m
      BY <3>c DEF f
    <3> QED
      BY <3>4 DEF m
  <2>3. times \in Seq(Nat) /\ Len(times) = n - d + 1
    <3> DEFINE f == stats.recent
    <3> HIDE DEF f
    <3>1. f \in Seq(Nat) /\ Len(f) = n - d
      BY <2>2 DEF f
    <3>2. Append(f, clock) \in Seq(Nat) /\ Len(Append(f, clock)) = n - d + 1
      BY <1>1, <3>1, AppendProperties
    <3> QED
      BY <3>2 DEF f
  <2>4. times[n - d + 1] = clock /\ \A i \in 1..(n - d) : times[i] = stats.recent[i]
    BY <1>1, <2>2
  <2>5. ASSUME NEW i \in 1..(n - d + 1) PROVE times[i] = later[d + i]
    <3>1. CASE i = n - d + 1
      <4>1. d + i = n + 1
        BY <1>1, <3>1
      <4> QED
        BY <1>4, <2>4, <3>1, <4>1
    <3>2. CASE i # n - d + 1
      <4>1. i \in 1..(n - d)
        BY <1>1, <3>2
      <4>2. stats.recent[i] = finished[d + i] /\ d + i \in 1..n
        BY <1>2, <2>1, <4>1
      <4> QED
        BY <1>4, <2>4, <4>1, <4>2
    <3> QED
      BY <3>1, <3>2
  <2> QED
    BY <2>3, <2>5
<1> HIDE DEF times
<1>7. Sorted(times)
  <2>1. \A i \in 1..(n - d + 1) : d + i \in 1..(n + 1)
    BY <1>1
  <2>2. \A i, j \in 1..(n - d + 1) : i <= j => d + i <= d + j
    OBVIOUS
  <2>3. DOMAIN times = 1..(n - d + 1)
    BY <1>6
  <2> QED
    BY <1>5, <1>6, <2>1, <2>2, <2>3 DEF Sorted
<1>8. PICK a \in 1..(Len(times) + 1) :
        /\ \A i \in DOMAIN times : times[i] + Minute > clock <=> i >= a
        /\ Within(times, Minute) = [j \in 1..(Len(times) - a + 1) |-> times[a + j - 1]]
  BY <1>1, <1>6, <1>7, WithinFacts
<1> DEFINE e == d + a - 1
<1>9. e \in 0..(n + 1) /\ a \in 1..(n - d + 2) /\ (n + 1) - e = n - d + 1 - a + 1
  BY <1>1, <1>6
<1>10. stats'.recent = [j \in 1..((n + 1) - e) |-> later[e + j]]
  <2>1. ASSUME NEW j \in 1..((n + 1) - e) PROVE times[a + j - 1] = later[e + j]
    <3>1. a + j - 1 \in 1..(n - d + 1) /\ d + (a + j - 1) = e + j
      BY <1>1, <1>9
    <3> QED
      BY <1>6, <3>1
  <2>2. stats'.recent = [j \in 1..((n + 1) - e) |-> times[a + j - 1]]
    <3>1. Len(times) - a + 1 = (n + 1) - e
      <4>1. Len(times) = n - d + 1
        BY <1>6
      <4>2. a \in Nat /\ n \in Nat /\ d \in Nat
        BY <1>1, <1>9
      <4>3. Len(times) - a + 1 = n - d + 1 - a + 1
        BY <4>1, <4>2
      <4> QED
        BY <1>9, <4>2, <4>3
    <3> QED
      BY <1>3, <1>8, <3>1
  <2> HIDE DEF e
  <2> QED
    BY <2>1, <2>2
<1>11. ASSUME NEW i \in 1..e PROVE later[i] + Minute <= clock
  <2>1. CASE i <= d
    <3>1. i \in 1..d /\ i \in 1..n
      BY <1>1, <2>1
    <3> QED
      BY <1>2, <1>4, <3>1
  <2>2. CASE ~(i <= d)
    <3>1. i - d \in 1..(n - d + 1) /\ ~(i - d >= a) /\ d + (i - d) = i /\ i \in 1..(n + 1)
      BY <1>1, <1>9, <2>2
    <3>2. i - d \in DOMAIN times
      BY <1>6, <3>1
    <3>3. ~(later[i] + Minute > clock)
      BY <1>6, <1>8, <3>1, <3>2
    <3> QED
      BY <1>1, <1>5, <3>1, <3>3
  <2> QED
    BY <2>1, <2>2
<1> HIDE DEF e
<1>12. Sorted(later)
  BY <1>4, <1>5 DEF Sorted
<1>13. Sorted(finished)'
  BY <1>3, <1>12 DEF Sorted
<1> QED
  BY <1>3, <1>4, <1>5, <1>9, <1>10, <1>11, <1>13 DEF Pruned

LEMMA HistoryStep == PInv /\ HInv /\ [Next]_vars => HInv'
<1> SUFFICES ASSUME PInv, HInv, [Next]_vars PROVE HInv'
  OBVIOUS
<1>a. Types /\ Pruned /\ Lines /\ {Updates, Interval, Minute, MaxClock} \subseteq Nat
  BY ProgressAssumption DEF HInv
<1>1. CASE BeginUpdate
  <2>1. Types'
    <3>1. PICK success \in {0, 1} : stats' = Counted(success)
      BY <1>1 DEF BeginUpdate
    <3>2. stats'.completed = stats.completed + 1 /\ stats'.successful = stats.successful + success
      BY <3>1 DEF Counted
    <3>3. stats.completed < Updates /\ UNCHANGED <<last, wake, clock, printed>>
      BY <1>1 DEF BeginUpdate
    <3> QED
      BY <1>a, <3>1, <3>2, <3>3 DEF Types
  <2>2. Pruned'
    BY <1>1, <1>a, PrunedStep
  <2>3. Lines'
    <3> SUFFICES ASSUME NEW t \in Tasks
                 PROVE  (printed[t].rate = Speed(printed[t].time, printed[t].completed))'
      BY DEF Lines, Tasks
    <3>1. printed' = printed /\ finished' = Append(finished, clock)
      BY <1>1 DEF BeginUpdate
    <3>2. printed[t].time \in Nat /\ printed[t].completed \in 0..stats.completed
      BY <1>a DEF PInv, Shape, Counts, Types
    <3>3. Speed(printed[t].time, printed[t].completed)' = Speed(printed[t].time, printed[t].completed)
      BY <1>a, <3>1, <3>2, SpeedKept
    <3> QED
      BY <1>a, <3>1, <3>3 DEF Lines
  <2> QED
    BY <2>1, <2>2, <2>3 DEF HInv
<1>2. ASSUME NEW t \in Tasks, ShowStatus(t) PROVE HInv'
  <2>1. /\ printed' = [printed EXCEPT ![t] = StatusLine(t)]
        /\ UNCHANGED <<stats, last, wake, finished, clock>>
    BY <1>2 DEF ShowStatus
  <2>2. OperationsPerMinute = Speed(clock, stats.completed) /\ OperationsPerMinute \in Nat
    BY <1>a, RateFacts DEF Types
  <2>3. StatusLine(t) \in [time : 0..MaxClock, before : 0..MaxClock,
                           completed : 0..Updates, rate : Nat]
    BY <1>2, <1>a, <2>2 DEF StatusLine, Types
  <2>4. Types'
    BY <1>a, <2>1, <2>3 DEF Types
  <2>5. Pruned'
    BY <1>a, <2>1 DEF Pruned, Sorted
  <2>6. Lines'
    BY <1>a, <2>1, <2>2 DEF Types, Lines, StatusLine, Speed, Recent
  <2> QED
    BY <2>4, <2>5, <2>6 DEF HInv
<1>3. CASE Tick
  <2>1. /\ clock' \in 0..MaxClock /\ clock' >= clock
        /\ UNCHANGED <<stats, last, wake, printed, finished>>
    BY <1>3, <1>a DEF Tick, Types
  <2>2. Types'
    BY <1>a, <2>1 DEF Types
  <2>3. Pruned'
    <3>1. finished' = finished /\ stats' = stats /\ clock \in Nat /\ clock' \in Nat
      BY <1>a, <2>1 DEF Types
    <3>2. \A i \in DOMAIN finished : finished[i] \in Nat /\ finished[i] <= clock'
      BY <1>a, <2>1, <3>1 DEF Pruned
    <3>3. PICK d \in 0..stats.completed :
            /\ stats.recent = [j \in 1..(stats.completed - d) |-> finished[d + j]]
            /\ \A i \in 1..d : finished[i] + Minute <= clock
      BY <1>a DEF Pruned
    <3>4. \A i \in 1..d : finished[i] + Minute <= clock'
      <4>1. \A i \in 1..d : i \in DOMAIN finished
        BY <1>a DEF Types, Pruned
      <4> QED
        BY <1>a, <2>1, <3>1, <3>2, <3>3, <4>1
    <3> QED
      BY <1>a, <3>1, <3>2, <3>3, <3>4 DEF Pruned, Sorted
  <2>4. Lines'
    BY <1>a, <2>1 DEF Lines, Speed, Recent
  <2> QED
    BY <2>2, <2>3, <2>4 DEF HInv
<1>4. CASE (\E t \in Tasks : Check(t) \/ Stamp(t)) \/ Wake \/ GasReply \/ Abort \/ UNCHANGED vars
  <2>1. /\ UNCHANGED <<stats, printed, finished, clock>>
        /\ last' \in 0..MaxClock \cup {last} /\ wake' \in {wake, clock + 1}
    <3>1. \A t \in Tasks : printed[t].time \in 0..MaxClock
      BY <1>a DEF Types
    <3> QED
      BY <1>4, <3>1 DEF Check, Stamp, Wake, GasReply, Abort, NewStamp, vars
  <2>2. Types'
    BY <1>a, <2>1 DEF Types
  <2>3. Pruned'
    BY <1>a, <2>1 DEF Pruned, Sorted
  <2>4. Lines'
    BY <1>a, <2>1 DEF Lines, Speed, Recent
  <2> QED
    BY <2>2, <2>3, <2>4 DEF HInv
<1> QED
  BY <1>1, <1>2, <1>3, <1>4 DEF Next

LEMMA HistoryInvariance == Spec => [](PInv /\ HInv)
BY ProgressInvariance, HistoryInit, HistoryStep, PTL DEF Spec

(* The counters, the clocks and the lines have their types, and nothing     *)
(* remembered is younger than now.                                          *)
THEOREM ProgressTyped == Spec => []TypeOK
<1>1. PInv /\ HInv => TypeOK
  <2> SUFFICES ASSUME PInv, HInv PROVE TypeOK
    OBVIOUS
  <2>1. /\ finished \in Seq(Nat) /\ Len(finished) = stats.completed
        /\ \A i \in 1..stats.completed : finished[i] \in 0..MaxClock
        /\ stats.completed \in Nat
    BY ProgressAssumption DEF HInv, Types, Pruned
  <2>2. finished \in Seq(0..MaxClock)
    <3>1. DOMAIN finished = 1..stats.completed
      BY <2>1, LenProperties
    <3>2. finished = [j \in 1..stats.completed |-> finished[j]]
      BY <2>1, <3>1
    <3>3. finished \in [1..stats.completed -> 0..MaxClock]
      BY <2>1, <3>1, <3>2
    <3> QED
      BY <2>1, <3>3, SequenceFacts
  <2>3. stats.recent \in Seq(0..MaxClock)
    <3>1. PICK d \in 0..stats.completed :
            stats.recent = [j \in 1..(stats.completed - d) |-> finished[d + j]]
      BY DEF HInv, Pruned
    <3>2. \A j \in 1..(stats.completed - d) : finished[d + j] \in 0..MaxClock
      BY <2>1
    <3>3. stats.completed - d \in Nat
      BY <2>1
    <3> DEFINE m == stats.completed - d
               f == stats.recent
    <3>4. /\ f = [j \in 1..m |-> f[j]] /\ DOMAIN f = 1..m /\ m \in Nat
          /\ \A j \in 1..m : f[j] \in 0..MaxClock
      BY <3>1, <3>2, <3>3
    <3> HIDE DEF f, m
    <3>5. f \in [1..m -> 0..MaxClock] /\ m \in Nat
      BY <3>4
    <3>6. f \in Seq(0..MaxClock)
      BY <3>5, SequenceFacts
    <3> QED
      BY <3>6 DEF f
  <2> QED
    BY <2>2, <2>3, ProgressAssumption
       DEF PInv, Shape, Locks, HInv, Types, TypeOK, Awaits, Tasks
<1> QED
  BY <1>1, HistoryInvariance, PTL

(* The speed a line shows is that of the operations of the last minute, all *)
(* of them and no other, however long ago recent_operations was pruned.     *)
THEOREM SpeedIsRecent == Spec => []RateIsRecent
<1>1. HInv => RateIsRecent
  BY DEF HInv, Lines, RateIsRecent, Speed, Recent
<1> QED
  BY <1>1, HistoryInvariance, PTL
=============================================================================
