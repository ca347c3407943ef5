------------------------------ MODULE Progress ------------------------------
(***************************************************************************)
(* ProgressManager (src/src/wallet/progress.rs) between its two users: the *)
(* executor, which calls update_progress for every result of a batch, and  *)
(* the reporter task, which calls print_status_if_needed every second      *)
(* until it is aborted (src/src/wallet/execution.rs).                      *)
(*                                                                         *)
(* Both are tokio tasks and interleave at every await: the two RwLocks and *)
(* the gas price RPC.  `progress` is held across awaits and is modelled as *)
(* a lock; last_status_update is locked for one read or one write only and *)
(* is a register, read and written in different steps.                     *)
(*                                                                         *)
(* Not in the code: `finished`, the times of all updates, which is what    *)
(* recent_operations is pruned from, and in `printed` the time of a task's *)
(* line before its latest one.                                             *)
(***************************************************************************)
EXTENDS Naturals, Sequences, FiniteSets, SequencesExt

CONSTANTS
  Updates,    \* the number of results the executor reports
  Interval,   \* 5 seconds, scaled down
  Minute,     \* 60 seconds, scaled down
  MaxClock    \* bound: the clock saturates here

ASSUME ProgressAssumption == {Updates, Interval, Minute, MaxClock} \subseteq Nat

Tasks == {"executor", "reporter"}

VARIABLES
  pc,         \* per task, the await it is at
  writer,     \* the task that holds `progress` for writing, or "nobody"
  readers,    \* the tasks that hold `progress` for reading
  stats,      \* ProgressStats: completed, successful, recent_operations
  last,       \* last_status_update
  wake,       \* when the reporter's sleep ends
  printed,    \* per task, its latest status line
  finished,   \* when each update was counted
  clock       \* external

vars == <<pc, writer, readers, stats, last, wake, printed, finished, clock>>

(* The times less than a window ago, in their order: Vec::retain.          *)
Within(times, window) ==
  LET kept == {i \in DOMAIN times : times[i] + window > clock}
  IN  [j \in 1..Cardinality(kept) |->
         times[CHOOSE i \in kept : Cardinality({h \in kept : h <= i}) = j]]

-----------------------------------------------------------------------------
(* Mutated forms: the write lock dropped before the RPC, or never dropped,  *)
(* a success that is not counted as completed, a stamp left as it was, and  *)
(* operations forgotten after one status interval.                          *)
NoLock == "nobody"

StillLocked == "executor"

CountedOnce(success) ==
  [completed |-> stats.completed + 1 - success, successful |-> stats.successful + success,
   recent |-> stats.recent]

StaleStamp(t) == last

ShortWindow(times) == Within(times, Interval)

-----------------------------------------------------------------------------
(* Who holds the write lock while the gas price is awaited, and once        *)
(* update_progress has dropped it.                                          *)
LockDuringRpc == "executor"
LockAfterUpdate == "nobody"

(* should_print_status.                                                     *)
Due == clock - last >= Interval

(* Instant::now(), for last_status_update.  It is the right operand of the  *)
(* assignment, so it is evaluated before write().await: when the line is    *)
(* printed, not when the lock is granted.                                   *)
NewStamp(t) == printed[t].time

(* retain(|&time| time > one_minute_ago), in update_progress.               *)
Retained(times) == Within(times, Minute)

(* operations_per_minute: the operations of the last minute over the time   *)
(* since the oldest of them; 0 for fewer than two, and for no time.         *)
OperationsPerMinute ==
  LET recent == {i \in DOMAIN stats.recent : stats.recent[i] + Minute > clock}
      oldest == Min({stats.recent[i] : i \in recent})
  IN  IF Cardinality(recent) <= 1 \/ oldest = clock
      THEN 0 ELSE (Cardinality(recent) * Minute) \div (clock - oldest)

(* The status line as seen under the read lock.                             *)
StatusLine(t) ==
  [time |-> clock, before |-> printed[t].time,
   completed |-> stats.completed, rate |-> OperationsPerMinute]

(* The counters after one more result, success being 0 or 1.                *)
Counted(success) ==
  [completed |-> stats.completed + 1, successful |-> stats.successful + success,
   recent |-> Retained(Append(stats.recent, clock))]

(* Where a task goes after print_status_if_needed.                          *)
AfterPrint(t) == IF t = "executor" THEN "next" ELSE "sleep"

Init ==
  /\ pc = [t \in Tasks |-> IF t = "executor" THEN "next" ELSE "check"]
  /\ writer = "nobody" /\ readers = {}
  /\ stats = [completed |-> 0, successful |-> 0, recent |-> <<>>]
  /\ last = 0 /\ wake = 0 /\ clock = 0
  /\ printed = [t \in Tasks |-> [time |-> 0, before |-> 0, completed |-> 0, rate |-> 0]]
  /\ finished = <<>>

(* Look at last_status_update; nothing is held afterwards.                  *)
Check(t) ==
  /\ pc[t] = "check"
  /\ pc' = [pc EXCEPT ![t] = IF Due THEN "read" ELSE AfterPrint(t)]
  /\ wake' = IF t = "reporter" THEN clock + 1 ELSE wake
  /\ UNCHANGED <<writer, readers, stats, last, printed, finished, clock>>

(* The read lock is granted: print, still holding it ...                    *)
ShowStatus(t) ==
  /\ pc[t] = "read"
  /\ writer = "nobody"
  /\ pc' = [pc EXCEPT ![t] = "stamp"]
  /\ readers' = readers \cup {t}
  /\ printed' = [printed EXCEPT ![t] = StatusLine(t)]
  /\ UNCHANGED <<writer, stats, last, wake, finished, clock>>

(* ... until last_status_update is granted and written: the other task may  *)
(* have written a later time meanwhile.                                     *)
Stamp(t) ==
  /\ pc[t] = "stamp"
  /\ pc' = [pc EXCEPT ![t] = AfterPrint(t)]
  /\ readers' = readers \ {t}
  /\ last' = NewStamp(t)
  /\ wake' = IF t = "reporter" THEN clock + 1 ELSE wake
  /\ UNCHANGED <<writer, stats, printed, finished, clock>>

(* The reporter's one second sleep is over.                                 *)
Wake ==
  /\ pc["reporter"] = "sleep"
  /\ clock >= wake
  /\ pc' = [pc EXCEPT !["reporter"] = "check"]
  /\ UNCHANGED <<writer, readers, stats, last, wake, printed, finished, clock>>

(* update_progress gets the write lock, counts the result, and asks for     *)
(* the gas price with the lock in hand.                                     *)
BeginUpdate ==
  /\ pc["executor"] = "next"
  /\ stats.completed < Updates
  /\ writer = "nobody" /\ readers = {}
  /\ pc' = [pc EXCEPT !["executor"] = "gas"]
  /\ writer' = LockDuringRpc
  /\ \E success \in {0, 1} : stats' = Counted(success)
  /\ finished' = Append(finished, clock)
  /\ UNCHANGED <<readers, last, wake, printed, clock>>

(* The gas price arrives or not; the lock is dropped before printing.       *)
GasReply ==
  /\ pc["executor"] = "gas"
  /\ pc' = [pc EXCEPT !["executor"] = "check"]
  /\ writer' = LockAfterUpdate
  /\ UNCHANGED <<readers, stats, last, wake, printed, finished, clock>>

(* The loop is over: abort drops the reporter at whatever await it is, and  *)
(* with it a read guard it may hold.                                        *)
Abort ==
  /\ pc["executor"] = "next"
  /\ stats.completed = Updates
  /\ pc' = [t \in Tasks |-> IF t = "executor" THEN "over" ELSE "aborted"]
  /\ readers' = readers \ {"reporter"}
  /\ UNCHANGED <<writer, stats, last, wake, printed, finished, clock>>

(* External: a second passes.                                               *)
Tick ==
  /\ clock' = IF clock < MaxClock THEN clock + 1 ELSE clock
  /\ UNCHANGED <<pc, writer, readers, stats, last, wake, printed, finished>>

Next ==
  \/ \E t \in Tasks : Check(t) \/ ShowStatus(t) \/ Stamp(t)
  \/ Wake \/ BeginUpdate \/ GasReply \/ Abort
  \/ Tick

Spec == Init /\ [][Next]_vars

(* The tasks are polled, a lock that is free again and again is granted     *)
(* (tokio's RwLock queues its waiters), and the gas price call is answered. *)
FairSpec ==
  /\ Spec
  /\ SF_vars(BeginUpdate)
  /\ WF_vars(GasReply \/ Abort)
  /\ \A t \in Tasks : WF_vars(Check(t) \/ ShowStatus(t) \/ Stamp(t))

-----------------------------------------------------------------------------
TypeOK ==
  /\ pc \in [Tasks -> {"next", "check", "read", "stamp", "gas", "sleep", "over", "aborted"}]
  /\ writer \in {"nobody", "executor"}
  /\ readers \subseteq Tasks
  /\ stats.completed \in 0..Updates /\ stats.successful \in 0..stats.completed
  /\ {stats.recent, finished} \subseteq Seq(0..MaxClock)
  /\ {last, wake, clock} \subseteq 0..(MaxClock + 1)
  /\ printed \in [Tasks -> [time : 0..MaxClock, before : 0..MaxClock,
                          completed : 0..Updates, rate : Nat]]

(* A status line never shows an update whose gas price is still awaited,    *)
(* and no line is printed while one is: the counters and the gas price of a *)
(* line belong together, whichever task prints it.                          *)
PrintsWholeUpdates ==
  pc["executor"] = "gas" =>
    readers = {} /\ \A t \in Tasks : printed[t].completed < stats.completed

(* Check, print and stamp are three steps of two tasks, and a stamp may be   *)
(* older than the one it overwrites; so a line may follow another within an  *)
(* interval, even one of the same task.  But three lines of one task span an *)
(* interval, and so do two lines of each: no interval sees more than three.  *)
ThreePerInterval ==
  [][\A t, u \in Tasks :
       t # u /\ printed'[t] # printed[t] =>
         /\ clock >= printed[t].before + Interval
         /\ clock >= printed[t].time + Interval \/ clock >= printed[u].before + Interval]_vars

(* The speed a line shows is that of all the operations of the last minute  *)
(* and of no older one, although recent_operations is pruned only when a    *)
(* result arrives and may be old when the reporter reads it.                *)
RateIsRecent ==
  \A t \in Tasks :
    LET line == printed[t]
        recent == {i \in 1..line.completed : line.time - finished[i] < Minute}
        first == line.completed - Cardinality(recent) + 1
    IN  line.rate =
          IF Cardinality(recent) < 2 \/ finished[first] = line.time
          THEN 0 ELSE (Minute * Cardinality(recent)) \div (line.time - finished[first])

(* No chain of locks keeps the executor from reporting its results.         *)
ExecutorFinishes == <>(pc["executor"] = "over")
=============================================================================
