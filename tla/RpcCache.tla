------------------------------ MODULE RpcCache ------------------------------
(***************************************************************************)
(* CacheProvider and SharedCache (src/src/cache_gas.rs): a provider layer  *)
(* that answers RPC requests from an LRU cache, and saves it to a file.    *)
(*                                                                         *)
(* Callers share one cache.  A request looks in the cache, asks the node   *)
(* on a miss, and stores the response when it arrives; `inner` and         *)
(* `timestamps` are two maps behind two locks, so that a gas price is      *)
(* read, and stored, in two steps.  Callers on several threads interleave  *)
(* between them (Parallel); the futures of one task, which is how the      *)
(* executor uses the provider, only at the awaits.                         *)
(*                                                                         *)
(* The node is external.  A block is mined every second, so `clock` is     *)
(* both; an answer is the block it is taken from, 0 for null.  `at`, the   *)
(* time a response was put into this process's cache, is not in the code:  *)
(* it is what the timestamp stands for.                                    *)
(***************************************************************************)
EXTENDS Naturals, Sequences, SequencesExt

CONSTANTS
  Callers,
  Workloads,   \* sets of requests: a program makes those of one of them
  MaxItems,    \* max_items, at least 1
  Ttl,         \* 15 seconds, scaled down
  LandsAt,     \* external: the block that holds the transaction asked about
  MaxClock,    \* bound: the clock stops here
  Parallel,    \* do callers run on several threads?
  Persists     \* is the cache saved, and loaded by the next process?

(* The methods that return RpcWithBlock and set block_id.                  *)
WithBlock == {"code", "proof", "storageAt"}

ByHash == {"transaction", "rawTransaction", "receipt"}

Methods == {"gasPrice", "blockReceipts", "logs"} \cup ByHash \cup WithBlock

ASSUME CacheAssumption ==
  /\ {MaxItems, Ttl, MaxClock} \subseteq Nat \ {0} /\ LandsAt \in Nat
  /\ \A W \in Workloads : W \subseteq [method : Methods, block : Nat]
  /\ {Parallel, Persists} \subseteq BOOLEAN

VARIABLES
  workload,  \* the requests this program makes; never changes
  pc,        \* per caller, where its request is
  req,       \* per caller, the request
  since,     \* per caller, when it made the request
  got,       \* per caller, the response in hand
  inner,     \* the LRU cache, the most recently used entry first
  stamps,    \* timestamps: the keys that have one, and it
  file,      \* the entries load_cache finds; none without a readable file
  clock      \* external

callerVars == <<pc, req, since, got>>
cacheVars == <<inner, stamps>>
vars == <<workload, callerVars, cacheVars, file, clock>>

(* A request is a method and a block; block 0 is the tag "latest", and is  *)
(* put in where the method takes no block.                                 *)
GasPrice == [method |-> "gasPrice", block |-> 0]
Transaction == [method |-> "transaction", block |-> 0]
RawTransaction == [method |-> "rawTransaction", block |-> 0]
Receipt == [method |-> "receipt", block |-> 0]
BlockReceipts(b) == [method |-> "blockReceipts", block |-> b]
Logs(b) == [method |-> "logs", block |-> b]     \* the filter goes up to block b
Code(b) == [method |-> "code", block |-> b]
Proof(b) == [method |-> "proof", block |-> b]
StorageAt(b) == [method |-> "storageAt", block |-> b]

NoResponse == [answer |-> 0, at |-> 0]

(* The entries but that of key k, of which there is one at most.            *)
Without(entries, k) ==
  LET places == {i \in DOMAIN entries : entries[i].key = k}
  IN  IF places = {} THEN entries ELSE RemoveAt(entries, CHOOSE i \in places : TRUE)

-----------------------------------------------------------------------------
(* Mutated forms: an entry used at the limit of its age, no bypass of the   *)
(* cache for tags, an eviction forgotten.                                   *)
FreshAtTtl(t) == clock - t <= Ttl

NoBypass(r) == FALSE

PutUnbounded(entries, e) == <<e>> \o Without(entries, e.key)

-----------------------------------------------------------------------------
(* params_hash: block_id is no part of the params; the block of            *)
(* get_block_receipts and the filter of get_logs are.                      *)
Key(r) == IF r.method \in WithBlock THEN [r EXCEPT !.block = 0] ELSE r

(* has_block_tag looks at block_id: false for get_block_receipts, whatever *)
(* block it is asked for.                                                  *)
Bypass(r) == r.method \in WithBlock /\ r.block = 0

Fresh(t) == clock - t < Ttl

(* LruCache::put: e is the most recent entry, the least recent one goes.   *)
Put(entries, e) ==
  LET all == <<e>> \o Without(entries, e.key)
  IN  IF Len(all) > MaxItems THEN Front(all) ELSE all

Entry(k) == {e \in ToSet(inner) : e.key = k}

(* External: what the node answers now.                                    *)
NodeAnswer(r) ==
  LET block == CASE r.method \in ByHash -> LandsAt
                 [] r.block = 0 -> clock
                 [] OTHER -> r.block
  IN  IF block <= clock THEN block ELSE 0

(* Where a caller waits; between two awaits no time passes.                *)
Awaits == {"idle", "request", "arriving"}

Runs(c) == Parallel \/ \A d \in Callers \ {c} : pc[d] \in Awaits

Init ==
  /\ workload \in Workloads
  /\ pc = [c \in Callers |-> "idle"]
  /\ req = [c \in Callers |-> GasPrice]
  /\ since = [c \in Callers |-> 0]
  /\ got = [c \in Callers |-> NoResponse]
  /\ inner = <<>> /\ stamps = <<>> /\ file = <<>>
  /\ clock = 1

Goto(c, p) == pc' = [pc EXCEPT ![c] = p]

(* The future of c's request ends, and its locals with it.                 *)
Drop(C) ==
  /\ pc' = [c \in Callers |-> IF c \in C THEN "idle" ELSE pc[c]]
  /\ req' = [c \in Callers |-> IF c \in C THEN GasPrice ELSE req[c]]
  /\ since' = [c \in Callers |-> IF c \in C THEN 0 ELSE since[c]]
  /\ got' = [c \in Callers |-> IF c \in C THEN NoResponse ELSE got[c]]

-----------------------------------------------------------------------------
(* Make request r; a tagged one goes past the cache.                       *)
Ask(c, r) ==
  /\ pc[c] = "idle" /\ Runs(c)
  /\ req' = [req EXCEPT ![c] = r]
  /\ since' = [since EXCEPT ![c] = clock]
  /\ Goto(c, IF Bypass(r) THEN "request" ELSE "lookup")
  /\ UNCHANGED <<got, cacheVars, file, clock>>

(* The value, under the first lock; it becomes the most recently used.     *)
Get(c) ==
  /\ pc[c] = "lookup" /\ Runs(c)
  /\ \/ /\ Entry(Key(req[c])) = {}
        /\ Goto(c, "request")
        /\ UNCHANGED <<got, inner>>
     \/ \E e \in Entry(Key(req[c])) :
          /\ got' = [got EXCEPT ![c] = [answer |-> e.answer, at |-> e.at]]
          /\ inner' = Put(inner, e)
          /\ Goto(c, IF req[c] = GasPrice THEN "readStamp" ELSE "done")
  /\ UNCHANGED <<req, since, stamps, file, clock>>

(* The timestamp, under the second; none counts as now.                    *)
ReadStamp(c) ==
  /\ pc[c] = "readStamp" /\ Runs(c)
  /\ LET k == Key(req[c])
         t == IF k \in DOMAIN stamps THEN stamps[k] ELSE clock
     IN  \/ /\ Fresh(t)
            /\ Goto(c, "done")
            /\ UNCHANGED got
         \/ /\ ~Fresh(t)
            /\ Goto(c, "request")
            /\ got' = [got EXCEPT ![c] = NoResponse]
  /\ UNCHANGED <<req, since, cacheVars, file, clock>>

(* External: the node answers ...                                          *)
Answer(c) ==
  /\ pc[c] = "request"
  /\ got' = [got EXCEPT ![c] = [answer |-> NodeAnswer(req[c]), at |-> clock]]
  /\ Goto(c, "arriving")
  /\ UNCHANGED <<req, since, cacheVars, file, clock>>

(* ... or the call fails, and nothing is stored.                           *)
CallFails(c) ==
  /\ pc[c] = "request" /\ Runs(c)
  /\ Drop({c})
  /\ UNCHANGED <<cacheVars, file, clock>>

(* The answer arrives, null or not, and is put into the cache.             *)
Store(c) ==
  /\ pc[c] = "arriving" /\ Runs(c)
  /\ got' = [got EXCEPT ![c].at = clock]
  /\ inner' = Put(inner, [key |-> Key(req[c]), answer |-> got[c].answer, at |-> clock])
  /\ Goto(c, IF req[c] = GasPrice THEN "stamp" ELSE "done")
  /\ UNCHANGED <<req, since, stamps, file, clock>>

Stamp(c) ==
  /\ pc[c] = "stamp" /\ Runs(c)
  /\ stamps' = [k \in DOMAIN stamps \cup {Key(req[c])} |->
                  IF k = Key(req[c]) THEN clock ELSE stamps[k]]
  /\ Goto(c, "done")
  /\ UNCHANGED <<req, since, got, inner, file, clock>>

Return(c) ==
  /\ pc[c] = "done" /\ Runs(c)
  /\ Drop({c})
  /\ UNCHANGED <<cacheVars, file, clock>>

-----------------------------------------------------------------------------
(* No caller holds the task.                                               *)
Between == Parallel \/ \A c \in Callers : pc[c] \in Awaits

(* save_cache, under both locks: whether an entry had a timestamp is kept, *)
(* the timestamp is not.                                                   *)
Save ==
  /\ Persists /\ Between
  /\ file' = [i \in DOMAIN inner |->
                [key |-> inner[i].key, answer |-> inner[i].answer,
                 stamped |-> inner[i].key \in DOMAIN stamps]]
  /\ UNCHANGED <<callerVars, cacheVars, clock>>

(* The file is truncated before it is written, and writing fails: what is  *)
(* left is no JSON array, and load_cache refuses it.                       *)
SaveFails ==
  /\ Persists /\ Between
  /\ file' = <<>>
  /\ UNCHANGED <<callerVars, cacheVars, clock>>

(* The process ends and the next one starts with an empty cache.           *)
Restart ==
  /\ Persists
  /\ Drop(Callers)
  /\ inner' = <<>> /\ stamps' = <<>>
  /\ UNCHANGED <<file, clock>>

(* The cache after load_cache: the entries are put in the order of the     *)
(* file, so the least recently used becomes the most recent.               *)
Loaded ==
  FoldLeft(LAMBDA entries, f : Put(entries, [key |-> f.key, answer |-> f.answer, at |-> clock]),
           inner, file)

(* load_cache, under both locks; every timestamp is now.                   *)
Load ==
  /\ Persists /\ Between
  /\ inner' = Loaded
  /\ LET stamped == {f.key : f \in {g \in ToSet(file) : g.stamped}}
     IN  stamps' = [k \in DOMAIN stamps \cup stamped |->
                      IF k \in stamped THEN clock ELSE stamps[k]]
  /\ UNCHANGED <<callerVars, file, clock>>

(* External: a second passes while every caller waits.                     *)
Tick ==
  /\ clock < MaxClock
  /\ \A c \in Callers : pc[c] \in Awaits
  /\ clock' = clock + 1
  /\ UNCHANGED <<callerVars, cacheVars, file>>

Step ==
  \/ \E c \in Callers :
       \/ \E r \in workload : Ask(c, r)
       \/ Get(c) \/ ReadStamp(c) \/ Answer(c) \/ CallFails(c)
       \/ Store(c) \/ Stamp(c) \/ Return(c)
  \/ Save \/ SaveFails \/ Restart \/ Load
  \/ Tick

Next == Step /\ UNCHANGED workload

Spec == Init /\ [][Next]_vars

-----------------------------------------------------------------------------
(* Every variable has its type; the LRU cache holds at most max_items       *)
(* entries, and one per key, through hits, puts, evictions and loads.       *)
TypeOK ==
  /\ pc \in [Callers -> Awaits \cup {"lookup", "readStamp", "stamp", "done"}]
  /\ req \in [Callers -> workload \cup {GasPrice}]
  /\ since \in [Callers -> 0..MaxClock] /\ clock \in 1..MaxClock
  /\ got \in [Callers -> [answer : 0..MaxClock, at : 0..MaxClock]]
  /\ Len(inner) <= MaxItems
  /\ \A i, j \in DOMAIN inner : inner[i].key = inner[j].key => i = j
  /\ {e.key : e \in ToSet(inner)} \cup DOMAIN stamps \subseteq {Key(r) : r \in workload}

(* get_gas_price: "Only use cached value if it's less than 15 seconds old", *)
(* counted from when it was put into this process's cache: what load_cache  *)
(* loads counts from the load, whatever its age when it was saved.          *)
GasFresh ==
  \A c \in Callers :
    pc[c] = "done" /\ req[c] = GasPrice => clock - got[c].at < Ttl

(* A request for code, a proof or storage of the latest block is never     *)
(* answered with an older block's, although its response is stored where    *)
(* requests for numbered blocks find it.                                    *)
LatestIsLive ==
  \A c \in Callers :
    pc[c] = "done" /\ req[c].method \in WithBlock /\ req[c].block = 0 =>
      got[c].answer >= since[c]
=============================================================================
