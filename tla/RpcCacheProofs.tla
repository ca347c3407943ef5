--------------------------- MODULE RpcCacheProofs ---------------------------
(***************************************************************************)
(* The cache for any number of callers, any requests they make, any size   *)
(* and any time to live: what an LRU cache promises, and what its answers  *)
(* are worth.                                                              *)
(***************************************************************************)
EXTENDS RpcCache, FoldFacts, SequenceTheorems, TLAPS

Keys == {Key(r) : r \in workload}

Row == [key : Keys, answer : 0..MaxClock, at : 0..MaxClock]

FileRow == [key : Keys, answer : 0..MaxClock, stamped : BOOLEAN]

(* What LruCache promises.                                                  *)
Lru(entries) ==
  /\ entries \in Seq(Row)
  /\ Len(entries) <= MaxItems
  /\ \A i, j \in DOMAIN entries : entries[i].key = entries[j].key => i = j

-----------------------------------------------------------------------------
(* Removing the entry of a key keeps the others, in their order.            *)
LEMMA WithoutFacts ==
  ASSUME NEW entries, Lru(entries), NEW k
  PROVE  /\ Lru(Without(entries, k))
         /\ \A i \in DOMAIN Without(entries, k) :
              \E j \in DOMAIN entries :
                entries[j] = Without(entries, k)[i] /\ entries[j].key # k
<1> DEFINE n == Len(entries)
           places == {i \in DOMAIN entries : entries[i].key = k}
           p == CHOOSE i \in places : TRUE
<1>1. entries \in Seq(Row) /\ n \in Nat /\ DOMAIN entries = 1..n /\ n <= MaxItems
  BY DEF Lru
<1>2. CASE places = {}
  <2>1. Without(entries, k) = entries
    BY <1>2 DEF Without
  <2> QED
    BY <1>2, <2>1
<1>3. CASE places # {}
  <2>1. p \in 1..n /\ entries[p].key = k
    BY <1>1, <1>3
  <2>2. Without(entries, k) = SubSeq(entries, 1, p - 1) \o SubSeq(entries, p + 1, n)
    BY <1>3 DEF Without, RemoveAt
  <2> DEFINE w == SubSeq(entries, 1, p - 1) \o SubSeq(entries, p + 1, n)
             from == [i \in 1..(n - 1) |-> IF i < p THEN i ELSE i + 1]
  <2> HIDE DEF p, places
  <2>3. /\ w \in Seq(Row) /\ Len(w) = n - 1 /\ DOMAIN w = 1..(n - 1)
        /\ \A i \in 1..(n - 1) : w[i] = entries[from[i]]
    <3> DEFINE u == SubSeq(entries, 1, p - 1)
               v == SubSeq(entries, p + 1, n)
    <3>0. \A i \in 1..n : entries[i] \in Row
      BY <1>1
    <3>1. u \in Seq(Row) /\ Len(u) = p - 1 /\ \A i \in 1..(p - 1) : u[i] = entries[i]
      <4>1. \A i \in 1..(p - 1) : u[i] = entries[1 + i - 1] /\ 1 + i - 1 = i
        BY <1>1, <2>1, <3>0, SubSeqProperties
      <4> QED
        BY <1>1, <2>1, <4>1
    <3>2. v \in Seq(Row) /\ Len(v) = n - p /\ \A i \in 1..(n - p) : v[i] = entries[p + i]
      <4>1. /\ v \in Seq(Row) /\ Len(v) = IF p + 1 <= n THEN n - (p + 1) + 1 ELSE 0
            /\ \A i \in 1..(n - (p + 1) + 1) : v[i] = entries[p + 1 + i - 1]
        BY <1>1, <2>1, <3>0, SubSeqProperties
      <4>2. n - (p + 1) + 1 = n - p /\ \A i \in Int : p + 1 + i - 1 = p + i
        BY <1>1, <2>1
      <4>3. n \in Nat /\ p \in 1..n
        BY <1>1, <2>1
      <4> HIDE DEF v, n
      <4>4. Len(v) = n - p
        BY <4>1, <4>3
      <4>5. \A i \in 1..(n - p) : v[i] = entries[p + i]
        BY <4>1, <4>2, <4>3
      <4> QED
        BY <4>1, <4>4, <4>5
    <3> HIDE DEF u, v, n
    <3>3. u \o v \in Seq(Row) /\ Len(u \o v) = n - 1 /\ DOMAIN (u \o v) = 1..(n - 1)
      <4>1. u \o v \in Seq(Row) /\ Len(u \o v) = (p - 1) + (n - p)
        BY <3>1, <3>2
      <4>2. (p - 1) + (n - p) = n - 1
        BY <1>1, <2>1
      <4> QED
        BY <4>1, <4>2
    <3>4. ASSUME NEW i \in 1..(n - 1) PROVE (u \o v)[i] = entries[from[i]]
      <4>1. CASE i < p
        BY <1>1, <2>1, <3>1, <3>2, <4>1
      <4>2. CASE ~(i < p)
        <5>1. (u \o v)[i] = v[i - (p - 1)] /\ i - (p - 1) \in 1..(n - p)
          BY <1>1, <2>1, <3>1, <3>2, <4>2
        <5>2. v[i - (p - 1)] = entries[p + (i - (p - 1))] /\ p + (i - (p - 1)) = i + 1
          BY <1>1, <2>1, <3>2, <5>1
        <5> QED
          BY <4>2, <5>1, <5>2
      <4> QED
        BY <4>1, <4>2
    <3> QED
      BY <3>3, <3>4 DEF u, v
  <2>4. \A i, j \in 1..(n - 1) :
          /\ from[i] \in 1..n /\ from[i] # p
          /\ from[i] = from[j] => i = j
    BY <1>1, <2>1
  <2> HIDE DEF w, from, n
  <2>5. \A i, j \in 1..n : entries[i].key = entries[j].key => i = j
    BY <1>1 DEF Lru
  <2>6. n - 1 <= MaxItems
    BY <1>1, CacheAssumption
  <2>7. Lru(w)
    BY <2>3, <2>4, <2>5, <2>6 DEF Lru
  <2>8. \A i \in 1..(n - 1) : entries[from[i]].key # k
    BY <2>1, <2>4, <2>5
  <2>9. Without(entries, k) = w /\ DOMAIN w = 1..(n - 1)
    BY <2>2, <2>3 DEF w, n
  <2> QED
    BY <1>1, <2>3, <2>4, <2>7, <2>8, <2>9
<1> QED
  BY <1>2, <1>3

(* A put keeps the promise, and what was there stays unless it is replaced  *)
(* or evicted.                                                              *)
LEMMA PutFacts ==
  ASSUME NEW entries, Lru(entries), NEW e \in Row
  PROVE  /\ Lru(Put(entries, e))
         /\ \A i \in DOMAIN Put(entries, e) :
              \/ Put(entries, e)[i] = e
              \/ \E j \in DOMAIN entries :
                   entries[j] = Put(entries, e)[i] /\ entries[j].key # e.key
<1> DEFINE w == Without(entries, e.key)
           all == <<e>> \o w
           m == Len(w)
<1>1. /\ Lru(w)
      /\ \A i \in DOMAIN w : \E j \in DOMAIN entries :
           entries[j] = w[i] /\ entries[j].key # e.key
  BY WithoutFacts
<1> HIDE DEF w
<1>2. w \in Seq(Row) /\ m \in Nat /\ DOMAIN w = 1..m /\ m <= MaxItems
      /\ \A i, j \in 1..m : w[i].key = w[j].key => i = j
  BY <1>1 DEF Lru
<1>3. /\ all \in Seq(Row) /\ Len(all) = m + 1 /\ DOMAIN all = 1..(m + 1)
      /\ all[1] = e /\ \A i \in 1..(m + 1) : i # 1 => i - 1 \in 1..m /\ all[i] = w[i - 1]
  BY <1>2
<1> HIDE DEF all, m
<1>4. \A i \in 1..m : w[i].key # e.key
  BY <1>1, <1>2
<1>5. ASSUME NEW i \in 1..(m + 1), NEW j \in 1..(m + 1), all[i].key = all[j].key
      PROVE  i = j
  <2>1. CASE i = 1 \/ j = 1
    BY <1>3, <1>4, <1>5, <2>1
  <2>2. CASE i # 1 /\ j # 1
    <3>1. i - 1 = j - 1
      BY <1>2, <1>3, <1>5, <2>2
    <3> QED
      BY <1>2, <3>1
  <2> QED
    BY <2>1, <2>2
<1>6. \A i \in 1..(m + 1) :
        all[i] = e \/ \E j \in DOMAIN entries : entries[j] = all[i] /\ entries[j].key # e.key
  BY <1>1, <1>2, <1>3
<1>7. Put(entries, e) = IF m + 1 > MaxItems THEN SubSeq(all, 1, m) ELSE all
  <2>1. Put(entries, e) = IF Len(all) > MaxItems THEN SubSeq(all, 1, Len(all) - 1) ELSE all
    BY DEF Put, Front, all, w
  <2> QED
    BY <1>2, <1>3, <2>1
<1>8. CASE m + 1 > MaxItems
  <2> DEFINE s == SubSeq(all, 1, m)
  <2>1. s \in Seq(Row) /\ Len(s) = m /\ DOMAIN s = 1..m /\ \A i \in 1..m : s[i] = all[i]
    BY <1>2, <1>3
  <2>2. \A i \in 1..m : i \in 1..(m + 1)
    BY <1>2
  <2> HIDE DEF s
  <2>3. Lru(s)
    BY <1>2, <1>5, <2>1, <2>2 DEF Lru
  <2> QED
    BY <1>6, <1>7, <1>8, <2>1, <2>2, <2>3 DEF s
<1>9. CASE ~(m + 1 > MaxItems)
  <2>1. m + 1 <= MaxItems
    BY <1>2, <1>9, CacheAssumption
  <2>2. Lru(all)
    BY <1>3, <1>5, <2>1 DEF Lru
  <2> QED
    BY <1>3, <1>6, <1>7, <1>9, <2>2
<1> QED
  BY <1>8, <1>9

(* After a load every entry is one of the file, put just now, or one that   *)
(* was there and is not in the file.                                        *)
LEMMA LoadedFacts ==
  ASSUME Lru(inner), file \in Seq(FileRow), clock \in 0..MaxClock
  PROVE  /\ Lru(Loaded)
         /\ \A i \in DOMAIN Loaded :
              \/ Loaded[i].at = clock /\ \E h \in DOMAIN file : file[h].key = Loaded[i].key
              \/ \E j \in DOMAIN inner : inner[j] = Loaded[i]
                   /\ \A h \in DOMAIN file : file[h].key # inner[j].key
<1> DEFINE D == DOMAIN file
           Rec(x) == [key |-> file[x].key, answer |-> file[x].answer, at |-> clock]
           Caches == {s \in Seq(Row) : Lru(s)}
           pick == [t \in SUBSET D |-> Max(t)]
           step == [p \in D \X Caches |-> Put(p[2], Rec(p[1]))]
           Body(g) == [s \in SUBSET D |-> IF s = {} THEN inner
                                         ELSE Put(g[s \ {Max(s)}], Rec(Max(s)))]
           h == CHOOSE g : g = Body(g)
<1>1. Loaded = h[D]
  BY DEF Loaded, FoldLeft, MapThenFoldSet
<1>2. /\ D = 1..Len(file) /\ Len(file) \in Nat
      /\ IsFiniteSet(D)
  <2>1. D = 1..Len(file) /\ Len(file) \in Nat
    OBVIOUS
  <2> QED
    BY <2>1, FS_Interval
<1>3. \A t \in SUBSET D : t # {} => Max(t) \in t /\ \A y \in t : y <= Max(t)
  <2>1. ASSUME NEW t \in SUBSET D, t # {} PROVE Max(t) \in t /\ \A y \in t : y <= Max(t)
    <3>1. IsFiniteSet(t) /\ t \subseteq Int
      BY <1>2, FS_Subset
    <3> QED
      BY <2>1, <3>1, Extremes
  <2> QED
    BY <2>1
<1>4. \A x \in D : Rec(x) \in Row
  <2>1. \A x \in D : file[x] \in FileRow
    OBVIOUS
  <2> QED
    BY <2>1 DEF Row, FileRow
<1>5. inner \in Caches /\ \A s \in Caches, x \in D : Put(s, Rec(x)) \in Caches
  <2>1. inner \in Caches
    BY DEF Lru
  <2>2. ASSUME NEW s \in Caches, NEW x \in D PROVE Put(s, Rec(x)) \in Caches
    <3>1. Lru(Put(s, Rec(x)))
      <4> HIDE DEF Rec
      <4> QED
        BY <1>4, PutFacts
    <3> QED
      BY <3>1 DEF Lru
  <2> QED
    BY <2>1, <2>2
<1>6. \A x \in D, s \in Caches : step[<<x, s>>] = Put(s, Rec(x))
  OBVIOUS
<1>7. \A t \in SUBSET D : t # {} => pick[t] \in t /\ pick[t] = Max(t)
  BY <1>3
<1> HIDE DEF step, pick, Caches, Rec, D
<1>a. IsFiniteSet(D)
  BY <1>2
<1>8. PICK g : g = FoldBody(D, inner, step, pick, g)
  BY <1>2, <1>7, FoldExists
<1> DEFINE P == {t \in SUBSET D : g[t] \in Caches}
<1>9. ASSUME NEW t \in SUBSET D, \A x \in t : t \ {x} \in P PROVE t \in P
  <2>1. CASE t = {}
    BY <1>5, <1>8, <2>1 DEF FoldBody
  <2>2. CASE t # {}
    <3>1. pick[t] \in t /\ pick[t] \in D
      BY <1>7, <2>2
    <3>2. g[t \ {pick[t]}] \in Caches
      BY <1>9, <3>1
    <3>3. g[t] = step[<<pick[t], g[t \ {pick[t]}]>>]
      BY <1>8, <2>2 DEF FoldBody
    <3>4. step[<<pick[t], g[t \ {pick[t]}]>>] = Put(g[t \ {pick[t]}], Rec(pick[t]))
      BY <1>6, <3>1, <3>2
    <3>5. Put(g[t \ {pick[t]}], Rec(pick[t])) \in Caches
      BY <1>5, <3>1, <3>2
    <3> QED
      BY <3>3, <3>4, <3>5
  <2> QED
    BY <2>1, <2>2
<1>10. SUBSET D \subseteq P
  <2> HIDE DEF P
  <2> QED
    BY <1>a, <1>9, SubsetInduction
<1>11. \A t \in SUBSET D : g[t] \in Caches
  BY <1>10
<1>12. g = Body(g)
  <2>1. ASSUME NEW t \in SUBSET D PROVE g[t] = Body(g)[t]
    <3>1. CASE t = {}
      BY <1>8, <3>1 DEF FoldBody
    <3>2. CASE t # {}
      <4>1. g[t] = step[<<pick[t], g[t \ {pick[t]}]>>]
        BY <1>8, <3>2 DEF FoldBody
      <4>2. pick[t] \in D /\ g[t \ {pick[t]}] \in Caches /\ pick[t] = Max(t)
        BY <1>7, <1>11, <3>2
      <4> QED
        BY <1>6, <3>2, <4>1, <4>2
    <3> QED
      BY <3>1, <3>2
  <2>2. g = [t \in SUBSET D |-> g[t]]
    BY <1>8 DEF FoldBody
  <2>3. Body(g) = [t \in SUBSET D |-> Body(g)[t]]
    OBVIOUS
  <2> HIDE DEF Body
  <2> QED
    BY <2>1, <2>2, <2>3
<1>13. h = Body(h)
  <2> HIDE DEF Body
  <2> QED
    BY <1>12
<1> HIDE DEF h
<1> DEFINE From(s, n) ==
      \A i \in DOMAIN s :
        \/ s[i].at = clock /\ \E k \in 1..n : file[k].key = s[i].key
        \/ \E j \in DOMAIN inner : inner[j] = s[i] /\ \A k \in 1..n : file[k].key # inner[j].key
           Upto == {n \in Nat : n <= Len(file) => h[1..n] \in Caches /\ From(h[1..n], n)}
<1>14. 0 \in Upto
  <2>1. 1..0 = {}
    OBVIOUS
  <2>2. h[{}] = inner
    BY <1>13
  <2>3. From(inner, 0)
    BY <2>1
  <2> HIDE DEF From
  <2> QED
    BY <1>5, <2>1, <2>2, <2>3
<1>15. ASSUME NEW n \in Nat, n \in Upto PROVE n + 1 \in Upto
  <2> SUFFICES ASSUME n + 1 <= Len(file)
               PROVE  h[1..(n + 1)] \in Caches /\ From(h[1..(n + 1)], n + 1)
    OBVIOUS
  <2> DEFINE s == h[1..n]
             e == Rec(n + 1)
  <2>1. s \in Caches /\ From(s, n)
    BY <1>15
  <2>2. 1..(n + 1) \in SUBSET D /\ 1..(n + 1) # {} /\ n + 1 \in D
    <3>1. n + 1 \in 1..Len(file) /\ 1..(n + 1) \subseteq 1..Len(file) /\ n + 1 \in 1..(n + 1)
      BY <1>2
    <3> QED
      BY <1>2, <3>1
  <2>3. Max(1..(n + 1)) = n + 1
    <3>1. Max(1..(n + 1)) \in 1..(n + 1) /\ n + 1 <= Max(1..(n + 1))
      <4>1. n + 1 \in 1..(n + 1)
        OBVIOUS
      <4> QED
        BY <1>3, <2>2, <4>1
    <3> QED
      BY <3>1
  <2>4. (1..(n + 1)) \ {n + 1} = 1..n
    OBVIOUS
  <2>5. h[1..(n + 1)] = Put(s, e)
    BY <1>13, <2>2, <2>3, <2>4
  <2>6. e \in Row /\ e.at = clock /\ e.key = file[n + 1].key
    <3>1. e \in Row
      BY <1>4, <2>2
    <3> QED
      BY <3>1 DEF Rec
  <2> HIDE DEF s, e
  <2>7. Lru(s)
    BY <2>1 DEF Caches
  <2>8. /\ Lru(Put(s, e))
        /\ \A i \in DOMAIN Put(s, e) :
             Put(s, e)[i] = e \/ \E j \in DOMAIN s : s[j] = Put(s, e)[i] /\ s[j].key # e.key
    BY <2>6, <2>7, PutFacts
  <2>9. Put(s, e) \in Caches
    BY <2>8 DEF Caches, Lru
  <2>10. ASSUME NEW i \in DOMAIN Put(s, e),
                ~(Put(s, e)[i].at = clock /\ \E k \in 1..(n + 1) : file[k].key = Put(s, e)[i].key)
         PROVE  \E j \in DOMAIN inner :
                  inner[j] = Put(s, e)[i] /\ \A k \in 1..(n + 1) : file[k].key # inner[j].key
    <3>1. PICK a \in DOMAIN s : s[a] = Put(s, e)[i] /\ s[a].key # e.key
      <4>1. n + 1 \in 1..(n + 1)
        OBVIOUS
      <4> QED
        BY <2>6, <2>8, <2>10, <4>1
    <3>2. PICK j \in DOMAIN inner : inner[j] = s[a] /\ \A k \in 1..n : file[k].key # inner[j].key
      <4>1. 1..n \subseteq 1..(n + 1)
        OBVIOUS
      <4> QED
        BY <2>1, <2>10, <3>1, <4>1
    <3>3. \A k \in 1..(n + 1) : k \in 1..n \/ k = n + 1
      OBVIOUS
    <3> QED
      BY <2>6, <3>1, <3>2, <3>3
  <2> QED
    BY <2>5, <2>9, <2>10
<1>16. Nat \subseteq Upto
  <2> HIDE DEF Upto
  <2> QED
    BY <1>14, <1>15, NatSetInduction
<1>17. h[D] \in Caches /\ From(h[D], Len(file))
  <2>1. Len(file) \in Upto /\ Len(file) <= Len(file)
    BY <1>2, <1>16
  <2> HIDE DEF From
  <2> QED
    BY <1>2, <2>1
<1> QED
  BY <1>1, <1>2, <1>17 DEF Caches, D

-----------------------------------------------------------------------------
(* The callers, and what they share.                                        *)
Places == Awaits \cup {"lookup", "readStamp", "stamp", "done"}

Requests ==
  /\ workload \in Workloads
  /\ pc \in [Callers -> Places]
  /\ req \in [Callers -> workload \cup {GasPrice}]
  /\ since \in [Callers -> 0..MaxClock] /\ clock \in 1..MaxClock
  /\ got \in [Callers -> [answer : 0..MaxClock, at : 0..MaxClock]]
  /\ \A c \in Callers : pc[c] # "idle" => req[c] \in workload

Stores ==
  /\ Lru(inner)
  /\ DOMAIN stamps \subseteq Keys /\ stamps \in [DOMAIN stamps -> 0..MaxClock]
  /\ file \in Seq(FileRow)

CInv == Requests /\ Stores

LEMMA CacheTypes == CInv => TypeOK
<1> SUFFICES ASSUME CInv PROVE TypeOK
  OBVIOUS
<1>1. \A i \in DOMAIN inner : inner[i] \in Row
  BY DEF CInv, Stores, Lru
<1>2. {e.key : e \in ToSet(inner)} \subseteq Keys
  BY <1>1 DEF ToSet, Row
<1> QED
  BY <1>2 DEF CInv, Requests, Stores, Lru, TypeOK, Places, Keys

LEMMA CacheInit == Init => CInv
<1> SUFFICES ASSUME Init PROVE CInv
  OBVIOUS
<1>1. Requests
  BY CacheAssumption DEF Init, Requests, Places, Awaits, NoResponse
<1>2. Lru(<<>>)
  BY CacheAssumption DEF Lru
<1>3. <<>> \in [DOMAIN <<>> -> 0..MaxClock] /\ DOMAIN <<>> = {}
  OBVIOUS
<1> QED
  BY <1>1, <1>2, <1>3 DEF Init, CInv, Stores

(* What a request is, and what it is stored under and answered with.        *)
LEMMA RequestFacts ==
  ASSUME Requests, NEW c \in Callers
  PROVE  /\ req[c] \in workload \cup {GasPrice} /\ req[c].block \in Nat
         /\ pc[c] # "idle" => Key(req[c]) \in Keys
         /\ NodeAnswer(req[c]) \in 0..MaxClock
         /\ Bypass(req[c]) => NodeAnswer(req[c]) = clock
         /\ Key(req[c]) = GasPrice <=> req[c] = GasPrice
<1>1. req[c] \in workload \cup {GasPrice} /\ req[c] \in [method : Methods, block : Nat]
  <2>1. GasPrice \in [method : Methods, block : Nat]
    BY DEF GasPrice, Methods
  <2>2. workload \in Workloads /\ req[c] \in workload \cup {GasPrice}
    BY DEF Requests
  <2>3. workload \subseteq [method : Methods, block : Nat]
    BY <2>2, CacheAssumption
  <2> QED
    BY <2>1, <2>2, <2>3
<1>2. req[c].block \in Nat
  BY <1>1
<1>3. pc[c] # "idle" => Key(req[c]) \in Keys
  BY DEF Requests, Keys
<1>4. clock \in 1..MaxClock /\ MaxClock \in Nat /\ LandsAt \in Nat
  BY CacheAssumption DEF Requests
<1>5. NodeAnswer(req[c]) \in 0..MaxClock
  BY <1>2, <1>4 DEF NodeAnswer
<1>6. Bypass(req[c]) => NodeAnswer(req[c]) = clock
  BY <1>4 DEF Bypass, NodeAnswer, WithBlock, ByHash
<1>7. Key(req[c]) = GasPrice <=> req[c] = GasPrice
  BY <1>1 DEF Key, GasPrice, WithBlock
<1> QED
  BY <1>1, <1>2, <1>3, <1>5, <1>6, <1>7

(* The stores as the next state sees them.                                  *)
LEMMA SameRows ==
  ASSUME workload' = workload
  PROVE  /\ Keys' = Keys /\ FileRow' = FileRow
         /\ Lru(inner') => Lru(inner)'
<1>1. Keys' = Keys
  BY DEF Keys
<1> QED
  BY <1>1 DEF FileRow, Row, Lru

LEMMA SameStores ==
  ASSUME Stores, workload' = workload, UNCHANGED <<cacheVars, file>>
  PROVE  Stores'
<1>1. inner' = inner /\ stamps' = stamps /\ file' = file
  BY DEF cacheVars
<1>2. Lru(inner)'
  BY <1>1, SameRows DEF Stores
<1> QED
  BY <1>1, <1>2, SameRows DEF Stores

LEMMA DropTypes ==
  ASSUME Requests, NEW C, Drop(C), UNCHANGED <<workload, clock>>
  PROVE  Requests'
<1>1. pc' \in [Callers -> Places]
  BY DEF Drop, Requests, Places, Awaits
<1>2. req' \in [Callers -> workload \cup {GasPrice}]
  BY DEF Drop, Requests
<1>3. since' \in [Callers -> 0..MaxClock]
  BY CacheAssumption DEF Drop, Requests
<1>4. got' \in [Callers -> [answer : 0..MaxClock, at : 0..MaxClock]]
  BY CacheAssumption DEF Drop, Requests, NoResponse
<1>5. \A c \in Callers : pc'[c] # "idle" => req'[c] \in workload
  BY DEF Drop, Requests
<1> QED
  BY <1>1, <1>2, <1>3, <1>4, <1>5 DEF Requests

(* A step of one caller.                                                    *)
LEMMA CallerTypes ==
  ASSUME CInv, UNCHANGED workload, NEW c \in Callers,
         \/ \E r \in workload : Ask(c, r)
         \/ Get(c) \/ ReadStamp(c) \/ Answer(c) \/ CallFails(c)
         \/ Store(c) \/ Stamp(c) \/ Return(c)
  PROVE  CInv'
<1> DEFINE Answers == [answer : 0..MaxClock, at : 0..MaxClock]
<1>a. Requests /\ Stores /\ Lru(inner)
  BY DEF CInv, Stores
<1>b. /\ req[c] \in workload \cup {GasPrice}
      /\ pc[c] # "idle" => Key(req[c]) \in Keys /\ req[c] \in workload
      /\ NodeAnswer(req[c]) \in 0..MaxClock
      /\ clock \in 1..MaxClock /\ clock \in 0..MaxClock /\ MaxClock \in Nat /\ got[c] \in Answers
  BY <1>a, RequestFacts, CacheAssumption DEF Requests
<1>1. ASSUME NEW r \in workload, Ask(c, r) PROVE CInv'
  <2>1. Requests'
    BY <1>1, <1>a, <1>b DEF Ask, Requests, Goto, Places, Awaits
  <2>2. Stores'
    BY <1>1, <1>a, SameStores DEF Ask
  <2> QED
    BY <2>1, <2>2 DEF CInv
<1>2. CASE Get(c)
  <2>1. CASE Goto(c, "request") /\ UNCHANGED <<got, inner>>
    <3>1. Requests'
      BY <1>2, <1>a, <1>b, <2>1 DEF Get, Requests, Goto, Places, Awaits
    <3>2. Stores'
      BY <1>2, <1>a, <2>1, SameStores DEF Get, cacheVars
    <3> QED
      BY <3>1, <3>2 DEF CInv
  <2>2. ASSUME NEW e \in Entry(Key(req[c])),
               got' = [got EXCEPT ![c] = [answer |-> e.answer, at |-> e.at]],
               inner' = Put(inner, e),
               Goto(c, IF req[c] = GasPrice THEN "readStamp" ELSE "done")
        PROVE  CInv'
    <3>1. e \in Row
      BY <1>a DEF Entry, ToSet, Lru
    <3>2. Lru(inner')
      BY <1>a, <2>2, <3>1, PutFacts
    <3>3. [answer |-> e.answer, at |-> e.at] \in Answers
      BY <3>1 DEF Row
    <3>4. Requests'
      BY <1>2, <1>a, <1>b, <2>2, <3>3 DEF Get, Requests, Goto, Places, Awaits
    <3>5. Stores'
      BY <1>2, <1>a, <3>2, SameRows DEF Get, Stores
    <3> QED
      BY <3>4, <3>5 DEF CInv
  <2> QED
    BY <1>2, <2>1, <2>2 DEF Get
<1>3. CASE ReadStamp(c)
  <2>1. got' \in [Callers -> Answers]
    BY <1>3, <1>a, <1>b DEF ReadStamp, Requests, NoResponse
  <2>2. Requests'
    BY <1>3, <1>a, <1>b, <2>1 DEF ReadStamp, Requests, Goto, Places, Awaits
  <2>3. Stores'
    BY <1>3, <1>a, SameStores DEF ReadStamp
  <2> QED
    BY <2>2, <2>3 DEF CInv
<1>4. CASE Answer(c)
  <2>1. Requests'
    BY <1>4, <1>a, <1>b DEF Answer, Requests, Goto, Places, Awaits
  <2>2. Stores'
    BY <1>4, <1>a, SameStores DEF Answer
  <2> QED
    BY <2>1, <2>2 DEF CInv
<1>5. CASE CallFails(c) \/ Return(c)
  <2>1. Requests'
    BY <1>5, <1>a, DropTypes DEF CallFails, Return
  <2>2. Stores'
    BY <1>5, <1>a, SameStores DEF CallFails, Return
  <2> QED
    BY <2>1, <2>2 DEF CInv
<1>6. CASE Store(c)
  <2>1. [key |-> Key(req[c]), answer |-> got[c].answer, at |-> clock] \in Row
    BY <1>6, <1>b DEF Store, Row
  <2>2. Lru(inner')
    BY <1>6, <1>a, <2>1, PutFacts DEF Store
  <2>3. got' \in [Callers -> Answers]
    BY <1>6, <1>a, <1>b DEF Store, Requests
  <2>4. Requests'
    BY <1>6, <1>a, <1>b, <2>3 DEF Store, Requests, Goto, Places, Awaits
  <2>5. Stores'
    BY <1>6, <1>a, <2>2, SameRows DEF Store, Stores
  <2> QED
    BY <2>4, <2>5 DEF CInv
<1>7. CASE Stamp(c)
  <2>1. DOMAIN stamps' \subseteq Keys /\ stamps' \in [DOMAIN stamps' -> 0..MaxClock]
    BY <1>7, <1>a, <1>b DEF Stamp, Stores
  <2>2. Requests'
    BY <1>7, <1>a, <1>b DEF Stamp, Requests, Goto, Places, Awaits
  <2>3. Stores'
    BY <1>7, <1>a, <2>1, SameRows DEF Stamp, Stores
  <2> QED
    BY <2>2, <2>3 DEF CInv
<1> QED
  BY <1>1, <1>2, <1>3, <1>4, <1>5, <1>6, <1>7

LEMMA OtherTypes ==
  ASSUME CInv, UNCHANGED workload, Save \/ SaveFails \/ Restart \/ Load \/ Tick
  PROVE  CInv'
<1>a. Requests /\ Stores /\ Lru(inner) /\ file \in Seq(FileRow) /\ clock \in 0..MaxClock
      /\ MaxClock \in Nat
  BY CacheAssumption DEF CInv, Stores, Requests
<1>b. callerVars' = callerVars /\ UNCHANGED clock => Requests'
  BY <1>a DEF callerVars, Requests
<1>1. CASE Save
  <2>1. \A i \in DOMAIN inner : inner[i] \in Row
    BY <1>a DEF Lru
  <2>2. inner \in Seq(Row) /\ DOMAIN inner = 1..Len(inner) /\ Len(inner) \in Nat
    BY <1>a DEF Lru
  <2>3. \A i \in DOMAIN inner :
          [key |-> inner[i].key, answer |-> inner[i].answer,
           stamped |-> inner[i].key \in DOMAIN stamps] \in FileRow
    <3> SUFFICES ASSUME NEW i \in DOMAIN inner
                 PROVE  [key |-> inner[i].key, answer |-> inner[i].answer,
                         stamped |-> inner[i].key \in DOMAIN stamps] \in FileRow
      OBVIOUS
    <3>1. inner[i].key \in Keys /\ inner[i].answer \in 0..MaxClock
      BY <2>1 DEF Row
    <3>2. \A k \in Keys, a \in 0..MaxClock, b \in BOOLEAN :
            [key |-> k, answer |-> a, stamped |-> b] \in FileRow
      BY DEF FileRow
    <3>3. (inner[i].key \in DOMAIN stamps) \in BOOLEAN
      OBVIOUS
    <3> QED
      BY <3>1, <3>2, <3>3, Zenon
  <2>4. file' \in Seq(FileRow)
    BY <1>1, <2>2, <2>3 DEF Save
  <2>5. inner' = inner /\ stamps' = stamps
    BY <1>1 DEF Save, cacheVars
  <2>6. Stores'
    BY <1>a, <2>4, <2>5, SameRows DEF Stores
  <2> QED
    BY <1>1, <1>b, <2>6 DEF Save, CInv
<1>2. CASE SaveFails
  <2>1. inner' = inner /\ stamps' = stamps /\ file' = <<>>
    BY <1>2 DEF SaveFails, cacheVars
  <2>2. Stores'
    BY <1>a, <2>1, SameRows DEF Stores
  <2> QED
    BY <1>2, <1>b, <2>2 DEF SaveFails, CInv
<1>3. CASE Restart
  <2>1. inner' = <<>> /\ stamps' = <<>> /\ file' = file
    BY <1>3 DEF Restart
  <2>2. Lru(<<>>) /\ <<>> \in [DOMAIN <<>> -> 0..MaxClock] /\ DOMAIN <<>> = {}
    BY CacheAssumption DEF Lru
  <2>3. Stores'
    BY <1>a, <2>1, <2>2, SameRows DEF Stores
  <2>4. Requests'
    BY <1>3, <1>a, DropTypes DEF Restart
  <2> QED
    BY <2>3, <2>4 DEF CInv
<1>4. CASE Load
  <2>1. Lru(inner')
    BY <1>4, <1>a, LoadedFacts DEF Load
  <2> DEFINE stamped == {f.key : f \in {g \in ToSet(file) : g.stamped}}
  <2>2. stamped \subseteq Keys
    <3>1. \A i \in DOMAIN file : file[i] \in FileRow
      BY <1>a
    <3> QED
      BY <3>1 DEF ToSet, FileRow
  <2>3. DOMAIN stamps' \subseteq Keys /\ stamps' \in [DOMAIN stamps' -> 0..MaxClock]
    <3>1. stamps' = [k \in DOMAIN stamps \cup stamped |-> IF k \in stamped THEN clock ELSE stamps[k]]
      BY <1>4 DEF Load
    <3> HIDE DEF stamped
    <3> QED
      BY <1>a, <2>2, <3>1 DEF Stores
  <2>4. Stores'
    BY <1>4, <1>a, <2>1, <2>3, SameRows DEF Load, Stores
  <2> QED
    BY <1>4, <1>b, <2>4 DEF Load, CInv
<1>5. CASE Tick
  <2>1. clock' \in 1..MaxClock
    BY <1>5, <1>a DEF Tick, CInv, Requests
  <2>2. Requests'
    BY <1>5, <1>a, <2>1 DEF Tick, callerVars, Requests
  <2> QED
    BY <1>5, <1>a, <2>2, SameStores DEF Tick, CInv
<1> QED
  BY <1>1, <1>2, <1>3, <1>4, <1>5

LEMMA TypeStep == CInv /\ [Next]_vars => CInv'
<1>1. CInv /\ UNCHANGED vars => CInv'
  BY SameStores DEF CInv, Requests, vars, callerVars
<1> QED
  BY <1>1, CallerTypes, OtherTypes DEF Next, Step

(* Through hits, puts, evictions, saves, restarts and loads the cache holds *)
(* max_items entries at most, one per key, and every variable has its type. *)
THEOREM CacheTyped == Spec => []TypeOK
BY CacheInit, TypeStep, CacheTypes, PTL DEF Spec

-----------------------------------------------------------------------------
(* A request for the latest block is never looked up, and what it has been  *)
(* answered with is from a block mined since it was made.                   *)
LInv ==
  \A c \in Callers :
    /\ since[c] <= clock
    /\ pc[c] \in {"lookup", "readStamp", "stamp"} => ~Bypass(req[c])
    /\ pc[c] \in {"arriving", "done"} /\ Bypass(req[c]) => got[c].answer >= since[c]

LEMMA LatestStep == CInv /\ LInv /\ [Next]_vars => LInv'
<1> SUFFICES ASSUME CInv, LInv, [Next]_vars PROVE LInv'
  OBVIOUS
<1>a. /\ Requests /\ clock \in Nat
      /\ pc \in [Callers -> Places] /\ req \in [Callers -> workload \cup {GasPrice}]
      /\ since \in [Callers -> 0..MaxClock]
      /\ got \in [Callers -> [answer : 0..MaxClock, at : 0..MaxClock]]
  BY DEF CInv, Requests
<1>b. ~Bypass(GasPrice)
  BY DEF Bypass, GasPrice, WithBlock
<1>c. \A C : Drop(C) /\ clock' = clock => LInv'
  BY <1>a, <1>b DEF Drop, LInv
<1>1. ASSUME NEW c \in Callers,
             \/ \E r \in workload : Ask(c, r)
             \/ Get(c) \/ ReadStamp(c) \/ Answer(c) \/ CallFails(c)
             \/ Store(c) \/ Stamp(c) \/ Return(c)
      PROVE  LInv'
  <2>1. CASE \E r \in workload : Ask(c, r)
    <3>1. PICK r \in workload : Ask(c, r)
      BY <2>1
    <3> QED
      BY <1>a, <3>1 DEF Ask, Goto, LInv
  <2>2. CASE Get(c)
    <3>1. /\ \A d \in Callers \ {c} : pc'[d] = pc[d] /\ got'[d] = got[d]
          /\ pc'[c] \in {"request", "readStamp", "done"} /\ pc[c] = "lookup"
          /\ req' = req /\ since' = since /\ clock' = clock
      BY <1>a, <2>2 DEF Get, Goto
    <3> QED
      BY <1>a, <3>1 DEF LInv
  <2>3. CASE ReadStamp(c)
    <3>1. /\ \A d \in Callers \ {c} : pc'[d] = pc[d] /\ got'[d] = got[d]
          /\ pc'[c] \in {"request", "done"} /\ pc[c] = "readStamp"
          /\ req' = req /\ since' = since /\ clock' = clock
      BY <1>a, <2>3 DEF ReadStamp, Goto
    <3> QED
      BY <1>a, <3>1 DEF LInv
  <2>4. CASE Answer(c)
    <3>1. /\ \A d \in Callers \ {c} : pc'[d] = pc[d] /\ got'[d] = got[d]
          /\ pc'[c] = "arriving" /\ got'[c].answer = NodeAnswer(req[c])
          /\ req' = req /\ since' = since /\ clock' = clock
      BY <1>a, <2>4 DEF Answer, Goto
    <3>2. Bypass(req[c]) => NodeAnswer(req[c]) = clock
      BY <1>a, RequestFacts
    <3> QED
      BY <1>a, <3>1, <3>2 DEF LInv
  <2>5. CASE CallFails(c) \/ Return(c)
    BY <1>c, <2>5 DEF CallFails, Return
  <2>6. CASE Store(c)
    <3>1. /\ \A d \in Callers \ {c} : pc'[d] = pc[d] /\ got'[d] = got[d]
          /\ pc[c] = "arriving" /\ got'[c].answer = got[c].answer
          /\ pc'[c] = IF req[c] = GasPrice THEN "stamp" ELSE "done"
          /\ req' = req /\ since' = since /\ clock' = clock
      BY <1>a, <2>6 DEF Store, Goto
    <3> QED
      BY <1>a, <1>b, <3>1 DEF LInv
  <2>7. CASE Stamp(c)
    <3>1. /\ \A d \in Callers \ {c} : pc'[d] = pc[d]
          /\ pc[c] = "stamp" /\ pc'[c] = "done"
          /\ UNCHANGED <<got, req, since, clock>>
      BY <1>a, <2>7 DEF Stamp, Goto
    <3> QED
      BY <1>a, <3>1 DEF LInv
  <2> QED
    BY <1>1, <2>1, <2>2, <2>3, <2>4, <2>5, <2>6, <2>7
<1>2. CASE Save \/ SaveFails \/ Load \/ UNCHANGED vars
  <2>1. callerVars' = callerVars /\ clock' = clock
    BY <1>2 DEF Save, SaveFails, Load, vars
  <2> QED
    BY <2>1 DEF callerVars, LInv
<1>3. CASE Restart
  BY <1>c, <1>3 DEF Restart
<1>4. CASE Tick
  BY <1>4, <1>a DEF Tick, callerVars, LInv
<1> QED
  BY <1>1, <1>2, <1>3, <1>4 DEF Next, Step

(* A request for code, a proof or storage of the latest block is answered   *)
(* with nothing older than the request, by any callers on any threads.      *)
THEOREM LatestLive == Spec => []LatestIsLive
<1>1. Init => LInv
  BY DEF Init, LInv
<1>2. CInv /\ LInv => LatestIsLive
  BY DEF LInv, LatestIsLive, Bypass
<1> QED
  BY <1>1, <1>2, CacheInit, TypeStep, LatestStep, PTL DEF Spec

-----------------------------------------------------------------------------
(* On one task, and outside the two steps of a store, the gas price entry   *)
(* has a timestamp no younger than itself; nor is one saved without.        *)
GInv ==
  /\ \A c, d \in Callers : c # d /\ pc[c] \notin Awaits => pc[d] \in Awaits
  /\ \A c \in Callers :
       /\ pc[c] = "readStamp" =>
            req[c] = GasPrice /\ GasPrice \in DOMAIN stamps /\ stamps[GasPrice] <= got[c].at
       /\ pc[c] = "stamp" =>
            /\ req[c] = GasPrice /\ got[c].at = clock
            /\ \A i \in DOMAIN inner : inner[i].key = GasPrice => inner[i].at = clock
       /\ pc[c] = "done" /\ req[c] = GasPrice => clock - got[c].at < Ttl
  /\ (\A c \in Callers : pc[c] # "stamp") =>
       \A i \in DOMAIN inner : inner[i].key = GasPrice =>
         GasPrice \in DOMAIN stamps /\ stamps[GasPrice] <= inner[i].at
  /\ \A i \in DOMAIN file : file[i].key = GasPrice => file[i].stamped

LEMMA FreshCaller ==
  ASSUME ~Parallel, CInv, GInv, NEW c \in Callers,
         \/ \E r \in workload : Ask(c, r)
         \/ Get(c) \/ ReadStamp(c) \/ Answer(c) \/ CallFails(c)
         \/ Store(c) \/ Stamp(c) \/ Return(c)
  PROVE  GInv'
<1>a. /\ Requests /\ Stores /\ Lru(inner) /\ clock \in Nat
      /\ pc \in [Callers -> Places] /\ req \in [Callers -> workload \cup {GasPrice}]
      /\ since \in [Callers -> 0..MaxClock]
      /\ got \in [Callers -> [answer : 0..MaxClock, at : 0..MaxClock]]
      /\ \A k \in DOMAIN stamps : stamps[k] \in Int
      /\ \A i \in DOMAIN inner : inner[i] \in Row
      /\ Ttl \in Nat /\ Ttl > 0
  BY CacheAssumption DEF CInv, Requests, Stores, Lru
<1>b. Key(req[c]) = GasPrice <=> req[c] = GasPrice
  BY <1>a, RequestFacts
<1>c. Runs(c) => \A d \in Callers \ {c} : pc[d] \in Awaits
  BY DEF Runs
<1>d. {"readStamp", "stamp", "done", "lookup"} \cap Awaits = {}
  BY DEF Awaits
<1>1. CASE \E r \in workload : Ask(c, r)
  <2>1. PICK r \in workload : Ask(c, r)
    BY <1>1
  <2>2. /\ \A d \in Callers \ {c} : pc'[d] = pc[d] /\ req'[d] = req[d] /\ pc[d] \in Awaits
        /\ pc[c] = "idle" /\ pc'[c] \in {"request", "lookup"}
        /\ got' = got /\ inner' = inner /\ stamps' = stamps /\ file' = file /\ clock' = clock
    BY <1>a, <1>c, <2>1 DEF Ask, Goto, cacheVars
  <2> QED
    BY <1>a, <1>d, <2>2 DEF GInv
<1>2. CASE Get(c)
  <2>1. /\ \A d \in Callers \ {c} : pc'[d] = pc[d] /\ got'[d] = got[d] /\ pc[d] \in Awaits
        /\ pc[c] = "lookup" /\ pc'[c] \in {"request", "readStamp", "done"}
        /\ req' = req /\ stamps' = stamps /\ file' = file /\ clock' = clock
    BY <1>a, <1>c, <1>2 DEF Get, Goto
  <2>2. \A i \in DOMAIN inner : inner[i].key = GasPrice =>
          GasPrice \in DOMAIN stamps /\ stamps[GasPrice] <= inner[i].at
    BY <1>d, <2>1 DEF GInv
  <2>3. CASE pc'[c] = "request" /\ inner' = inner
    BY <1>a, <1>d, <2>1, <2>2, <2>3 DEF GInv
  <2>4. ASSUME NEW e \in Entry(Key(req[c])),
               got' = [got EXCEPT ![c] = [answer |-> e.answer, at |-> e.at]],
               inner' = Put(inner, e),
               Goto(c, IF req[c] = GasPrice THEN "readStamp" ELSE "done")
        PROVE  GInv'
    <3>1. PICK a \in DOMAIN inner : inner[a] = e /\ e.key = Key(req[c])
      BY DEF Entry, ToSet
    <3>2. \A i \in DOMAIN inner' : \E j \in DOMAIN inner : inner[j] = inner'[i]
      BY <1>a, <2>4, <3>1, PutFacts
    <3>3. \A i \in DOMAIN inner' : inner'[i].key = GasPrice =>
            GasPrice \in DOMAIN stamps /\ stamps[GasPrice] <= inner'[i].at
      BY <2>2, <3>2
    <3>4. got'[c].at = e.at /\ pc'[c] = IF req[c] = GasPrice THEN "readStamp" ELSE "done"
      BY <1>a, <2>4 DEF Goto
    <3>5. req[c] = GasPrice => GasPrice \in DOMAIN stamps /\ stamps[GasPrice] <= got'[c].at
      BY <1>b, <2>2, <3>1, <3>4
    <3> QED
      BY <1>a, <1>d, <2>1, <3>3, <3>4, <3>5 DEF GInv
  <2>5. CASE Goto(c, "request") /\ UNCHANGED <<got, inner>>
    <3>1. pc'[c] = "request" /\ inner' = inner
      BY <1>a, <2>5 DEF Goto
    <3> QED
      BY <2>3, <3>1
  <2> QED
    BY <1>2, <2>4, <2>5 DEF Get
<1>3. CASE ReadStamp(c)
  <2>1. /\ \A d \in Callers \ {c} : pc'[d] = pc[d] /\ got'[d] = got[d] /\ pc[d] \in Awaits
        /\ pc[c] = "readStamp"
        /\ req' = req /\ inner' = inner /\ stamps' = stamps /\ file' = file /\ clock' = clock
    BY <1>a, <1>c, <1>3 DEF ReadStamp, Goto, cacheVars
  <2>2. req[c] = GasPrice /\ GasPrice \in DOMAIN stamps /\ stamps[GasPrice] <= got[c].at
    BY <2>1 DEF GInv
  <2>3. \/ pc'[c] = "request"
        \/ pc'[c] = "done" /\ got'[c] = got[c] /\ clock - stamps[GasPrice] < Ttl
    <3>1. Key(req[c]) = GasPrice
      BY <1>b, <2>2
    <3> QED
      BY <1>a, <1>3, <2>2, <3>1 DEF ReadStamp, Goto, Fresh
  <2>4. pc'[c] = "done" => clock - got'[c].at < Ttl
    BY <1>a, <2>2, <2>3
  <2>5. \A i \in DOMAIN inner : inner[i].key = GasPrice =>
          GasPrice \in DOMAIN stamps /\ stamps[GasPrice] <= inner[i].at
    BY <1>d, <2>1 DEF GInv
  <2> QED
    BY <1>a, <1>d, <2>1, <2>3, <2>4, <2>5 DEF GInv
<1>4. CASE Answer(c)
  <2>1. /\ \A d \in Callers \ {c} : pc'[d] = pc[d] /\ got'[d] = got[d]
        /\ pc[c] = "request" /\ pc'[c] = "arriving" /\ pc[c] \in Awaits /\ pc'[c] \in Awaits
        /\ req' = req /\ inner' = inner /\ stamps' = stamps /\ file' = file /\ clock' = clock
    BY <1>a, <1>4 DEF Answer, Goto, cacheVars, Awaits
  <2> QED
    BY <1>a, <1>d, <2>1 DEF GInv
<1>5. CASE CallFails(c) \/ Return(c)
  <2>1. /\ \A d \in Callers \ {c} : pc'[d] = pc[d] /\ got'[d] = got[d] /\ req'[d] = req[d]
                                    /\ pc[d] \in Awaits
        /\ pc[c] # "stamp" /\ pc'[c] = "idle" /\ pc'[c] \in Awaits
        /\ inner' = inner /\ stamps' = stamps /\ file' = file /\ clock' = clock
    BY <1>a, <1>c, <1>5 DEF CallFails, Return, Drop, cacheVars, Awaits
  <2> QED
    BY <1>a, <1>d, <2>1 DEF GInv
<1>6. CASE Store(c)
  <2> DEFINE e == [key |-> Key(req[c]), answer |-> got[c].answer, at |-> clock]
  <2>1. /\ \A d \in Callers \ {c} : pc'[d] = pc[d] /\ got'[d] = got[d] /\ pc[d] \in Awaits
        /\ pc[c] = "arriving" /\ pc[c] \in Awaits /\ got'[c].at = clock
        /\ pc'[c] = IF req[c] = GasPrice THEN "stamp" ELSE "done"
        /\ inner' = Put(inner, e)
        /\ req' = req /\ stamps' = stamps /\ file' = file /\ clock' = clock
    BY <1>a, <1>c, <1>6 DEF Store, Goto, Awaits
  <2>2. \A i \in DOMAIN inner : inner[i].key = GasPrice =>
          GasPrice \in DOMAIN stamps /\ stamps[GasPrice] <= inner[i].at
    BY <1>d, <2>1 DEF GInv
  <2>3. e \in Row /\ e.key = Key(req[c]) /\ e.at = clock
    <3>1. Key(req[c]) \in Keys /\ clock \in 0..MaxClock /\ got[c].answer \in 0..MaxClock
      BY <1>a, <2>1, RequestFacts DEF Requests
    <3> QED
      BY <3>1 DEF Row
  <2> HIDE DEF e
  <2>4. \A i \in DOMAIN inner' :
          inner'[i] = e \/ \E j \in DOMAIN inner : inner[j] = inner'[i] /\ inner[j].key # e.key
    BY <1>a, <2>1, <2>3, PutFacts
  <2>5. CASE req[c] = GasPrice
    <3>1. \A i \in DOMAIN inner' : inner'[i].key = GasPrice => inner'[i].at = clock
      BY <1>b, <2>3, <2>4, <2>5
    <3> QED
      BY <1>a, <1>d, <2>1, <2>5, <3>1 DEF GInv
  <2>6. CASE req[c] # GasPrice
    <3>1. \A i \in DOMAIN inner' : inner'[i].key = GasPrice =>
            GasPrice \in DOMAIN stamps /\ stamps[GasPrice] <= inner'[i].at
      BY <1>b, <2>2, <2>3, <2>4, <2>6
    <3> QED
      BY <1>a, <1>d, <2>1, <2>6, <3>1 DEF GInv
  <2> QED
    BY <2>5, <2>6
<1>7. CASE Stamp(c)
  <2>1. /\ \A d \in Callers \ {c} : pc'[d] = pc[d] /\ pc[d] \in Awaits
        /\ pc[c] = "stamp" /\ pc'[c] = "done"
        /\ stamps' = [k \in DOMAIN stamps \cup {Key(req[c])} |->
                        IF k = Key(req[c]) THEN clock ELSE stamps[k]]
        /\ got' = got /\ inner' = inner /\ req' = req /\ file' = file /\ clock' = clock
    BY <1>a, <1>c, <1>7 DEF Stamp, Goto
  <2>2. /\ req[c] = GasPrice /\ got[c].at = clock
        /\ \A i \in DOMAIN inner : inner[i].key = GasPrice => inner[i].at = clock
    BY <2>1 DEF GInv
  <2>3. GasPrice \in DOMAIN stamps' /\ stamps'[GasPrice] = clock
    BY <1>b, <2>1, <2>2
  <2>4. clock - clock < Ttl /\ clock <= clock
    BY <1>a
  <2> QED
    BY <1>d, <2>1, <2>2, <2>3, <2>4 DEF GInv
<1> QED
  BY <1>1, <1>2, <1>3, <1>4, <1>5, <1>6, <1>7

LEMMA FreshOther ==
  ASSUME ~Parallel, CInv, GInv, Save \/ SaveFails \/ Restart \/ Load \/ Tick \/ UNCHANGED vars
  PROVE  GInv'
<1>a. /\ Lru(inner) /\ file \in Seq(FileRow) /\ clock \in 0..MaxClock
      /\ pc \in [Callers -> Places]
      /\ \A k \in DOMAIN stamps : stamps[k] \in Int
  BY CacheAssumption DEF CInv, Requests, Stores
<1>b. {"readStamp", "stamp", "done", "lookup"} \cap Awaits = {}
  BY DEF Awaits
<1>c. Between => \A c \in Callers : pc[c] \in Awaits
  BY DEF Between
<1>1. CASE Save
  <2>1. /\ \A i \in DOMAIN inner : inner[i].key = GasPrice => GasPrice \in DOMAIN stamps
        /\ UNCHANGED <<pc, req, got, inner, stamps, clock>>
    BY <1>1, <1>b, <1>c DEF Save, GInv, callerVars, cacheVars
  <2>2. \A i \in DOMAIN file' : file'[i].key = GasPrice => file'[i].stamped
    <3> SUFFICES ASSUME NEW i \in DOMAIN file', file'[i].key = GasPrice PROVE file'[i].stamped
      OBVIOUS
    <3>1. i \in DOMAIN inner /\ file'[i].key = inner[i].key
          /\ file'[i].stamped = (inner[i].key \in DOMAIN stamps)
      BY <1>1 DEF Save
    <3>2. inner[i].key \in DOMAIN stamps
      BY <2>1, <3>1
    <3> QED
      BY <3>1, <3>2
  <2> QED
    BY <2>1, <2>2 DEF GInv
<1>2. CASE SaveFails
  <2>1. file' = <<>> /\ UNCHANGED <<pc, req, got, inner, stamps, clock>>
    BY <1>2 DEF SaveFails, callerVars, cacheVars
  <2> QED
    BY <2>1 DEF GInv
<1>3. CASE Restart
  <2>1. /\ inner' = <<>> /\ stamps' = <<>> /\ file' = file
        /\ \A c \in Callers : pc'[c] = "idle"
    BY <1>3 DEF Restart, Drop
  <2> QED
    BY <2>1 DEF GInv, Awaits
<1>4. CASE Load
  <2> DEFINE stamped == {f.key : f \in {g \in ToSet(file) : g.stamped}}
  <2>1. /\ inner' = Loaded
        /\ stamps' = [k \in DOMAIN stamps \cup stamped |-> IF k \in stamped THEN clock ELSE stamps[k]]
        /\ \A c \in Callers : pc[c] \in Awaits
        /\ UNCHANGED <<pc, req, got, file, clock>>
    BY <1>4, <1>c DEF Load, callerVars
  <2>2. \A k \in stamped : \E h \in DOMAIN file : file[h].key = k
    BY DEF ToSet
  <2>3. \A h \in DOMAIN file : file[h].key = GasPrice => GasPrice \in stamped
    BY DEF GInv, ToSet
  <2> HIDE DEF stamped
  <2>4. ASSUME NEW i \in DOMAIN inner', inner'[i].key = GasPrice
        PROVE  GasPrice \in DOMAIN stamps' /\ stamps'[GasPrice] <= inner'[i].at
    <3>1. CASE GasPrice \in stamped
      <4>1. PICK h \in DOMAIN file : file[h].key = GasPrice
        BY <2>2, <3>1
      <4>2. inner'[i].at = clock
        BY <1>a, <2>1, <2>4, <4>1, LoadedFacts
      <4> QED
        BY <1>a, <2>1, <3>1, <4>2
    <3>2. CASE GasPrice \notin stamped
      <4>1. PICK j \in DOMAIN inner : inner[j] = inner'[i]
        BY <1>a, <2>1, <2>3, <2>4, <3>2, LoadedFacts
      <4>2. GasPrice \in DOMAIN stamps /\ stamps[GasPrice] <= inner'[i].at
        BY <1>b, <2>1, <2>4, <4>1 DEF GInv
      <4> QED
        BY <2>1, <3>2, <4>2
    <3> QED
      BY <3>1, <3>2
  <2> QED
    BY <1>b, <2>1, <2>4 DEF GInv
<1>5. CASE Tick
  <2>1. /\ \A c \in Callers : pc[c] \in Awaits
        /\ UNCHANGED <<pc, req, got, inner, stamps, file>>
    BY <1>5 DEF Tick, callerVars, cacheVars
  <2> QED
    BY <1>b, <2>1 DEF GInv
<1>6. CASE UNCHANGED vars
  BY <1>6 DEF vars, callerVars, cacheVars, GInv
<1> QED
  BY <1>1, <1>2, <1>3, <1>4, <1>5, <1>6

(* On one task, which is how the executor uses the provider, a gas price is *)
(* answered less than the time to live after it was put into the cache,     *)
(* whatever is evicted, saved, restarted and loaded in between.             *)
THEOREM GasIsFresh == ~Parallel => (Spec => []GasFresh)
<1> SUFFICES ASSUME ~Parallel PROVE Spec => []GasFresh
  OBVIOUS
<1>1. Init => GInv
  BY DEF Init, GInv, Awaits
<1>2. CInv /\ GInv /\ [Next]_vars => GInv'
  BY FreshCaller, FreshOther DEF Next, Step
<1>3. GInv => GasFresh
  BY DEF GInv, GasFresh
<1> QED
  BY <1>1, <1>2, <1>3, CacheInit, TypeStep, PTL DEF Spec
=============================================================================
