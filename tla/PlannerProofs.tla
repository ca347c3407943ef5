---------------------------- MODULE PlannerProofs ----------------------------
(***************************************************************************)
(* What the planner builds, for every allocation: the keys are on disk     *)
(* before the addresses are used, every sender can sign, and the plan is a *)
(* tree that keeps the promises of SafePlan - those ProgramProofs rests    *)
(* on - and the one that BalancedTree describes.  The allocation need not  *)
(* even be the one LoopPlan computes.  The same is shown of BalancedTree   *)
(* itself, so that it holds of runs that are given such trees.             *)
(*                                                                         *)
(* The invariant says who an operation's parent is without walking the     *)
(* tree: the operation before it, or, for a funding operation, the latest  *)
(* funding operation before it.  From there on parents have smaller ids,   *)
(* and a least counterexample shows what is above what.                    *)
(***************************************************************************)
EXTENDS Planner, FoldFacts, SequenceTheorems, TLAPS

Ids == 0..(NextId - 1)

Funding(o, n) == n = 0 \/ ~o[n].sweep

IsParent(o, p, n) ==
  /\ p < n
  /\ IF o[n].sweep THEN p = n - 1
     ELSE Funding(o, p) /\ \A q \in (p + 1)..(n - 1) : ~Funding(o, q)

AnyOp == [from : Nat, to : Nat, sweep : BOOLEAN]

Domains ==
  /\ NextId \in Nat \ {0}
  /\ DOMAIN op = Ids /\ DOMAIN children = Ids
  /\ lastOp \in Ids
  /\ pc \in {"fund", "loop", "done", "failed"}

(* A funding operation sends from 0 to a wallet of its own, any other on    *)
(* from where the operation before it has sent to.                          *)
Sends(o, ids) ==
  /\ o[0] = Transfer(0, 0, TRUE)
  /\ \A n \in ids \ {0} :
       \/ o[n] = Transfer(0, n, FALSE)
       \/ /\ o[n] \in {Transfer(n - 1, n, TRUE), Transfer(n - 1, 0, TRUE)}
          /\ n > 1 /\ o[n - 1].to = n - 1

Hangs(c, o, ids) ==
  /\ \A p \in ids :
       /\ c[p] \in Seq(ids \ {0})
       /\ \A i, j \in DOMAIN c[p] : i # j => c[p][i] # c[p][j]
       /\ \A n \in ids \ {0} : n \in Range(c[p]) <=> IsParent(o, p, n)
  /\ \A n \in ids \ {0} : \E p \in ids : IsParent(o, p, n)

OpFacts == Sends(op, Ids)

Links == Hangs(children, op, Ids)

LastFunding == Funding(op, lastOp) /\ \A q \in (lastOp + 1)..(NextId - 1) : ~Funding(op, q)

(* Every wallet sends on, but for that of a loop not generated yet.         *)
Used ==
  \A n \in Ids \ {0} :
    op[n].to = n => \/ n + 1 \in Ids /\ op[n + 1].sweep
                    \/ n = lastOp /\ pc \notin {"fund", "done"}

(* The chain in hand continues the plan that ends with its funding.         *)
Chain ==
  /\ chain \in Seq(AnyOp)
  /\ \A k \in 1..Len(chain) : chain[k] = Transfer(NextId + k - 2, NextId + k - 1, TRUE)
  /\ pc = "loop" => /\ lastOp = NextId - 1 /\ lastOp > 0 /\ op[lastOp].to = lastOp
                    /\ current = NextId - 1 + Len(chain)

Keys ==
  /\ \A n \in Ids : op[n].to \in backups \cup {0}
  /\ \A k \in 1..Len(chain) : chain[k].to \in backups
  /\ registered \cup signers \subseteq backups

Signed ==
  /\ \A n \in Ids : op[n].from \in registered \cup {0}
  /\ \A k \in 1..Len(chain) : chain[k].from \in registered \cup signers
  /\ pc = "loop" => current \in registered \cup signers

PlanInv == Domains /\ OpFacts /\ Links /\ LastFunding /\ Used /\ Chain /\ Keys /\ Signed

-----------------------------------------------------------------------------
LEMMA CountIds == \A k \in Nat : Cardinality(0..(k - 1)) = k /\ IsFiniteSet(0..(k - 1))
<1>1. ASSUME NEW k \in Nat PROVE Cardinality(0..(k - 1)) = k /\ IsFiniteSet(0..(k - 1))
  <2>1. k - 1 \in Int
    OBVIOUS
  <2> QED
    BY <2>1, FS_Interval
<1> QED
  BY <1>1

LEMMA InitPlan == Init => PlanInv
<1> SUFFICES ASSUME Init PROVE PlanInv
  OBVIOUS
<1> USE DEF Init
<1>1. DOMAIN op = {0} /\ DOMAIN children = {0} /\ op[0] = Transfer(0, 0, TRUE)
      /\ children[0] = <<>>
  OBVIOUS
<1>2. NextId = 1
  BY <1>1, FS_Singleton DEF NextId
<1>3. Ids = {0}
  BY <1>2 DEF Ids
<1>4. Domains /\ OpFacts
  BY <1>1, <1>2, <1>3 DEF Domains, OpFacts, Sends
<1>5. Links
  BY <1>1, <1>3 DEF Links, Hangs
<1>6. LastFunding
  BY <1>2 DEF LastFunding, Funding
<1>7. Used /\ Chain
  BY <1>2, <1>3 DEF Used, Chain
<1>8. Keys /\ Signed
  BY <1>1, <1>3 DEF Keys, Signed, Transfer
<1> QED
  BY <1>4, <1>5, <1>6, <1>7, <1>8 DEF PlanInv

(* A parent is the only one: two candidates for a funding operation would   *)
(* have one between the other and it.                                       *)
LEMMA ParentUnique ==
  ASSUME NEW o, NEW n \in Nat, NEW p \in Nat, NEW q \in Nat, IsParent(o, p, n), IsParent(o, q, n)
  PROVE  p = q
<1>1. CASE o[n].sweep
  BY <1>1 DEF IsParent
<1>2. CASE ~o[n].sweep
  <2>1. p < n /\ q < n /\ Funding(o, p) /\ Funding(o, q)
    BY <1>2 DEF IsParent
  <2>2. ~(p < q)
    BY <1>2, <2>1 DEF IsParent
  <2>3. ~(q < p)
    BY <1>2, <2>1 DEF IsParent
  <2> QED
    BY <2>2, <2>3
<1> QED
  BY <1>1, <1>2

-----------------------------------------------------------------------------
(* The plan grows by operations N to z at its end, each the parent of the   *)
(* next, and the last funding operation gets the first as one more child.   *)
Grows(N, z) ==
  /\ N = NextId /\ z >= N
  /\ NextId' = z + 1 /\ Ids' = Ids \cup N..z
  /\ \A n \in Ids : op'[n] = op[n]
  /\ \A p \in Ids : children'[p] = IF p = lastOp THEN Append(children[p], N) ELSE children[p]
  /\ \A n \in N..z : children'[n] = IF n + 1 \in Ids' THEN <<n + 1>> ELSE <<>>
  /\ \A n \in (N + 1)..z : op'[n].sweep
  /\ op'[N].sweep => lastOp = N - 1

LEMMA GrowLinks ==
  ASSUME PlanInv, NEW N \in Nat, NEW z \in Nat, Grows(N, z)
  PROVE  Links'
<1> DEFINE new == N..z
<1> USE DEF Grows
<1>1. N \in Nat \ {0} /\ Ids = 0..(N - 1) /\ Ids' = 0..z
      /\ lastOp \in Ids /\ N \in new
  BY DEF PlanInv, Domains, Ids
<1>2. \A n \in Ids : Funding(op, n)' <=> Funding(op, n)
  BY DEF Funding
<1>3. \A p, n \in Ids : IsParent(op, p, n)' <=> IsParent(op, p, n)
  <2>1. ASSUME NEW p \in Ids, NEW n \in Ids, NEW q \in (p + 1)..(n - 1) PROVE q \in Ids
    BY <1>1
  <2> QED
    BY <1>1, <1>2, <2>1 DEF IsParent
<1>4. \A p \in Ids' : IsParent(op, p, N)' <=> p = lastOp
  <2>1. CASE op'[N].sweep
    BY <1>1, <2>1 DEF IsParent
  <2>2. CASE ~op'[N].sweep
    <3>1. ASSUME NEW p \in Ids', p = lastOp PROVE IsParent(op, p, N)'
      <4>1. p \in Ids /\ p < N /\ Funding(op, p)'
        BY <1>1, <1>2, <3>1 DEF PlanInv, LastFunding
      <4>2. ASSUME NEW q \in (p + 1)..(N - 1) PROVE ~Funding(op, q)'
        <5>1. q \in Ids /\ ~Funding(op, q)
          BY <1>1, <3>1 DEF PlanInv, LastFunding
        <5> QED
          BY <1>2, <5>1
      <4> QED
        BY <2>2, <4>1, <4>2 DEF IsParent
    <3>2. ASSUME NEW p \in Ids', IsParent(op, p, N)' PROVE p = lastOp
      <4>1. p \in Ids /\ Funding(op, p) /\ Funding(op, lastOp)
        BY <1>1, <1>2, <2>2, <3>2 DEF IsParent, PlanInv, LastFunding
      <4>2. ~(p < lastOp)
        BY <1>1, <1>2, <2>2, <3>2, <4>1 DEF IsParent
      <4>3. ~(lastOp < p)
        BY <1>1, <4>1 DEF PlanInv, LastFunding
      <4> QED
        BY <1>1, <4>1, <4>2, <4>3
    <3> QED
      BY <3>1, <3>2
  <2> QED
    BY <2>1, <2>2
<1>5. \A n \in new \ {N}, p \in Ids' : IsParent(op, p, n)' <=> p = n - 1
  BY <1>1 DEF IsParent
<1>6. ASSUME NEW p \in Ids
      PROVE  /\ children'[p] \in Seq(Ids' \ {0})
             /\ \A i, j \in DOMAIN children'[p] : i # j => children'[p][i] # children'[p][j]
             /\ \A n \in Ids' \ {0} : n \in Range(children'[p]) <=>
                  n \in Range(children[p]) \/ (n = N /\ p = lastOp)
  <2>1. children[p] \in Seq(Ids \ {0}) /\ Ids \ {0} \subseteq Ids' \ {0} /\ N \notin Ids
    BY <1>1 DEF PlanInv, Links, Hangs
  <2>2. \A i, j \in DOMAIN children[p] : i # j => children[p][i] # children[p][j]
    BY DEF PlanInv, Links, Hangs
  <2>3. CASE p # lastOp
    BY <2>1, <2>2, <2>3
  <2>4. CASE p = lastOp
    <3> DEFINE s == children[p]
    <3>1. children'[p] = Append(s, N) /\ N \in Ids' \ {0}
      BY <1>1, <2>4
    <3>2. s \in Seq(Ids' \ {0}) /\ Len(s) \in Nat /\ DOMAIN s = 1..Len(s)
      BY <2>1
    <3>3. /\ DOMAIN Append(s, N) = 1..(Len(s) + 1)
          /\ Append(s, N)[Len(s) + 1] = N
          /\ \A i \in 1..Len(s) : Append(s, N)[i] = s[i] /\ s[i] \in Ids
      BY <2>1, <3>2
    <3>4. \A i, j \in 1..(Len(s) + 1) : i # j => Append(s, N)[i] # Append(s, N)[j]
      <4>1. \A i, j \in 1..Len(s) : i # j => s[i] # s[j]
        BY <2>2, <3>2
      <4>2. \A i \in 1..Len(s) : Append(s, N)[i] # N
        BY <2>1, <3>3
      <4> HIDE DEF s
      <4>3. \A i \in 1..(Len(s) + 1) : i \in 1..Len(s) \/ i = Len(s) + 1
        BY <3>2
      <4> QED
        BY <3>3, <4>1, <4>2, <4>3
    <3>5. Append(s, N) \in Seq(Ids' \ {0})
      BY <3>1, <3>2
    <3>6. \A n : n \in Range(Append(s, N)) <=> n \in Range(s) \/ n = N
      BY <3>2, <3>3 DEF Range
    <3> QED
      BY <2>4, <3>1, <3>3, <3>4, <3>5, <3>6
  <2> QED
    BY <2>3, <2>4
<1>7. ASSUME NEW p \in new
      PROVE  /\ children'[p] \in Seq(Ids' \ {0})
             /\ \A i, j \in DOMAIN children'[p] : i # j => children'[p][i] # children'[p][j]
             /\ \A n \in Ids' \ {0} : n \in Range(children'[p]) <=> n = p + 1
  <2>1. CASE p + 1 \in Ids'
    <3>1. children'[p] = <<p + 1>>
      BY <2>1
    <3>2. p + 1 \in Ids' \ {0}
      BY <1>1, <2>1
    <3>3. Range(<<p + 1>>) = {p + 1}
      BY DEF Range
    <3> QED
      BY <3>1, <3>2, <3>3
  <2>2. CASE p + 1 \notin Ids'
    <3>1. children'[p] = <<>>
      BY <2>2
    <3>2. Range(<<>>) = {}
      BY DEF Range
    <3> QED
      BY <2>2, <3>1, <3>2
  <2> QED
    BY <2>1, <2>2
<1>8. ASSUME NEW p \in Ids', NEW n \in Ids' \ {0}
      PROVE  n \in Range(children'[p]) <=> IsParent(op, p, n)'
  <2>1. CASE p \in Ids /\ n \in Ids
    <3>1. n \in Range(children[p]) <=> IsParent(op, p, n)
      BY <1>1, <1>8, <2>1 DEF PlanInv, Links, Hangs
    <3>2. n # N
      BY <1>1, <2>1
    <3> QED
      BY <1>3, <1>6, <2>1, <3>1, <3>2
  <2>2. CASE p \in Ids /\ n \in new
    <3>1. n \notin Range(children[p])
      <4>1. Range(children[p]) \subseteq Ids
        BY <2>2 DEF PlanInv, Links, Hangs, Range
      <4> QED
        BY <1>1, <2>2, <4>1
    <3>2. n # N => p # n - 1
      BY <1>1, <2>2
    <3>3. n \in Range(children'[p]) <=> n = N /\ p = lastOp
      BY <1>6, <1>8, <2>2, <3>1
    <3>4. IsParent(op, p, n)' <=> n = N /\ p = lastOp
      <4>1. CASE n = N
        BY <1>4, <1>8, <4>1
      <4>2. CASE n # N
        BY <1>5, <1>8, <2>2, <3>2, <4>2
      <4> QED
        BY <4>1, <4>2
    <3> QED
      BY <3>3, <3>4
  <2>3. CASE p \in new /\ n \in Ids
    <3>1. ~IsParent(op, p, n)'
      BY <1>1, <2>3 DEF IsParent
    <3>2. n # p + 1
      BY <1>1, <2>3
    <3> QED
      BY <1>7, <2>3, <3>1, <3>2
  <2>4. CASE p \in new /\ n \in new
    <3>1. n = N => p # lastOp /\ n # p + 1
      BY <1>1, <2>4
    <3>2. n = p + 1 <=> p = n - 1
      BY <1>1, <2>4
    <3> QED
      BY <1>4, <1>5, <1>7, <2>4, <3>1, <3>2
  <2> QED
    BY <2>1, <2>2, <2>3, <2>4
<1>9. ASSUME NEW n \in Ids' \ {0} PROVE \E p \in Ids' : IsParent(op, p, n)'
  <2>1. CASE n \in Ids
    BY <1>3, <2>1 DEF PlanInv, Links, Hangs
  <2>2. CASE n = N
    BY <1>4, <1>1, <2>2
  <2>3. CASE n \in new \ {N}
    <3>1. n - 1 \in Ids'
      BY <1>1, <2>3
    <3> QED
      BY <1>5, <2>3, <3>1
  <2> QED
    BY <2>1, <2>2, <2>3
<1>10. \A p \in Ids' : p \in Ids \/ p \in new
  OBVIOUS
<1> QED
  BY <1>6, <1>7, <1>8, <1>9, <1>10 DEF Links, Hangs

LEMMA FundEffect ==
  ASSUME PlanInv, Fund, NEW N \in Nat \ {0}, N = NextId
  PROVE  /\ Ids = 0..(N - 1) /\ lastOp \in Ids
         /\ DOMAIN op' = 0..N /\ DOMAIN children' = 0..N
         /\ \A n \in Ids : op'[n] = op[n]
         /\ op'[N] = Transfer(0, N, FALSE)
         /\ \A p \in Ids : children'[p] = IF p = lastOp THEN Append(children[p], N)
                                          ELSE children[p]
         /\ children'[N] = <<>>
         /\ NextId' = N + 1 /\ Ids' = 0..N
         /\ lastOp' = N /\ current' = N /\ chain' = <<>> /\ signers' = {} /\ pc' = "loop"
         /\ pc = "fund" /\ backups' = backups \cup {N} /\ registered' = registered \cup {N}
<1>1. N = NextId
  OBVIOUS
<1>2. Ids = 0..(N - 1) /\ DOMAIN op = Ids /\ DOMAIN children = Ids /\ lastOp \in Ids
  BY <1>1 DEF PlanInv, Domains, Ids
<1>3. /\ DOMAIN op' = 0..N /\ DOMAIN children' = 0..N
      /\ \A n \in Ids : op'[n] = op[n]
      /\ op'[N] = Transfer(0, N, FALSE)
      /\ \A p \in Ids : children'[p] = IF p = lastOp THEN Append(children[p], N)
                                       ELSE children[p]
      /\ children'[N] = <<>>
  <2>1. Ids \cup {N} = 0..N /\ N \notin Ids
    BY <1>2
  <2>2. /\ op' = Extend(op, N, Transfer(0, N, FALSE))
        /\ children' = [Extend(children, N, <<>>) EXCEPT ![lastOp] = Append(@, N)]
    BY <1>1 DEF Fund
  <2> QED
    BY <1>2, <2>1, <2>2 DEF Extend
<1>4. NextId' = N + 1 /\ Ids' = 0..N
  BY <1>3, CountIds DEF NextId, Ids
<1>5. /\ lastOp' = N /\ current' = N /\ chain' = <<>> /\ signers' = {} /\ pc' = "loop"
      /\ pc = "fund" /\ backups' = backups \cup {N} /\ registered' = registered \cup {N}
  BY <1>1 DEF Fund, BackupsWith
<1> QED
  BY <1>2, <1>3, <1>4, <1>5

LEMMA FundStep == PlanInv /\ Fund => PlanInv'
<1> SUFFICES ASSUME PlanInv, Fund PROVE PlanInv'
  OBVIOUS
<1>1. PICK N \in Nat \ {0} : N = NextId
  BY DEF PlanInv, Domains
<1>2. Ids = 0..(N - 1) /\ lastOp \in Ids
  BY <1>1, FundEffect
<1>3. /\ DOMAIN op' = 0..N /\ DOMAIN children' = 0..N
      /\ \A n \in Ids : op'[n] = op[n]
      /\ op'[N] = Transfer(0, N, FALSE)
      /\ \A p \in Ids : children'[p] = IF p = lastOp THEN Append(children[p], N)
                                       ELSE children[p]
      /\ children'[N] = <<>>
  BY <1>1, FundEffect
<1>4. NextId' = N + 1 /\ Ids' = 0..N
  BY <1>1, FundEffect
<1>5. /\ lastOp' = N /\ current' = N /\ chain' = <<>> /\ signers' = {} /\ pc' = "loop"
      /\ pc = "fund" /\ backups' = backups \cup {N} /\ registered' = registered \cup {N}
  BY <1>1, FundEffect
<1>6. Domains'
  BY <1>3, <1>4, <1>5 DEF Domains
<1>7. OpFacts'
  <2>1. op'[0] = op[0] /\ \A n \in Ids : n > 1 => op'[n - 1] = op[n - 1]
    BY <1>2, <1>3
  <2>2. \A n \in Ids' \ {0} : n = N \/ n \in Ids \ {0}
    BY <1>2, <1>4
  <2> QED
    BY <1>3, <2>1, <2>2 DEF PlanInv, OpFacts, Sends
<1>8. Links'
  <2>1. Ids' = Ids \cup N..N /\ N + 1 \notin Ids'
    BY <1>2, <1>4
  <2>2. ~op'[N].sweep
    BY <1>3 DEF Transfer
  <2>3. \A n \in N..N : n = N
    OBVIOUS
  <2>4. \A n \in N..N : children'[n] = IF n + 1 \in Ids' THEN <<n + 1>> ELSE <<>>
    BY <1>3, <2>1, <2>3
  <2>5. \A n \in (N + 1)..N : op'[n].sweep
    OBVIOUS
  <2>6. Grows(N, N)
    <3>1. N = NextId /\ N >= N /\ NextId' = N + 1 /\ Ids' = Ids \cup N..N
      BY <1>1, <1>4, <2>1
    <3>2. \A n \in Ids : op'[n] = op[n]
      BY <1>3
    <3>3. \A p \in Ids : children'[p] = IF p = lastOp THEN Append(children[p], N)
                                         ELSE children[p]
      BY <1>3
    <3> QED
      BY <2>2, <2>4, <2>5, <3>1, <3>2, <3>3, Zenon DEF Grows
  <2> QED
    BY <2>6, GrowLinks
<1>9. LastFunding'
  BY <1>3, <1>4, <1>5 DEF LastFunding, Funding, Transfer
<1>10. Used'
  <2>1. ASSUME NEW n \in Ids' \ {0}, op'[n].to = n PROVE n = N \/ (n + 1 \in Ids' /\ op'[n + 1].sweep)
    <3>1. CASE n \in Ids
      <4>1. op[n].to = n
        BY <1>3, <2>1, <3>1
      <4>2. n + 1 \in Ids /\ op[n + 1].sweep
        BY <1>5, <2>1, <3>1, <4>1 DEF PlanInv, Used
      <4> QED
        BY <1>2, <1>3, <1>4, <4>2
    <3>2. n \in Ids \/ n = N
      BY <1>2, <1>4, <2>1
    <3> QED
      BY <3>1, <3>2
  <2> QED
    BY <1>5, <2>1 DEF Used
<1>11. Chain'
  BY <1>1, <1>3, <1>4, <1>5 DEF Chain, Transfer
<1>12. Keys'
  <2>1. \A n \in Ids' : op'[n].to \in backups' \cup {0}
    BY <1>2, <1>3, <1>4, <1>5 DEF PlanInv, Keys, Transfer
  <2> QED
    BY <1>5, <2>1 DEF PlanInv, Keys
<1>13. Signed'
  <2>1. \A n \in Ids' : op'[n].from \in registered' \cup {0}
    BY <1>2, <1>3, <1>4, <1>5 DEF PlanInv, Signed, Transfer
  <2> QED
    BY <1>5, <2>1 DEF Signed
<1> QED
  BY <1>6, <1>7, <1>8, <1>9, <1>10, <1>11, <1>12, <1>13 DEF PlanInv

LEMMA ExtendLoopStep == PlanInv /\ ExtendLoop => PlanInv'
<1> SUFFICES ASSUME PlanInv, ExtendLoop PROVE PlanInv'
  OBVIOUS
<1>1. PICK N \in Nat \ {0} : N = NextId
  BY DEF PlanInv, Domains
<1>2. UNCHANGED <<children, op, lastOp, registered, pc>> /\ pc = "loop"
  BY DEF ExtendLoop, treeVars
<1>3. NextId' = N /\ Ids' = Ids
  BY <1>1, <1>2 DEF NextId, Ids
<1> DEFINE w == N + Len(chain)
<1>4. /\ backups' = backups \cup {w} /\ signers' = signers \cup {w} /\ current' = w
      /\ chain' = Append(chain, Transfer(current, w, TRUE))
  BY <1>1 DEF ExtendLoop, NewWallet, BackupsWith
<1>5. /\ chain \in Seq(AnyOp) /\ Len(chain) \in Nat
      /\ current = N - 1 + Len(chain) /\ lastOp = N - 1
  BY <1>1, <1>2 DEF PlanInv, Chain
<1>6. /\ chain' \in Seq(AnyOp)
      /\ Len(chain') = Len(chain) + 1
      /\ chain'[Len(chain) + 1] = Transfer(current, w, TRUE)
      /\ \A k \in 1..Len(chain) : chain'[k] = chain[k]
      /\ \A k \in 1..Len(chain') : k \in 1..Len(chain) \/ k = Len(chain) + 1
  <2>1. PICK e \in AnyOp : e = Transfer(current, w, TRUE)
    <3>1. Transfer(current, w, TRUE) \in AnyOp
      BY <1>1, <1>5 DEF Transfer, AnyOp
    <3> QED
      BY <3>1
  <2>2. chain' = Append(chain, e)
    BY <1>4, <2>1
  <2>3. /\ Append(chain, e) \in Seq(AnyOp)
        /\ Len(chain) \in Nat /\ Len(Append(chain, e)) = Len(chain) + 1
        /\ Append(chain, e)[Len(chain) + 1] = e
        /\ \A k \in 1..Len(chain) : Append(chain, e)[k] = chain[k]
        /\ \A k \in 1..(Len(chain) + 1) : k \in 1..Len(chain) \/ k = Len(chain) + 1
    <3>1. chain \in Seq(AnyOp) /\ e \in AnyOp
      BY <1>5, <2>1
    <3>2. Append(chain, e) \in Seq(AnyOp)
      BY <3>1
    <3>3. Len(chain) \in Nat /\ Len(Append(chain, e)) = Len(chain) + 1
      BY <3>1
    <3>4. Append(chain, e)[Len(chain) + 1] = e
      BY <3>1
    <3>5. \A k \in 1..Len(chain) : Append(chain, e)[k] = chain[k]
      BY <3>1
    <3> QED
      BY <3>2, <3>3, <3>4, <3>5
  <2> QED
    BY <2>1, <2>2, <2>3
<1>7. Domains' /\ OpFacts' /\ Links' /\ LastFunding' /\ Used'
  <2>1. Domains'
    BY <1>1, <1>2, <1>3 DEF PlanInv, Domains
  <2>2. OpFacts'
    BY <1>2, <1>3 DEF PlanInv, OpFacts, Sends
  <2>3. \A p, n : IsParent(op, p, n)' <=> IsParent(op, p, n)
    BY <1>2 DEF IsParent, Funding
  <2>4. Links'
    BY <1>2, <1>3, <2>3 DEF PlanInv, Links, Hangs
  <2>5. LastFunding'
    BY <1>1, <1>2, <1>3 DEF PlanInv, LastFunding, Funding
  <2>6. Used'
    BY <1>2, <1>3 DEF PlanInv, Used
  <2> QED
    BY <2>1, <2>2, <2>4, <2>5, <2>6
<1>8. Chain'
  <2>1. chain' \in Seq(AnyOp)
    BY <1>6
  <2>2. ASSUME NEW k \in 1..Len(chain') PROVE chain'[k] = Transfer(N + k - 2, N + k - 1, TRUE)
    <3>1. CASE k \in 1..Len(chain)
      BY <1>1, <1>6, <3>1 DEF PlanInv, Chain
    <3>2. CASE k = Len(chain) + 1
      <4>1. N + k - 2 = current /\ N + k - 1 = w
        BY <1>1, <1>5, <3>2
      <4> QED
        BY <1>6, <3>2, <4>1
    <3> QED
      BY <1>6, <2>2, <3>1, <3>2
  <2>3. lastOp' = N - 1 /\ lastOp' > 0 /\ op'[lastOp'].to = lastOp' /\ current' = N - 1 + Len(chain')
    BY <1>1, <1>2, <1>4, <1>5, <1>6 DEF PlanInv, Chain
  <2> QED
    BY <1>3, <2>1, <2>2, <2>3 DEF Chain
<1>9. Keys'
  <2>1. \A k \in 1..Len(chain') : chain'[k].to \in backups'
    BY <1>4, <1>6 DEF PlanInv, Keys, Transfer
  <2> QED
    BY <1>2, <1>3, <1>4, <2>1 DEF PlanInv, Keys
<1>10. Signed'
  <2>1. current \in registered \cup signers
    BY <1>2 DEF PlanInv, Signed
  <2>2. \A k \in 1..Len(chain') : chain'[k].from \in registered' \cup signers'
    BY <1>2, <1>4, <1>6, <2>1 DEF PlanInv, Signed, Transfer
  <2> QED
    BY <1>2, <1>3, <1>4, <2>2 DEF PlanInv, Signed
<1> QED
  BY <1>7, <1>8, <1>9, <1>10 DEF PlanInv

LEMMA CloseEffect ==
  ASSUME PlanInv, CloseLoop, NEW N \in Nat \ {0}, NEW z \in Nat,
         N = NextId /\ z = N + Len(chain)
  PROVE  /\ Ids = 0..(N - 1) /\ DOMAIN op = Ids /\ DOMAIN children = Ids
         /\ lastOp = N - 1 /\ lastOp > 0 /\ op[lastOp].to = lastOp /\ current = z - 1
         /\ pc = "loop"
         /\ DOMAIN op' = 0..z /\ DOMAIN children' = 0..z
         /\ \A n \in Ids : op'[n] = op[n]
         /\ op'[z] = Transfer(z - 1, 0, TRUE)
         /\ \A n \in N..(z - 1) : op'[n] = Transfer(n - 1, n, TRUE)
         /\ \A p \in Ids : children'[p] = IF p = lastOp THEN Append(children[p], N)
                                          ELSE children[p]
         /\ children'[z] = <<>> /\ \A n \in N..(z - 1) : children'[n] = <<n + 1>>
         /\ NextId' = z + 1 /\ Ids' = 0..z
         /\ lastOp' = lastOp /\ backups' = backups /\ chain' = <<>> /\ signers' = {} /\ pc' = "fund"
         /\ registered' = registered \cup signers
<1>1. N = NextId
  OBVIOUS
<1>2. PICK m \in Nat \ {0} :
        m = Len(chain) + 1 /\ z = N + m - 1 /\ z >= N /\ m = z - N + 1
  <2>1. Len(chain) \in Nat
    BY DEF PlanInv, Chain
  <2> QED
    BY <2>1
<1> DEFINE new == N..z
<1>3. /\ Ids = 0..(N - 1) /\ DOMAIN op = Ids /\ DOMAIN children = Ids
      /\ lastOp = N - 1 /\ lastOp > 0 /\ op[lastOp].to = lastOp /\ current = z - 1
      /\ pc = "loop"
  <2>1. pc = "loop"
    BY DEF CloseLoop
  <2> QED
    BY <1>1, <1>2, <2>1 DEF PlanInv, Domains, Chain, Ids
<1>4. PICK ops \in Seq(AnyOp) :
        /\ ops = Append(chain, Transfer(current, ReturnAddress, TRUE))
        /\ Len(ops) = m
        /\ ops[m] = Transfer(z - 1, 0, TRUE)
        /\ \A k \in 1..(m - 1) : ops[k] = chain[k]
  <2>1. PICK e \in AnyOp :
          e = Transfer(current, ReturnAddress, TRUE)
    <3>1. Transfer(current, ReturnAddress, TRUE) \in AnyOp
      BY <1>1, <1>2, <1>3 DEF Transfer, ReturnAddress, AnyOp
    <3> QED
      BY <3>1
  <2>2. chain \in Seq(AnyOp)
    BY DEF PlanInv, Chain
  <2>3. /\ Append(chain, e) \in Seq(AnyOp)
        /\ Len(Append(chain, e)) = m /\ Append(chain, e)[m] = e
        /\ \A k \in 1..(m - 1) : Append(chain, e)[k] = chain[k]
    <3>1. m = Len(chain) + 1 /\ m - 1 = Len(chain)
      BY <1>2, <2>2
    <3>2. /\ Append(chain, e) \in Seq(AnyOp)
          /\ Len(chain) \in Nat /\ Len(Append(chain, e)) = Len(chain) + 1
          /\ Append(chain, e)[Len(chain) + 1] = e
          /\ \A k \in 1..Len(chain) : Append(chain, e)[k] = chain[k]
          /\ \A k \in 1..(Len(chain) + 1) : k \in 1..Len(chain) \/ k = Len(chain) + 1
      <4>1. chain \in Seq(AnyOp) /\ e \in AnyOp
        BY <2>1, <2>2
      <4>2. Append(chain, e) \in Seq(AnyOp)
        BY <4>1
      <4>3. Len(chain) \in Nat /\ Len(Append(chain, e)) = Len(chain) + 1
        BY <4>1
      <4>4. Append(chain, e)[Len(chain) + 1] = e
        BY <4>1
      <4>5. \A k \in 1..Len(chain) : Append(chain, e)[k] = chain[k]
        BY <4>1
      <4> QED
        BY <4>2, <4>3, <4>4, <4>5
    <3> QED
      BY <3>1, <3>2
  <2>4. e = Transfer(z - 1, 0, TRUE)
    BY <1>3, <2>1 DEF ReturnAddress
  <2> QED
    BY <2>1, <2>3, <2>4
<1>5. /\ DOMAIN op' = 0..z /\ DOMAIN children' = 0..z
      /\ \A n \in Ids : op'[n] = op[n]
      /\ op'[z] = Transfer(z - 1, 0, TRUE)
      /\ \A n \in N..(z - 1) : op'[n] = Transfer(n - 1, n, TRUE)
      /\ \A p \in Ids : children'[p] = IF p = lastOp THEN Append(children[p], N)
                                       ELSE children[p]
      /\ children'[z] = <<>> /\ \A n \in N..(z - 1) : children'[n] = <<n + 1>>
  <2>1. /\ op' = [n \in DOMAIN op \cup new |-> IF n \in new THEN ops[n - N + 1] ELSE op[n]]
        /\ children' = [n \in DOMAIN op \cup new |->
                          IF n \in new THEN IF n = z THEN <<>> ELSE <<n + 1>>
                          ELSE IF n = lastOp THEN Append(children[n], N) ELSE children[n]]
    BY <1>1, <1>2, <1>4 DEF CloseLoop, LoopParent
  <2>2. Ids \cup new = 0..z /\ Ids \cap new = {}
    BY <1>2, <1>3
  <2>3. /\ z \in new /\ z - N + 1 = m
        /\ \A n \in N..(z - 1) : n \in new /\ n # z /\ n - N + 1 \in 1..(m - 1)
    BY <1>2
  <2>4. op'[z] = ops[m] /\ children'[z] = <<>>
    BY <1>3, <2>1, <2>3
  <2>5. ASSUME NEW n \in N..(z - 1)
        PROVE  op'[n] = Transfer(n - 1, n, TRUE) /\ children'[n] = <<n + 1>>
    <3>1. PICK k \in 1..(m - 1) : k = n - N + 1
      BY <2>3
    <3>2. op'[n] = ops[k] /\ children'[n] = <<n + 1>>
      BY <1>3, <2>1, <2>3, <3>1
    <3>3. k \in 1..Len(chain)
      BY <1>2
    <3>4. chain[k] = Transfer(N + k - 2, N + k - 1, TRUE)
      BY <1>1, <3>3 DEF PlanInv, Chain
    <3>5. N + k - 2 = n - 1 /\ N + k - 1 = n
      BY <3>1
    <3> QED
      BY <1>4, <3>2, <3>4, <3>5
  <2> QED
    BY <1>3, <1>4, <2>1, <2>2, <2>4, <2>5
<1>6. NextId' = z + 1 /\ Ids' = 0..z
  <2>1. Cardinality(0..((z + 1) - 1)) = z + 1
    BY CountIds
  <2> QED
    BY <1>5, <2>1 DEF NextId, Ids
<1>7. /\ lastOp' = lastOp /\ backups' = backups /\ chain' = <<>> /\ signers' = {} /\ pc' = "fund"
      /\ registered' = registered \cup signers
  BY DEF CloseLoop, LoopSigners
<1> HIDE DEF new
<1> QED
  BY <1>3, <1>5, <1>6, <1>7

LEMMA CloseLoopStep == PlanInv /\ CloseLoop => PlanInv'
<1> SUFFICES ASSUME PlanInv, CloseLoop PROVE PlanInv'
  OBVIOUS
<1>1. PICK N \in Nat \ {0} : N = NextId
  BY DEF PlanInv, Domains
<1>2. PICK z \in Nat : z = N + Len(chain) /\ z >= N /\ Len(chain) = z - N
  <2>1. Len(chain) \in Nat
    BY DEF PlanInv, Chain
  <2> QED
    BY <1>1, <2>1
<1> DEFINE new == N..z
<1>3. /\ Ids = 0..(N - 1) /\ DOMAIN op = Ids /\ DOMAIN children = Ids
      /\ lastOp = N - 1 /\ lastOp > 0 /\ op[lastOp].to = lastOp /\ current = z - 1
      /\ pc = "loop"
  BY <1>1, <1>2, CloseEffect
<1>5. /\ DOMAIN op' = 0..z /\ DOMAIN children' = 0..z
      /\ \A n \in Ids : op'[n] = op[n]
      /\ op'[z] = Transfer(z - 1, 0, TRUE)
      /\ \A n \in N..(z - 1) : op'[n] = Transfer(n - 1, n, TRUE)
      /\ \A p \in Ids : children'[p] = IF p = lastOp THEN Append(children[p], N)
                                       ELSE children[p]
      /\ children'[z] = <<>> /\ \A n \in N..(z - 1) : children'[n] = <<n + 1>>
  BY <1>1, <1>2, CloseEffect
<1>6. NextId' = z + 1 /\ Ids' = 0..z
  BY <1>1, <1>2, CloseEffect
<1>7. /\ lastOp' = lastOp /\ backups' = backups /\ chain' = <<>> /\ signers' = {} /\ pc' = "fund"
      /\ registered' = registered \cup signers
  BY <1>1, <1>2, CloseEffect
<1>8. /\ \A n \in Ids' : n \in Ids \/ n \in new
      /\ \A n \in new : n \in N..(z - 1) \/ n = z
  BY <1>3, <1>6
<1>9. Domains'
  BY <1>2, <1>3, <1>5, <1>6, <1>7 DEF Domains
<1>10. OpFacts'
  <2>1. op'[0] = op[0] /\ \A n \in Ids : n > 1 => op'[n - 1] = op[n - 1]
    BY <1>3, <1>5
  <2>2. ASSUME NEW n \in new
        PROVE  /\ op'[n] \in {Transfer(n - 1, n, TRUE), Transfer(n - 1, 0, TRUE)}
               /\ n > 1 /\ op'[n - 1].to = n - 1
    <3>1. op'[n] \in {Transfer(n - 1, n, TRUE), Transfer(n - 1, 0, TRUE)} /\ n > 1
      <4>1. n > 1
        BY <1>3
      <4>2. n = z => z - 1 = n - 1
        OBVIOUS
      <4> QED
        BY <1>5, <1>8, <4>1, <4>2
    <3>2. CASE n = N
      <4>1. n - 1 = lastOp /\ lastOp \in Ids /\ op'[lastOp] = op[lastOp]
        BY <1>3, <1>5, <3>2
      <4> QED
        BY <1>3, <3>1, <4>1
    <3>3. CASE n # N
      <4>1. n - 1 \in N..(z - 1)
        BY <3>3
      <4>2. op'[n - 1] = Transfer((n - 1) - 1, n - 1, TRUE)
        BY <1>5, <4>1
      <4> QED
        BY <3>1, <4>2 DEF Transfer
    <3> QED
      BY <3>1, <3>2, <3>3
  <2>3. \A n \in Ids \ {0} : \/ op'[n] = Transfer(0, n, FALSE)
                             \/ /\ op'[n] \in {Transfer(n - 1, n, TRUE), Transfer(n - 1, 0, TRUE)}
                                /\ n > 1 /\ op'[n - 1].to = n - 1
    BY <1>5, <2>1 DEF PlanInv, OpFacts, Sends
  <2> QED
    BY <1>8, <2>1, <2>2, <2>3 DEF PlanInv, OpFacts, Sends
<1>11. \A n \in new : op'[n].sweep
  <2>1. op'[z].sweep
    <3>1. op'[z] = Transfer(z - 1, 0, TRUE)
      BY <1>5
    <3> QED
      BY <3>1 DEF Transfer
  <2>2. ASSUME NEW n \in N..(z - 1) PROVE op'[n].sweep
    <3>1. op'[n] = Transfer(n - 1, n, TRUE)
      BY <1>5
    <3> QED
      BY <3>1 DEF Transfer
  <2> QED
    BY <1>8, <2>1, <2>2
<1>12. Links'
  <2>1. Ids' = Ids \cup new
    BY <1>2, <1>3, <1>6
  <2>2. \A n \in new : children'[n] = IF n + 1 \in Ids' THEN <<n + 1>> ELSE <<>>
    <3>1. z + 1 \notin Ids' /\ \A n \in N..(z - 1) : n + 1 \in Ids'
      BY <1>6
    <3> QED
      BY <1>5, <1>8, <3>1
  <2>3. \A n \in (N + 1)..z : op'[n].sweep
    BY <1>11
  <2> QED
    <3>1. Grows(N, z)
      <4>1. N = NextId /\ z >= N /\ NextId' = z + 1 /\ Ids' = Ids \cup N..z
        BY <1>1, <1>2, <1>6, <2>1
      <4>2. \A n \in Ids : op'[n] = op[n]
        BY <1>5
      <4>3. \A p \in Ids : children'[p] = IF p = lastOp THEN Append(children[p], N)
                                           ELSE children[p]
        BY <1>5
      <4>4. op'[N].sweep => lastOp = N - 1
        BY <1>3
      <4> QED
        BY <2>2, <2>3, <4>1, <4>2, <4>3, <4>4, Zenon DEF Grows
    <3> QED
      BY <3>1, GrowLinks
<1>13. LastFunding'
  <2>1. \A q \in (lastOp + 1)..z : q \in new /\ q # 0
    BY <1>3
  <2>2. Funding(op, lastOp)'
    BY <1>3, <1>5, <1>7 DEF PlanInv, LastFunding, Funding
  <2>3. \A q \in new : ~Funding(op, q)'
    BY <1>11 DEF Funding
  <2> QED
    BY <1>6, <1>7, <2>1, <2>2, <2>3 DEF LastFunding
<1>14. Used'
  <2>1. ASSUME NEW n \in Ids' \ {0}, op'[n].to = n PROVE n + 1 \in Ids' /\ op'[n + 1].sweep
    <3>1. CASE n \in Ids /\ n # lastOp
      <4>1. op[n].to = n
        BY <1>5, <2>1, <3>1
      <4>2. n + 1 \in Ids /\ op[n + 1].sweep
        BY <3>1, <4>1 DEF PlanInv, Used
      <4> QED
        BY <1>2, <1>3, <1>5, <1>6, <4>2
    <3>2. CASE n = lastOp
      <4>1. n + 1 = N /\ N \in new /\ N \in Ids'
        BY <1>2, <1>3, <1>6, <3>2
      <4> QED
        BY <1>11, <4>1
    <3>3. CASE n \in new
      <4>1. n # z
        BY <1>3, <1>5, <2>1, <3>3 DEF Transfer
      <4>2. n + 1 \in new /\ n + 1 \in Ids'
        BY <1>6, <3>3, <4>1
      <4> QED
        BY <1>11, <4>2
    <3> QED
      BY <1>8, <3>1, <3>2, <3>3
  <2> QED
    BY <2>1 DEF Used
<1>15. Chain'
  BY <1>7 DEF Chain
<1>16. ASSUME NEW n \in new
       PROVE  op'[n].to \in backups \cup {0} /\ op'[n].from \in registered \cup signers
  <2>1. CASE n = z
    <3>1. op'[z].to = 0 /\ op'[z].from = z - 1
      BY <1>5 DEF Transfer
    <3>2. current \in registered \cup signers
      BY <1>3 DEF PlanInv, Signed
    <3> QED
      BY <1>3, <2>1, <3>1, <3>2
  <2>2. CASE n # z
    <3>1. PICK k \in 1..Len(chain) : n = N + k - 1
      <4>1. n - N + 1 \in 1..Len(chain) /\ n = N + (n - N + 1) - 1
        BY <1>2, <2>2
      <4> QED
        BY <4>1
    <3>2. N + k - 2 = n - 1
      BY <3>1
    <3>3. chain[k] = Transfer(N + k - 2, N + k - 1, TRUE)
      BY <1>1 DEF PlanInv, Chain
    <3>4. op'[n] = chain[k]
      BY <1>5, <1>8, <2>2, <3>1, <3>2, <3>3
    <3> QED
      BY <3>4 DEF PlanInv, Keys, Signed
  <2> QED
    BY <2>1, <2>2
<1>17. Keys'
  <2>1. \A n \in Ids' : op'[n].to \in backups \cup {0}
    BY <1>5, <1>8, <1>16 DEF PlanInv, Keys
  <2> QED
    BY <1>7, <2>1 DEF PlanInv, Keys
<1>18. Signed'
  <2>1. \A n \in Ids' : op'[n].from \in registered \cup signers \cup {0}
    BY <1>5, <1>8, <1>16 DEF PlanInv, Signed
  <2> QED
    BY <1>7, <2>1 DEF Signed
<1> QED
  BY <1>9, <1>10, <1>12, <1>13, <1>14, <1>15, <1>17, <1>18 DEF PlanInv

LEMMA PlanOtherStep == PlanInv /\ (BackupFails \/ Finish \/ Done \/ UNCHANGED vars) => PlanInv'
<1> SUFFICES ASSUME PlanInv, BackupFails \/ Finish \/ Done \/ UNCHANGED vars PROVE PlanInv'
  OBVIOUS
<1>1. UNCHANGED <<children, op, lastOp, current, chain, signers, backups, registered>>
      /\ (pc' = pc \/ pc' = "failed" \/ (pc = "fund" /\ pc' = "done"))
  BY DEF BackupFails, Finish, Done, vars, treeVars
<1>2. NextId' = NextId /\ Ids' = Ids
  BY <1>1 DEF NextId, Ids
<1>3. Domains'
  BY <1>1, <1>2 DEF PlanInv, Domains
<1>4. OpFacts'
  BY <1>1, <1>2 DEF PlanInv, OpFacts, Sends
<1>5. \A p, n : IsParent(op, p, n)' <=> IsParent(op, p, n)
  BY <1>1 DEF IsParent, Funding
<1>6. Links'
  BY <1>1, <1>2, <1>5 DEF PlanInv, Links, Hangs
<1>7. LastFunding'
  BY <1>1, <1>2 DEF PlanInv, LastFunding, Funding
<1>8. Used'
  BY <1>1, <1>2 DEF PlanInv, Used
<1>9. Chain'
  BY <1>1, <1>2 DEF PlanInv, Chain
<1>10. Keys' /\ Signed'
  BY <1>1, <1>2 DEF PlanInv, Keys, Signed
<1> QED
  BY <1>3, <1>4, <1>6, <1>7, <1>8, <1>9, <1>10 DEF PlanInv

LEMMA PlanInvariance == Spec => []PlanInv
<1>1. PlanInv /\ [Next]_vars => PlanInv'
  BY FundStep, ExtendLoopStep, CloseLoopStep, PlanOtherStep DEF Next
<1> QED
  BY <1>1, InitPlan, PTL DEF Spec

-----------------------------------------------------------------------------
(* For every allocation, also when the planner fails half-way: no address   *)
(* is in an operation whose key is not on disk.                             *)
THEOREM KeysSafe == Spec => []KeysBackedUp
<1>1. ASSUME PlanInv PROVE KeysBackedUp
  <2>1. Nodes(Plan) = Ids /\ \A n : From(Plan, n) = op[n].from /\ To(Plan, n) = op[n].to
    BY <1>1 DEF PlanInv, Domains, Plan, Nodes, From, To
  <2>2. \A n \in Ids : op[n].to \in backups \cup {0} /\ op[n].from \in backups \cup {0}
    BY <1>1 DEF PlanInv, Keys, Signed
  <2>3. \A k \in DOMAIN chain : chain[k].to \in backups
    <3>1. DOMAIN chain = 1..Len(chain)
      BY <1>1 DEF PlanInv, Chain
    <3> QED
      BY <1>1, <3>1 DEF PlanInv, Keys
  <2> QED
    BY <1>1, <2>1, <2>2, <2>3 DEF KeysBackedUp, Named, Addresses, PlanInv, Keys
<1> QED
  BY <1>1, PlanInvariance, PTL

(* For every allocation the root wallet can sign for every sender.          *)
THEOREM SendersCanSign == Spec => []SendersSigned
<1>1. PlanInv => SendersSigned
  BY DEF PlanInv, Domains, Signed, SendersSigned, Plan, Nodes, From
<1> QED
  BY <1>1, PlanInvariance, PTL

-----------------------------------------------------------------------------
(* What PlanInv says of the tree, whoever made it: nodes are numbered, sent *)
(* and hung as above, and, once nothing waits for its loop, every wallet    *)
(* sends on.                                                                *)
PlanShape(t) ==
  /\ t.root = 0 /\ DOMAIN t.op = Nodes(t)
  /\ \E N \in Nat \ {0} : Nodes(t) = 0..(N - 1)
  /\ Sends(t.op, Nodes(t)) /\ Hangs(t.children, t.op, Nodes(t))

SendsOn(t) ==
  \A n \in Nodes(t) \ {0} : To(t, n) = n => n + 1 \in Nodes(t) /\ t.op[n + 1].sweep

LEMMA ShapeOfPlan ==
  PlanInv => PlanShape(Plan) /\ (pc \in {"fund", "done"} => SendsOn(Plan))
<1> SUFFICES ASSUME PlanInv PROVE PlanShape(Plan) /\ (pc \in {"fund", "done"} => SendsOn(Plan))
  OBVIOUS
<1>1. Plan.root = 0 /\ Plan.op = op /\ Plan.children = children
  BY DEF Plan
<1>2. Nodes(Plan) = Ids /\ DOMAIN op = Ids /\ NextId \in Nat \ {0} /\ Ids = 0..(NextId - 1)
  BY <1>1 DEF PlanInv, Domains, Nodes, Ids
<1>3. PlanShape(Plan)
  BY <1>1, <1>2 DEF PlanShape, PlanInv, OpFacts, Links
<1>4. pc \in {"fund", "done"} => SendsOn(Plan)
  BY <1>1, <1>2 DEF SendsOn, To, PlanInv, Used
<1> QED
  BY <1>3, <1>4

LEMMA ShapeNodes ==
  ASSUME NEW t, PlanShape(t)
  PROVE  /\ 0 \in Nodes(t) /\ Nodes(t) \subseteq Nat /\ IsFiniteSet(Nodes(t))
         /\ \A k \in Nodes(t), j \in Nat : j <= k => j \in Nodes(t)
<1>1. PICK N \in Nat \ {0} : Nodes(t) = 0..(N - 1)
  BY DEF PlanShape
<1>2. IsFiniteSet(0..(N - 1))
  BY CountIds
<1> QED
  BY <1>1, <1>2

(* The parent of a node, as the tree has it, is the one IsParent names; it  *)
(* has a smaller id.                                                        *)
LEMMA PlanParent ==
  ASSUME NEW t, PlanShape(t), NEW n \in Nodes(t) \ {0}
  PROVE  /\ ParentOf(t, n) \in Nodes(t) /\ ParentOf(t, n) < n
         /\ IsParent(t.op, ParentOf(t, n), n)
<1>1. \A p \in Nodes(t) : n \in Kids(t, p) <=> IsParent(t.op, p, n)
  BY DEF PlanShape, Hangs, Kids
<1>2. \E p \in Nodes(t) : n \in Kids(t, p)
  BY <1>1 DEF PlanShape, Hangs
<1>3. ParentOf(t, n) \in Nodes(t) /\ n \in Kids(t, ParentOf(t, n))
  BY <1>2 DEF ParentOf
<1> QED
  BY <1>1, <1>3 DEF IsParent

LEMMA ShapeIsTree == ASSUME NEW t, PlanShape(t) PROVE IsTree(t)
<1> DEFINE N == Nodes(t)
<1>1. t.root = 0 /\ 0 \in N /\ N \subseteq Nat /\ DOMAIN t.op = N
  BY ShapeNodes DEF PlanShape
<1>2. ASSUME NEW p \in N
      PROVE  /\ t.children[p] \in Seq(N) /\ 0 \notin Kids(t, p) /\ Kids(t, p) \subseteq N \ {0}
             /\ \A i, j \in DOMAIN t.children[p] : i # j => t.children[p][i] # t.children[p][j]
             /\ \A n \in N \ {0} : n \in Kids(t, p) <=> IsParent(t.op, p, n)
  <2>1. t.children[p] \in Seq(N \ {0})
    BY DEF PlanShape, Hangs
  <2>2. t.children[p] \in Seq(N) /\ Kids(t, p) \subseteq N \ {0}
    BY <2>1 DEF Kids, Range
  <2>3. /\ \A i, j \in DOMAIN t.children[p] : i # j => t.children[p][i] # t.children[p][j]
        /\ \A n \in N \ {0} : n \in Kids(t, p) <=> IsParent(t.op, p, n)
    BY DEF PlanShape, Hangs, Kids
  <2> QED
    BY <2>2, <2>3
<1>3. ASSUME NEW p \in N, NEW q \in N, p # q PROVE Kids(t, p) \cap Kids(t, q) = {}
  <2>1. ASSUME NEW n \in Kids(t, p), n \in Kids(t, q) PROVE FALSE
    <3>1. n \in N \ {0} /\ IsParent(t.op, p, n) /\ IsParent(t.op, q, n)
      BY <1>2, <2>1
    <3>2. p \in Nat /\ q \in Nat /\ n \in Nat
      BY <1>1, <3>1
    <3> QED
      BY <1>3, <3>1, <3>2, ParentUnique
  <2> QED
    BY <2>1
<1>4. ASSUME NEW n \in N \ {0} PROVE \E p \in N : n \in Kids(t, p)
  BY PlanParent, <1>2
<1>5. ASSUME NEW S \in SUBSET (N \ {0}), S # {} PROVE \E n \in S : ParentOf(t, n) \notin S
  <2>1. PICK n \in S : \A y \in S : n <= y
    BY <1>1, <1>5, LeastNat
  <2>2. ParentOf(t, n) < n /\ ParentOf(t, n) \in Nat /\ n \in Nat
    BY <1>1, PlanParent
  <2> QED
    BY <2>1, <2>2
<1>6. \A S \in (SUBSET (N \ {t.root})) \ {{}} : \E n \in S : ParentOf(t, n) \notin S
  BY <1>1, <1>5
<1>7. \A n \in N : /\ t.children[n] \in Seq(N) /\ t.root \notin Kids(t, n)
                   /\ \A i, j \in DOMAIN t.children[n] :
                        i # j => t.children[n][i] # t.children[n][j]
  BY <1>1, <1>2
<1> QED
  BY <1>1, <1>3, <1>4, <1>6, <1>7 DEF IsTree

(* Funding operations form one line from the root: an earlier one is in     *)
(* every set of operations that holds a later one and the parents of its    *)
(* own.  The least later one for which it were not has a parent that is     *)
(* not before it.                                                           *)
LEMMA FundingLine ==
  ASSUME NEW t, PlanShape(t), NEW f \in Nodes(t), NEW g \in Nodes(t), f < g,
         Funding(t.op, f), Funding(t.op, g), NEW S \in ParentClosed(t), g \in S
  PROVE  f \in S
<1> SUFFICES ASSUME f \notin S PROVE FALSE
  OBVIOUS
<1> DEFINE T == {k \in S : f < k /\ Funding(t.op, k)}
<1>1. S \subseteq Nodes(t) /\ Nodes(t) \subseteq Nat /\ \A k \in S \ {0} : ParentOf(t, k) \in S
  BY ShapeNodes DEF ParentClosed, PlanShape
<1>2. PICK k \in T : \A y \in T : k <= y
  <2>1. g \in T /\ T \subseteq Nat
    BY <1>1
  <2> HIDE DEF T
  <2> QED
    BY <2>1, LeastNat
<1>3. k \in Nodes(t) \ {0} /\ f \in Nat /\ k \in Nat /\ f < k /\ ~t.op[k].sweep
  BY <1>1, <1>2 DEF Funding
<1> DEFINE p == ParentOf(t, k)
<1>4. p \in S /\ p \in Nat /\ p < k /\ IsParent(t.op, p, k)
  BY <1>1, <1>2, <1>3, PlanParent
<1>5. Funding(t.op, p) /\ \A q \in (p + 1)..(k - 1) : ~Funding(t.op, q)
  BY <1>3, <1>4 DEF IsParent
<1>6. ~(p < f)
  BY <1>3, <1>4, <1>5
<1>7. p = f \/ p \in T
  BY <1>3, <1>4, <1>5, <1>6
<1> QED
  BY <1>2, <1>3, <1>4, <1>7

LEMMA OpFields ==
  ASSUME NEW t, PlanShape(t), NEW n \in Nodes(t) \ {0}
  PROVE  \/ ~t.op[n].sweep /\ From(t, n) = 0 /\ To(t, n) = n
         \/ /\ t.op[n].sweep /\ From(t, n) = n - 1 /\ To(t, n) \in {0, n}
            /\ n > 1 /\ To(t, n - 1) = n - 1
<1> USE DEF From, To
<1>1. CASE t.op[n] = Transfer(0, n, FALSE)
  BY <1>1 DEF Transfer
<1>2. CASE t.op[n] # Transfer(0, n, FALSE)
  <2>1. /\ t.op[n] \in {Transfer(n - 1, n, TRUE), Transfer(n - 1, 0, TRUE)}
        /\ n > 1 /\ t.op[n - 1].to = n - 1
    BY <1>2 DEF PlanShape, Sends
  <2>2. t.op[n] = Transfer(n - 1, n, TRUE) =>
          t.op[n].sweep /\ t.op[n].from = n - 1 /\ t.op[n].to = n
    BY DEF Transfer
  <2>3. t.op[n] = Transfer(n - 1, 0, TRUE) =>
          t.op[n].sweep /\ t.op[n].from = n - 1 /\ t.op[n].to = 0
    BY DEF Transfer
  <2> QED
    BY <2>1, <2>2, <2>3
<1> QED
  BY <1>1, <1>2

LEMMA RootFields == ASSUME NEW t, PlanShape(t) PROVE From(t, 0) = 0 /\ To(t, 0) = 0
  BY DEF PlanShape, Sends, Transfer, From, To

(* Operations in conflict are ordered: two from the root wallet are funding *)
(* operations, and all that touch the wallet a sweep empties is the         *)
(* operation before it, its parent.                                         *)
LEMMA PlanOrdersConflicts == ASSUME NEW t, PlanShape(t) PROVE ConflictsOrdered(t)
<1> SUFFICES ASSUME NEW m \in Nodes(t), NEW n \in Nodes(t), m < n,
                    Conflict(t, m, n) \/ Conflict(t, n, m)
             PROVE  \A S \in ParentClosed(t) : n \in S => m \in S
  <2>1. \A m, n \in Nodes(t) : m # n => m < n \/ n < m
    BY ShapeNodes
  <2> QED
    BY <2>1 DEF ConflictsOrdered
<1>1. Nodes(t) \subseteq Nat /\ n \in Nodes(t) \ {0} /\ t.root = 0
  BY ShapeNodes DEF PlanShape
<1>2. /\ Funding(t.op, n) => From(t, n) = 0 /\ To(t, n) = n
      /\ ~Funding(t.op, n) => From(t, n) = n - 1 /\ To(t, n) \in {0, n} /\ n > 1
  BY <1>1, OpFields DEF Funding
<1>3. CASE m = 0
  <2>1. From(t, m) = 0 /\ To(t, m) = 0
    BY <1>3, RootFields
  <2>2. Funding(t.op, n) /\ Funding(t.op, m)
    BY <1>1, <1>2, <1>3, <2>1 DEF Conflict, Funding
  <2> QED
    BY <2>2, FundingLine
<1>4. CASE m # 0
  <2>1. /\ Funding(t.op, m) => From(t, m) = 0 /\ To(t, m) = m /\ ~t.op[m].sweep
        /\ ~Funding(t.op, m) => From(t, m) = m - 1 /\ To(t, m) \in {0, m} /\ m > 1
    BY <1>1, <1>4, OpFields DEF Funding
  <2>2. CASE Funding(t.op, m) /\ Funding(t.op, n)
    BY <2>2, FundingLine
  <2>3. CASE ~Funding(t.op, m) \/ ~Funding(t.op, n)
    <3>1. n - 1 = m /\ ~Funding(t.op, n)
      BY <1>1, <1>2, <1>4, <2>1, <2>3 DEF Conflict, Funding
    <3>2. t.op[n].sweep
      BY <3>1 DEF Funding
    <3>3. ParentOf(t, n) = m
      BY <1>1, <3>1, <3>2, PlanParent DEF IsParent
    <3> QED
      BY <1>1, <3>3 DEF ParentClosed
  <2> QED
    BY <2>2, <2>3
<1> QED
  BY <1>3, <1>4

LEMMA PlanForwards == ASSUME NEW t, PlanShape(t) PROVE SendsWhatItGot(t)
<1> SUFFICES ASSUME NEW n \in Nodes(t), From(t, n) # 0
             PROVE  From(t, n) = To(t, ParentOf(t, n))
  BY RootFields DEF SendsWhatItGot, PlanShape
<1>1. n \in Nodes(t) \ {0} /\ t.op[n].sweep /\ From(t, n) = n - 1 /\ To(t, n - 1) = n - 1
  BY OpFields, RootFields
<1>2. ParentOf(t, n) = n - 1
  BY <1>1, PlanParent DEF IsParent
<1> QED
  BY <1>1, <1>2

LEMMA PlanUsesWallets == ASSUME NEW t, PlanShape(t), SendsOn(t) PROVE EveryWalletSends(t)
<1> SUFFICES ASSUME NEW w \in Addresses(t), w # 0
             PROVE  \E n \in Nodes(t) : From(t, n) = w /\ To(t, n) # w
  BY RootFields DEF EveryWalletSends, PlanShape
<1>1. PICK k \in Nodes(t) : From(t, k) = w \/ To(t, k) = w
  BY DEF Addresses
<1>2. Nodes(t) \subseteq Nat /\ k # 0
  BY <1>1, ShapeNodes, RootFields
<1>3. CASE From(t, k) = w
  <2>1. From(t, k) = k - 1 /\ To(t, k) \in {0, k}
    BY <1>2, <1>3, OpFields
  <2> QED
    BY <1>1, <1>2, <1>3, <2>1
<1>4. CASE To(t, k) = w
  <2>1. To(t, k) = k
    BY <1>2, <1>4, OpFields
  <2>2. k + 1 \in Nodes(t) /\ t.op[k + 1].sweep
    BY <1>1, <1>2, <2>1 DEF SendsOn
  <2>3. From(t, k + 1) = (k + 1) - 1 /\ To(t, k + 1) \in {0, k + 1}
    <3>1. k + 1 \in Nodes(t) \ {0}
      BY <1>2, <2>2
    <3> QED
      BY <2>2, <3>1, OpFields
  <2> QED
    BY <1>1, <1>2, <1>4, <2>1, <2>2, <2>3
<1> QED
  BY <1>1, <1>3, <1>4

LEMMA PlanFillsOnce == ASSUME NEW t, PlanShape(t) PROVE FilledOnceAndEmptied(t)
<1>1. t.root = 0 /\ From(t, 0) = 0
  BY RootFields DEF PlanShape
<1>2. \A n \in Nodes(t) : To(t, n) \in {0, n} /\ (From(t, n) # 0 => t.op[n].sweep)
  BY OpFields, RootFields
<1> QED
  BY <1>1, <1>2 DEF FilledOnceAndEmptied

LEMMA ShapeIsSafe == ASSUME NEW t, PlanShape(t), SendsOn(t) PROVE IsTree(t) /\ SafePlan(t)
  BY ShapeIsTree, PlanOrdersConflicts, PlanForwards, PlanUsesWallets, PlanFillsOnce DEF SafePlan

(* Whatever the allocation, the plan is a tree that keeps the promises the  *)
(* executor's runs rest on: what SafeTrees and TreesAssumption ask of the   *)
(* trees a run is given holds of every tree the planner makes.              *)
THEOREM PlansAreSafe == Spec => []PlanIsSafe
<1>1. PlanInv => PlanIsSafe
  BY ShapeOfPlan, ShapeIsSafe DEF PlanIsSafe
<1> QED
  BY <1>1, PlanInvariance, PTL

LEMMA PlansAreFinite == Spec => []IsFiniteSet(Nodes(Plan))
<1>1. PlanInv => IsFiniteSet(Nodes(Plan))
  BY ShapeOfPlan, ShapeNodes
<1> QED
  BY <1>1, PlanInvariance, PTL

-----------------------------------------------------------------------------
Allocation == Seq(Nat \ {0})

Before(s, j) == SumFunctionOnSet(s, 1..(j - 1))

LEMMA BeforeFacts ==
  ASSUME NEW s \in Allocation
  PROVE  /\ \A j \in 1..(Len(s) + 1) : Before(s, j) \in Int
         /\ Before(s, 1) = 0
         /\ \A j \in 1..Len(s) : Before(s, j + 1) = Before(s, j) + s[j]
<1>1. Len(s) \in Nat /\ DOMAIN s = 1..Len(s) /\ \A j \in 1..Len(s) : s[j] \in Nat \ {0}
  BY DEF Allocation
<1>2. \A j \in 1..(Len(s) + 1) : IsFiniteSet(1..(j - 1)) /\ Ints(s, 1..(j - 1))
  <2>1. ASSUME NEW j \in 1..(Len(s) + 1) PROVE IsFiniteSet(1..(j - 1)) /\ Ints(s, 1..(j - 1))
    <3>1. 1 \in Int /\ j - 1 \in Int /\ 1..(j - 1) \subseteq 1..Len(s)
      BY <1>1
    <3>2. \A a, b \in Int : IsFiniteSet(a..b)
      BY FS_Interval
    <3> QED
      BY <1>1, <3>1, <3>2 DEF Ints
  <2> QED
    BY <2>1
<1>3. \A j \in 1..(Len(s) + 1) : Before(s, j) \in Int
  BY <1>2, SumType DEF Before
<1>4. Before(s, 1) = 0
  <2>1. 1..(1 - 1) = {}
    OBVIOUS
  <2> QED
    BY <2>1, SumNone DEF Before
<1>5. ASSUME NEW j \in 1..Len(s) PROVE Before(s, j + 1) = Before(s, j) + s[j]
  <2>1. /\ 1..((j + 1) - 1) = 1..(j - 1) \cup {j} /\ j \notin 1..(j - 1)
        /\ j \in 1..(Len(s) + 1) /\ j + 1 \in 1..(Len(s) + 1)
    BY <1>1
  <2>2. IsFiniteSet(1..(j - 1)) /\ Ints(s, 1..(j - 1) \cup {j})
    BY <1>2, <2>1
  <2>3. SumFunctionOnSet(s, 1..(j - 1) \cup {j}) = SumFunctionOnSet(s, 1..(j - 1)) + s[j]
    BY <2>1, <2>2, SumAdd
  <2> QED
    BY <2>1, <2>3 DEF Before
<1> QED
  BY <1>3, <1>4, <1>5

LEMMA AllBefore ==
  ASSUME NEW s \in Allocation
  PROVE  FoldFunction(+, 0, s) = Before(s, Len(s) + 1)
<1>1. FoldFunction(+, 0, s) = SumFunctionOnSet(s, DOMAIN s)
  BY DEF FoldFunction, SumFunctionOnSet
<1>2. DOMAIN s = 1..((Len(s) + 1) - 1)
  BY DEF Allocation
<1> QED
  BY <1>1, <1>2 DEF Before

(* The funding operation of loop j comes after j - 1 others and their       *)
(* loops.                                                                   *)
LEMMA FundingIdIsSum ==
  ASSUME NEW s \in Allocation, NEW j \in 1..(Len(s) + 1)
  PROVE  FundingId(s)[j] = j + Before(s, j)
<1> DEFINE Js == 1..(Len(s) + 1)
           Body(g) == [i \in Js |-> IF i = 1 THEN 1 ELSE g[i - 1] + 1 + s[i - 1]]
           sums == [i \in Js |-> i + Before(s, i)]
<1>1. Len(s) \in Nat /\ \A i \in 1..Len(s) : s[i] \in Nat \ {0}
  BY DEF Allocation
<1>2. FundingId(s) = CHOOSE g : g = Body(g)
  BY DEF FundingId
<1>3. \A i \in Js : i # 1 => i - 1 \in Js /\ i - 1 \in 1..Len(s) /\ (i - 1) + 1 = i
  BY <1>1
<1>4. ASSUME NEW i \in Js PROVE sums[i] = Body(sums)[i]
  <2>1. CASE i = 1
    BY <2>1, BeforeFacts
  <2>2. CASE i # 1
    <3> DEFINE h == i - 1
    <3>1. h \in Js /\ h \in 1..Len(s) /\ h + 1 = i
      BY <1>3, <2>2
    <3>2. Before(s, h + 1) = Before(s, h) + s[h] /\ Before(s, h) \in Int
      BY <3>1, BeforeFacts
    <3>3. sums[i] = (h + 1) + Before(s, h + 1) /\ sums[h] = h + Before(s, h)
      BY <3>1
    <3>4. Body(sums)[i] = sums[h] + 1 + s[h]
      BY <2>2
    <3>5. h \in Int /\ s[h] \in Int
      BY <1>1, <3>1
    <3> HIDE DEF h, sums, Body
    <3> QED
      BY <3>2, <3>3, <3>4, <3>5
  <2> QED
    BY <2>1, <2>2
<1>5. sums = Body(sums)
  <2>1. sums = [i \in Js |-> sums[i]] /\ Body(sums) = [i \in Js |-> Body(sums)[i]]
    OBVIOUS
  <2> HIDE DEF sums, Body
  <2> QED
    BY <1>4, <2>1
<1>6. FundingId(s) = Body(FundingId(s))
  <2> HIDE DEF sums, Body
  <2> QED
    BY <1>2, <1>5
<1> DEFINE P == {k \in Nat : k + 1 \in Js => FundingId(s)[k + 1] = sums[k + 1]}
<1>7. 0 \in P
  <2>1. 1 \in Js /\ 0 + 1 = 1
    BY <1>1
  <2>2. FundingId(s)[1] = 1
    BY <1>6, <2>1
  <2>3. sums[1] = 1
    BY <2>1, BeforeFacts
  <2> QED
    BY <2>1, <2>2, <2>3
<1>8. ASSUME NEW k \in Nat, k \in P PROVE k + 1 \in P
  <2> SUFFICES ASSUME (k + 1) + 1 \in Js PROVE FundingId(s)[(k + 1) + 1] = sums[(k + 1) + 1]
    BY <1>8
  <2> DEFINE i == (k + 1) + 1
  <2>1. i \in Js /\ i # 1 /\ i - 1 = k + 1 /\ k + 1 \in Js
    BY <1>1
  <2>2. FundingId(s)[i] = FundingId(s)[i - 1] + 1 + s[i - 1]
    <3>1. FundingId(s)[i] = Body(FundingId(s))[i]
      BY <1>6
    <3> HIDE DEF i
    <3> QED
      BY <2>1, <3>1
  <2>3. sums[i] = sums[i - 1] + 1 + s[i - 1]
    <3>1. sums[i] = Body(sums)[i]
      BY <1>4, <2>1
    <3>2. Body(sums)[i] = sums[i - 1] + 1 + s[i - 1]
      <4> HIDE DEF i, sums
      <4> QED
        BY <2>1
    <3> QED
      BY <3>1, <3>2
  <2>4. FundingId(s)[k + 1] = sums[k + 1]
    BY <1>8, <2>1
  <2> HIDE DEF i, sums
  <2>5. FundingId(s)[i] = sums[i]
    BY <2>1, <2>2, <2>3, <2>4
  <2> QED
    BY <2>5 DEF i
<1>9. Nat \subseteq P
  <2> HIDE DEF P
  <2> QED
    BY <1>7, <1>8, NatSetInduction
<1>10. j - 1 \in Nat /\ (j - 1) + 1 = j
  BY <1>1
<1>11. FundingId(s)[j] = sums[j]
  <2>1. j - 1 \in P
    BY <1>9, <1>10
  <2> HIDE DEF sums
  <2> QED
    BY <1>10, <2>1
<1> QED
  BY <1>11

LEMMA FundingIdFacts ==
  ASSUME NEW s \in Allocation
  PROVE  /\ Len(s) \in Nat /\ DOMAIN s = 1..Len(s) /\ \A j \in 1..Len(s) : s[j] \in Nat \ {0}
         /\ \A j \in 1..(Len(s) + 1) : FundingId(s)[j] \in Int
         /\ FundingId(s)[1] = 1
         /\ \A j \in 1..Len(s) : FundingId(s)[j + 1] = FundingId(s)[j] + 1 + s[j]
<1>1. Len(s) \in Nat /\ DOMAIN s = 1..Len(s) /\ \A j \in 1..Len(s) : s[j] \in Nat \ {0}
  BY DEF Allocation
<1>2. \A j \in 1..(Len(s) + 1) : FundingId(s)[j] = j + Before(s, j) /\ Before(s, j) \in Int
  BY FundingIdIsSum, BeforeFacts
<1>3. \A j \in 1..(Len(s) + 1) : FundingId(s)[j] \in Int
  BY <1>2
<1>4. FundingId(s)[1] = 1
  BY <1>1, <1>2, BeforeFacts
<1>5. ASSUME NEW j \in 1..Len(s) PROVE FundingId(s)[j + 1] = FundingId(s)[j] + 1 + s[j]
  <2>1. j \in 1..(Len(s) + 1) /\ j + 1 \in 1..(Len(s) + 1) /\ s[j] \in Int
    BY <1>1
  <2>2. Before(s, j + 1) = Before(s, j) + s[j]
    BY BeforeFacts
  <2>3. /\ FundingId(s)[j + 1] = (j + 1) + Before(s, j + 1) /\ FundingId(s)[j] = j + Before(s, j)
        /\ Before(s, j) \in Int
    BY <1>2, <2>1
  <2> QED
    BY <2>1, <2>2, <2>3
<1> QED
  BY <1>1, <1>3, <1>4, <1>5

LEMMA WalletCount ==
  ASSUME NEW s \in Allocation
  PROVE  FoldFunction(+, 0, s) = FundingId(s)[Len(s) + 1] - (Len(s) + 1)
<1>1. Len(s) + 1 \in 1..(Len(s) + 1) /\ Len(s) \in Nat
  BY DEF Allocation
<1>2. FundingId(s)[Len(s) + 1] = (Len(s) + 1) + Before(s, Len(s) + 1) /\ Before(s, Len(s) + 1) \in Int
  BY <1>1, FundingIdIsSum, BeforeFacts
<1>3. FoldFunction(+, 0, s) = Before(s, Len(s) + 1)
  BY AllBefore
<1>4. Before(s, Len(s) + 1) = FundingId(s)[Len(s) + 1] - (Len(s) + 1)
  BY <1>1, <1>2
<1> QED
  BY <1>3, <1>4

(* The loops lie one after the other.                                       *)
LEMMA LoopsApart ==
  ASSUME NEW s \in Allocation, NEW i \in 1..(Len(s) + 1), NEW j \in 1..(Len(s) + 1), i < j
  PROVE  FundingId(s)[i] >= 1 /\ FundingId(s)[i] + s[i] < FundingId(s)[j]
<1> DEFINE P == {k \in Nat : \A a \in 1..(Len(s) + 1), b \in 1..(Len(s) + 1) :
                  b = a + k + 1 => FundingId(s)[a] + s[a] < FundingId(s)[b]}
<1>1. 0 \in P
  <2>1. ASSUME NEW a \in 1..(Len(s) + 1), NEW b \in 1..(Len(s) + 1), b = a + 0 + 1
        PROVE  FundingId(s)[a] + s[a] < FundingId(s)[b]
    <3>1. a \in 1..Len(s) /\ b = a + 1
      BY <2>1, FundingIdFacts
    <3>2. FundingId(s)[a + 1] = FundingId(s)[a] + 1 + s[a] /\ FundingId(s)[a] \in Int /\ s[a] \in Int
      BY <3>1, FundingIdFacts
    <3> QED
      BY <3>1, <3>2
  <2> QED
    BY <2>1
<1>2. ASSUME NEW k \in Nat, k \in P PROVE k + 1 \in P
  <2>1. ASSUME NEW a \in 1..(Len(s) + 1), NEW b \in 1..(Len(s) + 1), b = a + (k + 1) + 1
        PROVE  FundingId(s)[a] + s[a] < FundingId(s)[b]
    <3>1. a \in 1..Len(s) /\ b - 1 \in 1..Len(s) /\ (b - 1) + 1 = b /\ b - 1 = a + k + 1
          /\ b - 1 \in 1..(Len(s) + 1)
      BY <2>1, FundingIdFacts
    <3>2. FundingId(s)[a] + s[a] < FundingId(s)[b - 1]
      BY <1>2, <3>1
    <3>3. /\ FundingId(s)[(b - 1) + 1] = FundingId(s)[b - 1] + 1 + s[b - 1]
          /\ s[a] \in Nat /\ s[b - 1] \in Nat /\ {FundingId(s)[a], FundingId(s)[b - 1]} \subseteq Int
      BY <3>1, FundingIdFacts
    <3>4. FundingId(s)[b] = FundingId(s)[b - 1] + 1 + s[b - 1]
      BY <3>1, <3>3
    <3> QED
      BY <3>2, <3>3, <3>4
  <2> QED
    BY <2>1
<1>3. Nat \subseteq P
  <2> HIDE DEF P
  <2> QED
    BY <1>1, <1>2, NatSetInduction
<1>4. FundingId(s)[i] + s[i] < FundingId(s)[j]
  <2>1. j - i - 1 \in Nat /\ j = i + (j - i - 1) + 1
    BY FundingIdFacts
  <2> QED
    BY <1>3, <2>1
<1>5. FundingId(s)[i] >= 1
  <2>1. CASE i = 1
    BY <2>1, FundingIdFacts
  <2>2. CASE i # 1
    <3>1. 1 \in 1..(Len(s) + 1) /\ 1 \in 1..Len(s) /\ i = 1 + (i - 2) + 1 /\ i - 2 \in Nat
      BY <2>2, FundingIdFacts
    <3>2. FundingId(s)[1] + s[1] < FundingId(s)[i]
      BY <1>3, <3>1
    <3> QED
      BY <3>1, <3>2, FundingIdFacts
  <2> QED
    BY <2>1, <2>2
<1> QED
  BY <1>4, <1>5

-----------------------------------------------------------------------------
(* What BalancedTree says of the operations of loop j.                      *)
LEMMA Placement ==
  ASSUME NEW s \in Allocation, NEW j \in 1..Len(s)
  PROVE  /\ FundingId(s)[j] \in LoopStarts(s) /\ FundingId(s)[j] \notin LoopEnds(s)
         /\ \A k \in DOMAIN s : FundingId(s)[k] = FundingId(s)[j] => k = j
         /\ \A n \in (FundingId(s)[j] + 1)..(FundingId(s)[j] + s[j]) :
              n \notin LoopStarts(s) /\ (n \in LoopEnds(s) <=> n = FundingId(s)[j] + s[j])
<1> DEFINE id(k) == FundingId(s)[k]
<1>1. /\ Len(s) \in Nat /\ DOMAIN s = 1..Len(s)
      /\ \A k \in 1..Len(s) : k \in 1..(Len(s) + 1) /\ s[k] \in Nat \ {0} /\ id(k) \in Int
  BY FundingIdFacts
<1>2. \A i, k \in 1..Len(s) : i < k => id(i) + s[i] < id(k)
  <2>1. \A i, k \in 1..(Len(s) + 1) : i < k => id(i) + s[i] < id(k)
    BY LoopsApart
  <2> HIDE DEF id
  <2> QED
    BY <1>1, <2>1
<1>3. LoopStarts(s) = {id(k) : k \in 1..Len(s)} /\ LoopEnds(s) = {id(k) + s[k] : k \in 1..Len(s)}
  BY <1>1 DEF LoopStarts, LoopEnds
<1> HIDE DEF id
<1>4. id(j) \in LoopStarts(s) /\ id(j) \notin LoopEnds(s)
  <2>1. ASSUME NEW k \in 1..Len(s), id(j) = id(k) + s[k] PROVE FALSE
    <3>1. CASE k < j
      BY <1>1, <1>2, <2>1, <3>1
    <3>2. CASE j < k
      <4>1. id(j) + s[j] < id(k)
        BY <1>2, <3>2
      <4> QED
        BY <1>1, <2>1, <4>1
    <3>3. CASE k = j
      BY <1>1, <2>1, <3>3
    <3> QED
      BY <1>1, <3>1, <3>2, <3>3
  <2> QED
    BY <1>3, <2>1
<1>5. ASSUME NEW k \in DOMAIN s, id(k) = id(j) PROVE k = j
  <2>1. CASE k < j
    <3>1. id(k) + s[k] < id(j)
      BY <1>1, <1>2, <2>1
    <3> QED
      BY <1>1, <1>5, <3>1
  <2>2. CASE j < k
    <3>1. id(j) + s[j] < id(k)
      BY <1>1, <1>2, <2>2
    <3> QED
      BY <1>1, <1>5, <3>1
  <2> QED
    BY <1>1, <2>1, <2>2
<1>6. ASSUME NEW n \in (id(j) + 1)..(id(j) + s[j])
      PROVE  n \notin LoopStarts(s) /\ (n \in LoopEnds(s) <=> n = id(j) + s[j])
  <2>0. id(j) \in Int /\ s[j] \in Nat /\ n \in Int /\ id(j) < n /\ n <= id(j) + s[j]
    BY <1>1
  <2>1. ASSUME NEW k \in 1..Len(s), k # j PROVE n # id(k) /\ n # id(k) + s[k]
    <3>0. id(k) \in Int /\ s[k] \in Nat
      BY <1>1
    <3>1. CASE k < j
      <4>1. id(k) + s[k] < id(j)
        BY <1>2, <3>1
      <4> QED
        BY <2>0, <3>0, <4>1
    <3>2. CASE j < k
      <4>1. id(j) + s[j] < id(k)
        BY <1>2, <3>2
      <4> QED
        BY <2>0, <3>0, <4>1
    <3> QED
      BY <1>1, <2>1, <3>1, <3>2
  <2>2. n # id(j)
    BY <2>0
  <2> QED
    BY <1>3, <2>1, <2>2
<1> QED
  BY <1>4, <1>5, <1>6 DEF id

LEMMA RootPlacement ==
  ASSUME NEW s \in Allocation
  PROVE  0 \notin LoopStarts(s) /\ 0 \notin LoopEnds(s)
<1>1. \A k \in DOMAIN s : FundingId(s)[k] \in Int /\ FundingId(s)[k] >= 1 /\ s[k] \in Nat
  <2>1. ASSUME NEW k \in DOMAIN s PROVE FundingId(s)[k] \in Int /\ FundingId(s)[k] >= 1 /\ s[k] \in Nat
    <3>1. k \in 1..Len(s) /\ k \in 1..(Len(s) + 1) /\ k + 1 \in 1..(Len(s) + 1) /\ k < k + 1
      BY FundingIdFacts
    <3>2. FundingId(s)[k] >= 1
      BY <3>1, LoopsApart
    <3> QED
      BY <3>1, <3>2, FundingIdFacts
  <2> QED
    BY <2>1
<1> QED
  BY <1>1 DEF LoopStarts, LoopEnds

-----------------------------------------------------------------------------
Operation(n) ==
  [from |-> Sender(shape, n), to |-> Target(shape, n), sweep |-> n \notin LoopStarts(shape)]

(* Where the planner stands in the allocation.                              *)
Position ==
  /\ shape \in Allocation /\ loop \in 1..(Len(shape) + 1)
  /\ pc = "done" => loop = Len(shape) + 1
  /\ pc \in {"fund", "done"} =>
       /\ NextId = FundingId(shape)[loop] /\ chain = <<>>
       /\ lastOp = IF loop = 1 THEN 0 ELSE FundingId(shape)[loop - 1]
  /\ pc = "loop" =>
       /\ loop <= Len(shape) /\ Len(chain) < shape[loop]
       /\ NextId = FundingId(shape)[loop] + 1 /\ lastOp = FundingId(shape)[loop]

(* So far it is the balanced tree; only the last funding operation waits    *)
(* for its children.                                                        *)
Balanced ==
  /\ \A n \in Ids : op[n] = Operation(n)
  /\ \A n \in Ids \ {lastOp} : children[n] = ChainChildren(shape, n)
  /\ children[lastOp] = IF pc = "loop" \/ loop = 1 THEN <<>> ELSE <<lastOp + 1>>

(* The wallets so far, one per address of the allocation.                   *)
Wallets ==
  /\ IsFiniteSet(backups) /\ Cardinality(backups) = NextId - loop + Len(chain)
  /\ backups = {n \in Ids \ {0} : op[n].to = n} \cup {chain[k].to : k \in 1..Len(chain)}

(* The maps of the tree have values for nodes and nothing else.             *)
Maps ==
  /\ children = [n \in DOMAIN children |-> children[n]]
  /\ op = [n \in DOMAIN op |-> op[n]]

BInv == Maps /\ (pc # "failed" => Position /\ Balanced /\ Wallets)

LEMMA BalanceInit == ASSUME Init, Shapes \subseteq Allocation PROVE BInv
<1>1. PlanInv /\ shape \in Allocation /\ pc = "fund" /\ loop = 1 /\ chain = <<>> /\ lastOp = 0
      /\ backups = {}
  BY InitPlan DEF Init
<1>2. NextId = 1 /\ Ids = {0} /\ op[0] = Transfer(0, 0, TRUE) /\ children[0] = <<>>
  <2>1. DOMAIN op = {0} /\ op[0] = Transfer(0, 0, TRUE) /\ children[0] = <<>>
    BY DEF Init
  <2>2. NextId = 1
    BY <2>1, FS_Singleton DEF NextId
  <2> QED
    BY <2>1, <2>2 DEF Ids
<1>3. Position
  <2>1. FundingId(shape)[1] = 1 /\ 1 \in 1..(Len(shape) + 1)
    BY <1>1, FundingIdFacts
  <2> QED
    BY <1>1, <1>2, <2>1 DEF Position
<1>4. Balanced
  <2>1. Operation(0) = Transfer(0, 0, TRUE)
    BY <1>1, RootPlacement DEF Operation, Sender, Target, Transfer
  <2> QED
    BY <1>1, <1>2, <2>1 DEF Balanced
<1>5. Wallets
  BY <1>1, <1>2, FS_EmptySet DEF Wallets
<1>6. Maps
  BY DEF Init, Maps
<1> QED
  BY <1>3, <1>4, <1>5, <1>6 DEF BInv

(* A wallet that is new adds one to their number.                           *)
LEMMA OneMore ==
  ASSUME NEW S, IsFiniteSet(S), NEW w, w \notin S
  PROVE  IsFiniteSet(S \cup {w}) /\ Cardinality(S \cup {w}) = Cardinality(S) + 1
BY FS_AddElement

LEMMA AppendTwo == ASSUME NEW a \in Int, NEW b \in Int PROVE Append(<<a>>, b) = <<a, b>>
<1> DEFINE s == <<a>>
           t == <<a, b>>
<1>1. s \in Seq(Int) /\ Len(s) = 1 /\ s[1] = a
  OBVIOUS
<1>2. t \in Seq(Int) /\ Len(t) = 2 /\ t[1] = a /\ t[2] = b
  OBVIOUS
<1> HIDE DEF s, t
<1>3. Append(s, b) \in Seq(Int) /\ Len(Append(s, b)) = Len(s) + 1
      /\ Append(s, b)[Len(s) + 1] = b
      /\ \A i \in 1..Len(s) : Append(s, b)[i] = s[i]
  BY <1>1, AppendProperties
<1>4. Len(Append(s, b)) = 2 /\ Append(s, b)[1] = a /\ Append(s, b)[2] = b
  BY <1>1, <1>3
<1>5. \A i \in 1..2 : i = 1 \/ i = 2
  OBVIOUS
<1>6. \A i \in 1..Len(t) : Append(s, b)[i] = t[i]
  BY <1>2, <1>4, <1>5
<1> QED
  BY <1>2, <1>3, <1>4, <1>6, SeqEqual DEF s, t

LEMMA BalanceFund ==
  ASSUME PlanInv, BInv, Fund PROVE BInv'
<1>1. PICK N \in Nat \ {0} : N = NextId
  BY DEF PlanInv, Domains
<1>2. /\ pc = "fund" /\ pc' = "loop" /\ shape' = shape /\ loop' = loop
      /\ Ids = 0..(N - 1) /\ lastOp \in Ids /\ NextId' = N + 1 /\ Ids' = 0..N
      /\ lastOp' = N /\ chain' = <<>> /\ backups' = backups \cup {N}
      /\ loop <= Len(shape)
  BY <1>1, FundEffect DEF Fund
<1>3. /\ \A n \in Ids : op'[n] = op[n]
      /\ op'[N] = Transfer(0, N, FALSE)
      /\ \A p \in Ids : children'[p] = IF p = lastOp THEN Append(children[p], N)
                                       ELSE children[p]
      /\ children'[N] = <<>>
  BY <1>1, FundEffect
<1>4. Position /\ Balanced /\ Wallets
  BY <1>2 DEF BInv
<1>5. /\ shape \in Allocation /\ loop \in 1..Len(shape) /\ N = FundingId(shape)[loop]
      /\ lastOp = IF loop = 1 THEN 0 ELSE FundingId(shape)[loop - 1]
      /\ chain = <<>>
  BY <1>1, <1>2, <1>4 DEF Position
<1>6. /\ Len(shape) \in Nat /\ DOMAIN shape = 1..Len(shape)
      /\ \A j \in 1..Len(shape) : shape[j] \in Nat \ {0}
  BY <1>5, FundingIdFacts
<1>7. /\ N \in LoopStarts(shape) /\ N \notin LoopEnds(shape)
  BY <1>5, Placement
<1>8. Position'
  BY <1>1, <1>2, <1>5, <1>6 DEF Position
<1>9. Balanced'
  <2>1. \A n : Operation(n)' = Operation(n)
    BY <1>2 DEF Operation, Sender, Target
  <2>2. Operation(N) = Transfer(0, N, FALSE)
    BY <1>7 DEF Operation, Sender, Target, Transfer
  <2>3. \A n \in Ids' : op'[n] = Operation(n)'
    <3>1. \A n \in Ids' : n \in Ids \/ n = N
      BY <1>2
    <3>2. \A n \in Ids : op[n] = Operation(n)
      BY <1>4 DEF Balanced
    <3> QED
      BY <1>3, <2>1, <2>2, <3>1, <3>2
  <2>4. Append(children[lastOp], N) = ChainChildren(shape, lastOp)
    <3>1. CASE loop = 1
      <4>1. children[lastOp] = <<>> /\ lastOp = 0 /\ N = 1 /\ shape # <<>>
        BY <1>2, <1>4, <1>5, <1>6, <3>1, FundingIdFacts DEF Balanced
      <4>2. ChainChildren(shape, 0) = <<1>>
        BY <4>1 DEF ChainChildren
      <4> QED
        BY <4>1, <4>2
    <3>2. CASE loop # 1
      <4> DEFINE j == loop - 1
      <4>1. j \in 1..Len(shape) /\ j < Len(shape) /\ j + 1 = loop /\ lastOp = FundingId(shape)[j]
        BY <1>5, <1>6, <3>2
      <4>2. children[lastOp] = <<lastOp + 1>>
        BY <1>2, <1>4, <3>2 DEF Balanced
      <4> HIDE DEF j
      <4>3. lastOp \in LoopStarts(shape) /\ \A k \in DOMAIN shape : FundingId(shape)[k] = lastOp => k = j
        BY <1>5, <4>1, Placement
      <4>4. lastOp # 0
        BY <1>5, <4>3, RootPlacement
      <4>5. (CHOOSE k \in DOMAIN shape : FundingId(shape)[k] = lastOp) = j
        BY <1>6, <4>1, <4>3
      <4>6. ChainChildren(shape, lastOp) = <<lastOp + 1, FundingId(shape)[j + 1]>>
        BY <4>1, <4>3, <4>4, <4>5 DEF ChainChildren
      <4>7. N = FundingId(shape)[j + 1]
        BY <1>5, <4>1
      <4>8. lastOp + 1 \in Int /\ N \in Int
        BY <1>2
      <4>9. Append(<<lastOp + 1>>, N) = <<lastOp + 1, N>>
        BY <4>8, AppendTwo
      <4> QED
        BY <4>2, <4>6, <4>7, <4>9
    <3> QED
      BY <3>1, <3>2
  <2>5. \A n \in Ids' \ {lastOp'} : children'[n] = ChainChildren(shape, n)
    <3>1. \A n \in Ids' \ {lastOp'} : n \in Ids
      BY <1>2
    <3>2. \A n \in Ids \ {lastOp} : children[n] = ChainChildren(shape, n)
      BY <1>4 DEF Balanced
    <3> QED
      BY <1>3, <2>4, <3>1, <3>2
  <2>6. \A n : ChainChildren(shape, n)' = ChainChildren(shape, n)
    BY <1>2 DEF ChainChildren
  <2> QED
    BY <1>2, <1>3, <2>3, <2>5, <2>6 DEF Balanced
<1>10. Wallets'
  <2>1. backups = {n \in Ids \ {0} : op[n].to = n}
    BY <1>4, <1>5 DEF Wallets
  <2>2. N \notin backups
    BY <1>2, <2>1
  <2>3. Cardinality(backups) = N - loop /\ IsFiniteSet(backups)
    <3>1. Len(chain) = 0 /\ N - loop + 0 = N - loop
      BY <1>5, <1>6
    <3>2. Cardinality(backups) = NextId - loop + Len(chain) /\ IsFiniteSet(backups)
      BY <1>4 DEF Wallets
    <3> QED
      BY <1>1, <3>1, <3>2
  <2>4. IsFiniteSet(backups') /\ Cardinality(backups') = N - loop + 1
    BY <1>2, <2>2, <2>3, OneMore
  <2>5. backups' = {n \in Ids' \ {0} : op'[n].to = n}
    <3>1. op'[N].to = N /\ N # 0
      BY <1>3 DEF Transfer
    <3>2. Ids' = Ids \cup {N} /\ N \notin Ids
      BY <1>2
    <3> QED
      BY <1>2, <1>3, <2>1, <3>1, <3>2
  <2>6. Cardinality(backups') = NextId' - loop' + Len(chain')
    BY <1>2, <1>5, <2>4
  <2> QED
    BY <1>2, <2>4, <2>5, <2>6 DEF Wallets
<1>11. Maps'
  <2>1. /\ op' = Extend(op, NextId, Transfer(0, NextId, FALSE))
        /\ children' = [Extend(children, NextId, <<>>) EXCEPT ![lastOp] = Append(@, NextId)]
    BY DEF Fund
  <2> QED
    BY <2>1 DEF Extend, Maps
<1> QED
  BY <1>8, <1>9, <1>10, <1>11 DEF BInv

LEMMA BalanceExtend ==
  ASSUME PlanInv, BInv, ExtendLoop PROVE BInv'
<1>1. PICK N \in Nat \ {0} : N = NextId
  BY DEF PlanInv, Domains
<1> DEFINE w == N + Len(chain)
<1>2. /\ pc = "loop" /\ UNCHANGED <<shape, pc, loop, children, op, lastOp>>
      /\ backups' = backups \cup {w}
      /\ chain' = Append(chain, Transfer(current, w, TRUE))
      /\ Len(chain) < shape[loop] - 1
  BY <1>1 DEF ExtendLoop, treeVars, BackupsWith, NewWallet
<1>3. NextId' = NextId /\ Ids' = Ids /\ Ids = 0..(N - 1)
  BY <1>1, <1>2 DEF NextId, Ids
<1>4. Position /\ Balanced /\ Wallets
  BY <1>2 DEF BInv
<1>5. /\ shape \in Allocation /\ loop \in 1..Len(shape) /\ NextId = FundingId(shape)[loop] + 1
      /\ lastOp = FundingId(shape)[loop]
  BY <1>2, <1>4 DEF Position
<1>6. /\ Len(shape) \in Nat /\ shape[loop] \in Nat \ {0}
  BY <1>5, FundingIdFacts
<1>7. /\ chain \in Seq(AnyOp) /\ Len(chain) \in Nat /\ current \in Nat
      /\ \A k \in 1..Len(chain) : chain[k].to = N + k - 1
  <2>1. chain \in Seq(AnyOp) /\ Len(chain) \in Nat /\ current = NextId - 1 + Len(chain)
    BY <1>2 DEF PlanInv, Chain
  <2>2. ASSUME NEW k \in 1..Len(chain) PROVE chain[k].to = N + k - 1
    <3>1. chain[k] = Transfer(NextId + k - 2, NextId + k - 1, TRUE)
      BY DEF PlanInv, Chain
    <3> QED
      BY <1>1, <3>1 DEF Transfer
  <2> QED
    BY <1>1, <2>1, <2>2
<1>8. /\ Len(chain') = Len(chain) + 1 /\ chain'[Len(chain) + 1].to = w
      /\ \A k \in 1..Len(chain) : chain'[k] = chain[k]
  <2>1. PICK e \in AnyOp : e = Transfer(current, w, TRUE)
    <3>1. Transfer(current, w, TRUE) \in AnyOp
      BY <1>1, <1>7 DEF Transfer, AnyOp
    <3> QED
      BY <3>1
  <2>2. e.to = w
    BY <2>1 DEF Transfer
  <2>3. chain' = Append(chain, e)
    BY <1>2, <2>1
  <2> HIDE DEF w
  <2>4. /\ Len(Append(chain, e)) = Len(chain) + 1 /\ Append(chain, e)[Len(chain) + 1] = e
        /\ \A k \in 1..Len(chain) : Append(chain, e)[k] = chain[k]
    BY <1>7
  <2> QED
    BY <2>2, <2>3, <2>4
<1>9. Position'
  <2>1. Len(chain') < shape[loop]
    BY <1>2, <1>6, <1>7, <1>8
  <2> QED
    BY <1>2, <1>3, <1>4, <2>1 DEF Position
<1>10. Balanced'
  <2>1. \A n : Operation(n)' = Operation(n) /\ ChainChildren(shape, n)' = ChainChildren(shape, n)
    BY <1>2 DEF Operation, Sender, Target, ChainChildren
  <2> QED
    BY <1>2, <1>3, <1>4, <2>1 DEF Balanced
<1>11. Wallets'
  <2>1. {chain'[k].to : k \in 1..Len(chain')} = {chain[k].to : k \in 1..Len(chain)} \cup {w}
    <3>1. \A k \in 1..(Len(chain) + 1) : k \in 1..Len(chain) \/ k = Len(chain) + 1
      BY <1>7
    <3>2. Len(chain) + 1 \in 1..(Len(chain) + 1) /\ 1..Len(chain) \subseteq 1..(Len(chain) + 1)
      BY <1>7
    <3> HIDE DEF w
    <3> QED
      BY <1>8, <3>1, <3>2
  <2>2. w \notin backups
    <3>1. \A n \in Ids : n # w
      BY <1>3, <1>7
    <3>2. \A k \in 1..Len(chain) : chain[k].to # w
      BY <1>7
    <3> HIDE DEF w
    <3> QED
      BY <1>4, <3>1, <3>2 DEF Wallets
  <2>3. Cardinality(backups) = N - loop + Len(chain) /\ IsFiniteSet(backups)
    BY <1>1, <1>4 DEF Wallets
  <2>4. IsFiniteSet(backups') /\ Cardinality(backups') = N - loop + Len(chain) + 1
    BY <1>2, <2>2, <2>3, OneMore
  <2>5. Cardinality(backups') = NextId' - loop' + Len(chain')
    <3>1. N \in Int /\ loop \in Int /\ Len(chain) \in Int /\ Len(chain') = Len(chain) + 1
      BY <1>5, <1>6, <1>7, <1>8
    <3>2. N - loop + Len(chain) + 1 = N - loop + Len(chain')
      BY <3>1
    <3>3. NextId' = N /\ loop' = loop
      BY <1>1, <1>2, <1>3
    <3> QED
      BY <2>4, <3>2, <3>3
  <2>6. backups' = {n \in Ids' \ {0} : op'[n].to = n} \cup {chain'[k].to : k \in 1..Len(chain')}
    <3>1. {n \in Ids' \ {0} : op'[n].to = n} = {n \in Ids \ {0} : op[n].to = n}
      BY <1>2, <1>3
    <3> HIDE DEF w
    <3> QED
      BY <1>2, <1>4, <2>1, <3>1 DEF Wallets
  <2> QED
    BY <2>4, <2>5, <2>6 DEF Wallets
<1>12. Maps'
  BY <1>2 DEF BInv, Maps
<1> QED
  BY <1>9, <1>10, <1>11, <1>12 DEF BInv

LEMMA BalanceClose ==
  ASSUME PlanInv, BInv, CloseLoop PROVE BInv'
<1>1. PICK N \in Nat \ {0}, z \in Nat :
        N = NextId /\ z = N + Len(chain) /\ z >= N /\ Len(chain) = z - N
  <2>1. Len(chain) \in Nat /\ NextId \in Nat \ {0}
    BY DEF PlanInv, Chain, Domains
  <2> QED
    BY <2>1
<1>2. /\ Ids = 0..(N - 1) /\ Ids' = 0..z /\ NextId' = z + 1
      /\ lastOp = N - 1 /\ lastOp > 0 /\ lastOp' = lastOp
      /\ pc = "loop" /\ pc' = "fund" /\ backups' = backups /\ chain' = <<>>
  BY <1>1, CloseEffect
<1>3. /\ \A n \in Ids : op'[n] = op[n]
      /\ op'[z] = Transfer(z - 1, 0, TRUE)
      /\ \A n \in N..(z - 1) : op'[n] = Transfer(n - 1, n, TRUE)
      /\ \A p \in Ids : children'[p] = IF p = lastOp THEN Append(children[p], N)
                                       ELSE children[p]
      /\ children'[z] = <<>> /\ \A n \in N..(z - 1) : children'[n] = <<n + 1>>
  BY <1>1, CloseEffect
<1>4. Position /\ Balanced /\ Wallets /\ shape' = shape /\ loop' = loop + 1
      /\ Len(chain) = shape[loop] - 1
  BY <1>2 DEF BInv, CloseLoop
<1>5. /\ shape \in Allocation /\ loop \in 1..Len(shape)
      /\ N = FundingId(shape)[loop] + 1 /\ lastOp = FundingId(shape)[loop]
  BY <1>1, <1>2, <1>4 DEF Position
<1>6. /\ Len(shape) \in Nat /\ DOMAIN shape = 1..Len(shape) /\ shape[loop] \in Nat \ {0}
      /\ FundingId(shape)[loop] \in Int
      /\ FundingId(shape)[loop + 1] = FundingId(shape)[loop] + 1 + shape[loop]
  BY <1>5, FundingIdFacts
<1>7. z = FundingId(shape)[loop] + shape[loop] /\ z + 1 = FundingId(shape)[loop + 1]
  <2>1. z = N + (shape[loop] - 1)
    BY <1>1, <1>4
  <2> QED
    BY <1>5, <1>6, <2>1
<1>8. \A n \in N..z : n \notin LoopStarts(shape) /\ (n \in LoopEnds(shape) <=> n = z)
  <2>1. \A n \in (FundingId(shape)[loop] + 1)..(FundingId(shape)[loop] + shape[loop]) :
          n \notin LoopStarts(shape)
          /\ (n \in LoopEnds(shape) <=> n = FundingId(shape)[loop] + shape[loop])
    BY <1>5, Placement
  <2> QED
    BY <1>5, <1>7, <2>1
<1>9. Position'
  <2>1. loop' \in 1..(Len(shape) + 1) /\ loop' # 1 /\ loop' - 1 = loop
    BY <1>4, <1>5, <1>6
  <2> QED
    BY <1>2, <1>4, <1>5, <1>7, <2>1 DEF Position
<1>a. \A n \in Ids' : n \in Ids \/ n \in N..(z - 1) \/ n = z
  BY <1>1, <1>2
<1>10. Balanced'
  <2>1. \A n : Operation(n)' = Operation(n) /\ ChainChildren(shape, n)' = ChainChildren(shape, n)
    BY <1>4 DEF Operation, Sender, Target, ChainChildren
  <2>2. Operation(z) = Transfer(z - 1, 0, TRUE)
    <3>1. z \in N..z /\ z # 0
      BY <1>1
    <3> QED
      BY <1>8, <3>1 DEF Operation, Sender, Target, Transfer
  <2>3. \A n \in N..(z - 1) : Operation(n) = Transfer(n - 1, n, TRUE)
    <3>1. \A n \in N..(z - 1) : n \in N..z /\ n # z /\ n # 0
      BY <1>1
    <3> QED
      BY <1>8, <3>1 DEF Operation, Sender, Target, Transfer
  <2>4. \A n \in Ids' : op'[n] = Operation(n)'
    BY <1>3, <1>4, <1>a, <2>1, <2>2, <2>3 DEF Balanced
  <2>5. ChainChildren(shape, z) = <<>>
    <3>1. z \in N..z /\ z # 0
      BY <1>1
    <3> QED
      BY <1>8, <3>1 DEF ChainChildren
  <2>6. \A n \in N..(z - 1) : ChainChildren(shape, n) = <<n + 1>>
    <3>1. \A n \in N..(z - 1) : n \in N..z /\ n # z /\ n # 0
      BY <1>1
    <3> QED
      BY <1>8, <3>1 DEF ChainChildren
  <2>7. \A n \in Ids' \ {lastOp'} : children'[n] = ChainChildren(shape, n)'
    <3>1. \A n \in Ids \ {lastOp} : children[n] = ChainChildren(shape, n)
      BY <1>4 DEF Balanced
    <3> QED
      BY <1>2, <1>3, <1>a, <2>1, <2>5, <2>6, <3>1
  <2>8. children'[lastOp'] = <<lastOp' + 1>>
    <3>1. children[lastOp] = <<>>
      BY <1>2, <1>4 DEF Balanced
    <3>2. lastOp \in Ids /\ lastOp + 1 = N /\ Append(<<>>, N) = <<N>>
      BY <1>1, <1>2
    <3>3. children'[lastOp] = <<N>>
      BY <1>3, <3>1, <3>2
    <3> QED
      BY <1>2, <3>2, <3>3
  <2>9. ~(pc' = "loop" \/ loop' = 1)
    BY <1>2, <1>4, <1>5
  <2> QED
    BY <2>4, <2>7, <2>8, <2>9 DEF Balanced
<1>11. Wallets'
  <2>1. \A k \in 1..Len(chain) : chain[k].to = N + k - 1
    <3>1. ASSUME NEW k \in 1..Len(chain) PROVE chain[k].to = N + k - 1
      <4>1. chain[k] = Transfer(NextId + k - 2, NextId + k - 1, TRUE)
        BY DEF PlanInv, Chain
      <4> QED
        BY <1>1, <4>1 DEF Transfer
    <3> QED
      BY <3>1
  <2>2. {chain[k].to : k \in 1..Len(chain)} = N..(z - 1)
    <3>1. \A k \in 1..Len(chain) : chain[k].to \in N..(z - 1)
      BY <1>1, <2>1
    <3>2. ASSUME NEW n \in N..(z - 1) PROVE \E k \in 1..Len(chain) : n = chain[k].to
      <4>1. n - N + 1 \in 1..Len(chain) /\ n = N + (n - N + 1) - 1
        BY <1>1
      <4>2. chain[n - N + 1].to = N + (n - N + 1) - 1
        BY <2>1, <4>1
      <4> QED
        BY <4>1, <4>2
    <3> QED
      BY <3>1, <3>2
  <2>3. \A n \in N..(z - 1) : op'[n].to = n /\ n # 0
    <3>1. ASSUME NEW n \in N..(z - 1) PROVE op'[n].to = n /\ n # 0
      <4>1. op'[n] = Transfer(n - 1, n, TRUE)
        BY <1>3
      <4> QED
        BY <4>1 DEF Transfer
    <3> QED
      BY <3>1
  <2>4. op'[z].to = 0 /\ z # 0
    <3>1. op'[z] = Transfer(z - 1, 0, TRUE)
      BY <1>3
    <3> QED
      BY <1>1, <3>1 DEF Transfer
  <2>5. Ids \subseteq Ids' /\ N..(z - 1) \subseteq Ids'
    BY <1>1, <1>2
  <2>6. {n \in Ids' \ {0} : op'[n].to = n} = {n \in Ids \ {0} : op[n].to = n} \cup N..(z - 1)
    <3>1. ASSUME NEW n \in Ids' \ {0}, op'[n].to = n
          PROVE  n \in {i \in Ids \ {0} : op[i].to = i} \/ n \in N..(z - 1)
      <4>1. n # z
        BY <2>4, <3>1
      <4> QED
        BY <1>3, <1>a, <3>1, <4>1
    <3>2. \A n \in Ids \ {0} : op[n].to = n => n \in Ids' \ {0} /\ op'[n].to = n
      BY <1>3, <2>5
    <3> QED
      BY <2>3, <2>5, <3>1, <3>2
  <2>7. backups' = {n \in Ids' \ {0} : op'[n].to = n}
    BY <1>2, <1>4, <2>2, <2>6 DEF Wallets
  <2>8. NextId' - loop' + 0 = NextId - loop + Len(chain)
    <3>1. NextId' - loop' + 0 = (z + 1) - (loop + 1) + 0 /\ loop \in Int
      BY <1>2, <1>4, <1>5
    <3>2. NextId - loop + Len(chain) = N - loop + (z - N)
      BY <1>1
    <3> QED
      BY <3>1, <3>2
  <2>9. Len(chain') = 0 /\ {chain'[k].to : k \in 1..Len(chain')} = {}
    BY <1>2
  <2>10. IsFiniteSet(backups') /\ Cardinality(backups') = NextId' - loop' + Len(chain')
    BY <1>2, <1>4, <2>8, <2>9 DEF Wallets
  <2> QED
    BY <2>7, <2>9, <2>10 DEF Wallets
<1>12. Maps'
  BY DEF CloseLoop, Maps
<1> QED
  BY <1>9, <1>10, <1>11, <1>12 DEF BInv

LEMMA BalanceOther ==
  ASSUME PlanInv, BInv, BackupFails \/ Finish \/ Done \/ UNCHANGED vars PROVE BInv'
<1>1. CASE BackupFails
  BY <1>1 DEF BackupFails, BInv, Maps, treeVars
<1>2. CASE Finish \/ Done \/ UNCHANGED vars
  <2>1. /\ UNCHANGED <<shape, loop, children, op, lastOp, chain, backups>>
        /\ pc' = pc \/ (pc = "fund" /\ pc' = "done" /\ loop > Len(shape))
    BY <1>2 DEF Finish, Done, vars, treeVars
  <2>2. NextId' = NextId /\ Ids' = Ids
    BY <2>1 DEF NextId, Ids
  <2>3. \A n : Operation(n)' = Operation(n) /\ ChainChildren(shape, n)' = ChainChildren(shape, n)
    BY <2>1 DEF Operation, Sender, Target, ChainChildren
  <2> SUFFICES ASSUME pc' # "failed", Position, Balanced, Wallets PROVE BInv'
    BY <2>1 DEF BInv, Maps
  <2>4. Position'
    <3>1. loop > Len(shape) => loop = Len(shape) + 1
      BY FundingIdFacts DEF Position
    <3> QED
      BY <2>1, <2>2, <3>1 DEF Position
  <2>5. Balanced'
    BY <2>1, <2>2, <2>3 DEF Balanced
  <2>6. Wallets'
    BY <2>1, <2>2 DEF Wallets
  <2>7. Maps'
    BY <2>1 DEF BInv, Maps
  <2> QED
    BY <2>4, <2>5, <2>6, <2>7 DEF BInv
<1> QED
  BY <1>1, <1>2

LEMMA BalanceInvariance ==
  ASSUME Shapes \subseteq Allocation PROVE Spec => [](PlanInv /\ BInv)
<1>1. Init => BInv
  BY BalanceInit
<1>2. PlanInv /\ BInv /\ [Next]_vars => BInv'
  BY BalanceFund, BalanceExtend, BalanceClose, BalanceOther DEF Next
<1> QED
  BY <1>1, <1>2, PlanInvariance, PTL DEF Spec

-----------------------------------------------------------------------------
LEMMA FinishedTree ==
  ASSUME PlanInv, BInv, pc = "done" PROVE Plan = BalancedTree(shape)
<1>1. /\ Position /\ Balanced /\ loop = Len(shape) + 1 /\ shape \in Allocation
      /\ NextId = FundingId(shape)[Len(shape) + 1]
      /\ lastOp = IF loop = 1 THEN 0 ELSE FundingId(shape)[loop - 1]
      /\ DOMAIN op = Ids /\ DOMAIN children = Ids /\ lastOp \in Ids
  BY DEF BInv, Position, PlanInv, Domains
<1>2. Len(shape) \in Nat /\ DOMAIN shape = 1..Len(shape)
  BY <1>1, FundingIdFacts
<1>3. children[lastOp] = ChainChildren(shape, lastOp)
  <2>1. CASE loop = 1
    <3>1. shape = <<>> /\ lastOp = 0 /\ children[lastOp] = <<>>
      BY <1>1, <1>2, <2>1 DEF Balanced, Allocation
    <3> QED
      BY <3>1 DEF ChainChildren
  <2>2. CASE loop # 1
    <3> DEFINE j == Len(shape)
    <3>1. j \in 1..Len(shape) /\ ~(j < Len(shape)) /\ lastOp = FundingId(shape)[j]
      BY <1>1, <1>2, <2>2
    <3>2. children[lastOp] = <<lastOp + 1>>
      BY <1>1, <2>2 DEF Balanced
    <3> HIDE DEF j
    <3>3. lastOp \in LoopStarts(shape) /\ \A k \in DOMAIN shape : FundingId(shape)[k] = lastOp => k = j
      BY <1>1, <3>1, Placement
    <3>4. lastOp # 0
      BY <1>1, <3>3, RootPlacement
    <3>5. (CHOOSE k \in DOMAIN shape : FundingId(shape)[k] = lastOp) = j
      BY <1>2, <3>1, <3>3
    <3>6. ChainChildren(shape, lastOp) = <<lastOp + 1>>
      BY <3>1, <3>3, <3>4, <3>5 DEF ChainChildren
    <3> QED
      BY <3>2, <3>6
  <2> QED
    BY <2>1, <2>2
<1>4. \A n \in Ids : children[n] = ChainChildren(shape, n) /\ op[n] = Operation(n)
  BY <1>1, <1>3 DEF Balanced
<1>5. children = [n \in Ids |-> ChainChildren(shape, n)] /\ op = [n \in Ids |-> Operation(n)]
  <2>1. children = [n \in Ids |-> children[n]] /\ op = [n \in Ids |-> op[n]]
    BY <1>1 DEF BInv, Maps
  <2> QED
    BY <1>4, <2>1
<1> QED
  BY <1>1, <1>5 DEF Plan, BalancedTree, Operation, Ids

(* Every wallet is sent to by the operation it is named by, and swept by    *)
(* the next.                                                                *)
LEMMA WalletsOfPlan ==
  ASSUME PlanInv, BInv, pc = "done" PROVE WalletsUsedOnce
<1>1. /\ Position /\ Wallets /\ loop = Len(shape) + 1 /\ shape \in Allocation /\ chain = <<>>
      /\ NextId = FundingId(shape)[Len(shape) + 1]
  BY DEF BInv, Position
<1>2. /\ Nodes(Plan) = Ids /\ \A n : From(Plan, n) = op[n].from /\ To(Plan, n) = op[n].to
      /\ Ids = 0..(NextId - 1) /\ NextId \in Nat \ {0}
  BY DEF PlanInv, Domains, Plan, Nodes, From, To, Ids
<1>3. \A n \in Ids : op[n].to \in {0, n} /\ op[n].from \in {0, n - 1}
  <2>1. \A n \in Ids \ {0} : op[n].to \in {0, n} /\ op[n].from \in {0, n - 1}
    <3>1. ASSUME NEW n \in Ids \ {0} PROVE op[n].to \in {0, n} /\ op[n].from \in {0, n - 1}
      <4>1. op[n] \in {Transfer(0, n, FALSE), Transfer(n - 1, n, TRUE), Transfer(n - 1, 0, TRUE)}
        BY DEF PlanInv, OpFacts, Sends
      <4> QED
        BY <4>1 DEF Transfer
    <3> QED
      BY <3>1
  <2>2. op[0].to = 0 /\ op[0].from = 0
    BY DEF PlanInv, OpFacts, Sends, Transfer
  <2> QED
    BY <2>1, <2>2
<1>4. backups = {n \in Ids \ {0} : op[n].to = n}
  BY <1>1 DEF Wallets
<1>5. Cardinality(backups) = FoldFunction(+, 0, shape)
  <2>1. Cardinality(backups) = NextId - loop + 0
    BY <1>1 DEF Wallets
  <2>2. Len(shape) \in Int /\ NextId - loop + 0 = NextId - (Len(shape) + 1)
    BY <1>1, <1>2, FundingIdFacts
  <2>3. Cardinality(backups) = FundingId(shape)[Len(shape) + 1] - (Len(shape) + 1)
    BY <1>1, <2>1, <2>2
  <2>4. FoldFunction(+, 0, shape) = FundingId(shape)[Len(shape) + 1] - (Len(shape) + 1)
    BY <1>1, WalletCount
  <2> QED
    BY <2>3, <2>4
<1>6. ASSUME NEW w \in backups
      PROVE  {n \in Ids : op[n].to = w} = {w} /\ {n \in Ids : op[n].from = w} = {w + 1}
  <2>1. w \in Ids /\ w # 0 /\ op[w].to = w
    BY <1>4
  <2>2. w + 1 \in Ids /\ op[w + 1].sweep
    BY <2>1 DEF PlanInv, Used
  <2>3. op[w + 1].from = w
    <3>1. w + 1 \in Ids \ {0} /\ (w + 1) - 1 = w
      BY <1>2, <2>1, <2>2
    <3>2. ~Transfer(0, w + 1, FALSE).sweep
      BY DEF Transfer
    <3>3. op[w + 1] \in {Transfer(w, w + 1, TRUE), Transfer(w, 0, TRUE)}
      BY <2>2, <3>1, <3>2 DEF PlanInv, OpFacts, Sends
    <3> QED
      BY <3>3 DEF Transfer
  <2>4. \A n \in Ids : op[n].from = w => n = w + 1
    BY <1>2, <1>3, <2>1
  <2>5. \A n \in Ids : op[n].to = w => n = w
    BY <1>3, <2>1
  <2> QED
    BY <2>1, <2>2, <2>3, <2>4, <2>5
<1>7. \A w \in backups :
        /\ Cardinality({n \in Nodes(Plan) : To(Plan, n) = w}) = 1
        /\ Cardinality({n \in Nodes(Plan) : From(Plan, n) = w}) = 1
  <2>1. \A x : Cardinality({x}) = 1
    BY FS_Singleton
  <2>2. ASSUME NEW w \in backups
        PROVE  /\ {n \in Nodes(Plan) : To(Plan, n) = w} = {w}
               /\ {n \in Nodes(Plan) : From(Plan, n) = w} = {w + 1}
    BY <1>2, <1>6
  <2> QED
    BY <2>1, <2>2
<1>8. ASSUME NEW n \in Ids, children[n] = <<>> PROVE op[n].to = 0
  <2> SUFFICES ASSUME op[n].to # 0 PROVE FALSE
    OBVIOUS
  <2>1. n \in Ids \ {0} /\ op[n].to = n
    BY <1>3, <1>8 DEF PlanInv, OpFacts, Sends, Transfer
  <2>2. n + 1 \in Ids /\ op[n + 1].sweep
    BY <2>1 DEF PlanInv, Used
  <2>3. IsParent(op, n, n + 1) /\ n + 1 \in Ids \ {0}
    BY <1>2, <2>1, <2>2 DEF IsParent
  <2>4. n + 1 \in Range(children[n])
    BY <2>3 DEF PlanInv, Links, Hangs
  <2>5. Range(children[n]) = {}
    BY <1>8 DEF Range
  <2> QED
    BY <2>4, <2>5
<1> QED
  BY <1>2, <1>5, <1>7, <1>8 DEF WalletsUsedOnce

(* The finished plan is the balanced tree of the allocation, and it creates *)
(* one wallet per address asked for and uses each exactly once, for every   *)
(* sequence of loops of at least one address.                               *)
THEOREM PlansAreBalanced ==
  ASSUME Shapes \subseteq Allocation PROVE Spec => []PlanIsBalanced
<1>1. PlanInv /\ BInv => PlanIsBalanced
  BY FinishedTree, WalletsOfPlan DEF PlanIsBalanced
<1> QED
  BY <1>1, BalanceInvariance, PTL

-----------------------------------------------------------------------------
(* The same of the tree alone, made by the planner or not.  Loop j is the   *)
(* ids from its funding operation to its end; the loops fill the plan.      *)
LoopIds(s, j) == FundingId(s)[j]..(FundingId(s)[j] + s[j])

LEMMA LoopBounds ==
  ASSUME NEW s \in Allocation
  PROVE  /\ \A j \in 1..(Len(s) + 1) : FundingId(s)[j] \in Nat \ {0}
         /\ \A j \in 1..Len(s) : FundingId(s)[j] + s[j] < FundingId(s)[Len(s) + 1]
<1>1. Len(s) \in Nat /\ \A j \in 1..Len(s) : s[j] \in Nat \ {0}
  BY FundingIdFacts
<1>2. \A j \in 1..(Len(s) + 1) : FundingId(s)[j] \in Int
  BY FundingIdFacts
<1>3. ASSUME NEW j \in 1..Len(s)
      PROVE  FundingId(s)[j] >= 1 /\ FundingId(s)[j] + s[j] < FundingId(s)[Len(s) + 1]
  <2>1. j \in 1..(Len(s) + 1) /\ Len(s) + 1 \in 1..(Len(s) + 1) /\ j < Len(s) + 1
    BY <1>1
  <2> QED
    BY <2>1, LoopsApart
<1>4. FundingId(s)[Len(s) + 1] >= 1
  <2>1. CASE Len(s) = 0
    BY <2>1, FundingIdFacts
  <2>2. CASE Len(s) # 0
    <3>1. 1 \in 1..Len(s) /\ Len(s) + 1 \in 1..(Len(s) + 1) /\ 1 \in 1..(Len(s) + 1)
      BY <1>1, <2>2
    <3>2. /\ FundingId(s)[1] >= 1 /\ FundingId(s)[1] + s[1] < FundingId(s)[Len(s) + 1]
          /\ s[1] \in Nat /\ FundingId(s)[1] \in Int /\ FundingId(s)[Len(s) + 1] \in Int
      BY <1>1, <1>2, <1>3, <3>1
    <3> QED
      BY <3>2
  <2> QED
    BY <2>1, <2>2
<1>5. \A j \in 1..(Len(s) + 1) : j \in 1..Len(s) \/ j = Len(s) + 1
  BY <1>1
<1>6. \A j \in 1..(Len(s) + 1) : FundingId(s)[j] >= 1
  BY <1>3, <1>4, <1>5
<1> QED
  BY <1>2, <1>3, <1>6

LEMMA LoopsFill ==
  ASSUME NEW s \in Allocation, NEW n \in 1..(FundingId(s)[Len(s) + 1] - 1)
  PROVE  \E j \in 1..Len(s) : n \in LoopIds(s, j)
<1> DEFINE id(j) == FundingId(s)[j]
           P == {k \in Nat : k <= Len(s) /\ n < id(k + 1) =>
                    \E j \in 1..Len(s) : n \in LoopIds(s, j)}
<1>1. /\ Len(s) \in Nat /\ n \in Nat /\ 1 <= n
      /\ \A j \in 1..(Len(s) + 1) : id(j) \in Nat
      /\ \A j \in 1..Len(s) : s[j] \in Nat \ {0} /\ id(j + 1) = id(j) + 1 + s[j]
      /\ id(1) = 1
  <2>1. Len(s) \in Nat /\ Len(s) + 1 \in 1..(Len(s) + 1)
    BY FundingIdFacts
  <2>2. FundingId(s)[Len(s) + 1] \in Nat
    BY <2>1, LoopBounds
  <2> QED
    BY <2>1, <2>2, FundingIdFacts, LoopBounds
<1>2. 0 \in P
  BY <1>1
<1>3. ASSUME NEW k \in Nat, k \in P PROVE k + 1 \in P
  <2> SUFFICES ASSUME k + 1 <= Len(s), n < id((k + 1) + 1)
               PROVE  \E j \in 1..Len(s) : n \in LoopIds(s, j)
    OBVIOUS
  <2>1. k + 1 \in 1..Len(s) /\ k + 1 \in 1..(Len(s) + 1) /\ k <= Len(s)
    BY <1>1
  <2>2. CASE n < id(k + 1)
    BY <1>3, <2>1, <2>2
  <2>3. CASE ~(n < id(k + 1))
    <3>1. /\ id((k + 1) + 1) = id(k + 1) + 1 + s[k + 1] /\ s[k + 1] \in Nat
          /\ id(k + 1) \in Nat
      BY <1>1, <2>1
    <3> HIDE DEF id
    <3>2. id(k + 1) <= n /\ n <= id(k + 1) + s[k + 1]
      BY <1>1, <2>3, <3>1
    <3>3. n \in LoopIds(s, k + 1)
      BY <1>1, <3>1, <3>2 DEF LoopIds, id
    <3> QED
      BY <2>1, <3>3
  <2> QED
    BY <2>2, <2>3
<1>4. Nat \subseteq P
  <2> HIDE DEF P
  <2> QED
    BY <1>2, <1>3, NatSetInduction
<1>5. Len(s) \in P
  BY <1>1, <1>4
<1>6. n < id(Len(s) + 1)
  BY <1>1
<1> QED
  BY <1>1, <1>5, <1>6

(* What the tree has at a node of loop j.                                   *)
NodeOf(s, j, n) ==
  LET t == BalancedTree(s)
      id == FundingId(s)
  IN  /\ n \in Nodes(t) \ {0} /\ id[j] \in Nat \ {0} /\ s[j] \in Nat \ {0}
      /\ n = id[j] => t.op[n] = Transfer(0, n, FALSE)
      /\ n # id[j] => /\ n - 1 \in LoopIds(s, j)
                      /\ t.op[n] = Transfer(n - 1, IF n = id[j] + s[j] THEN 0 ELSE n, TRUE)
      /\ t.op[n].sweep <=> n # id[j]
      /\ t.op[n].to = IF n = id[j] + s[j] THEN 0 ELSE n
      /\ t.children[n] =
           IF n = id[j] THEN IF j < Len(s) THEN <<n + 1, id[j + 1]>> ELSE <<n + 1>>
           ELSE IF n = id[j] + s[j] THEN <<>> ELSE <<n + 1>>

LEMMA LoopNode ==
  ASSUME NEW s \in Allocation, NEW j \in 1..Len(s), NEW n \in LoopIds(s, j)
  PROVE  NodeOf(s, j, n)
<1> DEFINE t == BalancedTree(s)
           id == FundingId(s)
           ids == 0..(id[Len(s) + 1] - 1)
<1>1. /\ Len(s) \in Nat /\ DOMAIN s = 1..Len(s) /\ j \in 1..(Len(s) + 1)
      /\ id[j] \in Nat \ {0} /\ s[j] \in Nat \ {0}
      /\ Len(s) + 1 \in 1..(Len(s) + 1) /\ id[Len(s) + 1] \in Nat
      /\ id[j] + s[j] < id[Len(s) + 1]
  <2>1. Len(s) \in Nat /\ DOMAIN s = 1..Len(s) /\ s[j] \in Nat \ {0}
    BY FundingIdFacts
  <2>2. j \in 1..(Len(s) + 1) /\ Len(s) + 1 \in 1..(Len(s) + 1)
    BY <2>1
  <2> QED
    BY <2>1, <2>2, LoopBounds
<1>2. /\ Nodes(t) = ids
      /\ \A k \in ids : /\ t.children[k] = ChainChildren(s, k)
                         /\ t.op[k] = [from |-> Sender(s, k), to |-> Target(s, k),
                                       sweep |-> k \notin LoopStarts(s)]
  BY DEF BalancedTree, Nodes
<1>3. n \in ids \ {0} /\ n \in Nat /\ id[j] <= n /\ n <= id[j] + s[j]
  <2> HIDE DEF id
  <2> QED
    BY <1>1 DEF LoopIds, id
<1>4. /\ id[j] \in LoopStarts(s) /\ id[j] \notin LoopEnds(s)
      /\ \A k \in DOMAIN s : id[k] = id[j] => k = j
      /\ \A m \in (id[j] + 1)..(id[j] + s[j]) :
           m \notin LoopStarts(s) /\ (m \in LoopEnds(s) <=> m = id[j] + s[j])
  BY Placement
<1> HIDE DEF id, t
<1>5. n \in LoopStarts(s) <=> n = id[j]
  BY <1>1, <1>3, <1>4
<1>6. n \in LoopEnds(s) <=> n = id[j] + s[j]
  BY <1>1, <1>3, <1>4
<1>7. Target(s, n) = IF n = id[j] + s[j] THEN 0 ELSE n
  BY <1>3, <1>6 DEF Target
<1>8. Sender(s, n) = IF n = id[j] THEN 0 ELSE n - 1
  BY <1>3, <1>5 DEF Sender
<1>9. /\ t.op[n] = [from |-> Sender(s, n), to |-> Target(s, n), sweep |-> n # id[j]]
      /\ t.op[n].to = Target(s, n) /\ (t.op[n].sweep <=> n # id[j])
  <2>1. (n \notin LoopStarts(s)) = (n # id[j])
    BY <1>5
  <2>2. t.op[n] = [from |-> Sender(s, n), to |-> Target(s, n), sweep |-> n \notin LoopStarts(s)]
    BY <1>2, <1>3
  <2>3. t.op[n] = [from |-> Sender(s, n), to |-> Target(s, n), sweep |-> n # id[j]]
    BY <2>1, <2>2
  <2>4. t.op[n].to = Target(s, n) /\ t.op[n].sweep = (n # id[j])
    BY <2>3
  <2> QED
    BY <2>3, <2>4
<1>10. n = id[j] => t.op[n] = Transfer(0, n, FALSE)
  <2>1. n = id[j] => n # id[j] + s[j]
    BY <1>1
  <2> QED
    BY <1>7, <1>8, <1>9, <2>1 DEF Transfer
<1>11. n # id[j] => t.op[n] = Transfer(n - 1, IF n = id[j] + s[j] THEN 0 ELSE n, TRUE)
  BY <1>7, <1>8, <1>9 DEF Transfer
<1>12. n # id[j] => n - 1 \in LoopIds(s, j)
  BY <1>1, <1>3 DEF LoopIds, id
<1>13. t.children[n] =
          IF n = id[j] THEN IF j < Len(s) THEN <<n + 1, id[j + 1]>> ELSE <<n + 1>>
          ELSE IF n = id[j] + s[j] THEN <<>> ELSE <<n + 1>>
  <2>1. CASE n = id[j]
    <3>1. (CHOOSE k \in DOMAIN s : id[k] = n) = j
      BY <1>1, <1>4, <2>1
    <3> QED
      BY <1>2, <1>3, <1>5, <2>1, <3>1 DEF ChainChildren, id
  <2>2. CASE n # id[j]
    BY <1>2, <1>3, <1>5, <1>6, <2>2 DEF ChainChildren
  <2> QED
    BY <2>1, <2>2
<1> QED
  BY <1>1, <1>2, <1>3, <1>7, <1>9, <1>10, <1>11, <1>12, <1>13 DEF NodeOf, id, t

LEMMA BalancedNodes ==
  ASSUME NEW s \in Allocation
  PROVE  LET t == BalancedTree(s)
             N == FundingId(s)[Len(s) + 1]
         IN  /\ t.root = 0 /\ N \in Nat \ {0} /\ Nodes(t) = 0..(N - 1) /\ DOMAIN t.op = Nodes(t)
             /\ t.op[0] = Transfer(0, 0, TRUE)
             /\ t.children[0] = IF s = <<>> THEN <<>> ELSE <<1>>
             /\ \A n \in Nodes(t) \ {0} : \E j \in 1..Len(s) : n \in LoopIds(s, j)
<1> DEFINE t == BalancedTree(s)
           N == FundingId(s)[Len(s) + 1]
           ids == 0..(N - 1)
<1>1. N \in Nat \ {0}
  <2>1. Len(s) + 1 \in 1..(Len(s) + 1)
    BY FundingIdFacts
  <2> QED
    BY <2>1, LoopBounds
<1>2. /\ t.root = 0 /\ Nodes(t) = ids /\ DOMAIN t.op = ids
      /\ t.children = [k \in ids |-> ChainChildren(s, k)]
      /\ t.op = [k \in ids |-> [from |-> Sender(s, k), to |-> Target(s, k),
                                sweep |-> k \notin LoopStarts(s)]]
  BY DEF BalancedTree, Nodes
<1> HIDE DEF N
<1>3. 0 \in ids
  BY <1>1
<1> HIDE DEF ids, t
<1>4. t.op[0] = Transfer(0, 0, TRUE)
  <2>1. Sender(s, 0) = 0 /\ Target(s, 0) = 0
    BY DEF Sender, Target
  <2>2. (0 \notin LoopStarts(s)) = TRUE
    BY RootPlacement
  <2>3. t.op[0] = [from |-> Sender(s, 0), to |-> Target(s, 0), sweep |-> 0 \notin LoopStarts(s)]
    BY <1>2, <1>3
  <2> QED
    BY <2>1, <2>2, <2>3 DEF Transfer
<1>5. t.children[0] = IF s = <<>> THEN <<>> ELSE <<1>>
  BY <1>2, <1>3 DEF ChainChildren
<1>6. ASSUME NEW n \in Nodes(t) \ {0} PROVE \E j \in 1..Len(s) : n \in LoopIds(s, j)
  <2>1. n \in 1..(N - 1)
    BY <1>1, <1>2 DEF ids
  <2> QED
    BY <2>1, LoopsFill DEF N
<1> QED
  BY <1>1, <1>2, <1>4, <1>5, <1>6 DEF ids, t, N

LEMMA BalancedSends ==
  ASSUME NEW s \in Allocation
  PROVE  /\ Sends(BalancedTree(s).op, Nodes(BalancedTree(s)))
         /\ SendsOn(BalancedTree(s))
<1> DEFINE t == BalancedTree(s)
           id(j) == FundingId(s)[j]
<1>1. ASSUME NEW n \in Nodes(t) \ {0}
      PROVE  /\ \/ t.op[n] = Transfer(0, n, FALSE)
                \/ /\ t.op[n] \in {Transfer(n - 1, n, TRUE), Transfer(n - 1, 0, TRUE)}
                   /\ n > 1 /\ t.op[n - 1].to = n - 1
             /\ To(t, n) = n => n + 1 \in Nodes(t) /\ t.op[n + 1].sweep
  <2>1. PICK j \in 1..Len(s) : n \in LoopIds(s, j)
    BY <1>1, BalancedNodes
  <2>2. /\ id(j) \in Nat \ {0} /\ s[j] \in Nat \ {0}
        /\ n = id(j) => t.op[n] = Transfer(0, n, FALSE)
        /\ n # id(j) => /\ n - 1 \in LoopIds(s, j)
                        /\ t.op[n] = Transfer(n - 1, IF n = id(j) + s[j] THEN 0 ELSE n, TRUE)
        /\ t.op[n].to = IF n = id(j) + s[j] THEN 0 ELSE n
    <3>1. NodeOf(s, j, n)
      BY <2>1, LoopNode
    <3> QED
      BY <3>1 DEF NodeOf
  <2>3. n \in Nat \ {0} /\ id(j) <= n /\ n <= id(j) + s[j]
    <3> HIDE DEF id
    <3> QED
      BY <2>1, <2>2 DEF LoopIds, id
  <2>4. n # id(j) => n > 1 /\ t.op[n - 1].to = n - 1
    <3> SUFFICES ASSUME n # id(j) PROVE n > 1 /\ t.op[n - 1].to = n - 1
      OBVIOUS
    <3>1. n - 1 \in LoopIds(s, j)
      BY <2>2
    <3>2. t.op[n - 1].to = IF n - 1 = id(j) + s[j] THEN 0 ELSE n - 1
      <4>1. NodeOf(s, j, n - 1)
        BY <3>1, LoopNode
      <4> QED
        BY <4>1 DEF NodeOf
    <3> HIDE DEF id, t
    <3> QED
      BY <2>2, <2>3, <3>2
  <2>5. To(t, n) = n => n + 1 \in Nodes(t) /\ t.op[n + 1].sweep
    <3> SUFFICES ASSUME t.op[n].to = n PROVE n + 1 \in Nodes(t) /\ t.op[n + 1].sweep
      BY DEF To
    <3>1. n # id(j) + s[j]
      <4> HIDE DEF id, t
      <4> QED
        BY <2>2, <2>3
    <3>2. n + 1 \in LoopIds(s, j) /\ n + 1 # id(j)
      <4> HIDE DEF id
      <4> QED
        BY <2>2, <2>3, <3>1 DEF LoopIds, id
    <3>3. NodeOf(s, j, n + 1)
      BY <3>2, LoopNode
    <3> QED
      BY <3>2, <3>3 DEF NodeOf
  <2> HIDE DEF id, t
  <2> QED
    BY <2>2, <2>4, <2>5
<1>2. t.op[0] = Transfer(0, 0, TRUE)
  BY BalancedNodes
<1> HIDE DEF t
<1> QED
  BY <1>1, <1>2 DEF Sends, SendsOn, t

(* The parent of an operation, by its place: the operation before it; for   *)
(* the funding operation of a loop, that of the loop before, or the root.   *)
ParentId(s, j, n) ==
  IF n # FundingId(s)[j] THEN n - 1 ELSE IF j = 1 THEN 0 ELSE FundingId(s)[j - 1]

LEMMA BalancedParent ==
  ASSUME NEW s \in Allocation, NEW j \in 1..Len(s), NEW n \in LoopIds(s, j)
  PROVE  LET t == BalancedTree(s) IN
         ParentId(s, j, n) \in Nodes(t) /\ IsParent(t.op, ParentId(s, j, n), n)
<1> DEFINE t == BalancedTree(s)
           id(k) == FundingId(s)[k]
           N == id(Len(s) + 1)
<1>1. /\ n \in Nodes(t) \ {0} /\ Nodes(t) = 0..(N - 1) /\ N \in Nat \ {0}
      /\ (t.op[n].sweep <=> n # id(j)) /\ id(j) \in Nat \ {0}
  <2>1. NodeOf(s, j, n)
    BY LoopNode
  <2> QED
    BY <2>1, BalancedNodes DEF NodeOf
<1> HIDE DEF t, id, N
<1>2. CASE n # id(j)
  <2>1. ParentId(s, j, n) = n - 1 /\ t.op[n].sweep /\ n - 1 \in Nodes(t) /\ n - 1 < n
    BY <1>1, <1>2 DEF ParentId, id
  <2> QED
    BY <2>1 DEF IsParent, t
<1>3. CASE n = id(j) /\ j = 1
  <2>1. n = 1
    BY <1>3, FundingIdFacts DEF id
  <2>2. ParentId(s, j, n) = 0
    BY <1>3 DEF ParentId, id
  <2> QED
    BY <1>1, <1>3, <2>1, <2>2 DEF IsParent, Funding, t
<1>4. CASE n = id(j) /\ j # 1
  <2> DEFINE i == j - 1
  <2>1. i \in 1..Len(s) /\ i + 1 = j
    BY <1>4, FundingIdFacts
  <2>2. ParentId(s, j, n) = id(i)
    BY <1>4 DEF ParentId, id
  <2> HIDE DEF i
  <2>3. id(i) \in Nat \ {0} /\ s[i] \in Nat \ {0} /\ id(j) = id(i) + 1 + s[i]
    BY <2>1, FundingIdFacts, LoopBounds DEF id
  <2>4. LoopIds(s, i) = id(i)..(id(i) + s[i])
    BY DEF LoopIds, id
  <2>5. \A q \in LoopIds(s, i) : t.op[q].sweep <=> q # id(i)
    <3>1. \A q \in LoopIds(s, i) : NodeOf(s, i, q)
      BY <2>1, LoopNode
    <3> QED
      BY <3>1 DEF NodeOf, t, id
  <2>6. \A q \in LoopIds(s, i) : Funding(t.op, q) <=> q = id(i)
    BY <2>3, <2>4, <2>5 DEF Funding
  <2>7. \A q \in (id(i) + 1)..(n - 1) : ~Funding(t.op, q)
    BY <1>4, <2>3, <2>4, <2>6
  <2>8. Funding(t.op, id(i)) /\ id(i) < n
    BY <1>4, <2>3, <2>4, <2>6
  <2>9. id(i) \in Nodes(t)
    BY <1>1, <2>3, <2>8
  <2> QED
    BY <1>1, <1>4, <2>2, <2>7, <2>8, <2>9 DEF IsParent, t
<1> QED
  BY <1>2, <1>3, <1>4 DEF t

LEMMA TwoOf ==
  /\ Range(<<>>) = {}
  /\ \A a : Range(<<a>>) = {a}
  /\ \A a, b : Range(<<a, b>>) = {a, b}
  BY DEF Range

(* The children of a node are those whose parent it is.                     *)
LEMMA BalancedKids ==
  ASSUME NEW s \in Allocation, NEW p \in Nodes(BalancedTree(s)),
         NEW j \in 1..Len(s), NEW n \in LoopIds(s, j)
  PROVE  n \in Range(BalancedTree(s).children[p]) <=> p = ParentId(s, j, n)
<1> DEFINE t == BalancedTree(s)
           id(k) == FundingId(s)[k]
<1>1. /\ Len(s) \in Nat /\ s # <<>> /\ 1 \in 1..Len(s)
      /\ \A k \in 1..Len(s) : id(k) \in Nat \ {0} /\ s[k] \in Nat \ {0}
                             /\ id(k + 1) = id(k) + 1 + s[k]
      /\ id(1) = 1
  <2>1. Len(s) \in Nat /\ \A k \in 1..Len(s) : k \in 1..(Len(s) + 1)
    BY FundingIdFacts
  <2>2. s # <<>> /\ 1 \in 1..Len(s)
    BY <2>1
  <2>3. \A k \in 1..Len(s) : id(k) \in Nat \ {0}
    BY <2>1, LoopBounds
  <2> QED
    BY <2>1, <2>2, <2>3, FundingIdFacts
<1>2. \A k \in 1..Len(s) : LoopIds(s, k) = id(k)..(id(k) + s[k])
  BY DEF LoopIds
<1>3. \A i, k \in 1..Len(s) : i < k => id(i) + s[i] < id(k)
  <2>1. \A k \in 1..Len(s) : k \in 1..(Len(s) + 1)
    BY <1>1
  <2> QED
    BY <2>1, LoopsApart
<1>4. n \in Nat /\ id(j) <= n /\ n <= id(j) + s[j] /\ id(j) \in Nat \ {0}
  <2> HIDE DEF id
  <2> QED
    BY <1>1, <1>2
<1>5. ParentId(s, j, n) = IF n # id(j) THEN n - 1 ELSE IF j = 1 THEN 0 ELSE id(j - 1)
  BY DEF ParentId
<1>6. CASE p = 0
  <2>1. Range(t.children[p]) = {1}
    BY <1>1, <1>6, BalancedNodes, TwoOf
  <2> HIDE DEF id, t
  <2>2. n = 1 => j = 1 /\ n = id(j)
    <3>1. 1 < j => id(1) + s[1] < id(j)
      BY <1>1, <1>3
    <3>2. n = 1 => n = id(j)
      BY <1>4
    <3> QED
      BY <1>1, <1>4, <3>1, <3>2
  <2>3. ParentId(s, j, n) = 0 => n = 1
    <3>1. n # id(j) => n - 1 # 0
      BY <1>4
    <3>2. j # 1 => id(j - 1) # 0
      BY <1>1
    <3> QED
      BY <1>1, <1>5, <3>1, <3>2
  <2> QED
    BY <1>5, <1>6, <2>1, <2>2, <2>3 DEF t
<1>7. CASE p # 0
  <2>1. PICK i \in 1..Len(s) : p \in LoopIds(s, i)
    BY <1>7, BalancedNodes
  <2>2. t.children[p] =
          IF p = id(i) THEN IF i < Len(s) THEN <<p + 1, id(i + 1)>> ELSE <<p + 1>>
          ELSE IF p = id(i) + s[i] THEN <<>> ELSE <<p + 1>>
    <3>1. NodeOf(s, i, p)
      BY <2>1, LoopNode
    <3> QED
      BY <3>1 DEF NodeOf
  <2> HIDE DEF id, t
  <2>3. p \in Nat /\ id(i) <= p /\ p <= id(i) + s[i] /\ id(i) \in Nat \ {0} /\ s[i] \in Nat \ {0}
    BY <1>1, <1>2, <2>1
  <2>4. n \in Range(t.children[p]) <=>
          \/ n = p + 1 /\ p # id(i) + s[i]
          \/ n = id(i + 1) /\ p = id(i) /\ i < Len(s)
    <3>1. CASE p = id(i) /\ i < Len(s)
      BY <2>2, <2>3, <3>1, TwoOf
    <3>2. CASE p = id(i) /\ ~(i < Len(s))
      BY <2>2, <2>3, <3>2, TwoOf
    <3>3. CASE p # id(i)
      BY <2>2, <3>3, TwoOf
    <3> QED
      BY <3>1, <3>2, <3>3
  <2>5. i = j \/ (i < j /\ id(i) + s[i] < id(j)) \/ (j < i /\ id(j) + s[j] < id(i))
    BY <1>1, <1>3
  <2>6. n = p + 1 /\ p # id(i) + s[i] <=> n # id(j) /\ p = n - 1
    <3>1. s[j] \in Nat
      BY <1>1
    <3> QED
      BY <1>4, <2>3, <2>5, <3>1
  <2>7. n = id(i + 1) /\ p = id(i) /\ i < Len(s) <=> n = id(j) /\ j # 1 /\ p = id(j - 1)
    <3>1. ASSUME n = id(i + 1), p = id(i), i < Len(s) PROVE n = id(j) /\ j # 1 /\ p = id(j - 1)
      <4>1. i + 1 \in 1..Len(s) /\ (i + 1) - 1 = i /\ i + 1 # 1
        BY <1>1, <3>1
      <4>2. i + 1 < j => id(i + 1) + s[i + 1] < id(j)
        BY <1>3, <4>1
      <4>3. j < i + 1 => id(j) + s[j] < id(i + 1)
        BY <1>3, <4>1
      <4>4. s[i + 1] \in Nat /\ id(i + 1) \in Nat /\ s[j] \in Nat
        BY <1>1, <4>1
      <4>5. ~(i + 1 < j) /\ ~(j < i + 1)
        BY <1>4, <3>1, <4>2, <4>3, <4>4
      <4>6. j = i + 1
        BY <4>1, <4>5
      <4> QED
        BY <3>1, <4>1, <4>6
    <3>2. ASSUME n = id(j), j # 1, p = id(j - 1) PROVE n = id(i + 1) /\ p = id(i) /\ i < Len(s)
      <4> DEFINE h == j - 1
      <4>1. h \in 1..Len(s) /\ h + 1 = j /\ h < Len(s)
        BY <1>1, <3>2
      <4>2. p = id(h) /\ s[h] \in Nat
        BY <1>1, <3>2, <4>1
      <4> HIDE DEF h
      <4>3. h < i => id(h) + s[h] < id(i)
        BY <1>3, <4>1
      <4>4. i < h => id(i) + s[i] < id(h)
        BY <1>3, <4>1
      <4>5. ~(h < i) /\ ~(i < h)
        BY <2>3, <4>2, <4>3, <4>4
      <4>6. h = i
        BY <4>1, <4>5
      <4> QED
        BY <3>2, <4>1, <4>2, <4>6
    <3> QED
      BY <3>1, <3>2
  <2>8. n # id(j) => n - 1 # 0
    BY <1>4
  <2> QED
    BY <1>5, <1>7, <2>4, <2>6, <2>7 DEF t
<1> QED
  BY <1>6, <1>7

LEMMA BalancedChildren ==
  ASSUME NEW s \in Allocation, NEW p \in Nodes(BalancedTree(s))
  PROVE  LET t == BalancedTree(s) IN
         /\ t.children[p] \in Seq(Nodes(t) \ {0})
         /\ \A i, j \in DOMAIN t.children[p] : i # j => t.children[p][i] # t.children[p][j]
<1> DEFINE t == BalancedTree(s)
           id(k) == FundingId(s)[k]
           ids == Nodes(t) \ {0}
           N == id(Len(s) + 1)
<1>1. Len(s) \in Nat /\ N \in Nat \ {0} /\ Nodes(t) = 0..(N - 1)
  BY FundingIdFacts, BalancedNodes
<1>2. \A k \in 1..Len(s) : /\ id(k) \in Nat \ {0} /\ s[k] \in Nat \ {0} /\ id(k) + s[k] < N
                           /\ id(k + 1) = id(k) + 1 + s[k]
  <2>1. \A k \in 1..Len(s) : k \in 1..(Len(s) + 1)
    BY <1>1
  <2> QED
    BY <2>1, FundingIdFacts, LoopBounds
<1>3. CASE p = 0
  <2>1. t.children[p] = IF s = <<>> THEN <<>> ELSE <<1>>
    BY <1>3, BalancedNodes
  <2>2. s # <<>> => 1 \in ids
    <3>1. s # <<>> => 1 \in 1..Len(s)
      BY <1>1 DEF Allocation
    <3> HIDE DEF id, t, N
    <3>2. s # <<>> => 1 < N
      BY <1>1, <1>2, <3>1
    <3> QED
      BY <1>1, <3>2
  <2> HIDE DEF ids, t
  <2>3. CASE s = <<>>
    <3>1. t.children[p] = <<>>
      BY <2>1, <2>3
    <3> QED
      BY <3>1 DEF ids, t
  <2>4. CASE s # <<>>
    <3>1. t.children[p] = <<1>> /\ 1 \in ids
      BY <2>1, <2>2, <2>4
    <3> QED
      BY <3>1 DEF ids, t
  <2> QED
    BY <2>3, <2>4
<1>4. CASE p # 0
  <2>1. PICK i \in 1..Len(s) : p \in LoopIds(s, i)
    BY <1>4, BalancedNodes
  <2>2. t.children[p] =
          IF p = id(i) THEN IF i < Len(s) THEN <<p + 1, id(i + 1)>> ELSE <<p + 1>>
          ELSE IF p = id(i) + s[i] THEN <<>> ELSE <<p + 1>>
    <3>1. NodeOf(s, i, p)
      BY <2>1, LoopNode
    <3> QED
      BY <3>1 DEF NodeOf
  <2>3. p \in id(i)..(id(i) + s[i])
    BY <2>1 DEF LoopIds
  <2> HIDE DEF id, t, N
  <2>4. p # id(i) + s[i] => p + 1 \in ids
    <3>1. id(i) \in Nat \ {0} /\ s[i] \in Nat \ {0} /\ id(i) + s[i] < N
      BY <1>2
    <3>2. p # id(i) + s[i] => p + 1 \in 1..(N - 1)
      BY <1>1, <2>3, <3>1
    <3> QED
      BY <1>1, <3>2
  <2>5. i < Len(s) /\ p = id(i) => id(i + 1) \in ids /\ id(i + 1) # p + 1
    <3> SUFFICES ASSUME i < Len(s), p = id(i) PROVE id(i + 1) \in ids /\ id(i + 1) # p + 1
      OBVIOUS
    <3>1. i + 1 \in 1..Len(s)
      BY <1>1
    <3>2. /\ id(i + 1) \in Nat \ {0} /\ id(i + 1) + s[i + 1] < N /\ s[i + 1] \in Nat
          /\ id(i + 1) = id(i) + 1 + s[i] /\ s[i] \in Nat \ {0} /\ id(i) \in Nat
      BY <1>2, <3>1
    <3> QED
      BY <1>1, <3>2
  <2>6. p = id(i) => p # id(i) + s[i]
    BY <1>2
  <2> HIDE DEF ids
  <2>7. CASE p = id(i) /\ i < Len(s)
    <3> DEFINE a == p + 1
               b == id(i + 1)
    <3>1. t.children[p] = <<a, b>> /\ a \in ids /\ b \in ids /\ a # b
      BY <2>2, <2>4, <2>5, <2>6, <2>7
    <3> HIDE DEF a, b
    <3> QED
      BY <3>1 DEF ids, t
  <2>8. CASE p # id(i) + s[i] /\ ~(p = id(i) /\ i < Len(s))
    <3> DEFINE a == p + 1
    <3>1. t.children[p] = <<a>> /\ a \in ids
      BY <2>2, <2>4, <2>8
    <3> HIDE DEF a
    <3> QED
      BY <3>1 DEF ids, t
  <2>9. CASE p = id(i) + s[i]
    <3>1. t.children[p] = <<>>
      BY <2>2, <2>6, <2>9
    <3> QED
      BY <3>1 DEF ids, t
  <2> QED
    BY <2>7, <2>8, <2>9
<1> QED
  BY <1>3, <1>4

LEMMA BalancedHangs ==
  ASSUME NEW s \in Allocation
  PROVE  Hangs(BalancedTree(s).children, BalancedTree(s).op, Nodes(BalancedTree(s)))
<1> DEFINE t == BalancedTree(s)
<1>1. Nodes(t) \subseteq Nat
  <2> DEFINE N == FundingId(s)[Len(s) + 1]
  <2>1. Nodes(t) = 0..(N - 1)
    BY BalancedNodes
  <2> HIDE DEF t, N
  <2> QED
    BY <2>1
<1>2. ASSUME NEW n \in Nodes(t) \ {0}
      PROVE  /\ \E p \in Nodes(t) : IsParent(t.op, p, n)
             /\ \A p \in Nodes(t) : n \in Range(t.children[p]) <=> IsParent(t.op, p, n)
  <2>1. PICK j \in 1..Len(s) : n \in LoopIds(s, j)
    BY <1>2, BalancedNodes
  <2>2. ParentId(s, j, n) \in Nodes(t) /\ IsParent(t.op, ParentId(s, j, n), n)
    BY <2>1, BalancedParent
  <2>3. \A p \in Nodes(t) : n \in Range(t.children[p]) <=> p = ParentId(s, j, n)
    BY <2>1, BalancedKids
  <2> HIDE DEF t
  <2>4. \A p \in Nodes(t) : IsParent(t.op, p, n) => p = ParentId(s, j, n)
    BY <1>1, <2>2, ParentUnique
  <2> QED
    BY <2>2, <2>3, <2>4
<1>3. \A p \in Nodes(t) :
        /\ t.children[p] \in Seq(Nodes(t) \ {0})
        /\ \A i, j \in DOMAIN t.children[p] : i # j => t.children[p][i] # t.children[p][j]
  BY BalancedChildren
<1> HIDE DEF t
<1>4. Hangs(t.children, t.op, Nodes(t))
  BY <1>2, <1>3 DEF Hangs
<1> QED
  BY <1>4 DEF t

(* The balanced tree of every allocation is a finite tree that keeps        *)
(* SafePlan, whoever makes it: what the theorems on the execution of plans  *)
(* ask of a tree.                                                           *)
THEOREM BalancedIsSafe ==
  \A s \in Allocation :
    LET t == BalancedTree(s) IN IsTree(t) /\ IsFiniteSet(Nodes(t)) /\ SafePlan(t)
<1> SUFFICES ASSUME NEW s \in Allocation
             PROVE  LET t == BalancedTree(s) IN IsTree(t) /\ IsFiniteSet(Nodes(t)) /\ SafePlan(t)
  OBVIOUS
<1> DEFINE t == BalancedTree(s)
           N == FundingId(s)[Len(s) + 1]
<1>1. t.root = 0 /\ DOMAIN t.op = Nodes(t) /\ N \in Nat \ {0} /\ Nodes(t) = 0..(N - 1)
  BY BalancedNodes
<1>2. Sends(t.op, Nodes(t)) /\ SendsOn(t) /\ Hangs(t.children, t.op, Nodes(t))
  BY BalancedSends, BalancedHangs
<1> HIDE DEF t, N
<1>3. PlanShape(t)
  BY <1>1, <1>2 DEF PlanShape
<1> QED
  BY <1>2, <1>3, ShapeIsSafe, ShapeNodes DEF t
=============================================================================
