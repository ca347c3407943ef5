------------------------------ MODULE FoldFacts ------------------------------
(***************************************************************************)
(* Induction, and what the folds of the community modules compute, in a    *)
(* form the provers can use: a property is the set of the values that have *)
(* it, so no statement takes an operator as a parameter.                   *)
(***************************************************************************)
EXTENDS Integers, FiniteSetsExt, Functions, FiniteSetTheorems, WellFoundedInduction, TLAPS

(* Of the numbers in a set one is the least.                                *)
LEMMA LeastNat ==
  ASSUME NEW S \in SUBSET Nat, S # {}
  PROVE  \E x \in S : \A y \in S : x <= y
<1>1. PICK x \in S : \A y \in S : ~(<<y, x>> \in OpToRel(<, Nat))
  BY NatLessThanWellFounded, WFMin
<1>2. \A y \in S : ~(y < x)
  BY <1>1 DEF OpToRel
<1> QED
  BY <1>2

(* A set of numbers that holds 0 and with each number the next holds all.   *)
LEMMA NatSetInduction ==
  ASSUME NEW S, 0 \in S, \A n \in Nat : n \in S => n + 1 \in S
  PROVE  Nat \subseteq S
<1> SUFFICES ASSUME Nat \ S # {} PROVE FALSE
  OBVIOUS
<1>1. PICK x \in Nat \ S : \A y \in Nat \ S : x <= y
  BY LeastNat
<1>2. x # 0 /\ x - 1 \in Nat /\ ~(x <= x - 1) /\ (x - 1) + 1 = x
  BY <1>1
<1> QED
  BY <1>1, <1>2

(* A set of subsets of D that holds a subset whenever it holds all the      *)
(* subsets with one element less holds every subset.                        *)
LEMMA SubsetInduction ==
  ASSUME NEW D, IsFiniteSet(D), NEW P,
         \A S \in SUBSET D : (\A x \in S : S \ {x} \in P) => S \in P
  PROVE  SUBSET D \subseteq P
<1> DEFINE Upto == {n \in Nat : \A S \in SUBSET D : Cardinality(S) <= n => S \in P}
<1>1. \A S \in SUBSET D : IsFiniteSet(S) /\ Cardinality(S) \in Nat
  BY FS_Subset, FS_CardinalityType
<1>2. 0 \in Upto
  <2>1. ASSUME NEW S \in SUBSET D, Cardinality(S) <= 0 PROVE S \in P
    <3>1. S = {}
      BY <1>1, <2>1, FS_EmptySet
    <3> QED
      BY <3>1
  <2> QED
    BY <2>1
<1>3. ASSUME NEW n \in Nat, n \in Upto PROVE n + 1 \in Upto
  <2>1. ASSUME NEW S \in SUBSET D, Cardinality(S) <= n + 1 PROVE S \in P
    <3>1. ASSUME NEW x \in S PROVE S \ {x} \in P
      <4>1. Cardinality(S \ {x}) = Cardinality(S) - 1
        BY <1>1, FS_RemoveElement
      <4>2. Cardinality(S \ {x}) <= n
        BY <1>1, <2>1, <4>1
      <4> QED
        BY <1>3, <4>2
    <3> QED
      BY <3>1
  <2> QED
    BY <2>1
<1>4. Nat \subseteq Upto
  <2> HIDE DEF Upto
  <2> QED
    BY <1>2, <1>3, NatSetInduction
<1>5. ASSUME NEW S \in SUBSET D PROVE S \in P
  <2>1. Cardinality(S) \in Upto
    BY <1>1, <1>4
  <2> QED
    BY <1>1, <2>1
<1> QED
  BY <1>5

(* A finite set of numbers has a least and a greatest.                      *)
LEMMA Extremes ==
  ASSUME NEW S, IsFiniteSet(S), S \subseteq Int, S # {}
  PROVE  /\ Max(S) \in S /\ \A y \in S : y <= Max(S)
         /\ Min(S) \in S /\ \A y \in S : Min(S) <= y
<1> DEFINE P == {t \in SUBSET S : t # {} => /\ \E x \in t : \A y \in t : x >= y
                                          /\ \E x \in t : \A y \in t : x <= y}
<1>1. ASSUME NEW t \in SUBSET S, \A x \in t : t \ {x} \in P PROVE t \in P
  <2>1. ASSUME NEW x \in t PROVE /\ \E u \in t : \A y \in t : u >= y
                                /\ \E u \in t : \A y \in t : u <= y
    <3>1. CASE t = {x}
      BY <3>1
    <3>2. CASE t # {x}
      <4>1. t \ {x} \in P /\ t \ {x} # {}
        BY <1>1, <3>2
      <4>2. PICK u \in t \ {x} : \A y \in t \ {x} : u >= y
        BY <4>1
      <4>3. PICK v \in t \ {x} : \A y \in t \ {x} : v <= y
        BY <4>1
      <4>4. x \in Int /\ u \in Int /\ v \in Int /\ t \subseteq Int
        OBVIOUS
      <4>5. \E w \in t : \A y \in t : w >= y
        <5>1. CASE u >= x
          BY <4>2, <5>1
        <5>2. CASE ~(u >= x)
          BY <4>2, <4>4, <5>2
        <5> QED
          BY <5>1, <5>2
      <4>6. \E w \in t : \A y \in t : w <= y
        <5>1. CASE v <= x
          BY <4>3, <5>1
        <5>2. CASE ~(v <= x)
          BY <4>3, <4>4, <5>2
        <5> QED
          BY <5>1, <5>2
      <4> QED
        BY <4>5, <4>6
    <3> QED
      BY <3>1, <3>2
  <2> QED
    BY <2>1
<1>2. SUBSET S \subseteq P
  <2> HIDE DEF P
  <2> QED
    BY <1>1, SubsetInduction
<1>3. S \in P
  BY <1>2
<1>4. (\E x \in S : \A y \in S : x >= y) /\ (\E x \in S : \A y \in S : x <= y)
  BY <1>3
<1>5. Max(S) \in S /\ \A y \in S : Max(S) >= y
  BY <1>4 DEF Max
<1>6. Min(S) \in S /\ \A y \in S : Min(S) <= y
  BY <1>4 DEF Min
<1> QED
  BY <1>5, <1>6

(* A fold over a set is defined, whatever order it takes the elements in:   *)
(* `pick` says which comes last of each subset.                             *)
FoldBody(D, base, step, pick, g) ==
  [t \in SUBSET D |-> IF t = {} THEN base ELSE step[<<pick[t], g[t \ {pick[t]}]>>]]

LEMMA FoldExists ==
  ASSUME NEW D, IsFiniteSet(D), NEW base, NEW step, NEW pick,
         \A t \in SUBSET D : t # {} => pick[t] \in t
  PROVE  \E g : g = FoldBody(D, base, step, pick, g)
<1> DEFINE Body(g, t) == IF t = {} THEN base ELSE step[<<pick[t], g[t \ {pick[t]}]>>]
           Upto == {n \in Nat : \E g : \A t \in SUBSET D :
                                  Cardinality(t) <= n => g[t] = Body(g, t)}
<1>1. \A S \in SUBSET D : IsFiniteSet(S) /\ Cardinality(S) \in Nat
  BY FS_Subset, FS_CardinalityType
<1>2. \A t \in SUBSET D : Cardinality(t) <= 0 => t = {}
  BY <1>1, FS_EmptySet
<1>3. 0 \in Upto
  <2>1. \A t \in SUBSET D : Cardinality(t) <= 0 =>
          [s \in SUBSET D |-> base][t] = Body([s \in SUBSET D |-> base], t)
    BY <1>2
  <2> HIDE DEF Body
  <2> QED
    BY <2>1
<1>4. ASSUME NEW n \in Nat, n \in Upto PROVE n + 1 \in Upto
  <2>1. PICK g : \A t \in SUBSET D : Cardinality(t) <= n => g[t] = Body(g, t)
    BY <1>4
  <2> DEFINE h == [t \in SUBSET D |-> IF Cardinality(t) <= n THEN g[t] ELSE Body(g, t)]
  <2>2. ASSUME NEW t \in SUBSET D, Cardinality(t) <= n + 1 PROVE h[t] = Body(h, t)
    <3>1. h[t] = Body(g, t)
      BY <2>1
    <3>2. CASE t = {}
      BY <3>1, <3>2
    <3>3. CASE t # {}
      <4>1. Cardinality(t \ {pick[t]}) = Cardinality(t) - 1
        BY <1>1, <3>3, FS_RemoveElement
      <4>2. Cardinality(t \ {pick[t]}) <= n
        BY <1>1, <2>2, <4>1
      <4>3. h[t \ {pick[t]}] = g[t \ {pick[t]}]
        BY <4>2
      <4> HIDE DEF h
      <4> QED
        BY <3>1, <4>3
    <3> QED
      BY <3>2, <3>3
  <2> HIDE DEF h, Body
  <2> QED
    BY <2>2
<1>5. Nat \subseteq Upto
  <2> HIDE DEF Upto
  <2> QED
    BY <1>3, <1>4, NatSetInduction
<1>6. Cardinality(D) \in Upto
  BY <1>1, <1>5
<1>7. PICK g : \A t \in SUBSET D : Cardinality(t) <= Cardinality(D) => g[t] = Body(g, t)
  BY <1>6
<1>8. \A t \in SUBSET D : g[t] = Body(g, t)
  BY <1>1, <1>7, FS_Subset
<1> DEFINE h == [t \in SUBSET D |-> g[t]]
<1>9. ASSUME NEW t \in SUBSET D PROVE h[t] = Body(h, t)
  <2>1. h[t] = g[t]
    OBVIOUS
  <2>2. CASE t = {}
    BY <1>8, <2>1, <2>2
  <2>3. CASE t # {}
    <3>1. t \ {pick[t]} \in SUBSET D
      OBVIOUS
    <3>2. h[t \ {pick[t]}] = g[t \ {pick[t]}]
      BY <3>1
    <3> HIDE DEF h
    <3> QED
      BY <1>8, <2>1, <3>2
  <2> QED
    BY <2>2, <2>3
<1>10. h = [t \in SUBSET D |-> Body(h, t)]
  <2>1. h = [t \in SUBSET D |-> h[t]]
    OBVIOUS
  <2> HIDE DEF h, Body
  <2> QED
    BY <1>9, <2>1
<1>11. h = FoldBody(D, base, step, pick, h)
  <2> HIDE DEF h
  <2> QED
    BY <1>10 DEF FoldBody
<1> QED
  BY <1>11

(* A loop that starts in a set and never leaves it has a value after every  *)
(* number of turns.                                                         *)
LEMMA IterateExists ==
  ASSUME NEW W, NEW start \in W, NEW next \in [W -> W]
  PROVE  \E f \in [Nat -> W] :
           f = [n \in Nat |-> IF n = 0 THEN start ELSE next[f[n - 1]]]
<1> DEFINE Good(n, g) == g \in [0..n -> W] /\ g[0] = start
                         /\ \A k \in 0..(n - 1) : g[k + 1] = next[g[k]]
           S == {n \in Nat : \E g : Good(n, g)}
           Same == {k \in Nat : \A m, n \in Nat : \A g, h :
                      k <= m /\ k <= n /\ Good(m, g) /\ Good(n, h) => g[k] = h[k]}
<1>1. 0 \in S
  <2>1. Good(0, [k \in 0..0 |-> start])
    OBVIOUS
  <2> HIDE DEF Good
  <2> QED
    BY <2>1
<1>2. ASSUME NEW n \in Nat, n \in S PROVE n + 1 \in S
  <2>1. PICK g : Good(n, g)
    BY <1>2
  <2> DEFINE h == [k \in 0..(n + 1) |-> IF k <= n THEN g[k] ELSE next[g[n]]]
  <2>2. \A k \in 0..(n + 1) : h[k] \in W
    BY <2>1
  <2>3. ASSUME NEW k \in 0..n PROVE h[k + 1] = next[h[k]]
    BY <2>1
  <2>4. Good(n + 1, h)
    <3>1. h \in [0..(n + 1) -> W] /\ h[0] = start
      BY <2>1, <2>2
    <3>2. (n + 1) - 1 = n
      OBVIOUS
    <3> HIDE DEF h
    <3> QED
      BY <2>3, <3>1, <3>2
  <2> HIDE DEF Good, h
  <2> QED
    BY <2>4
<1>3. Nat \subseteq S
  <2> HIDE DEF S
  <2> QED
    BY <1>1, <1>2, NatSetInduction
<1>4. 0 \in Same
  OBVIOUS
<1>5. ASSUME NEW k \in Nat, k \in Same PROVE k + 1 \in Same
  <2>1. ASSUME NEW m \in Nat, NEW n \in Nat, NEW g, NEW h,
               k + 1 <= m, k + 1 <= n, Good(m, g), Good(n, h)
        PROVE  g[k + 1] = h[k + 1]
    <3>1. g[k] = h[k]
      <4>1. k <= m /\ k <= n
        BY <2>1
      <4> HIDE DEF Good
      <4> QED
        BY <1>5, <2>1, <4>1
    <3>2. k \in 0..(m - 1) /\ k \in 0..(n - 1)
      BY <2>1
    <3> QED
      BY <2>1, <3>1, <3>2
  <2> HIDE DEF Good
  <2> QED
    BY <2>1
<1>6. Nat \subseteq Same
  <2> HIDE DEF Same
  <2> QED
    BY <1>4, <1>5, NatSetInduction
<1> DEFINE G(n) == CHOOSE g : Good(n, g)
           f == [n \in Nat |-> G(n)[n]]
<1>7. \A n \in Nat : Good(n, G(n))
  <2> HIDE DEF Good
  <2> QED
    BY <1>3
<1>8. ASSUME NEW n \in Nat PROVE f[n] \in W /\ f[n + 1] = next[f[n]]
  <2>1. Good(n, G(n)) /\ Good(n + 1, G(n + 1)) /\ n + 1 \in Nat
    <3> HIDE DEF Good, G
    <3> QED
      BY <1>7
  <2>2. G(n + 1)[n] = G(n)[n]
    <3> HIDE DEF Good, G
    <3>1. n \in Same /\ n <= n /\ n <= n + 1
      BY <1>6
    <3> QED
      BY <2>1, <3>1 DEF Same
  <2>3. f[n] = G(n)[n] /\ f[n + 1] = G(n + 1)[n + 1]
    BY <2>1
  <2>4. G(n)[n] \in W /\ G(n + 1)[n + 1] = next[G(n + 1)[n]]
    <3> HIDE DEF G
    <3> QED
      BY <2>1
  <2> HIDE DEF Good, G, f
  <2> QED
    BY <2>2, <2>3, <2>4
<1>9. f[0] = start
  <2>1. Good(0, G(0))
    <3> HIDE DEF Good, G
    <3> QED
      BY <1>7
  <2> HIDE DEF G
  <2> QED
    BY <2>1
<1>10. f \in [Nat -> W]
  BY <1>8
<1> HIDE DEF f
<1>11. ASSUME NEW n \in Nat PROVE f[n] = IF n = 0 THEN start ELSE next[f[n - 1]]
  <2>1. CASE n # 0
    <3>1. n - 1 \in Nat /\ (n - 1) + 1 = n
      BY <2>1
    <3> QED
      BY <1>8, <2>1, <3>1
  <2> QED
    BY <1>9, <2>1
<1>12. f = [n \in Nat |-> f[n]]
  BY <1>10
<1> QED
  BY <1>10, <1>11, <1>12

-----------------------------------------------------------------------------
(* Sums over finite sets.                                                   *)
Ints(f, D) == \A x \in D : f[x] \in Int

(* What the sum is by its definition: the fold over the subsets of D.       *)
SumBody(f, D, g) ==
  [t \in SUBSET D |-> IF t = {} THEN 0
                      ELSE f[CHOOSE x \in t : TRUE] + g[t \ {CHOOSE x \in t : TRUE}]]

Iterate(f, D) == CHOOSE g : g = SumBody(f, D, g)

LEMMA SumIsIterate == ASSUME NEW f, NEW S PROVE SumFunctionOnSet(f, S) = Iterate(f, S)[S]
  BY DEF SumFunctionOnSet, FoldFunctionOnSet, MapThenFoldSet, Iterate, SumBody

LEMMA IterateFacts ==
  ASSUME NEW f, NEW D, IsFiniteSet(D), Ints(f, D)
  PROVE  /\ Iterate(f, D) = SumBody(f, D, Iterate(f, D))
         /\ \A t \in SUBSET D : Iterate(f, D)[t] \in Int
<1> DEFINE pick == [t \in SUBSET D |-> CHOOSE x \in t : TRUE]
           step == [p \in D \X Int |-> f[p[1]] + p[2]]
<1>1. \A t \in SUBSET D : t # {} => pick[t] \in t /\ pick[t] = CHOOSE x \in t : TRUE
  OBVIOUS
<1>2. \A x \in D, n \in Int : step[<<x, n>>] = f[x] + n
  OBVIOUS
<1>3. PICK g : g = FoldBody(D, 0, step, pick, g)
  <2> HIDE DEF pick, step
  <2> QED
    BY <1>1, FoldExists
<1> HIDE DEF pick, step
<1> DEFINE P == {t \in SUBSET D : g[t] \in Int}
<1>4. ASSUME NEW S \in SUBSET D, \A x \in S : S \ {x} \in P PROVE S \in P
  <2>1. CASE S = {}
    BY <1>3, <2>1 DEF FoldBody
  <2>2. CASE S # {}
    <3>1. pick[S] \in S /\ pick[S] \in D
      BY <1>1, <2>2
    <3>2. g[S \ {pick[S]}] \in Int
      BY <1>4, <3>1
    <3>3. g[S] = f[pick[S]] + g[S \ {pick[S]}]
      BY <1>2, <1>3, <2>2, <3>1, <3>2 DEF FoldBody
    <3> QED
      BY <3>1, <3>2, <3>3 DEF Ints
  <2> QED
    BY <2>1, <2>2
<1>5. SUBSET D \subseteq P
  <2> HIDE DEF P
  <2> QED
    BY <1>4, SubsetInduction
<1>6. \A t \in SUBSET D : g[t] \in Int
  BY <1>5
<1>7. ASSUME NEW t \in SUBSET D, t # {}
      PROVE  step[<<pick[t], g[t \ {pick[t]}]>>] = f[CHOOSE x \in t : TRUE] + g[t \ {CHOOSE x \in t : TRUE}]
  BY <1>1, <1>2, <1>6, <1>7
<1>8. g = SumBody(f, D, g)
  <2>1. \A t \in SUBSET D : g[t] = SumBody(f, D, g)[t]
    BY <1>3, <1>7 DEF SumBody, FoldBody
  <2>2. g = [t \in SUBSET D |-> g[t]]
    BY <1>3 DEF FoldBody
  <2>3. SumBody(f, D, g) = [t \in SUBSET D |-> SumBody(f, D, g)[t]]
    BY DEF SumBody
  <2> QED
    BY <2>1, <2>2, <2>3
<1>9. Iterate(f, D) = SumBody(f, D, Iterate(f, D))
  BY <1>8 DEF Iterate
<1> DEFINE Q == {t \in SUBSET D : Iterate(f, D)[t] = g[t]}
<1>10. ASSUME NEW S \in SUBSET D, \A x \in S : S \ {x} \in Q PROVE S \in Q
  <2>1. CASE S = {}
    <3>1. g[S] = 0
      BY <1>3, <2>1 DEF FoldBody
    <3> QED
      BY <1>9, <2>1, <3>1 DEF SumBody
  <2>2. CASE S # {}
    <3>1. (CHOOSE x \in S : TRUE) \in S
      BY <2>2
    <3>2. Iterate(f, D)[S \ {CHOOSE x \in S : TRUE}] = g[S \ {CHOOSE x \in S : TRUE}]
      BY <1>10, <3>1
    <3>3. g[S] = f[CHOOSE x \in S : TRUE] + g[S \ {CHOOSE x \in S : TRUE}]
      BY <1>8, <2>2 DEF SumBody
    <3>4. Iterate(f, D)[S] = f[CHOOSE x \in S : TRUE] + Iterate(f, D)[S \ {CHOOSE x \in S : TRUE}]
      BY <1>9, <2>2 DEF SumBody
    <3> QED
      BY <3>2, <3>3, <3>4
  <2> QED
    BY <2>1, <2>2
<1>11. SUBSET D \subseteq Q
  <2> HIDE DEF Q
  <2> QED
    BY <1>10, SubsetInduction
<1> QED
  BY <1>6, <1>9, <1>11

(* A sum does not depend on the set its fold started from ...               *)
LEMMA IterateSame ==
  ASSUME NEW f, NEW D, IsFiniteSet(D), Ints(f, D), NEW S \in SUBSET D
  PROVE  SumFunctionOnSet(f, S) = Iterate(f, D)[S]
<1>1. IsFiniteSet(S) /\ Ints(f, S)
  BY FS_Subset DEF Ints
<1> DEFINE P == {t \in SUBSET S : Iterate(f, S)[t] = Iterate(f, D)[t]}
<1>2. ASSUME NEW t \in SUBSET S, \A x \in t : t \ {x} \in P PROVE t \in P
  <2>1. t \in SUBSET D
    OBVIOUS
  <2>2. /\ Iterate(f, S)[t] = SumBody(f, S, Iterate(f, S))[t]
        /\ Iterate(f, D)[t] = SumBody(f, D, Iterate(f, D))[t]
    BY <1>1, IterateFacts
  <2>3. t # {} => (CHOOSE x \in t : TRUE) \in t
    OBVIOUS
  <2> QED
    BY <1>2, <2>1, <2>2, <2>3 DEF SumBody
<1>3. SUBSET S \subseteq P
  <2> HIDE DEF P
  <2> QED
    BY <1>1, <1>2, SubsetInduction
<1> QED
  BY <1>3, SumIsIterate

LEMMA SumType ==
  ASSUME NEW f, NEW S, IsFiniteSet(S), Ints(f, S) PROVE SumFunctionOnSet(f, S) \in Int
  BY IterateFacts, SumIsIterate

LEMMA SumNone == ASSUME NEW f PROVE SumFunctionOnSet(f, {}) = 0
<1>1. IsFiniteSet({}) /\ Ints(f, {})
  BY FS_EmptySet DEF Ints
<1>2. Iterate(f, {})[{}] = SumBody(f, {}, Iterate(f, {}))[{}]
  BY <1>1, IterateFacts
<1>3. {} \in SUBSET {}
  OBVIOUS
<1>4. SumBody(f, {}, Iterate(f, {}))[{}] = 0
  BY <1>3 DEF SumBody
<1> QED
  BY <1>2, <1>4, SumIsIterate

(* ... nor on the order: any element can come first.                        *)
LEMMA SumSplit ==
  ASSUME NEW f, NEW S, IsFiniteSet(S), Ints(f, S), NEW x \in S
  PROVE  SumFunctionOnSet(f, S) = f[x] + SumFunctionOnSet(f, S \ {x})
<1> DEFINE P == {t \in SUBSET S : \A y \in t :
                   SumFunctionOnSet(f, t) = f[y] + SumFunctionOnSet(f, t \ {y})}
<1>1. \A t \in SUBSET S : SumFunctionOnSet(f, t) = Iterate(f, S)[t]
  BY IterateSame
<1>2. \A t \in SUBSET S : SumFunctionOnSet(f, t) \in Int
  BY <1>1, IterateFacts
<1>3. \A t \in SUBSET S : t # {} =>
        SumFunctionOnSet(f, t) = f[CHOOSE y \in t : TRUE] + SumFunctionOnSet(f, t \ {CHOOSE y \in t : TRUE})
  <2> SUFFICES ASSUME NEW t \in SUBSET S, t # {}
               PROVE Iterate(f, S)[t] = f[CHOOSE y \in t : TRUE] + Iterate(f, S)[t \ {CHOOSE y \in t : TRUE}]
    BY <1>1
  <2>1. Iterate(f, S)[t] = SumBody(f, S, Iterate(f, S))[t]
    BY IterateFacts
  <2> QED
    BY <2>1 DEF SumBody
<1>4. ASSUME NEW t \in SUBSET S, \A y \in t : t \ {y} \in P PROVE t \in P
  <2> SUFFICES ASSUME NEW y \in t
               PROVE SumFunctionOnSet(f, t) = f[y] + SumFunctionOnSet(f, t \ {y})
    OBVIOUS
  <2> DEFINE c == CHOOSE z \in t : TRUE
  <2>1. c \in t /\ SumFunctionOnSet(f, t) = f[c] + SumFunctionOnSet(f, t \ {c})
    BY <1>3
  <2>2. CASE y = c
    BY <2>1, <2>2
  <2>3. CASE y # c
    <3>0. c \in t \ {y} /\ y \in t \ {c} /\ (t \ {c}) \ {y} = (t \ {y}) \ {c}
      BY <2>1, <2>3
    <3> HIDE DEF c
    <3>1. SumFunctionOnSet(f, t \ {c}) = f[y] + SumFunctionOnSet(f, (t \ {c}) \ {y})
      BY <1>4, <2>1, <3>0
    <3>2. SumFunctionOnSet(f, t \ {y}) = f[c] + SumFunctionOnSet(f, (t \ {y}) \ {c})
      BY <1>4, <3>0
    <3> DEFINE rest == SumFunctionOnSet(f, (t \ {y}) \ {c})
    <3>3. f[y] \in Int /\ f[c] \in Int /\ rest \in Int
      BY <1>2, <2>1 DEF Ints
    <3>4. SumFunctionOnSet(f, t) = f[c] + (f[y] + rest)
      BY <2>1, <3>0, <3>1
    <3>5. SumFunctionOnSet(f, t \ {y}) = f[c] + rest
      BY <3>2
    <3> HIDE DEF rest
    <3> QED
      BY <3>3, <3>4, <3>5
  <2> QED
    BY <2>2, <2>3
<1>5. SUBSET S \subseteq P
  <2> HIDE DEF P
  <2> QED
    BY <1>4, SubsetInduction
<1> QED
  BY <1>5

(* Sums of the same values are the same, of smaller values smaller.         *)
LEMMA SumMono ==
  ASSUME NEW f, NEW g, NEW S, IsFiniteSet(S), Ints(f, S), Ints(g, S),
         \A x \in S : f[x] <= g[x]
  PROVE  SumFunctionOnSet(f, S) <= SumFunctionOnSet(g, S)
<1> DEFINE P == {t \in SUBSET S : SumFunctionOnSet(f, t) <= SumFunctionOnSet(g, t)}
<1>1. ASSUME NEW t \in SUBSET S, \A x \in t : t \ {x} \in P PROVE t \in P
  <2>1. CASE t = {}
    BY <2>1, SumNone
  <2>2. CASE t # {}
    <3>1. PICK x \in t : TRUE
      BY <2>2
    <3>2. IsFiniteSet(t) /\ Ints(f, t) /\ Ints(g, t) /\ Ints(f, t \ {x}) /\ Ints(g, t \ {x})
          /\ IsFiniteSet(t \ {x})
      BY FS_Subset DEF Ints
    <3>3. /\ SumFunctionOnSet(f, t) = f[x] + SumFunctionOnSet(f, t \ {x})
          /\ SumFunctionOnSet(g, t) = g[x] + SumFunctionOnSet(g, t \ {x})
      BY <3>2, SumSplit
    <3>4. SumFunctionOnSet(f, t \ {x}) \in Int /\ SumFunctionOnSet(g, t \ {x}) \in Int
      BY <3>2, SumType
    <3>5. SumFunctionOnSet(f, t \ {x}) <= SumFunctionOnSet(g, t \ {x}) /\ f[x] <= g[x]
      BY <1>1
    <3>6. f[x] \in Int /\ g[x] \in Int
      BY DEF Ints
    <3> QED
      BY <3>3, <3>4, <3>5, <3>6
  <2> QED
    BY <2>1, <2>2
<1>2. SUBSET S \subseteq P
  <2> HIDE DEF P
  <2> QED
    BY <1>1, SubsetInduction
<1> QED
  BY <1>2

LEMMA SumSame ==
  ASSUME NEW f, NEW g, NEW S, IsFiniteSet(S), Ints(f, S), \A x \in S : f[x] = g[x]
  PROVE  SumFunctionOnSet(f, S) = SumFunctionOnSet(g, S)
<1>1. Ints(g, S) /\ \A x \in S : f[x] \in Int /\ g[x] \in Int /\ f[x] <= g[x] /\ g[x] <= f[x]
  BY DEF Ints
<1>2. SumFunctionOnSet(f, S) <= SumFunctionOnSet(g, S) /\ SumFunctionOnSet(g, S) <= SumFunctionOnSet(f, S)
  BY <1>1, SumMono
<1>3. SumFunctionOnSet(f, S) \in Int /\ SumFunctionOnSet(g, S) \in Int
  BY <1>1, SumType
<1> QED
  BY <1>2, <1>3

(* The elements are added one at a time.                                    *)
LEMMA SumAdd ==
  ASSUME NEW f, NEW S, IsFiniteSet(S), NEW x, x \notin S, Ints(f, S \cup {x})
  PROVE  SumFunctionOnSet(f, S \cup {x}) = SumFunctionOnSet(f, S) + f[x]
<1>1. (S \cup {x}) \ {x} = S /\ IsFiniteSet(S \cup {x})
  BY FS_AddElement
<1>2. SumFunctionOnSet(f, S \cup {x}) = f[x] + SumFunctionOnSet(f, S)
  BY <1>1, SumSplit
<1>3. f[x] \in Int /\ SumFunctionOnSet(f, S) \in Int
  BY SumType DEF Ints
<1> QED
  BY <1>2, <1>3
=============================================================================
