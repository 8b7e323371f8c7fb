------------------------------ MODULE InOrder ------------------------------
(***************************************************************************)
(* Loops: an operation carried out once for each of some positions, in     *)
(* their order.  A loop of the models is an instance of Fold, with the     *)
(* loop's body for Op; FoldRun then gives the sequence of values that the  *)
(* loop variable takes, and IntervalInductive what holds of all of them.   *)
(***************************************************************************)
EXTENDS Integers, FiniteSetsExt, WellFoundedInduction, TLAPS

CONSTANT Op(_, _, _)   \* context, value so far, position: the next value

\* base, then Op for each position of S from the lowest to the highest.
Fold(c, base, S) ==
  MapThenFoldSet(LAMBDA i, acc : Op(c, acc, i), base, LAMBDA i : i, LAMBDA s : Max(s), S)

-----------------------------------------------------------------------------
(* Induction over numbers, for sets instead of predicates: sets can be     *)
(* instantiated by the provers                                             *)

\* Some number of a set of natural numbers is its least.
LEMMA NatLeast ==
  ASSUME NEW T \in SUBSET Nat, T # {}
  PROVE  \E m \in T : \A k \in T : m <= k
<1>1. PICK R : IsWellFoundedOn(R, Nat) /\ \A k, m \in Nat : k < m => <<k, m>> \in R
  <2>1. IsWellFoundedOn(OpToRel(<, Nat), Nat)
    BY NatLessThanWellFounded
  <2>2. \A k, m \in Nat : k < m => <<k, m>> \in OpToRel(<, Nat)
    BY DEF OpToRel
  <2>3. QED
    BY <2>1, <2>2, Zenon
<1>2. IsWellFoundedOn(R, Nat) /\ T \subseteq Nat
  BY <1>1
<1>3. PICK m \in T : \A k \in T : ~(<<k, m>> \in R)
  BY <1>2, WFMin, Zenon
<1>4. \A k \in T : ~(k < m)
  BY <1>1, <1>3
<1>5. QED
  BY <1>3, <1>4

\* A set with 0, and with the successor of each natural number in it, has all.
LEMMA NatInductive ==
  ASSUME NEW S, 0 \in S, \A n \in Nat : n \in S => n + 1 \in S
  PROVE  Nat \subseteq S
<1> DEFINE T == {n \in Nat : n \notin S}
<1> SUFFICES ASSUME T # {} PROVE FALSE
  OBVIOUS
<1>1. PICK m \in T : \A k \in T : m <= k
  BY NatLeast
<1>2. m # 0 /\ m \in Nat
  OBVIOUS
<1>3. m - 1 \in S
  BY <1>1, <1>2
<1>4. QED
  BY <1>2, <1>3

\* The same within 0..n.
LEMMA IntervalInductive ==
  ASSUME NEW n \in Nat, NEW S, 0 \in S, \A k \in 1..n : k - 1 \in S => k \in S
  PROVE  \A k \in 0..n : k \in S
<1> DEFINE T == {k \in Nat : k <= n => k \in S}
<1>1. 0 \in T
  OBVIOUS
<1>2. ASSUME NEW k \in Nat, k \in T PROVE k + 1 \in T
  <2>1. CASE k + 1 <= n
    <3>1. k + 1 \in 1..n /\ k \in S /\ (k + 1) - 1 = k
      BY <1>2, <2>1
    <3> QED BY <3>1
  <2> QED BY <2>1
<1> HIDE DEF T
<1>3. Nat \subseteq T
  BY <1>1, <1>2, NatInductive
<1> QED BY <1>3 DEF T

-----------------------------------------------------------------------------
(* What Fold computes                                                      *)

\* An upper bound that is in a set is its maximum.
LEMMA MaxIs ==
  ASSUME NEW T \in SUBSET Int, NEW m \in T, \A k \in T : k <= m
  PROVE  Max(T) = m
<1>1. \A x \in T : (\A y \in T : x >= y) => x = m
  OBVIOUS
<1>2. \A y \in T : m >= y
  OBVIOUS
<1>3. QED
  BY <1>1, <1>2 DEF Max

\* The positions that come before k + 1.
Upto(S, k) == {i \in S : i <= k}

\* Positions are reached one at a time.
LEMMA UptoFacts ==
  ASSUME NEW n \in Nat, NEW S \in SUBSET (1..n)
  PROVE  /\ Upto(S, 0) = {} /\ Upto(S, n) = S
         /\ \A k \in 1..n : /\ k \in S => Upto(S, k) \ {k} = Upto(S, k - 1)
                            /\ k \notin S => Upto(S, k) = Upto(S, k - 1)
<1>1. \A i \in S : i \in 1..n
  OBVIOUS
<1>2. \A i \in 1..n : i \in Int /\ 1 <= i /\ i <= n
  OBVIOUS
<1>3. Upto(S, 0) = {} /\ Upto(S, n) = S
  <2>1. \A i \in S : ~(i <= 0) /\ i <= n
    BY <1>1, <1>2
  <2> QED BY <2>1 DEF Upto
<1>4. ASSUME NEW k \in 1..n
      PROVE  /\ k \in S => Upto(S, k) \ {k} = Upto(S, k - 1)
             /\ k \notin S => Upto(S, k) = Upto(S, k - 1)
  <2>1. \A i \in S : i # k => (i <= k <=> i <= k - 1)
    BY <1>1, <1>2
  <2>2. ~(k <= k - 1)
    BY <1>2
  <2> QED BY <2>1, <2>2, Zenon DEF Upto
<1> QED BY <1>3, <1>4

\* g is the recursive function in the definition of MapThenFoldSet.
IsIter(c, base, S, g) ==
  g = [t \in SUBSET S |-> IF t = {} THEN base ELSE Op(c, g[t \ {Max(t)}], Max(t))]

\* There is one, for every set of positions: by induction over its highest.
LEMMA IterExists ==
  ASSUME NEW c, NEW base, NEW n \in Nat, NEW S \in SUBSET (1..n)
  PROVE  \E g : IsIter(c, base, S, g)
<1> DEFINE X == {m \in Nat : \E g : IsIter(c, base, Upto(S, m), g)}
<1>1. 0 \in X
  <2>1. Upto(S, 0) = {}
    BY UptoFacts
  <2>2. IsIter(c, base, {}, [t \in SUBSET {} |-> base])
    BY DEF IsIter
  <2> QED BY <2>1, <2>2
<1>2. ASSUME NEW m \in Nat, m \in X PROVE m + 1 \in X
  <2>1. PICK g : IsIter(c, base, Upto(S, m), g)
    BY <1>2
  <2> DEFINE h == [t \in SUBSET Upto(S, m + 1) |->
                    IF m + 1 \in t THEN Op(c, g[t \ {m + 1}], m + 1) ELSE g[t]]
  <2>2. ASSUME NEW t \in SUBSET Upto(S, m + 1)
        PROVE  h[t] = IF t = {} THEN base ELSE Op(c, h[t \ {Max(t)}], Max(t))
    <3>1. CASE m + 1 \in t
      <4>1. Max(t) = m + 1
        BY <3>1, MaxIs DEF Upto
      <4>2. t \ {m + 1} \in SUBSET Upto(S, m + 1) /\ m + 1 \notin t \ {m + 1}
        BY DEF Upto
      <4>3. h[t \ {m + 1}] = g[t \ {m + 1}]
        BY <4>2
      <4>4. h[t] = Op(c, g[t \ {m + 1}], m + 1)
        BY <3>1
      <4> QED BY <3>1, <4>1, <4>3, <4>4
    <3>2. CASE m + 1 \notin t
      <4>1. t \in SUBSET Upto(S, m)
        BY <3>2 DEF Upto
      <4>2. g[t] = IF t = {} THEN base ELSE Op(c, g[t \ {Max(t)}], Max(t))
        BY <2>1, <4>1 DEF IsIter
      <4>3. h[t] = g[t]
        BY <3>2
      <4>4. h[t \ {Max(t)}] = g[t \ {Max(t)}]
        BY <3>2
      <4> QED BY <4>2, <4>3, <4>4
    <3> QED BY <3>1, <3>2
  <2>3. IsIter(c, base, Upto(S, m + 1), h)
    BY <2>2 DEF IsIter
  <2>4. \E i : IsIter(c, base, Upto(S, m + 1), i)
    BY <2>3
  <2> QED BY <2>4
<1>3. n \in X
  <2> HIDE DEF X
  <2> QED BY <1>1, <1>2, NatInductive
<1>4. Upto(S, n) = S
  BY UptoFacts
<1> QED BY <1>3, <1>4

\* Fold is its value.
LEMMA FoldIter ==
  ASSUME NEW c, NEW base, NEW S
  PROVE  Fold(c, base, S) = (CHOOSE g : IsIter(c, base, S, g))[S]
  BY DEF Fold, MapThenFoldSet, IsIter

\* A loop over positions S among 1..n goes through values f[0], ..., f[n]: it
\* starts with base, position k makes f[k] of f[k - 1] or is left out, and what
\* it ends with is f[n].
THEOREM FoldRun ==
  ASSUME NEW c, NEW base, NEW n \in Nat, NEW S \in SUBSET (1..n)
  PROVE  \E f : /\ f[0] = base /\ f[n] = Fold(c, base, S)
                /\ \A k \in 1..n : f[k] = IF k \in S THEN Op(c, f[k - 1], k) ELSE f[k - 1]
<1> DEFINE g == CHOOSE g : IsIter(c, base, S, g)
           f == [k \in 0..n |-> g[Upto(S, k)]]
<1>1. IsIter(c, base, S, g)
  BY IterExists
<1>2. Fold(c, base, S) = g[S]
  BY FoldIter
<1> HIDE DEF g
<1>3. \A t \in SUBSET S : g[t] = IF t = {} THEN base ELSE Op(c, g[t \ {Max(t)}], Max(t))
  BY <1>1 DEF IsIter
<1>4. f[0] = base
  <2>1. Upto(S, 0) = {} /\ f[0] = g[Upto(S, 0)]
    BY UptoFacts
  <2>2. g[{}] = base
    BY <1>3
  <2> HIDE DEF f
  <2> QED BY <2>1, <2>2
<1>5. f[n] = Fold(c, base, S)
  <2>1. Upto(S, n) = S
    BY UptoFacts
  <2> QED BY <2>1, <1>2
<1>6. ASSUME NEW k \in 1..n
      PROVE  f[k] = IF k \in S THEN Op(c, f[k - 1], k) ELSE f[k - 1]
  <2>1. CASE k \in S
    <3>1. Upto(S, k) \in SUBSET S /\ k \in Upto(S, k)
      BY <2>1 DEF Upto
    <3>2. Max(Upto(S, k)) = k
      BY <3>1, MaxIs DEF Upto
    <3>3. Upto(S, k) \ {k} = Upto(S, k - 1)
      BY <2>1, UptoFacts
    <3>4. f[k] = g[Upto(S, k)] /\ f[k - 1] = g[Upto(S, k - 1)]
      OBVIOUS
    <3>5. g[Upto(S, k)] = Op(c, g[Upto(S, k - 1)], k)
      BY <3>1, <3>2, <3>3, <1>3
    <3> HIDE DEF f
    <3> QED BY <2>1, <3>4, <3>5
  <2>2. CASE k \notin S
    <3>1. Upto(S, k) = Upto(S, k - 1)
      BY <2>2, UptoFacts
    <3> QED BY <2>2, <3>1
  <2> QED BY <2>1, <2>2
<1> HIDE DEF f
<1> QED BY <1>4, <1>5, <1>6
=============================================================================
