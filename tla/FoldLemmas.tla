------------------------------ MODULE FoldLemmas ------------------------------
(***************************************************************************)
(* The folds of the community modules, for every finite set: the recursive *)
(* function behind them exists, so it obeys its own equation, and what     *)
(* holds of the empty set and is kept by every step holds of every subset. *)
(*                                                                         *)
(* A module that folds instantiates this one with its own step.  The       *)
(* induction rests on every set of naturals having a least element.        *)
(***************************************************************************)
EXTENDS Integers, Sequences, FiniteSetTheorems, TLAPS

CONSTANTS
  Choose(_),       \* the element the fold takes next
  Combine(_, _, _) \* of what is folded, the element taken and the value of the rest

\* What MapThenFoldSet expands to: base, then an element at a time.
Step(what, base, g, s) ==
  IF s = {} THEN base ELSE Combine(what, Choose(s), g[s \ {Choose(s)}])
IsFold(g, what, base, S) == g = [s \in SUBSET S |-> Step(what, base, g, s)]
Fold(what, base, S) == CHOOSE g : IsFold(g, what, base, S)

Chooses(S) == \A s \in SUBSET S : s # {} => Choose(s) \in s

-----------------------------------------------------------------------------
(* Induction. *)

LEMMA Least ==
  ASSUME NEW T \in SUBSET Nat, T # {}
  PROVE  \E n \in T : \A m \in T : n <= m
<1> DEFINE Less == OpToRel(<, Nat)
<1>1. \A m, n \in Nat : m < n => <<m, n>> \in Less
  BY Zenon DEF OpToRel
<1>2. \E n \in T : \A m \in T : <<m, n>> \notin Less
  BY NatLessThanWellFounded, WFMin, Zenon
<1> HIDE DEF Less
<1>3. PICK n \in T : \A m \in T : <<m, n>> \notin Less
  BY <1>2
<1>4. ASSUME NEW m \in T PROVE n <= m
  <2>1. m \in Nat /\ n \in Nat
    OBVIOUS
  <2>2. ~(m < n)
    BY <1>1, <1>3, <2>1, Zenon
  <2>3. QED
    BY <2>1, <2>2
<1>5. QED
  BY <1>4

\* A set that holds 0, and n + 1 with every n, holds every natural.
LEMMA Induction ==
  ASSUME NEW T, 0 \in T, \A n \in Nat : n \in T => n + 1 \in T
  PROVE  Nat \subseteq T
<1>1. SUFFICES ASSUME Nat \ T # {} PROVE FALSE
  OBVIOUS
<1>2. PICK n \in Nat \ T : \A m \in Nat \ T : n <= m
  BY <1>1, Least
<1>3. n # 0 /\ n - 1 \in Nat
  BY <1>2
<1>4. n - 1 \in T
  BY <1>2, <1>3
<1>5. QED
  BY <1>2, <1>3, <1>4

\* The subsets of a finite set are finite, and taking an element leaves a smaller one.
LEMMA Sizes ==
  ASSUME NEW S, IsFiniteSet(S), Chooses(S)
  PROVE  /\ \A s \in SUBSET S : /\ IsFiniteSet(s) /\ Cardinality(s) \in Nat
                                /\ Cardinality(s) <= Cardinality(S)
         /\ \A s \in SUBSET S : s # {} => /\ Choose(s) \in s /\ s \ {Choose(s)} \in SUBSET S
                                          /\ Cardinality(s \ {Choose(s)}) = Cardinality(s) - 1
<1>1. \A s \in SUBSET S : IsFiniteSet(s) /\ Cardinality(s) \in Nat /\ Cardinality(s) <= Cardinality(S)
  BY FS_Subset, FS_CardinalityType
<1>2. \A s \in SUBSET S : s # {} => Choose(s) \in s
  BY DEF Chooses
<1>3. QED
  BY <1>1, <1>2, FS_RemoveElement

\* What holds of {}, and of a set when it holds of the set without the element taken, holds of
\* every subset.
LEMMA SubsetInduction ==
  ASSUME NEW S, IsFiniteSet(S), Chooses(S), NEW T, {} \in T,
         \A s \in SUBSET S : s # {} /\ s \ {Choose(s)} \in T => s \in T
  PROVE  SUBSET S \subseteq T
<1> DEFINE U == {n \in Nat : \A s \in SUBSET S : Cardinality(s) = n => s \in T}
<1>1. 0 \in U
  BY Sizes, FS_EmptySet
<1>2. ASSUME NEW n \in Nat, n \in U PROVE n + 1 \in U
  <2>1. ASSUME NEW s \in SUBSET S, Cardinality(s) = n + 1 PROVE s \in T
    <3>1. s # {}
      BY <2>1, FS_EmptySet
    <3>2. Cardinality(s \ {Choose(s)}) = n /\ s \ {Choose(s)} \in SUBSET S
      BY <2>1, <3>1, Sizes
    <3>3. QED
      BY <1>2, <3>1, <3>2
  <2>2. QED
    BY <2>1
<1>3. Nat \subseteq U
  <2> HIDE DEF U
  <2>1. QED
    BY <1>1, <1>2, Induction
<1>4. QED
  BY <1>3, Sizes

-----------------------------------------------------------------------------
(* The fold is what its definition says. *)

LEMMA FoldExists ==
  ASSUME NEW what, NEW base, NEW S, IsFiniteSet(S), Chooses(S)
  PROVE  \E g : IsFold(g, what, base, S)
<1> DEFINE B(g, s) == Step(what, base, g, s)
           Upto(g, n) == \A s \in SUBSET S : Cardinality(s) <= n => g[s] = B(g, s)
           T == {n \in Nat : \E g : g = [s \in SUBSET S |-> g[s]] /\ Upto(g, n)}
<1>1. 0 \in T
  <2> DEFINE g == [s \in SUBSET S |-> base]
  <2>1. \A s \in SUBSET S : Cardinality(s) <= 0 => s = {}
    BY Sizes, FS_EmptySet
  <2>2. Upto(g, 0)
    BY <2>1 DEF Step
  <2>3. g = [s \in SUBSET S |-> g[s]]
    OBVIOUS
  <2> HIDE DEF g, Upto
  <2>4. QED
    BY <2>2, <2>3
<1>2. ASSUME NEW n \in Nat, n \in T PROVE n + 1 \in T
  <2>1. PICK g : g = [s \in SUBSET S |-> g[s]] /\ Upto(g, n)
    BY <1>2
  <2> DEFINE h == [s \in SUBSET S |-> B(g, s)]
  <2>2. \A s \in SUBSET S : Cardinality(s) <= n => h[s] = g[s]
    BY <2>1
  <2>3. ASSUME NEW s \in SUBSET S, Cardinality(s) <= n + 1 PROVE B(g, s) = B(h, s)
    <3>1. CASE s = {}
      BY <3>1 DEF Step
    <3>2. CASE s # {}
      <4>1. Cardinality(s \ {Choose(s)}) <= n /\ s \ {Choose(s)} \in SUBSET S
        BY <2>3, <3>2, Sizes
      <4>2. h[s \ {Choose(s)}] = g[s \ {Choose(s)}]
        BY <2>2, <4>1
      <4> HIDE DEF h
      <4>3. QED
        BY <3>2, <4>2 DEF Step
    <3>3. QED
      BY <3>1, <3>2
  <2>4. Upto(h, n + 1)
    BY <2>3
  <2>5. h = [s \in SUBSET S |-> h[s]]
    OBVIOUS
  <2> HIDE DEF h, Upto
  <2>6. QED
    BY <2>4, <2>5
<1>3. Cardinality(S) \in T
  <2> HIDE DEF T
  <2>1. QED
    BY <1>1, <1>2, Induction, Sizes
<1>4. PICK g : g = [s \in SUBSET S |-> g[s]] /\ Upto(g, Cardinality(S))
  BY <1>3
<1>5. \A s \in SUBSET S : g[s] = B(g, s)
  BY <1>4, Sizes
<1>6. g = [s \in SUBSET S |-> B(g, s)]
  BY <1>4, <1>5
<1>7. QED
  BY <1>6 DEF IsFold

\* The equation of a fold.
LEMMA FoldStep ==
  ASSUME NEW what, NEW base, NEW S, IsFiniteSet(S), Chooses(S), NEW s \in SUBSET S
  PROVE  Fold(what, base, S)[s] =
           IF s = {} THEN base
           ELSE Combine(what, Choose(s), Fold(what, base, S)[s \ {Choose(s)}])
<1> DEFINE g == Fold(what, base, S)
<1>1. IsFold(g, what, base, S)
  BY FoldExists, Zenon DEF Fold
<1> HIDE DEF g
<1>2. g[s] = Step(what, base, g, s)
  BY <1>1 DEF IsFold
<1>3. QED
  BY <1>2 DEF Step, g
-----------------------------------------------------------------------------
(* Folding a sequence: its indices, the last one first. *)

\* A set of indices has a last one.
LEMMA Highest ==
  ASSUME NEW n \in Nat, NEW s \in SUBSET (1 .. n), s # {}
  PROVE  \E y \in s : \A i \in s : y >= i
<1> DEFINE Below == {n - i : i \in s}
<1>1. Below \in SUBSET Nat /\ Below # {}
  <2>1. \A i \in s : n - i \in Nat
    OBVIOUS
  <2>2. PICK i \in s : TRUE
    OBVIOUS
  <2> QED
    BY <2>1, <2>2
<1>2. PICK d \in Below : \A m \in Below : d <= m
  BY <1>1, Least
<1>3. PICK x \in s : d = n - x
  BY <1>2
<1>4. \A i \in s : n - i \in Below
  OBVIOUS
<1> HIDE DEF Below
<1> QED
  BY <1>2, <1>3, <1>4

ChoosesLast(n) ==
  \A s \in SUBSET (1 .. n) : s # {} => Choose(s) \in s /\ \A i \in s : i <= Choose(s)

\* The value after the first k elements.
Prefix(F, k) == F[1 .. k]

\* What folds the indices from the last folds the sequence from the first.
LEMMA PrefixFold ==
  ASSUME NEW what, NEW base, NEW n \in Nat, ChoosesLast(n)
  PROVE  /\ Prefix(Fold(what, base, 1 .. n), 0) = base
         /\ \A k \in 1 .. n : Prefix(Fold(what, base, 1 .. n), k) =
              Combine(what, k, Prefix(Fold(what, base, 1 .. n), k - 1))
<1> DEFINE F == Fold(what, base, 1 .. n)
<1>1. IsFiniteSet(1 .. n) /\ Chooses(1 .. n)
  BY FS_Interval DEF ChoosesLast, Chooses
<1>2. \A s \in SUBSET (1 .. n) :
        F[s] = IF s = {} THEN base ELSE Combine(what, Choose(s), F[s \ {Choose(s)}])
  <2> DEFINE D == 1 .. n
  <2>1. IsFiniteSet(D) /\ Chooses(D)
    BY <1>1
  <2> HIDE DEF D
  <2>2. \A s \in SUBSET D :
          Fold(what, base, D)[s] =
            IF s = {} THEN base ELSE Combine(what, Choose(s), Fold(what, base, D)[s \ {Choose(s)}])
    BY <2>1, FoldStep
  <2> QED
    BY <2>2 DEF D
<1> HIDE DEF F
<1>3. Prefix(F, 0) = base
  <2>1. 1 .. 0 = {}
    OBVIOUS
  <2>2. F[{}] = base
    BY <1>2
  <2> QED
    BY <2>1, <2>2 DEF Prefix
<1>4. ASSUME NEW k \in 1 .. n
      PROVE  Prefix(F, k) = Combine(what, k, Prefix(F, k - 1))
  <2>1. 1 .. k \in SUBSET (1 .. n) /\ k \in 1 .. k
    OBVIOUS
  <2>2. Choose(1 .. k) = k
    <3>1. Choose(1 .. k) \in 1 .. k /\ k <= Choose(1 .. k)
      BY <2>1, Zenon DEF ChoosesLast
    <3> QED
      BY <3>1
  <2>3. (1 .. k) \ {k} = 1 .. (k - 1)
    OBVIOUS
  <2>4. 1 .. k # {}
    BY <2>1
  <2> QED
    BY <1>2, <2>1, <2>2, <2>3, <2>4, Zenon DEF Prefix
<1> QED
  BY <1>3, <1>4 DEF F

-----------------------------------------------------------------------------
(* What a filter keeps is what passes, in its order. *)

IsFilter(K, seq, keep) ==
  /\ K[0] = <<>>
  /\ \A k \in 1 .. Len(seq) :
       K[k] = IF k \in keep THEN Append(K[k - 1], seq[k]) ELSE K[k - 1]

\* place[i]: where the i-th of the m that were kept of the first n is in seq.
Places(place, kept, m, seq, n, keep) ==
  /\ \A i \in 1 .. m : place[i] \in 1 .. n /\ kept[i] = seq[place[i]]
  /\ \A i, j \in 1 .. m : i < j => place[i] < place[j]
  /\ \A k \in 1 .. n : k \in keep <=> \E i \in 1 .. m : place[i] = k

LEMMA PlacesSkip ==
  ASSUME NEW m \in Nat, NEW n \in Nat, NEW q, NEW kept, NEW seq, NEW keep,
         Places(q, kept, m, seq, n, keep), n + 1 \notin keep
  PROVE  Places(q, kept, m, seq, n + 1, keep)
<1>1. \A i \in 1 .. m : q[i] \in 1 .. n + 1 /\ q[i] # n + 1 /\ kept[i] = seq[q[i]]
  BY DEF Places
<1>2. \A k \in 1 .. n + 1 : k \in 1 .. n \/ k = n + 1
  OBVIOUS
<1> QED
  BY <1>1, <1>2 DEF Places

LEMMA PlacesTake ==
  ASSUME NEW m \in Nat, NEW n \in Nat, NEW q, NEW old, NEW kept, NEW seq, NEW keep,
         Places(q, old, m, seq, n, keep), n + 1 \in keep,
         \A i \in 1 .. m : kept[i] = old[i], kept[m + 1] = seq[n + 1]
  PROVE  \E p : Places(p, kept, m + 1, seq, n + 1, keep)
<1> DEFINE p == [i \in 1 .. m + 1 |-> IF i <= m THEN q[i] ELSE n + 1]
<1>1. p[m + 1] = n + 1 /\ \A i \in 1 .. m : p[i] = q[i]
  OBVIOUS
<1>2. \A i \in 1 .. m + 1 : i \in 1 .. m \/ i = m + 1
  OBVIOUS
<1> HIDE DEF p
<1>3. \A i \in 1 .. m : p[i] \in 1 .. n /\ kept[i] = seq[p[i]]
  BY <1>1 DEF Places
<1>4. \A i \in 1 .. m + 1 : p[i] \in 1 .. n + 1 /\ kept[i] = seq[p[i]]
  BY <1>1, <1>2, <1>3
<1>5. ASSUME NEW i \in 1 .. m + 1, NEW j \in 1 .. m + 1, i < j PROVE p[i] < p[j]
  <2>1. i \in 1 .. m
    BY <1>5
  <2>2. CASE j = m + 1
    BY <1>1, <1>3, <2>1, <2>2
  <2>3. CASE j \in 1 .. m
    BY <1>1, <1>5, <2>1, <2>3 DEF Places
  <2> QED
    BY <1>2, <2>2, <2>3
<1>6. ASSUME NEW k \in 1 .. n + 1 PROVE k \in keep <=> \E i \in 1 .. m + 1 : p[i] = k
  <2>1. CASE k = n + 1
    <3>1. m + 1 \in 1 .. m + 1
      OBVIOUS
    <3> QED
      BY <1>1, <2>1, <3>1
  <2>2. CASE k \in 1 .. n
    <3>1. k \in keep <=> \E i \in 1 .. m : q[i] = k
      BY <2>2, Zenon DEF Places
    <3>2. (\E i \in 1 .. m + 1 : p[i] = k) <=> \E i \in 1 .. m : q[i] = k
      BY <1>1, <1>2, <2>2
    <3> QED
      BY <3>1, <3>2
  <2> QED
    BY <2>1, <2>2
<1> QED
  BY <1>4, <1>5, <1>6 DEF Places

LEMMA FilterKeeps ==
  ASSUME NEW X, NEW seq \in Seq(X), NEW keep, NEW K, IsFilter(K, seq, keep)
  PROVE  /\ K[Len(seq)] \in Seq(X)
         /\ \E place : Places(place, K[Len(seq)], Len(K[Len(seq)]), seq, Len(seq), keep)
<1> DEFINE Good(n) == /\ K[n] \in Seq(X)
                      /\ \E place : Places(place, K[n], Len(K[n]), seq, n, keep)
           T == {n \in Nat : n <= Len(seq) => Good(n)}
<1>0. Len(seq) \in Nat
  OBVIOUS
<1>1. 0 \in T
  <2>1. K[0] = <<>>
    BY DEF IsFilter
  <2>2. Places(<<>>, <<>>, 0, seq, 0, keep)
    BY DEF Places
  <2>3. Good(0)
    BY <2>1, <2>2
  <2> QED
    BY <2>3
<1>2. ASSUME NEW n \in Nat, n \in T PROVE n + 1 \in T
  <2>1. SUFFICES ASSUME n + 1 <= Len(seq) PROVE Good(n + 1)
    OBVIOUS
  <2>2. K[n] \in Seq(X) /\ \E q : Places(q, K[n], Len(K[n]), seq, n, keep)
    BY <1>0, <1>2, <2>1
  <2>3. PICK q : Places(q, K[n], Len(K[n]), seq, n, keep)
    BY <2>2
  <2>4. K[n + 1] = IF n + 1 \in keep THEN Append(K[n], seq[n + 1]) ELSE K[n]
    <3>1. n + 1 \in 1 .. Len(seq) /\ (n + 1) - 1 = n
      BY <1>0, <2>1
    <3> QED
      BY <3>1 DEF IsFilter
  <2>5. seq[n + 1] \in X
    BY <2>1
  <2>6. Len(K[n]) \in Nat
    BY <2>2
  <2>7. CASE n + 1 \notin keep
    BY <2>2, <2>3, <2>4, <2>6, <2>7, PlacesSkip
  <2>8. CASE n + 1 \in keep
    <3> DEFINE kept == Append(K[n], seq[n + 1])
               m == Len(K[n])
    <3>1. K[n + 1] = kept /\ kept \in Seq(X) /\ Len(kept) = m + 1
      BY <2>2, <2>4, <2>5, <2>8
    <3>2. \A i \in 1 .. m : kept[i] = K[n][i]
      BY <2>2, <2>5
    <3>3. kept[m + 1] = seq[n + 1]
      BY <2>2, <2>5
    <3> HIDE DEF kept
    <3>4. \E p : Places(p, kept, m + 1, seq, n + 1, keep)
      BY <2>3, <2>6, <2>8, <3>2, <3>3, PlacesTake
    <3> QED
      BY <3>1, <3>4
  <2> QED
    BY <2>7, <2>8
<1>3. Nat \subseteq T
  <2> HIDE DEF T
  <2> QED
    BY <1>1, <1>2, Induction
<1> QED
  BY <1>0, <1>3
=============================================================================
