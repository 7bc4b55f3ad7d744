----------------------------- MODULE SolanaProofs -----------------------------
(***************************************************************************)
(* The two modules that the rest of the system calls and that call nothing *)
(* of it: Confirmation and Solana.                                         *)
(*                                                                         *)
(* The poll, for every expiry height, timeout and bound.  The argument is  *)
(* in Expiry: the poll only asks the last question once the confirmed bank *)
(* is past LastValid, and from then on no block can take the transaction   *)
(* in, whatever forks there are.                                           *)
(*                                                                         *)
(* The conversions, for bytes and text of every length.  The inner loop    *)
(* multiplies the limbs by a base and adds a digit (MulAddWrites), so the  *)
(* outer loop writes, in the other base, the number that the digits stand  *)
(* for (LimbsWrite).  A numeral without leading zeros is the only one of   *)
(* its number (OneNumeral), and the zeros are carried over one by one:     *)
(* each conversion undoes the other.                                       *)
(*                                                                         *)
(* The on-curve test, for every prime p with p % 8 = 5 and every width of  *)
(* a digest.  A nonzero residue is 1 at the power p - 1 (Fermat), so the   *)
(* test's candidate is a root of what is asked for or of its negative      *)
(* (CandidateSquare, HalfPower), and 2 at the power (p - 1) / 2 is minus   *)
(* one (TwoHalf), so that SQRT_M1 mends the latter: the test says exactly  *)
(* that a point has this y (OnCurveIsKey).  The search, for every number   *)
(* of bumps, keeps an invariant of the digests it has tried (SearchInv).   *)
(***************************************************************************)
EXTENDS Confirmation, Solana, FiniteSetTheorems, TLAPS

-----------------------------------------------------------------------------
(* The poll. *)

\* Blocks only take the transaction while it is valid, and the poll has seen the
\* confirmed bank beyond that height before it looks for the last time.
Expiry ==
  /\ block <= LastValid
  /\ pc = "lastStatus" \/ answer = "expired_not_landed" => height > LastValid

\* Only a transaction in a block has an outcome.
Outcome == ~Included => ~err

\* The invariant that every step preserves.
IInv == TypeOK /\ Expiry /\ Outcome /\ LandedIsTrue /\ ExpiredIsFinal

LEMMA InitInv == Init => IInv
<1> SUFFICES ASSUME Init PROVE IInv
  OBVIOUS
<1>1. TypeOK
  <2>1. err \in BOOLEAN /\ blind \in BOOLEAN
    BY DEF Init
  <2>2. QED
    BY <2>1, ConstantsAssumption DEF Init, TypeOK, Labels, Answers
<1>2. Expiry
  BY ConstantsAssumption DEF Init, Expiry
<1>3. Outcome
  BY DEF Init, Outcome
<1>4. LandedIsTrue /\ ExpiredIsFinal
  BY DEF Init, LandedIsTrue, ExpiredIsFinal
<1>5. QED
  BY <1>1, <1>2, <1>3, <1>4 DEF IInv

\* What the cluster does keeps it.
LEMMA ClusterKeeps ==
  ASSUME IInv, ProduceBlock \/ ConfirmBlock \/ AbandonFork \/ Tick
  PROVE  IInv'
<1> USE ConstantsAssumption DEF IInv, Labels, Answers, Included
<1>1. CASE ProduceBlock
  <2>1. TypeOK'
    BY <1>1 DEF ProduceBlock, TypeOK
  <2>2. Expiry'
    BY <1>1 DEF ProduceBlock, TypeOK, Expiry
  <2>3. ExpiredIsFinal'
    BY <1>1 DEF ProduceBlock, TypeOK, Expiry, ExpiredIsFinal
  <2>4. Included => UNCHANGED <<block, err>>
    BY <1>1 DEF ProduceBlock
  <2>5. Outcome' /\ LandedIsTrue'
    <3>1. CASE Included
      BY <1>1, <2>4, <3>1 DEF ProduceBlock, Outcome, LandedIsTrue
    <3>2. CASE ~Included
      BY <1>1, <3>2 DEF ProduceBlock, TypeOK, Outcome, LandedIsTrue
    <3>3. QED
      BY <3>1, <3>2
  <2>6. QED
    BY <2>1, <2>2, <2>3, <2>5
<1>2. CASE ConfirmBlock
  <2>1. TypeOK'
    BY <1>2 DEF ConfirmBlock, TypeOK
  <2>2. Expiry'
    BY <1>2 DEF ConfirmBlock, TypeOK, Expiry
  <2>3. QED
    BY <1>2, <2>1, <2>2 DEF ConfirmBlock, Outcome, LandedIsTrue, ExpiredIsFinal
<1>3. CASE AbandonFork
  <2>1. TypeOK'
    <3>1. err' \in BOOLEAN
      BY <1>3 DEF AbandonFork, TypeOK
    <3>2. block' \in 0 .. tip'
      BY <1>3 DEF AbandonFork, TypeOK
    <3>3. QED
      BY <1>3, <3>1, <3>2 DEF AbandonFork, TypeOK
  <2>2. Expiry'
    BY <1>3 DEF AbandonFork, TypeOK, Expiry
  <2>3. Outcome'
    BY <1>3 DEF AbandonFork, Outcome
  <2>4. LandedIsTrue'
    BY <1>3 DEF AbandonFork, TypeOK, LandedIsTrue
  <2>5. ExpiredIsFinal'
    BY <1>3 DEF AbandonFork, ExpiredIsFinal
  <2>6. QED
    BY <2>1, <2>2, <2>3, <2>4, <2>5
<1>4. CASE Tick
  BY <1>4 DEF Tick, chainVars, TypeOK, Expiry, Outcome, LandedIsTrue, ExpiredIsFinal
<1>5. QED
  BY <1>1, <1>2, <1>3, <1>4

\* So does the poll.
LEMMA PollKeeps ==
  ASSUME IInv, Poll
  PROVE  IInv'
<1> USE ConstantsAssumption
    DEF IInv, Labels, Answers, Included, chainVars, Return, Await, TypeOK, Expiry, Outcome,
        LandedIsTrue, ExpiredIsFinal
<1>1. CASE ReadStatus
  BY <1>1 DEF ReadStatus, StatusOr
<1>2. CASE ReadStatusFails
  BY <1>2 DEF ReadStatusFails
<1>3. CASE ReadBlockHeight
  BY <1>3 DEF ReadBlockHeight, GiveUpOrSleep
<1>4. CASE ReadBlockHeightFails
  BY <1>4 DEF ReadBlockHeightFails, GiveUpOrSleep
<1>5. CASE ReadLastStatus
  BY <1>5 DEF ReadLastStatus, StatusOr
<1>6. CASE ReadLastStatusFails
  BY <1>6 DEF ReadLastStatusFails
<1>7. CASE WakeUp
  BY <1>7 DEF WakeUp
<1>8. QED
  BY <1>1, <1>2, <1>3, <1>4, <1>5, <1>6, <1>7 DEF Poll

LEMMA NextKeeps ==
  ASSUME IInv, [Next]_vars
  PROVE  IInv'
<1>1. CASE Next
  BY <1>1, ClusterKeeps, PollKeeps DEF Next
<1>2. CASE UNCHANGED vars
  BY <1>2 DEF vars, IInv, TypeOK, Expiry, Outcome, LandedIsTrue, ExpiredIsFinal, Included
<1>3. QED
  BY <1>1, <1>2

\* The poll asks its last question only when it is too late for the transaction to land.
THEOREM PollInvariant == Spec => []IInv
<1>1. QED
  BY InitInv, NextKeeps, PTL DEF Spec

\* The poll never leaves its loop without an answer, for any timeout and any failures.
THEOREM PollTypes == Spec => []TypeOK
<1>1. IInv => TypeOK
  BY DEF IInv
<1>2. QED
  BY <1>1, PollInvariant, PTL

\* An answer of the poll that says landed is what the chain did.
THEOREM PollTellsTruth == Spec => []LandedIsTrue
<1>1. IInv => LandedIsTrue
  BY DEF IInv
<1>2. QED
  BY <1>1, PollInvariant, PTL

\* After expired_not_landed the transaction never lands, whatever forks the cluster
\* abandons: the guarantee that makes submitting again safe.
THEOREM PollExpiryFinal == Spec => []ExpiredIsFinal
<1>1. IInv => ExpiredIsFinal
  BY DEF IInv
<1>2. QED
  BY <1>1, PollInvariant, PTL

-----------------------------------------------------------------------------
(* FoldLeft takes the elements in their order, one at a time. *)

Latest(s) == Max(s)

DigitStep(what, i, limbs) == MulAdd(limbs, what[2], what[3], what[1][i])
OuterLoop == INSTANCE FoldLemmas WITH Choose <- Latest, Combine <- DigitStep

LimbStep(what, i, acc) == AddLimb(acc, what[1][i], what[2], what[3])
InnerLoop == INSTANCE FoldLemmas WITH Choose <- Latest, Combine <- LimbStep

ValueStep(what, i, n) == n * what[2] + what[1][i]
Sums == INSTANCE FoldLemmas WITH Choose <- Latest, Combine <- ValueStep

LEMMA LatestIsLast ==
  ASSUME NEW n \in Nat, NEW s \in SUBSET (1 .. n), s # {}
  PROVE  Latest(s) \in s /\ \A i \in s : i <= Latest(s)
<1>1. \E y \in s : \A i \in s : y >= i
  BY Sums!Highest
<1>2. Latest(s) \in s /\ \A i \in s : Latest(s) >= i
  BY <1>1, Zenon DEF Latest, Max
<1> QED
  BY <1>2

LEMMA InOrder ==
  ASSUME NEW n \in Nat
  PROVE  OuterLoop!ChoosesLast(n) /\ InnerLoop!ChoosesLast(n) /\ Sums!ChoosesLast(n)
BY LatestIsLast DEF OuterLoop!ChoosesLast, InnerLoop!ChoosesLast, Sums!ChoosesLast

\* The limbs after each digit of s.
Builds(K, start, s, from, to) ==
  /\ K[0] = start
  /\ \A k \in 1 .. Len(s) : K[k] = MulAdd(K[k - 1], from, to, s[k])

Grows(start, s, from, to) ==
  \E K : Builds(K, start, s, from, to) /\ Limbs(start, s, from, to) = K[Len(s)]

LEMMA LimbsBuilt ==
  ASSUME NEW X, NEW s \in Seq(X), NEW start, NEW from, NEW to
  PROVE  Grows(start, s, from, to)
<1> DEFINE F == OuterLoop!Fold(<<s, from, to>>, start, 1 .. Len(s))
           K == [k \in 0 .. Len(s) |-> OuterLoop!Prefix(F, k)]
<1>1. Len(s) \in Nat /\ DOMAIN s = 1 .. Len(s)
  OBVIOUS
<1>2. OuterLoop!Prefix(F, 0) = start /\ \A k \in 1 .. Len(s) :
        OuterLoop!Prefix(F, k) = DigitStep(<<s, from, to>>, k, OuterLoop!Prefix(F, k - 1))
  BY <1>1, InOrder, OuterLoop!PrefixFold
<1>3. Limbs(start, s, from, to) = OuterLoop!Fold(<<s, from, to>>, start, DOMAIN s)[DOMAIN s]
  BY DEF Limbs, FoldLeft, MapThenFoldSet, OuterLoop!Fold, OuterLoop!IsFold, OuterLoop!Step,
         DigitStep, Latest
<1>4. Limbs(start, s, from, to) = OuterLoop!Prefix(F, Len(s))
  BY <1>1, <1>3, Zenon DEF OuterLoop!Prefix
<1> HIDE DEF F
<1>5. K[0] = start /\ K[Len(s)] = Limbs(start, s, from, to)
  BY <1>1, <1>2, <1>4
<1>6. \A k \in 1 .. Len(s) : K[k] = OuterLoop!Prefix(F, k) /\ K[k - 1] = OuterLoop!Prefix(F, k - 1)
  BY <1>1
<1> HIDE DEF K
<1>7. \A k \in 1 .. Len(s) : K[k] = DigitStep(<<s, from, to>>, k, K[k - 1])
  BY ONLY <1>2, <1>6
<1>8. Builds(K, start, s, from, to)
  BY <1>5, <1>7 DEF Builds, DigitStep
<1> QED
  BY <1>5, <1>8 DEF Grows

\* The carry and the limbs written, after each limb.
Carries(A, value, limbs, times, base) ==
  /\ A[0] = [carry |-> value, out |-> <<>>]
  /\ \A k \in 1 .. Len(limbs) : A[k] = AddLimb(A[k - 1], limbs[k], times, base)

Runs(limbs, times, base, value) ==
  \E A : /\ Carries(A, value, limbs, times, base)
         /\ MulAdd(limbs, times, base, value)
              = A[Len(limbs)].out \o Carry(base)[A[Len(limbs)].carry]

LEMMA MulAddRuns ==
  ASSUME NEW X, NEW limbs \in Seq(X), NEW times, NEW base, NEW value
  PROVE  Runs(limbs, times, base, value)
<1> DEFINE what == <<limbs, times, base>>
           start == [carry |-> value, out |-> <<>>]
           F == InnerLoop!Fold(what, start, 1 .. Len(limbs))
           A == [k \in 0 .. Len(limbs) |-> InnerLoop!Prefix(F, k)]
<1>1. Len(limbs) \in Nat /\ DOMAIN limbs = 1 .. Len(limbs)
  OBVIOUS
<1>2. InnerLoop!Prefix(F, 0) = start /\ \A k \in 1 .. Len(limbs) :
        InnerLoop!Prefix(F, k) = LimbStep(what, k, InnerLoop!Prefix(F, k - 1))
  BY <1>1, InOrder, InnerLoop!PrefixFold
<1>3. MulAdd(limbs, times, base, value) =
        InnerLoop!Fold(what, start, DOMAIN limbs)[DOMAIN limbs].out
          \o Carry(base)[InnerLoop!Fold(what, start, DOMAIN limbs)[DOMAIN limbs].carry]
  BY DEF MulAdd, FoldLeft, MapThenFoldSet, InnerLoop!Fold, InnerLoop!IsFold, InnerLoop!Step,
         LimbStep, Latest
<1>4. MulAdd(limbs, times, base, value) =
        InnerLoop!Prefix(F, Len(limbs)).out \o Carry(base)[InnerLoop!Prefix(F, Len(limbs)).carry]
  BY <1>1, <1>3, Zenon DEF InnerLoop!Prefix
<1> HIDE DEF F
<1>5. A[0] = start /\ A[Len(limbs)] = InnerLoop!Prefix(F, Len(limbs))
  BY <1>1, <1>2
<1>6. \A k \in 1 .. Len(limbs) :
        A[k] = InnerLoop!Prefix(F, k) /\ A[k - 1] = InnerLoop!Prefix(F, k - 1)
  BY <1>1
<1> HIDE DEF A
<1>7. \A k \in 1 .. Len(limbs) : A[k] = LimbStep(what, k, A[k - 1])
  BY ONLY <1>2, <1>6
<1>8. Carries(A, value, limbs, times, base)
  BY <1>5, <1>7 DEF Carries, LimbStep
<1> QED
  BY <1>4, <1>5, <1>8 DEF Runs

\* The number after each digit of s, the most significant first.
Counts(N, base, s) ==
  /\ N[0] = 0
  /\ \A k \in 1 .. Len(s) : N[k] = N[k - 1] * base + s[k]

LEMMA ValueCounted ==
  ASSUME NEW X, NEW s \in Seq(X), NEW base
  PROVE  \E N : Counts(N, base, s) /\ Value(base, s) = N[Len(s)]
<1> DEFINE F == Sums!Fold(<<s, base>>, 0, 1 .. Len(s))
           N == [k \in 0 .. Len(s) |-> Sums!Prefix(F, k)]
<1>1. Len(s) \in Nat /\ DOMAIN s = 1 .. Len(s)
  OBVIOUS
<1>2. Sums!Prefix(F, 0) = 0 /\ \A k \in 1 .. Len(s) :
        Sums!Prefix(F, k) = ValueStep(<<s, base>>, k, Sums!Prefix(F, k - 1))
  BY <1>1, InOrder, Sums!PrefixFold
<1>3. Value(base, s) = Sums!Fold(<<s, base>>, 0, DOMAIN s)[DOMAIN s]
  BY DEF Value, FoldLeft, MapThenFoldSet, Sums!Fold, Sums!IsFold, Sums!Step, ValueStep, Latest
<1>4. Value(base, s) = Sums!Prefix(F, Len(s))
  BY <1>1, <1>3, Zenon DEF Sums!Prefix
<1> HIDE DEF F
<1>5. N[0] = 0 /\ N[Len(s)] = Value(base, s)
  BY <1>1, <1>2, <1>4
<1>6. \A k \in 1 .. Len(s) : N[k] = Sums!Prefix(F, k) /\ N[k - 1] = Sums!Prefix(F, k - 1)
  BY <1>1
<1> HIDE DEF N
<1>7. \A k \in 1 .. Len(s) : N[k] = ValueStep(<<s, base>>, k, N[k - 1])
  BY ONLY <1>2, <1>6
<1>8. Counts(N, base, s)
  BY <1>5, <1>7 DEF Counts, ValueStep
<1> QED
  BY <1>5, <1>8

-----------------------------------------------------------------------------
(* A function that asks for its own value at one argument of lower rank exists. *)

Asks(g, x, stop, next, base, comb) == IF x \in stop THEN base[x] ELSE comb[x][g[next[x]]]

Below(g, n, D, rank, stop, next, base, comb) ==
  \A x \in D : rank[x] < n => g[x] = Asks(g, x, stop, next, base, comb)

Descends(D, R, rank, stop, next, base, comb) ==
  /\ rank \in [D -> Nat] /\ next \in [D -> D]
  /\ base \in [D -> R] /\ comb \in [D -> [R -> R]]
  /\ \A x \in D \ stop : rank[next[x]] < rank[x]

Solves(D, R, stop, next, base, comb) ==
  \E g \in [D -> R] : \A x \in D : g[x] = Asks(g, x, stop, next, base, comb)

LEMMA Recursion ==
  ASSUME NEW D, NEW R, NEW rank, NEW stop, NEW next, NEW base, NEW comb,
         Descends(D, R, rank, stop, next, base, comb)
  PROVE  Solves(D, R, stop, next, base, comb)
<1> DEFINE Upto(g, n) == g \in [D -> R] /\ Below(g, n, D, rank, stop, next, base, comb)
<1>0. /\ rank \in [D -> Nat] /\ next \in [D -> D] /\ base \in [D -> R] /\ comb \in [D -> [R -> R]]
      /\ \A x \in D \ stop : rank[next[x]] < rank[x]
  BY DEF Descends
<1>1. ASSUME NEW g \in [D -> R], NEW x \in D PROVE Asks(g, x, stop, next, base, comb) \in R
  BY <1>0 DEF Asks
<1>2. \A n \in Nat : \E g : Upto(g, n)
  <2> DEFINE T == {n \in Nat : \E g : Upto(g, n)}
  <2>1. 0 \in T
    <3>1. \A x \in D : ~(rank[x] < 0)
      BY <1>0
    <3> QED
      BY <1>0, <3>1 DEF Below
  <2>2. ASSUME NEW n \in Nat, n \in T PROVE n + 1 \in T
    <3>1. PICK g : Upto(g, n)
      BY <2>2
    <3> DEFINE h == [x \in D |-> Asks(g, x, stop, next, base, comb)]
    <3>2. h \in [D -> R]
      BY <1>1, <3>1
    <3>3. \A x \in D : rank[x] < n => h[x] = g[x]
      BY <3>1 DEF Below
    <3>4. \A x \in D : h[x] = Asks(g, x, stop, next, base, comb)
      OBVIOUS
    <3> HIDE DEF h
    <3>5. ASSUME NEW x \in D, rank[x] < n + 1 PROVE h[x] = Asks(h, x, stop, next, base, comb)
      <4>1. CASE x \in stop
        BY <3>4, <4>1 DEF Asks
      <4>2. CASE x \notin stop
        <5>1. next[x] \in D /\ rank[next[x]] < n
          BY <1>0, <3>5, <4>2
        <5> QED
          BY <3>3, <3>4, <4>2, <5>1 DEF Asks
      <4> QED
        BY <4>1, <4>2
    <3> QED
      BY <3>2, <3>5 DEF Below
  <2>3. Nat \subseteq T
    <3> HIDE DEF T
    <3> QED
      BY <2>1, <2>2, Sums!Induction
  <2> QED
    BY <2>3
<1>3. \A n \in Nat : \A g, h : Upto(g, n) /\ Upto(h, n) => \A x \in D : rank[x] < n => g[x] = h[x]
  <2> DEFINE Same(n) == \A g, h : Upto(g, n) /\ Upto(h, n) => \A x \in D : rank[x] < n => g[x] = h[x]
             T == {n \in Nat : Same(n)}
  <2>1. 0 \in T
    <3>1. \A x \in D : ~(rank[x] < 0)
      BY <1>0
    <3> QED
      BY <3>1
  <2>2. ASSUME NEW n \in Nat, n \in T PROVE n + 1 \in T
    <3>1. SUFFICES ASSUME NEW g, NEW h, Upto(g, n + 1), Upto(h, n + 1), NEW x \in D, rank[x] < n + 1
                   PROVE g[x] = h[x]
      OBVIOUS
    <3>2. Upto(g, n) /\ Upto(h, n)
      BY <1>0, <3>1 DEF Below
    <3>3. \A y \in D : rank[y] < n => g[y] = h[y]
      BY <2>2, <3>2
    <3>4. /\ g[x] = Asks(g, x, stop, next, base, comb)
          /\ h[x] = Asks(h, x, stop, next, base, comb)
      BY <3>1 DEF Below
    <3>5. CASE x \in stop
      BY <3>4, <3>5 DEF Asks
    <3>6. CASE x \notin stop
      <4>1. next[x] \in D /\ rank[next[x]] < n
        BY <1>0, <3>1, <3>6
      <4> QED
        BY <3>3, <3>4, <3>6, <4>1 DEF Asks
    <3> QED
      BY <3>5, <3>6
  <2>3. Nat \subseteq T
    <3> HIDE DEF T
    <3> QED
      BY <2>1, <2>2, Sums!Induction
  <2> QED
    BY <2>3
<1> DEFINE At(x) == CHOOSE g : Upto(g, rank[x] + 1)
           G == [x \in D |-> At(x)[x]]
<1>4. \A x \in D : Upto(At(x), rank[x] + 1)
  <2> HIDE DEF Upto
  <2> QED
    BY <1>0, <1>2
<1>5. G \in [D -> R]
  BY <1>4
<1>6. \A x \in D : G[x] = At(x)[x]
  OBVIOUS
<1> HIDE DEF G, At
<1>7. ASSUME NEW x \in D PROVE G[x] = Asks(G, x, stop, next, base, comb)
  <2>1. G[x] = Asks(At(x), x, stop, next, base, comb)
    BY <1>0, <1>4, <1>6 DEF Below
  <2>2. CASE x \in stop
    BY <2>1, <2>2 DEF Asks
  <2>3. CASE x \notin stop
    <3> DEFINE y == next[x]
    <3>1. y \in D /\ rank[y] < rank[x] /\ rank[y] \in Nat /\ rank[x] \in Nat
      BY <1>0, <2>3
    <3>2. Upto(At(x), rank[y] + 1)
      BY <1>0, <1>4, <3>1 DEF Below
    <3>3. At(x)[y] = At(y)[y]
      <4> HIDE DEF y, Upto
      <4> QED
        BY <1>3, <1>4, <3>1, <3>2
    <3> QED
      BY <1>6, <2>1, <2>3, <3>1, <3>3 DEF Asks
  <2> QED
    BY <2>2, <2>3
<1> QED
  BY <1>5, <1>7 DEF Solves

-----------------------------------------------------------------------------
(* Division with remainder. *)

LEMMA Divide ==
  ASSUME NEW p \in Nat \ {0}, NEW a \in Int
  PROVE  a % p \in 0 .. p - 1 /\ a \div p \in Int /\ a = p * (a \div p) + (a % p)
<1>1. a % p \in 0 .. p - 1
  OBVIOUS
<1>2. a \div p \in Int
  OBVIOUS
<1>3. a = p * (a \div p) + (a % p)
  OBVIOUS
<1> QED
  BY <1>1, <1>2, <1>3

LEMMA DivideNat ==
  ASSUME NEW base \in Nat, base >= 2, NEW c \in Nat
  PROVE  /\ c % base \in 0 .. base - 1 /\ c \div base \in Nat /\ c = base * (c \div base) + (c % base)
         /\ c # 0 => c \div base < c
<1>1. PICK q, r : q = c \div base /\ r = c % base
  OBVIOUS
<1>2. r \in 0 .. base - 1 /\ q \in Int /\ c = base * q + r
  BY <1>1, Divide
<1>3. q >= 0
  <2>1. SUFFICES ASSUME q <= -1 PROVE FALSE
    BY <1>2
  <2>2. base * q <= base * (-1)
    BY <1>2, <2>1
  <2> QED
    BY <1>2, <2>2
<1>4. c # 0 => q < c
  <2>1. SUFFICES ASSUME c # 0, q >= c PROVE FALSE
    BY <1>2
  <2>2. base * q >= 2 * q
    BY <1>2, <1>3
  <2> QED
    BY <1>2, <2>1, <2>2
<1> QED
  BY <1>1, <1>2, <1>3, <1>4

-----------------------------------------------------------------------------
(* Numerals, the least significant digit first. *)

\* f[k] is what the digits after the k-th stand for.
Weighs(f, base, s) ==
  /\ f \in [0 .. Len(s) -> Nat] /\ f[Len(s)] = 0
  /\ \A k \in 1 .. Len(s) : f[k - 1] = s[k] + base * f[k]

\* s is the number v, written without a superfluous zero.
Writes(s, base, v) ==
  /\ s \in Seq(0 .. base - 1)
  /\ s # <<>> => s[Len(s)] # 0
  /\ \E f : Weighs(f, base, s) /\ f[0] = v

LEMMA CarryUnfolds ==
  ASSUME NEW base \in Nat, base >= 2
  PROVE  \A c \in Nat : Carry(base)[c] = IF c = 0 THEN <<>> ELSE <<c % base>> \o Carry(base)[c \div base]
<1> DEFINE IsCarry(g) == g = [c \in Nat |-> IF c = 0 THEN <<>> ELSE <<c % base>> \o g[c \div base]]
           R == Seq(Nat)
           rank == [c \in Nat |-> c]
           next == [c \in Nat |-> c \div base]
           empty == [c \in Nat |-> <<>>]
           comb == [c \in Nat |-> [r \in R |-> <<c % base>> \o r]]
<1>1. \A c \in Nat : c \div base \in Nat /\ c % base \in Nat /\ (c # 0 => c \div base < c)
  BY DivideNat
<1>2. /\ rank \in [Nat -> Nat] /\ next \in [Nat -> Nat] /\ empty \in [Nat -> R]
      /\ comb \in [Nat -> [R -> R]]
  BY <1>1
<1>3. \A c \in Nat \ {0} : rank[next[c]] < rank[c]
  BY <1>1
<1>4. \E g \in [Nat -> R] : \A c \in Nat : g[c] = Asks(g, c, {0}, next, empty, comb)
  <2> HIDE DEF rank, next, empty, comb, R
  <2>1. Descends(Nat, R, rank, {0}, next, empty, comb)
    BY <1>2, <1>3 DEF Descends
  <2>2. Solves(Nat, R, {0}, next, empty, comb)
    BY ONLY <2>1, Recursion
  <2> QED
    BY <2>2 DEF Solves
<1>5. PICK g \in [Nat -> R] : \A c \in Nat : g[c] = Asks(g, c, {0}, next, empty, comb)
  BY <1>4
<1>6. ASSUME NEW c \in Nat
      PROVE  g[c] = IF c = 0 THEN <<>> ELSE <<c % base>> \o g[c \div base]
  <2>1. g[c \div base] \in R
    BY <1>1, <1>5
  <2> QED
    BY <1>5, <2>1 DEF Asks
<1>7. IsCarry(g)
  BY <1>6
<1>8. Carry(base) = CHOOSE h : IsCarry(h)
  BY DEF Carry
<1>9. IsCarry(Carry(base))
  <2> HIDE DEF IsCarry
  <2> QED
    BY <1>7, <1>8
<1> QED
  BY <1>9

\* One digit more in front.
LEMMA WriteFirst ==
  ASSUME NEW base \in Nat, base >= 2, NEW d \in 0 .. base - 1, NEW s, NEW v \in Nat,
         Writes(s, base, v), s = <<>> => d # 0
  PROVE  Writes(<<d>> \o s, base, d + base * v)
<1> DEFINE t == <<d>> \o s
<1>1. s \in Seq(0 .. base - 1) /\ Len(s) \in Nat
  BY DEF Writes
<1>2. /\ t \in Seq(0 .. base - 1) /\ Len(t) = Len(s) + 1 /\ t[1] = d
      /\ \A k \in 1 .. Len(s) : t[k + 1] = s[k]
  BY <1>1
<1> HIDE DEF t
<1>3. PICK f : Weighs(f, base, s) /\ f[0] = v
  BY DEF Writes
<1> DEFINE g == [k \in 0 .. Len(t) |-> IF k = 0 THEN d + base * v ELSE f[k - 1]]
<1>4. d + base * v \in Nat
  OBVIOUS
<1>5. g \in [0 .. Len(t) -> Nat]
  <2>1. \A k \in 0 .. Len(t) : k # 0 => f[k - 1] \in Nat
    <3>1. \A k \in 0 .. Len(t) : k # 0 => k - 1 \in 0 .. Len(s)
      BY <1>1, <1>2
    <3> QED
      BY <1>3, <3>1 DEF Weighs
  <2> QED
    BY <1>4, <2>1
<1>6. g[0] = d + base * v /\ \A k \in 1 .. Len(t) : g[k] = f[k - 1]
  BY <1>1, <1>2
<1> HIDE DEF g
<1>7. g[Len(t)] = 0
  BY <1>1, <1>2, <1>3, <1>6, SMTT(30) DEF Weighs
<1>8. ASSUME NEW k \in 1 .. Len(t) PROVE g[k - 1] = t[k] + base * g[k]
  <2>1. CASE k = 1
    BY <1>2, <1>3, <1>6, <2>1
  <2>2. CASE k # 1
    <3>1. k - 1 \in 1 .. Len(s) /\ (k - 1) + 1 = k
      BY <1>1, <1>2, <2>2
    <3>2. PICK j : j = k - 1
      OBVIOUS
    <3>3. j \in 1 .. Len(s) /\ j \in 1 .. Len(t) /\ j + 1 = k
      BY <1>1, <1>2, <3>1, <3>2
    <3>4. g[j] = f[j - 1] /\ g[k] = f[j] /\ t[k] = s[j]
      BY <1>2, <1>6, <3>2, <3>3
    <3>5. f[j - 1] = s[j] + base * f[j]
      BY <1>3, <3>3, Zenon DEF Weighs
    <3> QED
      BY <3>2, <3>4, <3>5
  <2> QED
    BY <2>1, <2>2
<1>9. Weighs(g, base, t)
  BY <1>5, <1>7, <1>8 DEF Weighs
<1>10. t[Len(t)] # 0
  <2>1. CASE s = <<>>
    BY <1>2, <2>1
  <2>2. CASE s # <<>>
    <3>1. Len(s) \in 1 .. Len(s)
      BY <1>1, <2>2
    <3> QED
      BY <1>2, <2>2, <3>1 DEF Writes
  <2> QED
    BY <2>1, <2>2
<1>11. Writes(t, base, d + base * v)
  BY <1>2, <1>6, <1>9, <1>10 DEF Writes
<1> QED
  BY <1>11 DEF t

\* The last loop writes the carry.
LEMMA CarryWrites ==
  ASSUME NEW base \in Nat, base >= 2
  PROVE  \A c \in Nat : Writes(Carry(base)[c], base, c)
<1> DEFINE W(c) == Writes(Carry(base)[c], base, c)
           T == {n \in Nat : \A c \in Nat : c <= n => W(c)}
<1>1. W(0)
  <2>1. Carry(base)[0] = <<>>
    BY CarryUnfolds
  <2>2. Weighs([k \in 0 .. 0 |-> 0], base, <<>>)
    BY DEF Weighs
  <2>3. [k \in 0 .. 0 |-> 0][0] = 0
    OBVIOUS
  <2>4. Writes(<<>>, base, 0)
    BY <2>2, <2>3 DEF Writes
  <2> QED
    BY <2>1, <2>4
<1>2. 0 \in T
  BY <1>1
<1>3. ASSUME NEW n \in Nat, n \in T PROVE n + 1 \in T
  <2>1. SUFFICES W(n + 1)
    BY <1>3
  <2> DEFINE c == n + 1
             q == c \div base
             d == c % base
  <2>2. c \in Nat /\ c # 0 /\ d \in 0 .. base - 1 /\ q \in Nat /\ c = base * q + d /\ q <= n
    <3>1. n + 1 \in Nat /\ n + 1 # 0
      OBVIOUS
    <3> QED
      BY <3>1, DivideNat
  <2>3. W(q)
    BY <1>3, <2>2
  <2>4. Carry(base)[c] = <<d>> \o Carry(base)[q]
    BY <2>2, CarryUnfolds
  <2> HIDE DEF c, q, d
  <2>5. Carry(base)[q] = <<>> => d # 0
    <3>1. SUFFICES ASSUME Carry(base)[q] = <<>> PROVE q = 0
      BY <2>2
    <3>2. PICK f : Weighs(f, base, <<>>) /\ f[0] = q
      BY <2>3, <3>1 DEF Writes
    <3> QED
      BY <3>2 DEF Weighs
  <2>6. Writes(Carry(base)[c], base, d + base * q)
    BY <2>2, <2>3, <2>4, <2>5, WriteFirst
  <2>7. d + base * q = c
    BY <2>2
  <2> QED
    BY <2>6, <2>7 DEF c
<1>4. Nat \subseteq T
  <2> HIDE DEF T
  <2> QED
    BY <1>2, <1>3, Sums!Induction
<1> QED
  BY <1>4

LEMMA Downward ==
  ASSUME NEW n \in Nat, NEW T, n \in T, \A k \in 1 .. n : k \in T => k - 1 \in T
  PROVE  0 .. n \subseteq T
<1> DEFINE U == {j \in Nat : j <= n => n - j \in T}
<1>1. 0 \in U
  OBVIOUS
<1>2. ASSUME NEW j \in Nat, j \in U PROVE j + 1 \in U
  <2>1. SUFFICES ASSUME j + 1 <= n PROVE n - (j + 1) \in T
    OBVIOUS
  <2>2. n - j \in 1 .. n /\ n - j \in T
    BY <1>2, <2>1
  <2>3. (n - j) - 1 \in T
    BY <2>2
  <2>4. (n - j) - 1 = n - (j + 1)
    OBVIOUS
  <2> QED
    BY <2>3, <2>4
<1>3. Nat \subseteq U
  <2> HIDE DEF U
  <2> QED
    BY <1>1, <1>2, Sums!Induction
<1>4. ASSUME NEW k \in 0 .. n PROVE k \in T
  <2>1. n - k \in Nat /\ n - k <= n /\ n - (n - k) = k
    OBVIOUS
  <2> QED
    BY <1>3, <2>1
<1> QED
  BY <1>4

\* What is left of a numeral is more than nothing.
LEMMA Positive ==
  ASSUME NEW base \in Nat, base >= 2, NEW s \in Seq(0 .. base - 1), s # <<>> => s[Len(s)] # 0,
         NEW f, Weighs(f, base, s)
  PROVE  \A k \in 0 .. Len(s) : k < Len(s) => f[k] > 0
<1> DEFINE n == Len(s)
           T == {k \in 0 .. n : k < n => f[k] > 0}
<1>1. n \in Nat /\ n \in T
  OBVIOUS
<1>2. ASSUME NEW k \in 1 .. n, k \in T PROVE k - 1 \in T
  <2>1. s[k] \in Nat /\ f[k] \in Nat /\ f[k - 1] = s[k] + base * f[k]
    BY SMTT(30) DEF Weighs
  <2>2. CASE k = n
    <3>1. s[k] # 0 /\ f[k] = 0
      BY <2>2 DEF Weighs
    <3>2. f[k - 1] = s[k]
      BY <2>1, <3>1
    <3> QED
      BY <2>1, <3>1, <3>2
  <2>3. CASE k # n
    <3>1. f[k] > 0
      BY <1>2, <2>3
    <3>2. PICK x : x = f[k]
      OBVIOUS
    <3>3. x \in Nat /\ x > 0
      BY <2>1, <3>1, <3>2
    <3>4. base * x >= 2
      BY ONLY <3>3, base \in Nat, base >= 2
    <3> QED
      BY <2>1, <3>2, <3>4, SMTT(30)
  <2> QED
    BY <2>2, <2>3
<1>3. 0 .. n \subseteq T
  <2> HIDE DEF T
  <2> QED
    BY <1>1, <1>2, Downward
<1> QED
  BY <1>3

\* A numeral stands for one number.
LEMMA OneNumber ==
  ASSUME NEW base \in Nat, base >= 2, NEW s, NEW v, NEW w, Writes(s, base, v), Writes(s, base, w)
  PROVE  v = w
<1>1. PICK f : Weighs(f, base, s) /\ f[0] = v
  BY DEF Writes
<1>2. PICK g : Weighs(g, base, s) /\ g[0] = w
  BY DEF Writes
<1> DEFINE n == Len(s)
           T == {k \in 0 .. n : f[k] = g[k]}
<1>3. n \in Nat /\ n \in T
  BY <1>1, <1>2 DEF Writes, Weighs
<1>4. ASSUME NEW k \in 1 .. n, k \in T PROVE k - 1 \in T
  <2>1. f[k - 1] = s[k] + base * f[k] /\ g[k - 1] = s[k] + base * g[k]
    BY <1>1, <1>2 DEF Weighs
  <2> QED
    BY <1>3, <1>4, <2>1
<1>5. 0 .. n \subseteq T
  <2> HIDE DEF T
  <2> QED
    BY <1>3, <1>4, Downward
<1> QED
  BY <1>1, <1>2, <1>3, <1>5

LEMMA OneDigit ==
  ASSUME NEW base \in Nat, base >= 2, NEW c \in 0 .. base - 1, NEW d \in 0 .. base - 1,
         NEW x \in Nat, NEW y \in Nat, c + base * x = d + base * y
  PROVE  c = d /\ x = y
<1>1. base * (x - y) = d - c
  OBVIOUS
<1>2. x - y >= 1 => base * (x - y) >= base
  OBVIOUS
<1>3. x - y <= -1 => base * (x - y) <= -base
  OBVIOUS
<1>4. x = y
  BY <1>1, <1>2, <1>3
<1> QED
  BY <1>4

\* A number has one numeral.
LEMMA OneNumeral ==
  ASSUME NEW base \in Nat, base >= 2, NEW s, NEW t, NEW v, Writes(s, base, v), Writes(t, base, v)
  PROVE  s = t
<1>1. PICK f : Weighs(f, base, s) /\ f[0] = v
  BY DEF Writes
<1>2. PICK g : Weighs(g, base, t) /\ g[0] = v
  BY DEF Writes
<1>3. /\ s \in Seq(0 .. base - 1) /\ t \in Seq(0 .. base - 1) /\ Len(s) \in Nat /\ Len(t) \in Nat
      /\ \A k \in 0 .. Len(s) : k < Len(s) => f[k] > 0
      /\ \A k \in 0 .. Len(t) : k < Len(t) => g[k] > 0
  BY <1>1, <1>2, Positive DEF Writes
<1> DEFINE Same(k) == k <= Len(t) /\ f[k] = g[k] /\ \A i \in 1 .. k : s[i] = t[i]
           T == {k \in Nat : k <= Len(s) => Same(k)}
<1>4. 0 \in T
  BY <1>1, <1>2, <1>3
<1>5. ASSUME NEW k \in Nat, k \in T PROVE k + 1 \in T
  <2>1. SUFFICES ASSUME k + 1 <= Len(s) PROVE Same(k + 1)
    OBVIOUS
  <2>2. Same(k)
    BY <1>3, <1>5, <2>1
  <2>3. k + 1 <= Len(t)
    <3>1. k \in 0 .. Len(s) /\ k < Len(s)
      BY <1>3, <2>1
    <3>3. f[k] > 0
      BY <1>3, <3>1
    <3>2. k # Len(t)
      BY <1>2, <2>2, <3>3 DEF Weighs
    <3> QED
      BY <1>3, <2>2, <3>2
  <2>4. PICK j : j = k + 1
    OBVIOUS
  <2>5. j \in 1 .. Len(s) /\ j \in 1 .. Len(t) /\ j - 1 = k
    BY <1>3, <2>1, <2>3, <2>4
  <2>6. PICK c, d, x, y : c = s[j] /\ d = t[j] /\ x = f[j] /\ y = g[j]
    OBVIOUS
  <2>7. c \in 0 .. base - 1 /\ x \in Nat /\ f[k] = c + base * x
    <3>1. j \in 0 .. Len(s) /\ c \in 0 .. base - 1
      BY <1>3, <2>5, <2>6
    <3>2. f[j - 1] = s[j] + base * f[j]
      BY <1>1, <2>5, Zenon DEF Weighs
    <3>3. f[j] \in Nat
      BY <1>1, <3>1, Zenon DEF Weighs
    <3> QED
      BY <2>5, <2>6, <3>1, <3>2, <3>3, Zenon
  <2>8. d \in 0 .. base - 1 /\ y \in Nat /\ g[k] = d + base * y
    <3>1. j \in 0 .. Len(t) /\ d \in 0 .. base - 1
      BY <1>3, <2>5, <2>6
    <3>2. g[j - 1] = t[j] + base * g[j]
      BY <1>2, <2>5, Zenon DEF Weighs
    <3>3. g[j] \in Nat
      BY <1>2, <3>1, Zenon DEF Weighs
    <3> QED
      BY <2>5, <2>6, <3>1, <3>2, <3>3, Zenon
  <2>9. c + base * x = d + base * y
    BY <2>2, <2>7, <2>8, Zenon
  <2>10. c = d /\ x = y
    BY ONLY base \in Nat, base >= 2, <2>7, <2>8, <2>9, OneDigit
  <2>11. \A i \in 1 .. j : i \in 1 .. k \/ i = j
    BY <2>4
  <2> QED
    BY <2>2, <2>3, <2>4, <2>6, <2>10, <2>11
<1>6. Nat \subseteq T
  <2> HIDE DEF T
  <2> QED
    BY <1>4, <1>5, Sums!Induction
<1>7. Same(Len(s))
  BY <1>3, <1>6
<1>8. Len(s) = Len(t)
  <2>1. g[Len(s)] = 0
    BY <1>1, <1>7 DEF Weighs
  <2>2. Len(s) \in 0 .. Len(t)
    BY <1>3, <1>7
  <2>3. ~(Len(s) < Len(t))
    BY <1>3, <2>1, <2>2
  <2> QED
    BY <2>2, <2>3
<1> QED
  BY <1>3, <1>7, <1>8, SMTT(30)

LEMMA AppendMoves ==
  ASSUME NEW X, NEW o \in Seq(X), NEW t \in Seq(X), NEW d \in X
  PROVE  Append(o, d) \o t = o \o (<<d>> \o t)
OBVIOUS

\* A sum that is zero has no part that is not.
LEMMA NothingAdded ==
  ASSUME NEW a \in Nat, NEW l \in Nat, NEW m \in Nat \ {0}
  PROVE  /\ (a + l * m = 0 => a = 0 /\ l = 0)
         /\ (a + m * l = 0 => a = 0 /\ l = 0)
<1>1. PICK y : y = l * m /\ y = m * l
  OBVIOUS
<1>2. y \in Nat
  BY <1>1
<1>3. l # 0 => y # 0
  <2>1. SUFFICES ASSUME l >= 1 PROVE y >= 1
    OBVIOUS
  <2>2. m >= 1
    OBVIOUS
  <2>3. PICK p \in Nat : l = p + 1
    <3>1. l - 1 \in Nat /\ l = (l - 1) + 1
      BY <2>1
    <3> QED
      BY <3>1
  <2>4. p * m \in Nat
    OBVIOUS
  <2>5. y = p * m + m
    BY <1>1, <2>3
  <2> QED
    BY <2>2, <2>4, <2>5
<1> QED
  BY <1>1, <1>2, <1>3

\* The inner loop multiplies and adds.
LEMMA MulAddWrites ==
  ASSUME NEW base \in Nat, base >= 2, NEW times \in Nat \ {0}, NEW limbs, NEW v, NEW value \in Nat,
         Writes(limbs, base, v)
  PROVE  Writes(MulAdd(limbs, times, base, value), base, v * times + value)
<1> DEFINE n == Len(limbs)
           result == MulAdd(limbs, times, base, value)
<1>1. limbs \in Seq(0 .. base - 1) /\ n \in Nat
  BY DEF Writes
<1>2. PICK A : /\ Carries(A, value, limbs, times, base)
               /\ result = A[n].out \o Carry(base)[A[n].carry]
  BY <1>1, MulAddRuns DEF Runs
<1>3. PICK f : Weighs(f, base, limbs) /\ f[0] = v
  BY DEF Writes
<1>4. \A k \in 0 .. n : k < n => f[k] > 0
  BY <1>1, <1>3, Positive DEF Writes
<1> DEFINE c(k) == A[k - 1].carry + limbs[k] * times
<1>5. \A k \in 1 .. n : /\ A[k].carry = c(k) \div base
                        /\ A[k].out = Append(A[k - 1].out, c(k) % base)
  <2>1. \A k \in 1 .. n : A[k] = [carry |-> c(k) \div base, out |-> Append(A[k - 1].out, c(k) % base)]
    BY <1>2 DEF Carries, AddLimb
  <2>2. ASSUME NEW k \in 1 .. n
        PROVE  A[k].carry = c(k) \div base /\ A[k].out = Append(A[k - 1].out, c(k) % base)
    <3>1. PICK q, o : q = c(k) \div base /\ o = Append(A[k - 1].out, c(k) % base)
      OBVIOUS
    <3>2. A[k] = [carry |-> q, out |-> o]
      BY <2>1, <3>1, Zenon
    <3>3. A[k].carry = q /\ A[k].out = o
      BY ONLY <3>2
    <3> QED
      BY ONLY <3>1, <3>3, Zenon
  <2> QED
    BY <2>2
<1>6. A[0].carry = value /\ A[0].out = <<>>
  BY <1>2 DEF Carries
<1> HIDE DEF n, result
<1>7. \A k \in 0 .. n : A[k].carry \in Nat /\ A[k].out \in Seq(0 .. base - 1)
  <2> DEFINE T == {k \in Nat : k <= n => A[k].carry \in Nat /\ A[k].out \in Seq(0 .. base - 1)}
  <2>1. 0 \in T
    <3>1. A[0].carry \in Nat
      BY <1>6
    <3>2. A[0].out \in Seq(0 .. base - 1)
      BY <1>6
    <3> QED
      BY <3>1, <3>2
  <2>2. ASSUME NEW k \in Nat, k \in T PROVE k + 1 \in T
    <3>1. SUFFICES ASSUME k + 1 <= n
                   PROVE  A[k + 1].carry \in Nat /\ A[k + 1].out \in Seq(0 .. base - 1)
      OBVIOUS
    <3>2. PICK j : j = k + 1
      OBVIOUS
    <3>3. j \in 1 .. n /\ j - 1 = k
      BY <1>1, <3>1, <3>2
    <3>4. A[k].carry \in Nat /\ A[k].out \in Seq(0 .. base - 1)
      BY <1>1, <2>2, <3>1
    <3>5. limbs[j] * times \in Nat
      BY <1>1, <3>3 DEF n
    <3>6. c(j) \in Nat
      <4>1. PICK x, y : x = A[k].carry /\ y = limbs[j] * times
        OBVIOUS
      <4>2. A[j - 1] = A[k]
        BY <3>3
      <4>3. c(j) = x + y
        BY <4>1, <4>2
      <4>4. x \in Nat /\ y \in Nat
        BY <3>4, <3>5, <4>1
      <4> QED
        BY <4>3, <4>4
    <3>7. c(j) \div base \in Nat /\ c(j) % base \in 0 .. base - 1
      BY <3>6, DivideNat
    <3>8. PICK o, d, q : o = A[k].out /\ d = c(j) % base /\ q = c(j) \div base
      OBVIOUS
    <3>9. A[j].carry = q /\ A[j].out = Append(o, d)
      <4> HIDE DEF c
      <4> QED
        BY <1>5, <3>3, <3>8
    <3>10. o \in Seq(0 .. base - 1) /\ d \in 0 .. base - 1 /\ q \in Nat
      BY <3>4, <3>7, <3>8
    <3>11. Append(o, d) \in Seq(0 .. base - 1)
      BY ONLY <3>10
    <3> QED
      BY <3>2, <3>9, <3>10, <3>11
  <2>3. Nat \subseteq T
    <3> HIDE DEF T
    <3> QED
      BY <2>1, <2>2, Sums!Induction
  <2> QED
    BY <2>3
<1> DEFINE Rest(k) == \E t : /\ Writes(t, base, A[k].carry + times * f[k])
                             /\ result = A[k].out \o t
           T == {k \in 0 .. n : Rest(k)}
<1>8. n \in T
  <2>1. f[n] = 0 /\ A[n].carry \in Nat
    BY <1>1, <1>3, <1>7 DEF Weighs, n
  <2>2. A[n].carry + times * f[n] = A[n].carry
    BY <2>1
  <2>3. Writes(Carry(base)[A[n].carry], base, A[n].carry)
    BY <2>1, CarryWrites
  <2>4. Rest(n)
    BY <1>2, <2>2, <2>3
  <2>5. n \in 0 .. n
    BY <1>1
  <2> HIDE DEF Rest
  <2> QED
    BY <2>4, <2>5
<1>9. ASSUME NEW k \in 1 .. n, k \in T PROVE k - 1 \in T
  <2>1. PICK t : Writes(t, base, A[k].carry + times * f[k]) /\ result = A[k].out \o t
    BY <1>9
  <2>2. PICK x, a, l, q, d :
          x = f[k] /\ a = A[k - 1].carry /\ l = limbs[k] /\ q = A[k].carry /\ d = c(k) % base
    OBVIOUS
  <2>3. x \in Nat /\ f[k - 1] = l + base * x /\ f[k - 1] > 0
    <3>1. k \in 0 .. n /\ k - 1 \in 0 .. n /\ k - 1 < n
      BY <1>1
    <3>2. k \in 1 .. Len(limbs) /\ k \in 0 .. Len(limbs)
      BY <3>1 DEF n
    <3>3. QED
      <4>1. f[k - 1] = limbs[k] + base * f[k]
        BY <1>3, <3>2, Zenon DEF Weighs
      <4>2. f[k] \in Nat
        BY <1>3, <3>2, Zenon DEF Weighs
      <4>3. f[k - 1] > 0
        BY <1>4, <3>1
      <4> QED
        BY <2>2, <4>1, <4>2, <4>3, Zenon
  <2>4. a \in Nat /\ q \in Nat /\ l \in Nat /\ c(k) = a + l * times
    <3>1. k \in 0 .. n /\ k - 1 \in 0 .. n /\ k \in 1 .. Len(limbs)
      BY <1>1 DEF n
    <3>2. A[k].carry \in Nat /\ A[k - 1].carry \in Nat
      BY <1>7, <3>1
    <3>3. limbs[k] \in 0 .. base - 1
      BY <1>1, <3>1
    <3>4. c(k) = a + l * times
      BY <2>2
    <3> QED
      BY <2>2, <3>2, <3>3, <3>4
  <2>5. a + l * times \in Nat
    BY <2>4
  <2>6. d \in 0 .. base - 1 /\ a + l * times = base * q + d
    <3>1. PICK y : y = a + l * times
      OBVIOUS
    <3>2. q = y \div base /\ d = y % base
      BY <1>5, <2>2, <2>4, <3>1, Zenon
    <3>3. y \in Nat
      BY <2>5, <3>1
    <3>4. d \in 0 .. base - 1 /\ y = base * q + d
      BY ONLY base \in Nat, base >= 2, <3>2, <3>3, DivideNat
    <3> QED
      BY <3>1, <3>4
  <2>7. t = <<>> => d # 0
    <3>1. SUFFICES ASSUME t = <<>>, d = 0 PROVE FALSE
      OBVIOUS
    <3>2. q + times * x = 0
      <4>1. PICK g : Weighs(g, base, <<>>) /\ g[0] = q + times * x
        BY <2>1, <2>2, <3>1 DEF Writes
      <4> QED
        BY <4>1 DEF Weighs
    <3>3. x = 0 /\ q = 0
      BY ONLY times \in Nat \ {0}, <2>3, <2>4, <3>2, NothingAdded
    <3>4. a + l * times = 0
      BY ONLY base \in Nat, <2>6, <3>1, <3>3
    <3>5. l = 0
      BY ONLY times \in Nat \ {0}, <2>4, <3>4, NothingAdded
    <3> QED
      BY <2>3, <3>3, <3>5
  <2>8. q + times * x \in Nat
    BY <2>3, <2>4
  <2>9. Writes(<<d>> \o t, base, d + base * (q + times * x))
    BY <2>1, <2>2, <2>6, <2>7, <2>8, WriteFirst
  <2>10. d + base * (q + times * x) = a + times * (l + base * x)
    <3>1. base * (q + times * x) = base * q + times * (base * x)
      BY <2>3, <2>4
    <3>2. times * (l + base * x) = l * times + times * (base * x)
      BY <2>3, <2>4
    <3>3. PICK y : y = times * (base * x)
      OBVIOUS
    <3>4. y \in Nat
      BY <2>3, <3>3
    <3> QED
      BY <2>3, <2>4, <2>6, <3>1, <3>2, <3>3, <3>4
  <2>11. Writes(<<d>> \o t, base, A[k - 1].carry + times * f[k - 1])
    BY <2>2, <2>3, <2>9, <2>10
  <2>12. result = A[k - 1].out \o (<<d>> \o t)
    <3>1. A[k].out = Append(A[k - 1].out, d)
      BY <1>5, <2>2
    <3>2. A[k - 1].out \in Seq(0 .. base - 1) /\ t \in Seq(0 .. base - 1)
      BY <1>1, <1>7, <2>1 DEF Writes
    <3>3. PICK o : o = A[k - 1].out
      OBVIOUS
    <3>4. o \in Seq(0 .. base - 1)
      BY <3>2, <3>3
    <3>5. Append(o, d) \o t = o \o (<<d>> \o t)
      <4>1. d \in 0 .. base - 1
        BY <2>6
      <4>2. PICK X : X = 0 .. base - 1
        OBVIOUS
      <4>3. o \in Seq(X) /\ t \in Seq(X) /\ d \in X
        BY <3>2, <3>4, <4>1, <4>2
      <4> QED
        BY ONLY <4>3, AppendMoves
    <3> QED
      BY <2>1, <3>1, <3>3, <3>5
  <2>13. k - 1 \in 0 .. n
    BY <1>1
  <2> QED
    BY <2>11, <2>12, <2>13
<1>10. 0 .. n \subseteq T
  <2> HIDE DEF T
  <2> QED
    BY <1>1, <1>8, <1>9, Downward
<1>11. PICK t : Writes(t, base, A[0].carry + times * f[0]) /\ result = A[0].out \o t
  BY <1>1, <1>10, SMTT(30)
<1>12. result = t
  BY <1>6, <1>11 DEF Writes
<1>13. v \in Nat
  BY <1>3 DEF Weighs
<1>14. A[0].carry + times * f[0] = v * times + value
  BY <1>3, <1>6, <1>13
<1> QED
  BY <1>11, <1>12, <1>14 DEF result

LEMMA Upward ==
  ASSUME NEW n \in Nat, NEW T, 0 \in T, \A k \in 1 .. n : k - 1 \in T => k \in T
  PROVE  0 .. n \subseteq T
<1> DEFINE U == {j \in Nat : j <= n => j \in T}
<1>1. 0 \in U
  OBVIOUS
<1>2. ASSUME NEW j \in Nat, j \in U PROVE j + 1 \in U
  <2>1. SUFFICES ASSUME j + 1 <= n PROVE j + 1 \in T
    OBVIOUS
  <2>2. PICK k : k = j + 1
    OBVIOUS
  <2>3. k \in 1 .. n /\ k - 1 = j
    BY <2>1, <2>2
  <2>4. j \in T
    BY <1>2, <2>1
  <2> QED
    BY <2>2, <2>3, <2>4
<1>3. Nat \subseteq U
  <2> HIDE DEF U
  <2> QED
    BY <1>1, <1>2, Sums!Induction
<1> QED
  BY <1>3

LEMMA EmptyWrites ==
  ASSUME NEW base PROVE Writes(<<>>, base, 0)
<1>1. Weighs([k \in 0 .. 0 |-> 0], base, <<>>)
  BY DEF Weighs
<1>2. [k \in 0 .. 0 |-> 0][0] = 0
  OBVIOUS
<1> QED
  BY <1>1, <1>2 DEF Writes

LEMMA CountsNat ==
  ASSUME NEW base \in Nat, NEW s \in Seq(Nat), NEW N, Counts(N, base, s)
  PROVE  \A k \in 0 .. Len(s) : N[k] \in Nat
<1> DEFINE n == Len(s)
           T == {k \in 0 .. n : N[k] \in Nat}
<1>1. n \in Nat /\ 0 \in T
  BY DEF Counts
<1>2. ASSUME NEW k \in 1 .. n, k - 1 \in T PROVE k \in T
  <2>1. PICK x, d : x = N[k - 1] /\ d = s[k]
    OBVIOUS
  <2>2. x \in Nat /\ d \in Nat /\ N[k] = x * base + d
    BY <1>2, <2>1 DEF Counts
  <2>3. x * base + d \in Nat
    BY ONLY base \in Nat, <2>2
  <2> QED
    BY <2>2, <2>3
<1>3. 0 .. n \subseteq T
  <2> HIDE DEF T
  <2> QED
    BY <1>1, <1>2, Upward
<1> QED
  BY <1>3

LEMMA ValueNat ==
  ASSUME NEW base \in Nat, NEW s \in Seq(Nat) PROVE Value(base, s) \in Nat
<1>1. PICK N : Counts(N, base, s) /\ Value(base, s) = N[Len(s)]
  BY ValueCounted
<1> QED
  BY <1>1, CountsNat

\* The outer loop writes the number its digits stand for.
LEMMA LimbsWrite ==
  ASSUME NEW from \in Nat \ {0}, NEW to \in Nat, to >= 2, NEW s \in Seq(Nat)
  PROVE  Writes(Limbs(<<>>, s, from, to), to, Value(from, s))
<1> DEFINE n == Len(s)
<1>1. PICK K : Builds(K, <<>>, s, from, to) /\ Limbs(<<>>, s, from, to) = K[n]
  BY LimbsBuilt DEF Grows
<1>2. PICK N : Counts(N, from, s) /\ Value(from, s) = N[n]
  BY ValueCounted
<1>3. n \in Nat /\ \A k \in 0 .. n : N[k] \in Nat
  BY <1>2, CountsNat
<1> DEFINE T == {k \in 0 .. n : Writes(K[k], to, N[k])}
<1>4. 0 \in T
  BY <1>1, <1>2, <1>3, EmptyWrites DEF Builds, Counts
<1>5. ASSUME NEW k \in 1 .. n, k - 1 \in T PROVE k \in T
  <2>1. PICK v, d : v = N[k - 1] /\ d = s[k]
    OBVIOUS
  <2>2. v \in Nat /\ d \in Nat /\ N[k] = v * from + d
    BY <1>2, <1>3, <2>1 DEF Counts
  <2>3. K[k] = MulAdd(K[k - 1], from, to, d)
    BY <1>1, <2>1 DEF Builds
  <2>4. Writes(K[k], to, v * from + d)
    BY <1>5, <2>1, <2>2, <2>3, MulAddWrites
  <2> QED
    BY <2>2, <2>4
<1>6. 0 .. n \subseteq T
  <2> HIDE DEF T
  <2> QED
    BY <1>3, <1>4, <1>5, Upward
<1> QED
  BY <1>1, <1>2, <1>3, <1>6

LEMMA Reversed ==
  ASSUME NEW X, NEW s \in Seq(X)
  PROVE  /\ Reverse(s) \in Seq(X) /\ Len(Reverse(s)) = Len(s) /\ Reverse(Reverse(s)) = s
         /\ \A k \in 1 .. Len(s) : Reverse(s)[k] = s[(Len(s) - k) + 1]
BY DEF Reverse

\* Written the other way round, it is the number Value reads.
LEMMA ReverseWrites ==
  ASSUME NEW base \in Nat, base >= 2, NEW s \in Seq(0 .. base - 1), s # <<>> => s[1] # 0
  PROVE  Writes(Reverse(s), base, Value(base, s))
<1> DEFINE n == Len(s)
           r == Reverse(s)
<1>1. PICK N : Counts(N, base, s) /\ Value(base, s) = N[n]
  BY ValueCounted
<1>2. s \in Seq(Nat) /\ n \in Nat
  OBVIOUS
<1>3. \A k \in 0 .. n : N[k] \in Nat
  BY <1>1, <1>2, CountsNat
<1>4. r \in Seq(0 .. base - 1) /\ Len(r) = n /\ \A k \in 1 .. n : r[k] = s[(n - k) + 1]
  BY Reversed
<1> DEFINE f == [k \in 0 .. n |-> N[n - k]]
<1>5. f \in [0 .. n -> Nat]
  BY <1>2, <1>3
<1>6. f[n] = 0 /\ f[0] = N[n]
  BY <1>1, <1>2 DEF Counts
<1>7. ASSUME NEW k \in 1 .. n PROVE f[k - 1] = r[k] + base * f[k]
  <2>1. PICK j : j = n - k
    OBVIOUS
  <2>2. PICK i : i = j + 1
    OBVIOUS
  <2>3. /\ i \in 1 .. n /\ i - 1 = j /\ k \in 0 .. n /\ k - 1 \in 0 .. n /\ n - (k - 1) = i
        /\ j \in 0 .. n
    BY <1>2, <2>1, <2>2
  <2>4. f[k - 1] = N[i] /\ f[k] = N[j]
    BY <2>1, <2>3
  <2>5. r[k] = s[i]
    BY <1>4, <2>1, <2>2
  <2>6. N[i] = N[j] * base + s[i]
    BY <1>1, <2>3 DEF Counts
  <2> HIDE DEF f, r
  <2>7. PICK x, d : x = N[j] /\ d = s[i]
    OBVIOUS
  <2>8. x \in Nat /\ d \in Nat
    BY <1>2, <1>3, <2>3, <2>7, SMTT(30)
  <2>9. x * base + d = d + base * x
    BY ONLY base \in Nat, <2>8
  <2> QED
    BY <2>4, <2>5, <2>6, <2>7, <2>9
<1>8. Weighs(f, base, r)
  <2> HIDE DEF f, r
  <2> QED
    BY <1>4, <1>5, <1>6, <1>7 DEF Weighs
<1>9. r # <<>> => r[Len(r)] # 0
  <2>1. SUFFICES ASSUME r # <<>> PROVE r[n] # 0
    BY <1>4
  <2>2. n \in 1 .. n /\ s # <<>> /\ (n - n) + 1 = 1
    BY <1>2, <1>4, <2>1
  <2> QED
    BY <1>4, <2>2
<1> QED
  BY <1>1, <1>4, <1>6, <1>8, <1>9 DEF Writes

LEMMA ReadsBack ==
  ASSUME NEW base \in Nat, base >= 2, NEW r, NEW v, Writes(r, base, v)
  PROVE  /\ Value(base, Reverse(r)) = v
         /\ Reverse(r) \in Seq(0 .. base - 1) /\ (Reverse(r) # <<>> => Reverse(r)[1] # 0)
<1> DEFINE s == Reverse(r)
<1>1. r \in Seq(0 .. base - 1) /\ Len(r) \in Nat /\ (r # <<>> => r[Len(r)] # 0)
  BY DEF Writes
<1>2. /\ s \in Seq(0 .. base - 1) /\ Len(s) = Len(r) /\ Reverse(s) = r
      /\ \A k \in 1 .. Len(r) : s[k] = r[(Len(r) - k) + 1]
  BY <1>1, Reversed
<1> HIDE DEF s
<1>3. s # <<>> => s[1] # 0
  <2>1. SUFFICES ASSUME s # <<>> PROVE s[1] # 0
    OBVIOUS
  <2>2. 1 \in 1 .. Len(r) /\ (Len(r) - 1) + 1 = Len(r) /\ r # <<>>
    BY <1>1, <1>2, <2>1
  <2>3. s[1] = r[Len(r)]
    BY <1>2, <2>2
  <2> QED
    BY <1>1, <2>2, <2>3
<1>4. Writes(r, base, Value(base, s))
  BY <1>2, <1>3, ReverseWrites
<1>5. Value(base, s) = v
  BY <1>4, OneNumber
<1> QED
  BY <1>2, <1>3, <1>5 DEF s

-----------------------------------------------------------------------------
(* Leading zeros. *)

LeadBy(s, z) ==
  /\ z \in 0 .. Len(s) /\ \A i \in 1 .. z : s[i] = 0
  /\ z < Len(s) => s[z + 1] # 0

LEMMA LeadingZerosOf ==
  ASSUME NEW X, NEW s \in Seq(X) PROVE LeadBy(s, LeadingZeros(s))
<1> DEFINE n == Len(s)
           T == {z \in 0 .. n : z < n => s[z + 1] # 0}
<1>1. n \in Nat /\ n \in T /\ T \in SUBSET Nat
  OBVIOUS
<1>2. PICK z \in T : \A m \in T : z <= m
  <2> HIDE DEF T
  <2> QED
    BY <1>1, Sums!Least
<1>3. ASSUME NEW i \in 1 .. z PROVE s[i] = 0
  <2>1. PICK j : j = i - 1
    OBVIOUS
  <2>2. j \in 0 .. n /\ j < n /\ j + 1 = i /\ ~(z <= j)
    BY <1>1, <2>1
  <2>3. j \notin T
    BY <1>2, <2>2
  <2> QED
    BY <2>2, <2>3
<1>4. LeadBy(s, z)
  BY <1>3 DEF LeadBy
<1>5. LeadingZeros(s) = CHOOSE m \in 0 .. Len(s) : LeadBy(s, m)
  BY DEF LeadingZeros, LeadBy
<1> QED
  BY <1>4, <1>5 DEF LeadBy

LEMMA LeadOnce ==
  ASSUME NEW X, NEW s \in Seq(X), NEW z, LeadBy(s, z) PROVE LeadingZeros(s) = z
<1>1. PICK y : y = LeadingZeros(s)
  OBVIOUS
<1>2. LeadBy(s, y)
  BY <1>1, LeadingZerosOf
<1>3. Len(s) \in Nat /\ y \in 0 .. Len(s) /\ z \in 0 .. Len(s)
  BY <1>2 DEF LeadBy
<1>4. ~(y < z)
  <2>1. SUFFICES ASSUME y < z PROVE FALSE
    OBVIOUS
  <2>2. y + 1 \in 1 .. z /\ y < Len(s)
    BY <1>3, <2>1
  <2> QED
    BY <1>2, <2>2 DEF LeadBy
<1>5. ~(z < y)
  <2>1. SUFFICES ASSUME z < y PROVE FALSE
    OBVIOUS
  <2>2. z + 1 \in 1 .. y /\ z < Len(s)
    BY <1>3, <2>1
  <2> QED
    BY <1>2, <2>2 DEF LeadBy
<1> QED
  BY <1>1, <1>3, <1>4, <1>5

\* Zeros in front of a list of digits that starts with none.
Leads(X, z, r) == 0 \in X /\ z \in Nat /\ r \in Seq(X) /\ (r # <<>> => r[1] # 0)

Padded(s, z, r) ==
  Len(s) = z + Len(r) /\ \A k \in 1 .. Len(s) : s[k] = IF k <= z THEN 0 ELSE r[k - z]

LEMMA LeadAppended ==
  ASSUME NEW X, NEW z, NEW r, Leads(X, z, r)
  PROVE  LET s == Zeros(z) \o r
         IN  s \in Seq(X) /\ Padded(s, z, r) /\ LeadingZeros(s) = z /\ SubSeq(s, z + 1, Len(s)) = r
<1> DEFINE s == Zeros(z) \o r
<1>0. 0 \in X /\ z \in Nat /\ r \in Seq(X) /\ (r # <<>> => r[1] # 0)
  BY DEF Leads
<1>1. Zeros(z) \in Seq(X) /\ Len(Zeros(z)) = z /\ \A k \in 1 .. z : Zeros(z)[k] = 0
  BY <1>0 DEF Zeros
<1>2. Len(r) \in Nat
  BY <1>0
<1>3. s \in Seq(X) /\ Len(s) = z + Len(r)
  BY <1>0, <1>1
<1>4. \A k \in 1 .. Len(s) : s[k] = IF k <= z THEN 0 ELSE r[k - z]
  BY <1>0, <1>1, <1>2
<1> HIDE DEF s
<1>5. LeadBy(s, z)
  <2>1. z \in 0 .. Len(s)
    BY <1>0, <1>2, <1>3
  <2>2. \A i \in 1 .. z : s[i] = 0
    BY <1>0, <1>2, <1>3, <1>4
  <2>3. ASSUME z < Len(s) PROVE s[z + 1] # 0
    <3>1. r # <<>> /\ z + 1 \in 1 .. Len(s) /\ ~(z + 1 <= z) /\ (z + 1) - z = 1
      BY <1>0, <1>2, <1>3, <2>3
    <3> QED
      BY <1>0, <1>4, <3>1
  <2> QED
    BY <2>1, <2>2, <2>3 DEF LeadBy
<1>6. LeadingZeros(s) = z
  BY <1>3, <1>5, LeadOnce
<1>7. SubSeq(s, z + 1, Len(s)) = r
  BY <1>0, <1>2, <1>3, <1>4
<1> QED
  BY <1>3, <1>4, <1>6, <1>7 DEF s, Padded

LEMMA LeadSplit ==
  ASSUME NEW X, NEW s \in Seq(X)
  PROVE  LET z == LeadingZeros(s)
             r == SubSeq(s, z + 1, Len(s))
         IN  /\ z \in Nat /\ z <= Len(s) /\ r \in Seq(X) /\ (r # <<>> => r[1] # 0)
             /\ s = Zeros(z) \o r
<1> DEFINE z == LeadingZeros(s)
           r == SubSeq(s, z + 1, Len(s))
           t == Zeros(z) \o r
<1>1. LeadBy(s, z)
  BY LeadingZerosOf
<1> HIDE DEF z
<1>2. Len(s) \in Nat /\ z \in Nat /\ z <= Len(s)
  BY <1>1 DEF LeadBy
<1>3. r \in Seq(X) /\ Len(r) = Len(s) - z /\ \A k \in 1 .. Len(s) - z : r[k] = s[z + k]
  BY <1>2
<1>4. Len(Zeros(z)) = z /\ Zeros(z) \in Seq({0}) /\ \A k \in 1 .. z : Zeros(z)[k] = 0
  BY <1>2 DEF Zeros
<1> HIDE DEF r
<1>5. r # <<>> => r[1] # 0
  <2>1. SUFFICES ASSUME r # <<>> PROVE r[1] # 0
    OBVIOUS
  <2>2. 1 \in 1 .. Len(s) - z /\ z < Len(s)
    BY <1>2, <1>3, <2>1
  <2> QED
    BY <1>1, <1>3, <2>2 DEF LeadBy
<1>6. t \in Seq(X \cup {0}) /\ Len(t) = Len(s)
  <2>1. r \in Seq(X \cup {0}) /\ Zeros(z) \in Seq(X \cup {0})
    BY <1>3, <1>4
  <2>2. t \in Seq(X \cup {0})
    BY ONLY <2>1
  <2>3. Len(t) = Len(Zeros(z)) + Len(r)
    BY ONLY <2>1
  <2> QED
    BY <1>2, <1>3, <1>4, <2>2, <2>3
<1>7. ASSUME NEW k \in 1 .. Len(s) PROVE t[k] = s[k]
  <2>1. CASE k <= z
    <3>1. k \in 1 .. z
      BY <2>1
    <3>2. t[k] = Zeros(z)[k]
      BY <1>2, <1>3, <1>4, <3>1
    <3> QED
      BY <1>1, <1>4, <3>1, <3>2 DEF LeadBy
  <2>2. CASE ~(k <= z)
    <3>1. PICK j : j = k - z
      OBVIOUS
    <3>2. j \in 1 .. Len(s) - z /\ z + j = k
      BY <1>2, <2>2, <3>1
    <3>3. t[k] = r[j]
      BY <1>2, <1>3, <1>4, <2>2, <3>1
    <3> QED
      BY <1>3, <3>2, <3>3
  <2> QED
    BY <2>1, <2>2
<1> HIDE DEF t
<1>8. t = s
  BY <1>6, <1>7
<1> QED
  BY <1>2, <1>3, <1>5, <1>8 DEF t, r, z

LEMMA Element ==
  ASSUME NEW X, NEW s \in Seq(X), NEW i \in 1 .. Len(s) PROVE s[i] \in X
OBVIOUS

LEMMA SeqIn ==
  ASSUME NEW X, NEW s \in Seq(X), NEW Y, \A i \in 1 .. Len(s) : s[i] \in Y
  PROVE  s \in Seq(Y)
<1>1. Len(s) \in Nat /\ s \in [1 .. Len(s) -> X]
  OBVIOUS
<1>2. s \in [1 .. Len(s) -> Y]
  BY <1>1
<1> QED
  BY <1>1, <1>2

LEMMA WithoutLast ==
  ASSUME NEW X, NEW s \in Seq(X), s # <<>>
  PROVE  LET r == SubSeq(s, 1, Len(s) - 1)
         IN  r \in Seq(X) /\ Len(r) = Len(s) - 1 /\ \A i \in 1 .. Len(s) - 1 : r[i] = s[i]
<1>1. PICK m : m = Len(s) - 1
  OBVIOUS
<1>2. m \in 0 .. Len(s) /\ Len(s) \in Nat
  BY <1>1
<1>3. SubSeq(s, 1, m) \in Seq(X) /\ Len(SubSeq(s, 1, m)) = m
  BY <1>2
<1>4. \A i \in 1 .. m : SubSeq(s, 1, m)[i] = s[i]
  BY <1>2
<1> QED
  BY <1>1, <1>3, <1>4

LEMMA ZerosValue ==
  ASSUME NEW base \in Nat, NEW z \in Nat, NEW r \in Seq(Nat), NEW s \in Seq(Nat), Padded(s, z, r)
  PROVE  Value(base, s) = Value(base, r)
<1>0. Len(s) = z + Len(r) /\ \A k \in 1 .. Len(s) : s[k] = IF k <= z THEN 0 ELSE r[k - z]
  BY DEF Padded
<1>1. PICK N : Counts(N, base, s) /\ Value(base, s) = N[Len(s)]
  BY ValueCounted
<1>2. PICK M : Counts(M, base, r) /\ Value(base, r) = M[Len(r)]
  BY ValueCounted
<1> DEFINE n == Len(r)
<1>3. n \in Nat
  OBVIOUS
<1> DEFINE T == {k \in 0 .. z : N[k] = 0}
<1>4. 0 \in T
  BY <1>1 DEF Counts
<1>5. ASSUME NEW k \in 1 .. z, k - 1 \in T PROVE k \in T
  <2>1. k \in 1 .. Len(s)
    BY <1>0, <1>3
  <2>2. s[k] = 0 /\ N[k] = N[k - 1] * base + s[k] /\ N[k - 1] = 0
    BY <1>0, <1>1, <1>5, <2>1 DEF Counts
  <2> QED
    BY <2>2
<1>6. 0 .. z \subseteq T
  <2> HIDE DEF T
  <2> QED
    BY <1>4, <1>5, Upward
<1>7. N[z] = 0
  BY <1>6
<1> DEFINE U == {j \in 0 .. n : N[z + j] = M[j]}
<1>8. 0 \in U
  BY <1>2, <1>3, <1>7 DEF Counts
<1>9. ASSUME NEW j \in 1 .. n, j - 1 \in U PROVE j \in U
  <2>1. PICK k : k = z + j
    OBVIOUS
  <2>2. k \in 1 .. Len(s) /\ k - 1 = z + (j - 1) /\ ~(k <= z) /\ k - z = j
    BY <1>0, <1>3, <2>1
  <2>3. N[k] = N[k - 1] * base + s[k]
    BY <1>1, <2>2 DEF Counts
  <2>4. M[j] = M[j - 1] * base + r[j]
    BY <1>2 DEF Counts
  <2>5. s[k] = r[j] /\ N[k - 1] = M[j - 1]
    BY <1>0, <1>9, <2>2
  <2>6. N[z + j] = M[j]
    BY <2>1, <2>3, <2>4, <2>5, Zenon
  <2> QED
    BY <2>6
<1>10. 0 .. n \subseteq U
  <2> HIDE DEF U
  <2> QED
    BY <1>3, <1>8, <1>9, Upward
<1>11. N[z + n] = M[n]
  <2>1. n \in 0 .. n
    BY <1>3
  <2> QED
    BY <1>10, <2>1
<1> QED
  BY <1>0, <1>1, <1>2, <1>11

\* A conversion keeps the number and the leading zeros, and the one back undoes it.
RoundTrip(s, from, to) ==
  LET t == Convert(<<>>, s, from, to)
  IN  /\ t \in Seq(0 .. to - 1) /\ Value(to, t) = Value(from, s)
      /\ LeadingZeros(t) = LeadingZeros(s) /\ Convert(<<>>, t, to, from) = s

LEMMA Converted ==
  ASSUME NEW from \in Nat, from >= 2, NEW to \in Nat, to >= 2, NEW s \in Seq(0 .. from - 1)
  PROVE  RoundTrip(s, from, to)
<1> DEFINE z == LeadingZeros(s)
           r == SubSeq(s, z + 1, Len(s))
           l == Limbs(<<>>, r, from, to)
           d == Reverse(l)
           t == Convert(<<>>, s, from, to)
           v == Value(from, r)
           e == Limbs(<<>>, d, to, from)
<1>1. z \in Nat /\ r \in Seq(0 .. from - 1) /\ (r # <<>> => r[1] # 0) /\ s = Zeros(z) \o r
  BY LeadSplit
<1>2. t = Zeros(z) \o d
  BY DEF Convert
<1> HIDE DEF z, r, t
<1>3. r \in Seq(Nat) /\ from \in Nat \ {0} /\ to \in Nat \ {0}
  BY <1>1
<1>4. Writes(l, to, v)
  BY <1>3, LimbsWrite
<1> HIDE DEF l, v
<1>5. /\ d \in Seq(0 .. to - 1) /\ (d # <<>> => d[1] # 0) /\ Value(to, d) = v
  BY <1>4, ReadsBack
<1> HIDE DEF d
<1>6. d \in Seq(Nat)
  BY <1>5
<1>7. Writes(e, from, v)
  BY <1>3, <1>5, <1>6, LimbsWrite
<1>8. Writes(Reverse(r), from, v)
  BY <1>1, ReverseWrites DEF v
<1>9. e = Reverse(r)
  <2> HIDE DEF e
  <2> QED
    BY <1>7, <1>8, OneNumeral
<1>10. Reverse(e) = r
  BY <1>1, <1>9, Reversed
<1>11. Leads(0 .. from - 1, z, r) /\ Leads(0 .. to - 1, z, d)
  <2>1. 0 \in 0 .. to - 1 /\ 0 \in 0 .. from - 1
    OBVIOUS
  <2> QED
    BY <1>1, <1>5, <2>1 DEF Leads
<1>12. /\ t \in Seq(0 .. to - 1) /\ Padded(t, z, d)
       /\ LeadingZeros(t) = z /\ SubSeq(t, z + 1, Len(t)) = d
  BY <1>2, <1>11, LeadAppended, ZenonT(30)
<1>13. Padded(s, z, r)
  BY <1>1, <1>11, LeadAppended, Zenon
<1>14. t \in Seq(Nat) /\ s \in Seq(Nat)
  BY <1>12
<1>15. Value(to, t) = Value(to, d)
  BY ONLY to \in Nat, <1>1, <1>6, <1>12, <1>14, ZerosValue
<1>16. Value(from, s) = Value(from, r)
  BY ONLY from \in Nat, <1>1, <1>3, <1>13, <1>14, ZerosValue, ZenonT(30)
<1>17. Convert(<<>>, t, to, from) = s
  BY <1>1, <1>10, <1>12, Zenon DEF Convert, e
<1> QED
  BY <1>5, <1>12, <1>15, <1>16, <1>17 DEF RoundTrip, t, z, v

-----------------------------------------------------------------------------
(* The signer's decoder. *)

LEMMA FirstDigit ==
  ASSUME NEW d \in 0 .. 57
  PROVE  /\ MulAdd(<<0>>, 58, 256, d) = <<d>>
         /\ d # 0 => MulAdd(<<>>, 58, 256, d) = <<d>>
<1>0. /\ 256 \in Nat /\ 256 >= 2 /\ d \in Nat
      /\ \A c \in Nat :
           Carry(256)[c] = IF c = 0 THEN <<>> ELSE <<c % 256>> \o Carry(256)[c \div 256]
  BY CarryUnfolds
<1>1. Carry(256)[0] = <<>>
  BY <1>0
<1>2. d % 256 = d /\ d \div 256 = 0
  OBVIOUS
<1>3. d # 0 => Carry(256)[d] = <<d>>
  <2>1. d # 0 => Carry(256)[d] = <<d % 256>> \o Carry(256)[d \div 256]
    BY <1>0, ZenonT(30)
  <2> QED
    BY <1>1, <1>2, <2>1
<1>4. MulAdd(<<>>, 58, 256, d) = Carry(256)[d]
  <2>1. <<>> \in Seq(Nat)
    OBVIOUS
  <2>0. Runs(<<>>, 58, 256, d)
    BY ONLY <2>1, MulAddRuns
  <2>2. PICK A : /\ Carries(A, d, <<>>, 58, 256)
                 /\ MulAdd(<<>>, 58, 256, d) = A[Len(<<>>)].out \o Carry(256)[A[Len(<<>>)].carry]
    BY <2>0 DEF Runs
  <2>3. A[0] = [carry |-> d, out |-> <<>>]
    BY <2>2 DEF Carries
  <2>4. A[0].carry = d /\ A[0].out = <<>> /\ Len(<<>>) = 0
    BY <2>3
  <2>5. MulAdd(<<>>, 58, 256, d) = <<>> \o Carry(256)[d]
    BY <2>2, <2>4
  <2>6. Carry(256)[d] \in Seq(0 .. 255)
    <3>1. Writes(Carry(256)[d], 256, d)
      BY <1>0, CarryWrites
    <3> QED
      BY <3>1 DEF Writes
  <2> QED
    BY <2>5, <2>6
<1>5. MulAdd(<<0>>, 58, 256, d) = <<d>>
  <2>1. <<0>> \in Seq(Nat)
    OBVIOUS
  <2>0. Runs(<<0>>, 58, 256, d)
    BY ONLY <2>1, MulAddRuns
  <2>2. PICK A : /\ Carries(A, d, <<0>>, 58, 256)
                 /\ MulAdd(<<0>>, 58, 256, d) = A[Len(<<0>>)].out \o Carry(256)[A[Len(<<0>>)].carry]
    BY <2>0 DEF Runs
  <2>3. Len(<<0>>) = 1 /\ <<0>>[1] = 0 /\ 1 \in 1 .. 1 /\ 1 - 1 = 0
    OBVIOUS
  <2>4. A[0] = [carry |-> d, out |-> <<>>] /\ A[1] = AddLimb(A[0], 0, 58, 256)
    BY <2>2, <2>3 DEF Carries
  <2>5. A[0].carry = d /\ A[0].out = <<>>
    BY <2>4
  <2>6. A[1] = [carry |-> (d + 0 * 58) \div 256, out |-> Append(<<>>, (d + 0 * 58) % 256)]
    BY <2>4, <2>5 DEF AddLimb
  <2>7. A[1].carry = 0 /\ A[1].out = <<d>>
    BY <1>2, <2>6
  <2>8. MulAdd(<<0>>, 58, 256, d) = <<d>> \o <<>>
    BY <1>1, <2>2, <2>3, <2>7
  <2> QED
    BY <2>8
<1> QED
  BY <1>3, <1>4, <1>5

\* The decoder that starts from a zero keeps it while it reads zeros.
LEMMA ZerosKeep ==
  ASSUME NEW s \in Seq(0 .. 57), NEW z \in 0 .. Len(s), \A i \in 1 .. z : s[i] = 0,
         NEW K, Builds(K, << 0 >>, s, 58, 256)
  PROVE  K[z] = << 0 >>
<1> DEFINE T == {k \in 0 .. z : K[k] = <<0>>}
<1>1. z \in Nat /\ Len(s) \in Nat /\ 0 \in T
  BY DEF Builds
<1>2. ASSUME NEW k \in 1 .. z, k - 1 \in T PROVE k \in T
  <2>0. k \in 1 .. Len(s) /\ s[k] = 0
    BY <1>1
  <2>a. K[k - 1] = <<0>>
    BY <1>2
  <2>1. k \in 1 .. Len(s) /\ s[k] = 0 /\ K[k - 1] = <<0>>
    BY <2>0, <2>a
  <2>2. K[k] = MulAdd(<<0>>, 58, 256, 0)
    <3>1. \A i \in 1 .. Len(s) : K[i] = MulAdd(K[i - 1], 58, 256, s[i])
      BY DEF Builds
    <3>2. K[k] = MulAdd(K[k - 1], 58, 256, s[k])
      BY <2>0, <3>1
    <3> QED
      BY <2>1, <3>2
  <2>3. 0 \in 0 .. 57
    OBVIOUS
  <2>4. K[k] = <<0>>
    BY <2>2, <2>3, FirstDigit
  <2> QED
    BY <2>4
<1>3. 0 .. z \subseteq T
  <2> HIDE DEF T
  <2> QED
    BY <1>1, <1>2, Upward
<1> QED
  BY <1>1, <1>3

LEMMA OneDecoder ==
  ASSUME NEW s \in Seq(0 .. 57), s # <<>>
  PROVE  Zeros(LeadingZeros(SubSeq(s, 1, Len(s) - 1))) \o Reverse(Limbs(<<0>>, s, 58, 256))
           = Convert(<<>>, s, 58, 256)
<1> DEFINE z == LeadingZeros(s)
           r == SubSeq(s, z + 1, Len(s))
           front == SubSeq(s, 1, Len(s) - 1)
           n == Len(s)
<1>1. z \in Nat /\ z <= n /\ r \in Seq(0 .. 57) /\ (r # <<>> => r[1] # 0) /\ s = Zeros(z) \o r
  BY LeadSplit
<1>2. Convert(<<>>, s, 58, 256) = Zeros(z) \o Reverse(Limbs(<<>>, r, 58, 256))
  BY DEF Convert
<1>3. LeadBy(s, z)
  BY LeadingZerosOf
<1> HIDE DEF z, r
<1>4. Leads(0 .. 57, z, r)
  <2>1. 0 \in 0 .. 57
    OBVIOUS
  <2> QED
    BY <1>1, <2>1 DEF Leads
<1>5. n = z + Len(r) /\ \A k \in 1 .. n : s[k] = IF k <= z THEN 0 ELSE r[k - z]
  <2>1. Padded(s, z, r)
    BY <1>1, <1>4, LeadAppended, Zenon
  <2> QED
    BY <2>1 DEF Padded
<1>6. n \in Nat /\ n >= 1 /\ Len(r) \in Nat
  BY <1>1
<1>7. front \in Seq(0 .. 57) /\ Len(front) = n - 1 /\ \A i \in 1 .. n - 1 : front[i] = s[i]
  BY <1>6, WithoutLast
<1> HIDE DEF front
<1>8. PICK K : Builds(K, <<0>>, s, 58, 256) /\ Limbs(<<0>>, s, 58, 256) = K[n]
  BY LimbsBuilt DEF Grows
<1>9. K[z] = <<0>>
  BY <1>1, <1>3, <1>8, ZerosKeep DEF LeadBy
<1>10. CASE r = <<>>
  <2>1. n = z /\ z - 1 \in Nat
    BY <1>1, <1>5, <1>6, <1>10
  <2>2. LeadBy(front, z - 1)
    BY <1>3, <1>7, <2>1 DEF LeadBy
  <2>3. LeadingZeros(front) = z - 1
    BY <1>7, <2>2, LeadOnce
  <2>4. Reverse(<<0>>) = <<0>>
    BY DEF Reverse
  <2>5. Limbs(<<>>, <<>>, 58, 256) = <<>>
    <3>1. PICK M : Builds(M, <<>>, <<>>, 58, 256) /\ Limbs(<<>>, <<>>, 58, 256) = M[Len(<<>>)]
      <4>1. <<>> \in Seq(Nat)
        OBVIOUS
      <4>2. Grows(<<>>, <<>>, 58, 256)
        BY ONLY <4>1, LimbsBuilt
      <4> QED
        BY <4>2 DEF Grows
    <3> QED
      BY <3>1 DEF Builds
  <2>6. Reverse(<<>>) = <<>>
    BY DEF Reverse
  <2>7. Zeros(z - 1) \o <<0>> = Zeros(z) \o <<>>
    <3>1. Zeros(z) \in Seq({0}) /\ Len(Zeros(z)) = z /\ Zeros(z) \o <<>> = Zeros(z)
      BY <1>1 DEF Zeros
    <3>2. PICK y : y = z - 1
      OBVIOUS
    <3>3. y \in Nat /\ z = y + 1
      BY <1>1, <2>1, <3>2
    <3>4. Zeros(y) \o <<0>> = Zeros(y + 1)
      BY ONLY <3>3 DEF Zeros
    <3> QED
      BY <3>1, <3>2, <3>3, <3>4
  <2> QED
    BY <1>2, <1>8, <1>9, <1>10, <2>1, <2>3, <2>4, <2>5, <2>6, <2>7, ZenonT(30) DEF front
<1>11. CASE r # <<>>
  <2>1. z < n /\ Len(r) >= 1
    BY <1>1, <1>5, <1>6, <1>11
  <2>2. LeadBy(front, z)
    <3>1. z \in 0 .. Len(front) /\ \A i \in 1 .. z : front[i] = 0
      <4>1. z \in 0 .. Len(front) /\ \A i \in 1 .. z : i \in 1 .. n - 1
        BY <1>1, <1>6, <1>7, <2>1
      <4> QED
        BY <1>3, <1>7, <4>1, Zenon DEF LeadBy
    <3>2. ASSUME z < Len(front) PROVE front[z + 1] # 0
      <4>1. z + 1 \in 1 .. n - 1
        BY <1>1, <1>6, <1>7, <3>2
      <4> QED
        BY <1>3, <1>7, <2>1, <4>1 DEF LeadBy
    <3> QED
      BY <3>1, <3>2 DEF LeadBy
  <2>3. LeadingZeros(front) = z
    BY <1>7, <2>2, LeadOnce
  <2>4. PICK M : Builds(M, <<>>, r, 58, 256) /\ Limbs(<<>>, r, 58, 256) = M[Len(r)]
    BY <1>1, LimbsBuilt DEF Grows
  <2> DEFINE T == {j \in 0 .. Len(r) : j = 0 \/ K[z + j] = M[j]}
  <2>5. 0 \in T
    BY <1>6
  <2>6. ASSUME NEW j \in 1 .. Len(r), j - 1 \in T PROVE j \in T
    <3>1. PICK k : k = z + j
      OBVIOUS
    <3>2. k \in 1 .. n /\ k - 1 = z + (j - 1) /\ ~(k <= z) /\ k - z = j
      BY <1>1, <1>5, <1>6, <3>1
    <3>3. s[k] = r[j]
      BY <1>5, <3>2
    <3>4. K[k] = MulAdd(K[k - 1], 58, 256, r[j])
      BY <1>8, <3>2, <3>3, ZenonT(30) DEF Builds
    <3>5. M[j] = MulAdd(M[j - 1], 58, 256, r[j])
      BY <2>4, Zenon DEF Builds
    <3>6. CASE j = 1
      <4>1. k - 1 = z /\ j - 1 = 0
        BY <1>1, <3>2, <3>6
      <4>2. K[k - 1] = <<0>> /\ M[j - 1] = <<>>
        BY <1>9, <2>4, <4>1 DEF Builds
      <4>3. PICK d : d = r[j]
        OBVIOUS
      <4>4. d \in 0 .. 57 /\ d # 0
        <5>1. j \in 1 .. Len(r)
          OBVIOUS
        <5>2. r[j] \in 0 .. 57
          BY <1>1, <5>1, Element
        <5> QED
          BY <1>1, <1>11, <3>6, <4>3, <5>2
      <4>5. K[k] = MulAdd(<<0>>, 58, 256, d) /\ M[j] = MulAdd(<<>>, 58, 256, d)
        BY <3>4, <3>5, <4>2, <4>3
      <4>6. K[k] = M[j]
        BY <4>4, <4>5, FirstDigit, ZenonT(30)
      <4> QED
        BY <3>1, <4>6
    <3>7. CASE j # 1
      <4>1. K[z + (j - 1)] = M[j - 1]
        BY <2>6, <3>7
      <4>2. K[k] = M[j]
        BY <3>2, <3>4, <3>5, <4>1, ZenonT(30)
      <4> QED
        BY <3>1, <4>2
    <3> QED
      BY <3>6, <3>7
  <2>7. 0 .. Len(r) \subseteq T
    <3> HIDE DEF T
    <3> QED
      BY <1>6, <2>5, <2>6, Upward
  <2>8. K[n] = M[Len(r)]
    BY <1>5, <1>6, <2>1, <2>7
  <2> QED
    BY <1>2, <1>8, <2>3, <2>4, <2>8, Zenon DEF front
<1> QED
  BY <1>10, <1>11

-----------------------------------------------------------------------------
(* The conversions agree in every state. *)

Texts == bytes \in Seq(0 .. 255) /\ text \in Seq(-1 .. 57)

LEMMA InToSet ==
  ASSUME NEW s \in Seq(-1 .. 57) PROVE -1 \notin ToSet(s) => s \in Seq(0 .. 57)
<1>1. SUFFICES ASSUME -1 \notin ToSet(s) PROVE s \in Seq(0 .. 57)
  OBVIOUS
<1>2. ASSUME NEW i \in 1 .. Len(s) PROVE s[i] \in 0 .. 57
  <2>1. s[i] \in -1 .. 57
    BY Element
  <2>2. s[i] # -1
    BY <1>1 DEF ToSet
  <2> QED
    BY <2>1, <2>2
<1> QED
  BY <1>2, SeqIn

LEMMA NotInToSet ==
  ASSUME NEW s \in Seq(0 .. 57) PROVE -1 \notin ToSet(s)
<1>1. SUFFICES ASSUME -1 \in ToSet(s) PROVE FALSE
  OBVIOUS
<1>2. PICK i \in 1 .. Len(s) : s[i] = -1
  BY <1>1 DEF ToSet
<1>3. s[i] \in 0 .. 57
  BY Element
<1> QED
  BY <1>2, <1>3

LEMMA Encodes ==
  ASSUME NEW key \in Seq(0 .. 255)
  PROVE  /\ b58encode(key) \in Seq(0 .. 57) /\ b58decode(b58encode(key)) = key
         /\ SameNumber(key, b58encode(key))
<1> DEFINE t == b58encode(key)
<1>1. t = Convert(<<>>, key, 256, 58)
  BY DEF b58encode
<1>2. key \in Seq(0 .. 256 - 1) /\ 256 \in Nat /\ 256 >= 2 /\ 58 \in Nat /\ 58 >= 2
  OBVIOUS
<1>3. /\ t \in Seq(0 .. 58 - 1) /\ Value(58, t) = Value(256, key)
      /\ LeadingZeros(t) = LeadingZeros(key) /\ Convert(<<>>, t, 58, 256) = key
  <2>1. RoundTrip(key, 256, 58)
    BY ONLY <1>2, Converted
  <2> QED
    BY <1>1, <2>1 DEF RoundTrip
<1> HIDE DEF t
<1>4. t \in Seq(0 .. 57)
  BY <1>3
<1>5. -1 \notin ToSet(t)
  BY <1>4, NotInToSet
<1> QED
  BY <1>3, <1>4, <1>5 DEF b58decode, DecodeFrom, SameNumber, t

LEMMA Decodes ==
  ASSUME NEW str \in Seq(0 .. 57)
  PROVE  b58encode(b58decode(str)) = str /\ SameNumber(b58decode(str), str)
<1> DEFINE k == b58decode(str)
<1>1. k = Convert(<<>>, str, 58, 256)
  BY NotInToSet DEF b58decode, DecodeFrom
<1>2. str \in Seq(0 .. 58 - 1) /\ 256 \in Nat /\ 256 >= 2 /\ 58 \in Nat /\ 58 >= 2
  OBVIOUS
<1>3. /\ Value(256, k) = Value(58, str)
      /\ LeadingZeros(k) = LeadingZeros(str) /\ Convert(<<>>, k, 256, 58) = str
  <2>1. RoundTrip(str, 58, 256)
    BY ONLY <1>2, Converted
  <2> QED
    BY <1>1, <2>1 DEF RoundTrip
<1> HIDE DEF k
<1> QED
  BY <1>3 DEF b58encode, SameNumber, k

LEMMA TextsType == AddressSpec => []Texts
<1>1. AddressInit => Texts
  BY DEF AddressInit, Texts
<1>2. ASSUME Texts, [AddressNext]_addressVars PROVE Texts'
  <2>1. CASE ReadByte
    BY <1>2, <2>1, DigitsAssumption DEF ReadByte, Texts
  <2>2. CASE ReadChar
    BY <1>2, <2>2, DigitsAssumption DEF ReadChar, Texts
  <2>3. CASE UNCHANGED <<bytes, text>>
    BY <1>2, <2>3 DEF Texts
  <2> QED
    BY <1>2, <2>1, <2>2, <2>3 DEF AddressNext, TryBump, GiveUp, addressVars
<1> QED
  BY <1>1, <1>2, PTL DEF AddressSpec

\* A byte string and its base58 text are the same number with the same leading zeros, each
\* conversion undoes the other, and the signer's reader agrees with the library on every string
\* that is not empty (solana.mjs:16-58, keys.mjs:47-66).
THEOREM Conversions == AddressSpec => []ConversionsAgree
<1>1. Texts => ConversionsAgree
  <2>1. SUFFICES ASSUME Texts PROVE ConversionsAgree
    OBVIOUS
  <2>2. bytes \in Seq(0 .. 255) /\ text \in Seq(-1 .. 57)
    BY <2>1 DEF Texts
  <2>3. b58decode(b58encode(bytes)) = bytes /\ SameNumber(bytes, b58encode(bytes))
    BY <2>2, Encodes
  <2>4. ASSUME text # <<>> PROVE decodeBase58(text) = b58decode(text)
    <3>1. CASE -1 \in ToSet(text)
      BY <3>1 DEF decodeBase58, b58decode, DecodeFrom
    <3>2. CASE -1 \notin ToSet(text)
      <4>1. text \in Seq(0 .. 57)
        BY <2>2, <3>2, InToSet
      <4> QED
        BY <2>4, <3>2, <4>1, OneDecoder DEF decodeBase58, b58decode, DecodeFrom
    <3> QED
      BY <3>1, <3>2
  <2>5. ASSUME -1 \notin ToSet(text)
        PROVE  b58encode(b58decode(text)) = text /\ SameNumber(b58decode(text), text)
    <3>1. text \in Seq(0 .. 57)
      BY <2>2, <2>5, InToSet
    <3> QED
      BY <3>1, Decodes
  <2> QED
    BY <2>3, <2>4, <2>5 DEF ConversionsAgree
<1> QED
  BY <1>1, TextsType, PTL

-----------------------------------------------------------------------------
(* Arithmetic modulo p. *)

\* What is left after a multiple of p is taken away.
LEMMA Residue ==
  ASSUME NEW p \in Nat \ {0}, NEW k \in Int, NEW r \in 0 .. p - 1
  PROVE  (p * k + r) % p = r
<1>1. PICK a : a = p * k + r
  OBVIOUS
<1>2. PICK x, q : x = a % p /\ q = a \div p
  OBVIOUS
<1>3. a \in Int
  BY <1>1
<1>4. x \in 0 .. p - 1 /\ q \in Int /\ a = p * q + x
  BY <1>2, <1>3, Divide
<1>5. p * (q - k) = r - x
  BY <1>1, <1>4
<1>6. q - k >= 1 => p * (q - k) >= p
  BY <1>4
<1>7. q - k <= -1 => p * (q - k) <= -p
  BY <1>4
<1>8. q = k
  BY <1>4, <1>5, <1>6, <1>7
<1> QED
  BY <1>1, <1>2, <1>4, <1>8

LEMMA Shift ==
  ASSUME NEW p \in Nat \ {0}, NEW a \in Int, NEW k \in Int
  PROVE  (a + p * k) % p = a % p
<1>1. PICK x, q : x = a % p /\ q = a \div p
  OBVIOUS
<1>2. x \in 0 .. p - 1 /\ q \in Int /\ a = p * q + x
  BY <1>1, Divide
<1>3. a + p * k = p * (q + k) + x
  BY <1>2
<1>4. PICK j : j = q + k
  OBVIOUS
<1>5. j \in Int /\ a + p * k = p * j + x
  BY <1>2, <1>3, <1>4
<1>6. (p * j + x) % p = x
  BY <1>2, <1>5, Residue
<1> QED
  BY <1>1, <1>5, <1>6

\* Equal residues: the difference is a multiple of p.
Same(p, a, b) == \E k \in Int : a = b + p * k

LEMMA SameResidue ==
  ASSUME NEW p \in Nat \ {0}, NEW a \in Int, NEW b \in Int
  PROVE  a % p = b % p <=> Same(p, a, b)
<1>1. ASSUME Same(p, a, b) PROVE a % p = b % p
  <2>1. PICK k \in Int : a = b + p * k
    BY <1>1 DEF Same
  <2>2. (b + p * k) % p = b % p
    BY Shift
  <2> QED
    BY <2>1, <2>2
<1>2. ASSUME a % p = b % p PROVE Same(p, a, b)
  <2>1. PICK x, y, k, l : x = a % p /\ k = a \div p /\ y = b % p /\ l = b \div p
    OBVIOUS
  <2>2. k \in Int /\ x \in Int /\ a = p * k + x
    BY <2>1, Divide
  <2>3. l \in Int /\ y \in Int /\ b = p * l + y
    BY <2>1, Divide
  <2>4. a = b + p * (k - l)
    BY <1>2, <2>1, <2>2, <2>3
  <2>5. k - l \in Int
    BY <2>2, <2>3
  <2> QED
    BY <2>4, <2>5 DEF Same
<1> QED
  BY <1>1, <1>2

LEMMA SameTimes ==
  ASSUME NEW p \in Nat \ {0}, NEW a \in Int, NEW b \in Int, NEW c \in Int, Same(p, a, b)
  PROVE  Same(p, a * c, b * c) /\ Same(p, c * a, c * b)
<1>1. PICK k \in Int : a = b + p * k
  BY DEF Same
<1>2. a * c = b * c + p * (k * c)
  BY <1>1
<1>3. c * a = c * b + p * (k * c)
  BY <1>1
<1>4. k * c \in Int
  OBVIOUS
<1> QED
  BY <1>2, <1>3, <1>4 DEF Same

LEMMA SamePlus ==
  ASSUME NEW p \in Nat \ {0}, NEW a \in Int, NEW b \in Int, NEW c \in Int, NEW d \in Int,
         Same(p, a, b), Same(p, c, d)
  PROVE  Same(p, a + c, b + d) /\ Same(p, a - c, b - d)
<1>1. PICK k \in Int : a = b + p * k
  BY DEF Same
<1>2. PICK l \in Int : c = d + p * l
  BY DEF Same
<1>3. a + c = (b + d) + p * (k + l)
  BY <1>1, <1>2
<1>4. a - c = (b - d) + p * (k - l)
  BY <1>1, <1>2
<1>5. k + l \in Int /\ k - l \in Int
  OBVIOUS
<1> QED
  BY <1>3, <1>4, <1>5 DEF Same

LEMMA SameMod ==
  ASSUME NEW p \in Nat \ {0}, NEW a \in Int
  PROVE  a % p \in 0 .. p - 1 /\ Same(p, a % p, a) /\ Same(p, a, a % p)
<1>1. PICK x, k : x = a % p /\ k = a \div p
  OBVIOUS
<1>2. k \in Int /\ x \in 0 .. p - 1 /\ a = p * k + x
  BY <1>1, Divide
<1>3. a = x + p * k /\ x = a + p * (-k) /\ -k \in Int
  BY <1>2
<1> QED
  BY <1>1, <1>2, <1>3 DEF Same

LEMMA SameTrans ==
  ASSUME NEW p \in Nat \ {0}, NEW a \in Int, NEW b \in Int, NEW c \in Int,
         Same(p, a, b), Same(p, b, c)
  PROVE  Same(p, a, c)
<1>1. a % p = b % p /\ b % p = c % p
  BY SameResidue
<1> QED
  BY <1>1, SameResidue

Mul(p, a, b) == (a * b) % p

Ring(p) ==
  /\ 0 \in 0 .. p - 1 /\ 1 \in 0 .. p - 1 /\ p - 1 \in 0 .. p - 1
  /\ \A a, b \in 0 .. p - 1 : Mul(p, a, b) \in 0 .. p - 1 /\ Mul(p, a, b) = Mul(p, b, a)
  /\ \A a, b, c \in 0 .. p - 1 : Mul(p, Mul(p, a, b), c) = Mul(p, a, Mul(p, b, c))
  /\ \A a \in 0 .. p - 1 : Mul(p, a, 1) = a /\ Mul(p, 1, a) = a /\ Mul(p, a, 0) = 0 /\ Mul(p, 0, a) = 0

\* A factor may be reduced first.
LEMMA Reduced ==
  ASSUME NEW p \in Nat \ {0}, NEW a \in Int, NEW b \in Int
  PROVE  Mul(p, a % p, b) = Mul(p, a, b) /\ Mul(p, a, b % p) = Mul(p, a, b)
<1>1. PICK x, y : x = a % p /\ y = b % p
  OBVIOUS
<1>2. x \in Int /\ y \in Int /\ Same(p, x, a) /\ Same(p, y, b)
  BY <1>1, SameMod
<1>3. Same(p, x * b, a * b) /\ Same(p, a * y, a * b)
  BY <1>2, SameTimes
<1>4. x * b \in Int /\ a * b \in Int /\ a * y \in Int
  BY <1>2
<1>5. (x * b) % p = (a * b) % p /\ (a * y) % p = (a * b) % p
  BY <1>3, <1>4, SameResidue
<1> QED
  BY <1>1, <1>5 DEF Mul

LEMMA RingOf ==
  ASSUME NEW p \in Nat, p >= 2 PROVE Ring(p)
<1>1. ASSUME NEW a \in 0 .. p - 1 PROVE a % p = a
  OBVIOUS
<1>2. ASSUME NEW a \in 0 .. p - 1, NEW b \in 0 .. p - 1
      PROVE  Mul(p, a, b) \in 0 .. p - 1 /\ Mul(p, a, b) = Mul(p, b, a)
  <2>1. a * b = b * a /\ a * b \in Int
    OBVIOUS
  <2> QED
    BY <2>1, SameMod DEF Mul
<1>3. ASSUME NEW a \in 0 .. p - 1, NEW b \in 0 .. p - 1, NEW c \in 0 .. p - 1
      PROVE  Mul(p, Mul(p, a, b), c) = Mul(p, a, Mul(p, b, c))
  <2>1. PICK x, y : x = a * b /\ y = b * c
    OBVIOUS
  <2>2. x \in Int /\ y \in Int /\ a \in Int /\ c \in Int
    BY <2>1
  <2>3. x * c = a * y
    BY <2>1
  <2>4. Mul(p, x % p, c) = Mul(p, x, c) /\ Mul(p, a, y % p) = Mul(p, a, y)
    <3>1. p \in Nat \ {0}
      OBVIOUS
    <3> QED
      BY ONLY <2>2, <3>1, Reduced
  <2> QED
    BY <2>1, <2>3, <2>4 DEF Mul
<1>4. ASSUME NEW a \in 0 .. p - 1
      PROVE  Mul(p, a, 1) = a /\ Mul(p, 1, a) = a /\ Mul(p, a, 0) = 0 /\ Mul(p, 0, a) = 0
  <2>1. a * 1 = a /\ 1 * a = a /\ a * 0 = 0 /\ 0 * a = 0 /\ 0 \in 0 .. p - 1
    OBVIOUS
  <2> QED
    BY <1>1, <2>1 DEF Mul
<1>5. 0 \in 0 .. p - 1 /\ 1 \in 0 .. p - 1 /\ p - 1 \in 0 .. p - 1
  OBVIOUS
<1> QED
  BY <1>2, <1>3, <1>4, <1>5 DEF Ring

Prime(p) == p \in Nat /\ p >= 2 /\ \A n \in 2 .. p - 1 : p % n # 0

\* A prime that divides a product divides a factor.
LEMMA Euclid ==
  ASSUME NEW p, Prime(p), NEW a \in 1 .. p - 1, NEW b \in Int, (a * b) % p = 0
  PROVE  b % p = 0
<1>0. p \in Nat \ {0} /\ p >= 2 /\ \A n \in 2 .. p - 1 : p % n # 0
  BY DEF Prime
<1> DEFINE T == {k \in 1 .. p - 1 : (k * b) % p = 0}
<1>1. T \in SUBSET Nat /\ T # {}
  OBVIOUS
<1>2. PICK k \in T : \A m \in T : k <= m
  <2> HIDE DEF T
  <2> QED
    BY <1>1, Sums!Least
<1>3. k \in 1 .. p - 1 /\ (k * b) % p = 0
  BY <1>2
<1>4. PICK q, r : q = p \div k /\ r = p % k
  OBVIOUS
<1>5. q \in Int /\ r \in 0 .. k - 1 /\ p = k * q + r
  <2>1. k \in Nat \ {0} /\ p \in Int
    BY <1>0, <1>3
  <2> QED
    BY <1>4, <2>1, Divide
<1>6. (r * b) % p = 0
  <2>1. PICK j : j = (k * b) \div p
    OBVIOUS
  <2>2. k * b \in Int
    BY <1>3
  <2>3. j \in Int /\ k * b = p * j
    <3>1. PICK y : y = k * b
      OBVIOUS
    <3>2. y \in Int /\ y % p = 0 /\ j = y \div p
      BY <1>3, <2>1, <2>2, <3>1
    <3>3. j \in Int /\ y = p * j + (y % p)
      BY <1>0, <3>2, Divide
    <3> QED
      BY <1>0, <3>1, <3>2, <3>3
  <2>4. r * b = p * (b - q * j)
    <3>1. r = p - k * q
      BY <1>0, <1>3, <1>5
    <3>2. r * b = p * b - (k * b) * q
      BY <1>0, <1>3, <1>5, <3>1
    <3> QED
      BY <1>0, <1>5, <2>3, <3>2
  <2>5. PICK i : i = b - q * j
    OBVIOUS
  <2>6. i \in Int /\ r * b = p * i + 0 /\ 0 \in 0 .. p - 1
    BY <1>0, <1>5, <2>3, <2>4, <2>5
  <2>7. (p * i + 0) % p = 0
    BY <1>0, <2>6, Residue
  <2> QED
    BY <2>6, <2>7
<1>7. r = 0
  <2>1. SUFFICES ASSUME r # 0 PROVE FALSE
    OBVIOUS
  <2>2. r \in 1 .. p - 1 /\ ~(k <= r)
    BY <1>0, <1>3, <1>5, <2>1
  <2>3. r \in T
    BY <1>6, <2>2
  <2> QED
    BY <1>2, <2>2, <2>3
<1>8. k = 1
  <2>1. k \notin 2 .. p - 1
    BY <1>0, <1>4, <1>7
  <2> QED
    BY <1>0, <1>3, <2>1
<1> QED
  BY <1>3, <1>8

LEMMA Cancel ==
  ASSUME NEW p, Prime(p), NEW a \in 1 .. p - 1, NEW b \in 0 .. p - 1, NEW c \in 0 .. p - 1,
         Mul(p, a, b) = Mul(p, a, c)
  PROVE  b = c
<1>0. p \in Nat \ {0} /\ p >= 2
  BY DEF Prime
<1>1. a \in Int /\ b \in Int /\ c \in Int
  BY <1>0
<1>2. a * b \in Int /\ a * c \in Int
  BY <1>1
<1>3. Same(p, a * b, a * c)
  <2>1. PICK x, y : x = a * b /\ y = a * c
    OBVIOUS
  <2>2. x \in Int /\ y \in Int /\ x % p = y % p
    BY <1>2, <2>1 DEF Mul
  <2>3. Same(p, x, y)
    BY <1>0, <2>2, SameResidue
  <2> QED
    BY <2>1, <2>3
<1>4. PICK k \in Int : a * b = a * c + p * k
  BY <1>3 DEF Same
<1>5. a * (b - c) = p * k + 0
  <2>1. a * (b - c) = a * b - a * c
    BY <1>1
  <2>2. PICK x, y, z : x = a * b /\ y = a * c /\ z = p * k
    OBVIOUS
  <2>3. x \in Int /\ y \in Int /\ z \in Int /\ x = y + z
    BY <1>0, <1>2, <1>4, <2>2
  <2>4. x - y = z + 0
    BY ONLY <2>3
  <2> QED
    BY <2>1, <2>2, <2>4
<1>6. (a * (b - c)) % p = 0
  <2>1. 0 \in 0 .. p - 1
    BY <1>0
  <2>2. (p * k + 0) % p = 0
    BY <1>0, <2>1, Residue
  <2> QED
    BY <1>5, <2>2
<1>7. b - c \in Int
  BY <1>1
<1>8. (b - c) % p = 0
  BY <1>6, <1>7, Euclid
<1>9. PICK j : j = (b - c) \div p
  OBVIOUS
<1>10. j \in Int /\ b - c = p * j
  BY <1>0, <1>7, <1>8, <1>9, Divide
<1>11. j >= 1 => p * j >= p
  BY <1>0, <1>10
<1>12. j <= -1 => p * j <= -p
  BY <1>0, <1>10
<1>13. j = 0
  BY <1>0, <1>10, <1>11, <1>12
<1> QED
  BY <1>0, <1>1, <1>10, <1>13

LEMMA NonZero ==
  ASSUME NEW p, Prime(p), NEW a \in 1 .. p - 1, NEW b \in 1 .. p - 1
  PROVE  Mul(p, a, b) \in 1 .. p - 1
<1>0. p \in Nat /\ p >= 2 /\ Ring(p)
  BY RingOf DEF Prime
<1>1. a \in 0 .. p - 1 /\ b \in 0 .. p - 1 /\ 0 \in 0 .. p - 1
  BY <1>0
<1>2. Mul(p, a, b) \in 0 .. p - 1 /\ Mul(p, a, 0) = 0
  BY <1>0, <1>1 DEF Ring
<1>3. Mul(p, a, b) # 0
  <2>1. SUFFICES ASSUME Mul(p, a, b) = 0 PROVE FALSE
    OBVIOUS
  <2>2. b = 0
    BY <1>1, <1>2, <2>1, Cancel
  <2> QED
    BY <2>2
<1> QED
  BY <1>0, <1>2, <1>3

LEMMA Swap ==
  ASSUME NEW p, Ring(p), NEW a \in 0 .. p - 1, NEW b \in 0 .. p - 1, NEW c \in 0 .. p - 1,
         NEW d \in 0 .. p - 1
  PROVE  Mul(p, Mul(p, a, b), Mul(p, c, d)) = Mul(p, Mul(p, a, c), Mul(p, b, d))
<1> DEFINE m(x, y) == Mul(p, x, y)
<1>1. \A x, y \in 0 .. p - 1 : m(x, y) \in 0 .. p - 1 /\ m(x, y) = m(y, x)
  BY DEF Ring
<1>2. \A x, y, z \in 0 .. p - 1 : m(m(x, y), z) = m(x, m(y, z))
  BY DEF Ring
<1> HIDE DEF m
<1>3. m(m(a, b), m(c, d)) = m(a, m(b, m(c, d)))
  BY <1>1, <1>2
<1>4. m(b, m(c, d)) = m(c, m(b, d))
  <2>1. m(b, m(c, d)) = m(m(b, c), d)
    BY <1>2
  <2>2. m(m(b, c), d) = m(m(c, b), d)
    BY <1>1
  <2>3. m(m(c, b), d) = m(c, m(b, d))
    BY <1>2
  <2> QED
    BY <2>1, <2>2, <2>3
<1>5. m(m(a, c), m(b, d)) = m(a, m(c, m(b, d)))
  BY <1>1, <1>2
<1> QED
  BY <1>3, <1>4, <1>5 DEF m

-----------------------------------------------------------------------------
(* Products modulo p: f[n] is g[1] * ... * g[n]. *)

Products(f, p, g) ==
  /\ f \in [Nat -> 0 .. p - 1] /\ f[0] = 1
  /\ \A n \in Nat : f[n + 1] = Mul(p, f[n], g[n + 1])

LEMMA ProductsExist ==
  ASSUME NEW p \in Nat, p >= 2, NEW g \in [Nat -> 0 .. p - 1]
  PROVE  \E f : Products(f, p, g)
<1> DEFINE R == 0 .. p - 1
           rank == [n \in Nat |-> n]
           next == [n \in Nat |-> IF n = 0 THEN 0 ELSE n - 1]
           one == [n \in Nat |-> 1]
           comb == [n \in Nat |-> [r \in R |-> Mul(p, r, g[n])]]
<1>0. Ring(p)
  BY RingOf
<1>1. /\ rank \in [Nat -> Nat] /\ next \in [Nat -> Nat] /\ one \in [Nat -> R]
      /\ comb \in [Nat -> [R -> R]]
  <2>1. 1 \in R /\ \A n \in Nat : n # 0 => n - 1 \in Nat
    OBVIOUS
  <2>2. \A n \in Nat : \A r \in R : Mul(p, r, g[n]) \in R
    BY <1>0 DEF Ring
  <2> HIDE DEF R
  <2> QED
    BY <2>1, <2>2
<1>2. \A n \in Nat \ {0} : rank[next[n]] < rank[n]
  OBVIOUS
<1>3. \E f \in [Nat -> R] : \A n \in Nat : f[n] = Asks(f, n, {0}, next, one, comb)
  <2> HIDE DEF rank, next, one, comb, R
  <2>1. Descends(Nat, R, rank, {0}, next, one, comb)
    BY <1>1, <1>2 DEF Descends
  <2>2. Solves(Nat, R, {0}, next, one, comb)
    BY ONLY <2>1, Recursion
  <2> QED
    BY <2>2 DEF Solves
<1>4. PICK f \in [Nat -> R] : \A n \in Nat : f[n] = Asks(f, n, {0}, next, one, comb)
  BY <1>3
<1>5. f[0] = 1
  BY <1>4 DEF Asks
<1>6. ASSUME NEW n \in Nat PROVE f[n + 1] = Mul(p, f[n], g[n + 1])
  <2>1. n + 1 \in Nat /\ n + 1 # 0 /\ (n + 1) - 1 = n
    OBVIOUS
  <2>2. PICK k : k = n + 1
    OBVIOUS
  <2>3. k \in Nat /\ k # 0 /\ k - 1 = n
    BY <2>1, <2>2
  <2>4. f[k] = comb[k][f[next[k]]]
    BY <1>4, <2>3, Zenon DEF Asks
  <2>5. next[k] = n
    BY <2>3
  <2>6. f[n] \in R
    BY <1>4
  <2>7. comb[k][f[n]] = Mul(p, f[n], g[k])
    BY <2>3, <2>6
  <2> QED
    BY <2>2, <2>4, <2>5, <2>7, Zenon
<1> QED
  BY <1>4, <1>5, <1>6 DEF Products

Prod(p, g) == CHOOSE f : Products(f, p, g)

LEMMA ProdRules ==
  ASSUME NEW p \in Nat, p >= 2, NEW g \in [Nat -> 0 .. p - 1]
  PROVE  Products(Prod(p, g), p, g)
BY ProductsExist, Zenon DEF Prod

\* The product of the products, factor by factor.
LEMMA ProdTimes ==
  ASSUME NEW p \in Nat, p >= 2, NEW f, NEW g, NEW h, NEW fs, NEW gs, NEW hs,
         Products(fs, p, f), Products(gs, p, g), Products(hs, p, h),
         f \in [Nat -> 0 .. p - 1], g \in [Nat -> 0 .. p - 1],
         \A n \in Nat : h[n] = Mul(p, f[n], g[n])
  PROVE  \A n \in Nat : hs[n] = Mul(p, fs[n], gs[n])
<1> DEFINE T == {n \in Nat : hs[n] = Mul(p, fs[n], gs[n])}
<1>0. Ring(p)
  BY RingOf
<1>1. 0 \in T
  <2>1. hs[0] = 1 /\ fs[0] = 1 /\ gs[0] = 1
    BY DEF Products
  <2>2. Mul(p, 1, 1) = 1
    BY <1>0 DEF Ring
  <2> QED
    BY <2>1, <2>2
<1>2. ASSUME NEW n \in Nat, n \in T PROVE n + 1 \in T
  <2>1. PICK k : k = n + 1
    OBVIOUS
  <2>2. k \in Nat
    BY <2>1
  <2>3. /\ hs[k] = Mul(p, hs[n], h[k]) /\ fs[k] = Mul(p, fs[n], f[k])
        /\ gs[k] = Mul(p, gs[n], g[k])
    BY <2>1 DEF Products
  <2>4. /\ fs[n] \in 0 .. p - 1 /\ gs[n] \in 0 .. p - 1 /\ f[k] \in 0 .. p - 1 /\ g[k] \in 0 .. p - 1
    BY <2>2 DEF Products
  <2>5. hs[n] = Mul(p, fs[n], gs[n]) /\ h[k] = Mul(p, f[k], g[k])
    BY <1>2, <2>2
  <2>6. Mul(p, Mul(p, fs[n], gs[n]), Mul(p, f[k], g[k]))
          = Mul(p, Mul(p, fs[n], f[k]), Mul(p, gs[n], g[k]))
    BY <1>0, <2>4, Swap, ZenonT(30)
  <2>7. hs[k] = Mul(p, fs[k], gs[k])
    BY <2>3, <2>5, <2>6, Zenon
  <2> QED
    BY <2>1, <2>2, <2>7
<1>3. Nat \subseteq T
  <2> HIDE DEF T
  <2> QED
    BY <1>1, <1>2, Sums!Induction
<1> QED
  BY <1>3

\* No factor zero: not zero.
LEMMA ProdNonZero ==
  ASSUME NEW p, Prime(p), NEW g, NEW f, Products(f, p, g), NEW n \in Nat,
         \A k \in 1 .. n : g[k] \in 1 .. p - 1
  PROVE  f[n] \in 1 .. p - 1
<1> DEFINE T == {k \in 0 .. n : f[k] \in 1 .. p - 1}
<1>0. p \in Nat /\ p >= 2
  BY DEF Prime
<1>1. 0 \in T
  <2>1. f[0] = 1
    BY DEF Products
  <2> QED
    BY <1>0, <2>1
<1>2. ASSUME NEW k \in 1 .. n, k - 1 \in T PROVE k \in T
  <2>1. PICK j : j = k - 1
    OBVIOUS
  <2>2. j \in Nat /\ j + 1 = k
    BY <2>1
  <2>3. f[k] = Mul(p, f[j], g[k])
    BY <2>2 DEF Products
  <2>4. f[j] \in 1 .. p - 1 /\ g[k] \in 1 .. p - 1
    BY <1>2, <2>1
  <2>5. f[k] \in 1 .. p - 1
    BY <2>3, <2>4, NonZero
  <2> QED
    BY <2>5
<1>3. 0 .. n \subseteq T
  <2> HIDE DEF T
  <2> QED
    BY <1>1, <1>2, Upward
<1>4. n \in 0 .. n
  OBVIOUS
<1> QED
  BY <1>3, <1>4

-----------------------------------------------------------------------------
(* Powers. *)

Every(x) == [n \in Nat |-> x]
Power(p, x, n) == Prod(p, Every(x))[n]

LEMMA PowerRules ==
  ASSUME NEW p \in Nat, p >= 2, NEW x \in 0 .. p - 1
  PROVE  /\ Power(p, x, 0) = 1
         /\ \A n \in Nat : /\ Power(p, x, n) \in 0 .. p - 1
                           /\ Power(p, x, n + 1) = Mul(p, Power(p, x, n), x)
<1>1. Every(x) \in [Nat -> 0 .. p - 1] /\ \A n \in Nat : Every(x)[n + 1] = x
  BY DEF Every
<1>2. Products(Prod(p, Every(x)), p, Every(x))
  BY <1>1, ProdRules
<1> QED
  BY <1>1, <1>2 DEF Products, Power

LEMMA PowerPlus ==
  ASSUME NEW p \in Nat, p >= 2, NEW x \in 0 .. p - 1, NEW m \in Nat
  PROVE  \A n \in Nat : Power(p, x, m + n) = Mul(p, Power(p, x, m), Power(p, x, n))
<1> DEFINE T == {n \in Nat : Power(p, x, m + n) = Mul(p, Power(p, x, m), Power(p, x, n))}
<1>0. Ring(p)
  BY RingOf
<1>4. /\ Power(p, x, 0) = 1
      /\ \A n \in Nat : /\ Power(p, x, n) \in 0 .. p - 1
                        /\ Power(p, x, n + 1) = Mul(p, Power(p, x, n), x)
  BY PowerRules
<1>1. 0 \in T
  <2>1. Power(p, x, m) \in 0 .. p - 1 /\ Power(p, x, 0) = 1 /\ m + 0 = m
    BY <1>4
  <2> QED
    BY <1>0, <2>1 DEF Ring
<1>2. ASSUME NEW n \in Nat, n \in T PROVE n + 1 \in T
  <2>1. PICK k, i, j : k = m + n /\ i = n + 1 /\ j = m + i
    OBVIOUS
  <2>2. k \in Nat /\ j = k + 1 /\ i \in Nat
    BY <2>1
  <2>3. /\ Power(p, x, j) = Mul(p, Power(p, x, k), x) /\ Power(p, x, i) = Mul(p, Power(p, x, n), x)
        /\ Power(p, x, m) \in 0 .. p - 1 /\ Power(p, x, n) \in 0 .. p - 1
    BY <1>4, <2>1, <2>2
  <2>4. Power(p, x, k) = Mul(p, Power(p, x, m), Power(p, x, n))
    BY <1>2, <2>1
  <2>5. Mul(p, Mul(p, Power(p, x, m), Power(p, x, n)), x)
          = Mul(p, Power(p, x, m), Mul(p, Power(p, x, n), x))
    BY <1>0, <2>3 DEF Ring
  <2>6. Power(p, x, j) = Mul(p, Power(p, x, m), Power(p, x, i))
    BY <2>3, <2>4, <2>5, Zenon
  <2> QED
    BY <2>1, <2>2, <2>6
<1>3. Nat \subseteq T
  <2> HIDE DEF T
  <2> QED
    BY <1>1, <1>2, Sums!Induction
<1> QED
  BY <1>3

LEMMA PowerSquare ==
  ASSUME NEW p \in Nat, p >= 2, NEW x \in 0 .. p - 1, NEW n \in Nat
  PROVE  Power(p, Mul(p, x, x), n) = Power(p, x, 2 * n)
<1>0. Ring(p) /\ Mul(p, x, x) \in 0 .. p - 1
  BY RingOf DEF Ring
<1>1. PICK y : y = Mul(p, x, x)
  OBVIOUS
<1>2. /\ Every(x) \in [Nat -> 0 .. p - 1] /\ Every(y) \in [Nat -> 0 .. p - 1]
      /\ \A k \in Nat : Every(y)[k] = Mul(p, Every(x)[k], Every(x)[k])
  BY <1>0, <1>1 DEF Every
<1>3. Products(Prod(p, Every(x)), p, Every(x)) /\ Products(Prod(p, Every(y)), p, Every(y))
  BY <1>2, ProdRules
<1>4. \A k \in Nat : Prod(p, Every(y))[k] = Mul(p, Prod(p, Every(x))[k], Prod(p, Every(x))[k])
  BY <1>2, <1>3, ProdTimes
<1>5. Power(p, y, n) = Mul(p, Power(p, x, n), Power(p, x, n))
  BY <1>4 DEF Power
<1>6. Power(p, x, n + n) = Mul(p, Power(p, x, n), Power(p, x, n))
  BY PowerPlus
<1>7. n + n = 2 * n
  OBVIOUS
<1> QED
  BY <1>1, <1>5, <1>6, <1>7

LEMMA PowerOdd ==
  ASSUME NEW p \in Nat, p >= 2, NEW x \in 0 .. p - 1, NEW n \in Nat
  PROVE  Power(p, x, 2 * n + 1) = Mul(p, x, Power(p, Mul(p, x, x), n))
<1>1. 2 * n \in Nat
  OBVIOUS
<1>2. /\ Power(p, x, 2 * n + 1) = Mul(p, Power(p, x, 2 * n), x) /\ Power(p, x, 2 * n) \in 0 .. p - 1
  BY <1>1, PowerRules
<1>3. Mul(p, Power(p, x, 2 * n), x) = Mul(p, x, Power(p, x, 2 * n))
  BY <1>2, RingOf DEF Ring
<1> QED
  BY <1>2, <1>3, PowerSquare

\* The loop of the code computes the power.
Unfolds(p) ==
  \A s \in [result : Nat, b : Nat, e : Nat] :
    PowLoop(p)[s] =
      IF s.e = 0 THEN s.result
      ELSE PowLoop(p)[[result |-> IF s.e % 2 = 1 THEN (s.result * s.b) % p ELSE s.result,
                       b |-> (s.b * s.b) % p, e |-> s.e \div 2]]

LEMMA LoopUnfolds ==
  ASSUME NEW p \in Nat \ {0} PROVE Unfolds(p)
<1> DEFINE D == [result : Nat, b : Nat, e : Nat]
           After(s) == [result |-> IF s.e % 2 = 1 THEN (s.result * s.b) % p ELSE s.result,
                        b |-> (s.b * s.b) % p, e |-> s.e \div 2]
           IsLoop(g) == g = [s \in D |-> IF s.e = 0 THEN s.result ELSE g[After(s)]]
           stop == {s \in D : s.e = 0}
           rank == [s \in D |-> s.e]
           next == [s \in D |-> After(s)]
           result == [s \in D |-> s.result]
           comb == [s \in D |-> [r \in Nat |-> r]]
<1>1. ASSUME NEW s \in D PROVE After(s) \in D /\ (s.e # 0 => After(s).e < s.e)
  <2>1. s.result \in Nat /\ s.b \in Nat /\ s.e \in Nat
    OBVIOUS
  <2>2. s.result * s.b \in Int /\ s.b * s.b \in Int
    BY <2>1
  <2>3. (s.result * s.b) % p \in Nat /\ (s.b * s.b) % p \in Nat
    <3>1. \A a \in Int : a % p \in Nat
      BY SameMod
    <3> QED
      BY <2>2, <3>1
  <2>4. s.e \div 2 \in Nat /\ (s.e # 0 => s.e \div 2 < s.e)
    BY <2>1, DivideNat
  <2> QED
    BY <2>1, <2>3, <2>4
<1>2. /\ rank \in [D -> Nat] /\ result \in [D -> Nat] /\ comb \in [D -> [Nat -> Nat]]
  OBVIOUS
<1>3. next \in [D -> D] /\ \A s \in D : s \notin stop => rank[next[s]] < rank[s]
  <2>1. \A s \in D : After(s) \in D
    BY <1>1
  <2>2. next \in [D -> D]
    <3> HIDE DEF D, After
    <3> QED
      BY <2>1
  <2>3. ASSUME NEW s \in D, s \notin stop PROVE rank[next[s]] < rank[s]
    <3>1. s.e # 0
      BY <2>3
    <3>2. After(s) \in D /\ After(s).e < s.e /\ next[s] = After(s)
      BY <1>1, <3>1
    <3>3. rank[After(s)] = After(s).e /\ rank[s] = s.e
      <4> HIDE DEF After, D
      <4> QED
        BY <3>2
    <3> QED
      BY <3>2, <3>3, Zenon
  <2> QED
    BY <2>2, <2>3
<1>4. PICK g \in [D -> Nat] : \A s \in D : g[s] = Asks(g, s, stop, next, result, comb)
  <2> HIDE DEF rank, next, result, comb, D, stop
  <2>0. \A s \in D \ stop : rank[next[s]] < rank[s]
    BY <1>3
  <2>1. Descends(D, Nat, rank, stop, next, result, comb)
    BY <1>2, <1>3, <2>0 DEF Descends
  <2>2. Solves(D, Nat, stop, next, result, comb)
    BY ONLY <2>1, Recursion
  <2> QED
    BY <2>2 DEF Solves
<1>5. ASSUME NEW s \in D PROVE g[s] = IF s.e = 0 THEN s.result ELSE g[After(s)]
  <2>1. CASE s.e = 0
    <3>1. s \in stop
      BY <2>1
    <3>2. g[s] = result[s]
      BY <1>4, <3>1, Zenon DEF Asks
    <3> QED
      BY <2>1, <3>2
  <2>2. CASE s.e # 0
    <3>1. s \notin stop
      BY <2>2
    <3>2. g[s] = comb[s][g[next[s]]]
      BY <1>4, <3>1, Zenon DEF Asks
    <3>3. next[s] = After(s)
      OBVIOUS
    <3>4. g[After(s)] \in Nat
      <4>1. After(s) \in D
        BY <1>1
      <4> HIDE DEF After, D
      <4> QED
        BY <1>4, <4>1
    <3>5. \A r \in Nat : comb[s][r] = r
      OBVIOUS
    <3> HIDE DEF comb, next, After, D
    <3> QED
      BY <2>2, <3>2, <3>3, <3>4, <3>5
  <2> QED
    BY <2>1, <2>2
<1>6. IsLoop(g)
  <2> HIDE DEF D, After
  <2> QED
    BY <1>4, <1>5
<1>7. PowLoop(p) = CHOOSE h : IsLoop(h)
  BY DEF PowLoop
<1>8. IsLoop(PowLoop(p))
  <2> HIDE DEF IsLoop
  <2> QED
    BY <1>6, <1>7
<1>9. \A s \in D : PowLoop(p)[s] = IF s.e = 0 THEN s.result ELSE PowLoop(p)[After(s)]
  <2> HIDE DEF D, After
  <2> QED
    BY <1>8, Zenon
<1> QED
  BY <1>9, Zenon DEF Unfolds

LEMMA LoopIs ==
  ASSUME NEW p \in Nat, p >= 2
  PROVE  \A e \in Nat : \A r, b \in 0 .. p - 1 :
           PowLoop(p)[[result |-> r, b |-> b, e |-> e]] = Mul(p, r, Power(p, b, e))
<1> DEFINE Is(e) == \A r, b \in 0 .. p - 1 :
                      PowLoop(p)[[result |-> r, b |-> b, e |-> e]] = Mul(p, r, Power(p, b, e))
           T == {n \in Nat : \A e \in Nat : e <= n => Is(e)}
<1>0. Ring(p) /\ Unfolds(p)
  BY RingOf, LoopUnfolds
<1>1. Is(0)
  <2>1. SUFFICES ASSUME NEW r \in 0 .. p - 1, NEW b \in 0 .. p - 1
                 PROVE  PowLoop(p)[[result |-> r, b |-> b, e |-> 0]] = Mul(p, r, Power(p, b, 0))
    OBVIOUS
  <2>2. PICK s : s = [result |-> r, b |-> b, e |-> 0]
    OBVIOUS
  <2>3. s \in [result : Nat, b : Nat, e : Nat] /\ s.e = 0 /\ s.result = r
    BY <2>2
  <2>4. PowLoop(p)[s] = r
    BY <1>0, <2>3, Zenon DEF Unfolds
  <2>5. Mul(p, r, Power(p, b, 0)) = r
    BY <1>0, PowerRules DEF Ring
  <2> QED
    BY <2>2, <2>4, <2>5
<1>2. 0 \in T
  BY <1>1
<1>3. ASSUME NEW n \in Nat, n \in T PROVE n + 1 \in T
  <2>1. SUFFICES Is(n + 1)
    BY <1>3
  <2>2. PICK e, k, o : e = n + 1 /\ k = e \div 2 /\ o = e % 2
    OBVIOUS
  <2>3. e \in Nat /\ e # 0 /\ k \in Nat /\ k <= n /\ o \in 0 .. 1 /\ e = 2 * k + o
    <3>1. e \in Nat /\ e # 0 /\ 2 \in Nat /\ 2 >= 2
      BY <2>2
    <3>2. k \in Nat /\ k < e /\ e = 2 * k + o /\ o \in 0 .. 2 - 1
      BY <2>2, <3>1, DivideNat
    <3> QED
      BY <2>2, <3>1, <3>2
  <2>4. Is(k)
    BY <1>3, <2>3
  <2>5. ASSUME NEW r \in 0 .. p - 1, NEW b \in 0 .. p - 1
        PROVE  PowLoop(p)[[result |-> r, b |-> b, e |-> e]] = Mul(p, r, Power(p, b, e))
    <3>1. PICK s, c, q : /\ s = [result |-> r, b |-> b, e |-> e] /\ c = Mul(p, b, b)
                         /\ q = IF o = 1 THEN Mul(p, r, b) ELSE r
      OBVIOUS
    <3>2. s \in [result : Nat, b : Nat, e : Nat] /\ s.e = e /\ s.result = r /\ s.b = b
      BY <2>3, <3>1
    <3>3. PowLoop(p)[s] = PowLoop(p)[[result |-> q, b |-> c, e |-> k]]
      <4>1. PowLoop(p)[s] = PowLoop(p)[[result |-> IF s.e % 2 = 1 THEN (s.result * s.b) % p ELSE s.result,
                                        b |-> (s.b * s.b) % p, e |-> s.e \div 2]]
        BY <1>0, <2>3, <3>2, Zenon DEF Unfolds
      <4>2. /\ (IF s.e % 2 = 1 THEN (s.result * s.b) % p ELSE s.result) = q
            /\ (s.b * s.b) % p = c /\ s.e \div 2 = k
        BY <2>2, <3>1, <3>2, Zenon DEF Mul
      <4> QED
        BY <4>1, <4>2, Zenon
    <3>4. c \in 0 .. p - 1 /\ q \in 0 .. p - 1
      BY <1>0, <3>1 DEF Ring
    <3>5. PowLoop(p)[s] = Mul(p, q, Power(p, c, k))
      BY <2>4, <3>3, <3>4
    <3>6. CASE o = 0
      <4>1. e = 2 * k /\ q = r
        BY <2>3, <3>1, <3>6
      <4>2. Power(p, c, k) = Power(p, b, e)
        BY <2>3, <3>1, <4>1, PowerSquare
      <4> QED
        BY <3>1, <3>5, <4>1, <4>2
    <3>7. CASE o = 1
      <4>1. e = 2 * k + 1 /\ q = Mul(p, r, b)
        BY <2>3, <3>1, <3>7
      <4>2. Power(p, b, e) = Mul(p, b, Power(p, c, k))
        BY <2>3, <3>1, <4>1, PowerOdd, SMTT(30)
      <4>3. Power(p, c, k) \in 0 .. p - 1
        BY <2>3, <3>4, PowerRules
      <4>4. Mul(p, Mul(p, r, b), Power(p, c, k)) = Mul(p, r, Mul(p, b, Power(p, c, k)))
        BY <1>0, <4>3 DEF Ring
      <4> QED
        BY <3>1, <3>5, <4>1, <4>2, <4>4
    <3> QED
      BY <2>3, <3>6, <3>7
  <2> QED
    BY <2>2, <2>5
<1>4. Nat \subseteq T
  <2> HIDE DEF T
  <2> QED
    BY <1>2, <1>3, Sums!Induction
<1>5. \A e \in Nat : Is(e)
  <2> HIDE DEF Is
  <2> QED
    BY <1>4
<1> QED
  BY <1>5

LEMMA PowIs ==
  ASSUME NEW p \in Nat, p >= 2, NEW x \in Int, NEW n \in Nat
  PROVE  Pow(p, x, n) = Power(p, x % p, n)
<1>1. PICK y : y = x % p
  OBVIOUS
<1>2. y \in 0 .. p - 1 /\ 1 \in 0 .. p - 1
  BY <1>1, SameMod
<1>3. Pow(p, x, n) = Mul(p, 1, Power(p, y, n))
  BY <1>1, <1>2, LoopIs DEF Pow
<1>4. Power(p, y, n) \in 0 .. p - 1
  BY <1>2, PowerRules
<1> QED
  BY <1>1, <1>3, <1>4, RingOf DEF Ring

-----------------------------------------------------------------------------
(* Fermat: multiplying 1 .. p - 1 by t permutes it. *)

FactorStep(what, i, acc) == Mul(what[2], acc, what[1][i])
Factors == INSTANCE FoldLemmas WITH Choose <- Latest, Combine <- FactorStep

\* The product of g over a set of indices.
SetProd(p, g, n, s) == Factors!Fold(<<g, p>>, 1, 1 .. n)[s]

LEMMA FactorsInOrder ==
  ASSUME NEW n \in Nat
  PROVE  /\ Factors!IsFiniteSet(1 .. n) /\ Factors!Chooses(1 .. n) /\ Factors!ChoosesLast(n)
         /\ \A s \in SUBSET (1 .. n) : s # {} => Latest(s) \in s /\ \A i \in s : i <= Latest(s)
<1>1. Factors!ChoosesLast(n)
  BY LatestIsLast DEF Factors!ChoosesLast
<1>2. \A s \in SUBSET (1 .. n) : s # {} => Latest(s) \in s /\ \A i \in s : i <= Latest(s)
  BY <1>1 DEF Factors!ChoosesLast
<1>3. Factors!Chooses(1 .. n)
  BY <1>2 DEF Factors!Chooses
<1>4. Factors!IsFiniteSet(1 .. n)
  BY Factors!FS_Interval
<1> QED
  BY <1>1, <1>2, <1>3, <1>4

LEMMA SetProdRules ==
  ASSUME NEW p, NEW g, NEW n \in Nat
  PROVE  /\ SetProd(p, g, n, {}) = 1
         /\ \A s \in SUBSET (1 .. n) : s # {} =>
              SetProd(p, g, n, s) = Mul(p, SetProd(p, g, n, s \ {Latest(s)}), g[Latest(s)])
<1> DEFINE S == 1 .. n
           F == Factors!Fold(<<g, p>>, 1, S)
<1>1. Factors!IsFiniteSet(S) /\ Factors!Chooses(S)
  BY FactorsInOrder
<1> HIDE DEF S
<1>2. \A s \in SUBSET S :
        F[s] = IF s = {} THEN 1 ELSE FactorStep(<<g, p>>, Latest(s), F[s \ {Latest(s)}])
  BY <1>1, Factors!FoldStep
<1> HIDE DEF F
<1>3. F[{}] = 1
  BY <1>2
<1>4. \A s \in SUBSET S : s # {} => F[s] = Mul(p, F[s \ {Latest(s)}], g[Latest(s)])
  BY <1>2 DEF FactorStep
<1> QED
  BY <1>3, <1>4 DEF S, F, SetProd

Factored(p, g) == p \in Nat /\ p >= 2 /\ g \in [Nat -> 0 .. p - 1]

TakesAny(p, g, n) ==
  \A s \in SUBSET (1 .. n) :
    /\ SetProd(p, g, n, s) \in 0 .. p - 1
    /\ \A e \in s : SetProd(p, g, n, s) = Mul(p, SetProd(p, g, n, s \ {e}), g[e])

LEMMA SetProdIn ==
  ASSUME NEW p, NEW g, Factored(p, g), NEW n \in Nat
  PROVE  \A s \in SUBSET (1 .. n) : SetProd(p, g, n, s) \in 0 .. p - 1
<1> DEFINE S == 1 .. n
           V(s) == SetProd(p, g, n, s)
           T == {s \in SUBSET S : V(s) \in 0 .. p - 1}
<1>0. Ring(p) /\ \A k \in Nat : g[k] \in 0 .. p - 1
  BY RingOf DEF Factored
<1>1. /\ Factors!IsFiniteSet(S) /\ Factors!Chooses(S) /\ V({}) = 1
      /\ \A s \in SUBSET S : s # {} => Latest(s) \in s
  BY SetProdRules, FactorsInOrder
<1>2. \A s \in SUBSET S : s # {} => V(s) = Mul(p, V(s \ {Latest(s)}), g[Latest(s)])
  BY SetProdRules
<1> HIDE DEF V
<1>3. {} \in T
  BY <1>0, <1>1 DEF Ring
<1>4. \A s \in SUBSET S : s # {} /\ s \ {Latest(s)} \in T => s \in T
  <2>1. ASSUME NEW s \in SUBSET S, s # {}, s \ {Latest(s)} \in T PROVE s \in T
    <3>1. PICK c, r : c = Latest(s) /\ r = s \ {c}
      OBVIOUS
    <3>2. c \in Nat
      <4>1. c \in s
        BY <1>1, <2>1, <3>1
      <4> QED
        BY <4>1
    <3>3. g[c] \in 0 .. p - 1 /\ V(r) \in 0 .. p - 1
      BY <1>0, <2>1, <3>1, <3>2
    <3>4. V(s) = Mul(p, V(r), g[c])
      BY <1>2, <2>1, <3>1
    <3>5. V(s) \in 0 .. p - 1
      BY <1>0, <3>3, <3>4 DEF Ring
    <3> QED
      BY <3>5
  <2> QED
    BY <2>1
<1>5. SUBSET S \subseteq T
  <2> HIDE DEF T, S
  <2> QED
    BY ONLY <1>1, <1>3, <1>4, Factors!SubsetInduction
<1> QED
  BY <1>5 DEF V

\* Any element may be taken first.
LEMMA TakeAny ==
  ASSUME NEW p, NEW g, Factored(p, g), NEW n \in Nat
  PROVE  TakesAny(p, g, n)
<1> DEFINE S == 1 .. n
           V(s) == SetProd(p, g, n, s)
           First(s) == \A e \in s : V(s) = Mul(p, V(s \ {e}), g[e])
           T == {s \in SUBSET S : First(s)}
<1>0. Ring(p) /\ \A k \in Nat : g[k] \in 0 .. p - 1
  BY RingOf DEF Factored
<1>1. /\ Factors!IsFiniteSet(S) /\ Factors!Chooses(S)
      /\ \A s \in SUBSET S : s # {} => Latest(s) \in s /\ \A i \in s : i <= Latest(s)
  BY FactorsInOrder
<1>2. \A s \in SUBSET S : s # {} => V(s) = Mul(p, V(s \ {Latest(s)}), g[Latest(s)])
  BY SetProdRules
<1>3. \A s \in SUBSET S : V(s) \in 0 .. p - 1
  BY SetProdIn
<1> HIDE DEF V
<1>4. {} \in T
  OBVIOUS
<1>5. \A s \in SUBSET S : s # {} /\ s \ {Latest(s)} \in T => s \in T
  <2>1. SUFFICES ASSUME NEW s \in SUBSET S, s # {}, s \ {Latest(s)} \in T, NEW e \in s
                 PROVE  V(s) = Mul(p, V(s \ {e}), g[e])
    OBVIOUS
  <2>2. PICK c, r : c = Latest(s) /\ r = s \ {c}
    OBVIOUS
  <2>3. c \in s /\ c \in Nat /\ e \in Nat /\ r \in SUBSET S
    <3>1. c \in s
      BY <1>1, <2>1, <2>2
    <3>2. c \in S /\ e \in S /\ r \in SUBSET S
      BY <2>1, <2>2, <3>1
    <3> QED
      BY <3>1, <3>2
  <2>4. V(s) = Mul(p, V(r), g[c])
    BY <1>2, <2>1, <2>2
  <2>5. CASE e = c
    BY <2>2, <2>4, <2>5
  <2>6. CASE e # c
    <3>1. PICK q, o : q = s \ {e} /\ o = r \ {e}
      OBVIOUS
    <3>2. e \in r /\ q \in SUBSET S /\ o \in SUBSET S /\ q # {} /\ c \in q /\ q \ {c} = o
      BY <2>2, <2>3, <2>6, <3>1
    <3>3. Latest(q) = c
      <4>1. Latest(q) \in q /\ c <= Latest(q)
        BY <1>1, <3>2
      <4>2. Latest(q) \in s /\ Latest(q) <= c /\ Latest(q) \in Nat
        <5>1. \A i \in s : i <= c /\ i \in Nat
          BY <1>1, <2>1, <2>2
        <5> QED
          BY <3>1, <4>1, <5>1
      <4> QED
        BY <2>3, <4>1, <4>2
    <3>4. V(q) = Mul(p, V(o), g[c])
      BY <1>2, <3>2, <3>3
    <3>5. V(r) = Mul(p, V(o), g[e])
      BY <2>1, <2>2, <3>1, <3>2
    <3>6. PICK a, b, d : a = V(o) /\ b = g[e] /\ d = g[c]
      OBVIOUS
    <3>7. a \in 0 .. p - 1 /\ b \in 0 .. p - 1 /\ d \in 0 .. p - 1
      BY <1>0, <1>3, <2>3, <3>2, <3>6
    <3>8. /\ Mul(p, Mul(p, a, b), d) = Mul(p, a, Mul(p, b, d))
          /\ Mul(p, Mul(p, a, d), b) = Mul(p, a, Mul(p, d, b)) /\ Mul(p, b, d) = Mul(p, d, b)
      BY <1>0, <3>7 DEF Ring
    <3> QED
      BY <2>4, <3>1, <3>4, <3>5, <3>6, <3>8
  <2> QED
    BY <2>5, <2>6
<1>6. SUBSET S \subseteq T
  <2> HIDE DEF T, S
  <2> QED
    BY ONLY <1>1, <1>4, <1>5, Factors!SubsetInduction
<1>7. \A s \in SUBSET S : First(s)
  BY <1>6
<1> QED
  BY <1>3, <1>7, Zenon DEF V, TakesAny

\* Renaming the indices one to one leaves the product.
Renames(f, g, h, n) ==
  /\ f \in [1 .. n -> 1 .. n] /\ \A i, j \in 1 .. n : f[i] = f[j] => i = j
  /\ \A i \in 1 .. n : g[i] = h[f[i]]

Renamed(p, f, g, h, n) ==
  \A s \in SUBSET (1 .. n) : SetProd(p, h, n, {f[i] : i \in s}) = SetProd(p, g, n, s)

LEMMA SetProdImage ==
  ASSUME NEW p, NEW g, NEW h, NEW f, NEW n \in Nat, Factored(p, g), Factored(p, h),
         Renames(f, g, h, n)
  PROVE  Renamed(p, f, g, h, n)
<1> DEFINE S == 1 .. n
           Image(s) == {f[i] : i \in s}
           T == {s \in SUBSET S : SetProd(p, h, n, Image(s)) = SetProd(p, g, n, s)}
<1>0. TakesAny(p, g, n) /\ TakesAny(p, h, n)
  BY TakeAny
<1>1. /\ Factors!IsFiniteSet(S) /\ Factors!Chooses(S)
      /\ \A s \in SUBSET S : s # {} => Latest(s) \in s
  BY FactorsInOrder
<1>2. {} \in T
  <2>1. Image({}) = {}
    OBVIOUS
  <2>2. SetProd(p, h, n, {}) = 1 /\ SetProd(p, g, n, {}) = 1
    BY SetProdRules
  <2> HIDE DEF Image
  <2> QED
    BY <2>1, <2>2
<1>3. \A s \in SUBSET S : s # {} /\ s \ {Latest(s)} \in T => s \in T
  <2>1. SUFFICES ASSUME NEW s \in SUBSET S, s # {}, s \ {Latest(s)} \in T PROVE s \in T
    OBVIOUS
  <2>2. PICK c, r : c = Latest(s) /\ r = s \ {c}
    OBVIOUS
  <2>3. c \in s /\ r \in T
    BY <1>1, <2>1, <2>2
  <2>4. Image(s) \in SUBSET S /\ f[c] \in Image(s)
    <3>1. \A i \in s : f[i] \in S
      BY DEF Renames
    <3> QED
      BY <2>3, <3>1
  <2>5. Image(s) \ {f[c]} = Image(r)
    <3>1. \A i \in s : f[i] = f[c] => i = c
      BY <2>3 DEF Renames
    <3> QED
      BY <2>2, <3>1
  <2> HIDE DEF Image
  <2>6. SetProd(p, h, n, Image(s)) = Mul(p, SetProd(p, h, n, Image(r)), h[f[c]])
    BY <1>0, <2>4, <2>5, Zenon DEF TakesAny
  <2>7. SetProd(p, g, n, s) = Mul(p, SetProd(p, g, n, r), g[c])
    BY <1>0, <2>2, <2>3, Zenon DEF TakesAny
  <2>8. SetProd(p, h, n, Image(r)) = SetProd(p, g, n, r) /\ g[c] = h[f[c]]
    BY <2>3 DEF Renames
  <2> QED
    BY <2>6, <2>7, <2>8
<1>4. SUBSET S \subseteq T
  <2> HIDE DEF T, S
  <2> QED
    BY ONLY <1>1, <1>2, <1>3, Factors!SubsetInduction
<1> QED
  BY <1>4 DEF Renamed

LEMMA PrefixRules ==
  ASSUME NEW p, NEW g, NEW n \in Nat
  PROVE  LET F == Factors!Fold(<<g, p>>, 1, 1 .. n)
         IN  /\ F[1 .. 0] = 1
             /\ \A k \in 1 .. n : F[1 .. k] = Mul(p, F[1 .. (k - 1)], g[k])
<1> DEFINE F == Factors!Fold(<<g, p>>, 1, 1 .. n)
<1>1. Factors!ChoosesLast(n)
  BY FactorsInOrder
<1>2. /\ Factors!Prefix(F, 0) = 1
      /\ \A k \in 1 .. n : Factors!Prefix(F, k) = FactorStep(<<g, p>>, k, Factors!Prefix(F, k - 1))
  BY <1>1, Factors!PrefixFold
<1> HIDE DEF F
<1> QED
  BY <1>2 DEF Factors!Prefix, FactorStep, F

LEMMA SetProdInOrder ==
  ASSUME NEW p, NEW g, NEW n \in Nat, NEW f, Products(f, p, g)
  PROVE  SetProd(p, g, n, 1 .. n) = f[n]
<1> DEFINE V(k) == SetProd(p, g, n, 1 .. k)
           T == {k \in 0 .. n : V(k) = f[k]}
<1>1. V(0) = 1 /\ \A k \in 1 .. n : V(k) = Mul(p, V(k - 1), g[k])
  BY PrefixRules DEF SetProd
<1> HIDE DEF V
<1>2. 0 \in T
  BY <1>1 DEF Products
<1>3. ASSUME NEW k \in 1 .. n, k - 1 \in T PROVE k \in T
  <2>1. PICK j : j = k - 1
    OBVIOUS
  <2>2. j \in Nat /\ j + 1 = k
    BY <2>1
  <2>3. f[k] = Mul(p, f[j], g[k])
    BY <2>2 DEF Products
  <2> QED
    BY <1>1, <1>3, <2>1, <2>3
<1>4. 0 .. n \subseteq T
  <2> HIDE DEF T
  <2> QED
    BY <1>2, <1>3, Upward
<1>5. n \in 0 .. n
  OBVIOUS
<1> QED
  BY <1>4, <1>5 DEF V

Residues(p) == [k \in Nat |-> k % p]

LEMMA Fermat ==
  ASSUME NEW p, Prime(p), NEW t \in 1 .. p - 1
  PROVE  Power(p, t, p - 1) = 1
<1> DEFINE n == p - 1
           id == Residues(p)
           g == [k \in Nat |-> Mul(p, t, id[k])]
           f == [k \in 1 .. n |-> g[k]]
<1>0. p \in Nat /\ p >= 2 /\ Ring(p) /\ n \in Nat /\ t \in 0 .. p - 1
  BY RingOf DEF Prime
<1>1. id \in [Nat -> 0 .. p - 1] /\ \A k \in 1 .. n : id[k] = k
  <2>1. \A k \in Nat : k % p \in 0 .. p - 1
    BY <1>0
  <2>2. \A k \in 1 .. n : k % p = k
    BY <1>0
  <2> QED
    BY <1>0, <2>1, <2>2 DEF Residues
<1>2. g \in [Nat -> 0 .. p - 1]
  <2> HIDE DEF id
  <2>1. \A k \in Nat : Mul(p, t, id[k]) \in 0 .. p - 1
    BY <1>0, <1>1 DEF Ring
  <2> QED
    BY <2>1
<1>3. \A k \in Nat : g[k] = Mul(p, Every(t)[k], id[k])
  BY DEF Every
<1>4. \A k \in 1 .. n : f[k] = g[k] /\ g[k] = Mul(p, t, k)
  BY <1>0, <1>1
<1> HIDE DEF id, g, f
<1>5. \A k \in 1 .. n : f[k] \in 1 .. n
  <2>1. ASSUME NEW k \in 1 .. n PROVE Mul(p, t, k) \in 1 .. p - 1
    BY NonZero
  <2> QED
    BY <1>4, <2>1
<1>6. f \in [1 .. n -> 1 .. n]
  BY <1>4, <1>5 DEF f
<1>7. \A i, j \in 1 .. n : f[i] = f[j] => i = j
  <2>1. ASSUME NEW i \in 1 .. n, NEW j \in 1 .. n, f[i] = f[j] PROVE i = j
    <3>1. Mul(p, t, i) = Mul(p, t, j) /\ i \in 0 .. p - 1 /\ j \in 0 .. p - 1
      BY <1>0, <1>4, <2>1
    <3> QED
      BY <3>1, Cancel
  <2> QED
    BY <2>1
<1>8. \A k \in 1 .. n : g[k] = id[f[k]]
  BY <1>1, <1>4, <1>5
<1>9. {f[i] : i \in 1 .. n} = 1 .. n
  <2>1. f \in Injection(1 .. n, 1 .. n) /\ IsFiniteSet(1 .. n)
    <3>1. f \in Injection(1 .. n, 1 .. n)
      BY <1>6, <1>7 DEF Injection, IsInjective
    <3> QED
      BY <1>0, <3>1, FS_Interval
  <2>2. f \in Surjection(1 .. n, 1 .. n)
    BY <2>1, FS_Injection
  <2>3. \A j \in 1 .. n : \E i \in 1 .. n : f[i] = j
    BY <2>2 DEF Surjection
  <2> QED
    BY <1>5, <2>3
<1>10. Factored(p, g) /\ Factored(p, id)
  BY <1>0, <1>1, <1>2 DEF Factored
<1>11. SetProd(p, id, n, {f[i] : i \in 1 .. n}) = SetProd(p, g, n, 1 .. n)
  <2>1. \A s \in SUBSET (1 .. n) : SetProd(p, id, n, {f[i] : i \in s}) = SetProd(p, g, n, s)
    <3>1. Renames(f, g, id, n)
      BY <1>6, <1>7, <1>8, Zenon DEF Renames
    <3>2. Renamed(p, f, g, id, n)
      BY ONLY <1>0, <1>10, <3>1, SetProdImage
    <3> QED
      BY <3>2 DEF Renamed
  <2> QED
    BY <2>1
<1>12. Every(t) \in [Nat -> 0 .. p - 1]
  BY <1>0 DEF Every
<1>13. /\ Products(Prod(p, id), p, id) /\ Products(Prod(p, g), p, g)
       /\ Products(Prod(p, Every(t)), p, Every(t))
  BY <1>0, <1>1, <1>2, <1>12, ProdRules
<1>14. \A k \in Nat : Prod(p, g)[k] = Mul(p, Prod(p, Every(t))[k], Prod(p, id)[k])
  BY <1>0, <1>1, <1>3, <1>12, <1>13, ProdTimes
<1>15. PICK w, x : w = Prod(p, id)[n] /\ x = Power(p, t, n)
  OBVIOUS
<1>16. SetProd(p, id, n, 1 .. n) = w /\ SetProd(p, g, n, 1 .. n) = Prod(p, g)[n]
  <2>1. SetProd(p, id, n, 1 .. n) = Prod(p, id)[n]
    BY ONLY <1>0, <1>13, SetProdInOrder
  <2>2. SetProd(p, g, n, 1 .. n) = Prod(p, g)[n]
    BY ONLY <1>0, <1>13, SetProdInOrder
  <2> QED
    BY <1>15, <2>1, <2>2
<1>17. w = Mul(p, x, w)
  BY <1>0, <1>9, <1>11, <1>14, <1>15, <1>16 DEF Power
<1>18. w \in 1 .. p - 1
  <2>1. \A k \in 1 .. n : id[k] \in 1 .. p - 1
    BY <1>1
  <2> QED
    BY <1>0, <1>13, <1>15, <2>1, ProdNonZero
<1>19. x \in 0 .. p - 1
  BY <1>0, <1>15, PowerRules
<1>20. 1 \in 0 .. p - 1 /\ w \in 0 .. p - 1 /\ Mul(p, w, x) = w /\ Mul(p, w, 1) = w
  BY <1>0, <1>17, <1>18, <1>19 DEF Ring
<1>21. x = 1
  BY <1>18, <1>19, <1>20, Cancel
<1> QED
  BY <1>15, <1>21

LEMMA HalfPower ==
  ASSUME NEW p, Prime(p), NEW t \in 1 .. p - 1, NEW h \in Nat, p = 2 * h + 1
  PROVE  Power(p, t, h) = 1 \/ Power(p, t, h) = p - 1
<1>0. p \in Nat \ {0} /\ p >= 2 /\ Ring(p) /\ t \in 0 .. p - 1
  BY RingOf DEF Prime
<1>1. PICK s : s = Power(p, t, h)
  OBVIOUS
<1>2. s \in 0 .. p - 1
  BY <1>0, <1>1, PowerRules
<1>3. Mul(p, s, s) = 1
  <2>1. Power(p, t, h + h) = Mul(p, s, s)
    BY <1>0, <1>1, PowerPlus
  <2>2. h + h = p - 1
    OBVIOUS
  <2> QED
    BY <2>1, <2>2, Fermat
<1>4. PICK k : k = (s * s) \div p
  OBVIOUS
<1>5. k \in Int /\ s * s = p * k + 1
  <2>1. s * s \in Int
    BY <1>2
  <2>2. PICK y : y = s * s
    OBVIOUS
  <2>3. y \in Int /\ y % p = 1 /\ k = y \div p
    BY <1>3, <1>4, <2>1, <2>2 DEF Mul
  <2>4. k \in Int /\ y = p * k + (y % p)
    BY <1>0, <2>3, Divide
  <2> QED
    BY <2>2, <2>3, <2>4
<1>6. CASE s = 0
  <2>1. Mul(p, s, s) = 0
    BY <1>0, <1>6 DEF Ring
  <2> QED
    BY <1>3, <2>1
<1>7. CASE s = 1
  BY <1>1, <1>7
<1>8. CASE s > 1
  <2>1. (s - 1) * (s + 1) = p * k + 0
    <3>1. (s - 1) * (s + 1) = s * s - 1
      BY <1>2
    <3> QED
      BY <1>0, <1>5, <3>1
  <2>2. 0 \in 0 .. p - 1
    BY <1>0
  <2>3. ((s - 1) * (s + 1)) % p = 0
    <3>1. (p * k + 0) % p = 0
      BY <1>0, <1>5, <2>2, Residue
    <3> QED
      BY <2>1, <3>1
  <2>4. s - 1 \in 1 .. p - 1 /\ s + 1 \in Int
    BY <1>2, <1>8
  <2>5. (s + 1) % p = 0
    BY <2>3, <2>4, Euclid
  <2>6. s + 1 = p
    <3>1. s + 1 < p => (s + 1) % p = s + 1
      BY <1>0, <1>2
    <3> QED
      BY <1>0, <1>2, <2>5, <3>1
  <2> QED
    BY <1>0, <1>1, <1>2, <2>6
<1> QED
  BY <1>2, <1>6, <1>7, <1>8

-----------------------------------------------------------------------------
(* Two to the half power is minus one when p is 4 m + 1 with m odd: the product of the even *)
(* numbers up to p - 1 is the product of all up to half of p, with m signs changed.         *)

LEMMA Negate ==
  ASSUME NEW p \in Nat, p >= 2, NEW c \in 1 .. p - 1
  PROVE  Mul(p, p - 1, c) = p - c
<1>1. (p - 1) * c = p * (c - 1) + (p - c)
  OBVIOUS
<1>2. p \in Nat \ {0} /\ c - 1 \in Int /\ p - c \in 0 .. p - 1
  OBVIOUS
<1>3. (p * (c - 1) + (p - c)) % p = p - c
  BY <1>2, Residue
<1> QED
  BY <1>1, <1>3 DEF Mul

LEMMA PowerOne ==
  ASSUME NEW p \in Nat, p >= 2
  PROVE  \A n \in Nat : Power(p, 1, n) = 1
<1> DEFINE T == {n \in Nat : Power(p, 1, n) = 1}
<1>0. Ring(p) /\ 1 \in 0 .. p - 1
  BY RingOf DEF Ring
<1>1. Power(p, 1, 0) = 1 /\ \A n \in Nat : Power(p, 1, n + 1) = Mul(p, Power(p, 1, n), 1)
  BY <1>0, PowerRules
<1>2. 0 \in T
  BY <1>1
<1>3. ASSUME NEW n \in Nat, n \in T PROVE n + 1 \in T
  <2>1. Power(p, 1, n + 1) = Mul(p, 1, 1) /\ Mul(p, 1, 1) = 1
    BY <1>0, <1>1, <1>3 DEF Ring
  <2> QED
    BY <2>1
<1>4. Nat \subseteq T
  <2> HIDE DEF T
  <2> QED
    BY <1>2, <1>3, Sums!Induction
<1> QED
  BY <1>4

\* Minus one to an odd power.
LEMMA Signs ==
  ASSUME NEW p \in Nat, p >= 2, NEW q \in Nat
  PROVE  Power(p, p - 1, 2 * q + 1) = p - 1
<1>0. Ring(p) /\ p - 1 \in 0 .. p - 1 /\ p - 1 \in 1 .. p - 1
  BY RingOf DEF Ring
<1>1. PICK s : s = p - 1
  OBVIOUS
<1>2. s \in 0 .. p - 1 /\ s \in 1 .. p - 1
  BY <1>0, <1>1
<1>3. Mul(p, s, s) = 1
  <2>1. Mul(p, p - 1, s) = p - s
    BY <1>2, Negate
  <2> QED
    BY <1>1, <2>1
<1>4. Power(p, s, 2 * q + 1) = Mul(p, s, Power(p, 1, q))
  BY <1>2, <1>3, PowerOdd
<1>5. Power(p, 1, q) = 1
  BY PowerOne
<1> QED
  BY <1>0, <1>1, <1>2, <1>4, <1>5 DEF Ring

Evens(p) == [k \in Nat |-> (2 * k) % p]
Odds(p) == [k \in Nat |-> (2 * k - 1) % p]
Highs(p, m) == [k \in Nat |-> (2 * (m + k)) % p]

LEMMA Factorials ==
  ASSUME NEW p \in Nat, p >= 2, NEW m \in Nat
  PROVE  /\ Factored(p, Residues(p)) /\ Factored(p, Evens(p))
         /\ Factored(p, Odds(p)) /\ Factored(p, Highs(p, m))
         /\ \A k \in Nat : Evens(p)[m + k] = Highs(p, m)[k]
         /\ \A k \in Nat : Residues(p)[2 * k] = Evens(p)[k]
         /\ \A k \in Nat \ {0} : Residues(p)[2 * k - 1] = Odds(p)[k]
<1>1. \A a \in Int : a % p \in 0 .. p - 1
  BY SameMod
<1>2. \A k \in Nat : 2 * k \in Int /\ 2 * k - 1 \in Int /\ 2 * (m + k) \in Int
  OBVIOUS
<1>3. Factored(p, Residues(p))
  BY <1>1 DEF Factored, Residues
<1>4. Factored(p, Evens(p))
  BY <1>1, <1>2 DEF Factored, Evens
<1>5. Factored(p, Odds(p))
  BY <1>1, <1>2 DEF Factored, Odds
<1>6. Factored(p, Highs(p, m))
  BY <1>1, <1>2 DEF Factored, Highs
<1>7. \A k \in Nat : m + k \in Nat /\ 2 * k \in Nat
  OBVIOUS
<1>8. \A k \in Nat \ {0} : 2 * k - 1 \in Nat /\ k \in Nat
  OBVIOUS
<1>9. \A k \in Nat : Evens(p)[m + k] = Highs(p, m)[k]
  BY <1>7 DEF Evens, Highs
<1>10. \A k \in Nat : Residues(p)[2 * k] = Evens(p)[k]
  BY <1>7 DEF Evens, Residues
<1>11. \A k \in Nat \ {0} : Residues(p)[2 * k - 1] = Odds(p)[k]
  BY <1>8 DEF Odds, Residues
<1> QED
  BY <1>3, <1>4, <1>5, <1>6, <1>9, <1>10, <1>11

\* The even and the odd numbers up to 2 n.
LEMMA EvensOdds ==
  ASSUME NEW p \in Nat, p >= 2, NEW F, NEW E, NEW O,
         Products(F, p, Residues(p)), Products(E, p, Evens(p)), Products(O, p, Odds(p))
  PROVE  \A n \in Nat : F[2 * n] = Mul(p, E[n], O[n])
<1> DEFINE T == {n \in Nat : F[2 * n] = Mul(p, E[n], O[n])}
<1>0. Ring(p)
  BY RingOf
<1>1. 0 \in T
  <2>1. F[0] = 1 /\ E[0] = 1 /\ O[0] = 1 /\ Mul(p, 1, 1) = 1 /\ 2 * 0 = 0
    BY <1>0 DEF Products, Ring
  <2> QED
    BY <2>1
<1>2. ASSUME NEW n \in Nat, n \in T PROVE n + 1 \in T
  <2>1. PICK k, i, j, l : k = n + 1 /\ i = 2 * n /\ j = i + 1 /\ l = j + 1
    OBVIOUS
  <2>2. k \in Nat /\ k # 0 /\ i \in Nat /\ j \in Nat /\ l \in Nat /\ l = 2 * k /\ j = 2 * k - 1
    BY <2>1
  <2>3. F[j] = Mul(p, F[i], Odds(p)[k])
    <3>1. F[i + 1] = Mul(p, F[i], Residues(p)[i + 1])
      BY <2>2, Zenon DEF Products
    <3>2. Residues(p)[j] = Odds(p)[k]
      BY <2>2, Factorials
    <3> QED
      BY <2>1, <3>1, <3>2
  <2>4. F[l] = Mul(p, F[j], Evens(p)[k])
    <3>1. F[j + 1] = Mul(p, F[j], Residues(p)[j + 1])
      BY <2>2, Zenon DEF Products
    <3>2. Residues(p)[l] = Evens(p)[k]
      BY <2>2, Factorials
    <3> QED
      BY <2>1, <3>1, <3>2
  <2>5. E[k] = Mul(p, E[n], Evens(p)[k]) /\ O[k] = Mul(p, O[n], Odds(p)[k])
    BY <2>1 DEF Products
  <2>6. PICK a, b, c, d : a = E[n] /\ b = O[n] /\ c = Odds(p)[k] /\ d = Evens(p)[k]
    OBVIOUS
  <2>7. a \in 0 .. p - 1 /\ b \in 0 .. p - 1 /\ c \in 0 .. p - 1 /\ d \in 0 .. p - 1
    <3>1. a \in 0 .. p - 1 /\ b \in 0 .. p - 1
      BY <2>6 DEF Products
    <3>2. Factored(p, Odds(p)) /\ Factored(p, Evens(p))
      BY Factorials
    <3> QED
      BY <2>2, <2>6, <3>1, <3>2 DEF Factored
  <2>8. F[i] = Mul(p, a, b)
    BY <1>2, <2>1, <2>6
  <2>9. Mul(p, Mul(p, Mul(p, a, b), c), d) = Mul(p, Mul(p, a, d), Mul(p, b, c))
    <3>1. PICK x : x = Mul(p, a, b)
      OBVIOUS
    <3>2. x \in 0 .. p - 1
      BY <1>0, <2>7, <3>1 DEF Ring
    <3>3. Mul(p, Mul(p, x, c), d) = Mul(p, x, Mul(p, c, d)) /\ Mul(p, c, d) = Mul(p, d, c)
      BY <1>0, <2>7, <3>2 DEF Ring
    <3>4. Mul(p, Mul(p, a, b), Mul(p, d, c)) = Mul(p, Mul(p, a, d), Mul(p, b, c))
      BY <1>0, <2>7, Swap
    <3> QED
      BY <3>1, <3>3, <3>4
  <2>10. F[l] = Mul(p, E[k], O[k])
    BY <2>3, <2>4, <2>5, <2>6, <2>8, <2>9
  <2> QED
    BY <2>1, <2>2, <2>10
<1>3. Nat \subseteq T
  <2> HIDE DEF T
  <2> QED
    BY <1>1, <1>2, Sums!Induction
<1> QED
  BY <1>3

\* The even numbers beyond 2 m.
LEMMA EvensHighs ==
  ASSUME NEW p \in Nat, p >= 2, NEW m \in Nat, NEW E, NEW H,
         Products(E, p, Evens(p)), Products(H, p, Highs(p, m))
  PROVE  \A n \in Nat : E[m + n] = Mul(p, E[m], H[n])
<1> DEFINE T == {n \in Nat : E[m + n] = Mul(p, E[m], H[n])}
<1>0. Ring(p) /\ \A k \in Nat : Evens(p)[m + k] = Highs(p, m)[k]
  BY RingOf, Factorials
<1>1. E[m] \in 0 .. p - 1 /\ \A n \in Nat : H[n] \in 0 .. p - 1 /\ Highs(p, m)[n] \in 0 .. p - 1
  <2>1. Factored(p, Highs(p, m))
    BY Factorials
  <2> QED
    BY <2>1 DEF Products, Factored
<1>2. 0 \in T
  <2>1. H[0] = 1 /\ m + 0 = m /\ Mul(p, E[m], 1) = E[m]
    BY <1>0, <1>1 DEF Products, Ring
  <2> QED
    BY <2>1
<1>3. ASSUME NEW n \in Nat, n \in T PROVE n + 1 \in T
  <2>1. PICK k, i, j : k = n + 1 /\ i = m + n /\ j = i + 1
    OBVIOUS
  <2>2. k \in Nat /\ i \in Nat /\ j = m + k
    BY <2>1
  <2>3. E[j] = Mul(p, E[i], Highs(p, m)[k])
    <3>1. E[i + 1] = Mul(p, E[i], Evens(p)[i + 1])
      BY <2>2, Zenon DEF Products
    <3> QED
      BY <1>0, <2>1, <2>2, <3>1
  <2>4. H[k] = Mul(p, H[n], Highs(p, m)[k])
    BY <2>1 DEF Products
  <2>5. E[i] = Mul(p, E[m], H[n])
    BY <1>3, <2>1
  <2>6. Mul(p, Mul(p, E[m], H[n]), Highs(p, m)[k]) = Mul(p, E[m], Mul(p, H[n], Highs(p, m)[k]))
    BY <1>0, <1>1, <2>2 DEF Ring
  <2>7. E[j] = Mul(p, E[m], H[k])
    BY <2>3, <2>4, <2>5, <2>6
  <2> QED
    BY <2>1, <2>2, <2>7
<1>4. Nat \subseteq T
  <2> HIDE DEF T
  <2> QED
    BY <1>2, <1>3, Sums!Induction
<1> QED
  BY <1>4

\* Each of them is minus an odd number below 2 m.
LEMMA HighsOdds ==
  ASSUME NEW m \in Nat, NEW p \in Nat, p >= 2, p = 4 * m + 1, NEW H, NEW O,
         Products(H, p, Highs(p, m)), Products(O, p, Odds(p))
  PROVE  H[m] = Mul(p, Power(p, p - 1, m), O[m])
<1> DEFINE S(t) == Power(p, p - 1, t)
           T == {t \in 0 .. m : Mul(p, H[t], O[m - t]) = Mul(p, S(t), O[m])}
<1>0. Ring(p) /\ p - 1 \in 0 .. p - 1
  BY RingOf DEF Ring
<1>1. S(0) = 1 /\ \A n \in Nat : S(n) \in 0 .. p - 1 /\ S(n + 1) = Mul(p, S(n), p - 1)
  BY <1>0, PowerRules
<1> HIDE DEF S
<1>2. /\ H[0] = 1 /\ O[0] = 1
      /\ \A n \in Nat : H[n] \in 0 .. p - 1 /\ O[n] \in 0 .. p - 1
  BY DEF Products
<1>3. 0 \in T
  BY <1>1, <1>2
<1>4. ASSUME NEW t \in 1 .. m, t - 1 \in T PROVE t \in T
  <2>1. PICK j, i, k : j = t - 1 /\ i = m - t /\ k = i + 1
    OBVIOUS
  <2>2. j \in Nat /\ i \in Nat /\ k \in Nat /\ j + 1 = t /\ m - j = k
    BY <2>1
  <2>3. PICK a, b, c, d, s, o :
          /\ a = H[j] /\ b = O[i] /\ c = Odds(p)[k] /\ d = Highs(p, m)[t] /\ s = S(j) /\ o = O[m]
    OBVIOUS
  <2>4. H[t] = Mul(p, a, d) /\ O[k] = Mul(p, b, c) /\ S(t) = Mul(p, s, p - 1)
    BY <1>1, <2>1, <2>2, <2>3 DEF Products
  <2>5. /\ a \in 0 .. p - 1 /\ b \in 0 .. p - 1 /\ s \in 0 .. p - 1 /\ o \in 0 .. p - 1
    BY <1>1, <1>2, <2>2, <2>3
  <2>6. c = 2 * i + 1 /\ c \in 1 .. p - 1 /\ d = p - c
    <3>1. 2 * k - 1 = 2 * i + 1 /\ 2 * i + 1 \in 1 .. p - 1
      BY <2>1
    <3>2. 2 * (m + t) = p - (2 * i + 1)
      BY <2>1
    <3>3. \A x \in 0 .. p - 1 : x % p = x
      OBVIOUS
    <3>4. c = (2 * k - 1) % p
      BY <2>2, <2>3 DEF Odds
    <3>5. d = (2 * (m + t)) % p
      BY <2>3 DEF Highs
    <3>6. c = 2 * i + 1
      BY <3>1, <3>3, <3>4
    <3>7. p - (2 * i + 1) \in 0 .. p - 1
      BY <3>1
    <3>8. d = p - (2 * i + 1)
      BY <3>2, <3>3, <3>5, <3>7
    <3> QED
      BY <3>1, <3>6, <3>8
  <2>7. d = Mul(p, p - 1, c)
    BY <2>6, Negate
  <2>8. Mul(p, a, Mul(p, b, c)) = Mul(p, s, o)
    BY <1>4, <2>1, <2>2, <2>3, <2>4
  <2>9. PICK n : n = p - 1
    OBVIOUS
  <2>10. n \in 0 .. p - 1 /\ c \in 0 .. p - 1
    BY <1>0, <2>6, <2>9
  <2>11. Mul(p, Mul(p, a, Mul(p, n, c)), b) = Mul(p, n, Mul(p, a, Mul(p, b, c)))
    <3>1. Mul(p, n, c) \in 0 .. p - 1 /\ Mul(p, b, c) \in 0 .. p - 1 /\ Mul(p, a, b) \in 0 .. p - 1
      BY <1>0, <2>5, <2>10 DEF Ring
    <3>2. Mul(p, Mul(p, a, Mul(p, n, c)), b) = Mul(p, Mul(p, n, c), Mul(p, a, b))
      <4>1. PICK x : x = Mul(p, n, c)
        OBVIOUS
      <4>2. Mul(p, a, x) = Mul(p, x, a) /\ Mul(p, Mul(p, x, a), b) = Mul(p, x, Mul(p, a, b))
        BY <1>0, <2>5, <3>1, <4>1 DEF Ring
      <4> QED
        BY <4>1, <4>2
    <3>3. Mul(p, Mul(p, n, c), Mul(p, a, b)) = Mul(p, n, Mul(p, c, Mul(p, a, b)))
      BY <1>0, <2>10, <3>1 DEF Ring
    <3>4. Mul(p, c, Mul(p, a, b)) = Mul(p, a, Mul(p, b, c))
      <4>1. Mul(p, c, Mul(p, a, b)) = Mul(p, Mul(p, a, b), c)
        BY <1>0, <2>10, <3>1 DEF Ring
      <4>2. Mul(p, Mul(p, a, b), c) = Mul(p, a, Mul(p, b, c))
        BY <1>0, <2>5, <2>10 DEF Ring
      <4> QED
        BY <4>1, <4>2
    <3> QED
      BY <3>2, <3>3, <3>4
  <2>12. Mul(p, n, Mul(p, s, o)) = Mul(p, Mul(p, s, n), o)
    <3>1. Mul(p, Mul(p, n, s), o) = Mul(p, n, Mul(p, s, o)) /\ Mul(p, n, s) = Mul(p, s, n)
      BY <1>0, <2>5, <2>10 DEF Ring
    <3> QED
      BY <3>1
  <2>13. Mul(p, H[t], O[i]) = Mul(p, S(t), O[m])
    BY <2>3, <2>4, <2>7, <2>8, <2>9, <2>11, <2>12
  <2> QED
    BY <2>1, <2>13
<1>5. 0 .. m \subseteq T
  <2> HIDE DEF T
  <2> QED
    BY <1>3, <1>4, Upward
<1>6. Mul(p, H[m], O[m - m]) = Mul(p, S(m), O[m])
  <2>1. m \in 0 .. m
    OBVIOUS
  <2> QED
    BY <1>5, <2>1
<1>7. m - m = 0 /\ Mul(p, H[m], 1) = H[m]
  BY <1>0, <1>2 DEF Ring
<1> QED
  BY <1>2, <1>6, <1>7 DEF S

LEMMA TwoHalf ==
  ASSUME NEW p, Prime(p), NEW q \in Nat, p = 8 * q + 5
  PROVE  Power(p, 2, 4 * q + 2) = p - 1
<1> DEFINE m == 2 * q + 1
           F == Prod(p, Residues(p))
           E == Prod(p, Evens(p))
           O == Prod(p, Odds(p))
           H == Prod(p, Highs(p, m))
<1>0. /\ p \in Nat /\ p >= 2 /\ Ring(p) /\ m \in Nat /\ p = 4 * m + 1 /\ 2 \in 0 .. p - 1
      /\ m + m = 2 * m /\ 2 * m = 4 * q + 2
  BY RingOf DEF Prime
<1>1. /\ Factored(p, Residues(p)) /\ Factored(p, Evens(p)) /\ Factored(p, Odds(p))
      /\ Factored(p, Highs(p, m))
  <2> HIDE DEF m
  <2> QED
    BY ONLY <1>0, Factorials
<1>2. \A g : Factored(p, g) => Products(Prod(p, g), p, g)
  BY ProdRules DEF Factored
<1>3. /\ Products(F, p, Residues(p)) /\ Products(E, p, Evens(p)) /\ Products(O, p, Odds(p))
      /\ Products(H, p, Highs(p, m))
  BY <1>1, <1>2
<1> HIDE DEF m, F, E, O, H
<1>4. E[m + m] = Mul(p, E[m], H[m])
  BY <1>0, <1>3, EvensHighs
<1>5. F[2 * m] = Mul(p, E[m], O[m])
  BY <1>0, <1>3, EvensOdds
<1>6. H[m] = Mul(p, p - 1, O[m])
  <2>1. H[m] = Mul(p, Power(p, p - 1, m), O[m])
    BY <1>0, <1>3, HighsOdds
  <2>2. Power(p, p - 1, m) = p - 1
    BY <1>0, Signs DEF m
  <2> QED
    BY <2>1, <2>2
<1>7. E[2 * m] = Mul(p, Power(p, 2, 2 * m), F[2 * m])
  <2>1. Every(2) \in [Nat -> 0 .. p - 1]
    BY <1>0 DEF Every
  <2>2. Products(Prod(p, Every(2)), p, Every(2))
    BY <1>0, <2>1, ProdRules
  <2>3. \A k \in Nat : Evens(p)[k] = Mul(p, Every(2)[k], Residues(p)[k])
    <3>1. ASSUME NEW k \in Nat PROVE (2 * k) % p = Mul(p, 2, k % p)
      <4>1. p \in Nat \ {0} /\ 2 \in Int /\ k \in Int
        BY <1>0
      <4>2. Mul(p, 2, k % p) = Mul(p, 2, k)
        BY <4>1, Reduced
      <4> QED
        BY <4>2 DEF Mul
    <3> QED
      BY <3>1 DEF Evens, Every, Residues
  <2>4. \A k \in Nat : E[k] = Mul(p, Prod(p, Every(2))[k], F[k])
    <3>1. PICK f, g, h, P : /\ f = Every(2) /\ g = Residues(p) /\ h = Evens(p)
                            /\ P = Prod(p, Every(2))
      OBVIOUS
    <3>2. f \in [Nat -> 0 .. p - 1] /\ g \in [Nat -> 0 .. p - 1]
      BY <1>1, <2>1, <3>1 DEF Factored
    <3>3. Products(P, p, f) /\ Products(F, p, g) /\ Products(E, p, h)
      BY <1>3, <2>2, <3>1
    <3>4. \A k \in Nat : h[k] = Mul(p, f[k], g[k])
      BY <2>3, <3>1
    <3>5. \A k \in Nat : E[k] = Mul(p, P[k], F[k])
      BY ONLY <1>0, <3>2, <3>3, <3>4, ProdTimes
    <3> QED
      BY <3>1, <3>5
  <2>5. 2 * m \in Nat
    BY <1>0
  <2> QED
    BY <2>4, <2>5 DEF Power
<1>8. PICK w, x, e, o : w = F[2 * m] /\ x = Power(p, 2, 2 * m) /\ e = E[m] /\ o = O[m]
  OBVIOUS
<1>9. w \in 1 .. p - 1
  <2>1. 2 * m \in Nat /\ \A k \in 1 .. 2 * m : k \in 1 .. p - 1
    BY <1>0
  <2>2. \A k \in 1 .. p - 1 : Residues(p)[k] = k
    <3>1. \A k \in 1 .. p - 1 : k % p = k /\ k \in Nat
      BY <1>0
    <3> QED
      BY <3>1 DEF Residues
  <2>3. \A k \in 1 .. 2 * m : Residues(p)[k] \in 1 .. p - 1
    BY <2>1, <2>2
  <2> QED
    BY <1>3, <1>8, <2>1, <2>3, ProdNonZero
<1>10. x \in 0 .. p - 1 /\ e \in 0 .. p - 1 /\ o \in 0 .. p - 1 /\ p - 1 \in 0 .. p - 1
  <2>1. 2 * m \in Nat
    BY <1>0
  <2>2. x \in 0 .. p - 1
    BY <1>0, <1>8, <2>1, PowerRules
  <2> QED
    BY <1>0, <1>3, <1>8, <2>2 DEF Products
<1>11. PICK n : n = p - 1
  OBVIOUS
<1>12. n \in 0 .. p - 1 /\ w \in 0 .. p - 1
  BY <1>0, <1>9, <1>11
<1>13. Mul(p, x, w) = Mul(p, e, Mul(p, n, o)) /\ w = Mul(p, e, o)
  BY <1>0, <1>4, <1>5, <1>6, <1>7, <1>8, <1>11
<1>14. Mul(p, e, Mul(p, n, o)) = Mul(p, w, n)
  <2>1. Mul(p, n, o) = Mul(p, o, n) /\ Mul(p, Mul(p, e, o), n) = Mul(p, e, Mul(p, o, n))
    BY <1>0, <1>10, <1>12 DEF Ring
  <2> QED
    BY <1>13, <2>1
<1>15. Mul(p, w, x) = Mul(p, w, n)
  <2>1. Mul(p, w, x) = Mul(p, x, w)
    BY <1>0, <1>10, <1>12 DEF Ring
  <2> QED
    BY <1>13, <1>14, <2>1
<1>16. x = n
  BY <1>9, <1>10, <1>12, <1>15, Cancel
<1> QED
  BY <1>0, <1>8, <1>11, <1>16

-----------------------------------------------------------------------------
(***************************************************************************)
(* The code's candidate: if u / v has a root at all, Root or Root times    *)
(* the root of -1 is one.                                                  *)
(***************************************************************************)
\* With v x^2 = u and t = v^4 x, u v^3 is t x and u v^7 is t^2.
CubeOf(p, v) == Mul(p, Mul(p, v, v), v)
SeventhOf(p, v) == Mul(p, Mul(p, CubeOf(p, v), CubeOf(p, v)), v)
TargetOf(p, v, x) == Mul(p, v, Mul(p, x, x))
FourthTimes(p, v, x) == Mul(p, Mul(p, Mul(p, v, v), Mul(p, v, v)), x)

Candidates(p, v, x, u, t) ==
  /\ u \in 0 .. p - 1 /\ SeventhOf(p, v) \in 0 .. p - 1 /\ t \in 0 .. p - 1
  /\ Mul(p, u, CubeOf(p, v)) = Mul(p, x, t) /\ Mul(p, u, SeventhOf(p, v)) = Mul(p, t, t)

LEMMA Candidate ==
  ASSUME NEW p, Ring(p), NEW v \in 0 .. p - 1, NEW x \in 0 .. p - 1
  PROVE  Candidates(p, v, x, TargetOf(p, v, x), FourthTimes(p, v, x))
<1>0. PICK u, t, v3, v7 : /\ u = TargetOf(p, v, x) /\ t = FourthTimes(p, v, x)
                          /\ v3 = CubeOf(p, v) /\ v7 = SeventhOf(p, v)
  OBVIOUS
<1>a. /\ u = Mul(p, v, Mul(p, x, x)) /\ v3 = Mul(p, Mul(p, v, v), v)
       /\ v7 = Mul(p, Mul(p, v3, v3), v)
       /\ t = Mul(p, Mul(p, Mul(p, v, v), Mul(p, v, v)), x)
  BY <1>0 DEF TargetOf, FourthTimes, CubeOf, SeventhOf
<1>1. PICK a, b, y : a = Mul(p, v, v) /\ b = Mul(p, a, a) /\ y = Mul(p, x, x)
  OBVIOUS
<1>2. v3 = Mul(p, a, v) /\ t = Mul(p, b, x) /\ u = Mul(p, v, y)
  BY <1>1, <1>a
<1>3. a \in 0 .. p - 1 /\ y \in 0 .. p - 1
  BY <1>1 DEF Ring
<1>4. b \in 0 .. p - 1 /\ v3 \in 0 .. p - 1 /\ u \in 0 .. p - 1
  BY <1>1, <1>2, <1>3 DEF Ring
<1>5. t \in 0 .. p - 1 /\ Mul(p, v3, v3) \in 0 .. p - 1
  BY <1>2, <1>4 DEF Ring
<1>6. v7 \in 0 .. p - 1
  BY <1>5, <1>a DEF Ring
<1>7. v7 = Mul(p, b, v3)
  <2>1. Mul(p, v3, v3) = Mul(p, b, a)
    BY <1>1, <1>2, <1>3, Swap
  <2>2. Mul(p, Mul(p, b, a), v) = Mul(p, b, Mul(p, a, v))
    BY <1>3, <1>4 DEF Ring
  <2> QED
    BY <1>2, <1>a, <2>1, <2>2
<1>8. Mul(p, v3, u) = Mul(p, t, x)
  <2>1. Mul(p, v3, u) = Mul(p, a, Mul(p, v, u))
    BY <1>2, <1>3, <1>4 DEF Ring
  <2>2. Mul(p, v, u) = Mul(p, a, y)
    <3>1. Mul(p, Mul(p, v, v), y) = Mul(p, v, Mul(p, v, y))
      BY <1>3 DEF Ring
    <3> QED
      BY <1>1, <1>2, <3>1
  <2>3. Mul(p, a, Mul(p, a, y)) = Mul(p, b, y)
    BY <1>1, <1>3 DEF Ring
  <2>4. Mul(p, b, Mul(p, x, x)) = Mul(p, Mul(p, b, x), x)
    BY <1>4 DEF Ring
  <2> QED
    BY <1>1, <1>2, <2>1, <2>2, <2>3, <2>4
<1>9. Mul(p, u, v3) = Mul(p, v3, u) /\ Mul(p, t, x) = Mul(p, x, t)
  BY <1>4, <1>5 DEF Ring
<1>10. Mul(p, u, v7) = Mul(p, t, t)
  <2>1. Mul(p, u, v7) = Mul(p, v7, u)
    BY <1>4, <1>6 DEF Ring
  <2>2. Mul(p, Mul(p, b, v3), u) = Mul(p, b, Mul(p, v3, u))
    BY <1>4 DEF Ring
  <2>3. Mul(p, b, Mul(p, x, t)) = Mul(p, Mul(p, b, x), t)
    BY <1>4, <1>5 DEF Ring
  <2> QED
    BY <1>2, <1>7, <1>8, <1>9, <2>1, <2>2, <2>3
<1> QED
  BY <1>0, <1>4, <1>5, <1>6, <1>8, <1>9, <1>10 DEF Candidates

\* Root without the code's running reductions.
LEMMA RootIs ==
  ASSUME NEW p \in Nat, p >= 2, NEW q \in Nat, p = 8 * q + 5,
         NEW u \in 0 .. p - 1, NEW v \in 0 .. p - 1
  PROVE  Root(p, u, v) = Mul(p, Mul(p, u, CubeOf(p, v)), Power(p, Mul(p, u, SeventhOf(p, v)), q))
<1>0. PICK v3, v7 : v3 = CubeOf(p, v) /\ v7 = SeventhOf(p, v)
  OBVIOUS
<1>a. v3 = Mul(p, Mul(p, v, v), v) /\ v7 = Mul(p, Mul(p, v3, v3), v)
  BY <1>0 DEF CubeOf, SeventhOf
<1>1. Ring(p) /\ p \in Nat \ {0} /\ (p - 5) \div 8 = q
  BY RingOf
<1>2. v3 \in 0 .. p - 1
  <2>1. Mul(p, v, v) \in 0 .. p - 1
    BY <1>1 DEF Ring
  <2> QED
    BY <1>1, <1>a, <2>1 DEF Ring
<1>3. \A a, b, c \in Int : Mul(p, Mul(p, a, b), c) = (a * b * c) % p
  <2>1. ASSUME NEW a \in Int, NEW b \in Int, NEW c \in Int
        PROVE  Mul(p, Mul(p, a, b), c) = (a * b * c) % p
    <3>1. a * b \in Int
      OBVIOUS
    <3>2. Mul(p, (a * b) % p, c) = Mul(p, a * b, c)
      BY <1>1, <3>1, Reduced
    <3> QED
      BY <3>2 DEF Mul
  <2> QED
    BY <2>1
<1>4. v \in Int /\ u \in Int /\ v3 \in Int
  BY <1>2
<1>5. v3 = (v * v * v) % p
  BY <1>a, <1>3, <1>4
<1>6. v7 = (v3 * v3 * v) % p
  BY <1>a, <1>3, <1>4, ZenonT(30)
<1>7. v7 \in Int /\ u * v7 \in Int
  <2>1. v7 \in 0 .. p - 1
    <3>1. Mul(p, v3, v3) \in 0 .. p - 1
      BY <1>1, <1>2 DEF Ring
    <3> QED
      BY <1>1, <1>a, <3>1 DEF Ring
  <2>2. v7 \in Int
    BY <2>1
  <2> QED
    BY <1>4, <2>2
<1>8. Pow(p, u * v7, q) = Power(p, Mul(p, u, v7), q)
  <2>1. PICK w : w = u * v7
    OBVIOUS
  <2>2. Pow(p, w, q) = Power(p, w % p, q)
    BY <1>7, <2>1, PowIs
  <2> QED
    BY <2>1, <2>2 DEF Mul
<1>9. Root(p, u, v) = (((u * v3) % p) * Pow(p, u * v7, q)) % p
  BY <1>1, <1>5, <1>6 DEF Root
<1> QED
  BY <1>0, <1>8, <1>9 DEF Mul

\* The square of the candidate, times v: u times a power of t.
LEMMA CandidateSquare ==
  ASSUME NEW p \in Nat, p >= 2, NEW q \in Nat, p = 8 * q + 5,
         NEW v \in 0 .. p - 1, NEW x \in 0 .. p - 1,
         NEW u, u = TargetOf(p, v, x), NEW t, t = FourthTimes(p, v, x)
  PROVE  /\ u \in 0 .. p - 1 /\ t \in 0 .. p - 1 /\ Root(p, u, v) \in 0 .. p - 1
         /\ Mul(p, Mul(p, v, Root(p, u, v)), Root(p, u, v)) = Mul(p, u, Power(p, t, 4 * q + 2))
<1>0. Ring(p)
  BY RingOf
<1>1. PICK v3 : v3 = CubeOf(p, v)
  OBVIOUS
<1>2. PICK v7 : v7 = SeventhOf(p, v)
  OBVIOUS
<1>3. /\ u \in 0 .. p - 1 /\ v7 \in 0 .. p - 1 /\ t \in 0 .. p - 1
      /\ Mul(p, u, v3) = Mul(p, x, t) /\ Mul(p, u, v7) = Mul(p, t, t)
  <2>1. Candidates(p, v, x, TargetOf(p, v, x), FourthTimes(p, v, x))
    BY <1>0, Candidate
  <2> QED
    BY <1>1, <1>2, <2>1 DEF Candidates
<1>4. Root(p, u, v) = Mul(p, Mul(p, x, t), Power(p, Mul(p, t, t), q))
  <2>1. Root(p, u, v) = Mul(p, Mul(p, u, v3), Power(p, Mul(p, u, v7), q))
    BY <1>1, <1>2, <1>3, RootIs
  <2> QED
    BY <1>3, <2>1
<1>5. PICK e, s, r : /\ e = Power(p, t, 2 * q + 1) /\ s = Power(p, Mul(p, t, t), q)
                     /\ r = Root(p, u, v)
  OBVIOUS
<1>6. Mul(p, t, t) \in 0 .. p - 1 /\ Mul(p, x, x) \in 0 .. p - 1
  BY <1>0, <1>3 DEF Ring
<1>7. e \in 0 .. p - 1 /\ s \in 0 .. p - 1
  <2>1. 2 * q + 1 \in Nat
    OBVIOUS
  <2> QED
    BY <1>3, <1>5, <1>6, <2>1, PowerRules
<1>8. e = Mul(p, t, s)
  BY <1>3, <1>5, PowerOdd
<1>9. r = Mul(p, x, e)
  BY <1>0, <1>3, <1>4, <1>5, <1>7, <1>8 DEF Ring
<1>10. r \in 0 .. p - 1 /\ Mul(p, r, r) \in 0 .. p - 1 /\ Mul(p, e, e) \in 0 .. p - 1
  BY <1>0, <1>7, <1>9 DEF Ring
<1>11. Mul(p, r, r) = Mul(p, Mul(p, x, x), Mul(p, e, e))
  BY <1>0, <1>7, <1>9, Swap
<1>12. Mul(p, Mul(p, v, r), r) = Mul(p, v, Mul(p, r, r))
  BY <1>0, <1>10 DEF Ring
<1>13. Mul(p, v, Mul(p, Mul(p, x, x), Mul(p, e, e))) = Mul(p, u, Mul(p, e, e))
  <2>1. PICK y, z : y = Mul(p, x, x) /\ z = Mul(p, e, e)
    OBVIOUS
  <2>2. Mul(p, Mul(p, v, y), z) = Mul(p, v, Mul(p, y, z))
    BY <1>0, <1>6, <1>10, <2>1 DEF Ring
  <2>3. u = Mul(p, v, y)
    BY <2>1 DEF TargetOf
  <2> QED
    BY <2>1, <2>2, <2>3
<1>14. Mul(p, e, e) = Power(p, t, 4 * q + 2)
  <2>1. PICK n : n = 2 * q + 1
    OBVIOUS
  <2>2. n \in Nat /\ n + n = 4 * q + 2
    BY <2>1
  <2>3. Power(p, t, n + n) = Mul(p, Power(p, t, n), Power(p, t, n))
    BY <1>3, <2>2, PowerPlus
  <2> QED
    BY <1>5, <2>1, <2>2, <2>3
<1> QED
  BY <1>3, <1>5, <1>10, <1>11, <1>12, <1>13, <1>14

\* SQRT_M1 is what its name says.
LEMMA MinusOneRoot ==
  ASSUME NEW p, Prime(p), NEW q \in Nat, p = 8 * q + 5
  PROVE  /\ SQRT_M1(p) \in 0 .. p - 1
         /\ Mul(p, SQRT_M1(p), SQRT_M1(p)) = p - 1
<1>1. PICK n : n = 2 * q + 1
  OBVIOUS
<1>2. PICK two : two = 2
  OBVIOUS
<1>3. /\ p \in Nat /\ p >= 2 /\ n \in Nat /\ n + n = 4 * q + 2 /\ (p - 1) \div 4 = n
      /\ two \in 0 .. p - 1 /\ two % p = two /\ two \in Int
  BY <1>1, <1>2 DEF Prime
<1>4. SQRT_M1(p) = Power(p, two, n)
  <2>1. Pow(p, two, n) = Power(p, two % p, n)
    BY <1>3, PowIs
  <2> QED
    BY <1>2, <1>3, <2>1 DEF SQRT_M1
<1>5. Power(p, two, n + n) = Mul(p, Power(p, two, n), Power(p, two, n))
  BY <1>3, PowerPlus
<1>6. Power(p, two, n + n) = p - 1
  BY <1>2, <1>3, TwoHalf
<1>7. Power(p, two, n) \in 0 .. p - 1
  BY <1>3, PowerRules
<1> QED
  BY <1>4, <1>5, <1>6, <1>7

\* The code's test of the two candidates.
Tests(p, u, v) ==
  LET x == Root(p, u, v)
  IN  \/ IsRoot(p, x, u, v)
      \/ /\ IsRoot(p, x, -u, v)
         /\ IsRoot(p, (x * SQRT_M1(p)) % p, u, v)

\* In the terms of the ring.
LEMMA IsRootMul ==
  ASSUME NEW p \in Nat, p >= 2, NEW x, NEW u \in 0 .. p - 1, NEW v
  PROVE  /\ IsRoot(p, x, u, v) <=> Mul(p, Mul(p, v, x), x) = u
         /\ IsRoot(p, x, -u, v) <=> Mul(p, Mul(p, v, x), x) = Mul(p, u, p - 1)
<1>1. u % p = u
  OBVIOUS
<1>2. (-u) % p = Mul(p, u, p - 1)
  <2>1. p \in Nat \ {0} /\ -u \in Int /\ u \in Int /\ u * (p - 1) = -u + p * u
    OBVIOUS
  <2>2. (-u + p * u) % p = (-u) % p
    BY <2>1, Shift
  <2> QED
    BY <2>1, <2>2 DEF Mul
<1> QED
  BY <1>1, <1>2 DEF IsRoot, Mul

\* Minus one is its own inverse.
LEMMA MinusOneSquare ==
  ASSUME NEW p \in Nat, p >= 2 PROVE Mul(p, p - 1, p - 1) = 1
<1>1. PICK n : n = p - 1
  OBVIOUS
<1>2. n \in 1 .. p - 1 /\ p - n = 1
  BY <1>1
<1>3. Mul(p, p - 1, n) = p - n
  BY <1>2, Negate
<1> QED
  BY <1>1, <1>2, <1>3

LEMMA TestFindsRoot ==
  ASSUME NEW p, Prime(p), NEW q \in Nat, p = 8 * q + 5, NEW u \in 0 .. p - 1,
         NEW v \in 0 .. p - 1, NEW x \in 0 .. p - 1, IsRoot(p, x, u, v)
  PROVE  Tests(p, u, v)
<1>0. /\ p \in Nat /\ p >= 2 /\ Ring(p) /\ 4 * q + 2 \in Nat /\ p = 2 * (4 * q + 2) + 1
      /\ p \in Nat \ {0}
  BY RingOf DEF Prime
<1>1. u = TargetOf(p, v, x)
  <2>0. u % p = u
    BY <1>0
  <2>1. Mul(p, Mul(p, v, x), x) = u
    BY <2>0 DEF IsRoot, Mul
  <2>2. Mul(p, Mul(p, v, x), x) = Mul(p, v, Mul(p, x, x))
    BY <1>0 DEF Ring
  <2> QED
    BY <2>1, <2>2 DEF TargetOf
<1>2. PICK t, r, i, s, n : /\ t = FourthTimes(p, v, x) /\ r = Root(p, u, v) /\ i = SQRT_M1(p)
                           /\ s = Power(p, t, 4 * q + 2) /\ n = p - 1
  OBVIOUS
<1>3. t \in 0 .. p - 1 /\ r \in 0 .. p - 1 /\ Mul(p, Mul(p, v, r), r) = Mul(p, u, s)
  BY <1>0, <1>1, <1>2, CandidateSquare
<1>4. i \in 0 .. p - 1 /\ Mul(p, i, i) = n /\ n \in 0 .. p - 1
  BY <1>0, <1>2, MinusOneRoot
<1>5. s \in 0 .. p - 1
  BY <1>0, <1>2, <1>3, PowerRules
<1>6. CASE u = 0
  <2>1. Mul(p, Mul(p, v, r), r) = u
    BY <1>0, <1>3, <1>5, <1>6 DEF Ring
  <2> QED
    BY <1>0, <1>2, <2>1, IsRootMul DEF Tests
<1>7. CASE u # 0
  <2>1. v \in 1 .. p - 1
    <3>1. v # 0
      <4>1. Mul(p, x, x) \in 0 .. p - 1
        BY <1>0 DEF Ring
      <4>2. Mul(p, 0, Mul(p, x, x)) = 0
        BY <1>0, <4>1 DEF Ring
      <4> QED
        BY <1>1, <1>7, <4>2 DEF TargetOf
    <3> QED
      BY <3>1
  <2>2. x \in 1 .. p - 1
    <3>1. x # 0
      <4>1. Mul(p, v, 0) = 0 /\ Mul(p, 0, 0) = 0
        BY <1>0 DEF Ring
      <4> QED
        BY <1>1, <1>7, <4>1 DEF TargetOf
    <3> QED
      BY <3>1
  <2>3. PICK a, b : a = Mul(p, v, v) /\ b = Mul(p, a, a)
    OBVIOUS
  <2>4. a \in 1 .. p - 1
    BY <2>1, <2>3, NonZero
  <2>5. b \in 1 .. p - 1
    BY <2>3, <2>4, NonZero
  <2>6. t = Mul(p, b, x)
    BY <1>2, <2>3 DEF FourthTimes
  <2>7. t \in 1 .. p - 1
    BY <2>2, <2>5, <2>6, NonZero
  <2>8. s = 1 \/ s = n
    <3>1. PICK h : h = 4 * q + 2
      OBVIOUS
    <3>2. h \in Nat /\ p = 2 * h + 1
      BY <1>0, <3>1
    <3>3. Power(p, t, h) = 1 \/ Power(p, t, h) = p - 1
      BY <2>7, <3>2, HalfPower
    <3> QED
      BY <1>2, <3>1, <3>3
  <2>9. CASE s = 1
    <3>1. Mul(p, Mul(p, v, r), r) = u
      BY <1>0, <1>3, <2>9 DEF Ring
    <3> QED
      BY <1>0, <1>2, <3>1, IsRootMul DEF Tests
  <2>10. CASE s = n
    <3>1. IsRoot(p, r, -u, v)
      BY <1>0, <1>2, <1>3, <2>10, IsRootMul
    <3>2. PICK z : z = Mul(p, r, i)
      OBVIOUS
    <3>3. z \in 0 .. p - 1 /\ Mul(p, r, r) \in 0 .. p - 1 /\ Mul(p, z, z) \in 0 .. p - 1
      BY <1>0, <1>3, <1>4, <3>2 DEF Ring
    <3>4. Mul(p, z, z) = Mul(p, Mul(p, r, r), n)
      BY <1>0, <1>3, <1>4, <3>2, Swap
    <3>5. Mul(p, Mul(p, v, z), z) = Mul(p, v, Mul(p, z, z))
      BY <1>0, <3>3 DEF Ring
    <3>6. Mul(p, v, Mul(p, Mul(p, r, r), n)) = Mul(p, Mul(p, v, Mul(p, r, r)), n)
      BY <1>0, <1>4, <3>3 DEF Ring
    <3>7. Mul(p, v, Mul(p, r, r)) = Mul(p, u, n)
      <4>1. Mul(p, Mul(p, v, r), r) = Mul(p, v, Mul(p, r, r))
        BY <1>0, <1>3 DEF Ring
      <4> QED
        BY <1>3, <2>10, <4>1
    <3>8. Mul(p, Mul(p, u, n), n) = u
      <4>1. Mul(p, Mul(p, u, n), n) = Mul(p, u, Mul(p, n, n))
        BY <1>0, <1>4 DEF Ring
      <4>2. Mul(p, n, n) = 1
        BY <1>0, <1>2, MinusOneSquare
      <4>3. Mul(p, u, 1) = u
        BY <1>0 DEF Ring
      <4> QED
        BY <4>1, <4>2, <4>3
    <3>9. Mul(p, Mul(p, v, z), z) = u
      BY <3>4, <3>5, <3>6, <3>7, <3>8
    <3>10. IsRoot(p, z, u, v)
      BY <1>0, <3>9, IsRootMul
    <3>11. z = (r * i) % p
      BY <3>2 DEF Mul
    <3> QED
      BY <1>2, <3>1, <3>10, <3>11 DEF Tests
  <2> QED
    BY <2>8, <2>9, <2>10
<1> QED
  BY <1>6, <1>7

\* The test is exact.
LEMMA TestIsExact ==
  ASSUME NEW p, Prime(p), NEW q \in Nat, p = 8 * q + 5, NEW u \in 0 .. p - 1,
         NEW v \in 0 .. p - 1
  PROVE  Tests(p, u, v) <=> \E x \in 0 .. p - 1 : IsRoot(p, x, u, v)
<1>1. ASSUME NEW x \in 0 .. p - 1, IsRoot(p, x, u, v) PROVE Tests(p, u, v)
  BY <1>1, TestFindsRoot
<1>2. ASSUME Tests(p, u, v) PROVE \E x \in 0 .. p - 1 : IsRoot(p, x, u, v)
  <2>0. p \in Nat /\ p >= 2 /\ Ring(p)
    BY RingOf DEF Prime
  <2>1. PICK r, i : r = Root(p, u, v) /\ i = SQRT_M1(p)
    OBVIOUS
  <2>2. i \in 0 .. p - 1
    BY <2>1, MinusOneRoot
  <2>3. r \in 0 .. p - 1
    <3>1. /\ CubeOf(p, v) \in 0 .. p - 1 /\ SeventhOf(p, v) \in 0 .. p - 1
      <4>1. PICK c, d : c = CubeOf(p, v) /\ d = Mul(p, v, v)
        OBVIOUS
      <4>2. d \in 0 .. p - 1
        BY <2>0, <4>1 DEF Ring
      <4>3. c \in 0 .. p - 1
        BY <2>0, <4>1, <4>2 DEF Ring, CubeOf
      <4>4. Mul(p, c, c) \in 0 .. p - 1
        BY <2>0, <4>3 DEF Ring
      <4> QED
        BY <2>0, <4>1, <4>3, <4>4 DEF Ring, SeventhOf
    <3>2. Mul(p, u, CubeOf(p, v)) \in 0 .. p - 1 /\ Mul(p, u, SeventhOf(p, v)) \in 0 .. p - 1
      BY <2>0, <3>1 DEF Ring
    <3>3. Power(p, Mul(p, u, SeventhOf(p, v)), q) \in 0 .. p - 1
      BY <2>0, <3>2, PowerRules
    <3>4. r = Mul(p, Mul(p, u, CubeOf(p, v)), Power(p, Mul(p, u, SeventhOf(p, v)), q))
      BY <2>0, <2>1, RootIs
    <3> QED
      BY <2>0, <3>2, <3>3, <3>4 DEF Ring
  <2>4. (r * i) % p \in 0 .. p - 1
    BY <2>0, <2>2, <2>3 DEF Ring, Mul
  <2> QED
    BY <1>2, <2>1, <2>3, <2>4 DEF Tests
<1> QED
  BY <1>1, <1>2

-----------------------------------------------------------------------------
(***************************************************************************)
(* The code solves v x^2 = u for the x of a point with the given y.        *)
(***************************************************************************)
LEMMA Polynomial ==
  ASSUME NEW d \in Int, NEW x \in Int, NEW y \in Int
  PROVE  (y * y - 1) - (d * (y * y) + 1) * x * x = y * y - x * x - 1 - d * x * x * y * y
<1>1. PICK a, b : a = x * x /\ b = y * y
  OBVIOUS
<1>2. a \in Int /\ b \in Int
  BY <1>1
<1>3. (d * b + 1) * x * x = (d * b + 1) * a
  BY <1>1, <1>2
<1>4. (d * b + 1) * a = d * b * a + a
  BY <1>2
<1>5. d * x * x * y * y = d * a * b
  BY <1>1, <1>2
<1>6. d * b * a = d * a * b
  BY <1>2
<1> QED
  BY <1>1, <1>2, <1>3, <1>4, <1>5, <1>6

PointAt(p, d, x, y) ==
  (y * y - x * x - 1 - d * x * x * y * y) % p = 0
    <=> IsRoot(p, x, (y * y - 1) % p, (d * ((y * y) % p) + 1) % p)

LEMMA PointIsRoot ==
  ASSUME NEW p \in Nat \ {0}, NEW d \in Int, NEW x \in Int, NEW y \in Int
  PROVE  PointAt(p, d, x, y)
<1>1. PICK Y, W, V, U, v, u : /\ Y = y * y /\ W = d * (Y % p) + 1 /\ V = d * Y + 1 /\ U = Y - 1
                              /\ v = W % p /\ u = U % p
  OBVIOUS
<1>2. Y \in Int /\ U \in Int
  BY <1>1
<1>3. Y % p \in Int /\ Same(p, Y % p, Y)
  BY <1>2, SameMod
<1>4. d * (Y % p) \in Int /\ d * Y \in Int /\ W \in Int /\ V \in Int
  BY <1>1, <1>2, <1>3
<1>5. Same(p, W, V)
  <2>1. Same(p, d * (Y % p), d * Y)
    BY <1>2, <1>3, SameTimes
  <2>2. Same(p, 1, 1)
    <3>1. 1 = 1 + p * 0
      OBVIOUS
    <3> QED
      BY <3>1 DEF Same
  <2>3. Same(p, d * (Y % p) + 1, d * Y + 1)
    BY <1>4, <2>1, <2>2, SamePlus
  <2> QED
    BY <1>1, <2>3
<1>6. v \in Int /\ Same(p, v, V)
  <2>1. W % p \in Int /\ Same(p, W % p, W)
    BY <1>4, SameMod
  <2> QED
    BY <1>1, <1>4, <1>5, <2>1, SameTrans
<1>7. PICK a, b, r, g, h : /\ a = v * x /\ b = V * x /\ r = a % p /\ g = r * x /\ h = b * x
  OBVIOUS
<1>8. a \in Int /\ b \in Int /\ Same(p, a, b)
  <2>1. Same(p, v * x, V * x)
    BY ONLY <1>4, <1>6, p \in Nat \ {0}, x \in Int, SameTimes
  <2> QED
    BY <1>4, <1>6, <1>7, <2>1
<1>9. g \in Int /\ h \in Int /\ Same(p, g, h)
  <2>1. r \in Int /\ Same(p, r, a)
    BY <1>7, <1>8, SameMod
  <2>2. Same(p, r, b)
    BY <1>8, <2>1, SameTrans
  <2>3. Same(p, r * x, b * x)
    BY ONLY <1>8, <2>1, <2>2, p \in Nat \ {0}, x \in Int, SameTimes
  <2> QED
    BY <1>7, <1>8, <2>1, <2>3
<1>10. (((v * x) % p) * x) % p = (V * x * x) % p
  <2>1. g % p = h % p
    BY <1>9, SameResidue
  <2> QED
    BY <1>7, <2>1
<1>11. u % p = U % p
  <2>1. U % p \in Int /\ Same(p, U % p, U)
    BY <1>2, SameMod
  <2> QED
    BY <1>1, <1>2, <2>1, SameResidue
<1>12. PICK Q : Q = V * x * x
  OBVIOUS
<1>13. Q \in Int /\ U - Q \in Int
  BY <1>2, <1>7, <1>9, <1>12
<1>14. Q % p = U % p <=> (U - Q) % p = 0
  <2>1. Q % p = U % p <=> Same(p, Q, U)
    BY <1>2, <1>13, SameResidue
  <2>2. (U - Q) % p = 0 % p <=> Same(p, U - Q, 0)
    <3>1. PICK z, w : z = 0 /\ w = U - Q
      OBVIOUS
    <3>2. z \in Int /\ w \in Int
      BY <1>13, <3>1
    <3>3. w % p = z % p <=> Same(p, w, z)
      BY <3>2, SameResidue
    <3> QED
      BY <3>1, <3>3
  <2>3. 0 % p = 0
    OBVIOUS
  <2>4. ASSUME Same(p, Q, U) PROVE Same(p, U - Q, 0)
    <3>1. PICK k \in Int : Q = U + p * k
      BY <2>4 DEF Same
    <3>2. -k \in Int /\ p * (-k) = -(p * k) /\ p * k \in Int
      OBVIOUS
    <3>3. U - Q = 0 + p * (-k)
      BY <1>2, <1>13, <3>1, <3>2
    <3> QED
      BY <3>2, <3>3 DEF Same
  <2>5. ASSUME Same(p, U - Q, 0) PROVE Same(p, Q, U)
    <3>1. PICK k \in Int : U - Q = 0 + p * k
      BY <2>5 DEF Same
    <3>2. -k \in Int /\ p * (-k) = -(p * k) /\ p * k \in Int
      OBVIOUS
    <3>3. Q = U + p * (-k)
      BY <1>2, <1>13, <3>1, <3>2
    <3> QED
      BY <3>2, <3>3 DEF Same
  <2> QED
    BY <2>1, <2>2, <2>3, <2>4, <2>5
<1>15. U - Q = y * y - x * x - 1 - d * x * x * y * y
  <2>1. (y * y - 1) - (d * (y * y) + 1) * x * x = y * y - x * x - 1 - d * x * x * y * y
    BY Polynomial
  <2> QED
    BY <1>1, <1>12, <2>1
<1>16. IsRoot(p, x, u, v) <=> Q % p = U % p
  BY <1>10, <1>11, <1>12 DEF IsRoot
<1> QED
  BY <1>1, <1>14, <1>15, <1>16 DEF PointAt

\* What CurvesAssumption says of one curve.
LEMMA CurveRules ==
  ASSUME NEW c \in Curves
  PROVE  Prime(c.p) /\ c.d \in Nat /\ c.size \in Nat \ {0} /\ \E q \in Nat : c.p = 8 * q + 5
<1>1. /\ c.p \in Nat /\ c.p % 8 = 5 /\ \A n \in 2 .. c.p - 1 : c.p % n # 0
      /\ c.d \in Nat /\ c.size \in Nat \ {0}
  BY CurvesAssumption
<1>2. PICK p : p = c.p
  OBVIOUS
<1>3. p \in Nat /\ p % 8 = 5
  BY <1>1, <1>2
<1>4. p = 8 * (p \div 8) + 5 /\ p \div 8 \in Nat
  BY <1>3
<1>5. p >= 2
  BY <1>4
<1> QED
  BY <1>1, <1>2, <1>4, <1>5 DEF Prime

\* The number of a digest without its last bit is a number.
LEMMA EncodedNat ==
  ASSUME NEW n \in Nat \ {0}, NEW digest \in [1 .. n -> 0 .. 255]
  PROVE  digest \in Seq(0 .. 255) /\ Len(digest) = n /\ Encoded(digest) \in Nat
<1>1. digest \in Seq(0 .. 255) /\ Len(digest) = n
  OBVIOUS
<1>2. PICK e : e = [digest EXCEPT ![Len(digest)] = @ % 128]
  OBVIOUS
<1>3. e \in Seq(0 .. 255)
  <2>1. digest[n] \in 0 .. 255
    OBVIOUS
  <2>2. digest[n] % 128 \in 0 .. 255
    <3>1. \A b \in 0 .. 255 : b % 128 \in 0 .. 255
      OBVIOUS
    <3> QED
      BY <2>1, <3>1
  <2>3. e \in [1 .. n -> 0 .. 255]
    BY <1>1, <1>2, <2>2
  <2> QED
    BY <2>3
<1>4. Reverse(e) \in Seq(0 .. 255)
  BY <1>3, Reversed
<1>5. PICK base : base = 256
  OBVIOUS
<1>6. Value(base, Reverse(e)) \in Nat
  <2>1. Reverse(e) \in Seq(Nat)
    <3>1. PICK s, X : s = Reverse(e) /\ X = 0 .. 255
      OBVIOUS
    <3>2. s \in Seq(X) /\ X \subseteq Nat
      BY <1>4, <3>1
    <3>3. \A i \in 1 .. Len(s) : s[i] \in X
      BY <3>2, Element
    <3>4. \A i \in 1 .. Len(s) : s[i] \in Nat
      BY <3>2, <3>3
    <3>5. s \in Seq(Nat)
      BY ONLY <3>2, <3>4, SeqIn
    <3> QED
      BY <3>1, <3>5
  <2> QED
    BY <1>5, <2>1, ValueNat
<1> QED
  BY <1>1, <1>2, <1>5, <1>6 DEF Encoded

\* isOnCurve takes a digest for an address with a private key exactly when its number, without the
\* sign bit, is the y of a point of the curve (solana.mjs:90-113).
THEOREM OnCurveIsKey ==
  ASSUME NEW c \in Curves, NEW digest \in [1 .. c.size -> 0 .. 255]
  PROVE  isOnCurve(c, digest) <=> IsKey(c, digest)
<1>1. Prime(c.p) /\ c.d \in Nat /\ c.size \in Nat \ {0}
  BY CurveRules
<1>2. PICK q \in Nat : c.p = 8 * q + 5
  BY CurveRules
<1>3. PICK y, p, d, u, v : /\ y = Encoded(digest) /\ p = c.p /\ d = c.d
                           /\ u = (y * y - 1) % p /\ v = (d * ((y * y) % p) + 1) % p
  OBVIOUS
<1>4. y \in Nat
  BY <1>1, <1>3, EncodedNat
<1>5. Prime(p) /\ p \in Nat \ {0} /\ d \in Int /\ y \in Int /\ p = 8 * q + 5
  BY <1>1, <1>2, <1>3, <1>4, SMTT(30) DEF Prime
<1>6. u \in 0 .. p - 1 /\ v \in 0 .. p - 1
  <2>1. y * y \in Int /\ y * y - 1 \in Int
    BY <1>5
  <2>2. (y * y) % p \in Int
    BY <1>5, <2>1
  <2>3. d * ((y * y) % p) + 1 \in Int
    BY <1>5, <2>2
  <2> QED
    BY <1>3, <1>5, <2>1, <2>3, SameMod
<1>7. Tests(p, u, v) <=> \E x \in 0 .. p - 1 : IsRoot(p, x, u, v)
  BY <1>5, <1>6, TestIsExact
<1>8. ASSUME NEW x \in 0 .. p - 1
      PROVE  (y * y - x * x - 1 - d * x * x * y * y) % p = 0 <=> IsRoot(p, x, u, v)
  <2>1. x \in Int
    OBVIOUS
  <2> QED
    <3>1. PointAt(p, d, x, y)
      BY <1>5, <2>1, PointIsRoot
    <3> QED
      BY <1>3, <3>1 DEF PointAt
<1>9. HasPoint(c, y) <=> Tests(p, u, v)
  BY <1>3, <1>7, <1>8 DEF HasPoint
<1>10. isOnCurve(c, digest) <=> y < p /\ Tests(p, u, v)
  BY <1>3 DEF isOnCurve, Tests
<1> QED
  BY <1>3, <1>9, <1>10 DEF IsKey

-----------------------------------------------------------------------------
(***************************************************************************)
(* The search, from the top bump down.                                     *)
(***************************************************************************)
Digests == [1 .. curve.size -> 0 .. 255]

\* The digests tried, up to the n-th, are all keys.
KeysUpTo(n) == \A i \in 1 .. n : IsKey(curve, digests[i])

Searching ==
  found.is = "pending" =>
    /\ found = Pending /\ bump = MaxBump - Len(digests) /\ bump >= -1
    /\ valid => KeysUpTo(Len(digests))

Found ==
  found.is = "address" =>
    LET n == Len(digests)
    IN  /\ n >= 1 /\ found.bump = MaxBump - (n - 1)
        /\ b58decode(found.address) = digests[n]
        /\ ~IsKey(curve, digests[n]) /\ KeysUpTo(n - 1)

GaveUp ==
  found.is = "none" /\ valid => Len(digests) = MaxBump + 1 /\ KeysUpTo(Len(digests))

SearchInv ==
  /\ curve \in Curves /\ valid \in BOOLEAN /\ digests \in Seq(Digests)
  /\ Searching /\ Found /\ GaveUp

\* What one try answers.
LEMMA Tried ==
  ASSUME curve \in Curves, NEW digest \in Digests
  PROVE  /\ createProgramAddress(digest) = Throws => (valid => IsKey(curve, digest))
         /\ createProgramAddress(digest) # Throws =>
              /\ valid /\ ~IsKey(curve, digest)
              /\ b58decode(createProgramAddress(digest)) = digest
<1>1. PICK n : n = curve.size
  OBVIOUS
<1>2. n \in Nat \ {0} /\ digest \in [1 .. n -> 0 .. 255]
  BY <1>1, CurveRules DEF Digests
<1>3. digest \in Seq(0 .. 255)
  BY <1>2, EncodedNat
<1>4. b58encode(digest) \in Seq(0 .. 57) /\ b58decode(b58encode(digest)) = digest
  BY <1>3, Encodes
<1>5. b58encode(digest) # Throws
  <2>1. SUFFICES ASSUME b58encode(digest) = Throws PROVE FALSE
    OBVIOUS
  <2>2. PICK s, X : s = b58encode(digest) /\ X = 0 .. 57
    OBVIOUS
  <2>3. s \in Seq(X) /\ 1 \in 1 .. Len(s) /\ s[1] = -1
    BY <1>4, <2>1, <2>2 DEF Throws
  <2>4. s[1] \in X
    BY <2>3, Element
  <2> QED
    BY <2>2, <2>3, <2>4
<1>6. isOnCurve(curve, digest) <=> IsKey(curve, digest)
  BY <1>1, <1>2, OnCurveIsKey
<1> QED
  BY <1>4, <1>5, <1>6 DEF createProgramAddress

LEMMA TryBumpKeeps ==
  ASSUME SearchInv, TryBump PROVE SearchInv'
<1>1. PICK digest \in Digests :
        /\ digests' = Append(digests, digest)
        /\ IF createProgramAddress(digest) = Throws
             THEN bump' = bump - 1 /\ UNCHANGED found
             ELSE /\ found' = [is |-> "address", address |-> createProgramAddress(digest),
                                bump |-> bump]
                  /\ UNCHANGED bump
  BY DEF TryBump, Digests
<1>2. /\ found = Pending /\ bump = MaxBump - Len(digests) /\ bump >= 0
      /\ found.is = "pending" /\ valid => KeysUpTo(Len(digests))
  BY DEF TryBump, SearchInv, Searching
<1>3. /\ curve \in Curves /\ curve' = curve /\ valid' = valid /\ valid \in BOOLEAN
      /\ digests \in Seq(Digests) /\ Digests' = Digests
  BY DEF TryBump, SearchInv, Digests
<1>4. PICK n, D : n = Len(digests) /\ D = Digests
  OBVIOUS
<1>5. /\ n \in Nat /\ digests \in Seq(D) /\ digest \in D /\ MaxBump \in Nat
      /\ bump = MaxBump - n
  BY <1>2, <1>3, <1>4, CurvesAssumption
<1>6. /\ digests' \in Seq(D) /\ Len(digests') = n + 1 /\ digests'[n + 1] = digest
      /\ \A i \in 1 .. n : digests'[i] = digests[i]
  BY <1>1, <1>4, <1>5
<1>7. valid => \A i \in 1 .. n : IsKey(curve', digests'[i])
  <2>1. ASSUME valid, NEW i \in 1 .. n PROVE IsKey(curve', digests'[i])
    <3>1. KeysUpTo(n)
      <4>1. valid => KeysUpTo(Len(digests))
        BY DEF TryBump, SearchInv, Searching
      <4> QED
        BY <1>4, <2>1, <4>1, Zenon
    <3>2. IsKey(curve, digests[i])
      BY <3>1 DEF KeysUpTo
    <3> QED
      BY <1>3, <1>6, <3>2
  <2> QED
    BY <2>1
<1>8. CASE createProgramAddress(digest) = Throws
  <2>1. bump' = bump - 1 /\ found' = found
    BY <1>1, <1>8
  <2>2. valid => IsKey(curve', digests'[n + 1])
    BY <1>3, <1>6, <1>8, Tried
  <2>3. \A i \in 1 .. n + 1 : i \in 1 .. n \/ i = n + 1
    BY <1>5
  <2>4. valid => \A i \in 1 .. n + 1 : IsKey(curve', digests'[i])
    BY <1>7, <2>2, <2>3
  <2>5. valid' => KeysUpTo(Len(digests))'
    BY <1>3, <1>6, <2>4 DEF KeysUpTo
  <2>6. bump' = MaxBump - Len(digests') /\ bump' >= -1
    BY <1>2, <1>5, <1>6, <2>1
  <2>7. Searching'
    BY <1>2, <2>1, <2>5, <2>6 DEF Searching, Pending
  <2>8. found'.is = "pending"
    <3>1. found' = [is |-> "pending", address |-> <<>>, bump |-> MaxBump]
      BY <1>2, <2>1 DEF Pending
    <3> QED
      BY <3>1
  <2> QED
    BY <1>3, <1>4, <1>6, <2>7, <2>8 DEF SearchInv, Found, GaveUp
<1>9. CASE createProgramAddress(digest) # Throws
  <2>1. found' = [is |-> "address", address |-> createProgramAddress(digest), bump |-> bump]
    BY <1>1, <1>9
  <2>2. /\ valid /\ ~IsKey(curve, digest) /\ b58decode(createProgramAddress(digest)) = digest
    BY <1>3, <1>9, Tried
  <2>3. /\ found'.is = "address" /\ found'.bump = bump
        /\ b58decode(found'.address) = digests'[n + 1]
    BY <1>6, <2>1, <2>2
  <2>4. ~IsKey(curve', digests'[n + 1])
    BY <1>3, <1>6, <2>2
  <2>5. KeysUpTo(n)'
    BY <1>4, <1>7, <2>2 DEF KeysUpTo
  <2>6. Found'
    <3>1. PICK m : m = Len(digests')
      OBVIOUS
    <3>2. m = n + 1 /\ m >= 1 /\ m - 1 = n /\ found'.bump = MaxBump - (m - 1)
      BY <1>5, <1>6, <2>3, <3>1
    <3>3. \A i \in 1 .. m - 1 : IsKey(curve', digests'[i])
      BY <1>7, <2>2, <3>2
    <3> QED
      BY <2>3, <2>4, <3>1, <3>2, <3>3 DEF Found, KeysUpTo
  <2> QED
    BY <1>3, <1>4, <1>6, <2>3, <2>6 DEF SearchInv, Searching, GaveUp
<1> QED
  BY <1>8, <1>9

LEMMA GiveUpKeeps ==
  ASSUME SearchInv, GiveUp PROVE SearchInv'
<1>1. /\ found = Pending /\ bump = MaxBump - Len(digests) /\ bump >= -1 /\ bump < 0
      /\ valid => KeysUpTo(Len(digests))
  BY DEF GiveUp, SearchInv, Searching
<1>2. /\ curve' = curve /\ valid' = valid /\ digests' = digests
      /\ curve \in Curves /\ valid \in BOOLEAN /\ digests \in Seq(Digests) /\ Digests' = Digests
  BY DEF GiveUp, SearchInv, Digests
<1>3. found'.is = "none"
  BY <1>1 DEF GiveUp, Pending
<1>4. Len(digests) = MaxBump + 1
  <2>1. Len(digests) \in Nat /\ MaxBump \in Nat
    BY <1>2, CurvesAssumption
  <2> QED
    BY <1>1, <2>1
<1>5. GaveUp'
  BY <1>1, <1>2, <1>4 DEF GaveUp, KeysUpTo
<1> QED
  BY <1>2, <1>3, <1>5 DEF SearchInv, Searching, Found

LEMMA SearchHolds == AddressSpec => []SearchInv
<1>1. AddressInit => SearchInv
  <2>1. SUFFICES ASSUME AddressInit PROVE SearchInv
    OBVIOUS
  <2>2. /\ curve \in Curves /\ valid \in BOOLEAN /\ digests = <<>> /\ found = Pending
        /\ bump = MaxBump /\ Len(digests) = 0 /\ found.is = "pending" /\ MaxBump \in Nat
    BY <2>1, CurvesAssumption DEF AddressInit, Pending
  <2>3. digests \in Seq(Digests) /\ KeysUpTo(Len(digests))
    BY <2>2 DEF KeysUpTo
  <2> QED
    BY <2>2, <2>3 DEF SearchInv, Searching, Found, GaveUp
<1>2. ASSUME SearchInv, [AddressNext]_addressVars PROVE SearchInv'
  <2>1. CASE TryBump
    BY <1>2, <2>1, TryBumpKeeps
  <2>2. CASE GiveUp
    BY <1>2, <2>2, GiveUpKeeps
  <2>3. CASE UNCHANGED <<curve, valid, bump, digests, found>>
    BY <1>2, <2>3 DEF SearchInv, Searching, Found, GaveUp, KeysUpTo, Digests
  <2> QED
    BY <1>2, <2>1, <2>2, <2>3 DEF AddressNext, ReadByte, ReadChar, addressVars
<1> QED
  BY <1>1, <1>2, PTL DEF AddressSpec

\* The address found for a program is the y of no point of the curve, so no private key signs for
\* it, and it is the first such bump from the top; with good arguments the search gives up only
\* when every bump gives a point (solana.mjs:61-62, 129-138).
THEOREM NoKey == AddressSpec => []PdaHasNoKey
<1>1. SearchInv => PdaHasNoKey
  <2>1. SUFFICES ASSUME SearchInv PROVE PdaHasNoKey
    OBVIOUS
  <2>2. PICK n : n = Len(digests)
    OBVIOUS
  <2>3. n \in Nat /\ digests \in Seq(Digests) /\ DOMAIN digests = 1 .. n
    BY <2>1, <2>2 DEF SearchInv
  <2>4. ASSUME found.is = "address"
        PROVE  /\ b58decode(found.address) = Last(digests) /\ ~IsKey(curve, Last(digests))
               /\ found.bump = MaxBump - Len(Front(digests))
               /\ \A i \in DOMAIN Front(digests) : IsKey(curve, digests[i])
    <3>1. /\ n >= 1 /\ found.bump = MaxBump - (n - 1)
          /\ b58decode(found.address) = digests[n]
          /\ ~IsKey(curve, digests[n]) /\ KeysUpTo(n - 1)
      BY <2>1, <2>2, <2>4 DEF SearchInv, Found
    <3>2. Last(digests) = digests[n]
      BY <2>2 DEF Last
    <3>3. DOMAIN Front(digests) = 1 .. n - 1 /\ Len(Front(digests)) = n - 1
      BY <2>2, <2>3, <3>1 DEF Front
    <3> QED
      BY <3>1, <3>2, <3>3 DEF KeysUpTo
  <2>5. ASSUME found.is = "none", valid
        PROVE  Len(digests) = MaxBump + 1 /\ \A i \in DOMAIN digests : IsKey(curve, digests[i])
    BY <2>1, <2>2, <2>3, <2>5 DEF SearchInv, GaveUp, KeysUpTo
  <2> QED
    BY <2>4, <2>5 DEF PdaHasNoKey
<1> QED
  BY <1>1, SearchHolds, PTL

=============================================================================
