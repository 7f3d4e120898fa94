---------------------------- MODULE CommonLemmas ----------------------------
(***************************************************************************)
(* Facts about numbers and finite sets that several of the proofs need.    *)
(* Induction has a set in the place of a predicate: the intervals 0..n are *)
(* ordered by inclusion, which is well founded.                            *)
(***************************************************************************)
EXTENDS Integers, FiniteSets, FiniteSetTheorems, TLAPS

\* A set of naturals that is not empty has a least element.
LEMMA LeastNatural ==
  ASSUME NEW B \in SUBSET Nat, B # {}
  PROVE  \E m \in B : \A k \in B : m <= k
<1> DEFINE T == {0..n : n \in B}
<1>1. \A n \in Nat : 0..n \in FiniteSubsetsOf(Nat)
  BY FS_Interval DEF FiniteSubsetsOf
<1>2. T \subseteq FiniteSubsetsOf(Nat) /\ T # {}
  BY <1>1
<1>3. PICK x \in T : \A y \in T : <<y, x>> \notin StrictSubsetOrdering(Nat)
  <2>1. IsWellFoundedOn(StrictSubsetOrdering(Nat), FiniteSubsetsOf(Nat))
    BY FS_StrictSubsetOrderingWellFounded
  <2> HIDE DEF T
  <2> QED
    BY <1>2, <2>1, WFMin
<1>4. PICK m \in B : x = 0..m
  BY <1>3
<1>5. ASSUME NEW k \in B PROVE m <= k
  <2>1. SUFFICES ASSUME k < m PROVE FALSE
    OBVIOUS
  <2>2. 0..k \in T /\ 0..k \subseteq 0..m /\ 0..k # 0..m
    <3>1. m \in 0..m /\ m \notin 0..k
      BY <2>1
    <3>2. 0..k \subseteq 0..m
      BY <2>1
    <3> QED
      BY <3>1, <3>2
  <2>3. <<0..k, 0..m>> \in StrictSubsetOrdering(Nat)
    BY <2>2 DEF StrictSubsetOrdering
  <2> QED
    BY <1>3, <1>4, <2>2, <2>3
<1> QED
  BY <1>5

\* Induction up to n.
LEMMA UpTo ==
  ASSUME NEW n \in Nat, NEW T, 0 \in T, \A k \in 0..n - 1 : k \in T => k + 1 \in T
  PROVE  \A k \in 0..n : k \in T
<1> DEFINE B == {k \in 0..n : k \notin T}
<1> SUFFICES ASSUME B # {} PROVE FALSE
  OBVIOUS
<1>1. B \in SUBSET Nat
  OBVIOUS
<1>2. PICK m \in B : \A k \in B : m <= k
  <2> HIDE DEF B
  <2> QED
    BY <1>1, LeastNatural
<1>3. m # 0 /\ m - 1 \in 0..n - 1 /\ m - 1 \notin B
  BY <1>2
<1> QED
  BY <1>2, <1>3

\* The first k numbers of an increasing sequence are k numbers.
LEMMA FirstAreAsMany ==
  ASSUME NEW n \in Nat, NEW s \in [1..n -> Nat], \A i, j \in 1..n : i < j => s[i] < s[j]
  PROVE  \A k \in 0..n : /\ IsFiniteSet({s[i] : i \in 1..k})
                         /\ Cardinality({s[i] : i \in 1..k}) = k
<1> DEFINE S(k) == {s[i] : i \in 1..k}
           T == {k \in 0..n : IsFiniteSet(S(k)) /\ Cardinality(S(k)) = k}
<1>1. 0 \in T
  <2>1. S(0) = {}
    OBVIOUS
  <2>2. IsFiniteSet(S(0)) /\ Cardinality(S(0)) = 0
    <3> HIDE DEF S
    <3> QED
      BY <2>1, FS_EmptySet
  <2> HIDE DEF S
  <2> QED
    BY <2>2
<1>2. ASSUME NEW k \in 0..n - 1, k \in T PROVE k + 1 \in T
  <2>1. S(k + 1) = S(k) \cup {s[k + 1]}
    <3>1. 1..k + 1 = (1..k) \cup {k + 1}
      OBVIOUS
    <3> QED
      BY <3>1
  <2>2. s[k + 1] \notin S(k)
    <3>1. \A i \in 1..k : s[i] < s[k + 1] /\ s[i] \in Nat /\ s[k + 1] \in Nat
      OBVIOUS
    <3> QED
      BY <3>1
  <2>3. IsFiniteSet(S(k)) /\ Cardinality(S(k)) = k
    BY <1>2
  <2> HIDE DEF S
  <2>4. k \in Nat
    OBVIOUS
  <2>5. IsFiniteSet(S(k + 1)) /\ Cardinality(S(k + 1)) = k + 1
    <3> DEFINE A == S(k)
               x == s[k + 1]
    <3>1. IsFiniteSet(A) /\ Cardinality(A) = k /\ x \notin A /\ S(k + 1) = A \cup {x}
      BY <2>1, <2>2, <2>3
    <3> HIDE DEF A, x
    <3>2. IsFiniteSet(A \cup {x}) /\ Cardinality(A \cup {x}) = k + 1
      BY ONLY <3>1, FS_AddElement
    <3> QED
      BY ONLY <3>1, <3>2
  <2> QED
    BY <2>5
<1>3. \A k \in 0..n : k \in T
  <2> HIDE DEF T
  <2> QED
    BY <1>1, <1>2, UpTo
<1> QED
  BY <1>3

\* In a set of numbers no two have as many below them.
LEMMA RankIsUnique ==
  ASSUME NEW F \in SUBSET Nat, IsFiniteSet(F), NEW x \in F, NEW y \in F,
         Cardinality({z \in F : z < x}) = Cardinality({z \in F : z < y})
  PROVE  x = y
<1> DEFINE Below(u) == {z \in F : z < u}
<1>1. ASSUME NEW u \in F, NEW v \in F, u < v PROVE Cardinality(Below(u)) # Cardinality(Below(v))
  <2>1. Below(u) \subseteq Below(v) /\ u \in Below(v) /\ u \notin Below(u)
    <3>1. u \in Nat /\ v \in Nat
      OBVIOUS
    <3>2. \A z \in F : z \in Nat
      OBVIOUS
    <3>3. \A z \in F : z < u => z < v
      BY <1>1, <3>1, <3>2
    <3>4. ~(u < u)
      BY <3>1
    <3> QED
      BY <1>1, <3>3, <3>4
  <2>2. IsFiniteSet(Below(v)) /\ IsFiniteSet(Below(u))
    BY FS_Subset
  <2>3. Below(u) \cup {u} \subseteq Below(v)
    BY <2>1
  <2> HIDE DEF Below
  <2>4. IsFiniteSet(Below(u) \cup {u}) /\ Cardinality(Below(u) \cup {u}) = Cardinality(Below(u)) + 1
    BY <2>1, <2>2, FS_AddElement
  <2>5. Cardinality(Below(u) \cup {u}) <= Cardinality(Below(v))
    BY <2>2, <2>3, FS_Subset
  <2>6. Cardinality(Below(u)) \in Nat /\ Cardinality(Below(v)) \in Nat
    BY <2>2, FS_CardinalityType
  <2> QED
    BY <2>4, <2>5, <2>6
<1>2. x \in Nat /\ y \in Nat /\ Cardinality(Below(x)) = Cardinality(Below(y))
  OBVIOUS
<1> HIDE DEF Below
<1> QED
  BY <1>1, <1>2

\* An increasing sequence that leaves no number of F out puts each at its rank.
LEMMA PlaceIsRank ==
  ASSUME NEW n \in Nat, NEW s \in [1..n -> Nat], \A i, j \in 1..n : i < j => s[i] < s[j],
         NEW F \in SUBSET Nat, IsFiniteSet(F), \A i \in 1..n : s[i] \in F,
         \A i \in 1..n : \A x \in F : x <= s[i] => \E j \in 1..n : x = s[j]
  PROVE  /\ n <= Cardinality(F)
         /\ \A k \in 1..n : s[k] = CHOOSE x \in F : Cardinality({y \in F : y < x}) = k - 1
         /\ (\A x \in F : \E j \in 1..n : x = s[j]) => n = Cardinality(F)
<1> DEFINE S(k) == {s[i] : i \in 1..k}
           Rank(x) == Cardinality({y \in F : y < x})
<1>1. \A k \in 0..n : IsFiniteSet(S(k)) /\ Cardinality(S(k)) = k
  BY FirstAreAsMany
<1>2. S(n) \subseteq F
  OBVIOUS
<1>3. n <= Cardinality(F)
  <2>1. Cardinality(S(n)) <= Cardinality(F)
    <3> HIDE DEF S
    <3> QED
      BY <1>2, FS_Subset
  <2>2. Cardinality(S(n)) = n
    <3> HIDE DEF S
    <3> QED
      BY <1>1
  <2> QED
    BY <2>1, <2>2
<1>4. ASSUME \A x \in F : \E j \in 1..n : x = s[j] PROVE n = Cardinality(F)
  <2>1. F = S(n)
    BY <1>2, <1>4
  <2> HIDE DEF S
  <2> QED
    BY <1>1, <2>1
<1>5. ASSUME NEW k \in 1..n PROVE s[k] = CHOOSE x \in F : Rank(x) = k - 1
  <2>1. {y \in F : y < s[k]} = S(k - 1)
    <3>1. ASSUME NEW y \in F, y < s[k] PROVE y \in S(k - 1)
      <4>1. y \in Nat /\ s[k] \in Nat /\ y <= s[k]
        BY <3>1
      <4>2. PICK j \in 1..n : y = s[j]
        BY <4>1
      <4>3. j < k
        <5>1. \A i \in 1..n : s[i] \in Nat
          OBVIOUS
        <5>2. k < j => s[k] < s[j]
          OBVIOUS
        <5> QED
          BY <3>1, <4>1, <4>2, <5>1, <5>2
      <4> QED
        BY <4>2, <4>3
    <3>2. ASSUME NEW i \in 1..k - 1 PROVE s[i] \in F /\ s[i] < s[k]
      OBVIOUS
    <3> QED
      BY <3>1, <3>2
  <2>2. Rank(s[k]) = k - 1
    <3>1. k - 1 \in 0..n
      OBVIOUS
    <3> HIDE DEF S
    <3> QED
      BY <1>1, <2>1, <3>1
  <2>3. s[k] \in F
    OBVIOUS
  <2>4. \A x, y \in F : Rank(x) = Rank(y) => x = y
    BY RankIsUnique
  <2> HIDE DEF Rank
  <2> QED
    BY <2>2, <2>3, <2>4
<1> QED
  BY <1>3, <1>4, <1>5

\* Every rank is somebody's.
LEMMA RankExists ==
  ASSUME NEW F \in SUBSET Nat, IsFiniteSet(F), NEW n \in 1..Cardinality(F)
  PROVE  \E x \in F : Cardinality({y \in F : y <= x}) = n
<1> DEFINE c == Cardinality(F)
           To(x) == {y \in F : y <= x}
           T == {k \in 0..c : k = 0 \/ \E x \in F : Cardinality(To(x)) = k}
<1>1. c \in Nat
  BY FS_CardinalityType
<1>2. 0 \in T
  BY <1>1
<1>3. ASSUME NEW k \in 0..c - 1, k \in T PROVE k + 1 \in T
  <2>1. PICK S \in SUBSET F : /\ Cardinality(S) = k
                              /\ \A y \in S : \A z \in F \ S : y <= z
    <3>1. CASE k = 0
      <4>1. Cardinality({}) = k
        BY <3>1, FS_EmptySet
      <4> QED
        BY <4>1
    <3>2. CASE k # 0
      <4>1. PICK x \in F : Cardinality(To(x)) = k
        BY <1>3, <3>2
      <4>2. To(x) \in SUBSET F /\ \A y \in To(x) : \A z \in F \ To(x) : y <= z
        <5>1. \A y \in F : y \in Nat
          OBVIOUS
        <5> QED
          BY <5>1
      <4> QED
        BY <4>1, <4>2
    <3> QED
      BY <3>1, <3>2
  <2>2. IsFiniteSet(S) /\ k \in Nat /\ k < c
    <3>1. IsFiniteSet(S)
      BY FS_Subset
    <3> QED
      BY <1>1, <3>1
  <2>3. F \ S # {}
    <3>1. SUFFICES ASSUME F = S PROVE FALSE
      OBVIOUS
    <3> QED
      BY <2>1, <2>2, <3>1
  <2>4. PICK z \in F \ S : \A y \in F \ S : z <= y
    <3>1. F \ S \in SUBSET Nat
      OBVIOUS
    <3> QED
      BY <2>3, <3>1, LeastNatural
  <2>5. To(z) = S \cup {z}
    <3>1. \A y \in F : y \in Nat
      OBVIOUS
    <3>2. ASSUME NEW y \in F, y <= z PROVE y \in S \cup {z}
      <4>1. CASE y \in S
        BY <4>1
      <4>2. CASE y \notin S
        <5>1. z <= y /\ z \in Nat /\ y \in Nat
          BY <2>4, <3>1, <4>2
        <5> QED
          BY <3>2, <5>1
      <4> QED
        BY <4>1, <4>2
    <3>3. \A y \in S : y <= z
      BY <2>1
    <3>4. z <= z
      BY <3>1
    <3> QED
      BY <3>2, <3>3, <3>4
  <2>6. Cardinality(S \cup {z}) = k + 1
    <3>1. IsFiniteSet(S) /\ Cardinality(S) = k /\ z \notin S
      BY <2>1, <2>2
    <3> QED
      BY ONLY <3>1, FS_AddElement
  <2>7. Cardinality(To(z)) = k + 1
    BY <2>5, <2>6
  <2> HIDE DEF To
  <2>8. k + 1 \in 0..c
    BY <2>2, <1>1
  <2> QED
    BY <2>7, <2>8
<1>4. \A k \in 0..c : k \in T
  <2> HIDE DEF T
  <2> QED
    BY <1>1, <1>2, <1>3, UpTo
<1>5. n \in 0..c /\ n # 0
  BY <1>1
<1> QED
  BY <1>4, <1>5

\* A set of numbers up to n that is not empty has a greatest one.
LEMMA GreatestUpTo ==
  ASSUME NEW n \in Nat, NEW s \in SUBSET (0..n), s # {}
  PROVE  \E m \in s : \A i \in s : i <= m
<1> DEFINE B == {n - i : i \in s}
<1>1. \A i \in s : i \in 0..n /\ n - i \in Nat
  OBVIOUS
<1>2. B \in SUBSET Nat /\ B # {}
  BY <1>1
<1>3. PICK b \in B : \A k \in B : b <= k
  <2> HIDE DEF B
  <2> QED
    BY <1>2, LeastNatural
<1>4. PICK m \in s : b = n - m
  BY <1>3
<1>5. ASSUME NEW i \in s PROVE i <= m
  <2>1. n - m <= n - i
    BY <1>3, <1>4
  <2>2. m \in 0..n /\ i \in 0..n
    BY <1>1
  <2> HIDE DEF B
  <2> QED
    BY <2>1, <2>2
<1> QED
  BY <1>5

LEMMA QuotientAndRest ==
  ASSUME NEW w \in Nat \ {0}, NEW t \in Int
  PROVE  t % w \in 0..w - 1 /\ t \div w \in Int /\ t = w * (t \div w) + (t % w)
  OBVIOUS

\* Whole turns do not count.
LEMMA TurnsDoNotCount ==
  ASSUME NEW w \in Nat \ {0}, NEW c \in Int, NEW q \in Int
  PROVE  (c + w * q) % w = c % w
<1> DEFINE r == c % w
           k == c \div w
           s == (c + w * q) % w
           j == (c + w * q) \div w
<1>1. r \in 0..w - 1 /\ k \in Int /\ c = w * k + r
  BY QuotientAndRest
<1>2. w * q \in Int
  OBVIOUS
<1>3. s \in 0..w - 1 /\ j \in Int /\ c + w * q = w * j + s
  <2> DEFINE t == c + w * q
  <2>1. t \in Int
    BY <1>2
  <2> HIDE DEF t
  <2>2. t % w \in 0..w - 1 /\ t \div w \in Int /\ t = w * (t \div w) + (t % w)
    BY <2>1, QuotientAndRest
  <2> QED
    BY <2>2 DEF t
<1> HIDE DEF r, k, s, j
<1>4. w * (j - k - q) = r - s
  <2>1. w * (j - k - q) = w * j - w * k - w * q
    BY <1>1, <1>3
  <2> QED
    BY <1>1, <1>2, <1>3, <2>1
<1> DEFINE d == j - k - q
<1>5. d \in Int /\ w * d = r - s
  BY <1>1, <1>3, <1>4
<1> HIDE DEF d
<1>6. d = 0
  <2>1. d >= 1 => w * d >= w
    BY <1>5
  <2>2. d <= -1 => w * d <= -w
    BY <1>5
  <2> QED
    BY <1>1, <1>3, <1>5, <2>1, <2>2
<1> QED
  BY <1>1, <1>3, <1>5, <1>6 DEF r, s

-----------------------------------------------------------------------------
(* Functions defined by recursion: `step` gives what they take from their  *)
(* last value and the next position.  Those over the sets of positions     *)
(* take the last position, mx, out first.                                  *)

Recursion(g, n, base, step) == g[0] = base /\ \A k \in 1..n : g[k] = step[<<g[k - 1], k>>]

RecursionTo(g, n, base, step, end) == Recursion(g, n, base, step) /\ g[n] = end

Lasts(mx, n) == \A s \in SUBSET (1..n) : s # {} => mx[s] \in s /\ \A i \in s : i <= mx[s]

Fold(g, n, mx, base, step) ==
  \A s \in SUBSET (1..n) : g[s] = IF s = {} THEN base ELSE step[<<g[s \ {mx[s]}], mx[s]>>]

\* Along 0..n.
LEMMA RecursionExists ==
  ASSUME NEW n \in Nat, NEW X, NEW base \in X, NEW step \in [X \X (1..n) -> X]
  PROVE  \E g \in [0..n -> X] : Recursion(g, n, base, step)
<1> DEFINE Runs(g, k) == g \in [0..k -> X] /\ g[0] = base
                           /\ \A i \in 1..k : g[i] = step[<<g[i - 1], i>>]
           T == {k \in 0..n : \E g : Runs(g, k)}
<1>1. 0 \in T
  <2> DEFINE g == [i \in 0..0 |-> base]
  <2>1. Runs(g, 0)
    OBVIOUS
  <2> HIDE DEF g, Runs
  <2> QED
    BY <2>1
<1>2. ASSUME NEW k \in 0..n - 1, k \in T PROVE k + 1 \in T
  <2>1. PICK g : Runs(g, k)
    BY <1>2
  <2> DEFINE h == [i \in 0..k + 1 |-> IF i = k + 1 THEN step[<<g[k], k + 1>>] ELSE g[i]]
  <2>2. g[k] \in X /\ k + 1 \in 1..n
    BY <2>1
  <2>3. step[<<g[k], k + 1>>] \in X
    BY <2>2
  <2>4. h \in [0..k + 1 -> X] /\ h[0] = base
    BY <2>1, <2>3
  <2>5. ASSUME NEW i \in 1..k + 1 PROVE h[i] = step[<<h[i - 1], i>>]
    <3>1. CASE i = k + 1
      <4>1. i - 1 = k /\ k \in 0..k + 1 /\ k # k + 1 /\ k + 1 \in 0..k + 1
        BY <3>1
      <4>2. h[k] = g[k] /\ h[k + 1] = step[<<g[k], k + 1>>]
        BY <4>1
      <4> HIDE DEF h
      <4> QED
        BY <3>1, <4>1, <4>2
    <3>2. CASE i # k + 1
      <4>1. i \in 1..k /\ i - 1 \in 0..k
        BY <3>2
      <4> QED
        BY <2>1, <4>1
    <3> QED
      BY <3>1, <3>2
  <2>6. Runs(h, k + 1)
    BY <2>4, <2>5
  <2> HIDE DEF h, Runs
  <2> QED
    BY <2>6
<1>3. \A k \in 0..n : k \in T
  <2> HIDE DEF T
  <2> QED
    BY <1>1, <1>2, UpTo
<1>4. PICK g : Runs(g, n)
  BY <1>3
<1> QED
  BY <1>4 DEF Recursion

\* The powers of two up to 2^n.
LEMMA Doubling ==
  ASSUME NEW n \in Nat, NEW f,
         f = CHOOSE h : h = [k \in 0..n |-> IF k = 0 THEN 1 ELSE 2 * h[k - 1]]
  PROVE  /\ f \in [0..n -> Nat \ {0}] /\ f[0] = 1
         /\ \A k \in 1..n : f[k] = 2 * f[k - 1]
<1> DEFINE X == Nat \ {0}
           step == [q \in X \X (1..n) |-> 2 * q[1]]
           Doubles(h) == h = [k \in 0..n |-> IF k = 0 THEN 1 ELSE 2 * h[k - 1]]
<1>1. step \in [X \X (1..n) -> X] /\ 1 \in X
  OBVIOUS
<1>2. PICK g \in [0..n -> X] : Recursion(g, n, 1, step)
  <2> HIDE DEF step, X
  <2> QED
    BY <1>1, RecursionExists
<1>3. Doubles(g)
  <2>1. ASSUME NEW k \in 0..n, k # 0 PROVE g[k] = 2 * g[k - 1]
    <3>1. k \in 1..n /\ k - 1 \in 0..n /\ g[k - 1] \in X
      BY <2>1
    <3> HIDE DEF X
    <3> QED
      BY <1>2, <3>1 DEF Recursion
  <2> QED
    BY <1>2, <2>1 DEF Recursion
<1>4. Doubles(f)
  <2>1. f = CHOOSE h : Doubles(h)
    OBVIOUS
  <2> HIDE DEF Doubles
  <2> QED
    BY <1>3, <2>1
<1>5. f[0] = 1 /\ \A k \in 1..n : f[k] = 2 * f[k - 1]
  <2>1. 0 \in 0..n /\ \A k \in 1..n : k \in 0..n /\ k # 0
    OBVIOUS
  <2> QED
    BY <1>4, <2>1
<1> DEFINE T == {k \in 0..n : f[k] \in X}
<1>6. 0 \in T
  BY <1>5
<1>7. ASSUME NEW k \in 0..n - 1, k \in T PROVE k + 1 \in T
  <2>1. k + 1 \in 1..n /\ k + 1 \in 0..n /\ (k + 1) - 1 = k
    OBVIOUS
  <2>2. f[k + 1] = 2 * f[k] /\ f[k] \in X
    BY <1>5, <1>7, <2>1
  <2> QED
    BY <2>1, <2>2
<1>8. \A k \in 0..n : f[k] \in X
  <2>1. \A k \in 0..n : k \in T
    <3> HIDE DEF T
    <3> QED
      BY <1>6, <1>7, UpTo
  <2> QED
    BY <2>1
<1>9. f = [k \in 0..n |-> f[k]]
  BY <1>4
<1> QED
  BY <1>5, <1>8, <1>9

\* Over the sets of positions: what one step keeps, all of them do.
LEMMA FoldStays ==
  ASSUME NEW n \in Nat, NEW mx, NEW h, NEW X, h[{}] \in X,
         Lasts(mx, n),
         \A s \in SUBSET (1..n) : s # {} /\ h[s \ {mx[s]}] \in X => h[s] \in X
  PROVE  \A s \in SUBSET (1..n) : h[s] \in X
<1> DEFINE T == {k \in 0..n : \A s \in SUBSET (1..k) : h[s] \in X}
<1>1. 0 \in T
  <2>1. \A s \in SUBSET (1..0) : s = {}
    OBVIOUS
  <2>2. 0 \in 0..n
    OBVIOUS
  <2> QED
    BY <2>1, <2>2
<1>2. ASSUME NEW k \in 0..n - 1, k \in T PROVE k + 1 \in T
  <2>1. ASSUME NEW s \in SUBSET (1..k + 1) PROVE h[s] \in X
    <3>1. CASE k + 1 \notin s
      <4>1. s \in SUBSET (1..k)
        BY <3>1
      <4> QED
        BY <1>2, <4>1
    <3>2. CASE k + 1 \in s
      <4>1. s \in SUBSET (1..n) /\ s # {}
        BY <3>2
      <4>2. mx[s] \in s /\ k + 1 <= mx[s]
        BY <3>2, <4>1 DEF Lasts
      <4>3. mx[s] = k + 1
        <5>1. mx[s] \in 1..k + 1
          BY <4>2
        <5> QED
          BY <4>2, <5>1
      <4>4. s \ {k + 1} \in SUBSET (1..k)
        <5>1. \A i \in s : i # k + 1 => i \in 1..k
          OBVIOUS
        <5> QED
          BY <5>1
      <4>5. h[s \ {k + 1}] \in X
        BY <1>2, <4>4
      <4> QED
        BY <4>1, <4>3, <4>5
    <3> QED
      BY <3>1, <3>2
  <2> QED
    BY <2>1
<1>3. \A k \in 0..n : k \in T
  <2> HIDE DEF T
  <2> QED
    BY <1>1, <1>2, UpTo
<1>4. n \in T
  <2> HIDE DEF T
  <2> QED
    BY <1>3
<1> QED
  BY <1>4

LEMMA FoldExists ==
  ASSUME NEW n \in Nat, NEW mx, NEW X, NEW base \in X, NEW step \in [X \X (1..n) -> X],
         Lasts(mx, n)
  PROVE  \E g \in [SUBSET (1..n) -> X] : Fold(g, n, mx, base, step)
<1> USE DEF Lasts
<1> DEFINE Value(g, s) == IF s = {} THEN base ELSE step[<<g[s \ {mx[s]}], mx[s]>>]
           Folds(g, k) == /\ g \in [SUBSET (1..k) -> X]
                          /\ \A s \in SUBSET (1..k) : g[s] = Value(g, s)
           T == {k \in 0..n : \E g : Folds(g, k)}
<1>1. 0 \in T
  <2> DEFINE g == [s \in SUBSET (1..0) |-> base]
  <2>1. \A s \in SUBSET (1..0) : s = {}
    OBVIOUS
  <2>2. Folds(g, 0)
    BY <2>1
  <2> HIDE DEF g, Folds
  <2> QED
    BY <2>2
<1>2. ASSUME NEW k \in 0..n - 1, k \in T PROVE k + 1 \in T
  <2>1. PICK g : Folds(g, k)
    BY <1>2
  <2> DEFINE h == [s \in SUBSET (1..k + 1) |->
                     IF k + 1 \in s THEN step[<<g[s \ {k + 1}], k + 1>>] ELSE g[s]]
  <2>2. ASSUME NEW s \in SUBSET (1..k + 1), k + 1 \in s PROVE h[s] \in X /\ h[s] = Value(h, s)
    <3>1. mx[s] = k + 1
      <4>1. s \in SUBSET (1..n) /\ s # {}
        BY <2>2
      <4>2. mx[s] \in 1..k + 1 /\ k + 1 <= mx[s]
        BY <2>2, <4>1
      <4> QED
        BY <4>2
    <3>2. s \ {k + 1} \in SUBSET (1..k) /\ s \ {k + 1} \in SUBSET (1..k + 1) /\ k + 1 \notin s \ {k + 1}
      OBVIOUS
    <3>3. g[s \ {k + 1}] \in X /\ k + 1 \in 1..n
      BY <2>1, <3>2
    <3>4. h[s] = step[<<g[s \ {k + 1}], k + 1>>] /\ h[s \ {k + 1}] = g[s \ {k + 1}]
      BY <2>2, <3>2
    <3>5. h[s] \in X
      BY <3>3, <3>4
    <3> QED
      BY <2>2, <3>1, <3>4, <3>5
  <2>3. ASSUME NEW s \in SUBSET (1..k + 1), k + 1 \notin s PROVE h[s] \in X /\ h[s] = Value(h, s)
    <3>1. s \in SUBSET (1..k)
      BY <2>3
    <3>2. h[s] = g[s] /\ g[s] = Value(g, s) /\ g[s] \in X
      BY <2>1, <2>3, <3>1
    <3>3. CASE s = {}
      BY <3>2, <3>3
    <3>4. CASE s # {}
      <4>1. s \ {mx[s]} \in SUBSET (1..k + 1) /\ k + 1 \notin s \ {mx[s]}
        BY <2>3
      <4>2. h[s \ {mx[s]}] = g[s \ {mx[s]}]
        BY <4>1
      <4> QED
        BY <3>2, <3>4, <4>2
    <3> QED
      BY <3>3, <3>4
  <2>4. \A s \in SUBSET (1..k + 1) : h[s] \in X /\ h[s] = Value(h, s)
    BY <2>2, <2>3
  <2>5. h \in [SUBSET (1..k + 1) -> X]
    <3>1. h = [s \in SUBSET (1..k + 1) |-> h[s]]
      OBVIOUS
    <3> HIDE DEF h, Value
    <3> QED
      BY <2>4, <3>1
  <2>6. Folds(h, k + 1)
    <3> HIDE DEF h, Value
    <3> QED
      BY <2>4, <2>5
  <2> HIDE DEF h, Folds
  <2> QED
    BY <2>6
<1>3. \A k \in 0..n : k \in T
  <2> HIDE DEF T
  <2> QED
    BY <1>1, <1>2, UpTo
<1>4. PICK g : Folds(g, n)
  <2>1. n \in T
    <3> HIDE DEF T
    <3> QED
      BY <1>3
  <2> QED
    BY <2>1
<1> QED
  BY <1>4 DEF Fold

\* A fold whose steps are known along the sets that it meets, as a recursion
\* along the positions.
LEMMA FoldRuns ==
  ASSUME NEW n \in Nat, NEW mx, NEW X, NEW base \in X, NEW step, NEW f,
         Lasts(mx, n), f[{}] = base,
         \A x \in X, i \in 1..n : step[<<x, i>>] \in X,
         \A s \in SUBSET (1..n) :
           s # {} /\ f[s \ {mx[s]}] \in X => f[s] = step[<<f[s \ {mx[s]}], mx[s]>>]
  PROVE  \E r \in [0..n -> X] : RecursionTo(r, n, base, step, f[1..n])
<1>1. \A s \in SUBSET (1..n) : s # {} /\ f[s \ {mx[s]}] \in X => f[s] \in X
  <2> SUFFICES ASSUME NEW s \in SUBSET (1..n), s # {}, f[s \ {mx[s]}] \in X PROVE f[s] \in X
    OBVIOUS
  <2>1. mx[s] \in 1..n
    BY DEF Lasts
  <2> QED
    BY <2>1
<1>2. \A s \in SUBSET (1..n) : f[s] \in X
  BY <1>1, FoldStays
<1> DEFINE r == [k \in 0..n |-> f[1..k]]
<1>3. r \in [0..n -> X]
  <2>1. \A k \in 0..n : 1..k \in SUBSET (1..n)
    OBVIOUS
  <2> QED
    BY <1>2, <2>1
<1>4. r[0] = base
  <2>1. 1..0 = {} /\ 0 \in 0..n
    OBVIOUS
  <2> QED
    BY <2>1
<1>5. ASSUME NEW k \in 1..n PROVE r[k] = step[<<r[k - 1], k>>]
  <2>1. 1..k \in SUBSET (1..n) /\ 1..k # {} /\ k \in 1..k /\ k - 1 \in 0..n /\ k \in 0..n
    OBVIOUS
  <2>2. mx[1..k] = k
    <3>1. mx[1..k] \in 1..k /\ k <= mx[1..k]
      BY <2>1 DEF Lasts
    <3> QED
      BY <3>1
  <2>3. (1..k) \ {k} = 1..k - 1 /\ 1..k - 1 \in SUBSET (1..n)
    OBVIOUS
  <2>4. f[1..k] = step[<<f[1..k - 1], k>>]
    BY <1>2, <2>1, <2>2, <2>3
  <2> QED
    BY <2>1, <2>4
<1>6. Recursion(r, n, base, step)
  BY <1>4, <1>5 DEF Recursion
<1>7. r[n] = f[1..n]
  <2>1. n \in 0..n
    OBVIOUS
  <2> QED
    BY <2>1
<1> HIDE DEF r
<1> QED
  BY <1>3, <1>6, <1>7 DEF RecursionTo
=============================================================================
