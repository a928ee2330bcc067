---------------------------- MODULE NumberLemmas ----------------------------
(***************************************************************************)
(* What the proofs of several components need to know of integers, of sets *)
(* of them and their order, and of the sums of the community modules.  A   *)
(* sum is defined by recursion over the subsets of its set; the induction  *)
(* that takes is an argument by a smallest counterexample, because the     *)
(* provers do not take the induction theorems of the library, whose        *)
(* parameter is an operator.                                               *)
(***************************************************************************)
EXTENDS Integers, FiniteSetsExt, FiniteSetTheorems, WellFoundedInduction, TLAPS

-----------------------------------------------------------------------------
(* Products and quotients.                                                 *)

\* Stated for the provers, which need it as a fact of its own.
LEMMA IntProduct == ASSUME NEW m \in Int, NEW n \in Int PROVE m * n \in Int
OBVIOUS

\* A positive factor keeps the order.
LEMMA TimesMonotonic ==
  ASSUME NEW n \in Nat \ {0}, NEW x \in Int, NEW y \in Int, x < y
  PROVE  n * x < n * y /\ n * x \in Int /\ n * y \in Int
<1>1. n * (y - x) > 0 /\ n * (y - x) = n * y - n * x
  OBVIOUS
<1>2. n * x \in Int /\ n * y \in Int
  OBVIOUS
<1>3. QED
  BY <1>1, <1>2

\* What integer division leaves.
LEMMA DivisionRest ==
  ASSUME NEW m \in Int, NEW n \in Int, n > 0, NEW q \in Int, q = m \div n
  PROVE  0 <= m - q * n /\ m - q * n < n
OBVIOUS

\* A share of a whole number, rounded down, lies between none and all of it.
LEMMA ShareRounded ==
  ASSUME NEW n \in Nat \ {0}, NEW w \in Nat, NEW m \in 0 .. n
  PROVE  /\ (m * w) \div n \in 0 .. w
         /\ m = 0 => (m * w) \div n = 0
         /\ m = n => (m * w) \div n = w
<1> DEFINE q == (m * w) \div n
<1>1. m * w \in Nat /\ n * w \in Nat /\ m * w <= n * w
  <2>1. (n - m) * w >= 0 /\ (n - m) * w = n * w - m * w
    OBVIOUS
  <2>2. QED
    BY <2>1
<1>2. q \in Int
  <2>1. ASSUME NEW x \in Int, NEW y \in Nat \ {0} PROVE x \div y \in Int
    BY <2>1
  <2>2. QED
    BY <1>1, <2>1
<1>3. 0 <= m * w - q * n /\ m * w - q * n < n
  BY <1>1, <1>2, DivisionRest
<1> HIDE DEF q
<1>4. ASSUME NEW k \in Int, NEW p \in Int, p >= k * n, p < (k + 1) * n,
             p = m * w
      PROVE  q = k
  <2>1. q * n \in Int /\ k * n \in Int /\ (k + 1) * n = k * n + n
    BY <1>2
  <2>2. CASE q < k
    <3>1. q + 1 <= k /\ q + 1 \in Int
      BY <1>2, <2>2
    <3>2. (k - (q + 1)) * n >= 0
      BY <1>2, <3>1
    <3>3. (k - (q + 1)) * n = k * n - q * n - n
      BY <1>2
    <3>4. QED
      BY <1>3, <1>4, <2>1, <3>2, <3>3
  <2>3. CASE q > k
    <3>1. (q - (k + 1)) * n >= 0
      BY <1>2, <2>3
    <3>2. (q - (k + 1)) * n = q * n - k * n - n
      BY <1>2
    <3>3. QED
      BY <1>3, <1>4, <2>1, <3>1, <3>2
  <2>4. QED
    BY <1>2, <2>2, <2>3
<1>5. m = 0 => q = 0
  BY <1>4, 0 \in Int
<1>6. m = n => q = w
  <2>1. ASSUME m = n PROVE q = w
    <3>1. w * n \in Int /\ m * w = w * n /\ (w + 1) * n = w * n + n
      BY <2>1
    <3>2. QED
      BY <1>4, <3>1
  <2>2. QED
    BY <2>1
<1>7. 0 <= q
  <2>1. SUFFICES ASSUME q < 0 PROVE FALSE
    BY <1>2
  <2>2. (-1 - q) * n >= 0 /\ (-1 - q) * n = -n - q * n
    BY <1>2, <2>1
  <2>3. q * n \in Int
    BY <1>2
  <2>4. QED
    BY <1>1, <1>3, <2>2, <2>3
<1>8. q <= w
  <2>1. SUFFICES ASSUME q > w PROVE FALSE
    BY <1>2
  <2>2. (q - (w + 1)) * n >= 0 /\ (q - (w + 1)) * n = q * n - w * n - n
    BY <1>2, <2>1
  <2>3. q * n \in Int /\ w * n = n * w
    BY <1>2
  <2>4. QED
    BY <1>1, <1>3, <2>2, <2>3
<1>9. QED
  BY <1>2, <1>5, <1>6, <1>7, <1>8 DEF q

\* Nothing wraps below the modulus.
LEMMA RemainderSelf ==
  ASSUME NEW x \in Nat, NEW n \in Nat, x < n
  PROVE  x % n = x
OBVIOUS

-----------------------------------------------------------------------------
(* Least and greatest elements of bounded sets of integers.                *)

\* A nonempty set of natural numbers has a least element.
LEMMA LeastNat ==
  ASSUME NEW T \in SUBSET Nat, T # {}
  PROVE  \E x \in T : \A y \in T : x <= y
<1>1. PICK x \in T : \A y \in T : ~(<<y, x>> \in OpToRel(<, Nat))
  BY NatLessThanWellFounded, WFMin
<1>2. \A y \in T : ~(y < x)
  BY <1>1 DEF OpToRel
<1>3. QED
  BY <1>2

\* So has a set of integers that is bounded below.
LEMMA LeastInt ==
  ASSUME NEW T \in SUBSET Int, T # {}, NEW a \in Int, \A x \in T : a <= x
  PROVE  \E x \in T : \A y \in T : x <= y
<1> DEFINE D == {n \in Nat : n + a \in T}
<1>1. D \in SUBSET Nat /\ D # {}
  <2>1. PICK x \in T : TRUE
    OBVIOUS
  <2>2. x - a \in Nat /\ (x - a) + a = x
    OBVIOUS
  <2>3. QED
    BY <2>1, <2>2
<1>2. PICK d \in D : \A e \in D : d <= e
  BY <1>1, LeastNat
<1>3. d + a \in T /\ d \in Nat
  OBVIOUS
<1>4. ASSUME NEW y \in T
      PROVE  d + a <= y
  <2>1. y - a \in Nat /\ (y - a) + a = y
    OBVIOUS
  <2>2. d <= y - a
    BY <2>1, <1>2
  <2>3. QED
    BY <2>1, <2>2, <1>3
<1>5. QED
  BY <1>3, <1>4

\* Min of the community modules is this least element ...
LEMMA MinIsLeast ==
  ASSUME NEW T \in SUBSET Int, T # {}, NEW a \in Int, \A x \in T : a <= x
  PROVE  Min(T) \in T /\ \A y \in T : Min(T) <= y
BY LeastInt DEF Min

\* ... and Max the greatest one, of a set bounded above.
LEMMA MaxIsGreatest ==
  ASSUME NEW T \in SUBSET Int, T # {}, NEW b \in Int, \A x \in T : x <= b
  PROVE  Max(T) \in T /\ \A y \in T : Max(T) >= y
<1> DEFINE N == {n \in Int : -n \in T}
<1>1. N \in SUBSET Int /\ N # {} /\ \A n \in N : -b <= n
  <2>1. PICK x \in T : TRUE
    OBVIOUS
  <2>2. -x \in Int /\ -(-x) = x
    OBVIOUS
  <2>3. N # {}
    BY <2>1, <2>2
  <2>4. ASSUME NEW n \in N
        PROVE  -b <= n
    <3>1. -n <= b /\ n \in Int
      OBVIOUS
    <3>2. QED
      BY <3>1
  <2>5. QED
    BY <2>3, <2>4
<1>2. PICK n \in N : \A m \in N : n <= m
  BY <1>1, LeastInt, -b \in Int
<1>3. -n \in T /\ n \in Int
  OBVIOUS
<1>4. ASSUME NEW y \in T
      PROVE  -n >= y
  <2>1. -y \in Int /\ -(-y) = y
    OBVIOUS
  <2>2. n <= -y
    BY <2>1, <1>2
  <2>3. QED
    BY <2>1, <2>2, <1>3
<1>5. QED
  BY <1>3, <1>4 DEF Max

-----------------------------------------------------------------------------
(* Induction over the subsets of a finite set.                             *)

\* Of the subsets for which something is wrong there is one for which it is
\* not when any of its elements is taken away.
LEMMA SmallestSubset ==
  ASSUME NEW S, IsFiniteSet(S), NEW Wrong \in SUBSET (SUBSET S), Wrong # {}
  PROVE  \E s \in Wrong : \A x \in s : s \ {x} \notin Wrong
<1> DEFINE Sizes == {n \in Nat : \E s \in Wrong : Cardinality(s) = n}
<1>1. \A s \in Wrong : IsFiniteSet(s) /\ Cardinality(s) \in Nat
  BY FS_Subset, FS_CardinalityType
<1>2. PICK n \in Sizes : \A m \in Sizes : n <= m
  <2>1. Sizes \in SUBSET Nat /\ Sizes # {}
    BY <1>1
  <2> HIDE DEF Sizes
  <2>2. QED
    BY <2>1, LeastNat
<1>3. PICK s \in Wrong : Cardinality(s) = n
  OBVIOUS
<1>4. ASSUME NEW x \in s, s \ {x} \in Wrong
      PROVE  FALSE
  <2>1. Cardinality(s \ {x}) = Cardinality(s) - 1
    BY <1>1, <1>3, FS_RemoveElement
  <2>2. Cardinality(s \ {x}) \in Sizes
    BY <1>1, <1>4
  <2>3. n <= Cardinality(s \ {x})
    <3> HIDE DEF Sizes
    <3>1. QED
      BY <1>2, <2>2
  <2>4. QED
    BY <1>1, <1>3, <2>1, <2>3
<1>5. QED
  BY <1>3, <1>4

-----------------------------------------------------------------------------
(* Sums over a finite set.                                                 *)

SumOf(f, S) == MapThenSumSet(LAMBDA i : f[i], S)

\* The element the recursion takes next, and one step of it.
Taken(s) == CHOOSE x \in s : TRUE
SumStep(f, g, s) == IF s = {} THEN 0 ELSE f[Taken(s)] + g[s \ {Taken(s)}]

\* g is the sum of each subset of S.
Sums(f, S, g) == \A s \in SUBSET S : g[s] = SumStep(f, g, s)

\* There is an element to take, but from the empty set.
LEMMA TakenIn == ASSUME NEW s, s # {} PROVE Taken(s) \in s
BY DEF Taken

\* The recursion over the subsets of a finite set has a solution.
LEMMA SumExists ==
  ASSUME NEW f, NEW S, IsFiniteSet(S)
  PROVE  \E g : g = [s \in SUBSET S |-> SumStep(f, g, s)]
<1> DEFINE Solves(g, n) == \A s \in SUBSET S :
                             Cardinality(s) <= n => g[s] = SumStep(f, g, s)
           Unsolved == {n \in Nat : ~\E g : Solves(g, n)}
<1>1. \A s \in SUBSET S : IsFiniteSet(s) /\ Cardinality(s) \in Nat
  BY FS_Subset, FS_CardinalityType
<1>2. Unsolved = {}
  <2> SUFFICES ASSUME Unsolved # {} PROVE FALSE
    OBVIOUS
  <2>1. PICK n \in Unsolved : \A m \in Unsolved : n <= m
    <3>1. Unsolved \in SUBSET Nat
      OBVIOUS
    <3> HIDE DEF Unsolved
    <3>2. QED
      BY <3>1, LeastNat
  <2>2. PICK g : \A s \in SUBSET S :
                   Cardinality(s) < n => g[s] = SumStep(f, g, s)
    <3>1. CASE n = 0
      BY <1>1, <3>1
    <3>2. CASE n # 0
      <4>1. n - 1 \in Nat /\ n - 1 \notin Unsolved
        BY <2>1, <3>2
      <4>2. PICK g : Solves(g, n - 1)
        BY <4>1
      <4>3. QED
        BY <1>1, <4>1, <4>2
    <3>3. QED
      BY <3>1, <3>2
  <2> DEFINE h == [s \in SUBSET S |->
                     IF Cardinality(s) < n THEN g[s] ELSE SumStep(f, g, s)]
  <2>3. ASSUME NEW s \in SUBSET S, Cardinality(s) <= n
        PROVE  h[s] = SumStep(f, h, s)
    <3>1. h[s] = SumStep(f, g, s)
      BY <2>2
    <3>2. CASE s = {}
      BY <3>1, <3>2 DEF SumStep
    <3>3. CASE s # {}
      <4> DEFINE r == s \ {Taken(s)}
      <4>1. r \in SUBSET S /\ Cardinality(r) = Cardinality(s) - 1
        BY <1>1, <3>3, TakenIn, FS_RemoveElement
      <4>2. Cardinality(r) < n
        BY <1>1, <2>3, <4>1
      <4> HIDE DEF r
      <4>3. h[r] = g[r]
        BY <4>1, <4>2
      <4>4. QED
        BY <3>1, <3>3, <4>3 DEF SumStep, r
    <3>4. QED
      BY <3>2, <3>3
  <2>4. Solves(h, n)
    BY <2>3
  <2>5. QED
    BY <2>1, <2>4
<1>3. PICK g : Solves(g, Cardinality(S))
  BY <1>1, <1>2
<1> DEFINE h == [s \in SUBSET S |-> g[s]]
<1>4. ASSUME NEW s \in SUBSET S PROVE h[s] = SumStep(f, h, s)
  <2>1. Cardinality(s) <= Cardinality(S)
    BY FS_Subset
  <2>2. s # {} => s \ {Taken(s)} \in SUBSET S
    OBVIOUS
  <2>3. SumStep(f, h, s) = SumStep(f, g, s)
    BY <2>2 DEF SumStep
  <2>4. QED
    BY <1>3, <2>1, <2>3
<1>5. h = [s \in SUBSET S |-> SumStep(f, h, s)]
  BY <1>4
<1>6. QED
  BY <1>5

\* So a sum is zero for the empty set, and else some element and the sum of
\* the others, which is a sum of the same kind.
LEMMA SumRecursion ==
  ASSUME NEW f, NEW S, IsFiniteSet(S)
  PROVE  \E g : SumOf(f, S) = g[S] /\ Sums(f, S, g)
<1> DEFINE Iter == CHOOSE g : g = [s \in SUBSET S |-> SumStep(f, g, s)]
<1>1. SumOf(f, S) = Iter[S]
  BY DEF SumOf, MapThenSumSet, MapThenFoldSet, SumStep, Taken
<1>2. Iter = [s \in SUBSET S |-> SumStep(f, Iter, s)]
  BY SumExists
<1> HIDE DEF Iter
<1>3. Sums(f, S, Iter)
  BY <1>2 DEF Sums
<1>4. QED
  BY <1>1, <1>3

\* A sum of integers is one.
LEMMA SumType ==
  ASSUME NEW f, NEW S, IsFiniteSet(S), \A x \in S : f[x] \in Int
  PROVE  SumOf(f, S) \in Int
<1>1. PICK g : SumOf(f, S) = g[S] /\ Sums(f, S, g)
  BY SumRecursion
<1> DEFINE Wrong == {s \in SUBSET S : g[s] \notin Int}
<1>2. ASSUME NEW s \in Wrong, \A x \in s : s \ {x} \notin Wrong
      PROVE  FALSE
  <2>1. CASE s = {}
    <3>1. g[s] = 0
      BY <1>1, <2>1 DEF Sums, SumStep
    <3>2. QED
      BY <3>1
  <2>2. CASE s # {}
    <3>1. Taken(s) \in s /\ s \ {Taken(s)} \in SUBSET S
      BY <2>2, TakenIn
    <3>2. g[s \ {Taken(s)}] \in Int /\ f[Taken(s)] \in Int
      BY <1>2, <3>1
    <3>3. g[s] = f[Taken(s)] + g[s \ {Taken(s)}]
      BY <1>1, <2>2 DEF Sums, SumStep
    <3>4. QED
      BY <3>2, <3>3
  <2>3. QED
    BY <2>1, <2>2
<1>3. Wrong = {}
  <2>1. Wrong \in SUBSET (SUBSET S)
    OBVIOUS
  <2> HIDE DEF Wrong
  <2>2. QED
    BY <1>2, <2>1, SmallestSubset
<1>4. QED
  BY <1>1, <1>3

\* Where every term has the same bounds, the sum has so many times these.
LEMMA SumBounds ==
  ASSUME NEW f, NEW S, IsFiniteSet(S), NEW lo \in Int, NEW hi \in Int,
         \A x \in S : f[x] \in Int /\ lo <= f[x] /\ f[x] <= hi
  PROVE  /\ SumOf(f, S) \in Int /\ Cardinality(S) \in Nat
         /\ Cardinality(S) * lo <= SumOf(f, S)
         /\ SumOf(f, S) <= Cardinality(S) * hi
<1>1. PICK g : SumOf(f, S) = g[S] /\ Sums(f, S, g)
  BY SumRecursion
<1> DEFINE Bounded(s) == /\ g[s] \in Int /\ Cardinality(s) * lo <= g[s]
                         /\ g[s] <= Cardinality(s) * hi
           Wrong == {s \in SUBSET S : ~Bounded(s)}
<1>2. ASSUME NEW s \in Wrong, \A x \in s : s \ {x} \notin Wrong
      PROVE  FALSE
  <2>1. CASE s = {}
    <3>1. g[s] = 0 /\ Cardinality(s) = 0
      BY <1>1, <2>1, FS_EmptySet DEF Sums, SumStep
    <3>2. QED
      BY <3>1
  <2>2. CASE s # {}
    <3> DEFINE x == Taken(s)
               r == s \ {x}
    <3>1. x \in s /\ r \in SUBSET S
      BY <2>2, TakenIn
    <3>2. Bounded(r)
      BY <1>2, <3>1
    <3>3. /\ Cardinality(r) = Cardinality(s) - 1 /\ Cardinality(r) \in Nat
          /\ Cardinality(s) \in Nat
      BY <3>1, FS_Subset, FS_RemoveElement, FS_CardinalityType
    <3>4. g[s] = f[x] + g[r]
      BY <1>1, <2>2 DEF Sums, SumStep
    <3>5. f[x] \in Int /\ lo <= f[x] /\ f[x] <= hi
      BY <3>1
    <3> HIDE DEF x, r
    <3>6. /\ Cardinality(s) * lo = Cardinality(r) * lo + lo
          /\ Cardinality(s) * hi = Cardinality(r) * hi + hi
      <4>1. \A k, m \in Int : \A z \in Int : k = m - 1 => m * z = k * z + z
        OBVIOUS
      <4>2. QED
        BY <3>3, <4>1
    <3>7. Cardinality(r) * lo \in Int /\ Cardinality(r) * hi \in Int
      BY <3>3
    <3>8. Bounded(s)
      BY <3>2, <3>4, <3>5, <3>6, <3>7
    <3>9. QED
      BY <3>8
  <2>3. QED
    BY <2>1, <2>2
<1>3. Wrong = {}
  <2>1. Wrong \in SUBSET (SUBSET S)
    OBVIOUS
  <2> HIDE DEF Wrong
  <2>2. QED
    BY <1>2, <2>1, SmallestSubset
<1>4. QED
  BY <1>1, <1>3, FS_CardinalityType

\* Terms that are all the same.
LEMMA SumConstant ==
  ASSUME NEW f, NEW S, IsFiniteSet(S), NEW c \in Int, \A x \in S : f[x] = c
  PROVE  SumOf(f, S) = Cardinality(S) * c
<1>1. /\ SumOf(f, S) \in Int /\ Cardinality(S) \in Nat
      /\ Cardinality(S) * c <= SumOf(f, S)
      /\ SumOf(f, S) <= Cardinality(S) * c
  BY SumBounds
<1>2. Cardinality(S) * c \in Int
  BY <1>1
<1>3. QED
  BY <1>1, <1>2

\* With no negative term, a sum is at least what some of its terms give.
LEMMA SumAtLeast ==
  ASSUME NEW f, NEW S, IsFiniteSet(S), NEW T \in SUBSET S, NEW w \in Nat,
         \A x \in S : f[x] \in Nat, \A x \in T : w <= f[x]
  PROVE  /\ SumOf(f, S) \in Int /\ Cardinality(T) \in Nat
         /\ Cardinality(T) * w <= SumOf(f, S)
<1>1. PICK g : SumOf(f, S) = g[S] /\ Sums(f, S, g)
  BY SumRecursion
<1> DEFINE Enough(s) == /\ g[s] \in Int
                        /\ Cardinality(s \intersect T) * w <= g[s]
           Wrong == {s \in SUBSET S : ~Enough(s)}
<1>2. ASSUME NEW s \in Wrong, \A x \in s : s \ {x} \notin Wrong
      PROVE  FALSE
  <2>1. CASE s = {}
    <3>1. g[s] = 0 /\ Cardinality(s \intersect T) = 0
      <4>1. s \intersect T = {}
        BY <2>1
      <4>2. QED
        BY <1>1, <2>1, <4>1, FS_EmptySet DEF Sums, SumStep
    <3>2. QED
      BY <3>1
  <2>2. CASE s # {}
    <3> DEFINE x == Taken(s)
               r == s \ {x}
               m == Cardinality(r \intersect T)
               k == Cardinality(s \intersect T)
    <3>1. x \in s /\ r \in SUBSET S
      BY <2>2, TakenIn
    <3>2. Enough(r)
      BY <1>2, <3>1
    <3>3. m \in Nat /\ k = IF x \in T THEN m + 1 ELSE m
      <4>1. IsFiniteSet(s \intersect T)
        BY FS_Subset
      <4>2. r \intersect T = (s \intersect T) \ {x}
        OBVIOUS
      <4>3. /\ IsFiniteSet(r \intersect T)
            /\ m = IF x \in s \intersect T THEN k - 1 ELSE k
        BY <4>1, <4>2, FS_RemoveElement
      <4>4. m \in Nat /\ k \in Nat
        BY <4>1, <4>3, FS_CardinalityType
      <4> HIDE DEF m, k, x
      <4>5. QED
        BY <3>1, <4>3, <4>4
    <3>4. g[s] = f[x] + g[r]
      BY <1>1, <2>2 DEF Sums, SumStep
    <3>5. f[x] \in Nat /\ (x \in T => w <= f[x])
      BY <3>1
    <3>6. g[r] \in Int /\ m * w <= g[r]
      BY <3>2
    <3> HIDE DEF x, r, m, k
    <3>7. m * w \in Int /\ (m + 1) * w = m * w + w
      BY <3>3
    <3>8. g[s] \in Int /\ k * w <= g[s]
      BY <3>3, <3>4, <3>5, <3>6, <3>7
    <3>9. QED
      BY <3>8 DEF k
  <2>3. QED
    BY <2>1, <2>2
<1>3. Wrong = {}
  <2>1. Wrong \in SUBSET (SUBSET S)
    OBVIOUS
  <2> HIDE DEF Wrong
  <2>2. QED
    BY <1>2, <2>1, SmallestSubset
<1>4. S \intersect T = T
  OBVIOUS
<1>5. IsFiniteSet(T)
  BY FS_Subset
<1>6. QED
  BY <1>1, <1>3, <1>4, <1>5, FS_CardinalityType

-----------------------------------------------------------------------------
(* The elements of a finite set of integers in their order.                *)

\* How many are smaller.
Rank(S, s) == Cardinality({t \in S : t < s})

\* A rank is a number below the size of the set.
LEMMA RankType ==
  ASSUME NEW S \in SUBSET Int, IsFiniteSet(S), NEW s \in S
  PROVE  /\ Rank(S, s) \in Nat /\ Cardinality(S) \in Nat
         /\ Rank(S, s) < Cardinality(S)
<1> DEFINE Below == {t \in S : t < s}
<1>1. Below \in SUBSET S /\ s \notin Below
  OBVIOUS
<1> HIDE DEF Below
<1>2. /\ IsFiniteSet(Below) /\ Cardinality(Below) <= Cardinality(S)
      /\ Cardinality(Below) # Cardinality(S)
  BY <1>1, FS_Subset
<1>3. Cardinality(Below) \in Nat /\ Cardinality(S) \in Nat
  BY <1>2, FS_CardinalityType
<1>4. QED
  BY <1>2, <1>3 DEF Rank, Below

\* The next element has the next rank.
LEMMA RankNext ==
  ASSUME NEW S \in SUBSET Int, IsFiniteSet(S), NEW s \in S, NEW t \in S,
         s < t, \A u \in S : ~(s < u /\ u < t)
  PROVE  Rank(S, t) = Rank(S, s) + 1
<1> DEFINE Below(x) == {u \in S : u < x}
<1>1. Below(t) = Below(s) \union {s} /\ s \notin Below(s)
  <2>1. ASSUME NEW u \in S
        PROVE  u < t <=> u < s \/ u = s
    <3>1. u \in Int /\ s \in Int /\ t \in Int
      OBVIOUS
    <3>2. QED
      BY <3>1
  <2>2. ~(s < s)
    <3>1. s \in Int
      OBVIOUS
    <3>2. QED
      BY <3>1
  <2>3. QED
    BY <2>1, <2>2
<1>2. IsFiniteSet(Below(s))
  BY FS_Subset
<1> HIDE DEF Below
<1>3. Cardinality(Below(t)) = Cardinality(Below(s)) + 1
  BY <1>1, <1>2, FS_AddElement
<1>4. QED
  BY <1>3 DEF Below, Rank

\* A smaller element has a smaller rank ...
LEMMA RankLess ==
  ASSUME NEW S \in SUBSET Int, IsFiniteSet(S), NEW s \in S, NEW t \in S, s < t
  PROVE  Rank(S, s) < Rank(S, t)
<1> DEFINE Below(u) == {v \in S : v < u}
<1>1. Below(s) \in SUBSET Below(t) /\ s \in Below(t) /\ s \notin Below(s)
  <2>1. ASSUME NEW v \in S, v < s
        PROVE  v < t
    <3>1. v \in Int /\ s \in Int /\ t \in Int
      OBVIOUS
    <3>2. QED
      BY <2>1, <3>1
  <2>2. ~(s < s)
    <3>1. s \in Int
      OBVIOUS
    <3>2. QED
      BY <3>1
  <2>3. QED
    BY <2>1, <2>2
<1>2. IsFiniteSet(Below(t))
  BY FS_Subset
<1>3. Rank(S, s) = Cardinality(Below(s)) /\ Rank(S, t) = Cardinality(Below(t))
  BY DEF Rank
<1> HIDE DEF Below
<1>4. /\ Cardinality(Below(s)) <= Cardinality(Below(t))
      /\ Cardinality(Below(s)) # Cardinality(Below(t))
  BY <1>1, <1>2, FS_Subset
<1>5. Rank(S, s) \in Nat /\ Rank(S, t) \in Nat
  BY RankType
<1>6. QED
  BY <1>3, <1>4, <1>5

\* ... so no two have the same.
LEMMA RankInjective ==
  ASSUME NEW S \in SUBSET Int, IsFiniteSet(S), NEW s \in S, NEW t \in S,
         Rank(S, s) = Rank(S, t)
  PROVE  s = t
<1>1. s \in Int /\ t \in Int
  OBVIOUS
<1>2. s < t \/ t < s \/ s = t
  BY <1>1
<1>3. Rank(S, s) \in Nat /\ Rank(S, t) \in Nat
  BY RankType
<1>4. QED
  BY <1>2, <1>3, RankLess

\* Every element but the last has a next one.
LEMMA NextElement ==
  ASSUME NEW S \in SUBSET Int, IsFiniteSet(S), NEW s \in S,
         Rank(S, s) + 1 < Cardinality(S)
  PROVE  \E t \in S : s < t /\ \A u \in S : ~(s < u /\ u < t)
<1> DEFINE Above == {t \in S : s < t}
           Upto == {t \in S : t < s} \union {s}
<1>1. Above # {}
  <2> SUFFICES ASSUME Above = {}
               PROVE  FALSE
    OBVIOUS
  <2>1. S = Upto
    <3>1. ASSUME NEW t \in S
          PROVE  t \in Upto
      <4>1. t \in Int /\ s \in Int /\ ~(s < t)
        OBVIOUS
      <4>2. t < s \/ t = s
        BY <4>1
      <4>3. QED
        BY <4>2
    <3>2. QED
      BY <3>1
  <2>2. IsFiniteSet({t \in S : t < s})
    BY FS_Subset
  <2>3. s \notin {t \in S : t < s}
    OBVIOUS
  <2>4. Cardinality(Upto) = Rank(S, s) + 1
    BY <2>2, <2>3, FS_AddElement DEF Rank
  <2>5. Rank(S, s) \in Nat
    BY RankType
  <2>6. QED
    BY <2>1, <2>4, <2>5
<1>2. Above \in SUBSET Int /\ s \in Int /\ \A t \in Above : s <= t
  <2>1. Above \in SUBSET Int /\ s \in Int
    OBVIOUS
  <2>2. \A t \in Int : s < t => s <= t
    BY <2>1
  <2>3. QED
    BY <2>1, <2>2
<1>3. PICK t \in Above : \A u \in Above : t <= u
  <2> HIDE DEF Above
  <2>1. QED
    BY <1>1, <1>2, LeastInt
<1>4. t \in S /\ s < t /\ t \in Int
  OBVIOUS
<1>5. ASSUME NEW u \in S, s < u, u < t
      PROVE  FALSE
  <2>1. u \in Int /\ t <= u
    BY <1>3, <1>5
  <2>2. QED
    BY <1>4, <1>5, <2>1
<1>6. QED
  BY <1>4, <1>5

\* Every rank below the size of the set is taken.
LEMMA RankTaken ==
  ASSUME NEW S \in SUBSET Int, IsFiniteSet(S),
         NEW k \in Nat, k < Cardinality(S)
  PROVE  \E s \in S : Rank(S, s) = k
<1> DEFINE Free == {n \in Nat : /\ n < Cardinality(S)
                               /\ \A s \in S : Rank(S, s) # n}
<1>0. Cardinality(S) \in Nat
  BY FS_CardinalityType
<1> SUFFICES ASSUME Free # {}
             PROVE  FALSE
  OBVIOUS
<1>1. PICK n \in Free : \A m \in Free : n <= m
  <2>1. Free \in SUBSET Nat
    OBVIOUS
  <2> HIDE DEF Free
  <2>2. QED
    BY <2>1, LeastNat
<1>2. n \in Nat /\ n < Cardinality(S) /\ \A s \in S : Rank(S, s) # n
  OBVIOUS
<1>3. CASE n = 0
  <2>1. S # {}
    BY <1>0, <1>2, FS_EmptySet
  <2>2. PICK c \in S : TRUE
    BY <2>1
  <2> DEFINE Ranks == {m \in Nat : \E s \in S : Rank(S, s) = m}
  <2>3. Ranks \in SUBSET Nat /\ Rank(S, c) \in Ranks
    BY RankType
  <2>4. PICK m \in Ranks : \A j \in Ranks : m <= j
    <3> HIDE DEF Ranks
    <3>1. QED
      BY <2>3, LeastNat
  <2>5. PICK s \in S : Rank(S, s) = m
    OBVIOUS
  <2>6. m \in Nat /\ m # 0
    BY <1>2, <1>3, <2>5
  <2>7. {t \in S : t < s} # {}
    <3>1. IsFiniteSet({t \in S : t < s})
      BY FS_Subset
    <3>2. QED
      BY <2>5, <2>6, <3>1, FS_EmptySet DEF Rank
  <2>8. PICK t \in S : t < s
    BY <2>7
  <2>9. Rank(S, t) < m
    BY <2>5, <2>8, RankLess
  <2>10. Rank(S, t) \in Ranks /\ Rank(S, t) \in Nat
    BY RankType
  <2>11. m <= Rank(S, t)
    <3> HIDE DEF Ranks
    <3>1. QED
      BY <2>4, <2>10
  <2>12. QED
    BY <2>6, <2>9, <2>10, <2>11
<1>4. CASE n # 0
  <2>1. n - 1 \in Nat /\ n - 1 < Cardinality(S)
    BY <1>0, <1>2, <1>4
  <2>2. n - 1 \notin Free
    <3> HIDE DEF Free
    <3>1. QED
      BY <1>1, <1>2, <2>1
  <2>3. PICK s \in S : Rank(S, s) = n - 1
    BY <2>1, <2>2
  <2>4. Rank(S, s) + 1 = n
    BY <1>2, <2>3
  <2>5. PICK t \in S : s < t /\ \A u \in S : ~(s < u /\ u < t)
    BY <1>2, <2>4, NextElement
  <2>6. Rank(S, t) = n
    BY <2>4, <2>5, RankNext
  <2>7. QED
    BY <1>2, <2>6
<1>5. QED
  BY <1>3, <1>4

-----------------------------------------------------------------------------
(* A list of two colours in turn.                                          *)

\* Of its first m elements half have either colour, rounded either way.
LEMMA HalfOfEach ==
  ASSUME NEW n \in Nat, NEW On \in SUBSET (1 .. n),
         \A k \in 1 .. n - 1 : k \in On <=> k + 1 \notin On,
         NEW m \in 0 .. n
  PROVE  LET c == Cardinality(On \intersect (1 .. m))
         IN c \in Nat /\ m <= 2 * c + 1 /\ 2 * c <= m + 1
<1> DEFINE C(j) == Cardinality(On \intersect (1 .. j))
           Half(j) == /\ C(j) \in Nat
                      /\ j = 0 => C(j) = 0
                      /\ j \in On => 2 * C(j) \in {j, j + 1}
                      /\ j \notin On => 2 * C(j) \in {j - 1, j}
           Wrong == {j \in Nat : j <= n /\ ~Half(j)}
<1>0. \A j \in Nat : IsFiniteSet(On \intersect (1 .. j))
  <2>1. ASSUME NEW j \in Nat PROVE IsFiniteSet(On \intersect (1 .. j))
    <3>1. IsFiniteSet(1 .. j) /\ On \intersect (1 .. j) \in SUBSET (1 .. j)
      BY FS_Interval
    <3>2. QED
      BY <3>1, FS_Subset
  <2>2. QED
    BY <2>1
<1>1. Half(0)
  <2>1. On \intersect (1 .. 0) = {} /\ 0 \notin On
    OBVIOUS
  <2>2. C(0) = 0
    BY <2>1, FS_EmptySet
  <2> HIDE DEF C
  <2>3. QED
    BY <2>1, <2>2
<1>2. ASSUME NEW j \in Nat, j + 1 <= n, Half(j)
      PROVE  Half(j + 1)
  <2> DEFINE L == On \intersect (1 .. j)
  <2>1. IsFiniteSet(L) /\ j + 1 \notin L
    BY <1>0
  <2>2. CASE j + 1 \in On
    <3>1. On \intersect (1 .. j + 1) = L \union {j + 1}
      BY <2>2
    <3>2. C(j + 1) = C(j) + 1
      BY <2>1, <3>1, FS_AddElement
    <3>3. j # 0 => j \notin On
      BY <1>2, <2>2
    <3> HIDE DEF C, L
    <3>4. 2 * C(j) \in {j - 1, j}
      BY <1>2, <3>3
    <3>5. QED
      BY <1>2, <2>2, <3>2, <3>4
  <2>3. CASE j + 1 \notin On
    <3>1. On \intersect (1 .. j + 1) = L
      BY <2>3
    <3>2. C(j + 1) = C(j)
      BY <3>1
    <3>3. j # 0 => j \in On
      BY <1>2, <2>3
    <3> HIDE DEF C, L
    <3>4. 2 * C(j) \in {j, j + 1}
      BY <1>2, <3>3
    <3>5. QED
      BY <1>2, <2>3, <3>2, <3>4
  <2>4. QED
    BY <2>2, <2>3
<1> HIDE DEF Half
<1>3. Wrong = {}
  <2> SUFFICES ASSUME Wrong # {}
               PROVE  FALSE
    OBVIOUS
  <2>1. PICK j \in Wrong : \A i \in Wrong : j <= i
    <3>1. Wrong \in SUBSET Nat
      OBVIOUS
    <3> HIDE DEF Wrong
    <3>2. QED
      BY <3>1, LeastNat
  <2>2. j \in Nat /\ j <= n /\ ~Half(j) /\ j # 0
    BY <1>1
  <2>3. j - 1 \in Nat /\ j - 1 + 1 = j /\ ~(j <= j - 1) /\ j - 1 <= n
    BY <2>2
  <2>4. j - 1 \notin Wrong
    <3> HIDE DEF Wrong
    <3>1. QED
      BY <2>1, <2>3
  <2>5. Half(j - 1)
    BY <2>3, <2>4
  <2>6. Half(j)
    <3>1. Half((j - 1) + 1)
      BY <1>2, <2>2, <2>3, <2>5
    <3>2. QED
      BY <2>3, <3>1
  <2>7. QED
    BY <2>2, <2>6
<1>4. Half(m)
  BY <1>3
<1> HIDE DEF C
<1>5. C(m) \in Nat /\ m <= 2 * C(m) + 1 /\ 2 * C(m) <= m + 1
  BY <1>4 DEF Half
<1>6. QED
  BY <1>5 DEF C

=============================================================================
