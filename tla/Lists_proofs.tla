---------------------------- MODULE Lists_proofs ----------------------------
(***************************************************************************)
(* Facts about numbers and lists that the proofs of the components use:    *)
(* least and greatest numbers, induction up to a bound, what the library's *)
(* folds compute, and what InOrder, Filtered and FlattenSeq return.  The   *)
(* library's induction theorems take an operator, which the provers cannot *)
(* instantiate; all of this rests on the well-foundedness of the naturals, *)
(* which is about a set.                                                   *)
(***************************************************************************)
EXTENDS Lists, FiniteSetTheorems, FunctionTheorems, SequenceTheorems, WellFoundedInduction,
  TLAPS

LEMMA Least ==
  ASSUME NEW T, T \subseteq Nat, T # {}
  PROVE  \E x \in T : \A y \in T : x <= y
<1>1. PICK x \in T : \A y \in T : <<y, x>> \notin OpToRel(<, Nat)
  BY NatLessThanWellFounded, WFMin
<1>2. ASSUME NEW y \in T, y < x
      PROVE  FALSE
  <2>0. <<y, x>> \in Nat \X Nat /\ <<y, x>>[1] < <<y, x>>[2]
    BY <1>2
  <2>1. <<y, x>> \in {ss \in Nat \X Nat : ss[1] < ss[2]}
    BY <2>0
  <2>2. <<y, x>> \in OpToRel(<, Nat)
    BY <2>1 DEF OpToRel
  <2> QED
    BY <1>1, <2>2
<1>3. x \in Nat /\ \A y \in T : y \in Nat
  OBVIOUS
<1> QED
  BY <1>2, <1>3

LEMMA Greatest ==
  ASSUME NEW S, S \subseteq Nat, S # {}, NEW b \in Nat, \A y \in S : y <= b
  PROVE  Max(S) \in S /\ \A y \in S : y <= Max(S)
<1> DEFINE U == {u \in Nat : \A y \in S : y <= u}
<1>1. PICK x \in U : \A u \in U : x <= u
  <2>1. U \subseteq Nat /\ b \in U
    OBVIOUS
  <2> QED
    BY <2>1, Least
<1>2. x \in S
  <2> SUFFICES ASSUME x \notin S
               PROVE  FALSE
    OBVIOUS
  <2>1. \A y \in S : y \in Nat /\ y < x
    BY <1>1
  <2>2. x - 1 \in Nat
    <3>1. PICK y \in S : TRUE
      OBVIOUS
    <3>2. x \in Nat /\ y \in Nat /\ y < x
      BY <1>1, <2>1
    <3> QED
      BY <3>2
  <2>3. \A y \in S : y <= x - 1
    BY <1>1, <2>1
  <2>4. x - 1 \in U
    BY <2>2, <2>3
  <2> QED
    BY <1>1, <2>4
<1>3. \A y \in S : x >= y
  BY <1>1
<1>4. \E m \in S : \A y \in S : m >= y
  BY <1>2, <1>3
<1>5. Max(S) \in S /\ \A y \in S : Max(S) >= y
  BY <1>4, Zenon DEF Max
<1> QED
  BY <1>5
-----------------------------------------------------------------------------
(* Folds.  The library folds over the subsets of the domain; what a fold   *)
(* does from one element to the next is the function F.                    *)

IsFold(g, F, b, n) ==
  \A t \in SUBSET (1..n) : g[t] = IF t = {} THEN b ELSE F[<<g[t \ {Max(t)}], Max(t)>>]

LEMMA MaxFacts ==
  ASSUME NEW n \in Nat, NEW t \in SUBSET (1..n), t # {}
  PROVE  Max(t) \in t /\ \A y \in t : y <= Max(t)
<1>1. t \subseteq Nat /\ \A y \in t : y <= n
  OBVIOUS
<1> QED
  BY <1>1, Greatest

LEMMA MaxOfInterval ==
  ASSUME NEW k \in Nat, k # 0
  PROVE  Max(1..k) = k /\ (1..k) \ {k} = 1..(k - 1) /\ 1..k # {}
<1>1. k \in 1..k /\ 1..k \in SUBSET (1..k)
  OBVIOUS
<1>2. Max(1..k) \in 1..k /\ \A y \in 1..k : y <= Max(1..k)
  BY <1>1, MaxFacts
<1>3. PICK m : m = Max(1..k)
  OBVIOUS
<1>4. m = k
  BY <1>1, <1>2, <1>3
<1>5. (1..k) \ {k} = 1..(k - 1)
  OBVIOUS
<1> QED
  BY <1>1, <1>3, <1>4, <1>5

Foldable(X, F, b, k) == \E g \in [SUBSET (1..k) -> X] : IsFold(g, F, b, k)

\* the fold over a longer interval, from the one over a shorter one
LEMMA FoldLonger ==
  ASSUME NEW X, NEW n \in Nat, NEW F \in [X \X (1..n) -> X], NEW b \in X,
         NEW k \in 1..n,
         NEW g \in [SUBSET (1..(k - 1)) -> X], IsFold(g, F, b, k - 1)
  PROVE  Foldable(X, F, b, k)
<1> DEFINE h == [t \in SUBSET (1..k) |-> IF k \in t THEN F[<<g[t \ {k}], k>>] ELSE g[t]]
<1>1. ASSUME NEW t \in SUBSET (1..k), k \notin t
      PROVE  t \in SUBSET (1..(k - 1)) /\ h[t] = g[t] /\ h[t] \in X
  <2>1. t \in SUBSET (1..(k - 1))
    BY <1>1
  <2> QED
    BY <1>1, <2>1
<1>2. ASSUME NEW t \in SUBSET (1..k), k \in t
      PROVE  /\ Max(t) = k /\ t # {} /\ h[t] \in X
             /\ h[t] = F[<<h[t \ {Max(t)}], Max(t)>>]
  <2>1. t # {} /\ k \in Nat
    BY <1>2
  <2>2. Max(t) \in t /\ \A y \in t : y <= Max(t)
    BY <2>1, MaxFacts
  <2>3. Max(t) = k
    <3>1. PICK m : m = Max(t)
      OBVIOUS
    <3>2. m \in 1..k /\ k <= m
      BY <1>2, <2>2, <3>1
    <3> QED
      BY <3>1, <3>2
  <2>4. t \ {k} \in SUBSET (1..k) /\ k \notin t \ {k}
    OBVIOUS
  <2>5. h[t \ {k}] = g[t \ {k}] /\ h[t \ {k}] \in X
    BY <1>1, <2>4
  <2>6. h[t] = F[<<h[t \ {k}], k>>]
    BY <1>2, <2>5
  <2> QED
    BY <2>1, <2>3, <2>5, <2>6
<1>3. h \in [SUBSET (1..k) -> X]
  BY <1>1, <1>2
<1>4. ASSUME NEW t \in SUBSET (1..k)
      PROVE  h[t] = IF t = {} THEN b ELSE F[<<h[t \ {Max(t)}], Max(t)>>]
  <2>1. CASE k \in t
    BY <1>2, <2>1
  <2>2. CASE k \notin t /\ t # {}
    <3>1. t \in SUBSET (1..(k - 1)) /\ h[t] = g[t]
      BY <1>1, <2>2
    <3>2. t \ {Max(t)} \in SUBSET (1..k) /\ k \notin t \ {Max(t)}
      BY <2>2
    <3>3. h[t \ {Max(t)}] = g[t \ {Max(t)}]
      BY <1>1, <3>2
    <3>4. g[t] = F[<<g[t \ {Max(t)}], Max(t)>>]
      BY <2>2, <3>1 DEF IsFold
    <3> QED
      BY <2>2, <3>1, <3>3, <3>4
  <2>3. CASE t = {}
    <3>1. k \notin t /\ t \in SUBSET (1..(k - 1))
      BY <2>3
    <3>2. g[t] = b
      BY <2>3, <3>1 DEF IsFold
    <3> QED
      BY <1>1, <2>3, <3>1, <3>2
  <2> QED
    BY <2>1, <2>2, <2>3
<1>5. IsFold(h, F, b, k)
  BY <1>4 DEF IsFold
<1> QED
  BY <1>3, <1>5 DEF Foldable

LEMMA FoldExists ==
  ASSUME NEW X, NEW n \in Nat, NEW F \in [X \X (1..n) -> X], NEW b \in X
  PROVE  Foldable(X, F, b, n)
<1> DEFINE Bad == {k \in 0..n : ~Foldable(X, F, b, k)}
<1>1. Foldable(X, F, b, 0)
  <2> DEFINE g == [t \in SUBSET (1..0) |-> b]
  <2>1. g \in [SUBSET (1..0) -> X]
    OBVIOUS
  <2>2. \A t \in SUBSET (1..0) : t = {}
    OBVIOUS
  <2>3. IsFold(g, F, b, 0)
    BY <2>2 DEF IsFold
  <2> QED
    BY <2>1, <2>3 DEF Foldable
<1>2. Bad = {}
  <2> SUFFICES ASSUME Bad # {}
               PROVE  FALSE
    OBVIOUS
  <2>1. Bad \subseteq Nat
    OBVIOUS
  <2>2. PICK m \in Bad : \A y \in Bad : m <= y
    BY <2>1, Least
  <2>3. m \in 1..n /\ m - 1 \in 0..n /\ m - 1 \notin Bad
    BY <1>1, <2>2
  <2>4. Foldable(X, F, b, m - 1)
    BY <2>3
  <2>5. Foldable(X, F, b, m)
    <3>1. PICK g \in [SUBSET (1..(m - 1)) -> X] : IsFold(g, F, b, m - 1)
      BY <2>4 DEF Foldable
    <3> QED
      BY <2>3, <3>1, FoldLonger
  <2> QED
    BY <2>2, <2>5
<1>3. n \in 0..n
  OBVIOUS
<1> QED
  BY <1>2, <1>3
\* induction up to n
LEMMA Climb ==
  ASSUME NEW n \in Nat, NEW T, 0 \in T, \A k \in 1..n : k - 1 \in T => k \in T
  PROVE  \A k \in 0..n : k \in T
<1> DEFINE Bad == {k \in 0..n : k \notin T}
<1> SUFFICES ASSUME Bad # {}
             PROVE  FALSE
  OBVIOUS
<1>1. Bad \subseteq Nat
  OBVIOUS
<1>2. PICK m \in Bad : \A y \in Bad : m <= y
  BY <1>1, Least
<1>3. m \in 1..n /\ m - 1 \in 0..n /\ m - 1 \notin Bad
  BY <1>2
<1> QED
  BY <1>2, <1>3
-----------------------------------------------------------------------------
(* InOrder: the number at i is the one with i numbers up to it.            *)

Upto(S, n) == {m \in S : m <= n}

\* a finite set of numbers has a greatest one
LEMMA FiniteGreatest ==
  ASSUME NEW S, IsFiniteSet(S), S \subseteq Int, S # {}
  PROVE  \E x \in S : \A y \in S : y <= x
<1> DEFINE T == {k \in Nat : \A R \in SUBSET S : R # {} /\ Cardinality(R) = k =>
                               \E x \in R : \A y \in R : y <= x}
<1>1. PICK c : c = Cardinality(S)
  OBVIOUS
<1>2. c \in Nat
  BY <1>1, FS_CardinalityType
<1>3. 0 \in T
  <2>1. ASSUME NEW R \in SUBSET S, Cardinality(R) = 0
        PROVE  R = {}
    BY <2>1, FS_Subset, FS_EmptySet
  <2> QED
    BY <2>1
<1>4. ASSUME NEW k \in 1..c, k - 1 \in T
      PROVE  k \in T
  <2> SUFFICES ASSUME NEW R \in SUBSET S, R # {}, Cardinality(R) = k
               PROVE  \E x \in R : \A y \in R : y <= x
    OBVIOUS
  <2>1. PICK a \in R : TRUE
    OBVIOUS
  <2>2. IsFiniteSet(R)
    BY FS_Subset
  <2>3. Cardinality(R \ {a}) = k - 1
    BY <2>1, <2>2, FS_RemoveElement
  <2>4. R \ {a} \in SUBSET S /\ a \in Int
    BY <2>1
  <2>5. CASE R \ {a} = {}
    <3>1. \A y \in R : y = a
      BY <2>5
    <3> QED
      BY <2>1, <2>4, <3>1
  <2>6. CASE R \ {a} # {}
    <3>1. PICK z \in R \ {a} : \A y \in R \ {a} : y <= z
      BY <1>4, <2>3, <2>4, <2>6
    <3>2. z \in Int /\ \A y \in R : y \in Int
      OBVIOUS
    <3>3. CASE z <= a
      BY <2>1, <2>4, <3>1, <3>2, <3>3
    <3>4. CASE a <= z
      BY <2>1, <2>4, <3>1, <3>2, <3>4
    <3> QED
      BY <2>4, <3>2, <3>3, <3>4
  <2> QED
    BY <2>5, <2>6
<1> HIDE DEF T
<1>5. c \in T
  BY <1>2, <1>3, <1>4, Climb
<1> QED
  BY <1>1, <1>5 DEF T

LEMMA UptoFacts ==
  ASSUME NEW S, IsFiniteSet(S), S \subseteq Int, NEW n \in S
  PROVE  /\ IsFiniteSet(Upto(S, n)) /\ Cardinality(Upto(S, n)) \in 1..Cardinality(S)
         /\ \A m \in S : m < n => Cardinality(Upto(S, m)) < Cardinality(Upto(S, n))
<1>1. Upto(S, n) \in SUBSET S /\ n \in Upto(S, n)
  BY DEF Upto
<1>2. /\ IsFiniteSet(Upto(S, n)) /\ Cardinality(Upto(S, n)) \in Nat
      /\ Cardinality(Upto(S, n)) <= Cardinality(S) /\ Cardinality(S) \in Nat
  BY <1>1, FS_Subset, FS_CardinalityType
<1>3. Cardinality(Upto(S, n)) # 0
  BY <1>1, <1>2, FS_EmptySet
<1>4. ASSUME NEW m \in S, m < n
      PROVE  Cardinality(Upto(S, m)) < Cardinality(Upto(S, n))
  <2>0. m \in Int /\ n \in Int /\ \A y \in S : y \in Int
    OBVIOUS
  <2>1. Upto(S, m) \in SUBSET Upto(S, n) /\ n \notin Upto(S, m)
    <3>1. ASSUME NEW y \in S, y <= m
          PROVE  y <= n
      BY <1>4, <2>0, <3>1
    <3>2. ~(n <= m)
      BY <1>4, <2>0
    <3> QED
      BY <3>1, <3>2 DEF Upto
  <2>2. /\ IsFiniteSet(Upto(S, m)) /\ Cardinality(Upto(S, m)) \in Nat
        /\ Cardinality(Upto(S, m)) <= Cardinality(Upto(S, n))
    BY <1>2, <2>1, FS_Subset, FS_CardinalityType
  <2>3. Cardinality(Upto(S, m)) # Cardinality(Upto(S, n))
    BY <1>1, <1>2, <2>1, FS_Subset
  <2> QED
    BY <1>2, <2>2, <2>3
<1> QED
  BY <1>2, <1>3, <1>4

LEMMA RankIsTaken ==
  ASSUME NEW S, IsFiniteSet(S), S \subseteq Int, NEW i \in 1..Cardinality(S)
  PROVE  \E n \in S : Cardinality(Upto(S, n)) = i
<1> DEFINE T == {k \in Nat : \A R \in SUBSET S : Cardinality(R) = k =>
                               \A j \in 1..k : \E n \in R : Cardinality(Upto(R, n)) = j}
<1>1. PICK c : c = Cardinality(S)
  OBVIOUS
<1>2. c \in Nat
  BY <1>1, FS_CardinalityType
<1>3. 0 \in T
  OBVIOUS
<1>4. ASSUME NEW k \in 1..c, k - 1 \in T
      PROVE  k \in T
  <2> SUFFICES ASSUME NEW R \in SUBSET S, Cardinality(R) = k, NEW j \in 1..k
               PROVE  \E n \in R : Cardinality(Upto(R, n)) = j
    OBVIOUS
  <2>0. IsFiniteSet(R) /\ R \subseteq Int
    BY FS_Subset
  <2>1. IsFiniteSet(R) /\ R \subseteq Int /\ R # {}
    <3>1. k # 0
      OBVIOUS
    <3> QED
      BY <2>0, <3>1, FS_EmptySet
  <2>2. PICK x \in R : \A y \in R : y <= x
    BY <2>1, FiniteGreatest
  <2>3. Cardinality(R \ {x}) = k - 1 /\ R \ {x} \in SUBSET S
    BY <2>1, <2>2, FS_RemoveElement
  <2>4. CASE j = k
    <3>1. Upto(R, x) = R
      BY <2>2 DEF Upto
    <3> QED
      BY <2>2, <2>4, <3>1
  <2>5. CASE j # k
    <3>1. j \in 1..(k - 1)
      BY <2>5
    <3>2. PICK n \in R \ {x} : Cardinality(Upto(R \ {x}, n)) = j
      BY <1>4, <2>3, <3>1
    <3>3. ~(x <= n)
      BY <2>1, <2>2, <3>2
    <3>4. Upto(R, n) = Upto(R \ {x}, n)
      BY <3>3 DEF Upto
    <3> QED
      BY <3>2, <3>4
  <2> QED
    BY <2>4, <2>5
<1> HIDE DEF T
<1>5. c \in T
  BY <1>2, <1>3, <1>4, Climb
<1> QED
  BY <1>1, <1>5 DEF T

IsInOrder(s, S) ==
  /\ Cardinality(S) \in Nat
  /\ s \in [1..Cardinality(S) -> S]
  /\ \A i, j \in 1..Cardinality(S) : i < j => s[i] < s[j]
  /\ \A n \in S : \E i \in 1..Cardinality(S) : s[i] = n

LEMMA InOrderRank ==
  ASSUME NEW S, IsFiniteSet(S), S \subseteq Int, NEW i \in 1..Cardinality(S)
  PROVE  InOrder(S)[i] \in S /\ Cardinality(Upto(S, InOrder(S)[i])) = i
<1>1. \E n \in S : Cardinality({m \in S : m <= n}) = i
  BY RankIsTaken DEF Upto
<1>2. PICK x : x = CHOOSE n \in S : Cardinality({m \in S : m <= n}) = i
  OBVIOUS
<1>3. InOrder(S)[i] = x
  BY <1>2 DEF InOrder
<1>4. x \in S /\ Cardinality({m \in S : m <= x}) = i
  BY <1>1, <1>2
<1> QED
  BY <1>3, <1>4 DEF Upto

\* the list has each number of the set once, in ascending order
LEMMA InOrderFacts ==
  ASSUME NEW S, IsFiniteSet(S), S \subseteq Int
  PROVE  IsInOrder(InOrder(S), S)
<1>1. PICK c : c = Cardinality(S)
  OBVIOUS
<1>2. c \in Nat
  BY <1>1, FS_CardinalityType
<1>3. PICK s : s = InOrder(S)
  OBVIOUS
<1>4. ASSUME NEW i \in 1..c
      PROVE  s[i] \in S /\ Cardinality(Upto(S, s[i])) = i
  <2>1. i \in 1..Cardinality(S)
    BY <1>1
  <2> QED
    BY <1>3, <2>1, InOrderRank
<1>5. s \in [1..c -> S]
  <2>1. InOrder(S) = [i \in 1..c |-> CHOOSE n \in S : Cardinality({m \in S : m <= n}) = i]
    BY <1>1, Zenon DEF InOrder
  <2>2. s = [i \in 1..c |-> s[i]]
    BY <1>3, <2>1
  <2> QED
    BY <1>4, <2>2
<1>6. ASSUME NEW i \in 1..c, NEW j \in 1..c, i < j
      PROVE  s[i] < s[j]
  <2>1. s[i] \in Int /\ s[j] \in Int /\ s[i] \in S /\ s[j] \in S
    BY <1>4
  <2>2. Cardinality(Upto(S, s[i])) = i /\ Cardinality(Upto(S, s[j])) = j
    BY <1>4
  <2>3. s[i] # s[j]
    BY <1>6, <2>2
  <2>4. ASSUME s[j] < s[i]
        PROVE  FALSE
    <3>1. Cardinality(Upto(S, s[j])) < Cardinality(Upto(S, s[i]))
      BY <2>1, <2>4, UptoFacts
    <3> QED
      BY <1>6, <2>2, <3>1
  <2> QED
    BY <2>1, <2>3, <2>4
<1>7. ASSUME NEW n \in S
      PROVE  \E i \in 1..c : s[i] = n
  <2>1. PICK i : i = Cardinality(Upto(S, n))
    OBVIOUS
  <2>2. i \in 1..c
    BY <1>1, <2>1, UptoFacts
  <2>3. s[i] \in S /\ Cardinality(Upto(S, s[i])) = i
    BY <1>4, <2>2
  <2>4. n \in Int /\ s[i] \in Int
    BY <2>3
  <2>5. ~(s[i] < n)
    <3>1. s[i] < n => Cardinality(Upto(S, s[i])) < Cardinality(Upto(S, n))
      BY <2>3, UptoFacts
    <3> QED
      BY <2>1, <2>2, <2>3, <3>1
  <2>6. ~(n < s[i])
    <3>1. n < s[i] => Cardinality(Upto(S, n)) < Cardinality(Upto(S, s[i]))
      BY <2>3, UptoFacts
    <3> QED
      BY <2>1, <2>2, <2>3, <3>1
  <2> QED
    BY <2>2, <2>4, <2>5, <2>6
<1> QED
  BY <1>1, <1>2, <1>3, <1>5, <1>6, <1>7 DEF IsInOrder

\* and it is the only such list
LEMMA InOrderUnique ==
  ASSUME NEW S, IsFiniteSet(S), S \subseteq Int, NEW n \in Nat, NEW t \in [1..n -> S],
         \A i, j \in 1..n : i < j => t[i] < t[j], \A x \in S : \E i \in 1..n : t[i] = x
  PROVE  n = Cardinality(S) /\ t = InOrder(S)
<1>1. ASSUME NEW i \in 1..n, NEW j \in 1..n, i # j
      PROVE  t[i] # t[j]
  <2>0. i \in Int /\ j \in Int /\ t[i] \in S /\ t[j] \in S
    OBVIOUS
  <2>1. t[i] \in Int /\ t[j] \in Int
    BY <2>0
  <2>2. i < j \/ j < i
    BY <1>1
  <2> QED
    BY <2>1, <2>2
<1>2. ASSUME NEW i \in 0..n
      PROVE  IsFiniteSet({t[j] : j \in 1..i}) /\ Cardinality({t[j] : j \in 1..i}) = i
  <2> DEFINE f == [j \in 1..i |-> t[j]]
             R == {t[j] : j \in 1..i}
  <2>0. \A j \in 1..i : j \in 1..n
    OBVIOUS
  <2>1. f \in Bijection(1..i, R)
    <3>1. f \in [1..i -> R] /\ \A a, b \in 1..i : f[a] = f[b] => a = b
      BY <1>1, <2>0
    <3>2. \A r \in R : \E j \in 1..i : f[j] = r
      OBVIOUS
    <3> HIDE DEF f, R
    <3> QED
      BY <3>1, <3>2, Fun_IsBij
  <2>2. IsFiniteSet(1..i) /\ Cardinality(1..i) = i
    BY FS_Interval
  <2>3. ExistsBijection(1..i, R)
    BY <2>1 DEF ExistsBijection
  <2> HIDE DEF f, R
  <2>4. IsFiniteSet(R) /\ Cardinality(R) = i
    BY <2>2, <2>3, FS_Bijection
  <2> QED
    BY <2>4 DEF R
<1>3. S = {t[j] : j \in 1..n}
  <2>1. \A j \in 1..n : t[j] \in S
    OBVIOUS
  <2> QED
    BY <2>1
<1>4. n = Cardinality(S)
  <2>1. n \in 0..n
    OBVIOUS
  <2> QED
    BY <1>2, <1>3, <2>1
<1>5. PICK s : s = InOrder(S)
  OBVIOUS
<1>6. s = [i \in 1..n |-> s[i]]
  <2>1. InOrder(S) = [i \in 1..n |-> CHOOSE x \in S : Cardinality({m \in S : m <= x}) = i]
    BY <1>4, Zenon DEF InOrder
  <2> QED
    BY <1>5, <2>1
<1>7. ASSUME NEW i \in 1..n
      PROVE  s[i] = t[i]
  <2>1. s[i] \in S /\ Cardinality(Upto(S, s[i])) = i
    BY <1>4, <1>5, InOrderRank
  <2>2. PICK k \in 1..n : t[k] = s[i]
    BY <2>1
  <2>3. Upto(S, t[k]) = {t[j] : j \in 1..k}
    <3>1. ASSUME NEW j \in 1..k
          PROVE  t[j] \in S /\ t[j] <= t[k]
      <4>1. j \in 1..n /\ (j = k \/ j < k)
        OBVIOUS
      <4>2. t[j] \in S /\ t[k] \in S
        BY <4>1
      <4>3. t[j] \in Int /\ t[k] \in Int
        BY <4>2
      <4>4. j < k => t[j] < t[k]
        BY <4>1
      <4> QED
        BY <4>1, <4>2, <4>3, <4>4
    <3>2. ASSUME NEW j \in 1..n, t[j] <= t[k]
          PROVE  j \in 1..k
      <4>1. t[j] \in Int /\ t[k] \in Int /\ (k < j => t[k] < t[j])
        OBVIOUS
      <4> QED
        BY <3>2, <4>1
    <3> QED
      BY <1>3, <3>1, <3>2 DEF Upto
  <2>4. k \in 0..n
    OBVIOUS
  <2>5. Cardinality(Upto(S, t[k])) = k
    BY <1>2, <2>3, <2>4
  <2> QED
    BY <2>1, <2>2, <2>5
<1>8. t = [i \in 1..n |-> t[i]]
  OBVIOUS
<1> QED
  BY <1>4, <1>5, <1>6, <1>7, <1>8

-----------------------------------------------------------------------------
(* FlattenSeq: one list after the other.                                   *)

Chained(s, t) == s \o t

IsChain(c, s, t, X) ==
  /\ c \in Seq(X) /\ Len(c) = Len(s) + Len(t)
  /\ Len(s) \in Nat /\ Len(t) \in Nat
  /\ \A i \in 1..Len(s) : c[i] = s[i]
  /\ \A i \in 1..Len(t) : c[Len(s) + i] = t[i]

LEMMA ChainedFacts ==
  ASSUME NEW X, NEW s \in Seq(X), NEW t \in Seq(X)
  PROVE  IsChain(Chained(s, t), s, t, X)
BY DEF Chained, IsChain

LEMMA ToSetIsRange ==
  ASSUME NEW X, NEW s \in Seq(X)
  PROVE  ToSet(s) = {s[i] : i \in 1..Len(s)} /\ DOMAIN s = 1..Len(s) /\ Len(s) \in Nat
BY DEF ToSet

LEMMA ToSetOf ==
  ASSUME NEW X, NEW n \in Nat, NEW s \in [1..n -> X]
  PROVE  s \in Seq(X) /\ Len(s) = n /\ DOMAIN s = 1..n /\ ToSet(s) = {s[i] : i \in 1..n}
<1>1. s \in Seq(X) /\ Len(s) = n /\ DOMAIN s = 1..n
  BY SeqDef
<1> QED
  BY <1>1 DEF ToSet

LEMMA ToSetChained ==
  ASSUME NEW X, NEW s \in Seq(X), NEW t \in Seq(X)
  PROVE  ToSet(Chained(s, t)) = ToSet(s) \cup ToSet(t)
<1>1. PICK c : c = Chained(s, t)
  OBVIOUS
<1>2. PICK m, n : m = Len(s) /\ n = Len(t)
  OBVIOUS
<1>3. /\ c \in Seq(X) /\ Len(c) = m + n /\ m \in Nat /\ n \in Nat
      /\ \A i \in 1..m : c[i] = s[i]
      /\ \A i \in 1..n : c[m + i] = t[i]
  <2>1. /\ c \in Seq(X) /\ Len(c) = Len(s) + Len(t) /\ Len(s) \in Nat /\ Len(t) \in Nat
        /\ \A i \in 1..Len(s) : c[i] = s[i]
        /\ \A i \in 1..Len(t) : c[Len(s) + i] = t[i]
    <3>1. IsChain(Chained(s, t), s, t, X)
      BY ChainedFacts
    <3> QED
      BY <1>1, <3>1 DEF IsChain
  <2> QED
    BY <1>2, <2>1
<1>4. /\ ToSet(s) = {s[i] : i \in 1..m} /\ ToSet(t) = {t[i] : i \in 1..n}
      /\ ToSet(c) = {c[i] : i \in 1..(m + n)}
  <2>1. ToSet(c) = {c[i] : i \in 1..Len(c)}
    BY <1>3, ToSetIsRange
  <2> QED
    BY <1>2, <1>3, <2>1, ToSetIsRange
<1>5. ASSUME NEW x \in ToSet(c)
      PROVE  x \in ToSet(s) \cup ToSet(t)
  <2>1. PICK i \in 1..(m + n) : x = c[i]
    BY <1>4
  <2>2. CASE i <= m
    BY <1>3, <1>4, <2>1, <2>2
  <2>3. CASE m < i
    <3>1. i - m \in 1..n /\ m + (i - m) = i
      BY <1>3, <2>1, <2>3
    <3>2. c[i] = t[i - m]
      BY <1>3, <3>1
    <3> QED
      BY <1>4, <2>1, <3>1, <3>2
  <2> QED
    BY <1>3, <2>1, <2>2, <2>3
<1>6. ASSUME NEW i \in 1..m
      PROVE  s[i] \in ToSet(c)
  <2>1. i \in 1..(m + n)
    BY <1>3
  <2> QED
    BY <1>3, <1>4, <2>1
<1>7. ASSUME NEW i \in 1..n
      PROVE  t[i] \in ToSet(c)
  <2>1. m + i \in 1..(m + n)
    BY <1>3
  <2> QED
    BY <1>3, <1>4, <2>1
<1> QED
  BY <1>1, <1>4, <1>5, <1>6, <1>7

\* r is what is put together after each list
FlattenedBy(r, s, n) ==
  /\ r[0] = <<>> /\ r[n] = FlattenSeq(s)
  /\ \A k \in 1..n : r[k] = Chained(r[k - 1], s[k])

Flattens(f, s, n) == f = [i \in 1..n |-> IF i = 1 THEN s[i] ELSE Chained(f[i - 1], s[i])]

LEMMA FlattenSeqIs ==
  ASSUME NEW s
  PROVE  FlattenSeq(s) = IF Len(s) = 0 THEN s ELSE (CHOOSE f : Flattens(f, s, Len(s)))[Len(s)]
BY DEF FlattenSeq, Flattens, Chained

LEMMA FlattensExists ==
  ASSUME NEW X, NEW n \in Nat, NEW s \in [1..n -> Seq(X)]
  PROVE  \A k \in 0..n : \E f \in [1..k -> Seq(X)] : Flattens(f, s, k)
<1> DEFINE T == {k \in 0..n : \E f \in [1..k -> Seq(X)] : Flattens(f, s, k)}
<1>0. 0 \in 0..n
  OBVIOUS
<1>1. 0 \in T
  <2>1. [i \in 1..0 |-> <<>>] \in [1..0 -> Seq(X)]
    OBVIOUS
  <2>2. Flattens([i \in 1..0 |-> <<>>], s, 0)
    <3>1. PICK f : f = [i \in 1..0 |-> <<>>]
      OBVIOUS
    <3>2. f = [i \in 1..0 |-> IF i = 1 THEN s[i] ELSE Chained(f[i - 1], s[i])]
      <4>1. \A i : i \notin 1..0
        OBVIOUS
      <4> QED
        BY <3>1, <4>1
    <3> QED
      BY <3>1, <3>2 DEF Flattens
  <2> QED
    BY <1>0, <2>1, <2>2
<1>2. ASSUME NEW k \in 1..n, k - 1 \in T
      PROVE  k \in T
  <2>1. PICK f \in [1..(k - 1) -> Seq(X)] : Flattens(f, s, k - 1)
    BY <1>2
  <2>2. PICK c : c = IF k = 1 THEN s[k] ELSE Chained(f[k - 1], s[k])
    OBVIOUS
  <2>3. c \in Seq(X)
    <3>1. s[k] \in Seq(X)
      OBVIOUS
    <3>2. k # 1 => f[k - 1] \in Seq(X)
      OBVIOUS
    <3>3. k # 1 => IsChain(Chained(f[k - 1], s[k]), f[k - 1], s[k], X)
      BY <3>1, <3>2, ChainedFacts
    <3> QED
      BY <2>2, <3>1, <3>3 DEF IsChain
  <2> DEFINE g == [i \in 1..k |-> IF i = k THEN c ELSE f[i]]
  <2>4. g \in [1..k -> Seq(X)]
    BY <2>3
  <2>5. ASSUME NEW i \in 1..k
        PROVE  g[i] = IF i = 1 THEN s[i] ELSE Chained(g[i - 1], s[i])
    <3>1. CASE i = k
      <4>1. k # 1 => g[k - 1] = f[k - 1]
        OBVIOUS
      <4> QED
        BY <2>2, <3>1, <4>1
    <3>2. CASE i # k
      <4>1. i \in 1..(k - 1) /\ g[i] = f[i] /\ (i # 1 => g[i - 1] = f[i - 1])
        BY <3>2
      <4>2. f[i] = IF i = 1 THEN s[i] ELSE Chained(f[i - 1], s[i])
        BY <2>1, <4>1 DEF Flattens
      <4> QED
        BY <4>1, <4>2
    <3> QED
      BY <3>1, <3>2
  <2>6. g = [i \in 1..k |-> IF i = 1 THEN s[i] ELSE Chained(g[i - 1], s[i])]
    <3>1. g = [i \in 1..k |-> g[i]]
      OBVIOUS
    <3> HIDE DEF g
    <3> QED
      BY <2>5, <3>1
  <2> HIDE DEF g
  <2>7. Flattens(g, s, k)
    BY <2>6 DEF Flattens
  <2> QED
    BY <2>4, <2>7
<1> HIDE DEF T
<1>3. \A k \in 0..n : k \in T
  BY <1>1, <1>2, Climb
<1> QED
  BY <1>3 DEF T

LEMMA FlattenRun ==
  ASSUME NEW X, NEW n \in Nat, NEW s \in [1..n -> Seq(X)]
  PROVE  \E r : FlattenedBy(r, s, n)
<1>1. Len(s) = n
  BY ToSetOf
<1>2. CASE n = 0
  <2>1. s = <<>>
    BY <1>1, <1>2, ToSetOf
  <2>2. FlattenSeq(s) = <<>>
    BY <1>1, <1>2, <2>1, FlattenSeqIs
  <2>3. FlattenedBy([k \in {0} |-> <<>>], s, n)
    BY <1>2, <2>2 DEF FlattenedBy
  <2> QED
    BY <2>3
<1>3. CASE n # 0
  <2>1. n \in 0..n
    OBVIOUS
  <2>2. \E f : Flattens(f, s, n)
    BY <2>1, FlattensExists
  <2>3. PICK f : f = CHOOSE h : Flattens(h, s, n)
    OBVIOUS
  <2>4. Flattens(f, s, n) /\ FlattenSeq(s) = f[n]
    BY <1>1, <1>3, <2>2, <2>3, FlattenSeqIs
  <2>5. \A i \in 1..n : f[i] = IF i = 1 THEN s[i] ELSE Chained(f[i - 1], s[i])
    BY <2>4 DEF Flattens
  <2> DEFINE r == [k \in 0..n |-> IF k = 0 THEN <<>> ELSE f[k]]
  <2>6. r[0] = <<>> /\ r[n] = FlattenSeq(s)
    BY <1>3, <2>4
  <2>7. ASSUME NEW k \in 1..n
        PROVE  r[k] = Chained(r[k - 1], s[k])
    <3>1. CASE k = 1
      <4>1. s[1] \in Seq(X)
        BY <3>1
      <4>2. Chained(<<>>, s[1]) = s[1]
        BY <4>1 DEF Chained
      <4> QED
        BY <2>5, <3>1, <4>2
    <3>2. CASE k # 1
      BY <2>5, <3>2
    <3> QED
      BY <3>1, <3>2
  <2> HIDE DEF r
  <2> QED
    BY <2>6, <2>7 DEF FlattenedBy
<1> QED
  BY <1>2, <1>3

\* it has what is in one of the lists
LEMMA FlattenFacts ==
  ASSUME NEW X, NEW n \in Nat, NEW s \in [1..n -> Seq(X)]
  PROVE  /\ FlattenSeq(s) \in Seq(X)
         /\ \A x : x \in ToSet(FlattenSeq(s)) <=> \E i \in 1..n : x \in ToSet(s[i])
<1>1. PICK r : FlattenedBy(r, s, n)
  BY FlattenRun
<1> DEFINE T == {k \in 0..n : r[k] \in Seq(X) /\
                   \A x : x \in ToSet(r[k]) <=> \E i \in 1..k : x \in ToSet(s[i])}
<1>2. 0 \in T
  <2>1. r[0] = <<>> /\ <<>> \in Seq(X)
    BY <1>1 DEF FlattenedBy
  <2>2. ToSet(<<>>) = {}
    BY DEF ToSet
  <2>3. 0 \in 0..n /\ \A i : i \notin 1..0
    OBVIOUS
  <2> QED
    BY <2>1, <2>2, <2>3
<1>3. ASSUME NEW k \in 1..n, k - 1 \in T
      PROVE  k \in T
  <2>1. r[k] = Chained(r[k - 1], s[k]) /\ r[k - 1] \in Seq(X) /\ s[k] \in Seq(X)
    BY <1>1, <1>3 DEF FlattenedBy
  <2>2. r[k] \in Seq(X) /\ ToSet(r[k]) = ToSet(r[k - 1]) \cup ToSet(s[k])
    <3>1. IsChain(Chained(r[k - 1], s[k]), r[k - 1], s[k], X)
      BY <2>1, ChainedFacts
    <3>2. r[k] \in Seq(X)
      BY <2>1, <3>1 DEF IsChain
    <3> QED
      BY <2>1, <3>2, ToSetChained
  <2>3. k \in 0..n
    OBVIOUS
  <2>4. ASSUME NEW x
        PROVE  x \in ToSet(r[k]) <=> \E i \in 1..k : x \in ToSet(s[i])
    <3>1. x \in ToSet(r[k - 1]) <=> \E i \in 1..(k - 1) : x \in ToSet(s[i])
      BY <1>3
    <3>2. \A i : i \in 1..k <=> i \in 1..(k - 1) \/ i = k
      OBVIOUS
    <3> QED
      BY <2>2, <3>1, <3>2
  <2> QED
    BY <2>2, <2>3, <2>4
<1> HIDE DEF T
<1>4. n \in T
  <2>1. n \in 0..n
    OBVIOUS
  <2> QED
    BY <1>2, <1>3, <2>1, Climb
<1> QED
  BY <1>1, <1>4 DEF T, FlattenedBy

LEMMA FlattenLen ==
  ASSUME NEW X, NEW n \in Nat, NEW s \in [1..n -> Seq(X)], NEW m \in Nat,
         \A i \in 1..n : Len(s[i]) = m
  PROVE  Len(FlattenSeq(s)) = n * m
<1>1. PICK r : FlattenedBy(r, s, n)
  BY FlattenRun
<1> DEFINE T == {k \in 0..n : r[k] \in Seq(X) /\ Len(r[k]) = k * m}
<1>2. 0 \in T
  <2>1. r[0] = <<>> /\ <<>> \in Seq(X) /\ Len(<<>>) = 0
    BY <1>1 DEF FlattenedBy
  <2>2. 0 \in 0..n /\ 0 = 0 * m
    OBVIOUS
  <2> QED
    BY <2>1, <2>2
<1>3. ASSUME NEW k \in 1..n, k - 1 \in T
      PROVE  k \in T
  <2>1. r[k] = Chained(r[k - 1], s[k]) /\ r[k - 1] \in Seq(X) /\ s[k] \in Seq(X)
    BY <1>1, <1>3 DEF FlattenedBy
  <2>2. r[k] \in Seq(X) /\ Len(r[k]) = Len(r[k - 1]) + Len(s[k])
    <3>1. IsChain(Chained(r[k - 1], s[k]), r[k - 1], s[k], X)
      BY <2>1, ChainedFacts
    <3> QED
      BY <2>1, <3>1 DEF IsChain
  <2>3. Len(r[k - 1]) = (k - 1) * m /\ Len(s[k]) = m
    BY <1>3
  <2>4. (k - 1) * m + m = k * m /\ k \in 0..n
    OBVIOUS
  <2> QED
    BY <2>2, <2>3, <2>4
<1> HIDE DEF T
<1>4. n \in T
  <2>1. n \in 0..n
    OBVIOUS
  <2> QED
    BY <1>2, <1>3, <2>1, Climb
<1> QED
  BY <1>1, <1>4 DEF T, FlattenedBy

\* the first lists have one element each
OnesFirst(s, n, X, j) == /\ n \in Nat /\ s \in [1..n -> Seq(X)] /\ j \in 0..n
                         /\ \A i \in 1..j : Len(s[i]) = 1

LEMMA FlattenOnes ==
  ASSUME NEW X, NEW n, NEW s, NEW j, OnesFirst(s, n, X, j)
  PROVE  /\ FlattenSeq(s) \in Seq(X) /\ j <= Len(FlattenSeq(s))
         /\ \A i \in 1..j : FlattenSeq(s)[i] = s[i][1]
<1>0. n \in Nat /\ s \in [1..n -> Seq(X)] /\ j \in 0..n /\ \A i \in 1..j : Len(s[i]) = 1
  BY DEF OnesFirst
<1>1. PICK r : FlattenedBy(r, s, n)
  BY <1>0, FlattenRun
<1> DEFINE T == {k \in 0..n : /\ r[k] \in Seq(X)
                              /\ IF k <= j THEN Len(r[k]) = k ELSE j <= Len(r[k])
                              /\ \A i \in 1..j : i <= k => r[k][i] = s[i][1]}
<1>2. 0 \in T
  <2>1. r[0] = <<>> /\ <<>> \in Seq(X) /\ Len(<<>>) = 0
    BY <1>1 DEF FlattenedBy
  <2>2. 0 \in 0..n /\ 0 <= j /\ \A i \in 1..j : ~(i <= 0)
    BY <1>0
  <2> QED
    BY <2>1, <2>2
<1>3. ASSUME NEW k \in 1..n, k - 1 \in T
      PROVE  k \in T
  <2>1. PICK a, b : a = r[k - 1] /\ b = s[k]
    OBVIOUS
  <2>2. r[k] = Chained(a, b) /\ a \in Seq(X) /\ b \in Seq(X)
    BY <1>0, <1>1, <1>3, <2>1 DEF FlattenedBy
  <2>3. PICK la \in Nat, lb \in Nat : la = Len(a) /\ lb = Len(b)
    BY <2>2
  <2>4. /\ r[k] \in Seq(X) /\ Len(r[k]) = la + lb
        /\ \A i \in 1..la : r[k][i] = a[i]
        /\ \A i \in 1..lb : r[k][la + i] = b[i]
    <3>1. IsChain(Chained(a, b), a, b, X)
      BY <2>2, ChainedFacts
    <3> QED
      BY <2>2, <2>3, <3>1 DEF IsChain
  <2>5. /\ IF k - 1 <= j THEN la = k - 1 ELSE j <= la
        /\ \A i \in 1..j : i <= k - 1 => a[i] = s[i][1]
    BY <1>3, <2>1, <2>3
  <2>6. k <= j => lb = 1
    <3>1. k <= j => k \in 1..j
      BY <1>0
    <3> QED
      BY <1>0, <2>1, <2>3, <3>1
  <2>7. IF k <= j THEN Len(r[k]) = k ELSE j <= Len(r[k])
    BY <1>0, <2>4, <2>5, <2>6
  <2>8. ASSUME NEW i \in 1..j, i <= k
        PROVE  r[k][i] = s[i][1]
    <3>1. CASE i = k
      <4>1. lb = 1 /\ la = k - 1 /\ la + 1 = i
        BY <1>0, <2>5, <2>6, <3>1
      <4> QED
        BY <2>1, <2>4, <3>1, <4>1
    <3>2. CASE i # k
      <4>1. i <= k - 1 /\ i \in 1..la
        BY <1>0, <2>5, <2>8, <3>2
      <4> QED
        BY <2>4, <2>5, <4>1
    <3> QED
      BY <3>1, <3>2
  <2>9. k \in 0..n
    BY <1>0
  <2> QED
    BY <2>4, <2>7, <2>8, <2>9
<1> HIDE DEF T
<1>4. n \in T
  <2>1. n \in 0..n
    BY <1>0
  <2> QED
    BY <1>0, <1>2, <1>3, <2>1, Climb
<1> QED
  BY <1>0, <1>1, <1>4 DEF T, FlattenedBy

\* how often an element of a set occurs in a list
CountIn(s, W) == Cardinality({i \in DOMAIN s : s[i] \in W})

LEMMA ShiftCount ==
  ASSUME NEW m \in Nat, NEW n \in Nat, NEW B \in SUBSET (1..n)
  PROVE  /\ IsFiniteSet(B) /\ IsFiniteSet({m + i : i \in B})
         /\ Cardinality({m + i : i \in B}) = Cardinality(B)
<1>1. IsFiniteSet(B)
  <2>1. IsFiniteSet(1..n)
    BY FS_Interval
  <2> QED
    BY <2>1, FS_Subset
<1>2. PICK S : S = {m + i : i \in B}
  OBVIOUS
<1>3. PICK f : f = [i \in B |-> m + i]
  OBVIOUS
<1>4. f \in [B -> S] /\ (\A i, j \in B : f[i] = f[j] => i = j) /\ (\A x \in S : \E i \in B : f[i] = x)
  BY <1>2, <1>3
<1>5. f \in Bijection(B, S)
  BY <1>4, Fun_IsBij
<1>6. ExistsBijection(B, S)
  BY <1>5, Fun_ExistsBij
<1> QED
  BY <1>1, <1>2, <1>6, FS_Bijection

LEMMA ChainCount ==
  ASSUME NEW X, NEW s \in Seq(X), NEW t \in Seq(X), NEW W
  PROVE  /\ CountIn(s, W) \in Nat /\ CountIn(t, W) \in Nat
         /\ CountIn(Chained(s, t), W) = CountIn(s, W) + CountIn(t, W)
<1>0. PICK m \in Nat, n \in Nat : m = Len(s) /\ n = Len(t)
  OBVIOUS
<1>1. PICK c : c = Chained(s, t) /\ m = Len(s) /\ n = Len(t)
  BY <1>0
<1>2. IsChain(c, s, t, X)
  BY <1>1, ChainedFacts
<1>3. DOMAIN c = 1..(m + n) /\ DOMAIN s = 1..m /\ DOMAIN t = 1..n
  BY <1>1, <1>2 DEF IsChain
<1>4. PICK A, B, S, C : /\ A = {i \in 1..m : s[i] \in W} /\ B = {i \in 1..n : t[i] \in W}
                        /\ S = {m + i : i \in B} /\ C = {i \in 1..(m + n) : c[i] \in W}
  OBVIOUS
<1>5. C = A \cup S
  <2>1. \A i \in 1..m : c[i] = s[i] /\ i \in 1..(m + n)
    BY <1>1, <1>2 DEF IsChain
  <2>2. \A i \in 1..n : c[m + i] = t[i] /\ m + i \in 1..(m + n)
    BY <1>1, <1>2 DEF IsChain
  <2>3. \A i \in 1..(m + n) : i \in 1..m \/ (i - m \in 1..n /\ m + (i - m) = i)
    OBVIOUS
  <2>4. A \cup S \subseteq C
    BY <1>4, <2>1, <2>2
  <2>5. ASSUME NEW i \in C PROVE i \in A \cup S
    <3>1. CASE i \in 1..m
      BY <1>4, <2>1, <2>5, <3>1
    <3>2. CASE i - m \in 1..n /\ m + (i - m) = i
      <4>1. PICK j \in 1..n : j = i - m /\ m + j = i
        BY <3>2
      <4>2. j \in B
        BY <1>4, <2>2, <2>5, <4>1
      <4> QED
        BY <1>4, <4>1, <4>2
    <3> QED
      BY <1>4, <2>3, <2>5, <3>1, <3>2
  <2> QED
    BY <2>4, <2>5
<1>6. A \cap S = {}
  BY <1>4
<1>7. IsFiniteSet(A) /\ IsFiniteSet(B) /\ IsFiniteSet(S) /\ Cardinality(S) = Cardinality(B)
  <2>1. A \in SUBSET (1..m) /\ B \in SUBSET (1..n)
    BY <1>4
  <2> QED
    BY <1>4, <2>1, ShiftCount
<1>8. Cardinality(A) \in Nat /\ Cardinality(S) \in Nat
  BY <1>7, FS_CardinalityType
<1>9. Cardinality(C) = Cardinality(A) + Cardinality(S)
  <2>1. Cardinality({}) = 0
    BY FS_EmptySet
  <2>2. Cardinality(A \cup S) = Cardinality(A) + Cardinality(S) - Cardinality(A \cap S)
    BY <1>7, FS_Union
  <2>3. PICK a \in Nat, b \in Nat : a = Cardinality(A) /\ b = Cardinality(S)
    BY <1>8
  <2>4. Cardinality(C) = a + b - 0
    BY <1>5, <1>6, <2>1, <2>2, <2>3, Zenon
  <2> QED
    BY <2>3, <2>4
<1>10. CountIn(s, W) = Cardinality(A) /\ CountIn(t, W) = Cardinality(B) /\ CountIn(c, W) = Cardinality(C)
  BY <1>3, <1>4 DEF CountIn
<1> QED
  BY <1>1, <1>7, <1>8, <1>9, <1>10

\* where an element is in a list
PlacesOf(s, x) == {i \in DOMAIN s : s[i] = x}

\* each of the lists has an element of the set either c times or never
EachCounts(s, n, X, W, A, c) ==
  /\ n \in Nat /\ s \in [1..n -> Seq(X)] /\ c \in Nat /\ A \in SUBSET (1..n)
  /\ \A i \in 1..n : (i \in A => CountIn(s[i], W) = c) /\ (i \notin A => CountIn(s[i], W) = 0)

LEMMA FlattenCount ==
  ASSUME NEW X, NEW n, NEW s, NEW W, NEW c, NEW A, EachCounts(s, n, X, W, A, c)
  PROVE  CountIn(FlattenSeq(s), W) = Cardinality(A) * c
<1>0. n \in Nat /\ s \in [1..n -> Seq(X)] /\ c \in Nat /\ A \in SUBSET (1..n)
  BY DEF EachCounts
<1>1. PICK r : FlattenedBy(r, s, n)
  BY <1>0, FlattenRun
<1> DEFINE upTo(k) == A \cap (1..k)
           T == {k \in 0..n : r[k] \in Seq(X) /\ CountIn(r[k], W) = Cardinality(upTo(k)) * c}
<1>2. 0 \in T
  <2>1. r[0] = <<>> /\ <<>> \in Seq(X)
    BY <1>1 DEF FlattenedBy
  <2>2. upTo(0) = {} /\ {i \in DOMAIN <<>> : <<>>[i] \in W} = {} /\ 0 \in 0..n
    BY <1>0
  <2>3. Cardinality({}) = 0
    BY FS_EmptySet
  <2>4. CountIn(<<>>, W) = 0
    BY <2>2, <2>3 DEF CountIn
  <2>5. 0 = 0 * c
    BY <1>0
  <2> QED
    BY <2>1, <2>2, <2>3, <2>4, <2>5
<1>3. ASSUME NEW k \in 1..n, k - 1 \in T
      PROVE  k \in T
  <2>1. r[k] = Chained(r[k - 1], s[k]) /\ r[k - 1] \in Seq(X) /\ s[k] \in Seq(X)
    BY <1>0, <1>1, <1>3 DEF FlattenedBy
  <2>2. r[k] \in Seq(X)
    <3>1. IsChain(Chained(r[k - 1], s[k]), r[k - 1], s[k], X)
      BY <2>1, ChainedFacts
    <3> QED
      BY <2>1, <3>1 DEF IsChain
  <2>3. CountIn(r[k], W) = CountIn(r[k - 1], W) + CountIn(s[k], W)
    BY <2>1, ChainCount
  <2>4. PICK old, now : old = upTo(k - 1) /\ now = upTo(k)
    OBVIOUS
  <2>5. now = IF k \in A THEN old \cup {k} ELSE old
    BY <1>0, <2>4
  <2>6. k \notin old /\ old \in SUBSET (1..n)
    BY <1>0, <2>4
  <2>7. IsFiniteSet(old)
    BY <1>0, <2>6, ShiftCount
  <2>8. PICK d \in Nat : d = Cardinality(old)
    BY <2>7, FS_CardinalityType
  <2>9. Cardinality(now) = IF k \in A THEN d + 1 ELSE d
    BY <2>5, <2>6, <2>7, <2>8, FS_AddElement
  <2>10. CountIn(r[k - 1], W) = d * c
    BY <1>3, <2>4, <2>8
  <2>11. (d + 1) * c = d * c + c /\ d * c \in Nat
    BY <1>0
  <2>12. CountIn(r[k], W) = Cardinality(now) * c
    BY <2>3, <2>9, <2>10, <2>11 DEF EachCounts
  <2>13. k \in 0..n
    BY <1>0
  <2> QED
    BY <2>2, <2>4, <2>12, <2>13
<1> HIDE DEF T
<1>4. n \in T
  <2>1. n \in 0..n
    BY <1>0
  <2> QED
    BY <1>0, <1>2, <1>3, <2>1, Climb
<1>5. upTo(n) = A
  BY <1>0
<1> QED
  BY <1>1, <1>4, <1>5 DEF T, FlattenedBy

LEMMA SeqOfMore ==
  ASSUME NEW X, NEW Y, X \subseteq Y, NEW s \in Seq(X)
  PROVE  s \in Seq(Y)
<1>1. PICK n \in Nat : s \in [1..n -> X]
  BY SeqDef
<1>2. s \in [1..n -> Y]
  BY <1>1
<1> QED
  BY <1>1, <1>2, SeqDef

\* the list of a set has the elements of the set
LEMMA InOrderList ==
  ASSUME NEW S, IsFiniteSet(S), S \subseteq Int
  PROVE  /\ InOrder(S) \in Seq(S) /\ ToSet(InOrder(S)) = S
         /\ Len(InOrder(S)) = Cardinality(S) /\ DOMAIN InOrder(S) = 1..Cardinality(S)
<1>1. PICK c : c = Cardinality(S)
  OBVIOUS
<1>2. PICK s : s = InOrder(S)
  OBVIOUS
<1>3. /\ c \in Nat /\ s \in [1..c -> S] /\ \A n \in S : \E i \in 1..c : s[i] = n
  BY <1>1, <1>2, InOrderFacts DEF IsInOrder
<1>4. s \in Seq(S) /\ Len(s) = c /\ DOMAIN s = 1..c /\ ToSet(s) = {s[i] : i \in 1..c}
  <2>1. c \in Nat /\ s \in [1..c -> S]
    BY <1>3
  <2> QED
    <3>1. s \in Seq(S)
      BY <2>1, SeqDef
    <3>2. Len(s) = c /\ DOMAIN s = 1..c
      BY <2>1, <3>1
    <3>3. ToSet(s) = {s[i] : i \in DOMAIN s}
      BY Zenon DEF ToSet
    <3>4. ToSet(s) = {s[i] : i \in 1..c}
      BY <3>2, <3>3, Zenon
    <3> QED
      BY <3>1, <3>2, <3>4, Zenon
<1>5. ToSet(s) = S
  <2>1. \A i \in 1..c : s[i] \in S
    BY <1>3
  <2>2. \A n \in S : \E i \in 1..c : s[i] = n
    BY <1>3
  <2>3. ToSet(s) = {s[i] : i \in 1..c}
    BY <1>4
  <2> QED
    BY <2>1, <2>2, <2>3, Zenon
<1> QED
  BY <1>1, <1>2, <1>4, <1>5

LEMMA PartOfInterval ==
  ASSUME NEW n \in Nat, NEW S \in SUBSET (1..n)
  PROVE  IsFiniteSet(S) /\ S \subseteq Int
<1>1. IsFiniteSet(1..n)
  BY FS_Interval
<1>2. IsFiniteSet(S)
  BY <1>1, FS_Subset
<1>3. S \subseteq Int
  OBVIOUS
<1> QED
  BY <1>2, <1>3

\* the numbers from 1 on that are all there come first
LEMMA InOrderFirst ==
  ASSUME NEW n \in Nat, NEW S \in SUBSET (1..n), NEW j \in Nat, 1..j \subseteq S
  PROVE  j <= Cardinality(S) /\ \A i \in 1..j : InOrder(S)[i] = i
<1>1. IsFiniteSet(S) /\ S \subseteq Int
  BY PartOfInterval
<1>2. PICK c \in Nat : c = Cardinality(S)
  BY <1>1, FS_CardinalityType
<1>3. \A k \in Nat : IsFiniteSet(1..k) /\ Cardinality(1..k) = k
  BY FS_Interval
<1>4. j <= c
  BY <1>1, <1>2, <1>3, FS_Subset
<1>5. ASSUME NEW i \in 1..j
      PROVE  InOrder(S)[i] = i
  <2>1. PICK x, U : x = InOrder(S)[i] /\ U = Upto(S, x)
    OBVIOUS
  <2>2. x \in S /\ Cardinality(U) = i
    <3>1. i \in 1..Cardinality(S)
      BY <1>2, <1>4
    <3> QED
      BY <1>1, <2>1, <3>1, InOrderRank
  <2>3. U \subseteq S /\ U = {m \in S : m <= x} /\ x \in Int
    BY <1>1, <2>1, <2>2 DEF Upto
  <2>4. IsFiniteSet(U)
    BY <1>1, <2>3, FS_Subset
  <2>5. CASE x < i
    <3>1. x \in 1..n /\ x \in Nat
      BY <2>2
    <3>2. \A m \in U : m \in 1..n /\ m <= x
      BY <2>3
    <3>3. PICK V : V = 1..x
      OBVIOUS
    <3>4. \A m \in U : m \in V
      BY <3>1, <3>2, <3>3
    <3>5. IsFiniteSet(V) /\ Cardinality(V) = x
      BY <1>3, <3>1, <3>3
    <3>6. U \in SUBSET V
      BY <3>4
    <3>7. Cardinality(U) <= x
      BY <3>5, <3>6, FS_Subset
    <3> QED
      BY <2>2, <2>5, <3>1, <3>7
  <2>6. CASE i < x
    <3>1. (1..i) \cup {x} \subseteq U
      BY <2>2, <2>3, <2>6
    <3>2. i \in Nat /\ x \notin 1..i
      BY <2>3, <2>6
    <3>3. Cardinality((1..i) \cup {x}) = i + 1
      BY <1>3, <3>2, FS_AddElement
    <3>4. Cardinality((1..i) \cup {x}) <= Cardinality(U)
      BY <2>4, <3>1, FS_Subset
    <3> QED
      BY <2>2, <3>2, <3>3, <3>4
  <2> QED
    BY <2>1, <2>3, <2>5, <2>6
<1> QED
  BY <1>2, <1>4, <1>5

\* the list of an interval counts
LEMMA InOrderInterval ==
  ASSUME NEW n \in Nat
  PROVE  InOrder(1..n) = [i \in 1..n |-> i]
<1> DEFINE t == [i \in 1..n |-> i]
<1>1. PICK S : S = 1..n
  OBVIOUS
<1>2. IsFiniteSet(S) /\ S \subseteq Int
  <2>1. IsFiniteSet(1..n)
    BY FS_Interval
  <2> QED
    BY <1>1, <2>1
<1>3. t \in [1..n -> S]
  BY <1>1
<1>4. \A i, j \in 1..n : i < j => t[i] < t[j]
  OBVIOUS
<1>5. \A x \in S : \E i \in 1..n : t[i] = x
  BY <1>1
<1> HIDE DEF t
<1>6. t = InOrder(S)
  BY <1>2, <1>3, <1>4, <1>5, InOrderUnique
<1> QED
  BY <1>1, <1>6 DEF t

\* where the elements of a filtered list come from
IsFiltered(f, s, S, X) ==
  /\ f \in Seq(X)
  /\ ToSet(f) = ToSet(s) \cap S

LEMMA FilteredFacts ==
  ASSUME NEW X, NEW s \in Seq(X), NEW S
  PROVE  IsFiltered(Filtered(s, S), s, S, X)
<1>1. PICK n \in Nat : n = Len(s) /\ DOMAIN s = 1..n
  OBVIOUS
<1>2. PICK P : P = {i \in DOMAIN s : s[i] \in S}
  OBVIOUS
<1>3. PICK at : at = InOrder(P)
  OBVIOUS
<1>4. P \in SUBSET (1..n)
  BY <1>1, <1>2
<1>5. IsFiniteSet(P) /\ P \subseteq Int
  BY <1>4, PartOfInterval
<1>6. at \in Seq(P) /\ ToSet(at) = P
  BY <1>3, <1>5, InOrderList
<1>7. PICK k \in Nat : k = Len(at) /\ DOMAIN at = 1..k /\ ToSet(at) = {at[i] : i \in 1..k}
  BY <1>6, ToSetIsRange
<1>8. PICK f : f = [i \in 1..k |-> s[at[i]]]
  OBVIOUS
<1>9. Filtered(s, S) = f
  BY <1>2, <1>3, <1>7, <1>8, Zenon DEF Filtered
<1>10. \A i \in 1..k : at[i] \in P
  BY <1>6, <1>7
<1>11. \A i \in P : i \in DOMAIN s /\ s[i] \in S /\ s[i] \in X
  BY <1>1, <1>2
<1>12. f \in [1..k -> X]
  BY <1>8, <1>10, <1>11
<1>13. f \in Seq(X) /\ ToSet(f) = {f[i] : i \in 1..k}
  BY <1>12, ToSetOf
<1>14. ToSet(s) = {s[i] : i \in DOMAIN s}
  BY Zenon DEF ToSet
<1>15. ASSUME NEW x
       PROVE  x \in ToSet(f) <=> x \in ToSet(s) /\ x \in S
  <2>1. x \in ToSet(f) <=> \E i \in 1..k : x = s[at[i]]
    BY <1>8, <1>13
  <2>2. x \in ToSet(f) <=> \E p \in P : x = s[p]
    BY <1>6, <1>7, <2>1
  <2>3. x \in ToSet(s) <=> \E p \in DOMAIN s : x = s[p]
    BY <1>14
  <2> QED
    BY <1>2, <2>2, <2>3
<1> QED
  BY <1>9, <1>13, <1>15 DEF IsFiltered

LEMMA PartInOrder ==
  ASSUME NEW n \in Nat, NEW S \in SUBSET (1..n)
  PROVE  InOrder(S) \in Seq(1..n) /\ ToSet(InOrder(S)) = S
<1>1. IsFiniteSet(S) /\ S \subseteq Int
  BY PartOfInterval
<1>2. InOrder(S) \in Seq(S) /\ ToSet(InOrder(S)) = S
  BY <1>1, InOrderList
<1>3. InOrder(S) \in Seq(1..n)
  BY <1>2, SeqOfMore
<1> QED
  BY <1>2, <1>3
=============================================================================
