----------------------------- MODULE Inductions -----------------------------
(***************************************************************************)
(* What the proofs need of inductions: the least and the greatest number   *)
(* of a set, by way of the well-foundedness of the natural numbers, and    *)
(* from there inductions over any set whose elements have a rank, and      *)
(* functions that are defined by recursion over one.  All of it is stated  *)
(* with sets and functions in the place of predicates and operators.       *)
(***************************************************************************)
EXTENDS Integers, FiniteSetsExt, TLAPS, WellFoundedInduction,
        FiniteSetTheorems

LEMMA LeastExists ==
    ASSUME NEW T \in SUBSET Nat, T # {}
    PROVE  \E x \in T : \A y \in T : x <= y
<1> DEFINE R == {p \in Nat \X Nat : p[1] < p[2]}
<1>1. IsWellFoundedOn(R, Nat)
  BY NatLessThanWellFounded DEF OpToRel
<1> HIDE DEF R
<1>2. PICK x \in T : \A y \in T : ~(<<y, x>> \in R)
  BY <1>1, WFMin
<1>3. ASSUME NEW y \in T PROVE x <= y
  <2>1. x \in Nat /\ y \in Nat
    OBVIOUS
  <2>2. <<y, x>> \notin R
    BY <1>2
  <2>3. ~(y < x)
    BY <2>1, <2>2 DEF R
  <2> QED
    BY <2>1, <2>3
<1> QED
  BY <1>3

LEMMA GreatestExists ==
    ASSUME NEW n \in Nat, NEW T \in SUBSET (0 .. n), T # {}
    PROVE  \E x \in T : \A y \in T : y <= x
<1> DEFINE U == {n - y : y \in T}
<1>1. \A y \in T : y \in Nat /\ n - y \in Nat
  OBVIOUS
<1>5. U \in SUBSET Nat /\ U # {}
  BY <1>1
<1>2. PICK z \in U : \A y \in U : z <= y
  BY <1>5, LeastExists
<1>3. PICK x \in T : z = n - x
  OBVIOUS
<1>4. ASSUME NEW y \in T PROVE y <= x
  <2>1. z <= n - y
    BY <1>2
  <2> QED
    BY <1>1, <1>3, <2>1
<1> QED
  BY <1>4

LEMMA MaxIs ==
    ASSUME NEW T \in SUBSET Int, NEW x \in T, \A y \in T : y <= x
    PROVE  Max(T) = x
<1>1. \E m \in T : \A y \in T : m >= y
  <2>1. \A y \in T : x >= y
    OBVIOUS
  <2> QED
    BY <2>1
<1>2. Max(T) \in T /\ \A y \in T : Max(T) >= y
  BY <1>1 DEF Max
<1>3. x \in Int /\ Max(T) \in Int
  BY <1>2
<1>4. Max(T) >= x /\ Max(T) <= x
  BY <1>2
<1> QED
  BY <1>3, <1>4

LEMMA MinIs ==
    ASSUME NEW T \in SUBSET Int, NEW x \in T, \A y \in T : x <= y
    PROVE  Min(T) = x
<1>1. \E m \in T : \A y \in T : m <= y
  OBVIOUS
<1>2. Min(T) \in T /\ \A y \in T : Min(T) <= y
  BY <1>1 DEF Min
<1>3. x \in Int /\ Min(T) \in Int
  BY <1>2
<1>4. Min(T) <= x /\ Min(T) >= x
  BY <1>2
<1> QED
  BY <1>3, <1>4

(* The greatest and the least of some numbers up to n are among them.      *)
LEMMA ExtremaAreMembers ==
    ASSUME NEW n \in Nat, NEW T \in SUBSET (0 .. n), T # {}
    PROVE  /\ Max(T) \in T /\ \A y \in T : y <= Max(T)
           /\ Min(T) \in T /\ \A y \in T : Min(T) <= y
<1>1. T \in SUBSET Int /\ T \in SUBSET Nat
  OBVIOUS
<1>2. PICK x \in T : \A y \in T : y <= x
  BY GreatestExists
<1>3. PICK z \in T : \A y \in T : z <= y
  BY <1>1, LeastExists
<1> QED
  BY <1>1, <1>2, <1>3, MaxIs, MinIs

-----------------------------------------------------------------------------
(* Inductions over what has a rank                                         *)

LEMMA RankInduction ==
    ASSUME NEW D, NEW rank \in [D -> Nat], NEW G,
           \A d \in D : (\A e \in D : rank[e] < rank[d] => e \in G) => d \in G
    PROVE  \A d \in D : d \in G
<1> SUFFICES ASSUME \E d \in D : d \notin G PROVE FALSE
  OBVIOUS
<1> DEFINE Bad == {rank[d] : d \in {d \in D : d \notin G}}
<1>1. Bad \in SUBSET Nat /\ Bad # {}
  OBVIOUS
<1>2. PICK x \in Bad : \A y \in Bad : x <= y
  <2> HIDE DEF Bad
  <2> QED
    BY <1>1, LeastExists
<1>3. PICK d \in D : d \notin G /\ rank[d] = x
  OBVIOUS
<1>4. ASSUME NEW e \in D, rank[e] < rank[d] PROVE e \in G
  <2>1. e \notin G => rank[d] <= rank[e]
    BY <1>2, <1>3
  <2>2. rank[d] \in Nat /\ rank[e] \in Nat
    OBVIOUS
  <2> QED
    BY <1>4, <2>1, <2>2
<1> QED
  BY <1>3, <1>4

LEMMA InductionUpTo ==
    ASSUME NEW n \in Nat, NEW G, 0 \in G,
           \A k \in 0 .. n - 1 : k \in G => k + 1 \in G
    PROVE  \A k \in 0 .. n : k \in G
<1> DEFINE D == 0 .. n
           rank == [k \in D |-> k]
<1>1. rank \in [D -> Nat]
  OBVIOUS
<1>2. ASSUME NEW k \in D, \A j \in D : rank[j] < rank[k] => j \in G
      PROVE  k \in G
  <2>1. CASE k = 0
    BY <2>1
  <2>2. CASE k # 0
    <3>1. k - 1 \in 0 .. n - 1 /\ k - 1 \in 0 .. n /\ k - 1 < k /\ (k - 1) + 1 = k
      BY <2>2
    <3>2. k - 1 \in G
      BY <1>2, <3>1
    <3> QED
      BY <3>1, <3>2
  <2> QED
    BY <2>1, <2>2
<1>3. \A k \in D : k \in G
  <2> HIDE DEF D, rank
  <2> QED
    BY <1>1, <1>2, RankInduction
<1> QED
  BY <1>3

Recurs(f, D, Base, leaf, next, step) ==
    \A d \in D : f[d] = IF d \in Base THEN leaf[d] ELSE step[<<d, f[next[d]]>>]

(* A function defined by recursion is one, when the rank goes down.        *)
LEMMA RecursionExists ==
    ASSUME NEW D, NEW T, NEW n \in Nat, NEW rank \in [D -> 0 .. n],
           NEW Base \in SUBSET D, NEW next \in [D -> D],
           \A d \in D \ Base : rank[next[d]] < rank[d],
           NEW leaf \in [D -> T], NEW step \in [D \X T -> T]
    PROVE  \E f \in [D -> T] : Recurs(f, D, Base, leaf, next, step)
<1> DEFINE Value(f, d) == IF d \in Base THEN leaf[d] ELSE step[<<d, f[next[d]]>>]
           Good(k) == \E f \in [D -> T] : \A d \in D :
                        rank[d] <= k => f[d] = Value(f, d)
           G == {k \in 0 .. n : Good(k)}
<1>1. 0 \in G
  <2>1. ASSUME NEW d \in D, rank[d] <= 0 PROVE leaf[d] = Value(leaf, d)
    <3>1. rank[d] = 0
      BY <2>1
    <3>2. d \notin Base => rank[next[d]] \in 0 .. n /\ rank[next[d]] < 0
      BY <3>1
    <3>3. d \in Base
      BY <3>2
    <3> QED
      BY <3>3
  <2> QED
    BY <2>1
<1>2. ASSUME NEW k \in 0 .. n - 1, k \in G PROVE k + 1 \in G
  <2>1. PICK f \in [D -> T] : \A d \in D : rank[d] <= k => f[d] = Value(f, d)
    BY <1>2
  <2> DEFINE g == [d \in D |-> Value(f, d)]
  <2>2. g \in [D -> T]
    OBVIOUS
  <2>3. ASSUME NEW d \in D, rank[d] <= k + 1 PROVE g[d] = Value(g, d)
    <3>1. CASE d \in Base
      BY <3>1
    <3>2. CASE d \notin Base
      <4>1. next[d] \in D /\ rank[next[d]] < rank[d]
        BY <3>2
      <4>2. rank[d] \in 0 .. n /\ rank[next[d]] \in 0 .. n
        BY <4>1
      <4>3. rank[next[d]] <= k
        BY <2>3, <4>1, <4>2
      <4>4. f[next[d]] = Value(f, next[d])
        BY <2>1, <4>1, <4>3
      <4>5. g[next[d]] = f[next[d]]
        BY <4>1, <4>4
      <4> QED
        BY <3>2, <4>5
    <3> QED
      BY <3>1, <3>2
  <2> HIDE DEF Value, g
  <2>4. Good(k + 1)
    BY <2>2, <2>3
  <2>5. k + 1 \in 0 .. n
    OBVIOUS
  <2> QED
    BY <2>4, <2>5
<1>3. n \in G
  <2> HIDE DEF G
  <2>1. \A k \in 0 .. n : k \in G
    BY <1>1, <1>2, InductionUpTo
  <2> QED
    BY <2>1
<1>4. PICK f \in [D -> T] : \A d \in D : rank[d] <= n => f[d] = Value(f, d)
  BY <1>3
<1>5. \A d \in D : rank[d] <= n
  OBVIOUS
<1> QED
  BY <1>4, <1>5 DEF Recurs

Iterates(f, n, base, step) ==
    f[0] = base /\ \A k \in 1 .. n : f[k] = step[<<f[k - 1], k>>]

(* A step for each number, one after the other.                            *)
LEMMA IterationExists ==
    ASSUME NEW n \in Nat, NEW T, NEW base \in T,
           NEW step \in [T \X (1 .. n) -> T]
    PROVE  \E f \in [0 .. n -> T] : Iterates(f, n, base, step)
<1> DEFINE D == 0 .. n
           rank == [d \in D |-> d]
           Base == {0}
           next == [d \in D |-> IF d = 0 THEN 0 ELSE d - 1]
           leaf == [d \in D |-> base]
           over == [d \in D \X T |-> IF d[1] = 0 THEN base ELSE step[<<d[2], d[1]>>]]
<1>1. /\ rank \in [D -> 0 .. n] /\ Base \in SUBSET D /\ leaf \in [D -> T]
      /\ next \in [D -> D]
  OBVIOUS
<1>2. \A d \in D \ Base : rank[next[d]] < rank[d]
  OBVIOUS
<1>3. over \in [D \X T -> T]
  OBVIOUS
<1>4. \E f \in [D -> T] : Recurs(f, D, Base, leaf, next, over)
  <2> HIDE DEF D, rank, Base, next, leaf, over
  <2> QED
    BY <1>1, <1>2, <1>3, RecursionExists
<1>5. PICK f \in [D -> T] : \A d \in D :
        f[d] = IF d \in Base THEN leaf[d] ELSE over[<<d, f[next[d]]>>]
  BY <1>4 DEF Recurs
<1>6. f[0] = base
  <2>1. 0 \in D /\ 0 \in Base /\ leaf[0] = base
    OBVIOUS
  <2> HIDE DEF D, Base, leaf, over, next
  <2> QED
    BY <1>5, <2>1
<1>7. ASSUME NEW k \in 1 .. n PROVE f[k] = step[<<f[k - 1], k>>]
  <2>1. k \in D /\ k - 1 \in D /\ k # 0
    OBVIOUS
  <2>2. f[k] = over[<<k, f[k - 1]>>]
    BY <1>5, <2>1
  <2>3. <<k, f[k - 1]>> \in D \X T
    BY <2>1
  <2> QED
    BY <2>1, <2>2, <2>3
<1> QED
  BY <1>6, <1>7 DEF Iterates

-----------------------------------------------------------------------------
(* Finite sets, an element at a time                                       *)

LEMMA SmallerWithout ==
    ASSUME NEW S, IsFiniteSet(S), NEW U \in SUBSET S, NEW x \in U
    PROVE  /\ U \ {x} \in SUBSET S
           /\ Cardinality(U) \in Nat /\ Cardinality(U \ {x}) \in Nat
           /\ Cardinality(U \ {x}) < Cardinality(U)
           /\ Cardinality(U) <= Cardinality(S)
<1>1. IsFiniteSet(U) /\ Cardinality(U) <= Cardinality(S)
  BY FS_Subset
<1>2. IsFiniteSet(U \ {x}) /\ Cardinality(U \ {x}) = Cardinality(U) - 1
  BY <1>1, FS_RemoveElement
<1>3. Cardinality(U) \in Nat /\ Cardinality(U \ {x}) \in Nat
  BY <1>1, <1>2, FS_CardinalityType
<1> QED
  BY <1>1, <1>2, <1>3

Picks(pick, S) == \A U \in SUBSET S : U # {} => pick[U] \in U

Grows(G, pick, S) ==
    {} \in G /\ \A U \in SUBSET S : U # {} /\ U \ {pick[U]} \in G => U \in G

LEMMA SubsetInduction ==
    ASSUME NEW S, IsFiniteSet(S), NEW pick, Picks(pick, S),
           NEW G, Grows(G, pick, S)
    PROVE  \A U \in SUBSET S : U \in G
<1> USE DEF Picks, Grows
<1> DEFINE D == SUBSET S
           rank == [U \in D |-> Cardinality(U)]
<1>1. \A U \in D : IsFiniteSet(U)
  BY FS_Subset
<1>2. rank \in [D -> Nat]
  BY <1>1, FS_CardinalityType
<1>3. ASSUME NEW U \in D, \A V \in D : rank[V] < rank[U] => V \in G
      PROVE  U \in G
  <2>1. CASE U # {}
    <3>1. U \ {pick[U]} \in D /\ rank[U \ {pick[U]}] < rank[U]
      BY <2>1, SmallerWithout
    <3> QED
      BY <1>3, <2>1, <3>1
  <2> QED
    BY <2>1
<1>4. \A U \in D : U \in G
  <2> HIDE DEF D, rank
  <2> QED
    BY <1>2, <1>3, RankInduction
<1> QED
  BY <1>4

IsFoldOver(f, S, base, pick, step) ==
    \A U \in SUBSET S :
        f[U] = IF U = {} THEN base ELSE step[<<f[U \ {pick[U]}], pick[U]>>]

(* A fold over a finite set is a function, whichever element it picks.     *)
LEMMA FoldExists ==
    ASSUME NEW S, IsFiniteSet(S), NEW T, NEW base \in T,
           NEW pick, Picks(pick, S),
           NEW step \in [T \X S -> T]
    PROVE  \E f \in [SUBSET S -> T] : IsFoldOver(f, S, base, pick, step)
<1> DEFINE D == SUBSET S
           n == Cardinality(S)
           rank == [U \in D |-> Cardinality(U)]
           Base == {{}}
           next == [U \in D |-> U \ {pick[U]}]
           leaf == [U \in D |-> base]
           over == [d \in D \X T |-> IF d[1] = {} THEN base
                                    ELSE step[<<d[2], pick[d[1]]>>]]
<1>1. n \in Nat
  BY FS_CardinalityType
<1>2. rank \in [D -> 0 .. n]
  <2>1. \A U \in D : IsFiniteSet(U) /\ Cardinality(U) <= n
    BY FS_Subset
  <2>2. \A U \in D : Cardinality(U) \in Nat
    BY <2>1, FS_CardinalityType
  <2> HIDE DEF n
  <2> QED
    BY <1>1, <2>1, <2>2
<1>3. Base \in SUBSET D /\ next \in [D -> D] /\ leaf \in [D -> T]
  OBVIOUS
<1>4. \A d \in D \ Base : rank[next[d]] < rank[d]
  BY SmallerWithout DEF Picks
<1>5. over \in [D \X T -> T]
  BY DEF Picks
<1>6. \E f \in [D -> T] : Recurs(f, D, Base, leaf, next, over)
  <2> HIDE DEF D, n, rank, Base, next, leaf, over
  <2> QED
    BY <1>1, <1>2, <1>3, <1>4, <1>5, RecursionExists
<1>7. PICK f \in [D -> T] : \A d \in D :
        f[d] = IF d \in Base THEN leaf[d] ELSE over[<<d, f[next[d]]>>]
  BY <1>6 DEF Recurs
<1>8. ASSUME NEW U \in D, U # {}
      PROVE  f[U] = step[<<f[U \ {pick[U]}], pick[U]>>]
  <2>1. f[U] = over[<<U, f[U \ {pick[U]}]>>]
    BY <1>7, <1>8
  <2>2. <<U, f[U \ {pick[U]}]>> \in D \X T
    OBVIOUS
  <2> QED
    BY <1>8, <2>1, <2>2
<1>9. f[{}] = base
  BY <1>7
<1> QED
  BY <1>8, <1>9 DEF IsFoldOver

(* What comes last in a total order.                                       *)
LEMMA LastExists ==
    ASSUME NEW S, IsFiniteSet(S), NEW R,
           \A x, y \in S : x = y \/ <<x, y>> \in R \/ <<y, x>> \in R,
           \A x, y, z \in S : <<x, y>> \in R /\ <<y, z>> \in R => <<x, z>> \in R
    PROVE  \A U \in SUBSET S : U # {} =>
                \E x \in U : \A y \in U \ {x} : <<y, x>> \in R
<1> DEFINE pick == [U \in SUBSET S |-> CHOOSE x : x \in U]
           HasLast(U) == U # {} => \E x \in U : \A y \in U \ {x} : <<y, x>> \in R
           G == {U \in SUBSET S : HasLast(U)}
<1>1. Picks(pick, S)
  BY DEF Picks
<1>2. {} \in G
  OBVIOUS
<1>3. ASSUME NEW U \in SUBSET S, U # {}, U \ {pick[U]} \in G PROVE U \in G
  <2> DEFINE p == pick[U]
  <2>1. p \in U
    BY <1>1, <1>3 DEF Picks
  <2> HIDE DEF p
  <2>2. CASE U \ {p} = {}
    <3>1. \A y \in U \ {p} : <<y, p>> \in R
      BY <2>2
    <3> QED
      BY <2>1, <3>1
  <2>3. CASE U \ {p} # {}
    <3>1. PICK x \in U \ {p} : \A y \in (U \ {p}) \ {x} : <<y, x>> \in R
      BY <1>3, <2>3 DEF p
    <3>2. x \in S /\ p \in S /\ x # p
      BY <2>1
    <3>3. CASE <<p, x>> \in R
      <4>1. \A y \in U \ {x} : <<y, x>> \in R
        BY <3>1, <3>3
      <4> QED
        BY <4>1
    <3>4. CASE <<x, p>> \in R
      <4>1. ASSUME NEW y \in U \ {p} PROVE <<y, p>> \in R
        <5>1. y = x \/ <<y, x>> \in R
          BY <3>1
        <5> QED
          BY <3>2, <3>4, <5>1
      <4> QED
        BY <2>1, <4>1
    <3> QED
      BY <3>2, <3>3, <3>4
  <2> QED
    BY <2>2, <2>3
<1>4. Grows(G, pick, S)
  BY <1>2, <1>3 DEF Grows
<1>5. \A U \in SUBSET S : U \in G
  <2> HIDE DEF pick, G
  <2> QED
    BY <1>1, <1>4, SubsetInduction
<1> QED
  BY <1>5
=============================================================================
