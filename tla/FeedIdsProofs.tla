--------------------------- MODULE FeedIdsProofs ---------------------------
(***************************************************************************)
(* What holds of FeedIds for any sources, catalogs, hashes and retention   *)
(* window and any number of runs and days.                                 *)
(***************************************************************************)
EXTENDS FeedIds, Inductions

-----------------------------------------------------------------------------
(* The union-find: find() and union() leave a forest whose roots are the   *)
(* lowest of their trees.                                                  *)

Forests(P) == {p \in [P -> P] : \A t \in P : p[t] <= t}

LEMMA Bounded ==
    ASSUME NEW P \in SUBSET Nat, IsFiniteSet(P)
    PROVE  \E n \in Nat : \A t \in P : t <= n
<1>1. CASE P = {}
  BY <1>1
<1>2. CASE P # {}
  <2> DEFINE R == {c \in Nat \X Nat : c[1] < c[2]}
  <2>1. \A x, y \in P : x = y \/ <<x, y>> \in R \/ <<y, x>> \in R
    OBVIOUS
  <2>2. \A x, y, z \in P : <<x, y>> \in R /\ <<y, z>> \in R => <<x, z>> \in R
    OBVIOUS
  <2>3. \A U \in SUBSET P : U # {} =>
            \E x \in U : \A y \in U \ {x} : <<y, x>> \in R
    <3> HIDE DEF R
    <3> QED
      BY <2>1, <2>2, LastExists
  <2>4. PICK x \in P : \A y \in P \ {x} : <<y, x>> \in R
    BY <1>2, <2>3, Zenon
  <2>5. \A y \in P : y <= x
    <3>1. \A y \in P \ {x} : y < x
      BY <2>4
    <3> QED
      BY <3>1
  <2> QED
    BY <2>5
<1> QED
  BY <1>1, <1>2

LEMMA ForestGoesDown ==
    ASSUME NEW P \in SUBSET Nat, NEW p \in Forests(P)
    PROVE  /\ p \in [P -> P] /\ DOMAIN p = P
           /\ \A t \in P : /\ p[t] \in P /\ p[t] <= t
                           /\ p[t] # t => p[t] < t
<1>1. p \in [P -> P] /\ \A t \in P : p[t] <= t
  BY DEF Forests
<1>2. ASSUME NEW t \in P, p[t] # t PROVE p[t] < t
  <2>1. p[t] \in Nat /\ t \in Nat /\ p[t] <= t
    BY <1>1
  <2> QED
    BY <1>2, <2>1
<1> QED
  BY <1>1, <1>2

(* What holds of a source if it does of its parent holds of all.           *)
LEMMA ForestInduction ==
    ASSUME NEW P \in SUBSET Nat, NEW p \in Forests(P), NEW G,
           \A t \in P : (p[t] # t => p[t] \in G) => t \in G
    PROVE  \A t \in P : t \in G
<1> DEFINE rank == [t \in P |-> t]
<1>1. rank \in [P -> Nat]
  OBVIOUS
<1>2. ASSUME NEW t \in P, \A u \in P : rank[u] < rank[t] => u \in G
      PROVE  t \in G
  <2>1. p[t] # t => p[t] \in G
    BY <1>2, ForestGoesDown
  <2> QED
    BY <2>1
<1> HIDE DEF rank
<1> QED
  BY <1>1, <1>2, RankInduction

Climbs(r, P, p, leaf, step) ==
    \A t \in P : r[t] = IF p[t] = t THEN leaf[t] ELSE step[<<t, r[p[t]]>>]

(* A function that goes up the tree is one.                                *)
LEMMA ForestRecursion ==
    ASSUME NEW P \in SUBSET Nat, IsFiniteSet(P), NEW p \in Forests(P), NEW T,
           NEW leaf \in [P -> T], NEW step \in [P \X T -> T]
    PROVE  \E r \in [P -> T] : Climbs(r, P, p, leaf, step)
<1> DEFINE rank == [t \in P |-> t]
           Base == {t \in P : p[t] = t}
<1>1. PICK n \in Nat : \A t \in P : t <= n
  BY Bounded
<1>2. \A t \in P : t \in 0 .. n
  BY <1>1
<1>3. rank \in [P -> 0 .. n] /\ Base \in SUBSET P /\ p \in [P -> P]
  BY <1>2, ForestGoesDown
<1>4. \A t \in P \ Base : rank[p[t]] < rank[t]
  BY ForestGoesDown
<1>5. \E r \in [P -> T] : Recurs(r, P, Base, leaf, p, step)
  <2> HIDE DEF rank, Base
  <2> QED
    BY <1>3, <1>4, RecursionExists
<1> QED
  BY <1>5 DEF Recurs, Climbs

LEMMA RootEquation ==
    ASSUME NEW P \in SUBSET Nat, IsFiniteSet(P), NEW p \in Forests(P)
    PROVE  \A t \in P : /\ Root(p, t) \in P
                        /\ Root(p, t) = IF p[t] = t THEN t ELSE Root(p, p[t])
<1> DEFINE Eq(r) == r = [t \in DOMAIN p |-> IF p[t] = t THEN t ELSE r[p[t]]]
           root == CHOOSE r : Eq(r)
           leaf == [t \in P |-> t]
           step == [d \in P \X P |-> d[2]]
<1>1. leaf \in [P -> P] /\ step \in [P \X P -> P]
  OBVIOUS
<1>2. PICK r \in [P -> P] : Climbs(r, P, p, leaf, step)
  <2> HIDE DEF leaf, step
  <2> QED
    BY <1>1, ForestRecursion
<1>3. Eq(r)
  <2>1. \A t \in P : r[t] = IF p[t] = t THEN t ELSE r[p[t]]
    BY <1>2, ForestGoesDown DEF Climbs
  <2>2. r = [t \in P |-> IF p[t] = t THEN t ELSE r[p[t]]]
    BY <2>1
  <2> QED
    BY <2>2, ForestGoesDown
<1>4. Eq(root)
  BY <1>3
<1>5. \A t \in P : root[t] = IF p[t] = t THEN t ELSE root[p[t]]
  BY <1>4, ForestGoesDown
<1>6. \A t \in P : Root(p, t) = root[t]
  BY DEF Root
<1> HIDE DEF root
<1> DEFINE G == {t \in P : root[t] \in P}
<1>7. \A t \in P : (p[t] # t => p[t] \in G) => t \in G
  BY <1>5
<1>8. \A t \in P : t \in G
  <2> HIDE DEF G
  <2> QED
    BY <1>7, ForestInduction
<1>9. ASSUME NEW t \in P
      PROVE  /\ Root(p, t) \in P
             /\ Root(p, t) = IF p[t] = t THEN t ELSE Root(p, p[t])
  <2>1. p[t] \in P
    BY ForestGoesDown
  <2>2. Root(p, t) = root[t] /\ Root(p, p[t]) = root[p[t]]
    BY <1>6, <2>1
  <2> QED
    BY <1>5, <1>8, <2>2
<1> QED
  BY <1>9

LEMMA RootIsFixed ==
    ASSUME NEW P \in SUBSET Nat, IsFiniteSet(P), NEW p \in Forests(P)
    PROVE  \A t \in P : /\ Root(p, t) \in P
                        /\ p[Root(p, t)] = Root(p, t)
                        /\ Root(p, Root(p, t)) = Root(p, t)
                        /\ Root(p, t) <= t
<1> DEFINE G == {t \in P : p[Root(p, t)] = Root(p, t) /\ Root(p, t) <= t}
<1>1. ASSUME NEW t \in P, p[t] # t => p[t] \in G PROVE t \in G
  <2>1. CASE p[t] = t
    BY <2>1, RootEquation
  <2>2. CASE p[t] # t
    <3>1. Root(p, t) = Root(p, p[t]) /\ p[t] \in P /\ p[t] <= t
      BY <2>2, RootEquation, ForestGoesDown
    <3>2. p[t] \in G /\ Root(p, t) \in P
      BY <1>1, <2>2, RootEquation
    <3>3. \A a, b, c \in Nat : a <= b /\ b <= c => a <= c
      OBVIOUS
    <3> QED
      BY <3>1, <3>2, <3>3
  <2> QED
    BY <2>1, <2>2
<1>2. \A t \in P : t \in G
  <2> HIDE DEF G
  <2> QED
    BY <1>1, ForestInduction
<1> QED
  BY <1>2, RootEquation

LEMMA SameRoots ==
    ASSUME NEW P \in SUBSET Nat, IsFiniteSet(P), NEW p \in Forests(P),
           NEW q \in Forests(P),
           \A t \in P : Root(p, q[t]) = Root(p, t),
           \A t \in P : q[t] = t => p[t] = t
    PROVE  \A t \in P : Root(q, t) = Root(p, t)
<1> DEFINE G == {t \in P : Root(q, t) = Root(p, t)}
<1>1. ASSUME NEW t \in P, q[t] # t => q[t] \in G PROVE t \in G
  BY <1>1, RootEquation
<1>2. \A t \in P : t \in G
  <2> HIDE DEF G
  <2> QED
    BY <1>1, ForestInduction
<1> QED
  BY <1>2

(* Moving sources to below their root moves no root.                       *)
LEMMA FindKeepsRoots ==
    ASSUME NEW P \in SUBSET Nat, IsFiniteSet(P), NEW p \in Forests(P),
           NEW s \in P
    PROVE  /\ Find(p, s) \in Forests(P)
           /\ \A t \in P : Root(Find(p, s), t) = Root(p, t)
<1> DEFINE Eq(r) == r = [t \in DOMAIN p |->
                {t} \cup IF p[t] = t THEN {} ELSE r[p[t]]]
           path == CHOOSE r : Eq(r)
           leaf == [t \in P |-> {t}]
           step == [d \in P \X SUBSET P |-> {d[1]} \cup d[2]]
<1>1. leaf \in [P -> SUBSET P] /\ step \in [P \X SUBSET P -> SUBSET P]
  OBVIOUS
<1>2. PICK r \in [P -> SUBSET P] : Climbs(r, P, p, leaf, step)
  <2> HIDE DEF leaf, step
  <2> QED
    BY <1>1, ForestRecursion
<1>3. Eq(r)
  <2>1. ASSUME NEW t \in P PROVE r[t] = {t} \cup IF p[t] = t THEN {} ELSE r[p[t]]
    <3>1. CASE p[t] = t
      BY <1>2, <3>1 DEF Climbs
    <3>2. CASE p[t] # t
      <4>1. p[t] \in P /\ r[p[t]] \in SUBSET P
        BY ForestGoesDown
      <4>2. r[t] = step[<<t, r[p[t]]>>]
        BY <1>2, <3>2 DEF Climbs
      <4> QED
        BY <3>2, <4>1, <4>2
    <3> QED
      BY <3>1, <3>2
  <2>2. r = [t \in P |-> {t} \cup IF p[t] = t THEN {} ELSE r[p[t]]]
    BY <2>1
  <2> QED
    BY <2>2, ForestGoesDown
<1>4. Eq(path)
  BY <1>3
<1>5. \A t \in P : path[t] = {t} \cup IF p[t] = t THEN {} ELSE path[p[t]]
  BY <1>4, ForestGoesDown
<1>6. Find(p, s) = [t \in P |-> IF t \in path[s] THEN Root(p, s) ELSE p[t]]
  BY ForestGoesDown DEF Find
<1> HIDE DEF path, Eq
<1> DEFINE G == {u \in P : \A t \in path[u] : t \in P /\ Root(p, t) = Root(p, u)}
<1>7. ASSUME NEW u \in P, p[u] # u => p[u] \in G PROVE u \in G
  BY <1>5, <1>7, RootEquation
<1>8. \A u \in P : u \in G
  <2> HIDE DEF G
  <2> QED
    BY <1>7, ForestInduction
<1>9. \A t \in path[s] : t \in P /\ Root(p, t) = Root(p, s)
  BY <1>8
<1> DEFINE q == Find(p, s)
<1>10. ASSUME NEW t \in P
       PROVE  /\ q[t] \in P /\ q[t] <= t
              /\ Root(p, q[t]) = Root(p, t)
              /\ q[t] = t => p[t] = t
  <2>1. CASE t \in path[s]
    <3>1. q[t] = Root(p, t)
      BY <1>6, <1>9, <2>1
    <3> HIDE DEF q
    <3> QED
      BY <3>1, RootIsFixed
  <2>2. CASE t \notin path[s]
    <3>1. q[t] = p[t]
      BY <1>6, <2>2
    <3> HIDE DEF q
    <3> QED
      BY <3>1, RootEquation, ForestGoesDown
  <2> QED
    BY <2>1, <2>2
<1>11. q \in Forests(P)
  BY <1>6, <1>10 DEF Forests
<1> HIDE DEF q
<1>12. \A t \in P : Root(q, t) = Root(p, t)
  BY <1>10, <1>11, SameRoots
<1> QED
  BY <1>11, <1>12 DEF q

LEMMA FindAllKeepsRoots ==
    ASSUME NEW P \in SUBSET Nat, IsFiniteSet(P), NEW p \in Forests(P),
           NEW link \in SUBSET P
    PROVE  LET found == FoldSet(LAMBDA s, q : Find(q, s), p, link)
           IN  /\ found \in Forests(P)
               /\ \A t \in P : Root(found, t) = Root(p, t)
<1> DEFINE Some(U) == CHOOSE x \in U : TRUE
           Eq(f) == f = [U \in SUBSET link |->
                            IF U = {} THEN p ELSE Find(f[U \ {Some(U)}], Some(U))]
           fold == CHOOSE f : Eq(f)
           T == {q \in Forests(P) : \A t \in P : Root(q, t) = Root(p, t)}
           pick == [U \in SUBSET link |-> Some(U)]
           step == [d \in T \X link |-> Find(d[1], d[2])]
<1>1. IsFiniteSet(link)
  BY FS_Subset
<1>2. p \in T
  OBVIOUS
<1>3. Picks(pick, link)
  BY DEF Picks
<1>4. \A q \in T, s \in link : Find(q, s) \in T
  BY FindKeepsRoots
<1>5. step \in [T \X link -> T]
  <2> HIDE DEF T
  <2> QED
    BY <1>4
<1>6. PICK f \in [SUBSET link -> T] : IsFoldOver(f, link, p, pick, step)
  <2> HIDE DEF T, pick, step
  <2> QED
    BY <1>1, <1>2, <1>3, <1>5, FoldExists
<1>7. Eq(f)
  <2>1. ASSUME NEW U \in SUBSET link
        PROVE  f[U] = IF U = {} THEN p ELSE Find(f[U \ {Some(U)}], Some(U))
    <3>1. CASE U = {}
      BY <1>6, <3>1 DEF IsFoldOver
    <3>2. CASE U # {}
      <4>1. f[U] = step[<<f[U \ {pick[U]}], pick[U]>>] /\ pick[U] = Some(U)
        BY <1>6, <3>2 DEF IsFoldOver
      <4>2. Some(U) \in link /\ f[U \ {Some(U)}] \in T
        BY <3>2
      <4> QED
        BY <3>2, <4>1, <4>2
    <3> QED
      BY <3>1, <3>2
  <2> HIDE DEF Some
  <2> QED
    BY <2>1
<1>8. Eq(fold)
  <2> HIDE DEF Eq
  <2> QED
    BY <1>7
<1>9. FoldSet(LAMBDA s, q : Find(q, s), p, link) = fold[link]
  BY DEF FoldSet, MapThenFoldSet
<1> HIDE DEF fold
<1> DEFINE G == {U \in SUBSET link : fold[U] \in T}
<1>10. {} \in G
  BY <1>2, <1>8
<1>11. ASSUME NEW U \in SUBSET link, U # {}, U \ {pick[U]} \in G
       PROVE  U \in G
  <2>1. fold[U] = Find(fold[U \ {pick[U]}], pick[U])
    BY <1>8, <1>11
  <2>2. pick[U] \in link /\ fold[U \ {pick[U]}] \in T
    BY <1>3, <1>11 DEF Picks
  <2> QED
    BY <1>4, <2>1, <2>2
<1>12. Grows(G, pick, link)
  BY <1>10, <1>11 DEF Grows
<1>13. \A U \in SUBSET link : U \in G
  <2> HIDE DEF G, pick
  <2> QED
    BY <1>1, <1>3, <1>12, SubsetInduction
<1>14. fold[link] \in T
  BY <1>13
<1> QED
  BY <1>9, <1>14

RootsOf(p, link) == {Root(p, s) : s \in link}

(* Afterwards the lowest of their roots is that of all whom a link joins,  *)
(* and the other sources keep theirs.                                      *)
LEMMA UnionJoins ==
    ASSUME NEW P \in SUBSET Nat, IsFiniteSet(P), NEW p \in Forests(P),
           NEW link \in SUBSET P, link # {}
    PROVE  /\ Union(p, link) \in Forests(P)
           /\ Min(RootsOf(p, link)) \in RootsOf(p, link)
           /\ \A t \in P : Root(Union(p, link), t) =
                IF Root(p, t) \in RootsOf(p, link)
                THEN Min(RootsOf(p, link)) ELSE Root(p, t)
<1> DEFINE roots == {Root(p, s) : s \in link}
           found == FoldSet(LAMBDA s, q : Find(q, s), p, link)
           low == Min(roots)
           u == Union(p, link)
<1>1. roots \in SUBSET P /\ roots # {}
  BY RootIsFixed
<1>2. low \in roots /\ \A r \in roots : low <= r
  <2> HIDE DEF roots
  <2>1. roots \in SUBSET Nat /\ roots \in SUBSET Int
    BY <1>1
  <2>2. PICK r \in roots : \A x \in roots : r <= x
    BY <1>1, <2>1, LeastExists
  <2> QED
    BY <2>1, <2>2, MinIs
<1>3. found \in Forests(P) /\ \A t \in P : Root(found, t) = Root(p, t)
  BY FindAllKeepsRoots
<1>4. u = [t \in P |-> IF t \in roots THEN low ELSE found[t]]
  <2>1. DOMAIN p = P
    BY ForestGoesDown
  <2> QED
    BY <2>1 DEF Union
<1>5. \A t \in roots : p[t] = t /\ Root(p, t) = t
  BY RootIsFixed
<1> HIDE DEF roots, found, low, u
<1>6. u \in Forests(P)
  <2>1. ASSUME NEW t \in P PROVE u[t] \in P /\ u[t] <= t
    BY <1>1, <1>2, <1>3, <1>4, ForestGoesDown
  <2> QED
    BY <1>4, <2>1 DEF Forests
<1> DEFINE New(t) == IF Root(p, t) \in roots THEN low ELSE Root(p, t)
           G == {t \in P : Root(u, t) = New(t)}
<1>7. Root(u, low) = low
  BY <1>1, <1>2, <1>4, <1>6, RootEquation
<1>8. ASSUME NEW t \in P, u[t] # t => u[t] \in G PROVE t \in G
  <2>1. CASE t \in roots
    <3>1. New(t) = low
      BY <1>5, <2>1
    <3>2. u[t] = low
      BY <1>4, <2>1
    <3>3. Root(u, t) = low
      BY <1>6, <1>7, <3>2, RootEquation
    <3> QED
      BY <3>1, <3>3
  <2>2. CASE t \notin roots
    <3>1. u[t] = found[t] /\ found[t] \in P
      BY <1>3, <1>4, <2>2, ForestGoesDown
    <3>2. CASE found[t] = t
      <4>1. Root(found, t) = t /\ Root(u, t) = t
        BY <1>3, <1>6, <3>1, <3>2, RootEquation
      <4> QED
        BY <1>3, <2>2, <4>1
    <3>3. CASE found[t] # t
      <4>1. Root(u, t) = Root(u, u[t]) /\ Root(u, u[t]) = New(u[t])
        BY <1>6, <1>8, <3>1, <3>3, RootEquation
      <4>2. Root(found, t) = Root(found, found[t])
        BY <1>3, <3>3, RootEquation
      <4>3. Root(p, u[t]) = Root(p, t)
        BY <1>3, <3>1, <4>2
      <4> QED
        BY <4>1, <4>3
    <3> QED
      BY <3>2, <3>3
  <2> QED
    BY <2>1, <2>2
<1>9. \A t \in P : t \in G
  <2> HIDE DEF G
  <2> QED
    BY <1>6, <1>8, ForestInduction
<1> QED
  BY <1>2, <1>6, <1>9 DEF RootsOf, roots, low, u

LEMMA UnionSteps ==
    ASSUME NEW P \in SUBSET Nat, IsFiniteSet(P),
           NEW links \in Seq((SUBSET P) \ {{}})
    PROVE  \E acc \in [0 .. Len(links) -> Forests(P)] :
                /\ acc[0] = [s \in P |-> s]
                /\ \A k \in 1 .. Len(links) : acc[k] = Union(acc[k - 1], links[k])
                /\ acc[Len(links)] = FoldLeft(Union, [s \in P |-> s], links)
<1> DEFINE base == [s \in P |-> s]
           n == Len(links)
           S == 1 .. n
           T == Forests(P)
           Eq(f) == f = [U \in SUBSET S |-> IF U = {} THEN base
                                ELSE Union(f[U \ {Max(U)}], links[Max(U)])]
           fold == CHOOSE f : Eq(f)
           pick == [U \in SUBSET S |-> Max(U)]
           step == [d \in T \X S |-> Union(d[1], links[d[2]])]
<1>1. n \in Nat /\ DOMAIN links = S
  OBVIOUS
<1>2. IsFiniteSet(S)
  BY <1>1, FS_Interval
<1>3. base \in T
  BY DEF Forests
<1>4. ASSUME NEW U \in SUBSET S, U # {} PROVE Max(U) \in U
  <2>1. U \in SUBSET (0 .. n)
    BY <1>1
  <2> HIDE DEF n, S
  <2> QED
    BY <1>1, <1>4, <2>1, ExtremaAreMembers
<1>5. Picks(pick, S)
  BY <1>4 DEF Picks
<1>6. \A q \in T, i \in S : Union(q, links[i]) \in T
  <2>1. \A i \in S : links[i] \in SUBSET P /\ links[i] # {}
    OBVIOUS
  <2> HIDE DEF S
  <2> QED
    BY <2>1, UnionJoins
<1>7. step \in [T \X S -> T]
  <2> HIDE DEF S, T
  <2> QED
    BY <1>6
<1>8. PICK f \in [SUBSET S -> T] : IsFoldOver(f, S, base, pick, step)
  <2> HIDE DEF S, T, base, pick, step
  <2> QED
    BY <1>2, <1>3, <1>5, <1>7, FoldExists
<1>9. Eq(f)
  <2> HIDE DEF S, T
  <2>1. ASSUME NEW U \in SUBSET S
        PROVE  f[U] = IF U = {} THEN base
                      ELSE Union(f[U \ {Max(U)}], links[Max(U)])
    <3>1. CASE U = {}
      BY <1>8, <3>1 DEF IsFoldOver
    <3>2. CASE U # {}
      <4>1. f[U] = step[<<f[U \ {pick[U]}], pick[U]>>] /\ pick[U] = Max(U)
        BY <1>8, <3>2 DEF IsFoldOver
      <4>2. Max(U) \in S /\ f[U \ {Max(U)}] \in T
        BY <1>4, <3>2
      <4> QED
        BY <3>2, <4>1, <4>2
    <3> QED
      BY <3>1, <3>2
  <2> QED
    BY <2>1
<1>10. Eq(fold)
  <2> HIDE DEF Eq
  <2> QED
    BY <1>9
<1>11. FoldLeft(Union, base, links) = fold[S]
  BY <1>1 DEF FoldLeft, MapThenFoldSet
<1> HIDE DEF fold
<1> DEFINE G == {U \in SUBSET S : fold[U] \in T}
<1>12. {} \in G
  BY <1>3, <1>10
<1>13. ASSUME NEW U \in SUBSET S, U # {}, U \ {pick[U]} \in G
       PROVE  U \in G
  <2>1. fold[U] = Union(fold[U \ {pick[U]}], links[pick[U]])
    BY <1>10, <1>13
  <2>2. pick[U] \in S /\ fold[U \ {pick[U]}] \in T
    BY <1>5, <1>13 DEF Picks
  <2> QED
    BY <1>6, <1>13, <2>1, <2>2
<1>14. Grows(G, pick, S)
  BY <1>12, <1>13 DEF Grows
<1>15. \A U \in SUBSET S : U \in G
  <2> HIDE DEF G, pick, S
  <2> QED
    BY <1>2, <1>5, <1>14, SubsetInduction
<1> DEFINE acc == [k \in 0 .. n |-> fold[1 .. k]]
<1>16. \A k \in 0 .. n : 1 .. k \in SUBSET S
  BY <1>1
<1>17. acc \in [0 .. n -> T]
  <2> HIDE DEF S, T
  <2> QED
    BY <1>15, <1>16
<1>18. acc[0] = base /\ acc[n] = fold[S]
  <2>1. 1 .. 0 = {}
    OBVIOUS
  <2>2. acc[0] = fold[1 .. 0] /\ acc[n] = fold[1 .. n]
    BY <1>1
  <2> QED
    BY <1>10, <2>1, <2>2
<1>19. ASSUME NEW k \in 1 .. n PROVE acc[k] = Union(acc[k - 1], links[k])
  <2>1. k \in 0 .. n /\ k - 1 \in 0 .. n /\ 1 .. k # {}
    <3> HIDE DEF n
    <3>1. k \in Nat /\ 1 <= k /\ k <= n
      BY <1>1
    <3>2. k \in 1 .. k
      BY <3>1
    <3>3. k - 1 \in Nat /\ k - 1 <= n
      BY <1>1, <3>1
    <3>4. k \in 0 .. n /\ k - 1 \in 0 .. n
      BY <1>1, <3>1, <3>3
    <3> QED
      BY <3>2, <3>4
  <2>2. Max(1 .. k) = k
    <3>1. 1 .. k \in SUBSET Int /\ k \in 1 .. k /\ \A y \in 1 .. k : y <= k
      OBVIOUS
    <3> QED
      BY <3>1, MaxIs
  <2>3. (1 .. k) \ {k} = 1 .. k - 1
    OBVIOUS
  <2>4. fold[1 .. k] = Union(fold[1 .. k - 1], links[k])
    <3>1. fold[1 .. k] = Union(fold[(1 .. k) \ {Max(1 .. k)}], links[Max(1 .. k)])
      <4> HIDE DEF S
      <4> QED
        BY <1>10, <1>16, <2>1
    <3> QED
      BY <2>2, <2>3, <3>1
  <2> QED
    BY <2>1, <2>4
<1> HIDE DEF acc, base, T, S
<1> QED
  BY <1>11, <1>17, <1>18, <1>19 DEF T, base

(* Linked sources end with the same root, and no root is where the links   *)
(* do not lead.                                                            *)
LEMMA LinksDecideRoots ==
    ASSUME NEW P \in SUBSET Nat, IsFiniteSet(P),
           NEW links \in Seq((SUBSET P) \ {{}})
    PROVE  LET p == FoldLeft(Union, [s \in P |-> s], links)
           IN  /\ p \in Forests(P)
               /\ \A i \in DOMAIN links : \A s, t \in links[i] :
                    Root(p, s) = Root(p, t)
               /\ \A Q \in SUBSET P :
                    (\A i \in DOMAIN links :
                        links[i] \cap Q = {} \/ links[i] \subseteq Q)
                    => \A s \in P : Root(p, s) \in Q <=> s \in Q
<1> DEFINE base == [s \in P |-> s]
           n == Len(links)
<1>1. n \in Nat /\ DOMAIN links = 1 .. n
  OBVIOUS
<1>2. \A i \in 1 .. n : links[i] \in SUBSET P /\ links[i] # {}
  OBVIOUS
<1> DEFINE Closed(Q, i) == links[i] \cap Q = {} \/ links[i] \subseteq Q
           Joined(p, k) == \A i \in 1 .. k : \A s, t \in links[i] :
                                Root(p, s) = Root(p, t)
           Apart(p, k) == \A Q \in SUBSET P : (\A i \in 1 .. k : Closed(Q, i))
                                => \A s \in P : Root(p, s) \in Q <=> s \in Q
<1>3. PICK acc \in [0 .. n -> Forests(P)] :
        /\ acc[0] = base
        /\ \A k \in 1 .. n : acc[k] = Union(acc[k - 1], links[k])
        /\ acc[n] = FoldLeft(Union, base, links)
  BY UnionSteps
<1> HIDE DEF n, base, Closed
<1> DEFINE G == {k \in 0 .. n : Joined(acc[k], k) /\ Apart(acc[k], k)}
<1>4. 0 \in G
  <2>1. 0 \in 0 .. n /\ 1 .. 0 = {}
    BY <1>1
  <2>2. \A s \in P : Root(acc[0], s) = s
    <3>1. acc[0] \in Forests(P) /\ \A s \in P : acc[0][s] = s
      BY <1>3, <2>1 DEF base
    <3> QED
      BY <3>1, RootEquation
  <2> QED
    BY <2>1, <2>2
<1>5. ASSUME NEW k \in 0 .. n - 1, k \in G PROVE k + 1 \in G
  <2>1. /\ k \in 0 .. n /\ k + 1 \in 0 .. n /\ k + 1 \in 1 .. n
        /\ (k + 1) - 1 = k
        /\ 1 .. k + 1 = (1 .. k) \cup {k + 1}
    BY <1>1
  <2> DEFINE q == acc[k]
             link == links[k + 1]
             roots == RootsOf(q, link)
             u == acc[k + 1]
  <2>2. q \in Forests(P) /\ link \in SUBSET P /\ link # {}
    BY <1>2, <2>1
  <2>3. u = Union(q, link)
    BY <1>3, <2>1
  <2>4. Joined(q, k) /\ Apart(q, k)
    BY <1>5
  <2> HIDE DEF q, link, u
  <2>5. /\ Min(roots) \in roots
        /\ \A t \in P : Root(u, t) =
                IF Root(q, t) \in roots THEN Min(roots) ELSE Root(q, t)
    BY <2>2, <2>3, UnionJoins
  <2>6. Joined(u, k + 1)
    <3>1. ASSUME NEW i \in 1 .. k, NEW s \in links[i], NEW t \in links[i]
          PROVE  Root(u, s) = Root(u, t)
      <4>1. i \in 1 .. n
        BY <1>1
      <4>2. s \in P /\ t \in P /\ Root(q, s) = Root(q, t)
        BY <1>2, <2>4, <4>1
      <4> HIDE DEF roots
      <4> QED
        BY <2>5, <4>2
    <3>2. ASSUME NEW s \in link, NEW t \in link PROVE Root(u, s) = Root(u, t)
      <4>1. s \in P /\ t \in P /\ Root(q, s) \in roots /\ Root(q, t) \in roots
        <5>1. \A v \in link : Root(q, v) \in roots
          BY DEF RootsOf
        <5> HIDE DEF roots
        <5> QED
          BY <2>2, <5>1
      <4> HIDE DEF roots
      <4> QED
        BY <2>5, <4>1
    <3> QED
      BY <2>1, <3>1, <3>2 DEF link
  <2>7. Apart(u, k + 1)
    <3> SUFFICES ASSUME NEW Q \in SUBSET P,
                        \A i \in 1 .. k + 1 : Closed(Q, i),
                        NEW s \in P
                 PROVE  Root(u, s) \in Q <=> s \in Q
      OBVIOUS
    <3>1. \A t \in P : Root(q, t) \in Q <=> t \in Q
      BY <2>1, <2>4
    <3>2. link \cap Q = {} \/ link \subseteq Q
      BY <2>1 DEF Closed, link
    <3>3. CASE Root(q, s) \in roots
      <4>1. PICK t \in link : Root(q, s) = Root(q, t)
        BY <3>3 DEF RootsOf
      <4>2. PICK v \in link : Min(roots) = Root(q, v)
        BY <2>5 DEF RootsOf
      <4>3. Root(u, s) = Root(q, v)
        BY <2>5, <3>3, <4>2
      <4>4. t \in Q <=> v \in Q
        BY <3>2
      <4> QED
        BY <2>2, <3>1, <4>1, <4>3, <4>4
    <3>4. CASE Root(q, s) \notin roots
      BY <2>5, <3>1, <3>4
    <3> QED
      BY <3>3, <3>4
  <2> QED
    BY <2>1, <2>6, <2>7 DEF u
<1>6. n \in G
  <2> HIDE DEF G
  <2>1. \A k \in 0 .. n : k \in G
    BY <1>1, <1>4, <1>5, InductionUpTo
  <2> QED
    BY <1>1, <2>1
<1>7. acc[n] \in Forests(P) /\ Joined(acc[n], n) /\ Apart(acc[n], n)
  BY <1>1, <1>6
<1> QED
  BY <1>1, <1>3, <1>7 DEF Closed, base

-----------------------------------------------------------------------------
(* group                                                                   *)

Partitions(G, P) ==
    /\ G \subseteq (SUBSET P) \ {{}}
    /\ UNION G = P
    /\ \A g, h \in G : g # h => g \cap h = {}

Connects(links, G) ==
    /\ \A i \in DOMAIN links : \E g \in G : links[i] \subseteq g
    /\ \A g \in G : \A part \in (SUBSET g) \ {{}, g} :
            \E i \in DOMAIN links :
                /\ links[i] \cap part # {}
                /\ links[i] \cap (g \ part) # {}

LEMMA GroupConnects ==
    ASSUME NEW P \in SUBSET Nat, IsFiniteSet(P),
           NEW links \in Seq((SUBSET P) \ {{}})
    PROVE  Partitions(Group(P, links), P) /\ Connects(links, Group(P, links))
<1> DEFINE p == FoldLeft(Union, [s \in P |-> s], links)
           Class(r) == {s \in P : Root(p, s) = r}
           roots == {Root(p, s) : s \in P}
           G == Group(P, links)
<1>1. /\ p \in Forests(P)
      /\ \A i \in DOMAIN links : \A s, t \in links[i] : Root(p, s) = Root(p, t)
      /\ \A Q \in SUBSET P :
            (\A i \in DOMAIN links :
                links[i] \cap Q = {} \/ links[i] \subseteq Q)
            => \A s \in P : Root(p, s) \in Q <=> s \in Q
  BY LinksDecideRoots
<1>2. G = {Class(r) : r \in roots}
  BY DEF Group
<1>3. \A i \in DOMAIN links : links[i] \in SUBSET P /\ links[i] # {}
  OBVIOUS
<1> HIDE DEF p, G
<1>4. \A g \in G : \E r \in roots : g = Class(r)
  BY <1>2
<1>5. \A s \in P : Class(Root(p, s)) \in G /\ s \in Class(Root(p, s))
  BY <1>2
<1>6. Partitions(G, P)
  <2>1. \A g \in G : g \in SUBSET P /\ g # {}
    BY <1>4
  <2>2. \A g, h \in G : \A s \in g \cap h : g = h
    <3> SUFFICES ASSUME NEW g \in G, NEW h \in G, NEW s \in g \cap h
                 PROVE  g = h
      OBVIOUS
    <3>1. PICK r \in roots : g = Class(r)
      BY <1>4
    <3>2. PICK q \in roots : h = Class(q)
      BY <1>4
    <3>3. r = q
      BY <3>1, <3>2
    <3> QED
      BY <3>1, <3>2, <3>3
  <2>3. UNION G = P
    BY <1>5, <2>1
  <2> QED
    BY <2>1, <2>2, <2>3 DEF Partitions
<1>7. ASSUME NEW i \in DOMAIN links PROVE \E g \in G : links[i] \subseteq g
  <2>1. PICK s \in links[i] : s \in P
    BY <1>3
  <2>2. links[i] \subseteq Class(Root(p, s))
    BY <1>1, <1>3
  <2> QED
    BY <1>5, <2>1, <2>2
<1>8. ASSUME NEW g \in G, NEW part \in (SUBSET g) \ {{}, g},
             \A i \in DOMAIN links :
                links[i] \cap part = {} \/ links[i] \cap (g \ part) = {}
      PROVE  FALSE
  <2>1. \A i \in DOMAIN links :
            links[i] \cap part = {} \/ links[i] \subseteq part
    <3> SUFFICES ASSUME NEW i \in DOMAIN links, NEW s \in links[i] \cap part
                 PROVE  links[i] \subseteq part
      OBVIOUS
    <3>1. PICK h \in G : links[i] \subseteq h
      BY <1>7
    <3>2. h = g
      BY <1>6, <3>1 DEF Partitions
    <3> QED
      BY <1>8, <3>1, <3>2
  <2>2. part \in SUBSET P /\ g \in SUBSET P
    BY <1>6 DEF Partitions
  <2>3. \A s \in P : Root(p, s) \in part <=> s \in part
    BY <1>1, <2>1, <2>2
  <2>4. PICK s \in part, t \in g \ part : s \in g
    OBVIOUS
  <2>5. Root(p, s) = Root(p, t)
    BY <1>4, <2>4
  <2> QED
    BY <2>2, <2>3, <2>4, <2>5
<1>9. Connects(links, G)
  BY <1>7, <1>8 DEF Connects
<1> QED
  BY <1>6, <1>9 DEF G

-----------------------------------------------------------------------------
(* assign_ids                                                              *)

Owning == UNION {[S -> Ids] : S \in SUBSET Sources}
Grouped(found) ==
    /\ found \in SUBSET Groups
    /\ \A g, h \in found : g # h => g \cap h = {}

LEMMA IdsAreNumbers == Ids \in SUBSET Nat /\ None \notin Ids
  BY FeedIdsAssumption DEF Ids

LEMMA SourcesAreNumbers == Sources \in SUBSET Nat /\ IsFiniteSet(Sources)
  BY FeedIdsAssumption

LEMMA OwnersOwn ==
    ASSUME NEW existing, DOMAIN existing \in SUBSET Ids,
           NEW owner \in Owners(existing)
    PROVE  /\ owner \in Owning /\ Range(owner) \subseteq DOMAIN existing
           /\ \A s \in Sources : s \in DOMAIN owner <=>
                \E f \in DOMAIN existing : s \in existing[f]
           /\ \A s \in DOMAIN owner : /\ owner[s] \in DOMAIN existing
                                      /\ s \in existing[owner[s]]
<1> DEFINE owned == {s \in Sources : FeedsOf(existing, s) # {}}
<1>1. /\ owner \in [owned -> DOMAIN existing]
      /\ \A s \in owned : owner[s] \in FeedsOf(existing, s)
  BY DEF Owners
<1>2. owned \in SUBSET Sources
  OBVIOUS
<1>3. owner \in Owning
  <2> HIDE DEF owned
  <2>1. owner \in [owned -> Ids]
    BY <1>1
  <2> QED
    BY <1>2, <2>1 DEF Owning
<1> QED
  BY <1>1, <1>3 DEF Range, FeedsOf

LEMMA FirstIs ==
    ASSUME NEW g \in SUBSET Nat, g # {}
    PROVE  First(g) \in g /\ \A t \in g : First(g) <= t
<1>1. \E s \in g : \A t \in g : s <= t
  BY LeastExists
<1> QED
  BY <1>1 DEF First

LEMMA FirstsDiffer ==
    ASSUME NEW found, Grouped(found)
    PROVE  /\ \A g \in found : First(g) \in Nat
           /\ \A g, h \in found : g # h => First(g) # First(h)
<1>1. \A g \in found : g \in SUBSET Nat /\ g # {}
  BY SourcesAreNumbers DEF Grouped, Groups
<1>2. \A g \in found : First(g) \in g /\ First(g) \in Nat
  BY <1>1, FirstIs
<1> QED
  BY <1>2 DEF Grouped

LEMMA GroupsAreFinite ==
    ASSUME NEW found, Grouped(found)
    PROVE  IsFiniteSet(found)
<1>1. found \in SUBSET SUBSET Sources
  BY DEF Grouped, Groups
<1>2. IsFiniteSet(SUBSET Sources)
  BY SourcesAreNumbers, FS_SUBSET
<1> QED
  BY <1>1, <1>2, FS_Subset

LEMMA OverlapIs ==
    ASSUME NEW owner \in Owning, NEW g \in SUBSET Sources, NEW f
    PROVE  /\ Overlap(owner, g, f) \in Nat
           /\ Overlap(owner, g, f) > 0
                <=> \E s \in g \cap DOMAIN owner : owner[s] = f
<1> DEFINE S == {s \in g \cap DOMAIN owner : owner[s] = f}
<1>1. IsFiniteSet(S)
  BY SourcesAreNumbers, FS_Subset
<1>2. Cardinality(S) \in Nat /\ (Cardinality(S) = 0 <=> S = {})
  <2> HIDE DEF S
  <2> QED
    BY <1>1, FS_CardinalityType, FS_EmptySet
<1>3. Overlap(owner, g, f) = Cardinality(S)
  BY DEF Overlap
<1>4. Overlap(owner, g, f) \in Nat
  BY <1>2, <1>3
<1>5. Overlap(owner, g, f) > 0 <=> S # {}
  <2> HIDE DEF S
  <2> QED
    BY <1>2, <1>3
<1> QED
  BY <1>4, <1>5

LEMMA CandidatesAreFinite ==
    ASSUME NEW owner \in Owning, NEW found, Grouped(found)
    PROVE  IsFiniteSet(Candidates(owner, found))
<1> DEFINE S == DOMAIN owner
           X == found \X S
           m == [x \in X |-> <<x[1], owner[x[2]]>>]
           T == {m[x] : x \in X}
<1>1. S \in SUBSET Sources
  BY DEF Owning
<1>2. IsFiniteSet(X)
  <2>1. IsFiniteSet(found) /\ IsFiniteSet(S)
    BY <1>1, GroupsAreFinite, SourcesAreNumbers, FS_Subset
  <2> HIDE DEF S
  <2> QED
    BY <2>1, FS_Product
<1>3. IsFiniteSet(T)
  <2>1. m \in Surjection(X, T)
    BY DEF Surjection
  <2> HIDE DEF X, m, T
  <2> QED
    BY <1>2, <2>1, FS_Surjection
<1>4. ASSUME NEW c \in Candidates(owner, found) PROVE c \in T
  <2>1. PICK g \in found, f \in Range(owner) :
            c = <<g, f>> /\ Overlap(owner, g, f) > 0
    BY DEF Candidates
  <2>2. g \in SUBSET Sources
    BY DEF Grouped, Groups
  <2>3. PICK s \in g \cap DOMAIN owner : owner[s] = f
    BY <2>1, <2>2, OverlapIs
  <2>4. <<g, s>> \in X /\ m[<<g, s>>] = c
    BY <2>1, <2>3
  <2> QED
    BY <2>4
<1> HIDE DEF T
<1> QED
  BY <1>3, <1>4, FS_Subset

(* The order in which the candidates are sorted is total.                  *)
LEMMA CandidatesAreOrdered ==
    ASSUME NEW owner \in Owning,
           NEW found, Grouped(found)
    PROVE  LET C == Candidates(owner, found)
           IN  /\ \A c, d \in C : c = d \/ Before(owner, c, d)
                                        \/ Before(owner, d, c)
               /\ \A c, d, e \in C : Before(owner, c, d) /\ Before(owner, d, e)
                                        => Before(owner, c, e)
<1> DEFINE C == Candidates(owner, found)
           Share(c) == Overlap(owner, c[1], c[2])
<1>1. \A c \in C : c[1] \in found /\ c[2] \in Ids /\ c = <<c[1], c[2]>>
  BY DEF Candidates, Owning, Range
<1>2. ASSUME NEW c \in C
      PROVE  Share(c) \in Nat /\ c[2] \in Nat /\ First(c[1]) \in Nat
  <2>1. c[1] \in SUBSET Sources
    BY <1>1 DEF Grouped, Groups
  <2> HIDE DEF C
  <2> QED
    BY <1>1, <2>1, OverlapIs, IdsAreNumbers, FirstsDiffer
<1>3. \A c, d \in C : First(c[1]) = First(d[1]) /\ c[2] = d[2] => c = d
  <2>1. \A c, d \in C : First(c[1]) = First(d[1]) => c[1] = d[1]
    BY <1>1, FirstsDiffer
  <2> HIDE DEF C
  <2> QED
    BY <1>1, <2>1
<1>4. \A c, d : Before(owner, c, d) <=>
        \/ Share(c) > Share(d)
        \/ Share(c) = Share(d) /\ c[2] < d[2]
        \/ Share(c) = Share(d) /\ c[2] = d[2] /\ First(c[1]) < First(d[1])
  BY DEF Before
<1> HIDE DEF C, Share
<1>5. ASSUME NEW c \in C, NEW d \in C
      PROVE  c = d \/ Before(owner, c, d) \/ Before(owner, d, c)
  <2>1. \A n, m, i, j, k, l \in Nat :
            \/ n = m /\ i = j /\ k = l
            \/ n > m
            \/ n = m /\ i < j
            \/ n = m /\ i = j /\ k < l
            \/ m > n
            \/ m = n /\ j < i
            \/ m = n /\ j = i /\ l < k
    OBVIOUS
  <2>2. \/ Share(c) = Share(d) /\ c[2] = d[2] /\ First(c[1]) = First(d[1])
        \/ Before(owner, c, d) \/ Before(owner, d, c)
    BY <1>2, <1>4, <2>1
  <2> QED
    BY <1>3, <2>2
<1>6. ASSUME NEW c \in C, NEW d \in C, NEW e \in C,
             Before(owner, c, d), Before(owner, d, e)
      PROVE  Before(owner, c, e)
  <2>1. \A n, m, o, i, j, h, k, l, p \in Nat :
            /\ n > m \/ (n = m /\ i < j) \/ (n = m /\ i = j /\ k < l)
            /\ m > o \/ (m = o /\ j < h) \/ (m = o /\ j = h /\ l < p)
            => n > o \/ (n = o /\ i < h) \/ (n = o /\ i = h /\ k < p)
    OBVIOUS
  <2>2. /\ Share(c) \in Nat /\ c[2] \in Nat /\ First(c[1]) \in Nat
        /\ Share(d) \in Nat /\ d[2] \in Nat /\ First(d[1]) \in Nat
        /\ Share(e) \in Nat /\ e[2] \in Nat /\ First(e[1]) \in Nat
    BY <1>2
  <2>3. /\ \/ Share(c) > Share(d)
           \/ Share(c) = Share(d) /\ c[2] < d[2]
           \/ Share(c) = Share(d) /\ c[2] = d[2] /\ First(c[1]) < First(d[1])
        /\ \/ Share(d) > Share(e)
           \/ Share(d) = Share(e) /\ d[2] < e[2]
           \/ Share(d) = Share(e) /\ d[2] = e[2] /\ First(d[1]) < First(e[1])
    BY <1>4, <1>6
  <2>4. \/ Share(c) > Share(e)
        \/ Share(c) = Share(e) /\ c[2] < e[2]
        \/ Share(c) = Share(e) /\ c[2] = e[2] /\ First(c[1]) < First(e[1])
    BY <2>1, <2>2, <2>3
  <2> QED
    BY <1>4, <2>4
<1> QED
  BY <1>5, <1>6 DEF C

Lasts(last, C, R) ==
    \A U \in SUBSET C : U # {} =>
        last[U] \in U /\ \A d \in U \ {last[U]} : <<d, last[U]>> \in R

LEMMA LastsPick ==
    ASSUME NEW C, NEW R, NEW last, Lasts(last, C, R)
    PROVE  Picks(last, C)
  BY DEF Lasts, Picks

Earlier(owner, C) == {p \in C \X C : Before(owner, p[1], p[2])}
IdOrNone == Ids \cup {None}

(* The claims of the candidates, up to any of them.                        *)
LEMMA ClaimSteps ==
    ASSUME NEW owner \in Owning,
           NEW found, Grouped(found)
    PROVE  LET C == Candidates(owner, found)
           IN  \E last : \E fold \in [SUBSET C -> [found -> IdOrNone]] :
                /\ Lasts(last, C, Earlier(owner, C))
                /\ fold[{}] = [g \in found |-> None]
                /\ \A U \in SUBSET C : U # {} =>
                        fold[U] = Claim(fold[U \ {last[U]}], last[U])
                /\ fold[C] = Claimed(owner, found)
<1> DEFINE C == Candidates(owner, found)
           T == [found -> IdOrNone]
           base == [g \in found |-> None]
           R == Earlier(owner, C)
           Latest(U) == CHOOSE x \in U : \A y \in U \ {x} : Before(owner, y, x)
           Eq(f) == f = [U \in SUBSET C |-> IF U = {} THEN base
                                ELSE Claim(f[U \ {Latest(U)}], Latest(U))]
           fold == CHOOSE f : Eq(f)
           last == [U \in SUBSET C |-> Latest(U)]
           step == [d \in T \X C |-> Claim(d[1], d[2])]
<1>1. IsFiniteSet(C)
  BY CandidatesAreFinite
<1>2. \A c \in C : c[1] \in found /\ c[2] \in IdOrNone
  BY DEF Candidates, IdOrNone, Owning, Range
<1>3. /\ \A x, y \in C : x = y \/ <<x, y>> \in R \/ <<y, x>> \in R
      /\ \A x, y, z \in C : <<x, y>> \in R /\ <<y, z>> \in R => <<x, z>> \in R
  <2>1. /\ \A c, d \in C : c = d \/ Before(owner, c, d) \/ Before(owner, d, c)
        /\ \A c, d, e \in C : Before(owner, c, d) /\ Before(owner, d, e)
                                => Before(owner, c, e)
    BY CandidatesAreOrdered
  <2>2. \A x, y \in C : <<x, y>> \in R <=> Before(owner, x, y)
    BY DEF Earlier
  <2> HIDE DEF C, R
  <2> QED
    BY <2>1, <2>2
<1> HIDE DEF C
<1>4. \A U \in SUBSET C : U # {} =>
        \E x \in U : \A y \in U \ {x} : <<y, x>> \in R
  <2> HIDE DEF R
  <2> QED
    BY <1>1, <1>3, LastExists
<1>5. ASSUME NEW U \in SUBSET C, U # {}
      PROVE  /\ Latest(U) \in U
             /\ \A y \in U \ {Latest(U)} : <<y, Latest(U)>> \in R
  <2>1. \A x, y \in U : <<y, x>> \in R <=> Before(owner, y, x)
    BY DEF Earlier
  <2>2. PICK x \in U : \A y \in U \ {x} : Before(owner, y, x)
    <3> HIDE DEF R
    <3> QED
      BY <1>4, <1>5, <2>1
  <2>3. Latest(U) \in U /\ \A y \in U \ {Latest(U)} : Before(owner, y, Latest(U))
    BY <2>2
  <2> HIDE DEF Latest, R
  <2> QED
    BY <2>1, <2>3
<1>6. Lasts(last, C, R)
  <2> HIDE DEF Latest, R
  <2> QED
    BY <1>5 DEF Lasts
<1>7. Picks(last, C)
  BY <1>6, LastsPick
<1>8. base \in T
  BY DEF IdOrNone
<1>9. \A a \in T, c \in C : Claim(a, c) \in T
  BY <1>2 DEF Claim
<1>10. step \in [T \X C -> T]
  <2> HIDE DEF T
  <2> QED
    BY <1>9
<1>11. PICK f \in [SUBSET C -> T] : IsFoldOver(f, C, base, last, step)
  <2> HIDE DEF T, base, last, step
  <2> QED
    BY <1>1, <1>7, <1>8, <1>10, FoldExists
<1>12. Eq(f)
  <2> HIDE DEF T, Latest
  <2>1. ASSUME NEW U \in SUBSET C
        PROVE  f[U] = IF U = {} THEN base
                      ELSE Claim(f[U \ {Latest(U)}], Latest(U))
    <3>1. CASE U = {}
      BY <1>11, <3>1 DEF IsFoldOver
    <3>2. CASE U # {}
      <4>1. f[U] = step[<<f[U \ {last[U]}], last[U]>>] /\ last[U] = Latest(U)
        BY <1>11, <3>2 DEF IsFoldOver
      <4>2. Latest(U) \in C /\ f[U \ {Latest(U)}] \in T
        BY <1>5, <3>2
      <4> QED
        BY <3>2, <4>1, <4>2
    <3> QED
      BY <3>1, <3>2
  <2> QED
    BY <2>1
<1>13. Eq(fold)
  <2> HIDE DEF Eq
  <2> QED
    BY <1>12
<1>14. Claimed(owner, found) = fold[C]
  BY DEF Claimed, InOrder, MapThenFoldSet, C
<1> HIDE DEF fold
<1> DEFINE G == {U \in SUBSET C : fold[U] \in T}
<1>15. fold[{}] = base
  BY <1>13
<1>16. ASSUME NEW U \in SUBSET C, U # {}
       PROVE  fold[U] = Claim(fold[U \ {last[U]}], last[U])
  <2> HIDE DEF Latest
  <2> QED
    BY <1>13, <1>16
<1>17. {} \in G
  BY <1>8, <1>15
<1>18. ASSUME NEW U \in SUBSET C, U # {}, U \ {last[U]} \in G
       PROVE  U \in G
  <2>1. fold[U] = Claim(fold[U \ {last[U]}], last[U])
    BY <1>16, <1>18
  <2>2. last[U] \in C /\ fold[U \ {last[U]}] \in T
    BY <1>7, <1>18 DEF Picks
  <2> QED
    BY <1>9, <1>18, <2>1, <2>2
<1>19. Grows(G, last, C)
  BY <1>17, <1>18 DEF Grows
<1>20. \A U \in SUBSET C : U \in G
  <2> HIDE DEF G, last
  <2> QED
    BY <1>1, <1>7, <1>19, SubsetInduction
<1>21. fold \in [SUBSET C -> T]
  <2>1. fold = [U \in SUBSET C |-> fold[U]]
    BY <1>13
  <2> QED
    BY <1>20, <2>1
<1> HIDE DEF last, R, base, T
<1> QED
  BY <1>6, <1>14, <1>15, <1>16, <1>21 DEF C, R, base, T

Minted(existing, a, g, b) ==
    /\ \A h \in DOMAIN a : h # g => b[h] = a[h]
    /\ b[g] # None =>
        b[g] \notin DOMAIN existing /\ \A h \in DOMAIN a : a[h] # b[g]

LEMMA MintIs ==
    ASSUME NEW existing, NEW found, Grouped(found),
           NEW a \in [found -> IdOrNone], NEW g \in found
    PROVE  /\ MintFor(existing, a, g) \in [found -> IdOrNone]
           /\ Minted(existing, a, g, MintFor(existing, a, g))
<1> DEFINE taken == DOMAIN existing \cup Range(a)
           free == {n \in Attempts : Hash[<<g, n>>] \notin taken}
           new == Mint(g, taken)
<1>1. MintFor(existing, a, g) = [a EXCEPT ![g] = new]
  BY DEF MintFor
<1>2. new = IF free = {} THEN None ELSE Hash[<<g, First(free)>>]
  BY DEF Mint
<1>3. free # {} => First(free) \in free
  <2>1. free \in SUBSET Nat
    BY FeedIdsAssumption
  <2> HIDE DEF free
  <2> QED
    BY <2>1, FirstIs
<1>4. g \in Groups
  BY DEF Grouped
<1>5. new \in IdOrNone /\ (new # None => new \notin taken)
  <2>1. CASE free = {}
    BY <1>2, <2>1 DEF IdOrNone
  <2>2. CASE free # {}
    <3>1. First(free) \in Attempts /\ Hash[<<g, First(free)>>] \notin taken
      BY <1>3, <2>2
    <3>2. Hash[<<g, First(free)>>] \in Ids
      BY <1>4, <3>1 DEF Ids
    <3> HIDE DEF free, taken
    <3> QED
      BY <1>2, <2>2, <3>1, <3>2 DEF IdOrNone
  <2> QED
    BY <2>1, <2>2
<1>6. new \notin taken =>
        new \notin DOMAIN existing /\ \A h \in found : a[h] # new
  BY DEF Range
<1> HIDE DEF new, taken
<1> QED
  BY <1>1, <1>5, <1>6 DEF Minted

LeftOf(claimed) == {g \in DOMAIN claimed : claimed[g] = None}
Sooner(S) == {p \in S \X S : First(p[1]) < First(p[2])}

(* fold: what is minted for the groups that are left, up to any of them,   *)
(* when claimed has been claimed.                                          *)
MintsFold(fold, last, existing, claimed) ==
    LET left == LeftOf(claimed)
    IN  /\ fold \in [SUBSET left -> [DOMAIN claimed -> IdOrNone]]
        /\ Lasts(last, left, Sooner(left))
        /\ fold[{}] = claimed
        /\ \A U \in SUBSET left : U # {} =>
                fold[U] = MintFor(existing, fold[U \ {last[U]}], last[U])

LEMMA MintSteps ==
    ASSUME NEW existing, NEW owner, NEW found, Grouped(found),
           NEW claimed \in [found -> IdOrNone],
           claimed = Claimed(owner, found)
    PROVE  \E fold, last :
                /\ MintsFold(fold, last, existing, claimed)
                /\ fold[LeftOf(claimed)] = AssignIds(existing, owner, found)
<1> DEFINE C == LeftOf(claimed)
           T == [found -> IdOrNone]
           R == Sooner(C)
           Latest(U) == CHOOSE x \in U : \A y \in U \ {x} : First(y) < First(x)
           Eq(f) == f = [U \in SUBSET C |-> IF U = {} THEN claimed
                                ELSE MintFor(existing, f[U \ {Latest(U)}], Latest(U))]
           fold == CHOOSE f : Eq(f)
           last == [U \in SUBSET C |-> Latest(U)]
           step == [d \in T \X C |-> MintFor(existing, d[1], d[2])]
<1>1. claimed \in T
  OBVIOUS
<1>2. DOMAIN claimed = found /\ C = {g \in found : claimed[g] = None}
  BY DEF LeftOf
<1>3. AssignIds(existing, owner, found) = fold[C]
  <2>1. AssignIds(existing, owner, found) =
            InOrder(LAMBDA assigned, g : MintFor(existing, assigned, g),
                    claimed, {g \in found : claimed[g] = None},
                    LAMBDA g, h : First(g) < First(h))
    BY DEF AssignIds
  <2>2. AssignIds(existing, owner, found) =
            InOrder(LAMBDA assigned, g : MintFor(existing, assigned, g),
                    claimed, C, LAMBDA g, h : First(g) < First(h))
    <3> HIDE DEF C
    <3> QED
      BY <1>2, <2>1
  <2> HIDE DEF C
  <2> QED
    BY <2>2 DEF InOrder, MapThenFoldSet
<1> HIDE DEF C
<1>4. C \in SUBSET found /\ IsFiniteSet(C)
  BY <1>2, GroupsAreFinite, FS_Subset
<1>5. /\ \A x, y \in C : x = y \/ <<x, y>> \in R \/ <<y, x>> \in R
      /\ \A x, y, z \in C : <<x, y>> \in R /\ <<y, z>> \in R => <<x, z>> \in R
  <2>1. \A x, y \in C : <<x, y>> \in R <=> First(x) < First(y)
    BY DEF Sooner
  <2>2. \A x \in C : First(x) \in Nat
    BY <1>4, FirstsDiffer
  <2>3. \A x, y \in C : x # y => First(x) # First(y)
    BY <1>4, FirstsDiffer
  <2> HIDE DEF R
  <2>4. ASSUME NEW x \in C, NEW y \in C, x # y
        PROVE  <<x, y>> \in R \/ <<y, x>> \in R
    <3>1. First(x) \in Nat /\ First(y) \in Nat /\ First(x) # First(y)
      BY <2>2, <2>3, <2>4
    <3>2. First(x) < First(y) \/ First(y) < First(x)
      BY <3>1
    <3> QED
      BY <2>1, <3>2
  <2>5. ASSUME NEW x \in C, NEW y \in C, NEW z \in C,
               <<x, y>> \in R, <<y, z>> \in R
        PROVE  <<x, z>> \in R
    <3>1. First(x) \in Nat /\ First(y) \in Nat /\ First(z) \in Nat
      BY <2>2
    <3>2. First(x) < First(y) /\ First(y) < First(z)
      BY <2>1, <2>5
    <3>3. First(x) < First(z)
      BY <3>1, <3>2
    <3> QED
      BY <2>1, <3>3
  <2> QED
    BY <2>4, <2>5
<1>6. \A U \in SUBSET C : U # {} =>
        \E x \in U : \A y \in U \ {x} : <<y, x>> \in R
  <2> HIDE DEF R
  <2> QED
    BY <1>4, <1>5, LastExists
<1>7. ASSUME NEW U \in SUBSET C, U # {}
      PROVE  /\ Latest(U) \in U
             /\ \A y \in U \ {Latest(U)} : <<y, Latest(U)>> \in R
  <2>1. \A x, y \in U : <<y, x>> \in R <=> First(y) < First(x)
    BY DEF Sooner
  <2>2. PICK x \in U : \A y \in U \ {x} : First(y) < First(x)
    <3> HIDE DEF R
    <3> QED
      BY <1>6, <1>7, <2>1
  <2>3. Latest(U) \in U /\ \A y \in U \ {Latest(U)} : First(y) < First(Latest(U))
    BY <2>2
  <2> HIDE DEF Latest, R
  <2> QED
    BY <2>1, <2>3
<1>8. Lasts(last, C, R)
  <2> HIDE DEF Latest, R
  <2> QED
    BY <1>7 DEF Lasts
<1>9. Picks(last, C)
  BY <1>8, LastsPick
<1>10. \A a \in T, g \in C : MintFor(existing, a, g) \in T
  BY <1>4, MintIs
<1>11. step \in [T \X C -> T]
  <2> HIDE DEF T
  <2> QED
    BY <1>10
<1>12. PICK f \in [SUBSET C -> T] : IsFoldOver(f, C, claimed, last, step)
  <2> HIDE DEF T, last, step
  <2> QED
    BY <1>1, <1>4, <1>9, <1>11, FoldExists
<1>13. Eq(f)
  <2> HIDE DEF T, Latest
  <2>1. ASSUME NEW U \in SUBSET C
        PROVE  f[U] = IF U = {} THEN claimed
                      ELSE MintFor(existing, f[U \ {Latest(U)}], Latest(U))
    <3>1. CASE U = {}
      BY <1>12, <3>1 DEF IsFoldOver
    <3>2. CASE U # {}
      <4>1. f[U] = step[<<f[U \ {last[U]}], last[U]>>] /\ last[U] = Latest(U)
        BY <1>12, <3>2 DEF IsFoldOver
      <4>2. Latest(U) \in C /\ f[U \ {Latest(U)}] \in T
        BY <1>7, <3>2
      <4> QED
        BY <3>2, <4>1, <4>2
    <3> QED
      BY <3>1, <3>2
  <2> QED
    BY <2>1
<1>14. Eq(fold)
  <2> HIDE DEF Eq
  <2> QED
    BY <1>13
<1> HIDE DEF fold
<1> DEFINE G == {U \in SUBSET C : fold[U] \in T}
<1>15. fold[{}] = claimed
  BY <1>14
<1>16. ASSUME NEW U \in SUBSET C, U # {}
       PROVE  fold[U] = MintFor(existing, fold[U \ {last[U]}], last[U])
  <2> HIDE DEF Latest
  <2> QED
    BY <1>14, <1>16
<1>17. {} \in G
  BY <1>1, <1>15
<1>18. ASSUME NEW U \in SUBSET C, U # {}, U \ {last[U]} \in G
       PROVE  U \in G
  <2>1. fold[U] = MintFor(existing, fold[U \ {last[U]}], last[U])
    BY <1>16, <1>18
  <2>2. last[U] \in C /\ fold[U \ {last[U]}] \in T
    BY <1>9, <1>18 DEF Picks
  <2> HIDE DEF T, last
  <2> QED
    BY <1>10, <1>18, <2>1, <2>2
<1>19. Grows(G, last, C)
  BY <1>17, <1>18 DEF Grows
<1>20. \A U \in SUBSET C : U \in G
  <2> HIDE DEF G, last
  <2> QED
    BY <1>4, <1>9, <1>19, SubsetInduction
<1>21. fold \in [SUBSET C -> T]
  <2>1. fold = [U \in SUBSET C |-> fold[U]]
    BY <1>14
  <2> QED
    BY <1>20, <2>1
<1>22. MintsFold(fold, last, existing, claimed)
  <2> HIDE DEF last
  <2> QED
    BY <1>8, <1>15, <1>16, <1>21 DEF MintsFold, C
<1> QED
  BY <1>3, <1>22 DEF C

(* The claims follow the members.                                          *)
LEMMA ClaimsFollow ==
    ASSUME NEW owner \in Owning,
           NEW found, Grouped(found)
    PROVE  LET a == Claimed(owner, found)
           IN  /\ a \in [found -> IdOrNone]
               /\ \A g \in found : a[g] # None =>
                    /\ Overlap(owner, g, a[g]) > 0
                    /\ \A h \in found : h # g => a[h] # a[g]
               /\ \A g \in found : \A f :
                    Overlap(owner, g, f) > 0 =>
                        \/ /\ a[g] # None
                           /\ Overlap(owner, g, a[g]) >= Overlap(owner, g, f)
                        \/ \E h \in found :
                            /\ a[h] = f
                            /\ Overlap(owner, h, f) >= Overlap(owner, g, f)
<1> DEFINE C == Candidates(owner, found)
           R == Earlier(owner, C)
           T == [found -> IdOrNone]
           N(g, f) == Overlap(owner, g, f)
<1>1. PICK last : \E fold \in [SUBSET C -> T] :
        /\ Lasts(last, C, R)
        /\ fold[{}] = [g \in found |-> None]
        /\ \A U \in SUBSET C : U # {} =>
                fold[U] = Claim(fold[U \ {last[U]}], last[U])
        /\ fold[C] = Claimed(owner, found)
  BY ClaimSteps
<1>2. PICK fold \in [SUBSET C -> T] :
        /\ Lasts(last, C, R)
        /\ fold[{}] = [g \in found |-> None]
        /\ \A U \in SUBSET C : U # {} =>
                fold[U] = Claim(fold[U \ {last[U]}], last[U])
        /\ fold[C] = Claimed(owner, found)
  BY <1>1
<1>3. \A c \in C : /\ c[1] \in found /\ c[2] \in Ids
                   /\ c = <<c[1], c[2]>> /\ c[2] # None /\ N(c[1], c[2]) > 0
  BY IdsAreNumbers DEF Candidates, Owning, Range
<1>4. \A g \in found : \A f :
        /\ N(g, f) \in Nat
        /\ N(g, f) > 0 <=> \E s \in g \cap DOMAIN owner : owner[s] = f
  BY OverlapIs DEF Grouped, Groups
<1>5. \A g \in found : \A f :
        N(g, f) \in Nat /\ (N(g, f) > 0 => <<g, f>> \in C)
  BY <1>4 DEF Candidates, Range
<1>6. \A c, d \in C : <<c, d>> \in R => N(c[1], c[2]) >= N(d[1], d[2])
  <2>1. \A c, d \in C : <<c, d>> \in R => Before(owner, c, d)
    BY DEF Earlier
  <2>2. ASSUME NEW c \in C, NEW d \in C, Before(owner, c, d)
        PROVE  N(c[1], c[2]) >= N(d[1], d[2])
    <3>1. N(c[1], c[2]) > N(d[1], d[2]) \/ N(c[1], c[2]) = N(d[1], d[2])
      BY <2>2 DEF Before
    <3>2. N(c[1], c[2]) \in Nat /\ N(d[1], d[2]) \in Nat
      BY <1>3, <1>5
    <3> HIDE DEF N
    <3> QED
      BY <3>1, <3>2
  <2> QED
    BY <2>1, <2>2
<1>7. Picks(last, C) /\ IsFiniteSet(C)
  BY <1>2, LastsPick, CandidatesAreFinite
<1> HIDE DEF C, R, N
<1> DEFINE Backed(a, U) == \A g \in found : a[g] # None => <<g, a[g]>> \in U
           Apart(a) == \A g, h \in found :
                        a[g] # None /\ g # h => a[h] # a[g]
           Won(a, d) == \/ a[d[1]] # None /\ N(d[1], a[d[1]]) >= N(d[1], d[2])
                        \/ \E h \in found : a[h] = d[2]
                                            /\ N(h, d[2]) >= N(d[1], d[2])
           Good(U) == /\ Backed(fold[U], U) /\ Apart(fold[U])
                      /\ \A d \in U : Won(fold[U], d)
           G == {U \in SUBSET C : Good(U)}
<1>8. {} \in G
  BY <1>2
<1>9. ASSUME NEW U \in SUBSET C, U # {}, U \ {last[U]} \in G
      PROVE  U \in G
  <2> DEFINE c == last[U]
             V == U \ {c}
             a == fold[V]
             b == fold[U]
  <2>1. c \in U /\ c \in C /\ V \in SUBSET C /\ U = V \cup {c}
    BY <1>7, <1>9 DEF Picks
  <2>2. a \in T /\ b \in T /\ b = Claim(a, c)
    BY <1>2, <1>9, <2>1
  <2>3. Good(V)
    BY <1>9
  <2>4. \A d \in V : N(d[1], d[2]) >= N(c[1], c[2])
    <3>1. \A d \in V : <<d, c>> \in R
      BY <1>2, <1>9 DEF Lasts
    <3> QED
      BY <1>6, <2>1, <3>1
  <2>5. Backed(a, V) /\ Apart(a) /\ \A d \in V : Won(a, d)
    BY <2>3
  <2>6. c[1] \in found /\ c[2] \in Ids /\ c = <<c[1], c[2]>> /\ c[2] # None
    BY <1>3, <2>1
  <2> HIDE DEF a, b, V, c
  <2>7. CASE a[c[1]] = None /\ \A g \in found : a[g] # c[2]
    <3>1. b = [a EXCEPT ![c[1]] = c[2]]
      BY <2>2, <2>7 DEF Claim
    <3>2. b[c[1]] = c[2] /\ \A g \in found : g # c[1] => b[g] = a[g]
      BY <2>2, <2>6, <3>1
    <3>3. Backed(b, U)
      BY <2>1, <2>5, <2>6, <3>2
    <3>4. Apart(b)
      BY <2>5, <2>6, <2>7, <3>2
    <3>5. ASSUME NEW d \in V PROVE Won(b, d)
      <4>1. d \in C /\ d[1] \in found
        BY <1>3, <2>1
      <4>2. CASE a[d[1]] # None /\ N(d[1], a[d[1]]) >= N(d[1], d[2])
        BY <2>7, <3>2, <4>1, <4>2
      <4>3. CASE \E h \in found : a[h] = d[2] /\ N(h, d[2]) >= N(d[1], d[2])
        <5>1. d[2] # None
          BY <1>3, <4>1
        <5>2. PICK h \in found : a[h] = d[2] /\ N(h, d[2]) >= N(d[1], d[2])
          BY <4>3
        <5>3. b[h] = a[h]
          BY <2>7, <3>2, <5>1, <5>2
        <5> QED
          BY <5>2, <5>3
      <4> QED
        BY <2>5, <4>2, <4>3
    <3>6. Won(b, c)
      <4>1. N(c[1], c[2]) >= N(c[1], c[2])
        BY <1>5, <2>6
      <4> QED
        BY <2>6, <3>2, <4>1
    <3> QED
      BY <2>1, <3>3, <3>4, <3>5, <3>6 DEF b
  <2>8. CASE ~(a[c[1]] = None /\ \A g \in found : a[g] # c[2])
    <3>1. b = a
      BY <2>2, <2>8 DEF Claim
    <3>2. Won(a, c)
      <4>1. ASSUME NEW g \in found, a[g] # None
            PROVE  N(g, a[g]) >= N(c[1], c[2])
        <5>1. <<g, a[g]>> \in V
          BY <2>5, <4>1
        <5> QED
          BY <2>4, <5>1
      <4>2. CASE a[c[1]] # None
        BY <2>6, <4>1, <4>2
      <4>3. CASE \E g \in found : a[g] = c[2]
        BY <2>6, <4>1, <4>3
      <4> QED
        BY <2>8, <4>2, <4>3
    <3> QED
      BY <2>1, <2>5, <3>1, <3>2 DEF b
  <2> QED
    BY <2>7, <2>8
<1>10. Grows(G, last, C)
  BY <1>8, <1>9 DEF Grows
<1>11. \A U \in SUBSET C : U \in G
  <2> HIDE DEF G
  <2> QED
    BY <1>7, <1>10, SubsetInduction
<1>12. Good(C)
  BY <1>11
<1> DEFINE a == fold[C]
<1>13. a \in T /\ Backed(a, C) /\ Apart(a) /\ \A d \in C : Won(a, d)
  BY <1>2, <1>12
<1>14. a = Claimed(owner, found)
  BY <1>2
<1> HIDE DEF a
<1>15. ASSUME NEW g \in found, a[g] # None
       PROVE  /\ N(g, a[g]) > 0
              /\ \A h \in found : h # g => a[h] # a[g]
  <2>1. <<g, a[g]>> \in C
    BY <1>13, <1>15
  <2> QED
    BY <1>3, <1>13, <1>15, <2>1
<1>16. ASSUME NEW g \in found, NEW f, N(g, f) > 0
       PROVE  \/ a[g] # None /\ N(g, a[g]) >= N(g, f)
              \/ \E h \in found : a[h] = f /\ N(h, f) >= N(g, f)
  <2>1. <<g, f>> \in C
    BY <1>5, <1>16
  <2>2. Won(a, <<g, f>>)
    BY <1>13, <2>1
  <2> QED
    BY <2>2
<1> QED
  BY <1>13, <1>14, <1>15, <1>16 DEF N

(* The ids follow the members, and no id is given twice.                   *)
LEMMA IdsFollow ==
    ASSUME NEW existing, DOMAIN existing \in SUBSET Ids,
           NEW owner \in Owners(existing),
           NEW found, Grouped(found)
    PROVE  LET a == AssignIds(existing, owner, found)
           IN  /\ a \in [found -> IdOrNone]
               /\ \A g, h \in found : g # h /\ a[g] # None => a[h] # a[g]
               /\ \A g \in found : a[g] \in DOMAIN existing =>
                        Overlap(owner, g, a[g]) > 0
               /\ \A g \in found, f \in DOMAIN existing :
                    Overlap(owner, g, f) > 0 =>
                        \/ /\ a[g] \in DOMAIN existing
                           /\ Overlap(owner, g, a[g]) >= Overlap(owner, g, f)
                        \/ \E h \in found :
                            /\ a[h] = f
                            /\ Overlap(owner, h, f) >= Overlap(owner, g, f)
<1> DEFINE b == Claimed(owner, found)
           C == LeftOf(b)
           T == [found -> IdOrNone]
<1>1. /\ b \in T
      /\ \A g \in found : b[g] # None =>
            /\ b[g] \in DOMAIN existing /\ Overlap(owner, g, b[g]) > 0
            /\ \A h \in found : h # g => b[h] # b[g]
      /\ \A g \in found, f \in DOMAIN existing :
            Overlap(owner, g, f) > 0 =>
                \/ /\ b[g] # None
                   /\ Overlap(owner, g, b[g]) >= Overlap(owner, g, f)
                \/ \E h \in found :
                    b[h] = f /\ Overlap(owner, h, f) >= Overlap(owner, g, f)
  <2>1. owner \in Owning /\ Range(owner) \subseteq DOMAIN existing
    BY OwnersOwn
  <2>2. /\ b \in T
        /\ \A g \in found : b[g] # None =>
            /\ Overlap(owner, g, b[g]) > 0
            /\ \A h \in found : h # g => b[h] # b[g]
        /\ \A g \in found : \A f :
            Overlap(owner, g, f) > 0 =>
                \/ /\ b[g] # None
                   /\ Overlap(owner, g, b[g]) >= Overlap(owner, g, f)
                \/ \E h \in found :
                    b[h] = f /\ Overlap(owner, h, f) >= Overlap(owner, g, f)
    BY <2>1, ClaimsFollow
  <2>3. ASSUME NEW g \in found, b[g] # None PROVE b[g] \in DOMAIN existing
    <3>1. g \in SUBSET Sources
      BY DEF Grouped, Groups
    <3>2. \E s \in g \cap DOMAIN owner : owner[s] = b[g]
      BY <2>1, <2>2, <2>3, <3>1, OverlapIs
    <3> QED
      BY <2>1, <3>2 DEF Range
  <2> HIDE DEF b
  <2> QED
    BY <2>2, <2>3
<1>2. PICK fold, last : /\ MintsFold(fold, last, existing, b)
                        /\ fold[C] = AssignIds(existing, owner, found)
  <2>1. b \in [found -> IdOrNone]
    BY <1>1
  <2> QED
    BY <2>1, MintSteps
<1>3. /\ fold \in [SUBSET C -> T]
      /\ Lasts(last, C, Sooner(C))
      /\ fold[{}] = b
      /\ \A U \in SUBSET C : U # {} =>
                fold[U] = MintFor(existing, fold[U \ {last[U]}], last[U])
      /\ fold[C] = AssignIds(existing, owner, found)
  <2>1. DOMAIN b = found
    BY <1>1
  <2> HIDE DEF b
  <2> QED
    BY <1>2, <2>1 DEF MintsFold
<1>4. Picks(last, C) /\ IsFiniteSet(C) /\ C \in SUBSET found
  <2>1. C \in SUBSET found
    BY <1>1 DEF LeftOf
  <2> HIDE DEF C
  <2> QED
    BY <1>3, <2>1, LastsPick, GroupsAreFinite, FS_Subset
<1>5. \A g \in C : b[g] = None
  BY DEF LeftOf
<1> HIDE DEF b, C
<1> DEFINE Kept(a) == \A g \in found : b[g] # None => a[g] = b[g]
           New(a) == \A g \in found : b[g] = None /\ a[g] # None =>
                            a[g] \notin DOMAIN existing
           Apart(a) == \A g, h \in found : g # h /\ a[g] # None => a[h] # a[g]
           Good(a) == Kept(a) /\ New(a) /\ Apart(a)
           G == {U \in SUBSET C : Good(fold[U])}
<1>6. {} \in G
  BY <1>1, <1>3
<1>7. ASSUME NEW U \in SUBSET C, U # {}, U \ {last[U]} \in G
      PROVE  U \in G
  <2> DEFINE c == last[U]
             V == U \ {c}
             a == fold[V]
             e == fold[U]
  <2>1. c \in C /\ c \in found /\ b[c] = None /\ V \in SUBSET C
    BY <1>4, <1>5, <1>7 DEF Picks
  <2>2. a \in T /\ e \in T /\ e = MintFor(existing, a, c)
    BY <1>3, <1>7, <2>1
  <2>3. Good(a)
    BY <1>7
  <2> HIDE DEF a, e, V, c
  <2>4. /\ \A h \in found : h # c => e[h] = a[h]
        /\ e[c] # None =>
            e[c] \notin DOMAIN existing /\ \A h \in found : a[h] # e[c]
    <3>1. Minted(existing, a, c, e)
      BY <2>1, <2>2, MintIs
    <3>2. DOMAIN a = found
      BY <2>2
    <3> QED
      BY <3>1, <3>2 DEF Minted
  <2>5. Kept(e)
    BY <2>1, <2>3, <2>4
  <2>6. New(e)
    BY <2>1, <2>3, <2>4
  <2>7. Apart(e)
    <3> SUFFICES ASSUME NEW g \in found, NEW h \in found, g # h, e[g] # None
                 PROVE  e[h] # e[g]
      OBVIOUS
    <3>1. CASE g = c
      BY <2>4, <3>1
    <3>2. CASE h = c
      BY <2>4, <3>2
    <3>3. CASE g # c /\ h # c
      BY <2>3, <2>4, <3>3
    <3> QED
      BY <3>1, <3>2, <3>3
  <2> QED
    BY <2>5, <2>6, <2>7 DEF e
<1>8. Grows(G, last, C)
  BY <1>6, <1>7 DEF Grows
<1>9. \A U \in SUBSET C : U \in G
  <2> HIDE DEF G
  <2> QED
    BY <1>4, <1>8, SubsetInduction
<1> DEFINE a == AssignIds(existing, owner, found)
<1>10. a \in T /\ Kept(a) /\ New(a) /\ Apart(a)
  BY <1>3, <1>9
<1> HIDE DEF a
<1>11. ASSUME NEW g \in found, a[g] \in DOMAIN existing
       PROVE  Overlap(owner, g, a[g]) > 0
  <2>1. a[g] # None
    BY <1>11, IdsAreNumbers
  <2>2. b[g] # None
    BY <1>10, <1>11, <2>1
  <2>3. a[g] = b[g]
    BY <1>10, <2>2
  <2> QED
    BY <1>1, <2>2, <2>3
<1>12. ASSUME NEW g \in found, NEW f \in DOMAIN existing,
              Overlap(owner, g, f) > 0
       PROVE  \/ /\ a[g] \in DOMAIN existing
                 /\ Overlap(owner, g, a[g]) >= Overlap(owner, g, f)
              \/ \E h \in found :
                    a[h] = f /\ Overlap(owner, h, f) >= Overlap(owner, g, f)
  <2>1. CASE b[g] # None /\ Overlap(owner, g, b[g]) >= Overlap(owner, g, f)
    <3>1. a[g] = b[g] /\ b[g] \in DOMAIN existing
      BY <1>1, <1>10, <2>1
    <3> QED
      BY <2>1, <3>1
  <2>2. CASE \E h \in found :
                b[h] = f /\ Overlap(owner, h, f) >= Overlap(owner, g, f)
    <3>1. PICK h \in found :
                b[h] = f /\ Overlap(owner, h, f) >= Overlap(owner, g, f)
      BY <2>2
    <3>2. b[h] # None
      BY <3>1, IdsAreNumbers
    <3>3. a[h] = b[h]
      BY <1>10, <3>2
    <3> QED
      BY <3>1, <3>3
  <2> QED
    BY <1>1, <1>12, <2>1, <2>2
<1> QED
  BY <1>10, <1>11, <1>12 DEF a

-----------------------------------------------------------------------------
(* The invariant of the types.  The groups are those of the catalog, as    *)
(* long as the run is at them, and no two have an id in common.            *)

Distinct(a) == \A g, h \in DOMAIN a : g # h => a[g] # a[h]
Found == Group(catalog.present, catalog.links)

Catalogued ==
    /\ catalog.links \in Seq((SUBSET catalog.present) \ {{}})
    /\ Present = catalog.present
InStep == phase \in {"loaded", "persisted"} => groups = Found
LateIsRun ==
    /\ DOMAIN late = {"phase", "groups", "ids"}
    /\ late.phase \in {"none", "recorded", "loaded", "persisted"}

TypeInv ==
    /\ TypeOK /\ Catalogued /\ InStep /\ LateIsRun
    /\ Grouped(groups) /\ Grouped(late.groups)
    /\ Distinct(ids) /\ Distinct(late.ids)

LEMMA FoundIs ==
    ASSUME TypeOK, Catalogued
    PROVE  /\ Partitions(Found, catalog.present) /\ Grouped(Found)
           /\ Connects(catalog.links, Found)
<1> DEFINE P == catalog.present
           links == catalog.links
<1>1. P \in SUBSET Nat /\ IsFiniteSet(P) /\ P \in SUBSET Sources
  <2>1. P \in SUBSET Sources
    BY DEF TypeOK
  <2> HIDE DEF P
  <2> QED
    BY <2>1, SourcesAreNumbers, FS_Subset
<1>2. links \in Seq((SUBSET P) \ {{}})
  BY DEF Catalogued
<1>3. Partitions(Group(P, links), P) /\ Connects(links, Group(P, links))
  <2> HIDE DEF P, links
  <2> QED
    BY <1>1, <1>2, GroupConnects
<1>4. Grouped(Found)
  BY <1>1, <1>3 DEF Found, Partitions, Grouped, Groups
<1> QED
  BY <1>3, <1>4 DEF Found

LEMMA ExistingIs ==
    /\ DOMAIN Existing = DOMAIN feeds
    /\ \A f \in DOMAIN feeds : Existing[f] = feeds[f].members
  BY DEF Existing

(* Ids that are complete are ids, and each group has its own.              *)
LEMMA CompleteIds ==
    ASSUME NEW existing, DOMAIN existing \in SUBSET Ids,
           NEW owner \in Owners(existing), NEW found, Grouped(found),
           NEW a, a = AssignIds(existing, owner, found), Complete(a)
    PROVE  a \in [found -> Ids] /\ Distinct(a)
<1>1. /\ a \in [found -> IdOrNone]
      /\ \A g, h \in found : g # h /\ a[g] # None => a[h] # a[g]
  BY IdsFollow
<1>2. \A g \in found : a[g] # None
  BY <1>1 DEF Complete
<1>3. a \in [found -> Ids]
  BY <1>1, <1>2 DEF IdOrNone
<1> QED
  BY <1>1, <1>2, <1>3 DEF Distinct

-----------------------------------------------------------------------------
(* What Save makes of the feeds and of their members' home                 *)

FeedRow == [members: SUBSET Sources, present: BOOLEAN, lastSeen: Days]

Saves(found, assigned) ==
    /\ DOMAIN feeds' = DOMAIN feeds \cup Range(assigned)
    /\ \A g \in found :
        feeds'[assigned[g]] =
            [members |-> g \cup (IF assigned[g] \in DOMAIN feeds
                                 THEN Remaining(assigned[g]) ELSE {}),
             present |-> TRUE, lastSeen |-> today]
    /\ \A f \in DOMAIN feeds : f \notin Range(assigned) =>
        feeds'[f] = [members |-> Remaining(f), present |-> FALSE,
                     lastSeen |-> feeds[f].lastSeen]
    /\ home' = [s \in Sources |-> home'[s]]
    /\ \A g \in found : \A s \in g :
        home'[s] = [feed |-> assigned[g], group |-> g, day |-> today]
    /\ \A s \in Sources : s \notin UNION found => home'[s] = home[s]
    /\ \A s \in UNION found : sources[s] # None

LEMMA SaveSaves ==
    ASSUME \A f \in DOMAIN feeds : feeds[f] \in FeedRow,
           NEW found, Grouped(found),
           NEW assigned \in [found -> Ids], Distinct(assigned),
           Save(found, assigned)
    PROVE  Saves(found, assigned) /\ DOMAIN was' = DOMAIN feeds'
<1> DEFINE current == {assigned[g] : g \in found}
           groupOf(f) == CHOOSE g \in found : assigned[g] = f
           groupWith(s) == CHOOSE h \in found : s \in h
           rest(f) == IF f \in DOMAIN feeds THEN Remaining(f) ELSE {}
<1>1. current = Range(assigned)
  BY DEF Range
<1>2. \A g \in found : groupOf(assigned[g]) = g
  <2> SUFFICES ASSUME NEW g \in found PROVE groupOf(assigned[g]) = g
    OBVIOUS
  <2>1. groupOf(assigned[g]) \in found /\ assigned[groupOf(assigned[g])] = assigned[g]
    OBVIOUS
  <2> QED
    BY <2>1 DEF Distinct
<1>3. \A g \in found : \A s \in g : groupWith(s) = g
  <2> SUFFICES ASSUME NEW g \in found, NEW s \in g PROVE groupWith(s) = g
    OBVIOUS
  <2>1. groupWith(s) \in found /\ s \in groupWith(s)
    OBVIOUS
  <2> QED
    BY <2>1 DEF Grouped
<1>4. /\ feeds' = [f \in DOMAIN feeds \cup current |->
            IF f \in current
            THEN [members |-> rest(f) \cup groupOf(f),
                  present |-> TRUE, lastSeen |-> today]
            ELSE [feeds[f] EXCEPT !.members = rest(f), !.present = FALSE]]
      /\ home' = [s \in Sources |->
            IF s \in UNION found
            THEN [feed |-> assigned[groupWith(s)], group |-> groupWith(s),
                  day |-> today]
            ELSE home[s]]
      /\ DOMAIN was' = DOMAIN feeds \cup current
      /\ \A s \in UNION found : sources[s] # None
  BY DEF Save
<1> HIDE DEF groupOf, groupWith
<1>5. ASSUME NEW g \in found
      PROVE  feeds'[assigned[g]] =
                [members |-> g \cup (IF assigned[g] \in DOMAIN feeds
                                 THEN Remaining(assigned[g]) ELSE {}),
                 present |-> TRUE, lastSeen |-> today]
  <2>1. assigned[g] \in current
    OBVIOUS
  <2> HIDE DEF current
  <2>2. feeds'[assigned[g]] =
            [members |-> rest(assigned[g]) \cup g,
             present |-> TRUE, lastSeen |-> today]
    BY <1>2, <1>4, <2>1
  <2> QED
    BY <2>2
<1>6. ASSUME NEW f \in DOMAIN feeds, f \notin Range(assigned)
      PROVE  feeds'[f] = [members |-> Remaining(f), present |-> FALSE,
                          lastSeen |-> feeds[f].lastSeen]
  <2>1. feeds'[f] = [feeds[f] EXCEPT !.members = Remaining(f), !.present = FALSE]
    BY <1>1, <1>4, <1>6
  <2> QED
    BY <2>1 DEF FeedRow
<1>7. ASSUME NEW g \in found, NEW s \in g
      PROVE  home'[s] = [feed |-> assigned[g], group |-> g, day |-> today]
  <2>1. s \in UNION found /\ s \in Sources
    BY DEF Grouped, Groups
  <2> QED
    BY <1>3, <1>4, <2>1
<1>8. DOMAIN feeds' = DOMAIN feeds \cup Range(assigned) /\ DOMAIN was' = DOMAIN feeds'
  BY <1>1, <1>4
<1>9. /\ home' = [s \in Sources |-> home'[s]]
      /\ \A s \in Sources : s \notin UNION found => home'[s] = home[s]
      /\ \A s \in UNION found : sources[s] # None
  BY <1>4
<1> HIDE DEF current, rest
<1> QED
  BY <1>5, <1>6, <1>7, <1>8, <1>9 DEF Saves

LEMMA SaveTypes ==
    ASSUME TypeOK, NEW found, Grouped(found),
           NEW assigned \in [found -> Ids], Saves(found, assigned)
    PROVE  /\ DOMAIN feeds' \subseteq Ids
           /\ \A f \in DOMAIN feeds' : feeds'[f] \in FeedRow
           /\ home' \in [Sources -> Home \cup {None}]
<1>1. \A f \in DOMAIN feeds :
        feeds[f] \in FeedRow /\ Remaining(f) \in SUBSET Sources
  BY DEF TypeOK, FeedRow, Remaining
<1>2. DOMAIN feeds' \subseteq Ids
  BY DEF Saves, Range, TypeOK
<1>3. today \in Days /\ home \in [Sources -> Home \cup {None}]
  BY DEF TypeOK
<1>4. \A g \in found : g \in Groups /\ g \in SUBSET Sources
  BY DEF Grouped, Groups
<1>5. ASSUME NEW f \in DOMAIN feeds' PROVE feeds'[f] \in FeedRow
  <2>1. CASE f \in Range(assigned)
    <3>1. PICK g \in found : f = assigned[g]
      BY <2>1 DEF Range
    <3>2. feeds'[f] =
            [members |-> g \cup (IF f \in DOMAIN feeds
                                 THEN Remaining(f) ELSE {}),
             present |-> TRUE, lastSeen |-> today]
      BY <3>1 DEF Saves
    <3>3. g \cup (IF f \in DOMAIN feeds THEN Remaining(f) ELSE {}) \in SUBSET Sources
      BY <1>1, <1>4
    <3> QED
      BY <1>3, <3>2, <3>3 DEF FeedRow
  <2>2. CASE f \notin Range(assigned)
    <3>1. f \in DOMAIN feeds
      BY <2>2 DEF Saves
    <3>2. feeds'[f] = [members |-> Remaining(f), present |-> FALSE,
                       lastSeen |-> feeds[f].lastSeen]
      BY <2>2, <3>1 DEF Saves
    <3>3. feeds[f].lastSeen \in Days
      BY <1>1, <3>1 DEF FeedRow
    <3> QED
      BY <1>1, <3>1, <3>2, <3>3 DEF FeedRow
  <2> QED
    BY <2>1, <2>2
<1>6. ASSUME NEW s \in Sources PROVE home'[s] \in Home \cup {None}
  <2>1. CASE s \in UNION found
    <3>1. PICK g \in found : s \in g
      BY <2>1
    <3>2. home'[s] = [feed |-> assigned[g], group |-> g, day |-> today]
      BY <3>1 DEF Saves
    <3> QED
      BY <1>3, <1>4, <3>1, <3>2 DEF Home
  <2>2. CASE s \notin UNION found
    BY <1>3, <2>2 DEF Saves
  <2> QED
    BY <2>1, <2>2
<1>7. home' \in [Sources -> Home \cup {None}]
  BY <1>6 DEF Saves
<1> QED
  BY <1>2, <1>5, <1>7

LEMMA InitTypes == Init => TypeInv
<1> SUFFICES ASSUME Init PROVE TypeInv
  OBVIOUS
<1>1. 0 \in Days /\ MaxRuns \in Nat
  BY FeedIdsAssumption DEF Days
<1>2. TypeOK
  BY <1>1 DEF Init, TypeOK, NoFeeds, NoRun, Groups
<1>3. Present = {}
  BY DEF Init, Present
<1>4. Catalogued
  BY <1>3 DEF Init, Catalogued
<1>5. InStep /\ LateIsRun
  BY DEF Init, InStep, LateIsRun, NoRun
<1>6. Grouped(groups) /\ Grouped(late.groups) /\ Distinct(ids) /\ Distinct(late.ids)
  BY DEF Init, Grouped, Distinct, NoFeeds, NoRun
<1> QED
  BY <1>2, <1>4, <1>5, <1>6 DEF TypeInv

LEMMA NewRunIs ==
    ASSUME TypeOK, runs < MaxRuns, NEW c \in Catalogs[runs + 1], NewRun(c)
    PROVE  /\ runs' \in 0 .. MaxRuns /\ runs' > 0
           /\ sources' \in [Sources -> Row \cup {None}]
           /\ catalog'.present \subseteq Sources
           /\ Catalogued'
<1>1. runs \in 0 .. MaxRuns /\ runs + 1 \in Runs
  <2>1. runs \in 0 .. MaxRuns /\ MaxRuns \in Nat
    BY FeedIdsAssumption DEF TypeOK
  <2> QED
    BY <2>1 DEF Runs
<1>2. c.present \subseteq Sources /\ c.links \in Seq((SUBSET c.present) \ {{}})
  BY <1>1, FeedIdsAssumption
<1>3. runs' = runs + 1 /\ catalog' = c
  BY DEF NewRun
<1>4. runs' \in 0 .. MaxRuns /\ runs' > 0
  BY <1>1, <1>3 DEF Runs
<1>5. today \in Days /\ sources \in [Sources -> Row \cup {None}]
  BY DEF TypeOK
<1>6. ASSUME NEW s \in Sources
      PROVE  /\ RowAfter(s, c) \in Row \cup {None}
             /\ s \in c.present <=>
                    RowAfter(s, c) # None /\ RowAfter(s, c).present
  <2>1. CASE s \in c.present
    <3>1. RowAfter(s, c) = [present |-> TRUE, lastSeen |-> today]
      BY <2>1 DEF RowAfter
    <3>2. RowAfter(s, c) \in Row
      BY <1>5, <3>1 DEF Row
    <3>3. RowAfter(s, c) # None
      BY <3>2, NoneAssumption
    <3>4. RowAfter(s, c).present = TRUE
      BY <3>1
    <3>5. RowAfter(s, c) # None /\ RowAfter(s, c).present
      BY <3>3, <3>4, Zenon
    <3> QED
      BY <2>1, <3>2, <3>5, Zenon
  <2>2. CASE s \notin c.present /\ sources[s] = None
    BY <2>2 DEF RowAfter
  <2>3. CASE s \notin c.present /\ sources[s] # None
    <3>1. RowAfter(s, c) = [sources[s] EXCEPT !.present = FALSE]
      BY <2>3 DEF RowAfter
    <3>2. sources[s] \in Row
      BY <1>5, <2>3
    <3>3. RowAfter(s, c) \in Row /\ RowAfter(s, c).present = FALSE
      BY <3>1, <3>2 DEF Row
    <3> QED
      BY <2>3, <3>3
  <2> QED
    BY <2>1, <2>2, <2>3
<1>7. sources' = [s \in Sources |-> RowAfter(s, c)]
  BY DEF NewRun
<1>8. sources' \in [Sources -> Row \cup {None}]
  BY <1>6, <1>7
<1>9. Present' = c.present
  <2>1. Present' = {s \in Sources : sources'[s] # None /\ sources'[s].present}
    BY DEF Present
  <2>2. \A s \in Sources : sources'[s] = RowAfter(s, c)
    BY <1>7
  <2> QED
    BY <1>2, <1>6, <2>1, <2>2
<1> QED
  BY <1>2, <1>3, <1>4, <1>8, <1>9 DEF Catalogued

LEMMA NextDayTypes == TypeInv /\ NextDay => TypeInv'
<1> SUFFICES ASSUME TypeInv, NextDay PROVE TypeInv'
  OBVIOUS
<1>1. today' \in Days
  BY FeedIdsAssumption DEF TypeInv, TypeOK, NextDay, Days
<1>2. TypeOK'
  BY <1>1 DEF TypeInv, TypeOK, NextDay
<1>3. Present' = Present
  BY DEF NextDay, Present
<1>4. Catalogued' /\ InStep' /\ LateIsRun'
  BY <1>3 DEF TypeInv, Catalogued, InStep, LateIsRun, NextDay
<1>5. Grouped(groups)' /\ Grouped(late.groups)' /\ Distinct(ids)' /\ Distinct(late.ids)'
  BY DEF TypeInv, NextDay
<1> QED
  BY <1>2, <1>4, <1>5 DEF TypeInv

LEMMA RecordTypes ==
    ASSUME TypeInv, runs < MaxRuns, NEW c \in Catalogs[runs + 1], Record(c)
    PROVE  TypeInv'
<1>1. NewRun(c) /\ late' = late /\ overtaker' = overtaker
  BY DEF Record
<1>2. /\ runs' \in 0 .. MaxRuns
      /\ sources' \in [Sources -> Row \cup {None}]
      /\ catalog'.present \subseteq Sources
      /\ Catalogued'
  BY <1>1, NewRunIs DEF TypeInv
<1>3. /\ today' = today /\ phase' = "recorded" /\ feeds' = feeds
      /\ groups' = groups /\ ids' = ids /\ home' = home /\ was' = was
  BY <1>1 DEF NewRun
<1>4. TypeOK'
  BY <1>1, <1>2, <1>3 DEF TypeInv, TypeOK
<1>5. InStep' /\ LateIsRun'
  BY <1>1, <1>3 DEF TypeInv, InStep, LateIsRun
<1>6. Grouped(groups)' /\ Grouped(late.groups)' /\ Distinct(ids)' /\ Distinct(late.ids)'
  BY <1>1, <1>3 DEF TypeInv
<1> QED
  BY <1>2, <1>4, <1>5, <1>6 DEF TypeInv

(* The run that is overtaken goes on with the groups of its own catalog    *)
(* and, if it has loaded, with the ids it gave them.                       *)
LEMMA OvertakeTypes ==
    ASSUME TypeInv, runs < MaxRuns, NEW c \in Catalogs[runs + 1], Overtake(c)
    PROVE  TypeInv'
<1>1. /\ NewRun(c) /\ overtaker' = runs' /\ phase \in {"recorded", "loaded"}
      /\ late' = [phase |-> phase, groups |-> Found,
                  ids |-> IF phase = "loaded" THEN ids ELSE NoFeeds]
  BY DEF Overtake, Found
<1>2. /\ runs' \in 0 .. MaxRuns /\ runs' > 0
      /\ sources' \in [Sources -> Row \cup {None}]
      /\ catalog'.present \subseteq Sources
      /\ Catalogued'
  BY <1>1, NewRunIs DEF TypeInv
<1>3. /\ today' = today /\ phase' = "recorded" /\ feeds' = feeds
      /\ groups' = groups /\ ids' = ids /\ home' = home /\ was' = was
  BY <1>1 DEF NewRun
<1>4. Grouped(Found)
  BY FoundIs DEF TypeInv
<1>5. /\ late'.phase = phase /\ late'.groups = Found
      /\ late'.ids = IF phase = "loaded" THEN ids ELSE NoFeeds
      /\ DOMAIN late' = {"phase", "groups", "ids"}
  BY <1>1
<1>6. /\ late'.ids \in [IF phase = "loaded" THEN Found ELSE {} -> Ids]
      /\ Distinct(late'.ids)
  <2>1. CASE phase = "loaded"
    BY <1>5, <2>1 DEF TypeInv, TypeOK, InStep
  <2>2. CASE phase # "loaded"
    BY <1>5, <2>2 DEF NoFeeds, Distinct
  <2> QED
    BY <2>1, <2>2
<1>7. Found \subseteq Groups
  BY <1>4 DEF Grouped
<1>8. TypeOK'
  <2> HIDE DEF Found
  <2> QED
    BY <1>1, <1>2, <1>3, <1>5, <1>6, <1>7 DEF TypeInv, TypeOK
<1>9. InStep' /\ LateIsRun'
  BY <1>1, <1>3, <1>5 DEF InStep, LateIsRun
<1>10. Grouped(groups)' /\ Grouped(late.groups)' /\ Distinct(ids)' /\ Distinct(late.ids)'
  BY <1>3, <1>4, <1>5, <1>6 DEF TypeInv
<1> QED
  BY <1>2, <1>8, <1>9, <1>10 DEF TypeInv

LEMMA LoadTypes == TypeInv /\ Load => TypeInv'
<1> SUFFICES ASSUME TypeInv, Load PROVE TypeInv'
  OBVIOUS
<1>1. /\ groups' = Found /\ Complete(ids') /\ phase' = "loaded"
      /\ today' = today /\ runs' = runs /\ sources' = sources
      /\ catalog' = catalog /\ feeds' = feeds /\ late' = late
      /\ overtaker' = overtaker /\ home' = home /\ was' = was
  BY DEF Load, Found
<1>2. PICK owner \in Owners(Existing) : ids' = AssignIds(Existing, owner, Found)
  BY DEF Load, Found
<1>3. DOMAIN Existing \in SUBSET Ids
  BY ExistingIs DEF TypeInv, TypeOK
<1>4. Grouped(Found)
  BY FoundIs DEF TypeInv
<1>5. ids' \in [Found -> Ids] /\ Distinct(ids')
  <2> HIDE DEF Found
  <2> QED
    BY <1>1, <1>2, <1>3, <1>4, CompleteIds
<1>6. Found \subseteq Groups
  BY <1>4 DEF Grouped
<1>7. TypeOK'
  <2> HIDE DEF Found
  <2> QED
    BY <1>1, <1>5, <1>6 DEF TypeInv, TypeOK
<1>8. Present' = Present
  BY <1>1 DEF Present
<1>9. Catalogued' /\ LateIsRun'
  BY <1>1, <1>8 DEF TypeInv, Catalogued, LateIsRun
<1>10. InStep'
  BY <1>1 DEF InStep, Found
<1>11. Grouped(groups)' /\ Grouped(late.groups)' /\ Distinct(ids)' /\ Distinct(late.ids)'
  BY <1>1, <1>4, <1>5 DEF TypeInv
<1> QED
  BY <1>7, <1>9, <1>10, <1>11 DEF TypeInv

LEMMA LateLoadTypes == TypeInv /\ LateLoad => TypeInv'
<1> SUFFICES ASSUME TypeInv, LateLoad PROVE TypeInv'
  OBVIOUS
<1>1. /\ late.phase = "recorded" /\ Complete(late'.ids)
      /\ phase' = phase /\ groups' = groups /\ ids' = ids
      /\ today' = today /\ runs' = runs /\ sources' = sources
      /\ catalog' = catalog /\ feeds' = feeds
      /\ overtaker' = overtaker /\ home' = home /\ was' = was
  BY DEF LateLoad
<1>2. PICK owner \in Owners(Existing) :
        late' = [late EXCEPT !.phase = "loaded",
                             !.ids = AssignIds(Existing, owner, late.groups)]
  BY DEF LateLoad
<1>3. DOMAIN Existing \in SUBSET Ids
  BY ExistingIs DEF TypeInv, TypeOK
<1>4. DOMAIN late = {"phase", "groups", "ids"} /\ Grouped(late.groups)
  BY DEF TypeInv, LateIsRun
<1>5. /\ late'.phase = "loaded" /\ late'.groups = late.groups
      /\ late'.ids = AssignIds(Existing, owner, late.groups)
      /\ DOMAIN late' = {"phase", "groups", "ids"}
  BY <1>2, <1>4
<1>6. late'.ids \in [late.groups -> Ids] /\ Distinct(late'.ids)
  BY <1>1, <1>3, <1>4, <1>5, CompleteIds
<1>7. late # NoRun
  BY <1>1 DEF NoRun
<1>8. TypeOK'
  BY <1>1, <1>5, <1>6, <1>7 DEF TypeInv, TypeOK
<1>9. Present' = Present
  BY <1>1 DEF Present
<1>10. Catalogued' /\ LateIsRun'
  BY <1>1, <1>5, <1>9 DEF TypeInv, Catalogued, LateIsRun
<1>11. InStep'
  BY <1>1 DEF TypeInv, InStep, Found
<1>12. Grouped(groups)' /\ Grouped(late.groups)' /\ Distinct(ids)' /\ Distinct(late.ids)'
  BY <1>1, <1>4, <1>5, <1>6 DEF TypeInv
<1> QED
  BY <1>8, <1>10, <1>11, <1>12 DEF TypeInv

(* What either run saves.                                                  *)
LEMMA SaveIs ==
    ASSUME TypeInv, NEW found, Grouped(found),
           NEW assigned \in [found -> Ids], Distinct(assigned),
           Save(found, assigned)
    PROVE  /\ Saves(found, assigned) /\ DOMAIN was' = DOMAIN feeds'
           /\ DOMAIN feeds' \subseteq Ids
           /\ \A f \in DOMAIN feeds' : feeds'[f] \in FeedRow
           /\ home' \in [Sources -> Home \cup {None}]
           /\ UNCHANGED <<today, runs, sources, catalog, groups, ids, overtaker>>
           /\ Present' = Present
<1>1. \A f \in DOMAIN feeds : feeds[f] \in FeedRow
  BY DEF TypeInv, TypeOK, FeedRow
<1>2. Saves(found, assigned) /\ DOMAIN was' = DOMAIN feeds'
  BY <1>1, SaveSaves
<1>3. UNCHANGED <<today, runs, sources, catalog, groups, ids, overtaker>>
  BY DEF Save
<1>4. Present' = Present
  BY <1>3 DEF Present
<1> QED
  BY <1>2, <1>3, <1>4, SaveTypes DEF TypeInv

LEMMA PersistTypes == TypeInv /\ Persist => TypeInv'
<1> SUFFICES ASSUME TypeInv, Persist PROVE TypeInv'
  OBVIOUS
<1>1. /\ Save(groups, ids) /\ phase = "loaded" /\ phase' = "persisted"
      /\ late' = NoRun \/ late' = late
  BY DEF Persist
<1>2. /\ DOMAIN was' = DOMAIN feeds'
      /\ DOMAIN feeds' \subseteq Ids
      /\ \A f \in DOMAIN feeds' : feeds'[f] \in FeedRow
      /\ home' \in [Sources -> Home \cup {None}]
      /\ UNCHANGED <<today, runs, sources, catalog, groups, ids, overtaker>>
      /\ Present' = Present
  BY <1>1, SaveIs DEF TypeInv, TypeOK
<1>3. TypeOK /\ LateIsRun /\ Grouped(late.groups) /\ Distinct(late.ids)
  BY DEF TypeInv
<1>4. /\ late'.groups \subseteq Groups
      /\ late'.ids \in [IF late'.phase = "loaded" THEN late'.groups ELSE {} -> Ids]
      /\ late' # NoRun => overtaker > 0
      /\ LateIsRun' /\ Grouped(late'.groups) /\ Distinct(late'.ids)
  <2>1. CASE late' = late
    BY <1>3, <2>1 DEF TypeOK, LateIsRun
  <2>2. CASE late' = NoRun
    BY <2>2 DEF NoRun, NoFeeds, LateIsRun, Grouped, Distinct
  <2> QED
    BY <1>1, <2>1, <2>2
<1>5. TypeOK'
  BY <1>1, <1>2, <1>3, <1>4 DEF TypeOK, FeedRow
<1>6. Catalogued'
  BY <1>2 DEF TypeInv, Catalogued
<1>7. InStep'
  BY <1>1, <1>2 DEF TypeInv, InStep, Found
<1> QED
  BY <1>2, <1>4, <1>5, <1>6, <1>7 DEF TypeInv

LEMMA LatePersistTypes == TypeInv /\ LatePersist => TypeInv'
<1> SUFFICES ASSUME TypeInv, LatePersist PROVE TypeInv'
  OBVIOUS
<1>1. /\ Save(late.groups, late.ids) /\ late.phase = "loaded" /\ phase' = phase
      /\ late' = [NoRun EXCEPT !.phase = "persisted"]
  BY DEF LatePersist
<1>2. late.ids \in [late.groups -> Ids]
  BY <1>1 DEF TypeInv, TypeOK
<1>3. /\ DOMAIN was' = DOMAIN feeds'
      /\ DOMAIN feeds' \subseteq Ids
      /\ \A f \in DOMAIN feeds' : feeds'[f] \in FeedRow
      /\ home' \in [Sources -> Home \cup {None}]
      /\ UNCHANGED <<today, runs, sources, catalog, groups, ids, overtaker>>
      /\ Present' = Present
  BY <1>1, <1>2, SaveIs DEF TypeInv
<1>4. late # NoRun
  BY <1>1 DEF NoRun
<1>5. /\ late'.phase = "persisted" /\ late'.groups = {} /\ late'.ids = NoFeeds
      /\ DOMAIN late' = {"phase", "groups", "ids"}
  BY <1>1 DEF NoRun
<1>6. /\ late'.ids \in [IF late'.phase = "loaded" THEN late'.groups ELSE {} -> Ids]
      /\ LateIsRun' /\ Grouped(late'.groups) /\ Distinct(late'.ids)
  BY <1>5 DEF NoFeeds, LateIsRun, Grouped, Distinct
<1>7. TypeOK'
  BY <1>1, <1>3, <1>4, <1>5, <1>6 DEF TypeInv, TypeOK, FeedRow
<1>8. Catalogued'
  BY <1>3 DEF TypeInv, Catalogued
<1>9. InStep'
  BY <1>1, <1>3 DEF TypeInv, InStep, Found
<1> QED
  BY <1>3, <1>6, <1>7, <1>8, <1>9 DEF TypeInv

(* What is deleted: no source that is present, nor its memberships.        *)
LEMMA PruneIs ==
    ASSUME TypeInv, Prune
    PROVE  /\ UNCHANGED <<today, phase, runs, catalog, groups, ids, late,
                          overtaker, home>>
           /\ sources' \in [Sources -> Row \cup {None}]
           /\ Present' = Present
           /\ \A s \in Sources : sources[s] # None =>
                \/ sources'[s] = sources[s]
                \/ Expired(sources[s]) /\ sources'[s] = None
           /\ DOMAIN feeds' = {f \in DOMAIN feeds : ~Expired(feeds[f])}
           /\ \A f \in DOMAIN feeds' :
                /\ feeds'[f] \in FeedRow
                /\ feeds'[f].present = feeds[f].present
                /\ feeds'[f].lastSeen = feeds[f].lastSeen
                /\ feeds'[f].members =
                    {s \in feeds[f].members :
                        sources[s] = None \/ ~Expired(sources[s])}
           /\ DOMAIN was' = DOMAIN feeds'
<1> DEFINE lost == {s \in Sources : sources[s] # None /\ Expired(sources[s])}
           kept == {f \in DOMAIN feeds : ~Expired(feeds[f])}
<1>1. /\ UNCHANGED <<today, phase, runs, catalog, groups, ids, late,
                     overtaker, home>>
      /\ sources' = [s \in Sources |-> IF s \in lost THEN None ELSE sources[s]]
      /\ feeds' = [f \in kept |-> [feeds[f] EXCEPT !.members = @ \ lost]]
      /\ was' = [f \in kept |-> was[f]]
  BY DEF Prune
<1>2. /\ sources \in [Sources -> Row \cup {None}]
      /\ \A f \in DOMAIN feeds : feeds[f] \in FeedRow
  BY DEF TypeInv, TypeOK, FeedRow
<1>3. \A s \in lost : s \notin Present
  BY DEF Present, Expired
<1>4. sources' \in [Sources -> Row \cup {None}]
  BY <1>1, <1>2
<1>5. Present' = Present
  <2>1. Present' = {s \in Sources : sources'[s] # None /\ sources'[s].present}
    BY DEF Present
  <2>2. \A s \in Sources : s \notin lost => sources'[s] = sources[s]
    BY <1>1
  <2>3. \A s \in Sources : s \in lost => sources'[s] = None
    BY <1>1
  <2> HIDE DEF lost
  <2> QED
    BY <1>3, <2>1, <2>2, <2>3 DEF Present
<1>6. ASSUME NEW s \in Sources, sources[s] # None
      PROVE  \/ sources'[s] = sources[s]
             \/ Expired(sources[s]) /\ sources'[s] = None
  <2>1. CASE s \in lost
    BY <1>1, <2>1
  <2>2. CASE s \notin lost
    BY <1>1, <2>2
  <2> QED
    BY <2>1, <2>2
<1>7. DOMAIN feeds' = kept /\ DOMAIN was' = kept
  BY <1>1
<1>8. ASSUME NEW f \in DOMAIN feeds'
      PROVE  /\ feeds'[f] \in FeedRow
             /\ feeds'[f].present = feeds[f].present
             /\ feeds'[f].lastSeen = feeds[f].lastSeen
             /\ feeds'[f].members =
                  {s \in feeds[f].members :
                      sources[s] = None \/ ~Expired(sources[s])}
  <2>1. feeds[f] \in FeedRow /\ feeds[f].members \in SUBSET Sources
    BY <1>2, <1>7 DEF FeedRow
  <2>2. feeds'[f] = [feeds[f] EXCEPT !.members = @ \ lost]
    BY <1>1, <1>7
  <2>3. /\ feeds'[f] \in FeedRow
        /\ feeds'[f].present = feeds[f].present
        /\ feeds'[f].lastSeen = feeds[f].lastSeen
        /\ feeds'[f].members = feeds[f].members \ lost
    <3> HIDE DEF lost
    <3> QED
      BY <2>1, <2>2 DEF FeedRow
  <2> QED
    BY <2>1, <2>3
<1> QED
  BY <1>1, <1>4, <1>5, <1>6, <1>7, <1>8

LEMMA PruneTypes == TypeInv /\ Prune => TypeInv'
<1> SUFFICES ASSUME TypeInv, Prune PROVE TypeInv'
  OBVIOUS
<1>1. /\ UNCHANGED <<today, phase, runs, catalog, groups, ids, late,
                     overtaker, home>>
      /\ sources' \in [Sources -> Row \cup {None}]
      /\ Present' = Present
      /\ DOMAIN feeds' \subseteq DOMAIN feeds
      /\ \A f \in DOMAIN feeds' : feeds'[f] \in FeedRow
      /\ DOMAIN was' = DOMAIN feeds'
  BY PruneIs
<1>2. TypeOK'
  BY <1>1 DEF TypeInv, TypeOK, FeedRow
<1>3. Catalogued' /\ LateIsRun'
  BY <1>1 DEF TypeInv, Catalogued, LateIsRun
<1>4. InStep'
  BY <1>1 DEF TypeInv, InStep, Found
<1>5. Grouped(groups)' /\ Grouped(late.groups)' /\ Distinct(ids)' /\ Distinct(late.ids)'
  BY <1>1 DEF TypeInv
<1> QED
  BY <1>2, <1>3, <1>4, <1>5 DEF TypeInv

LEMMA StutterTypes == TypeInv /\ UNCHANGED vars => TypeInv'
<1> SUFFICES ASSUME TypeInv, UNCHANGED vars PROVE TypeInv'
  OBVIOUS
<1>1. TypeOK' /\ LateIsRun'
  BY DEF TypeInv, TypeOK, LateIsRun, vars
<1>2. Present' = Present
  BY DEF Present, vars
<1>3. Catalogued' /\ InStep'
  BY <1>2 DEF TypeInv, Catalogued, InStep, Found, vars
<1> QED
  BY <1>1, <1>3 DEF TypeInv, vars

LEMMA TypesStep == TypeInv /\ [Next]_vars => TypeInv'
<1> SUFFICES ASSUME TypeInv, [Next]_vars PROVE TypeInv'
  OBVIOUS
<1>1. ASSUME runs < MaxRuns, NEW c \in Catalogs[runs + 1], Record(c) \/ Overtake(c)
      PROVE  TypeInv'
  BY <1>1, RecordTypes, OvertakeTypes
<1> QED
  BY <1>1, NextDayTypes, LoadTypes, PersistTypes, LateLoadTypes,
     LatePersistTypes, PruneTypes, StutterTypes DEF Next

(* The rows, the groups, the ids and the history of them have their types, *)
(* those of the run that was overtaken too: ids are given to every group,  *)
(* and are ids, whatever the hashes.                                       *)
THEOREM TypeCorrect == Spec => []TypeOK
<1>1. Spec => []TypeInv
  BY InitTypes, TypesStep, PTL DEF Spec
<1>2. TypeInv => TypeOK
  BY DEF TypeInv
<1> QED
  BY <1>1, <1>2, PTL

-----------------------------------------------------------------------------
(* The groups                                                              *)

LEMMA TypeInvHolds == Spec => []TypeInv
  BY InitTypes, TypesStep, PTL DEF Spec

(* The groups of a run are the connected parts of its catalog, in whatever *)
(* order its links were met and whatever the union-find compressed.        *)
THEOREM GroupsLinked == Spec => []GroupsAreLinked
<1>1. TypeInv => GroupsAreLinked
  <2> SUFFICES ASSUME TypeInv, phase \in {"loaded", "persisted"}
               PROVE  /\ Partitions(groups, catalog.present)
                      /\ Connects(catalog.links, groups)
    BY DEF GroupsAreLinked, Partitions, Connects
  <2>1. groups = Found
    BY DEF TypeInv, InStep
  <2> QED
    BY <2>1, FoundIs DEF TypeInv
<1> QED
  BY <1>1, TypeInvHolds, PTL

-----------------------------------------------------------------------------
(* A source belongs to one feed.  What a run that persists leaves of each  *)
(* feed: the present sources of its group, and absent ones it had before.  *)

LEMMA GroupsOfPresent ==
    ASSUME TypeInv, phase \in {"loaded", "persisted"}
    PROVE  UNION groups = Present
<1>1. groups = Found
  BY DEF TypeInv, InStep
<1> QED
  BY <1>1, FoundIs DEF TypeInv, Catalogued, Partitions

LEMMA PersistIs ==
    ASSUME TypeInv, Persist
    PROVE  /\ Saves(groups, ids) /\ Present' = Present
           /\ UNCHANGED <<today, runs, sources, catalog, groups, ids, overtaker>>
           /\ \A f \in DOMAIN feeds' : \A s \in feeds'[f].members :
                \/ s \in Present /\ \E g \in groups : s \in g /\ f = ids[g]
                \/ s \notin Present /\ f \in DOMAIN feeds /\ s \in feeds[f].members
           /\ \A g \in groups :
                /\ g \subseteq Present
                /\ ids[g] \in DOMAIN feeds' /\ feeds'[ids[g]].present
                /\ g \subseteq feeds'[ids[g]].members
<1>1. /\ Save(groups, ids) /\ Grouped(groups) /\ Distinct(ids)
      /\ ids \in [groups -> Ids]
  BY DEF Persist, TypeInv, TypeOK
<1>2. /\ Saves(groups, ids) /\ Present' = Present
      /\ UNCHANGED <<today, runs, sources, catalog, groups, ids, overtaker>>
  BY <1>1, SaveIs
<1>3. UNION groups = Present
  BY GroupsOfPresent DEF Persist
<1>4. ASSUME NEW f \in DOMAIN feeds', NEW s \in feeds'[f].members
      PROVE  \/ s \in Present /\ \E g \in groups : s \in g /\ f = ids[g]
             \/ s \notin Present /\ f \in DOMAIN feeds /\ s \in feeds[f].members
  <2>1. CASE f \in Range(ids)
    <3>1. PICK g \in groups : f = ids[g]
      BY <1>1, <2>1 DEF Range
    <3>2. feeds'[ids[g]] =
            [members |-> g \cup (IF ids[g] \in DOMAIN feeds
                                 THEN Remaining(ids[g]) ELSE {}),
             present |-> TRUE, lastSeen |-> today]
      BY <1>2 DEF Saves
    <3>3. feeds'[f].members = g \cup (IF f \in DOMAIN feeds
                                      THEN Remaining(f) ELSE {})
      BY <3>1, <3>2
    <3>4. CASE s \in g
      BY <1>3, <3>1, <3>4
    <3>5. CASE s \notin g
      BY <3>3, <3>5 DEF Remaining
    <3> QED
      BY <3>4, <3>5
  <2>2. CASE f \notin Range(ids)
    <3>1. f \in DOMAIN feeds
      BY <1>2, <2>2 DEF Saves
    <3>2. feeds'[f].members = Remaining(f)
      BY <1>2, <2>2, <3>1 DEF Saves
    <3> QED
      BY <3>1, <3>2 DEF Remaining
  <2> QED
    BY <2>1, <2>2
<1>5. ASSUME NEW g \in groups
      PROVE  /\ g \subseteq Present
             /\ ids[g] \in DOMAIN feeds' /\ feeds'[ids[g]].present
             /\ g \subseteq feeds'[ids[g]].members
  <2>1. ids[g] \in DOMAIN feeds'
    BY <1>1, <1>2 DEF Saves, Range
  <2>2. feeds'[ids[g]] =
            [members |-> g \cup (IF ids[g] \in DOMAIN feeds
                                 THEN Remaining(ids[g]) ELSE {}),
             present |-> TRUE, lastSeen |-> today]
    BY <1>2 DEF Saves
  <2>3. /\ feeds'[ids[g]].present
        /\ g \subseteq feeds'[ids[g]].members
    BY <2>2
  <2> QED
    BY <1>3, <2>1, <2>3
<1> QED
  BY <1>2, <1>4, <1>5

Disjoint(existing) ==
    \A e, f \in DOMAIN existing : e # f => existing[e] \cap existing[f] = {}

(* The two parts of OneFeedPerSource.                                      *)
Undisturbed == overtaker = 0 => Disjoint(Existing)
Leads(g) ==
    /\ feeds[ids[g]].present
    /\ feeds[ids[g]].members \cap Present = g
    /\ \A s \in g : FeedsOf(Existing, s) = {ids[g]}
Settled == phase = "persisted" /\ late.phase # "persisted"

LEMMA OneFeedParts ==
    OneFeedPerSource <=> Undisturbed /\ (Settled => \A g \in groups : Leads(g))
<1>1. Undisturbed <=>
        (overtaker = 0 => \A e, f \in DOMAIN feeds :
            e # f => feeds[e].members \cap feeds[f].members = {})
  BY DEF Undisturbed, Disjoint, Existing
<1> QED
  BY <1>1 DEF OneFeedPerSource, Settled, Leads

LEMMA PersistLeads ==
    ASSUME TypeInv, Persist
    PROVE  /\ \A g \in groups : Leads(g)'
           /\ Disjoint(Existing) => Disjoint(Existing)'
<1>1. /\ Present' = Present /\ groups' = groups /\ ids' = ids
      /\ \A f \in DOMAIN feeds' : \A s \in feeds'[f].members :
            \/ s \in Present /\ \E g \in groups : s \in g /\ f = ids[g]
            \/ s \notin Present /\ f \in DOMAIN feeds /\ s \in feeds[f].members
      /\ \A g \in groups :
            /\ g \subseteq Present
            /\ ids[g] \in DOMAIN feeds' /\ feeds'[ids[g]].present
            /\ g \subseteq feeds'[ids[g]].members
  BY PersistIs
<1>2. \A g, h \in groups : \A s \in g : s \in h => g = h
  BY DEF TypeInv, Grouped
<1>3. \A f \in DOMAIN feeds' : \A s \in feeds'[f].members : \A g \in groups :
        s \in g => f = ids[g]
  BY <1>1, <1>2
<1>4. /\ DOMAIN Existing' = DOMAIN feeds'
      /\ \A f \in DOMAIN feeds' : Existing'[f] = feeds'[f].members
  BY DEF Existing
<1>5. ASSUME NEW g \in groups PROVE Leads(g)'
  <2>1. feeds'[ids[g]].members \cap Present = g
    <3>1. ASSUME NEW s \in feeds'[ids[g]].members, s \in Present PROVE s \in g
      <4>1. PICK h \in groups : s \in h /\ ids[g] = ids[h]
        BY <1>1, <3>1
      <4>2. g = h
        BY <4>1 DEF TypeInv, TypeOK, Distinct
      <4> QED
        BY <4>1, <4>2
    <3> QED
      BY <1>1, <3>1
  <2>2. ASSUME NEW s \in g PROVE FeedsOf(Existing', s) = {ids[g]}
    <3>1. s \in feeds'[ids[g]].members
      BY <1>1
    <3> QED
      BY <1>1, <1>3, <1>4, <3>1 DEF FeedsOf
  <2> QED
    BY <1>1, <2>1, <2>2 DEF Leads
<1>6. ASSUME Disjoint(Existing) PROVE Disjoint(Existing)'
  <2> SUFFICES ASSUME NEW e \in DOMAIN feeds', NEW f \in DOMAIN feeds', e # f,
                      NEW s \in feeds'[e].members, s \in feeds'[f].members
               PROVE  FALSE
    BY <1>4 DEF Disjoint
  <2>1. CASE s \in Present
    BY <1>1, <1>3, <2>1
  <2>2. CASE s \notin Present
    <3>1. /\ e \in DOMAIN feeds /\ s \in feeds[e].members
          /\ f \in DOMAIN feeds /\ s \in feeds[f].members
      BY <1>1, <2>2
    <3> QED
      BY <1>6, <3>1, ExistingIs DEF Disjoint
  <2> QED
    BY <2>1, <2>2
<1> QED
  BY <1>5, <1>6

LEMMA PruneLeads ==
    ASSUME TypeInv, Prune
    PROVE  /\ (\A g \in groups : Leads(g)) => \A g \in groups : Leads(g)'
           /\ Disjoint(Existing) => Disjoint(Existing)'
<1>1. /\ Present' = Present /\ groups' = groups /\ ids' = ids
      /\ DOMAIN feeds' = {f \in DOMAIN feeds : ~Expired(feeds[f])}
      /\ \A f \in DOMAIN feeds' :
            /\ feeds'[f].present = feeds[f].present
            /\ feeds'[f].members =
                {s \in feeds[f].members :
                    sources[s] = None \/ ~Expired(sources[s])}
  BY PruneIs
<1>2. /\ DOMAIN Existing' = DOMAIN feeds'
      /\ \A f \in DOMAIN feeds' : Existing'[f] = feeds'[f].members
  BY DEF Existing
<1>3. \A s \in Present : ~Expired(sources[s])
  BY DEF Present, Expired
<1>4. ASSUME NEW g \in groups, Leads(g) PROVE Leads(g)'
  <2>1. g \subseteq Present /\ \E s \in g : TRUE
    BY <1>4 DEF Leads, TypeInv, Grouped, Groups
  <2>2. ids[g] \in DOMAIN feeds
    BY <1>4, <2>1, ExistingIs DEF Leads, FeedsOf
  <2>3. ids[g] \in DOMAIN feeds' /\ feeds'[ids[g]].present
    BY <1>1, <1>4, <2>2 DEF Leads, Expired
  <2>4. feeds'[ids[g]].members \cap Present = g
    BY <1>1, <1>3, <1>4, <2>3 DEF Leads
  <2>5. ASSUME NEW s \in g PROVE FeedsOf(Existing', s) = {ids[g]}
    <3>1. FeedsOf(Existing, s) = {ids[g]}
      BY <1>4 DEF Leads
    <3>2. s \in feeds'[ids[g]].members
      BY <2>4
    <3> QED
      BY <1>1, <1>2, <2>3, <3>1, <3>2, ExistingIs DEF FeedsOf
  <2> QED
    BY <1>1, <2>3, <2>4, <2>5 DEF Leads
<1>5. ASSUME Disjoint(Existing) PROVE Disjoint(Existing)'
  <2>1. /\ DOMAIN feeds' \subseteq DOMAIN feeds
        /\ \A f \in DOMAIN feeds' : feeds'[f].members \subseteq feeds[f].members
    BY <1>1
  <2> QED
    BY <1>2, <1>5, <2>1, ExistingIs DEF Disjoint
<1> QED
  BY <1>4, <1>5

LEMMA OneFeedStep ==
    ASSUME TypeInv, OneFeedPerSource, [Next]_vars
    PROVE  OneFeedPerSource'
<1>1. Undisturbed /\ (Settled => \A g \in groups : Leads(g))
  BY OneFeedParts
<1>2. SUFFICES Undisturbed' /\ (Settled' => \A g \in groups' : Leads(g)')
  <2>1. OneFeedPerSource' <=>
            Undisturbed' /\ (Settled' => \A g \in groups' : Leads(g)')
    <3>1. Undisturbed' <=>
            (overtaker' = 0 => \A e, f \in DOMAIN feeds' :
                e # f => feeds'[e].members \cap feeds'[f].members = {})
      BY DEF Undisturbed, Disjoint, Existing
    <3> QED
      BY <3>1 DEF OneFeedPerSource, Settled, Leads
  <2> QED
    BY <2>1
<1>3. Undisturbed /\ feeds' = feeds /\ (overtaker' = 0 => overtaker = 0)
        => Undisturbed'
  BY DEF Undisturbed, Existing
<1>4. ASSUME NEW c, NewRun(c), overtaker' = overtaker \/ overtaker' # 0
      PROVE  Undisturbed' /\ ~Settled'
  BY <1>1, <1>3, <1>4 DEF NewRun, Settled
<1>5. ASSUME NextDay \/ Load PROVE Undisturbed' /\ ~Settled'
  BY <1>1, <1>3, <1>5 DEF NextDay, Load, Settled
<1>6. CASE Persist
  BY <1>1, <1>6, PersistLeads, PersistIs DEF Undisturbed
<1>7. ASSUME UNCHANGED <<sources, feeds, groups, ids, phase, overtaker>>,
             Settled' => Settled
      PROVE  Undisturbed' /\ (Settled' => \A g \in groups' : Leads(g)')
  <2>1. Present' = Present /\ Existing' = Existing
    BY <1>7 DEF Present, Existing
  <2> QED
    BY <1>1, <1>3, <1>7, <2>1 DEF Leads
<1>8. CASE LateLoad
  BY <1>7, <1>8 DEF LateLoad, Settled
<1>9. CASE LatePersist
  <2>1. overtaker' = overtaker /\ late.phase = "loaded" /\ late'.phase = "persisted"
    BY <1>9 DEF LatePersist, Save, NoRun
  <2>2. overtaker' # 0
    BY <2>1 DEF TypeInv, TypeOK, NoRun
  <2> QED
    BY <2>1, <2>2 DEF Undisturbed, Settled
<1>10. CASE Prune
  <2>1. UNCHANGED <<groups, phase, late, overtaker>>
    BY <1>10, PruneIs
  <2> QED
    BY <1>1, <1>10, <2>1, PruneLeads DEF Undisturbed, Settled
<1>11. CASE UNCHANGED vars
  BY <1>7, <1>11 DEF vars, Settled
<1>12. ASSUME NEW c, runs < MaxRuns, c \in Catalogs[runs + 1], Record(c) \/ Overtake(c)
       PROVE  Undisturbed' /\ ~Settled'
  <2>1. NewRun(c) /\ (overtaker' = overtaker \/ overtaker' = runs')
    BY <1>12 DEF Record, Overtake
  <2>2. runs' # 0
    BY <1>12, <2>1, NewRunIs DEF TypeInv
  <2> QED
    BY <1>4, <2>1, <2>2
<1> QED
  BY <1>5, <1>6, <1>8, <1>9, <1>10, <1>11, <1>12 DEF Next

(* No source is a member of two feeds, and what a run has persisted leads  *)
(* from each id to its own group, whatever feeds there were and however    *)
(* many ids were minted.                                                   *)
THEOREM OneFeed == Spec => []OneFeedPerSource
<1>1. Init => OneFeedPerSource
  BY DEF Init, OneFeedPerSource, NoFeeds
<1>2. TypeInv /\ OneFeedPerSource /\ [Next]_vars => OneFeedPerSource'
  BY OneFeedStep
<1> QED
  BY <1>1, <1>2, TypeInvHolds, PTL DEF Spec

-----------------------------------------------------------------------------
(* The ids follow the members                                              *)

LEMMA OnlyLoads ==
    ASSUME Loading, [Next]_vars
    PROVE  Load
  BY DEF Loading, Next, vars, NextDay, Record, Overtake, NewRun, Persist,
         LateLoad, LatePersist, Save, Prune

(* A new id is minted only for a group that shares no member with a feed,  *)
(* and is nobody's; the others take the id of a feed they share the most   *)
(* with, unless a group that shares as many has it.                        *)
THEOREM IdsFollowTheMembers == Spec => IdsFollowMembers
<1>1. ASSUME TypeInv, [Next]_vars, Loading
      PROVE  \E owner \in Owners(Existing) : \A g \in groups' :
        /\ \A f \in DOMAIN feeds : Overlap(owner, g, f) > 0 =>
            \/ ids'[g] = f
            \/ /\ ids'[g] \in DOMAIN feeds
               /\ Overlap(owner, g, ids'[g]) >= Overlap(owner, g, f)
            \/ \E h \in groups' :
                ids'[h] = f /\ Overlap(owner, h, f) >= Overlap(owner, g, f)
        /\ ids'[g] \in DOMAIN feeds => Overlap(owner, g, ids'[g]) > 0
  <2>1. Load
    BY <1>1, OnlyLoads
  <2>2. groups' = Found
    BY <2>1 DEF Load, Found
  <2>3. PICK owner \in Owners(Existing) : ids' = AssignIds(Existing, owner, Found)
    BY <2>1 DEF Load, Found
  <2>4. DOMAIN Existing = DOMAIN feeds /\ DOMAIN Existing \in SUBSET Ids
    BY <1>1, ExistingIs DEF TypeInv, TypeOK
  <2>5. Grouped(Found)
    BY <1>1, FoundIs DEF TypeInv
  <2> HIDE DEF Found
  <2>6. /\ \A g \in Found : ids'[g] \in DOMAIN Existing => Overlap(owner, g, ids'[g]) > 0
        /\ \A g \in Found, f \in DOMAIN Existing :
                Overlap(owner, g, f) > 0 =>
                    \/ /\ ids'[g] \in DOMAIN Existing
                       /\ Overlap(owner, g, ids'[g]) >= Overlap(owner, g, f)
                    \/ \E h \in Found :
                        /\ ids'[h] = f
                        /\ Overlap(owner, h, f) >= Overlap(owner, g, f)
    BY <2>3, <2>4, <2>5, IdsFollow
  <2> QED
    BY <2>2, <2>4, <2>6
<1>2. TypeInv /\ [Next]_vars =>
      [Loading => \E owner \in Owners(Existing) : \A g \in groups' :
        /\ \A f \in DOMAIN feeds : Overlap(owner, g, f) > 0 =>
            \/ ids'[g] = f
            \/ /\ ids'[g] \in DOMAIN feeds
               /\ Overlap(owner, g, ids'[g]) >= Overlap(owner, g, f)
            \/ \E h \in groups' :
                ids'[h] = f /\ Overlap(owner, h, f) >= Overlap(owner, g, f)
        /\ ids'[g] \in DOMAIN feeds => Overlap(owner, g, ids'[g]) > 0]_vars
  BY <1>1
<1> QED
  BY <1>2, TypeInvHolds, PTL DEF Spec, IdsFollowMembers

-----------------------------------------------------------------------------
(* A rerun keeps the ids.  As long as only one run has persisted at a      *)
(* time, the ids of the groups are those that AssignIds would give them    *)
(* again: so they were assigned, and once they are saved every member of a *)
(* group counts for the feed of that group.                                *)

LEMMA OwnersExist == \A existing : Owners(existing) # {}
<1> SUFFICES ASSUME NEW existing PROVE Owners(existing) # {}
  OBVIOUS
<1> DEFINE owned == {s \in Sources : FeedsOf(existing, s) # {}}
           o == [s \in owned |-> CHOOSE f \in FeedsOf(existing, s) : TRUE]
<1>1. \A s \in owned : o[s] \in FeedsOf(existing, s)
  OBVIOUS
<1>2. o \in [owned -> DOMAIN existing]
  BY DEF FeedsOf
<1> HIDE DEF o
<1> QED
  BY <1>1, <1>2 DEF Owners

LEMMA OwnersAgree ==
    ASSUME NEW existing, Disjoint(existing),
           NEW o \in Owners(existing), NEW p \in Owners(existing)
    PROVE  o = p
<1> DEFINE owned == {s \in Sources : FeedsOf(existing, s) # {}}
<1>1. /\ o \in [owned -> DOMAIN existing] /\ p \in [owned -> DOMAIN existing]
      /\ \A s \in owned : o[s] \in FeedsOf(existing, s) /\ p[s] \in FeedsOf(existing, s)
  BY DEF Owners
<1>2. \A s \in owned : o[s] = p[s]
  BY <1>1 DEF FeedsOf, Disjoint
<1> QED
  BY <1>1, <1>2

(* Each member of a group counts for the feed of its group.                *)
Counts(existing, found, a) ==
    \A g \in found : \A s \in g : FeedsOf(existing, s) = {a[g]}

LEMMA SavedKeeps ==
    ASSUME NEW existing, DOMAIN existing \in SUBSET Ids,
           NEW found, Grouped(found), NEW a \in [found -> Ids], Distinct(a),
           Counts(existing, found, a), NEW owner \in Owners(existing)
    PROVE  AssignIds(existing, owner, found) = a
<1> DEFINE b == AssignIds(existing, owner, found)
<1>1. /\ b \in [found -> IdOrNone]
      /\ \A g \in found : b[g] \in DOMAIN existing => Overlap(owner, g, b[g]) > 0
      /\ \A g \in found, f \in DOMAIN existing :
            Overlap(owner, g, f) > 0 =>
                \/ /\ b[g] \in DOMAIN existing
                   /\ Overlap(owner, g, b[g]) >= Overlap(owner, g, f)
                \/ \E h \in found :
                    /\ b[h] = f
                    /\ Overlap(owner, h, f) >= Overlap(owner, g, f)
  BY IdsFollow
<1> HIDE DEF b
<1>2. /\ owner \in Owning
      /\ \A s \in Sources : s \in DOMAIN owner <=>
            \E f \in DOMAIN existing : s \in existing[f]
      /\ \A s \in DOMAIN owner : /\ owner[s] \in DOMAIN existing
                                 /\ s \in existing[owner[s]]
  BY OwnersOwn
<1>3. ASSUME NEW g \in found, NEW s \in g
      PROVE  s \in DOMAIN owner /\ owner[s] = a[g] /\ a[g] \in DOMAIN existing
  <2>1. FeedsOf(existing, s) = {a[g]} /\ s \in Sources
    BY DEF Counts, Grouped, Groups
  <2>2. a[g] \in DOMAIN existing /\ s \in existing[a[g]]
    BY <2>1 DEF FeedsOf
  <2>3. s \in DOMAIN owner
    BY <1>2, <2>1, <2>2
  <2>4. owner[s] \in FeedsOf(existing, s)
    BY <1>2, <2>3 DEF FeedsOf
  <2> QED
    BY <2>1, <2>2, <2>3, <2>4
<1>4. \A g \in found : g \in SUBSET Sources /\ g # {}
  BY DEF Grouped, Groups
<1>5. ASSUME NEW g \in found, NEW f, Overlap(owner, g, f) > 0 PROVE f = a[g]
  BY <1>2, <1>3, <1>4, <1>5, OverlapIs
<1>6. ASSUME NEW g \in found
      PROVE  a[g] \in DOMAIN existing /\ Overlap(owner, g, a[g]) > 0
  BY <1>2, <1>3, <1>4, OverlapIs
<1>7. ASSUME NEW g \in found PROVE b[g] = a[g]
  <2> DEFINE n(h) == Overlap(owner, h, a[g])
  <2>1. n(g) \in Nat /\ n(g) > 0
    BY <1>2, <1>4, <1>6, OverlapIs
  <2>2. CASE b[g] \in DOMAIN existing
    BY <1>1, <1>5, <2>2
  <2>3. CASE \E h \in found : b[h] = a[g] /\ n(h) >= n(g)
    <3>1. PICK h \in found : b[h] = a[g] /\ n(h) >= n(g)
      BY <2>3
    <3>2. n(h) \in Nat
      BY <1>2, <1>4, OverlapIs
    <3>3. n(h) > 0
      <4> HIDE DEF n
      <4> QED
        BY <2>1, <3>1, <3>2
    <3>4. a[h] = a[g]
      BY <1>5, <3>3
    <3>5. h = g
      BY <3>4 DEF Distinct
    <3> QED
      BY <3>1, <3>5
  <2> QED
    BY <1>1, <1>6, <2>2, <2>3
<1>8. b = a
  BY <1>1, <1>7
<1> QED
  BY <1>8 DEF b

(* What a run that has not been disturbed works out again.                 *)
Calm ==
    overtaker = 0 \/ (runs = overtaker /\ late.phase \in {"recorded", "loaded"})

Assigned(existing, found, a) ==
    \A owner \in Owners(existing) : AssignIds(existing, owner, found) = a

LateAgrees ==
    late.phase = "loaded" =>
        \/ Assigned(Existing, late.groups, late.ids)
        \/ phase # "recorded" /\ (late.groups = groups => late.ids = ids)

CalmInv ==
    /\ overtaker <= runs
    /\ Calm => /\ Disjoint(Existing)
               /\ Assigned(Existing, groups, ids)
               /\ LateAgrees

LEMMA AssignedIsOne ==
    ASSUME NEW existing, NEW found, NEW a, NEW b,
           Assigned(existing, found, a), Assigned(existing, found, b)
    PROVE  a = b
<1>1. PICK owner \in Owners(existing) : TRUE
  BY OwnersExist
<1> QED
  BY <1>1 DEF Assigned

LEMMA AssignedOnce ==
    ASSUME NEW existing, Disjoint(existing), NEW found,
           NEW owner \in Owners(existing)
    PROVE  Assigned(existing, found, AssignIds(existing, owner, found))
  BY OwnersAgree DEF Assigned

LEMMA LeadsAssigned ==
    ASSUME TypeInv, \A g \in groups : Leads(g)
    PROVE  Assigned(Existing, groups, ids)
<1>1. DOMAIN Existing \in SUBSET Ids
  BY ExistingIs DEF TypeInv, TypeOK
<1>2. Counts(Existing, groups, ids)
  BY DEF Leads, Counts
<1>3. Grouped(groups) /\ ids \in [groups -> Ids] /\ Distinct(ids)
  BY DEF TypeInv, TypeOK
<1> QED
  BY <1>1, <1>2, <1>3, SavedKeeps DEF Assigned

LEMMA CalmNotLate ==
    ASSUME TypeInv, overtaker = 0 \/ Calm
    PROVE  late.phase # "persisted" /\ (overtaker = 0 => late.phase = "none")
  BY DEF TypeInv, TypeOK, Calm, NoRun

LEMMA LateAgreesThen ==
    ASSUME CalmInv, Calm, late.phase = "loaded", late.groups = groups
    PROVE  late.ids = ids
  BY AssignedIsOne DEF CalmInv, LateAgrees

LEMMA InitCalm == Init => CalmInv
<1> SUFFICES ASSUME Init PROVE CalmInv
  OBVIOUS
<1>1. /\ overtaker <= runs /\ DOMAIN Existing = {}
      /\ groups = {} /\ ids = NoFeeds /\ late.phase = "none"
  BY ExistingIs DEF Init, NoFeeds, NoRun
<1>2. Disjoint(Existing) /\ LateAgrees
  BY <1>1 DEF Disjoint, LateAgrees
<1>3. TypeInv
  BY InitTypes
<1>4. Assigned(Existing, groups, ids)
  BY <1>1, <1>3, LeadsAssigned
<1> QED
  BY <1>1, <1>2, <1>4 DEF CalmInv

LEMMA LoadCalm ==
    ASSUME TypeInv, CalmInv, Load
    PROVE  CalmInv'
<1>1. /\ groups' = Found /\ phase' = "loaded"
      /\ phase \in {"recorded", "loaded", "persisted"}
      /\ runs' = runs /\ feeds' = feeds /\ late' = late
      /\ overtaker' = overtaker
  BY DEF Load, Found
<1>2. PICK owner \in Owners(Existing) : ids' = AssignIds(Existing, owner, Found)
  BY DEF Load, Found
<1>3. Existing' = Existing
  BY <1>1 DEF Existing
<1>4. overtaker' <= runs' /\ (Calm' => Calm)
  BY <1>1 DEF CalmInv, Calm
<1>5. ASSUME Calm
      PROVE  /\ Disjoint(Existing') /\ Assigned(Existing', groups', ids')
             /\ LateAgrees'
  <2>1. Disjoint(Existing)
    BY <1>5 DEF CalmInv
  <2>2. Assigned(Existing, groups', ids')
    BY <1>1, <1>2, <2>1, AssignedOnce
  <2>3. CASE late.phase # "loaded" \/ Assigned(Existing, late.groups, late.ids)
    BY <1>1, <1>3, <2>1, <2>2, <2>3 DEF LateAgrees
  <2>4. CASE /\ late.phase = "loaded" /\ phase # "recorded"
             /\ ~Assigned(Existing, late.groups, late.ids)
    <3>1. groups = Found
      BY <1>1, <2>4 DEF TypeInv, InStep
    <3>2. Assigned(Existing, groups, ids)
      BY <1>5 DEF CalmInv
    <3>3. ids' = ids
      BY <1>1, <2>2, <3>1, <3>2, AssignedIsOne
    <3>4. late.groups = groups => late.ids = ids
      BY <1>5, <2>4 DEF CalmInv, LateAgrees
    <3> QED
      BY <1>1, <1>3, <2>1, <2>2, <3>1, <3>3, <3>4 DEF LateAgrees
  <2> QED
    BY <1>5, <2>3, <2>4 DEF CalmInv, LateAgrees
<1> QED
  BY <1>4, <1>5 DEF CalmInv

LEMMA LateLoadCalm ==
    ASSUME TypeInv, CalmInv, LateLoad
    PROVE  CalmInv'
<1>1. /\ late.phase = "recorded" /\ groups' = groups /\ ids' = ids
      /\ runs' = runs /\ feeds' = feeds /\ overtaker' = overtaker
  BY DEF LateLoad
<1>2. PICK owner \in Owners(Existing) :
        late' = [late EXCEPT !.phase = "loaded",
                             !.ids = AssignIds(Existing, owner, late.groups)]
  BY DEF LateLoad
<1>3. /\ late'.groups = late.groups
      /\ late'.ids = AssignIds(Existing, owner, late.groups)
  BY <1>2 DEF TypeInv, LateIsRun
<1>4. Existing' = Existing
  BY <1>1 DEF Existing
<1>5. overtaker' <= runs' /\ (Calm' => Calm)
  BY <1>1 DEF CalmInv, Calm
<1>6. ASSUME Calm PROVE Assigned(Existing, late'.groups, late'.ids)
  BY <1>3, <1>6, AssignedOnce DEF CalmInv
<1> QED
  BY <1>1, <1>4, <1>5, <1>6 DEF CalmInv, LateAgrees

(* Both steps leave the feeds of the run leading to its groups.            *)
LEMMA SettledCalm ==
    ASSUME TypeInv, TypeInv', CalmInv,
           UNCHANGED <<runs, groups, ids, overtaker>>,
           phase' # "recorded", late' = late \/ late' = NoRun,
           \A g \in groups : Leads(g)',
           Disjoint(Existing) => Disjoint(Existing)'
    PROVE  CalmInv'
<1>1. Calm' => Calm
  BY DEF Calm, NoRun
<1>2. Assigned(Existing', groups', ids')
  <2>1. DOMAIN Existing' \in SUBSET Ids
    BY DEF Existing, TypeInv, TypeOK
  <2>2. Counts(Existing', groups', ids')
    BY DEF Leads, Counts
  <2>3. Grouped(groups') /\ ids' \in [groups' -> Ids] /\ Distinct(ids')
    BY DEF TypeInv, TypeOK
  <2> QED
    BY <2>1, <2>2, <2>3, SavedKeeps DEF Assigned
<1>3. ASSUME Calm PROVE LateAgrees'
  <2>1. CASE late'.phase = "loaded"
    <3>1. late' = late
      BY <2>1 DEF NoRun
    <3> QED
      BY <1>3, <2>1, <3>1, LateAgreesThen DEF LateAgrees
  <2>2. CASE late'.phase # "loaded"
    BY <2>2 DEF LateAgrees
  <2> QED
    BY <2>1, <2>2
<1> QED
  BY <1>1, <1>2, <1>3 DEF CalmInv

LEMMA CalmStep ==
    ASSUME TypeInv, TypeInv', OneFeedPerSource, CalmInv, [Next]_vars
    PROVE  CalmInv'
<1>1. overtaker \in Nat /\ runs \in Nat /\ overtaker <= runs
  <2>1. overtaker \in 0 .. MaxRuns /\ runs \in 0 .. MaxRuns /\ MaxRuns \in Nat
    BY FeedIdsAssumption DEF TypeInv, TypeOK
  <2> QED
    BY <2>1 DEF CalmInv
<1>2. CASE NextDay
  <2>1. Existing' = Existing /\ Calm' = Calm
    BY <1>2 DEF NextDay, Existing, Calm
  <2> QED
    BY <1>2, <2>1 DEF CalmInv, LateAgrees, NextDay
<1>3. ASSUME NEW c, Record(c) PROVE CalmInv'
  <2>1. /\ runs' = runs + 1 /\ overtaker' = overtaker /\ late' = late
        /\ groups' = groups /\ ids' = ids /\ feeds' = feeds
    BY <1>3 DEF Record, NewRun
  <2>2. overtaker' <= runs' /\ (Calm' => overtaker = 0)
    BY <1>1, <2>1 DEF Calm
  <2>3. Existing' = Existing
    BY <2>1 DEF Existing
  <2>4. ASSUME overtaker = 0 PROVE Calm /\ late.phase = "none"
    BY <2>4, CalmNotLate DEF Calm
  <2> QED
    BY <2>1, <2>2, <2>3, <2>4 DEF CalmInv, LateAgrees
<1>4. ASSUME NEW c, Overtake(c) PROVE CalmInv'
  <2>1. /\ overtaker = 0 /\ phase \in {"recorded", "loaded"}
        /\ runs' = runs + 1 /\ overtaker' = runs'
        /\ groups' = groups /\ ids' = ids /\ feeds' = feeds
        /\ late' = [phase |-> phase, groups |-> Found,
                    ids |-> IF phase = "loaded" THEN ids ELSE NoFeeds]
    BY <1>4 DEF Overtake, NewRun, Found
  <2>2. overtaker' <= runs'
    BY <1>1, <2>1
  <2>3. Existing' = Existing
    BY <2>1 DEF Existing
  <2>4. Disjoint(Existing) /\ Assigned(Existing, groups, ids)
    BY <2>1 DEF CalmInv, Calm
  <2>5. ASSUME late'.phase = "loaded"
        PROVE  Assigned(Existing, late'.groups, late'.ids)
    <3>1. phase = "loaded" /\ late'.groups = Found /\ late'.ids = ids
      BY <2>1, <2>5
    <3>2. groups = Found
      BY <3>1 DEF TypeInv, InStep
    <3> QED
      BY <2>4, <3>1, <3>2
  <2> QED
    BY <2>1, <2>2, <2>3, <2>4, <2>5 DEF CalmInv, LateAgrees
<1>5. CASE Load
  BY <1>5, LoadCalm
<1>6. CASE LateLoad
  BY <1>6, LateLoadCalm
<1>7. CASE Persist
  <2>1. /\ phase' = "persisted" /\ late' \in {late, NoRun}
        /\ UNCHANGED <<runs, groups, ids, overtaker>>
    BY <1>7 DEF Persist, Save
  <2> QED
    BY <1>7, <2>1, PersistLeads, SettledCalm
<1>8. CASE LatePersist
  <2>1. /\ late.phase = "loaded" /\ late'.phase = "persisted"
        /\ UNCHANGED <<runs, overtaker>>
    BY <1>8 DEF LatePersist, Save, NoRun
  <2>2. overtaker # 0
    BY <2>1, CalmNotLate
  <2> QED
    BY <1>1, <2>1, <2>2 DEF CalmInv, Calm
<1>9. CASE Prune
  <2>1. UNCHANGED <<phase, runs, groups, ids, late, overtaker>>
    BY <1>9, PruneIs
  <2>2. CASE Calm
    <3>1. late.phase # "persisted"
      BY <2>2, CalmNotLate
    <3>2. phase = "persisted" /\ Settled
      BY <1>9, <3>1 DEF Prune, Settled
    <3>3. \A g \in groups : Leads(g)
      BY <3>2, OneFeedParts
    <3> QED
      BY <1>9, <2>1, <3>2, <3>3, PruneLeads, SettledCalm
  <2>3. CASE ~Calm
    <3>1. ~Calm' /\ overtaker' <= runs'
      BY <1>1, <2>1, <2>3 DEF Calm
    <3> QED
      BY <3>1 DEF CalmInv
  <2> QED
    BY <2>2, <2>3
<1>10. CASE UNCHANGED vars
  <2>1. Existing' = Existing /\ Calm' = Calm
    BY <1>10 DEF vars, Existing, Calm
  <2> QED
    BY <1>10, <2>1 DEF CalmInv, LateAgrees, vars
<1> QED
  BY <1>2, <1>3, <1>4, <1>5, <1>6, <1>7, <1>8, <1>9, <1>10 DEF Next


(* A run that saves what the feeds already lead to moves no source.        *)
LEMMA SavedAgain ==
    ASSUME TypeInv, phase = "persisted", \A g \in groups : Leads(g),
           Saves(groups, ids)
    PROVE  Existing' = Existing
<1>1. UNION groups = Present
  BY GroupsOfPresent
<1>2. /\ ids \in [groups -> Ids]
      /\ \A g \in groups : g # {}
      /\ \A f \in DOMAIN feeds : feeds[f] \in FeedRow
  BY DEF TypeInv, TypeOK, Grouped, Groups, FeedRow
<1>3. \A g \in groups : ids[g] \in DOMAIN feeds
  BY <1>2, ExistingIs DEF Leads, FeedsOf
<1>4. DOMAIN feeds' = DOMAIN feeds
  <2>1. Range(ids) \subseteq DOMAIN feeds
    BY <1>2, <1>3 DEF Range
  <2>2. DOMAIN feeds' = DOMAIN feeds \cup Range(ids)
    BY DEF Saves
  <2> QED
    BY <2>1, <2>2
<1>5. ASSUME NEW f \in DOMAIN feeds PROVE feeds'[f].members = feeds[f].members
  <2>1. CASE f \in Range(ids)
    <3>1. PICK g \in groups : f = ids[g]
      BY <1>2, <2>1 DEF Range
    <3>2. feeds'[ids[g]] =
            [members |-> g \cup (IF ids[g] \in DOMAIN feeds
                                 THEN Remaining(ids[g]) ELSE {}),
             present |-> TRUE, lastSeen |-> today]
      BY DEF Saves
    <3>3. feeds'[f].members = g \cup Remaining(f)
      BY <1>3, <3>1, <3>2
    <3>4. feeds[f].members \cap Present = g
      BY <3>1 DEF Leads
    <3> QED
      BY <3>3, <3>4 DEF Remaining
  <2>2. CASE f \notin Range(ids)
    <3>1. feeds'[f].members = Remaining(f)
      BY <2>2 DEF Saves
    <3>2. ASSUME NEW s \in feeds[f].members, s \in Present PROVE FALSE
      <4>1. PICK g \in groups : s \in g
        BY <1>1, <3>2
      <4>2. f \in FeedsOf(Existing, s)
        BY <3>2, ExistingIs DEF FeedsOf
      <4> QED
        BY <1>2, <2>2, <4>1, <4>2 DEF Leads, Range
    <3> QED
      BY <3>1, <3>2 DEF Remaining
  <2> QED
    BY <2>1, <2>2
<1> QED
  BY <1>4, <1>5 DEF Existing

LEMMA CalmHolds == Spec => [](TypeInv /\ OneFeedPerSource /\ CalmInv)
<1>1. TypeInv /\ TypeInv' /\ OneFeedPerSource /\ CalmInv /\ [Next]_vars => CalmInv'
  BY CalmStep
<1> QED
  BY <1>1, InitCalm, TypeInvHolds, OneFeed, PTL DEF Spec

(* A run that loads again assigns the same ids to the same groups, though  *)
(* it reads other feeds; and a run that was overtaken, loaded before or    *)
(* after the other, moves no source if it found the same groups.           *)
THEOREM RerunKeeps == Spec => RerunKeepsIds
<1>1. ASSUME TypeInv, CalmInv, [Next]_vars, Loading, overtaker = 0
      PROVE  ids' = ids \/ groups' # groups
  <2>1. Load
    BY <1>1, OnlyLoads
  <2>2. PICK owner \in Owners(Existing) : ids' = AssignIds(Existing, owner, groups')
    BY <2>1 DEF Load
  <2>3. Assigned(Existing, groups, ids)
    BY <1>1 DEF CalmInv, Calm
  <2> QED
    BY <2>2, <2>3 DEF Assigned
<1>2. ASSUME TypeInv, OneFeedPerSource, CalmInv, [Next]_vars,
             late.phase = "loaded", late'.phase = "persisted",
             phase = "persisted", runs = overtaker, late.groups = groups
      PROVE  Existing' = Existing
  <2>1. LatePersist
    BY <1>2 DEF Next, vars, NextDay, Record, Overtake, Load, Persist,
                LateLoad, Prune
  <2>2. late.ids = ids
    BY <1>2, LateAgreesThen DEF Calm
  <2>3. \A g \in groups : Leads(g)
    BY <1>2, OneFeedParts DEF Settled
  <2>4. Saves(groups, ids)
    BY <1>2, <2>1, <2>2, SaveIs DEF LatePersist, TypeInv, TypeOK
  <2> QED
    BY <1>2, <2>3, <2>4, SavedAgain
<1>3. TypeInv /\ OneFeedPerSource /\ CalmInv /\ [Next]_vars =>
      [/\ Loading /\ overtaker = 0 => ids' = ids \/ groups' # groups
       /\ late.phase = "loaded" /\ late'.phase = "persisted"
            /\ phase = "persisted" /\ runs = overtaker
            /\ late.groups = groups
                => Existing' = Existing]_vars
  BY <1>1, <1>2
<1> QED
  BY <1>3, CalmHolds, PTL DEF Spec, RerunKeepsIds

-----------------------------------------------------------------------------
(* A group that comes back.  A source that was last saved within the       *)
(* retention window is still a member of the feed it was saved in, and of  *)
(* no other: neither its row nor that feed was seen before it was saved.   *)

AtHome(s) ==
    LET h == home[s]
    IN  /\ sources[s] # None /\ sources[s].lastSeen >= h.day
        /\ h.feed \in DOMAIN feeds
        /\ feeds[h.feed].lastSeen >= h.day
        /\ s \in feeds[h.feed].members

Dated == phase # "none" => \A s \in Present : sources[s].lastSeen = today
Tracked ==
    \A f \in DOMAIN feeds : \A s \in feeds[f].members :
        home[s] # None /\ home[s].feed = f
Housed ==
    \A s \in Sources : home[s] # None =>
        /\ home[s].day <= today
        /\ today - home[s].day <= AbsentRetention => AtHome(s)

HomeInv == overtaker = 0 => Dated /\ Tracked /\ Housed

LEMMA HomeTypes ==
    ASSUME TypeInv
    PROVE  /\ today \in Nat /\ AbsentRetention \in Nat /\ Days \subseteq Nat
           /\ \A s \in Sources :
                /\ home[s] # None => home[s].day \in Days /\ home[s].day \in Nat
                /\ sources[s] # None =>
                    sources[s].lastSeen \in Days /\ sources[s].lastSeen \in Nat
           /\ \A f \in DOMAIN feeds :
                /\ feeds[f].lastSeen \in Days /\ feeds[f].lastSeen \in Nat
                /\ feeds[f].members \subseteq Sources
<1>1. Days \subseteq Nat
  BY FeedIdsAssumption DEF Days
<1>2. ASSUME NEW s \in Sources
      PROVE  /\ home[s] # None => home[s].day \in Days
             /\ sources[s] # None => sources[s].lastSeen \in Days
  <2>1. home[s] \in Home \cup {None} /\ sources[s] \in Row \cup {None}
    BY DEF TypeInv, TypeOK
  <2> QED
    BY <2>1 DEF Home, Row
<1>3. \A f \in DOMAIN feeds :
        feeds[f].lastSeen \in Days /\ feeds[f].members \subseteq Sources
  BY DEF TypeInv, TypeOK
<1>4. today \in Nat /\ AbsentRetention \in Nat
  BY <1>1, FeedIdsAssumption DEF TypeInv, TypeOK
<1> QED
  BY <1>1, <1>2, <1>3, <1>4

LEMMA InitHome == Init => HomeInv
  BY DEF Init, HomeInv, Dated, Tracked, Housed, NoFeeds

LEMMA NextDayHome ==
    ASSUME TypeInv, HomeInv, NextDay
    PROVE  HomeInv'
<1>1. /\ today' = today + 1 /\ phase' = "none"
      /\ UNCHANGED <<sources, feeds, home, overtaker>>
  BY DEF NextDay
<1>2. ASSUME overtaker = 0 PROVE Dated' /\ Tracked' /\ Housed'
  <2>1. Dated /\ Tracked /\ Housed
    BY <1>2 DEF HomeInv
  <2>2. Dated' /\ Tracked'
    BY <1>1, <2>1 DEF Dated, Tracked
  <2>3. ASSUME NEW s \in Sources, home[s] # None
        PROVE  /\ home[s].day <= today'
               /\ today' - home[s].day <= AbsentRetention => AtHome(s)'
    <3>1. /\ home[s].day \in Nat /\ today \in Nat /\ AbsentRetention \in Nat
          /\ home[s].day <= today
      BY <2>1, <2>3, HomeTypes DEF Housed
    <3>2. today' - home[s].day <= AbsentRetention
            => today - home[s].day <= AbsentRetention
      BY <1>1, <3>1
    <3>3. AtHome(s)' <=> AtHome(s)
      BY <1>1 DEF AtHome
    <3>4. home[s].day <= today'
      BY <1>1, <3>1
    <3> QED
      BY <2>1, <2>3, <3>2, <3>3, <3>4 DEF Housed
  <2>4. Housed'
    BY <1>1, <2>3 DEF Housed
  <2> QED
    BY <2>2, <2>4
<1> QED
  BY <1>1, <1>2 DEF HomeInv

LEMMA RecordHome ==
    ASSUME TypeInv, HomeInv, overtaker = 0,
           runs < MaxRuns, NEW c \in Catalogs[runs + 1], NewRun(c)
    PROVE  Dated' /\ Tracked' /\ Housed'
<1>1. Dated /\ Tracked /\ Housed
  BY DEF HomeInv
<1>2. /\ sources' = [s \in Sources |-> RowAfter(s, c)]
      /\ catalog' = c
      /\ UNCHANGED <<today, feeds, home>>
  BY DEF NewRun
<1>3. Present' = c.present
  BY <1>2, NewRunIs DEF TypeInv, Catalogued
<1>4. ASSUME NEW s \in Sources, s \in c.present
      PROVE  sources'[s].lastSeen = today
  <2>1. sources'[s] = [present |-> TRUE, lastSeen |-> today]
    BY <1>2, <1>4 DEF RowAfter
  <2> QED
    BY <2>1
<1>5. c.present \subseteq Sources
  BY <1>2, NewRunIs DEF TypeInv
<1>6. Dated'
  BY <1>2, <1>3, <1>4, <1>5 DEF Dated
<1>7. Tracked'
  BY <1>1, <1>2 DEF Tracked
<1>8. ASSUME NEW s \in Sources, home[s] # None, home[s].day <= today, AtHome(s)
      PROVE  AtHome(s)'
  <2>1. sources'[s] # None /\ sources'[s].lastSeen >= home[s].day
    <3>1. sources'[s] \in Row \cup {None} /\ sources[s] \in Row
      BY <1>8, NewRunIs DEF TypeInv, TypeOK, AtHome
    <3>2. CASE s \in c.present
      <4>1. sources'[s] = [present |-> TRUE, lastSeen |-> today]
        BY <1>2, <3>2 DEF RowAfter
      <4>2. sources'[s] \in Row
        <5>1. today \in Days
          BY DEF TypeInv, TypeOK
        <5> QED
          BY <4>1, <5>1 DEF Row
      <4>3. sources'[s].lastSeen = today
        BY <4>1
      <4> QED
        BY <1>8, <4>2, <4>3, NoneAssumption, HomeTypes
    <3>3. CASE s \notin c.present
      <4>1. sources'[s] = [sources[s] EXCEPT !.present = FALSE]
        BY <1>2, <1>8, <3>3 DEF RowAfter, AtHome
      <4>2. sources'[s] \in Row /\ sources'[s].lastSeen = sources[s].lastSeen
        BY <3>1, <4>1 DEF Row
      <4> QED
        BY <1>8, <4>2, NoneAssumption DEF AtHome
    <3> QED
      BY <3>2, <3>3
  <2> QED
    BY <1>2, <1>8, <2>1 DEF AtHome
<1>9. Housed'
  BY <1>1, <1>2, <1>8 DEF Housed
<1> QED
  BY <1>6, <1>7, <1>9

LEMMA PersistHome ==
    ASSUME TypeInv, HomeInv, overtaker = 0, Persist
    PROVE  Dated' /\ Tracked' /\ Housed'
<1>1. Dated /\ Tracked /\ Housed
  BY DEF HomeInv
<1>2. /\ Saves(groups, ids) /\ Present' = Present
      /\ today' = today /\ sources' = sources
      /\ \A f \in DOMAIN feeds' : \A s \in feeds'[f].members :
            \/ s \in Present /\ \E g \in groups : s \in g /\ f = ids[g]
            \/ s \notin Present /\ f \in DOMAIN feeds /\ s \in feeds[f].members
      /\ \A g \in groups :
            /\ g \subseteq Present
            /\ ids[g] \in DOMAIN feeds' /\ g \subseteq feeds'[ids[g]].members
  BY PersistIs
<1>3. UNION groups = Present /\ phase = "loaded"
  BY GroupsOfPresent DEF Persist
<1>4. Dated'
  BY <1>1, <1>2, <1>3 DEF Dated
<1>5. \A g \in groups : \A s \in g :
        home'[s] = [feed |-> ids[g], group |-> g, day |-> today]
  BY <1>2 DEF Saves
<1>6. \A s \in Sources : s \notin Present => home'[s] = home[s]
  BY <1>2, <1>3 DEF Saves
<1>7. ASSUME NEW g \in groups, NEW s \in g
      PROVE  /\ home'[s] # None /\ home'[s].feed = ids[g]
             /\ home'[s].day = today
  <2>1. home'[s] = [feed |-> ids[g], group |-> g, day |-> today]
    BY <1>5
  <2>2. home'[s] \in Home
    <3>1. ids[g] \in Ids /\ g \in Groups /\ today \in Days
      BY DEF TypeInv, TypeOK
    <3> QED
      BY <2>1, <3>1 DEF Home
  <2>3. home'[s].feed = ids[g] /\ home'[s].day = today
    BY <2>1
  <2> QED
    BY <2>2, <2>3, NoneAssumption
<1>8. Tracked'
  <2> SUFFICES ASSUME NEW f \in DOMAIN feeds', NEW s \in feeds'[f].members
               PROVE  home'[s] # None /\ home'[s].feed = f
    BY DEF Tracked
  <2>1. CASE s \in Present
    BY <1>2, <1>7, <2>1
  <2>2. CASE s \notin Present
    <3>1. f \in DOMAIN feeds /\ s \in feeds[f].members /\ s \in Sources
      BY <1>2, <2>2, HomeTypes
    <3> QED
      BY <1>1, <1>6, <2>2, <3>1 DEF Tracked
  <2> QED
    BY <2>1, <2>2
<1>9. ASSUME NEW f \in DOMAIN feeds
      PROVE  /\ f \in DOMAIN feeds' /\ Remaining(f) \subseteq feeds'[f].members
             /\ feeds'[f].lastSeen \in {today, feeds[f].lastSeen}
  <2>1. f \in DOMAIN feeds'
    BY <1>2 DEF Saves
  <2>2. CASE f \in Range(ids)
    <3>1. PICK g \in groups : f = ids[g]
      BY <2>2 DEF Range, TypeInv, TypeOK
    <3>2. feeds'[ids[g]] =
            [members |-> g \cup (IF ids[g] \in DOMAIN feeds
                                 THEN Remaining(ids[g]) ELSE {}),
             present |-> TRUE, lastSeen |-> today]
      BY <1>2 DEF Saves
    <3>3. feeds'[f].members = g \cup Remaining(f) /\ feeds'[f].lastSeen = today
      BY <3>1, <3>2
    <3> QED
      BY <2>1, <3>3
  <2>3. CASE f \notin Range(ids)
    <3>1. feeds'[f] = [members |-> Remaining(f), present |-> FALSE,
                       lastSeen |-> feeds[f].lastSeen]
      BY <1>2, <2>3 DEF Saves
    <3> QED
      BY <2>1, <3>1
  <2> QED
    BY <2>2, <2>3
<1>10. ASSUME NEW g \in groups, NEW s \in g PROVE AtHome(s)'
  <2>1. s \in Present /\ s \in Sources
    BY <1>2 DEF Present
  <2>2. sources[s] # None /\ sources[s].lastSeen = today
    BY <1>1, <1>3, <2>1 DEF Dated, Present
  <2>3. ids[g] \in DOMAIN feeds' /\ s \in feeds'[ids[g]].members
    BY <1>2
  <2>4. feeds'[ids[g]].lastSeen = today
    <3>1. feeds'[ids[g]] =
            [members |-> g \cup (IF ids[g] \in DOMAIN feeds
                                 THEN Remaining(ids[g]) ELSE {}),
             present |-> TRUE, lastSeen |-> today]
      BY <1>2 DEF Saves
    <3> QED
      BY <3>1
  <2>5. today >= today
    BY HomeTypes
  <2> QED
    BY <1>2, <1>7, <2>2, <2>3, <2>4, <2>5 DEF AtHome
<1>11. ASSUME NEW s \in Sources, s \notin Present,
              home[s] # None, home[s].day <= today, AtHome(s)
       PROVE  AtHome(s)'
  <2> DEFINE f == home[s].feed
  <2>1. home'[s] = home[s]
    BY <1>6, <1>11
  <2>2. /\ f \in DOMAIN feeds /\ s \in Remaining(f)
        /\ feeds[f].lastSeen >= home[s].day
    BY <1>11 DEF AtHome, Remaining
  <2>3. /\ f \in DOMAIN feeds' /\ s \in feeds'[f].members
        /\ feeds'[f].lastSeen \in {today, feeds[f].lastSeen}
    BY <1>9, <2>2
  <2>4. today >= home[s].day
    BY <1>11, HomeTypes
  <2>5. feeds'[f].lastSeen >= home[s].day
    BY <2>2, <2>3, <2>4
  <2> QED
    BY <1>2, <1>11, <2>1, <2>3, <2>5 DEF AtHome
<1>12. ASSUME NEW s \in Sources, home'[s] # None
       PROVE  /\ home'[s].day <= today
              /\ today - home'[s].day <= AbsentRetention => AtHome(s)'
  <2>1. CASE s \in Present
    <3>1. PICK g \in groups : s \in g
      BY <1>3, <2>1
    <3>2. today <= today
      BY HomeTypes
    <3> QED
      BY <1>7, <1>10, <3>1, <3>2
  <2>2. CASE s \notin Present
    BY <1>1, <1>6, <1>11, <1>12, <2>2 DEF Housed
  <2> QED
    BY <2>1, <2>2
<1>13. Housed'
  BY <1>2, <1>12 DEF Housed
<1> QED
  BY <1>4, <1>8, <1>13

LEMMA PruneHome ==
    ASSUME TypeInv, HomeInv, overtaker = 0, Prune
    PROVE  Dated' /\ Tracked' /\ Housed'
<1>1. Dated /\ Tracked /\ Housed
  BY DEF HomeInv
<1>2. /\ UNCHANGED <<today, phase, home>>
      /\ Present' = Present
      /\ \A s \in Sources : sources[s] # None =>
            \/ sources'[s] = sources[s]
            \/ Expired(sources[s]) /\ sources'[s] = None
      /\ DOMAIN feeds' = {f \in DOMAIN feeds : ~Expired(feeds[f])}
      /\ \A f \in DOMAIN feeds' :
            /\ feeds'[f].lastSeen = feeds[f].lastSeen
            /\ feeds'[f].members =
                {s \in feeds[f].members :
                    sources[s] = None \/ ~Expired(sources[s])}
  BY PruneIs
<1>3. \A s \in Present : s \in Sources /\ sources'[s] = sources[s]
  BY <1>2 DEF Present, Expired
<1>4. Dated'
  BY <1>1, <1>2, <1>3 DEF Dated
<1>5. Tracked'
  BY <1>1, <1>2 DEF Tracked
<1>6. ASSUME NEW s \in Sources, home[s] # None, AtHome(s),
             home[s].day <= today, today - home[s].day <= AbsentRetention
      PROVE  AtHome(s)'
  <2> DEFINE f == home[s].feed
  <2>1. /\ sources[s] # None /\ sources[s].lastSeen >= home[s].day
        /\ f \in DOMAIN feeds /\ feeds[f].lastSeen >= home[s].day
        /\ s \in feeds[f].members
    BY <1>6 DEF AtHome
  <2>2. /\ today \in Nat /\ AbsentRetention \in Nat /\ home[s].day \in Nat
        /\ sources[s].lastSeen \in Nat /\ feeds[f].lastSeen \in Nat
    BY <1>6, <2>1, HomeTypes
  <2>3. ~Expired(sources[s]) /\ ~Expired(feeds[f])
    BY <1>6, <2>1, <2>2 DEF Expired
  <2>4. sources'[s] = sources[s]
    BY <1>2, <2>1, <2>3
  <2>5. f \in DOMAIN feeds'
    BY <1>2, <2>1, <2>3
  <2>6. feeds'[f].lastSeen = feeds[f].lastSeen /\ s \in feeds'[f].members
    BY <1>2, <2>1, <2>3, <2>5
  <2> QED
    BY <1>2, <2>1, <2>4, <2>5, <2>6 DEF AtHome
<1>7. Housed'
  BY <1>1, <1>2, <1>6 DEF Housed
<1> QED
  BY <1>4, <1>5, <1>7

LEMMA HomeStep ==
    ASSUME TypeInv, HomeInv, [Next]_vars
    PROVE  HomeInv'
<1>1. ASSUME UNCHANGED <<today, sources, feeds, home, overtaker>>,
             phase' # "none" => phase # "none"
      PROVE  HomeInv'
  <2>1. Present' = Present
    BY <1>1 DEF Present
  <2> QED
    BY <1>1, <2>1 DEF HomeInv, Dated, Tracked, Housed, AtHome
<1>2. CASE Load
  BY <1>1, <1>2 DEF Load
<1>3. CASE UNCHANGED vars
  BY <1>1, <1>3 DEF vars
<1>4. CASE LateLoad
  BY <1>1, <1>4 DEF LateLoad
<1>5. CASE LatePersist
  <2>1. late.phase = "loaded" /\ overtaker' = overtaker
    BY <1>5 DEF LatePersist, Save
  <2> QED
    BY <2>1, CalmNotLate DEF HomeInv
<1>6. CASE Persist \/ Prune
  <2>1. overtaker' = overtaker
    BY <1>6, PruneIs DEF Persist, Save
  <2> QED
    BY <1>6, <2>1, PersistHome, PruneHome DEF HomeInv
<1>7. ASSUME runs < MaxRuns, NEW c \in Catalogs[runs + 1], Record(c)
      PROVE  HomeInv'
  BY <1>7, RecordHome DEF Record, HomeInv
<1>8. ASSUME runs < MaxRuns, NEW c \in Catalogs[runs + 1], Overtake(c)
      PROVE  HomeInv'
  <2>1. overtaker' = runs' /\ NewRun(c)
    BY <1>8 DEF Overtake
  <2>2. overtaker' # 0
    BY <1>8, <2>1, NewRunIs DEF TypeInv
  <2> QED
    BY <2>2 DEF HomeInv
<1> QED
  BY <1>2, <1>3, <1>4, <1>5, <1>6, <1>7, <1>8, NextDayHome DEF Next

(* A group that comes back while its members' rows and its feed are kept   *)
(* gets the id it had, if none of them has been in another group since and *)
(* nobody else comes from that feed.                                       *)
THEOREM Returns == Spec => UndisturbedGroupReturns
<1>1. Spec => [](TypeInv /\ HomeInv)
  <2>1. TypeInv /\ HomeInv /\ [Next]_vars => HomeInv'
    BY HomeStep
  <2> QED
    BY <2>1, InitHome, TypeInvHolds, PTL DEF Spec
<1>2. ASSUME TypeInv, HomeInv, [Next]_vars, Loading, overtaker = 0,
             NEW g \in groups', NEW f \in Ids,
             \A s \in g : /\ home[s] # None
                          /\ home[s].feed = f
                          /\ today - home[s].day <= AbsentRetention,
             \A s \in (UNION groups') \ g : home[s] = None \/ home[s].feed # f
      PROVE  ids'[g] = f
  <2>1. Load
    BY <1>2, OnlyLoads
  <2>2. groups' = Found
    BY <2>1 DEF Load, Found
  <2>3. PICK owner \in Owners(Existing) : ids' = AssignIds(Existing, owner, Found)
    BY <2>1 DEF Load, Found
  <2>4. DOMAIN Existing = DOMAIN feeds /\ DOMAIN Existing \in SUBSET Ids
    BY <1>2, ExistingIs DEF TypeInv, TypeOK
  <2>5. Grouped(Found)
    BY <1>2, FoundIs DEF TypeInv
  <2> HIDE DEF Found
  <2>6. /\ \A h \in Found : ids'[h] \in DOMAIN Existing => Overlap(owner, h, ids'[h]) > 0
        /\ \A h \in Found, e \in DOMAIN Existing :
                Overlap(owner, h, e) > 0 =>
                    \/ /\ ids'[h] \in DOMAIN Existing
                       /\ Overlap(owner, h, ids'[h]) >= Overlap(owner, h, e)
                    \/ \E k \in Found :
                        /\ ids'[k] = e
                        /\ Overlap(owner, k, e) >= Overlap(owner, h, e)
    BY <2>3, <2>4, <2>5, IdsFollow
  <2>7. /\ owner \in Owning
        /\ \A s \in Sources : s \in DOMAIN owner <=>
            \E e \in DOMAIN Existing : s \in Existing[e]
        /\ \A s \in DOMAIN owner : /\ owner[s] \in DOMAIN Existing
                                   /\ s \in Existing[owner[s]]
    BY <2>4, OwnersOwn
  <2>8. \A h \in Found : h \in SUBSET Sources /\ h # {}
    BY <2>5 DEF Grouped, Groups
  <2>9. Tracked /\ Housed
    BY <1>2 DEF HomeInv
  <2>10. \A s \in DOMAIN owner : home[s] # None /\ owner[s] = home[s].feed
    BY <2>4, <2>7, <2>9, ExistingIs DEF Tracked
  <2>11. ASSUME NEW s \in g PROVE s \in DOMAIN owner /\ owner[s] = f /\ f \in DOMAIN feeds
    <3>1. s \in Sources /\ home[s] # None /\ home[s].feed = f
      BY <1>2, <2>2, <2>8
    <3>2. AtHome(s)
      BY <1>2, <2>9, <3>1 DEF Housed
    <3>3. f \in DOMAIN feeds /\ s \in feeds[f].members
      BY <3>1, <3>2 DEF AtHome
    <3> QED
      BY <2>4, <2>7, <2>10, <3>1, <3>3, ExistingIs
  <2>12. f \in DOMAIN Existing /\ Overlap(owner, g, f) > 0
    BY <2>2, <2>4, <2>7, <2>8, <2>11, OverlapIs
  <2>13. ASSUME NEW e, Overlap(owner, g, e) > 0 PROVE e = f
    BY <2>2, <2>7, <2>8, <2>11, <2>13, OverlapIs
  <2>14. ASSUME NEW h \in Found, Overlap(owner, h, f) > 0 PROVE h = g
    <3>1. PICK s \in h \cap DOMAIN owner : owner[s] = f
      BY <2>7, <2>8, <2>14, OverlapIs
    <3>2. s \in g
      BY <1>2, <2>2, <2>10, <3>1
    <3> QED
      BY <2>2, <2>5, <3>1, <3>2 DEF Grouped
  <2>15. CASE ids'[g] \in DOMAIN Existing
    BY <2>2, <2>6, <2>13, <2>15
  <2>16. CASE \E k \in Found : /\ ids'[k] = f
                               /\ Overlap(owner, k, f) >= Overlap(owner, g, f)
    <3>1. PICK k \in Found : /\ ids'[k] = f
                             /\ Overlap(owner, k, f) >= Overlap(owner, g, f)
      BY <2>16
    <3>2. Overlap(owner, k, f) \in Nat /\ Overlap(owner, g, f) \in Nat
      BY <2>2, <2>7, <2>8, OverlapIs
    <3>3. Overlap(owner, k, f) > 0
      BY <2>12, <3>1, <3>2
    <3> QED
      BY <2>14, <3>1, <3>3
  <2> QED
    BY <2>2, <2>6, <2>12, <2>15, <2>16
<1>3. TypeInv /\ HomeInv /\ [Next]_vars =>
      [Loading /\ overtaker = 0 => \A g \in groups' : \A f \in Ids :
        /\ \A s \in g : /\ home[s] # None
                        /\ home[s].feed = f /\ home[s].group = g
                        /\ today - home[s].day <= AbsentRetention
        /\ \A s \in (UNION groups') \ g : home[s] = None \/ home[s].feed # f
        => ids'[g] = f]_vars
  BY <1>2
<1> QED
  BY <1>1, <1>3, PTL DEF Spec, UndisturbedGroupReturns
=============================================================================
