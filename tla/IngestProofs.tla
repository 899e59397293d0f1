---------------------------- MODULE IngestProofs ----------------------------
(***************************************************************************)
(* What holds of the ingest whatever the catalogs list.                    *)
(*                                                                         *)
(* The pages of the Mobility Database: the windows that fetch_window has   *)
(* still to fetch tile the rest of the page, from where the rows so far    *)
(* and the records given up on end to where the next page begins.  So what *)
(* the client has and what the list holds from there on are together what  *)
(* it will have in the end if nothing else happens.  Nothing but a record  *)
(* that is withdrawn, or given up on, takes from that, and nothing but one *)
(* that is added makes it hold something twice.                            *)
(*                                                                         *)
(* The rows: each catalog's have numbers of its own and one row of an id,  *)
(* so that merging them loses none, and linking them changes only links    *)
(* and places.  The feeds: the URLs of a role are ranked by a total order, *)
(* so that each has its place in the list, and the list says of the role   *)
(* and of the feed what the rows say.                                      *)
(*                                                                         *)
(* The corpus: every entry of the documents that were read has a place in  *)
(* the whole, and the places keep the order of the files.  So what comes   *)
(* first in the whole comes first in what was read, if it was read.        *)
(***************************************************************************)
EXTENDS Ingest, Inductions, SequenceTheorems

Records == DOMAIN MobilityEntry
WindowSet == [limit: Nat, offset: Nat]

-----------------------------------------------------------------------------
(* The windows of a page                                                   *)

Within(ws, from, to) == \A i \in DOMAIN ws :
    ws[i].limit >= 1 /\ from <= ws[i].offset /\ ws[i].offset + ws[i].limit <= to

Tiled(ws, from, to) ==
    /\ ws # <<>>
    /\ ws[1].offset = from
    /\ \A i \in 1 .. Len(ws) - 1 : ws[i + 1].offset = ws[i].offset + ws[i].limit
    /\ ws[Len(ws)].offset + ws[Len(ws)].limit = to

LEMMA OneWindow ==
    ASSUME NEW size \in Nat \ {0}, NEW start \in Nat,
           NEW ws, ws = <<MD!Window(size, start)>>
    PROVE  /\ ws \in Seq(WindowSet)
           /\ Within(ws, start, start + size)
           /\ Tiled(ws, start, start + size)
<1>1. MD!Window(size, start) \in WindowSet
  BY DEF MD!Window, WindowSet
<1>2. ws \in Seq(WindowSet) /\ Len(ws) = 1
  BY <1>1
<1>3. ws[1].limit = size /\ ws[1].offset = start
  BY DEF MD!Window
<1> QED
  BY <1>2, <1>3 DEF Within, Tiled

LEMMA NextWindow ==
    ASSUME NEW ws \in Seq(WindowSet), NEW lo \in Nat, NEW from \in Nat,
           NEW to \in Nat, Within(ws, lo, to), Tiled(ws, from, to), Len(ws) # 1
    PROVE  /\ Tail(ws) \in Seq(WindowSet)
           /\ Within(Tail(ws), lo, to)
           /\ Tiled(Tail(ws), from + ws[1].limit, to)
<1>1. ws # <<>> /\ Len(ws) \in Nat /\ Len(ws) >= 2
  <2>1. ws # <<>> /\ Len(ws) \in Nat /\ Len(ws) >= 1
    BY DEF Tiled
  <2>2. Len(ws) # 1
    OBVIOUS
  <2> HIDE DEF Tiled
  <2>3. \A n \in Nat : n >= 1 /\ n # 1 => n >= 2
    OBVIOUS
  <2> QED
    BY <2>1, <2>2, <2>3
<1>2. /\ Tail(ws) \in Seq(WindowSet) /\ Len(Tail(ws)) = Len(ws) - 1
      /\ \A i \in 1 .. Len(Tail(ws)) : Tail(ws)[i] = ws[i + 1]
  BY <1>1, HeadTailProperties
<1> DEFINE t == Tail(ws)
<1> HIDE DEF t
<1>3. /\ t \in Seq(WindowSet) /\ Len(t) = Len(ws) - 1 /\ DOMAIN t = 1 .. Len(t)
      /\ \A i \in 1 .. Len(t) : t[i] = ws[i + 1]
  BY <1>2 DEF t
<1>4. Within(t, lo, to)
  <2>1. ASSUME NEW i \in DOMAIN t PROVE i + 1 \in DOMAIN ws /\ t[i] = ws[i + 1]
    BY <1>1, <1>3
  <2> QED
    BY <2>1 DEF Within
<1>5. t # <<>> /\ t[1] = ws[2] /\ t[Len(t)] = ws[Len(ws)]
  BY <1>1, <1>3
<1>6. t[1].offset = from + ws[1].limit
  BY <1>1, <1>5 DEF Tiled
<1>7. ASSUME NEW i \in 1 .. Len(t) - 1
      PROVE  t[i + 1].offset = t[i].offset + t[i].limit
  <2>1. t[i] = ws[i + 1] /\ t[i + 1] = ws[(i + 1) + 1]
    BY <1>1, <1>3
  <2>2. i + 1 \in 1 .. Len(ws) - 1
    BY <1>1, <1>3
  <2> QED
    BY <2>1, <2>2 DEF Tiled
<1>8. Tiled(t, from + ws[1].limit, to)
  BY <1>5, <1>6, <1>7 DEF Tiled
<1> QED
  BY <1>3, <1>4, <1>8 DEF t

LEMMA HalvedWindow ==
    ASSUME NEW ws \in Seq(WindowSet), NEW lo \in Nat, NEW from \in Nat,
           NEW to \in Nat, Within(ws, lo, to), Tiled(ws, from, to),
           ws[1].limit > 1
    PROVE  /\ MD!Halves(ws[1]) \o Tail(ws) \in Seq(WindowSet)
           /\ Within(MD!Halves(ws[1]) \o Tail(ws), lo, to)
           /\ Tiled(MD!Halves(ws[1]) \o Tail(ws), from, to)
<1>1. ws # <<>> /\ Len(ws) \in Nat /\ Len(ws) >= 1 /\ ws[1] \in WindowSet
  BY DEF Tiled
<1> DEFINE w == ws[1]
           half == w.limit \div 2
           a == MD!Window(half, w.offset)
           b == MD!Window(w.limit - half, w.offset + half)
           t == Tail(ws)
<1>2. /\ t \in Seq(WindowSet) /\ Len(t) = Len(ws) - 1
      /\ \A i \in 1 .. Len(t) : t[i] = ws[i + 1]
  BY <1>1, HeadTailProperties
<1>3. w.limit \in Nat /\ w.offset \in Nat /\ w.limit > 1
  BY <1>1 DEF WindowSet
<1>4. half \in Nat /\ half >= 1 /\ w.limit - half \in Nat /\ w.limit - half >= 1
  <2> HIDE DEF w
  <2> QED
    BY <1>3
<1>5. /\ a.limit = half /\ a.offset = w.offset
      /\ b.limit = w.limit - half /\ b.offset = w.offset + half
  BY DEF MD!Window
<1> HIDE DEF half
<1>6. a \in WindowSet /\ b \in WindowSet
  BY <1>3, <1>4 DEF MD!Window, WindowSet
<1> DEFINE ab == <<a, b>>
           hs == MD!Halves(ws[1]) \o Tail(ws)
<1>7. hs = ab \o t
  BY DEF MD!Halves, half
<1> HIDE DEF w, a, b, t, hs
<1>8. ab \in Seq(WindowSet) /\ Len(ab) = 2 /\ ab[1] = a /\ ab[2] = b
  BY <1>6
<1> HIDE DEF ab
<1>9. /\ hs \in Seq(WindowSet) /\ Len(hs) = Len(ws) + 1
      /\ hs[1] = a /\ hs[2] = b
      /\ \A i \in 3 .. Len(hs) : hs[i] = ws[i - 1]
  <2>1. /\ hs \in Seq(WindowSet) /\ Len(hs) = 2 + Len(t)
        /\ \A i \in 1 .. 2 + Len(t) :
            hs[i] = IF i <= 2 THEN ab[i] ELSE t[i - 2]
    <3>1. /\ ab \o t \in Seq(WindowSet) /\ Len(ab \o t) = Len(ab) + Len(t)
          /\ \A i \in 1 .. Len(ab) + Len(t) :
            (ab \o t)[i] = IF i <= Len(ab) THEN ab[i] ELSE t[i - Len(ab)]
      BY <1>2, <1>8, ConcatProperties
    <3> QED
      BY <1>7, <1>8, <3>1
  <2>2. Len(hs) = Len(ws) + 1 /\ Len(t) \in Nat
    BY <1>1, <1>2, <2>1
  <2>3. hs[1] = a /\ hs[2] = b
    BY <1>8, <2>1, <2>2
  <2>4. ASSUME NEW i \in 3 .. Len(hs) PROVE hs[i] = ws[i - 1]
    <3>1. i \in Int /\ i - 2 \in 1 .. Len(t) /\ i \in 1 .. 2 + Len(t) /\ ~(i <= 2)
      BY <2>2, <2>1
    <3>2. hs[i] = t[i - 2] /\ t[i - 2] = ws[(i - 2) + 1]
      BY <1>2, <2>1, <3>1
    <3>3. (i - 2) + 1 = i - 1
      BY <3>1
    <3> QED
      BY <3>2, <3>3
  <2> QED
    BY <2>1, <2>2, <2>3, <2>4
<1>10. \A i \in 1 .. Len(ws) : ws[i] \in WindowSet
  OBVIOUS
<1>11. \A i \in 1 .. Len(ws) : ws[i].limit \in Nat /\ ws[i].offset \in Nat
  BY <1>10 DEF WindowSet
<1>12. Within(hs, lo, to)
  <2>1. /\ a.limit >= 1 /\ lo <= a.offset /\ a.offset + a.limit <= to
        /\ b.limit >= 1 /\ lo <= b.offset /\ b.offset + b.limit <= to
    <3>1. lo <= w.offset /\ w.offset + w.limit <= to
      BY <1>1 DEF Within, w
    <3> QED
      BY <1>3, <1>4, <1>5, <3>1
  <2>2. ASSUME NEW i \in 3 .. Len(hs) PROVE i - 1 \in DOMAIN ws /\ hs[i] = ws[i - 1]
    BY <1>1, <1>9
  <2>3. DOMAIN hs = 1 .. Len(hs) /\ Len(hs) \in Nat
    BY <1>9
  <2>4. ASSUME NEW i \in DOMAIN hs PROVE i = 1 \/ i = 2 \/ i \in 3 .. Len(hs)
    <3>1. i \in Int /\ 1 <= i /\ i <= Len(hs)
      BY <2>3
    <3> QED
      BY <2>3, <3>1
  <2> QED
    BY <1>9, <2>1, <2>2, <2>4 DEF Within
<1>13. Tiled(hs, from, to)
  <2>1. hs # <<>> /\ hs[1].offset = from
    BY <1>1, <1>5, <1>9 DEF Tiled, w
  <2>2. ASSUME NEW i \in 1 .. Len(hs) - 1
        PROVE  hs[i + 1].offset = hs[i].offset + hs[i].limit
    <3>1. CASE i = 1
      BY <1>5, <1>9, <3>1
    <3>2. CASE i = 2
      <4>1. 3 \in 3 .. Len(hs) /\ Len(ws) >= 2
        BY <1>1, <1>9, <3>2
      <4>2. hs[3] = ws[2] /\ ws[2].offset = w.offset + w.limit
        BY <1>1, <1>9, <4>1 DEF Tiled, w
      <4> QED
        BY <1>3, <1>4, <1>5, <1>9, <3>2, <4>2
    <3>3. CASE i >= 3
      <4>1. i \in Int /\ i \in 3 .. Len(hs) /\ i + 1 \in 3 .. Len(hs)
        BY <1>1, <1>9, <3>3
      <4>2. i - 1 \in 1 .. Len(ws) - 1 /\ (i + 1) - 1 = (i - 1) + 1
        BY <1>1, <1>9, <4>1
      <4>3. hs[i] = ws[i - 1] /\ hs[i + 1] = ws[(i - 1) + 1]
        BY <1>9, <4>1, <4>2
      <4> QED
        BY <4>2, <4>3 DEF Tiled
    <3>4. i = 1 \/ i = 2 \/ i >= 3
      BY <1>1, <1>9
    <3> QED
      BY <3>1, <3>2, <3>3, <3>4
  <2>3. hs[Len(hs)].offset + hs[Len(hs)].limit = to
    <3>1. CASE Len(ws) = 1
      <4>1. hs[Len(hs)] = b
        BY <1>9, <3>1
      <4>2. w.offset + w.limit = to
        BY <3>1 DEF Tiled, w
      <4> QED
        BY <1>3, <1>4, <1>5, <4>1, <4>2
    <3>2. CASE Len(ws) # 1
      <4>1. Len(hs) \in 3 .. Len(hs) /\ Len(hs) - 1 = Len(ws)
        <5>1. \A n \in Nat : n >= 1 /\ n # 1 => n + 1 >= 3 /\ (n + 1) - 1 = n
          OBVIOUS
        <5>2. Len(ws) + 1 >= 3 /\ (Len(ws) + 1) - 1 = Len(ws)
          BY <1>1, <3>2, <5>1
        <5> QED
          BY <1>1, <1>9, <5>2
      <4>2. hs[Len(hs)] = ws[Len(ws)]
        BY <1>9, <4>1
      <4> QED
        BY <4>2 DEF Tiled
    <3> QED
      BY <3>1, <3>2
  <2> QED
    BY <2>1, <2>2, <2>3 DEF Tiled
<1> QED
  BY <1>9, <1>12, <1>13 DEF hs

-----------------------------------------------------------------------------
(* What a window reads, and what is ahead of it                            *)

Elems(s) == {s[i] : i \in DOMAIN s}

Ahead(s, c) == {s[j] : j \in c + 1 .. Len(s)}
Left(s, c) == IF c < Len(s) THEN Len(s) - c ELSE 0

RowsFrom(s, c, l) == SubSeq(s, c + 1, IF c + l < Len(s) THEN c + l ELSE Len(s))

Reads(s, c, l, rows) ==
    /\ rows \in Seq(Records)
    /\ Left(s, c) \in Nat
    /\ Len(rows) = IF l <= Left(s, c) THEN l ELSE Left(s, c)
    /\ Ahead(s, c) = Elems(rows) \cup Ahead(s, c + l)
    /\ Left(s, c) = Len(rows) + Left(s, c + l)

LEMMA WindowReads ==
    ASSUME NEW s \in Seq(Records), NEW c \in Nat, NEW l \in Nat \ {0}
    PROVE  Reads(s, c, l, RowsFrom(s, c, l))
<1> DEFINE e == IF c + l < Len(s) THEN c + l ELSE Len(s)
           rows == SubSeq(s, c + 1, e)
<1>1. Len(s) \in Nat
  OBVIOUS
<1>2. e \in Nat /\ e <= Len(s) /\ e <= c + l
  BY <1>1
<1>3. \A i \in c + 1 .. e : s[i] \in Records
  BY <1>1, <1>2
<1>4. e = c + l \/ (e = Len(s) /\ c + l >= Len(s))
  BY <1>1
<1> HIDE DEF e
<1>5. /\ rows \in Seq(Records)
      /\ Len(rows) = IF c + 1 <= e THEN e - (c + 1) + 1 ELSE 0
      /\ \A i \in 1 .. e - (c + 1) + 1 : rows[i] = s[(c + 1) + i - 1]
  <2>1. c + 1 \in Int /\ e \in Int
    BY <1>2
  <2> QED
    BY <1>3, <2>1, SubSeqProperties
<1>6. RowsFrom(s, c, l) = rows
  BY DEF RowsFrom, e
<1> HIDE DEF rows
<1>7. Left(s, c) \in Nat /\ Left(s, c + l) \in Nat
  BY <1>1 DEF Left
<1>8. Len(rows) = IF l <= Left(s, c) THEN l ELSE Left(s, c)
  BY <1>1, <1>2, <1>4, <1>5 DEF Left
<1>9. Left(s, c) = Len(rows) + Left(s, c + l)
  <2>1. CASE c < Len(s)
    <3>1. Left(s, c) = Len(s) - c
      BY <2>1 DEF Left
    <3>2. CASE c + l < Len(s)
      BY <1>1, <1>8, <3>1, <3>2 DEF Left
    <3>3. CASE ~(c + l < Len(s))
      BY <1>1, <1>8, <3>1, <3>3 DEF Left
    <3> QED
      BY <3>2, <3>3
  <2>2. CASE ~(c < Len(s))
    <3>1. l >= 1 /\ ~(c + l < Len(s))
      BY <1>1, <2>2
    <3>2. Left(s, c) = 0 /\ Left(s, c + l) = 0
      BY <2>2, <3>1 DEF Left
    <3>3. Len(rows) = 0
      BY <1>8, <3>1, <3>2
    <3> QED
      BY <3>2, <3>3
  <2> QED
    BY <2>1, <2>2
<1>10. Elems(rows) = {s[j] : j \in c + 1 .. e}
  <2>1. DOMAIN rows = 1 .. Len(rows) /\ Len(rows) \in Nat
    BY <1>5
  <2>2. ASSUME NEW i \in DOMAIN rows PROVE c + i \in c + 1 .. e /\ rows[i] = s[c + i]
    <3>1. i \in Int /\ i \in 1 .. e - (c + 1) + 1 /\ (c + 1) + i - 1 = c + i
      BY <1>2, <1>5, <2>1
    <3> QED
      BY <1>2, <1>5, <3>1
  <2>3. ASSUME NEW j \in c + 1 .. e PROVE j - c \in DOMAIN rows /\ rows[j - c] = s[j]
    <3>1. j \in Int /\ j - c \in 1 .. e - (c + 1) + 1 /\ (c + 1) + (j - c) - 1 = j
      BY <1>2
    <3>2. Len(rows) = e - (c + 1) + 1
      BY <1>2, <1>5
    <3> QED
      BY <1>5, <2>1, <3>1, <3>2
  <2> QED
    BY <2>2, <2>3 DEF Elems
<1>11. Ahead(s, c) = Elems(rows) \cup Ahead(s, c + l)
  <2>1. ASSUME NEW j \in c + 1 .. Len(s)
        PROVE  j \in c + 1 .. e \/ j \in (c + l) + 1 .. Len(s)
    BY <1>1, <1>2, <1>4
  <2>2. (c + 1 .. e) \subseteq c + 1 .. Len(s)
    BY <1>1, <1>2
  <2>3. ((c + l) + 1 .. Len(s)) \subseteq c + 1 .. Len(s)
    BY <1>1
  <2> QED
    BY <1>10, <2>1, <2>2, <2>3 DEF Ahead
<1> QED
  BY <1>5, <1>6, <1>7, <1>8, <1>9, <1>11 DEF Reads

LEMMA ElemsAreFinite ==
    ASSUME NEW S, NEW s \in Seq(S)
    PROVE  /\ IsFiniteSet(Elems(s)) /\ Elems(s) \subseteq S
           /\ Cardinality(Elems(s)) \in Nat /\ Cardinality(Elems(s)) <= Len(s)
           /\ IsInjective(s) => Cardinality(Elems(s)) = Len(s)
<1>1. /\ Len(s) \in Nat /\ DOMAIN s = 1 .. Len(s)
      /\ s \in [1 .. Len(s) -> Elems(s)] /\ Elems(s) \subseteq S
  BY DEF Elems
<1>2. s \in Surjection(1 .. Len(s), Elems(s))
  BY <1>1 DEF Surjection, Elems
<1>3. IsFiniteSet(1 .. Len(s)) /\ Cardinality(1 .. Len(s)) = Len(s)
  BY <1>1, FS_Interval
<1>4. /\ IsFiniteSet(Elems(s)) /\ Cardinality(Elems(s)) <= Len(s)
      /\ Cardinality(Elems(s)) = Len(s) <=>
            s \in Injection(1 .. Len(s), Elems(s))
  <2> HIDE DEF Elems
  <2> QED
    BY <1>2, <1>3, FS_Surjection
<1>5. IsInjective(s) => s \in Injection(1 .. Len(s), Elems(s))
  BY <1>1 DEF Injection
<1> QED
  BY <1>1, <1>4, <1>5, FS_CardinalityType

LEMMA ElemsOfBoth ==
    ASSUME NEW S, NEW s \in Seq(S), NEW t \in Seq(S)
    PROVE  /\ s \o t \in Seq(S) /\ Len(s \o t) = Len(s) + Len(t)
           /\ Elems(s \o t) = Elems(s) \cup Elems(t)
<1>1. /\ s \o t \in Seq(S) /\ Len(s \o t) = Len(s) + Len(t)
      /\ Range(s \o t) = Range(s) \cup Range(t)
  BY ConcatProperties, RangeConcatenation
<1> QED
  BY <1>1 DEF Range, Elems

LEMMA AheadIsFinite ==
    ASSUME NEW s \in Seq(Records), NEW c \in Nat
    PROVE  /\ Ahead(s, c) \subseteq Elems(s)
           /\ IsFiniteSet(Ahead(s, c))
<1>1. Ahead(s, c) \subseteq Elems(s)
  BY DEF Ahead, Elems
<1>2. IsFiniteSet(Elems(s))
  BY ElemsAreFinite
<1> QED
  BY <1>1, <1>2, FS_Subset

-----------------------------------------------------------------------------
(* The account of a list: n rows have been read from it, of the records    *)
(* in got; st are the records that have been in it all along.  Once it is  *)
(* read as it stands, no more of those than g are missing, and no more     *)
(* than a are there again.                                                 *)

Missing(st, seen) == (st \ Bad) \ seen

Accounted(n, got, s, c, st, g, a) ==
    /\ Cardinality(Missing(st, got \cup Ahead(s, c))) <= g
    /\ (n + Left(s, c)) - Cardinality(got \cup Ahead(s, c)) <= a

(* Reading on does not change what is expected.                            *)
LEMMA AccountRead ==
    ASSUME NEW s \in Seq(Records), NEW c \in Nat, NEW l \in Nat \ {0},
           NEW n \in Nat, NEW got, NEW st, NEW g, NEW a,
           Accounted(n, got, s, c, st, g, a)
    PROVE  Accounted(n + Len(RowsFrom(s, c, l)), got \cup Elems(RowsFrom(s, c, l)),
                     s, c + l, st, g, a)
<1> DEFINE rows == RowsFrom(s, c, l)
<1>0. Reads(s, c, l, rows)
  BY WindowReads
<1> HIDE DEF rows
<1>1. /\ rows \in Seq(Records) /\ Ahead(s, c) = Elems(rows) \cup Ahead(s, c + l)
      /\ Left(s, c) = Len(rows) + Left(s, c + l)
  BY <1>0 DEF Reads
<1>2. Len(rows) \in Nat /\ Left(s, c + l) \in Nat
  BY <1>1 DEF Left
<1> DEFINE A == got \cup Ahead(s, c)
           B == (got \cup Elems(rows)) \cup Ahead(s, c + l)
           p == n + Left(s, c)
           q == (n + Len(rows)) + Left(s, c + l)
<1>3. A = B
  BY <1>1
<1>4. p = q
  BY <1>1, <1>2
<1>5. Accounted(n + Len(rows), got \cup Elems(rows), s, c + l, st, g, a)
  <2>1. Cardinality(Missing(st, A)) <= g /\ p - Cardinality(A) <= a
    BY DEF Accounted
  <2> HIDE DEF A, B, p, q
  <2>2. Cardinality(Missing(st, B)) <= g /\ q - Cardinality(B) <= a
    BY <1>3, <1>4, <2>1
  <2> QED
    BY <2>2 DEF B, q, Accounted
<1> QED
  BY <1>5 DEF rows

(* When the list ends, all of it is read.                                  *)
LEMMA AccountClosed ==
    ASSUME NEW s \in Seq(Records), NEW c \in Nat, NEW l \in Nat \ {0},
           NEW n \in Nat, NEW got, NEW st, NEW g, NEW a,
           Accounted(n, got, s, c, st, g, a), Len(RowsFrom(s, c, l)) < l
    PROVE  LET rows == RowsFrom(s, c, l)
           IN  /\ Cardinality(Missing(st, got \cup Elems(rows))) <= g
               /\ (n + Len(rows)) - Cardinality(got \cup Elems(rows)) <= a
<1> DEFINE rows == RowsFrom(s, c, l)
<1>0. Reads(s, c, l, rows) /\ Len(rows) < l
  BY WindowReads
<1> HIDE DEF rows
<1>1. /\ rows \in Seq(Records) /\ Ahead(s, c) = Elems(rows) \cup Ahead(s, c + l)
      /\ Left(s, c) = Len(rows) + Left(s, c + l) /\ Left(s, c) \in Nat
      /\ Len(rows) = IF l <= Left(s, c) THEN l ELSE Left(s, c)
      /\ Len(rows) < l
  BY <1>0 DEF Reads
<1>2. Len(rows) \in Nat /\ Len(s) \in Nat
  BY <1>1
<1>3. Left(s, c) = Len(rows) /\ ~(c + l < Len(s))
  BY <1>1, <1>2 DEF Left
<1>4. Ahead(s, c + l) = {}
  BY <1>2, <1>3 DEF Ahead
<1>5. got \cup Ahead(s, c) = got \cup Elems(rows)
  BY <1>1, <1>4
<1> QED
  BY <1>3, <1>5 DEF Accounted, rows

(* What one record less ahead comes to.                                    *)
LEMMA AccountLess ==
    ASSUME NEW A, IsFiniteSet(A), NEW B, IsFiniteSet(B), NEW x, A \ {x} \subseteq B,
           NEW st, IsFiniteSet(st), NEW sn \in SUBSET st
    PROVE  /\ Cardinality(A) \in Nat /\ Cardinality(B) \in Nat
           /\ Cardinality(A) <= Cardinality(B) + 1
           /\ A \subseteq B => Cardinality(A) <= Cardinality(B)
           /\ Cardinality(Missing(sn, B)) \in Nat
           /\ Cardinality(Missing(st, A)) \in Nat
           /\ Cardinality(Missing(sn, B)) <= Cardinality(Missing(st, A)) + 1
           /\ A \subseteq B \/ x \notin sn \/ x \in Bad =>
                Cardinality(Missing(sn, B)) <= Cardinality(Missing(st, A))
<1> DEFINE M == Missing(st, A)
           N == Missing(sn, B)
<1>1. M \in SUBSET st /\ N \in SUBSET sn /\ N \in SUBSET st
  BY DEF Missing
<1>2. IsFiniteSet(M) /\ IsFiniteSet(N)
  BY <1>1, FS_Subset
<1>3. N \subseteq M \cup {x} /\ (A \subseteq B \/ x \notin sn \/ x \in Bad => N \subseteq M)
  BY DEF Missing
<1>4. A \subseteq B \cup {x}
  OBVIOUS
<1> HIDE DEF M, N
<1>5. IsFiniteSet(B \cup {x}) /\ Cardinality(B \cup {x}) =
        IF x \in B THEN Cardinality(B) ELSE Cardinality(B) + 1
  BY FS_AddElement
<1>6. Cardinality(A) <= Cardinality(B \cup {x})
  BY <1>4, <1>5, FS_Subset
<1>7. IsFiniteSet(M \cup {x}) /\ Cardinality(M \cup {x}) =
        IF x \in M THEN Cardinality(M) ELSE Cardinality(M) + 1
  BY <1>2, FS_AddElement
<1>8. Cardinality(N) <= Cardinality(M \cup {x})
  BY <1>3, <1>7, FS_Subset
<1>9. /\ Cardinality(A) \in Nat /\ Cardinality(B) \in Nat
      /\ Cardinality(M) \in Nat /\ Cardinality(N) \in Nat
  BY <1>2, FS_CardinalityType
<1>10. A \subseteq B => Cardinality(A) <= Cardinality(B)
  BY FS_Subset
<1>11. N \subseteq M => Cardinality(N) <= Cardinality(M)
  BY <1>2, FS_Subset
<1>12. Cardinality(A) <= Cardinality(B) + 1
  BY <1>5, <1>6, <1>9
<1>13. Cardinality(N) <= Cardinality(M) + 1
  BY <1>7, <1>8, <1>9
<1> QED
  BY <1>3, <1>9, <1>10, <1>11, <1>12, <1>13 DEF M, N

(* At most one record, x, is no longer ahead, and counts as a gap if it    *)
(* was there all along; or else none, and some have been added.            *)
NoneLost(s, c, s2, c2, a, b) ==
    Ahead(s, c) \subseteq Ahead(s2, c2) /\ Left(s2, c2) <= Left(s, c) + (b - a)

OneLost(s, c, s2, c2, x, sn, g, h) ==
    /\ Ahead(s, c) \ {x} \subseteq Ahead(s2, c2)
    /\ Left(s2, c2) + 1 <= Left(s, c)
    /\ g + 1 <= h \/ x \in Bad \/ x \notin sn

LEMMA AccountChanged ==
    ASSUME NEW s \in Seq(Records), NEW c \in Nat, NEW s2 \in Seq(Records),
           NEW c2 \in Nat, NEW n \in Nat, NEW got, IsFiniteSet(got),
           NEW st, IsFiniteSet(st), NEW sn \in SUBSET st,
           NEW g \in Nat, NEW a \in Nat, NEW h \in Nat, NEW b \in Nat, NEW x,
           Accounted(n, got, s, c, st, g, a), g <= h, a <= b,
           \/ NoneLost(s, c, s2, c2, a, b)
           \/ OneLost(s, c, s2, c2, x, sn, g, h)
    PROVE  Accounted(n, got, s2, c2, sn, h, b)
<1> DEFINE A == got \cup Ahead(s, c)
           B == got \cup Ahead(s2, c2)
           M == Missing(st, A)
           N == Missing(sn, B)
<1>1. IsFiniteSet(A) /\ IsFiniteSet(B)
  BY AheadIsFinite, FS_Union
<1>2. A \ {x} \subseteq B /\ (NoneLost(s, c, s2, c2, a, b) => A \subseteq B)
  BY DEF NoneLost, OneLost
<1>3. Left(s, c) \in Nat /\ Left(s2, c2) \in Nat
  BY DEF Left
<1>4. Cardinality(M) <= g /\ (n + Left(s, c)) - Cardinality(A) <= a
  BY DEF Accounted
<1>5. Accounted(n, got, s2, c2, sn, h, b) <=>
        Cardinality(N) <= h /\ (n + Left(s2, c2)) - Cardinality(B) <= b
  BY DEF Accounted
<1> HIDE DEF A, B
<1>6. /\ Cardinality(A) \in Nat /\ Cardinality(B) \in Nat
      /\ Cardinality(A) <= Cardinality(B) + 1
      /\ A \subseteq B => Cardinality(A) <= Cardinality(B)
      /\ Cardinality(N) \in Nat /\ Cardinality(M) \in Nat
      /\ Cardinality(N) <= Cardinality(M) + 1
      /\ A \subseteq B \/ x \notin sn \/ x \in Bad => Cardinality(N) <= Cardinality(M)
  BY <1>1, <1>2, AccountLess
<1> HIDE DEF M, N
<1>7. CASE NoneLost(s, c, s2, c2, a, b)
  <2>1. A \subseteq B
    BY <1>2, <1>7
  <2>2. Cardinality(A) <= Cardinality(B) /\ Cardinality(N) <= Cardinality(M)
    BY <1>6, <2>1
  <2>3. Left(s2, c2) <= Left(s, c) + (b - a)
    BY <1>7 DEF NoneLost
  <2>4. (n + Left(s2, c2)) - Cardinality(B) <= b
    <3>1. \A l, m, j, k \in Nat :
            (n + l) - j <= a /\ m <= l + (b - a) /\ j <= k => (n + m) - k <= b
      OBVIOUS
    <3> QED
      BY <1>3, <1>4, <1>6, <2>2, <2>3, <3>1
  <2>5. Cardinality(N) <= h
    BY <1>4, <1>6, <2>2
  <2> QED
    BY <1>5, <2>4, <2>5
<1>8. CASE OneLost(s, c, s2, c2, x, sn, g, h)
  <2>1. /\ Left(s2, c2) + 1 <= Left(s, c)
        /\ g + 1 <= h \/ x \in Bad \/ x \notin sn
    BY <1>8 DEF OneLost
  <2>2. Cardinality(N) <= h
    <3>1. CASE g + 1 <= h
      BY <1>4, <1>6, <3>1
    <3>2. CASE x \in Bad \/ x \notin sn
      <4>1. Cardinality(N) <= Cardinality(M)
        BY <1>6, <3>2
      <4> QED
        BY <1>4, <1>6, <4>1
    <3> QED
      BY <2>1, <3>1, <3>2
  <2>3. (n + Left(s2, c2)) - Cardinality(B) <= b
    BY <1>3, <1>4, <1>6, <2>1
  <2> QED
    BY <1>5, <2>2, <2>3
<1> QED
  BY <1>7, <1>8

LEMMA AccountSkip ==
    ASSUME NEW s \in Seq(Records), NEW c \in Nat, NEW n \in Nat,
           NEW got, IsFiniteSet(got), NEW st, IsFiniteSet(st),
           NEW g \in Nat, NEW a \in Nat, NEW h \in Nat,
           Accounted(n, got, s, c, st, g, a), g <= h,
           \/ RowsFrom(s, c, 1) = <<>> \/ g + 1 <= h
           \/ Elems(RowsFrom(s, c, 1)) \cap Bad # {}
    PROVE  Accounted(n, got, s, c + 1, st, h, a)
<1> DEFINE rows == RowsFrom(s, c, 1)
           x == rows[1]
<1>1. Reads(s, c, 1, rows)
  <2>1. 1 \in Nat \ {0}
    OBVIOUS
  <2> QED
    BY <2>1, WindowReads
<1>2. rows = <<>> \/ g + 1 <= h \/ Elems(rows) \cap Bad # {}
  OBVIOUS
<1> HIDE DEF rows
<1>3. /\ rows \in Seq(Records) /\ Left(s, c) \in Nat
      /\ Len(rows) = IF 1 <= Left(s, c) THEN 1 ELSE Left(s, c)
      /\ Ahead(s, c) = Elems(rows) \cup Ahead(s, c + 1)
      /\ Left(s, c) = Len(rows) + Left(s, c + 1)
  BY <1>1 DEF Reads
<1>4. /\ Len(rows) \in {0, 1} /\ DOMAIN rows = 1 .. Len(rows)
      /\ Left(s, c + 1) \in Nat
  <2>1. Len(s) \in Nat /\ c + 1 \in Nat
    OBVIOUS
  <2>2. Left(s, c + 1) \in Nat
    BY <2>1 DEF Left
  <2>3. \A m \in Nat : 1 <= m \/ m = 0
    OBVIOUS
  <2>4. Len(rows) \in {0, 1}
    BY <1>3, <2>3
  <2>5. DOMAIN rows = 1 .. Len(rows)
    BY <1>3, LenProperties
  <2> QED
    BY <2>2, <2>4, <2>5
<1>5. CASE Len(rows) = 0
  <2>1. Elems(rows) = {}
    BY <1>4, <1>5 DEF Elems
  <2>2. NoneLost(s, c, s, c + 1, a, a)
    BY <1>3, <1>4, <2>1 DEF NoneLost
  <2>3. c + 1 \in Nat /\ st \in SUBSET st /\ a <= a
    OBVIOUS
  <2> HIDE DEF x
  <2> QED
    BY <2>2, <2>3, AccountChanged
<1>6. CASE Len(rows) = 1
  <2>1. Elems(rows) = {x} /\ rows # <<>>
    <3>1. DOMAIN rows = {1}
      BY <1>4, <1>6
    <3>2. rows # <<>>
      BY <1>6, EmptySeq
    <3> QED
      BY <3>1, <3>2 DEF Elems
  <2>2. Left(s, c + 1) + 1 <= Left(s, c)
    <3>1. Left(s, c) = 1 + Left(s, c + 1)
      BY <1>3, <1>6
    <3>2. Left(s, c + 1) \in Nat
      BY <1>4
    <3> HIDE DEF Left
    <3> QED
      BY <3>1, <3>2
  <2>3. Ahead(s, c) \ {x} \subseteq Ahead(s, c + 1)
    BY <1>3, <2>1
  <2>4. g + 1 <= h \/ x \in Bad \/ x \notin st
    BY <1>2, <2>1
  <2>5. OneLost(s, c, s, c + 1, x, st, g, h)
    BY <2>2, <2>3, <2>4 DEF OneLost
  <2>6. c + 1 \in Nat /\ st \in SUBSET st /\ a <= a
    OBVIOUS
  <2> HIDE DEF x
  <2> QED
    BY <2>5, <2>6, AccountChanged
<1> QED
  BY <1>4, <1>5, <1>6

(* The list without its i-th record, and with one more in its place.       *)
LEMMA ListWithout ==
    ASSUME NEW s \in Seq(Records), NEW i \in 1 .. Len(s)
    PROVE  /\ MD!RemoveAt(s, i) \in Seq(Records)
           /\ Len(MD!RemoveAt(s, i)) = Len(s) - 1
           /\ \A j \in 1 .. Len(s) - 1 :
                MD!RemoveAt(s, i)[j] = IF j < i THEN s[j] ELSE s[j + 1]
<1> DEFINE p == SubSeq(s, 1, i - 1)
           q == SubSeq(s, i + 1, Len(s))
<1>1. i \in Int /\ Len(s) \in Nat /\ 1 <= i /\ i <= Len(s)
  OBVIOUS
<1>2. /\ p \in Seq(Records) /\ Len(p) = i - 1
      /\ \A j \in 1 .. i - 1 : p[j] = s[j]
  BY <1>1
<1>3. /\ q \in Seq(Records) /\ Len(q) = Len(s) - i
      /\ \A j \in 1 .. Len(s) - i : q[j] = s[i + j]
  BY <1>1
<1>4. MD!RemoveAt(s, i) = p \o q
  BY DEF MD!RemoveAt
<1> HIDE DEF p, q
<1>5. /\ p \o q \in Seq(Records) /\ Len(p \o q) = Len(p) + Len(q)
      /\ \A j \in 1 .. Len(p) + Len(q) :
            (p \o q)[j] = IF j <= Len(p) THEN p[j] ELSE q[j - Len(p)]
  BY <1>2, <1>3, ConcatProperties
<1>6. ASSUME NEW j \in 1 .. Len(s) - 1
      PROVE  (p \o q)[j] = IF j < i THEN s[j] ELSE s[j + 1]
  <2>1. j \in Int /\ j \in 1 .. Len(p) + Len(q)
    BY <1>1, <1>2, <1>3
  <2>2. CASE j < i
    BY <1>1, <1>2, <1>5, <2>1, <2>2
  <2>3. CASE ~(j < i)
    <3>1. j - Len(p) \in 1 .. Len(s) - i /\ i + (j - Len(p)) = j + 1
      BY <1>1, <1>2, <2>1, <2>3
    <3>2. (p \o q)[j] = q[j - Len(p)]
      BY <1>1, <1>2, <1>5, <2>1, <2>3
    <3> QED
      BY <1>3, <2>3, <3>1, <3>2
  <2> QED
    BY <2>2, <2>3
<1>7. Len(p \o q) = Len(s) - 1
  BY <1>1, <1>2, <1>3, <1>5
<1> QED
  BY <1>4, <1>5, <1>6, <1>7

LEMMA ListWith ==
    ASSUME NEW s \in Seq(Records), NEW i \in 1 .. Len(s) + 1, NEW r \in Records
    PROVE  /\ MD!InsertAt(s, i, r) \in Seq(Records)
           /\ Len(MD!InsertAt(s, i, r)) = Len(s) + 1
           /\ \A j \in 1 .. Len(s) + 1 : MD!InsertAt(s, i, r)[j] =
                IF j < i THEN s[j] ELSE IF j = i THEN r ELSE s[j - 1]
<1> DEFINE p == SubSeq(s, 1, i - 1)
           q == SubSeq(s, i, Len(s))
           o == <<r>>
<1>1. i \in Int /\ Len(s) \in Nat /\ 1 <= i /\ i <= Len(s) + 1
  OBVIOUS
<1>2. /\ p \in Seq(Records) /\ Len(p) = i - 1
      /\ \A j \in 1 .. i - 1 : p[j] = s[j]
  BY <1>1
<1>3. /\ q \in Seq(Records) /\ Len(q) = (Len(s) - i) + 1
      /\ \A j \in 1 .. (Len(s) - i) + 1 : q[j] = s[(i + j) - 1]
  BY <1>1
<1>4. o \in Seq(Records) /\ Len(o) = 1 /\ o[1] = r
  OBVIOUS
<1>5. MD!InsertAt(s, i, r) = (p \o o) \o q
  BY DEF MD!InsertAt
<1> HIDE DEF p, q, o
<1> DEFINE po == p \o o
<1>6. /\ po \in Seq(Records) /\ Len(po) = i
      /\ \A j \in 1 .. Len(p) + Len(o) :
            po[j] = IF j <= Len(p) THEN p[j] ELSE o[j - Len(p)]
  <2>1. /\ p \o o \in Seq(Records) /\ Len(p \o o) = Len(p) + Len(o)
        /\ \A j \in 1 .. Len(p) + Len(o) :
            (p \o o)[j] = IF j <= Len(p) THEN p[j] ELSE o[j - Len(p)]
    BY <1>2, <1>4, ConcatProperties
  <2> QED
    BY <1>1, <1>2, <1>4, <2>1
<1>7. \A j \in 1 .. i : po[j] = IF j < i THEN s[j] ELSE r
  BY <1>1, <1>2, <1>4, <1>6
<1> HIDE DEF po
<1> DEFINE z == po \o q
<1>8. /\ z \in Seq(Records) /\ Len(z) = Len(s) + 1
      /\ \A j \in 1 .. Len(po) + Len(q) :
            z[j] = IF j <= Len(po) THEN po[j] ELSE q[j - Len(po)]
  <2>1. /\ po \o q \in Seq(Records) /\ Len(po \o q) = Len(po) + Len(q)
        /\ \A j \in 1 .. Len(po) + Len(q) :
            (po \o q)[j] = IF j <= Len(po) THEN po[j] ELSE q[j - Len(po)]
    BY <1>3, <1>6, ConcatProperties
  <2> QED
    BY <1>1, <1>3, <1>6, <2>1
<1>9. MD!InsertAt(s, i, r) = z
  BY <1>5 DEF po
<1> HIDE DEF z
<1>10. ASSUME NEW j \in 1 .. Len(s) + 1
      PROVE  z[j] = IF j < i THEN s[j] ELSE IF j = i THEN r ELSE s[j - 1]
  <2>1. j \in Int /\ j \in 1 .. Len(po) + Len(q)
    BY <1>1, <1>3, <1>6
  <2>2. CASE j <= i
    BY <1>1, <1>6, <1>7, <1>8, <2>1, <2>2
  <2>3. CASE ~(j <= i)
    <3>1. j - Len(po) \in 1 .. (Len(s) - i) + 1 /\ (i + (j - Len(po))) - 1 = j - 1
      BY <1>1, <1>6, <2>1, <2>3
    <3>2. z[j] = q[j - Len(po)]
      BY <1>1, <1>6, <1>8, <2>1, <2>3
    <3> QED
      BY <1>1, <1>3, <2>1, <2>3, <3>1, <3>2
  <2> QED
    BY <1>1, <2>1, <2>2, <2>3
<1> QED
  BY <1>8, <1>9, <1>10

LEMMA AccountWithdraw ==
    ASSUME NEW s \in Seq(Records), IsInjective(s), NEW c \in Nat, NEW n \in Nat,
           NEW got, IsFiniteSet(got), NEW st, IsFiniteSet(st),
           NEW g \in Nat, NEW a \in Nat, NEW i \in 1 .. Len(s),
           Accounted(n, got, s, c, st, g, a)
    PROVE  Accounted(n, got, MD!RemoveAt(s, i), c, st \ {s[i]}, g + 1, a)
<1> DEFINE t == MD!RemoveAt(s, i)
           k == IF i <= c THEN c + 1 ELSE i
           x == s[k]
           sn == st \ {s[i]}
<1>1. /\ t \in Seq(Records) /\ Len(t) = Len(s) - 1
      /\ \A j \in 1 .. Len(s) - 1 : t[j] = IF j < i THEN s[j] ELSE s[j + 1]
  BY ListWithout
<1> HIDE DEF t
<1>2. i \in Nat /\ Len(s) \in Nat /\ 1 <= i /\ i <= Len(s)
  OBVIOUS
<1>3. g + 1 \in Nat /\ g <= g + 1 /\ a <= a /\ sn \in SUBSET st
  OBVIOUS
<1>4. CASE Len(s) <= c
  <2>1. Ahead(s, c) = {} /\ Left(s, c) = 0 /\ Left(t, c) = 0
    BY <1>1, <1>2, <1>4 DEF Ahead, Left
  <2>2. NoneLost(s, c, t, c, a, a)
    BY <2>1 DEF NoneLost
  <2> HIDE DEF x, sn
  <2>3. Accounted(n, got, t, c, sn, g + 1, a)
    BY <1>1, <1>3, <2>2, AccountChanged
  <2> QED
    BY <2>3 DEF t, sn
<1>5. CASE ~(Len(s) <= c)
  <2>1. k \in Nat /\ c + 1 <= k /\ i <= k /\ k <= Len(s)
    BY <1>2, <1>5
  <2>2. Left(t, c) + 1 <= Left(s, c)
    BY <1>1, <1>2, <1>5 DEF Left
  <2>3. ASSUME NEW j \in c + 1 .. Len(s), j # k PROVE s[j] \in Ahead(t, c)
    <3>1. j \in Nat /\ c + 1 <= j /\ j <= Len(s)
      OBVIOUS
    <3>2. CASE j < i
      <4>1. j \in 1 .. Len(s) - 1 /\ j \in c + 1 .. Len(t)
        BY <1>1, <1>2, <3>1, <3>2
      <4>2. t[j] = s[j]
        BY <1>1, <3>2, <4>1
      <4> QED
        BY <4>1, <4>2 DEF Ahead
    <3>3. CASE ~(j < i)
      <4>1. j > k
        BY <1>2, <2>3, <3>1, <3>3
      <4>2. j - 1 \in 1 .. Len(s) - 1 /\ j - 1 \in c + 1 .. Len(t)
        BY <1>1, <1>2, <2>1, <3>1, <4>1
      <4>3. ~(j - 1 < i) /\ (j - 1) + 1 = j
        BY <1>2, <2>1, <3>1, <4>1
      <4>4. t[j - 1] = s[j]
        BY <1>1, <4>2, <4>3
      <4> QED
        BY <4>2, <4>4 DEF Ahead
    <3> QED
      BY <3>2, <3>3
  <2>4. Ahead(s, c) \ {x} \subseteq Ahead(t, c)
    <3> HIDE DEF k
    <3> QED
      BY <2>3 DEF Ahead
  <2>5. OneLost(s, c, t, c, x, sn, g, g + 1)
    <3> HIDE DEF x, sn
    <3> QED
      BY <2>2, <2>4 DEF OneLost
  <2> HIDE DEF x, sn
  <2>6. Accounted(n, got, t, c, sn, g + 1, a)
    BY <1>1, <1>3, <2>5, AccountChanged
  <2> QED
    BY <2>6 DEF t, sn
<1> QED
  BY <1>4, <1>5

LEMMA AccountInsert ==
    ASSUME NEW s \in Seq(Records), NEW c \in Nat, NEW n \in Nat,
           NEW got, IsFiniteSet(got), NEW st, IsFiniteSet(st),
           NEW g \in Nat, NEW a \in Nat, NEW i \in 1 .. Len(s) + 1,
           NEW r \in Records, Accounted(n, got, s, c, st, g, a)
    PROVE  Accounted(n, got, MD!InsertAt(s, i, r), c, st, g, a + 1)
<1> DEFINE t == MD!InsertAt(s, i, r)
<1>1. /\ t \in Seq(Records) /\ Len(t) = Len(s) + 1
      /\ \A j \in 1 .. Len(s) + 1 :
            t[j] = IF j < i THEN s[j] ELSE IF j = i THEN r ELSE s[j - 1]
  BY ListWith
<1> HIDE DEF t
<1>2. i \in Nat /\ Len(s) \in Nat /\ 1 <= i /\ i <= Len(s) + 1
  OBVIOUS
<1>3. ASSUME NEW j \in c + 1 .. Len(s) PROVE s[j] \in Ahead(t, c)
  <2>1. j \in Nat /\ c + 1 <= j /\ j <= Len(s)
    OBVIOUS
  <2>2. CASE j < i
    <3>1. j \in 1 .. Len(s) + 1 /\ j \in c + 1 .. Len(t)
      BY <1>1, <1>2, <2>1
    <3>2. t[j] = s[j]
      BY <1>1, <2>2, <3>1
    <3> QED
      BY <3>1, <3>2 DEF Ahead
  <2>3. CASE ~(j < i)
    <3>1. j + 1 \in 1 .. Len(s) + 1 /\ j + 1 \in c + 1 .. Len(t)
      BY <1>1, <1>2, <2>1
    <3>2. ~(j + 1 < i) /\ j + 1 # i /\ (j + 1) - 1 = j
      BY <1>2, <2>1, <2>3
    <3>3. t[j + 1] = s[j]
      BY <1>1, <3>1, <3>2
    <3> QED
      BY <3>1, <3>3 DEF Ahead
  <2> QED
    BY <2>2, <2>3
<1>4. Ahead(s, c) \subseteq Ahead(t, c)
  BY <1>3 DEF Ahead
<1>5. Left(t, c) <= Left(s, c) + ((a + 1) - a)
  BY <1>1, <1>2 DEF Left
<1>6. NoneLost(s, c, t, c, a, a + 1)
  BY <1>4, <1>5 DEF NoneLost
<1>7. a + 1 \in Nat /\ a <= a + 1 /\ g <= g /\ st \in SUBSET st
  OBVIOUS
<1>8. Accounted(n, got, t, c, st, g, a + 1)
  BY <1>1, <1>6, <1>7, AccountChanged
<1> QED
  BY <1>8 DEF t

-----------------------------------------------------------------------------
(* What a list may hold, once each                                         *)

Listed(p, s) ==
    /\ s \in Seq(Records) /\ IsInjective(s)
    /\ Elems(s) \subseteq Elems(Listing[p]) \cup Spare[p]

Capacity(p) == Len(Listing[p]) + Cardinality(Spare[p])

LEMMA ListedFits ==
    ASSUME NEW p \in MD!Paths, NEW s, Listed(p, s)
    PROVE  Capacity(p) \in Nat /\ Len(s) <= Capacity(p)
<1>1. /\ Listing[p] \in Seq(Records) /\ IsFiniteSet(Spare[p])
  BY ListingAssumption DEF Records
<1> DEFINE L == Elems(Listing[p])
           S == Spare[p]
           E == Elems(s)
<1>2. /\ IsFiniteSet(L) /\ Cardinality(L) \in Nat
      /\ Cardinality(L) <= Len(Listing[p]) /\ Len(Listing[p]) \in Nat
  BY <1>1, ElemsAreFinite, LenProperties
<1>3. Cardinality(E) = Len(s) /\ E \subseteq L \cup S
  BY ElemsAreFinite DEF Listed
<1> HIDE DEF L, S, E
<1>4. IsFiniteSet(S) /\ Cardinality(S) \in Nat
  BY <1>1, FS_CardinalityType DEF S
<1>5. /\ IsFiniteSet(L \cup S)
      /\ Cardinality(L \cup S) =
            Cardinality(L) + Cardinality(S) - Cardinality(L \cap S)
  BY <1>2, <1>4, FS_Union
<1>6. Cardinality(L \cap S) \in Nat
  BY <1>2, FS_Intersection, FS_CardinalityType
<1>7. Cardinality(E) <= Cardinality(L \cup S)
  BY <1>3, <1>5, FS_Subset
<1>8. Capacity(p) = Len(Listing[p]) + Cardinality(S)
  BY DEF Capacity, S
<1>9. Len(s) \in Nat
  BY DEF Listed
<1> QED
  BY <1>2, <1>3, <1>4, <1>5, <1>6, <1>7, <1>8, <1>9

LEMMA ListedWithout ==
    ASSUME NEW p \in MD!Paths, NEW s, Listed(p, s), NEW i \in 1 .. Len(s)
    PROVE  /\ Listed(p, MD!RemoveAt(s, i))
           /\ Elems(s) \ {s[i]} \subseteq Elems(MD!RemoveAt(s, i))
<1> DEFINE t == MD!RemoveAt(s, i)
<1>0. s \in Seq(Records) /\ IsInjective(s)
  BY DEF Listed
<1>1. /\ t \in Seq(Records) /\ Len(t) = Len(s) - 1
      /\ \A j \in 1 .. Len(s) - 1 : t[j] = IF j < i THEN s[j] ELSE s[j + 1]
  BY <1>0, ListWithout
<1> HIDE DEF t
<1>2. /\ i \in Nat /\ Len(s) \in Nat /\ 1 <= i /\ i <= Len(s)
      /\ DOMAIN s = 1 .. Len(s) /\ DOMAIN t = 1 .. Len(s) - 1
  BY <1>0, <1>1, LenProperties
<1> DEFINE from(j) == IF j < i THEN j ELSE j + 1
<1>3. \A j \in DOMAIN t : from(j) \in DOMAIN s /\ t[j] = s[from(j)]
  BY <1>1, <1>2
<1>4. \A j, k \in DOMAIN t : from(j) = from(k) => j = k
  BY <1>2
<1>5. ASSUME NEW j \in DOMAIN s, j # i PROVE \E k \in DOMAIN t : from(k) = j
  <2>1. CASE j < i
    BY <1>2, <2>1
  <2>2. CASE ~(j < i)
    <3>1. j - 1 \in DOMAIN t /\ from(j - 1) = j
      BY <1>2, <1>5, <2>2
    <3> QED
      BY <3>1
  <2> QED
    BY <2>1, <2>2
<1> HIDE DEF from
<1>6. Elems(t) \subseteq Elems(s)
  BY <1>3 DEF Elems
<1>7. Elems(s) \ {s[i]} \subseteq Elems(t)
  BY <1>3, <1>5 DEF Elems
<1>8. IsInjective(t)
  <2>1. \A j, k \in DOMAIN s : s[j] = s[k] => j = k
    BY <1>0 DEF IsInjective
  <2>2. \A j, k \in DOMAIN t : t[j] = t[k] => j = k
    BY <1>3, <1>4, <2>1
  <2> QED
    BY <2>2 DEF IsInjective
<1>9. Listed(p, t)
  BY <1>1, <1>6, <1>8 DEF Listed
<1> QED
  BY <1>7, <1>9 DEF t

LEMMA ListedWith ==
    ASSUME NEW p \in MD!Paths, NEW s, Listed(p, s), NEW i \in 1 .. Len(s) + 1,
           NEW r \in Spare[p] \ Elems(s)
    PROVE  /\ Listed(p, MD!InsertAt(s, i, r))
           /\ Elems(s) \subseteq Elems(MD!InsertAt(s, i, r))
<1> DEFINE t == MD!InsertAt(s, i, r)
<1>0. s \in Seq(Records) /\ IsInjective(s) /\ r \in Records
  BY ListingAssumption DEF Listed, Records
<1>1. /\ t \in Seq(Records) /\ Len(t) = Len(s) + 1
      /\ \A j \in 1 .. Len(s) + 1 :
            t[j] = IF j < i THEN s[j] ELSE IF j = i THEN r ELSE s[j - 1]
  BY <1>0, ListWith
<1> HIDE DEF t
<1>2. /\ i \in Nat /\ Len(s) \in Nat /\ 1 <= i /\ i <= Len(s) + 1
      /\ DOMAIN s = 1 .. Len(s) /\ DOMAIN t = 1 .. Len(s) + 1
  BY <1>0, <1>1, LenProperties
<1> DEFINE from(j) == IF j < i THEN j ELSE j - 1
<1>3. \A j \in DOMAIN t : j # i => from(j) \in DOMAIN s /\ t[j] = s[from(j)]
  BY <1>1, <1>2
<1>4. \A j, k \in DOMAIN t : j # i /\ k # i /\ from(j) = from(k) => j = k
  BY <1>2
<1>5. ASSUME NEW j \in DOMAIN s PROVE \E k \in DOMAIN t : k # i /\ from(k) = j
  <2>1. CASE j < i
    BY <1>2, <2>1
  <2>2. CASE ~(j < i)
    <3>1. j + 1 \in DOMAIN t /\ from(j + 1) = j /\ j + 1 # i
      BY <1>2, <2>2
    <3> QED
      BY <3>1
  <2> QED
    BY <2>1, <2>2
<1>6. i \in DOMAIN t /\ t[i] = r
  BY <1>1, <1>2
<1> HIDE DEF from
<1>7. Elems(t) \subseteq Elems(s) \cup {r}
  BY <1>3, <1>6 DEF Elems
<1>8. Elems(s) \subseteq Elems(t)
  BY <1>3, <1>5 DEF Elems
<1>9. IsInjective(t)
  <2>1. \A j, k \in DOMAIN s : s[j] = s[k] => j = k
    BY <1>0 DEF IsInjective
  <2>2. \A j \in DOMAIN s : s[j] # r
    BY DEF Elems
  <2>3. \A j, k \in DOMAIN t : t[j] = t[k] => j = k
    BY <1>3, <1>4, <1>6, <2>1, <2>2
  <2> QED
    BY <2>3 DEF IsInjective
<1>10. Listed(p, t)
  BY <1>1, <1>7, <1>9 DEF Listed
<1> QED
  BY <1>8, <1>10 DEF t

-----------------------------------------------------------------------------
(* The inductive invariant of the Mobility Database                        *)

Cursor == (offset + Len(page)) + skipped

PagesTyped ==
    /\ pc \in {"token", "paging", "done", "failed"} /\ path \in MD!Paths
    /\ windows \in Seq(WindowSet) /\ offset \in Nat
    /\ page \in Seq(Records) /\ skipped \in Nat
    /\ fetched \in [MD!Paths -> Seq(Records)]
    /\ list \in [MD!Paths -> Seq(Records)]
    /\ \A p \in MD!Paths : Listed(p, list[p])
    /\ down \in BOOLEAN /\ outages \in 0 .. MaxOutages
    /\ gaps \in Nat /\ additions \in Nat
    /\ pc = "token" => fetched = [p \in MD!Paths |-> <<>>]

(* No page begins more than a page beyond the end of its list, since the   *)
(* page before held a row.                                                 *)
PageInBounds ==
    /\ Within(windows, offset, offset + PageSize[path])
    /\ skipped <= PageSize[path]
    /\ offset < Capacity(path) + PageSize[path]
    /\ Len(page) > 0 => offset < Capacity(path)

PageAccounted ==
    /\ Tiled(windows, Cursor, offset + PageSize[path])
    /\ stayed \subseteq Elems(list[path])
    /\ path = 1 => fetched[2] = <<>>
    /\ Accounted(Len(fetched[path]) + Len(page),
                 Elems(fetched[path]) \cup Elems(page), list[path], Cursor,
                 stayed, gaps, additions)

PagesInv == PagesTyped /\ PageInBounds /\ (pc = "paging" => PageAccounted)

LEMMA SameCardinality ==
    /\ \A S : MD!Cardinality(S) = Cardinality(S)
    /\ \A S : TA!Cardinality(S) = Cardinality(S)
BY DEF MD!Cardinality, TA!Cardinality, Cardinality

LEMMA PagesAre == MD!Paths = {1, 2} /\ \A p \in MD!Paths : PageSize[p] \in Nat \ {0}
BY IngestAssumption DEF MD!Paths

LEMMA AccountOpened ==
    ASSUME NEW p \in MD!Paths, NEW s, Listed(p, s), NEW g \in Nat
    PROVE  Accounted(0 + 0, {} \cup {}, s, (0 + 0) + 0, Elems(s), g, 0)
<1>1. s \in Seq(Records) /\ IsInjective(s) /\ Len(s) \in Nat /\ DOMAIN s = 1 .. Len(s)
  BY LenProperties DEF Listed
<1>2. Ahead(s, 0) = Elems(s) /\ Left(s, 0) = Len(s)
  BY <1>1 DEF Ahead, Left, Elems
<1> DEFINE A == {} \cup Ahead(s, 0)
<1>3. A = Elems(s) /\ Missing(Elems(s), A) = {}
  BY <1>2 DEF Missing
<1>4. Cardinality(A) = Len(s) /\ Cardinality(Missing(Elems(s), A)) = 0
  <2> HIDE DEF A
  <2> QED
    BY <1>1, <1>3, ElemsAreFinite, FS_EmptySet
<1>5. Cardinality(Missing(Elems(s), A)) <= g /\ (0 + Left(s, 0)) - Cardinality(A) <= 0
  <2> HIDE DEF A
  <2> QED
    BY <1>1, <1>2, <1>4
<1>6. Accounted(0, {}, s, 0, Elems(s), g, 0)
  BY <1>5 DEF Accounted
<1>7. 0 + 0 = 0 /\ {} \cup {} = {}
  OBVIOUS
<1> QED
  BY <1>6, <1>7

LEMMA EmptyRows ==
    <<>> \in Seq(Records) /\ Len(<<>>) = 0 /\ Elems(<<>>) = {}
BY EmptySeq DEF Elems

(* A list is begun.                                                        *)
LEMMA PathBegun ==
    ASSUME NEW p \in MD!Paths, MD!BeginPath(p), UNCHANGED MD!server,
           PagesTyped, gaps' \in Nat, pc' = "paging",
           fetched' \in [MD!Paths -> Seq(Records)], fetched'[p] = <<>>,
           p = 1 => fetched'[2] = <<>>
    PROVE  PagesInv'
<1> DEFINE size == PageSize[p]
<1>1. size \in Nat \ {0}
  BY PagesAre
<1>2. /\ path' = p /\ offset' = 0 /\ page' = <<>> /\ skipped' = 0
      /\ windows' = <<MD!Window(size, 0)>>
      /\ stayed' = Elems(list[p]) /\ additions' = 0
  BY DEF MD!BeginPath, MD!BeginPage, MD!ToSet, Elems
<1>3. list' = list /\ down' = down /\ outages' = outages
  BY DEF MD!server
<1> HIDE DEF size
<1>4. 0 \in Nat
  OBVIOUS
<1>5. /\ windows' \in Seq(WindowSet) /\ Within(windows', 0, 0 + size)
      /\ Tiled(windows', 0, 0 + size)
  BY <1>1, <1>2, <1>4, OneWindow
<1>6. Listed(p, list[p])
  BY DEF PagesTyped
<1>7. Capacity(p) \in Nat
  BY <1>6, ListedFits
<1>8. PagesTyped'
  BY <1>2, <1>3, <1>5, EmptyRows DEF PagesTyped
<1>9. PageInBounds'
  <2>1. Len(page') = 0
    BY <1>2, EmptyRows
  <2>2. 0 <= size /\ 0 < Capacity(p) + size
    BY <1>1, <1>7
  <2>3. PageSize[path'] = size /\ path' = p
    BY <1>2 DEF size
  <2>4. /\ Within(windows', offset', offset' + PageSize[path'])
        /\ skipped' <= PageSize[path']
        /\ offset' < Capacity(path') + PageSize[path']
        /\ ~(Len(page') > 0)
    BY <1>2, <1>5, <2>1, <2>2, <2>3
  <2> QED
    BY <2>4 DEF PageInBounds, Capacity
<1>10. PageAccounted'
  <2>1. Len(page') = 0 /\ Elems(page') = {} /\ Len(fetched'[p]) = 0
        /\ Elems(fetched'[p]) = {}
    BY <1>2, EmptyRows
  <2>2. (offset' + Len(page')) + skipped' = (0 + 0) + 0
    BY <1>2, <2>1
  <2>3. Accounted(0 + 0, {} \cup {}, list[p], (0 + 0) + 0, Elems(list[p]), gaps', 0)
    BY <1>6, AccountOpened
  <2>4. Accounted(Len(fetched'[p]) + Len(page'), Elems(fetched'[p]) \cup Elems(page'),
                  list'[p], (offset' + Len(page')) + skipped', stayed', gaps',
                  additions')
    BY <1>2, <1>3, <2>1, <2>2, <2>3
  <2>5. Tiled(windows', (offset' + Len(page')) + skipped', offset' + PageSize[path'])
    BY <1>2, <1>5, <2>2 DEF size
  <2> QED
    BY <1>2, <1>3, <2>4, <2>5 DEF PageAccounted, Cursor
<1> QED
  BY <1>8, <1>9, <1>10 DEF PagesInv

(* What is left of a page goes on from where its rows so far end.          *)
LEMMA WindowDone ==
    ASSUME PagesInv, pc = "paging", UNCHANGED MD!server,
           NEW rows \in Seq(Records), NEW skips \in Nat, NEW exhausted \in BOOLEAN,
           MD!EndOfWindow(rows, skips, exhausted),
           skips <= PageSize[path], Len(rows) > 0 => offset < Capacity(path),
           NEW g \in Nat, gaps' = IF path' = path THEN g ELSE 0,
           ~exhausted =>
            /\ (offset + Len(rows)) + skips = windows[1].offset + windows[1].limit
            /\ Accounted(Len(fetched[path]) + Len(rows),
                         Elems(fetched[path]) \cup Elems(rows), list[path],
                         (offset + Len(rows)) + skips, stayed, g, additions)
    PROVE  PagesInv'
<1> DEFINE size == PageSize[path]
           end == (offset + Len(rows)) + skips
<1>1. PagesTyped /\ PageInBounds /\ PageAccounted
  BY DEF PagesInv
<1>2. /\ path \in MD!Paths /\ windows \in Seq(WindowSet) /\ offset \in Nat
      /\ fetched \in [MD!Paths -> Seq(Records)] /\ fetched[path] \in Seq(Records)
      /\ list \in [MD!Paths -> Seq(Records)] /\ additions \in Nat
      /\ \A p \in MD!Paths : Listed(p, list[p])
      /\ down \in BOOLEAN /\ outages \in 0 .. MaxOutages
  BY <1>1 DEF PagesTyped
<1>3. size \in Nat \ {0} /\ Len(rows) \in Nat /\ skips <= size
  BY <1>2, PagesAre
<1>4. list' = list /\ down' = down /\ outages' = outages
  BY DEF MD!server
<1>5. /\ Within(windows, offset, offset + size)
      /\ Tiled(windows, Cursor, offset + size) /\ Cursor \in Nat
  <2>1. Cursor \in Nat
    BY <1>1 DEF PagesTyped, Cursor
  <2> QED
    BY <1>1, <2>1 DEF PageInBounds, PageAccounted
<1>6. Capacity(path) \in Nat
  BY <1>2, ListedFits
<1>7. windows # <<>> /\ windows[1].offset = Cursor
  BY <1>5 DEF Tiled
<1>8. stayed \subseteq Elems(list[path]) /\ (path = 1 => fetched[2] = <<>>)
  BY <1>1 DEF PageAccounted
<1>9. offset < Capacity(path) + size
  BY <1>1 DEF PageInBounds
<1> HIDE DEF size
<1>10. CASE ~exhausted /\ Len(windows) # 1
  <2>1. /\ windows' = Tail(windows) /\ page' = rows /\ skipped' = skips
        /\ pc' = pc /\ path' = path /\ offset' = offset /\ fetched' = fetched
        /\ stayed' = stayed /\ additions' = additions
    BY <1>10 DEF MD!EndOfWindow
  <2>2. gaps' = g
    BY <2>1
  <2>3. offset + size \in Nat
    BY <1>2, <1>3
  <2>4. /\ Tail(windows) \in Seq(WindowSet)
        /\ Within(Tail(windows), offset, offset + size)
        /\ Tiled(Tail(windows), Cursor + windows[1].limit, offset + size)
    BY <1>2, <1>5, <1>10, <2>3, NextWindow
  <2>5. Cursor + windows[1].limit = end
    BY <1>7, <1>10
  <2> HIDE DEF end
  <2>6. PagesTyped'
    BY <1>2, <1>4, <2>1, <2>2, <2>4 DEF PagesTyped
  <2>7. PageInBounds'
    BY <1>3, <1>9, <2>1, <2>4 DEF PageInBounds, Capacity, size
  <2>8. Tiled(windows', (offset' + Len(page')) + skipped', offset' + PageSize[path'])
    BY <2>1, <2>4, <2>5 DEF end, size
  <2>9. Accounted(Len(fetched'[path']) + Len(page'),
                  Elems(fetched'[path']) \cup Elems(page'), list'[path'],
                  (offset' + Len(page')) + skipped', stayed', gaps', additions')
    BY <1>4, <1>10, <2>1, <2>2
  <2>10. PageAccounted'
    BY <1>4, <1>8, <2>1, <2>8, <2>9 DEF PageAccounted, Cursor
  <2> QED
    BY <2>6, <2>7, <2>10 DEF PagesInv
<1>11. CASE exhausted \/ Len(windows) = 1
  <2>0. MD!EndOfPage(rows, skips, exhausted)
    BY <1>11 DEF MD!EndOfWindow
  <2>1. CASE MD!AllFailed(skips)
    <3>1. pc' = "failed" /\ UNCHANGED <<path, windows, offset, page, skipped, fetched,
                                        stayed, additions>>
      BY <2>0, <2>1 DEF MD!EndOfPage
    <3>2. gaps' = g
      BY <3>1
    <3>3. PagesTyped'
      BY <1>1, <1>4, <3>1, <3>2 DEF PagesTyped
    <3>4. PageInBounds'
      BY <1>1, <3>1 DEF PageInBounds, Within, Capacity
    <3> QED
      BY <3>1, <3>3, <3>4 DEF PagesInv
  <2>2. CASE ~MD!AllFailed(skips) /\ ~exhausted
    <3>1. /\ fetched' = [fetched EXCEPT ![path] = @ \o rows]
          /\ MD!BeginPage(path, offset + size)
          /\ UNCHANGED <<pc, path, stayed, additions>>
      BY <2>0, <2>2 DEF MD!EndOfPage, MD!NextOffset, size
    <3>2. /\ offset' = offset + size /\ windows' = <<MD!Window(size, offset + size)>>
          /\ page' = <<>> /\ skipped' = 0
      BY <3>1 DEF MD!BeginPage, size
    <3>3. gaps' = g /\ path' = path
      BY <3>1
    <3>4. offset + size \in Nat
      BY <1>2, <1>3
    <3>5. /\ windows' \in Seq(WindowSet)
          /\ Within(windows', offset + size, (offset + size) + size)
          /\ Tiled(windows', offset + size, (offset + size) + size)
      BY <1>3, <3>2, <3>4, OneWindow
    <3>6. Len(windows) = 1
      BY <1>11, <2>2
    <3>7. end = offset + size
      <4>1. windows[1].offset + windows[1].limit = offset + size
        BY <1>5, <3>6 DEF Tiled
      <4> QED
        BY <2>2, <4>1
    <3>8. offset < Capacity(path)
      <4>1. skips # size
        BY <2>2 DEF MD!AllFailed, size
      <4>2. Len(rows) > 0
        BY <1>2, <1>3, <3>7, <4>1
      <4> QED
        BY <4>2
    <3>9. /\ fetched' \in [MD!Paths -> Seq(Records)]
          /\ fetched'[path] = fetched[path] \o rows
          /\ \A p \in MD!Paths : p # path => fetched'[p] = fetched[p]
      BY <1>2, <3>1, ConcatProperties
    <3>10. /\ Len(fetched'[path]) = Len(fetched[path]) + Len(rows)
           /\ Elems(fetched'[path]) = Elems(fetched[path]) \cup Elems(rows)
      BY <1>2, <3>9, ElemsOfBoth
    <3>11. PagesTyped'
      BY <1>1, <1>2, <1>4, <3>1, <3>2, <3>3, <3>4, <3>5, <3>9, EmptyRows
      DEF PagesTyped
    <3>12. PageInBounds'
      <4>1. Len(page') = 0 /\ 0 <= size
        BY <1>3, <3>2, EmptyRows
      <4>2. offset + size < Capacity(path) + size
        BY <1>2, <1>3, <1>6, <3>8
      <4>3. /\ Within(windows', offset', offset' + PageSize[path'])
            /\ skipped' <= PageSize[path']
            /\ offset' < Capacity(path') + PageSize[path']
            /\ ~(Len(page') > 0)
        BY <3>2, <3>3, <3>5, <4>1, <4>2 DEF size
      <4> QED
        BY <4>3 DEF PageInBounds, Capacity
    <3>13. PageAccounted'
      <4> DEFINE n == Len(fetched[path]) + Len(rows)
                 got == Elems(fetched[path]) \cup Elems(rows)
      <4>1. Accounted(n, got, list[path], end, stayed, g, additions)
        BY <2>2
      <4>2. n \in Nat
        BY <1>2, <1>3
      <4>3. Len(fetched'[path]) = n /\ Elems(fetched'[path]) = got
        BY <3>10
      <4>4. Len(page') = 0 /\ Elems(page') = {}
        BY <3>2, EmptyRows
      <4> HIDE DEF n, got, end
      <4>5. n + 0 = n /\ got \cup {} = got /\ (offset' + 0) + 0 = end
        BY <3>2, <3>4, <3>7, <4>2
      <4>6. Len(fetched'[path']) + Len(page') = n
        BY <3>3, <4>3, <4>4, <4>5
      <4>7. Elems(fetched'[path']) \cup Elems(page') = got
        BY <3>3, <4>3, <4>4, <4>5
      <4>8. (offset' + Len(page')) + skipped' = end
        BY <3>2, <4>4, <4>5
      <4>9. Accounted(Len(fetched'[path']) + Len(page'),
                      Elems(fetched'[path']) \cup Elems(page'), list'[path'],
                      (offset' + Len(page')) + skipped', stayed', gaps', additions')
        BY <1>4, <3>1, <3>3, <4>1, <4>6, <4>7, <4>8
      <4>10. Tiled(windows', (offset' + Len(page')) + skipped',
                   offset' + PageSize[path'])
        BY <3>2, <3>3, <3>5, <3>7, <4>8 DEF size
      <4>11. path' = 1 => fetched'[2] = <<>>
        BY <1>8, <3>3, <3>9, PagesAre
      <4> QED
        BY <1>4, <1>8, <3>1, <3>3, <4>9, <4>10, <4>11
        DEF PageAccounted, Cursor
    <3> QED
      BY <3>11, <3>12, <3>13 DEF PagesInv
  <2>3. CASE ~MD!AllFailed(skips) /\ exhausted
    <3>1. fetched' = [fetched EXCEPT ![path] = @ \o rows]
      BY <2>0, <2>3 DEF MD!EndOfPage
    <3>2. /\ fetched' \in [MD!Paths -> Seq(Records)]
          /\ \A p \in MD!Paths : p # path => fetched'[p] = fetched[p]
      BY <1>2, <3>1, ConcatProperties
    <3>3. CASE path = 1 /\ MD!BeginPath(2) /\ UNCHANGED pc
      <4>1. gaps' \in Nat /\ pc' = "paging" /\ 2 \in MD!Paths
        BY <3>3, PagesAre DEF MD!BeginPath
      <4>2. fetched'[2] = <<>>
        BY <1>8, <3>2, <3>3, <4>1
      <4> QED
        BY <1>1, <3>2, <3>3, <4>1, <4>2, PathBegun
    <3>4. CASE path = 2 /\ pc' = "done" /\ UNCHANGED <<path, windows, offset, page,
                                                       skipped, stayed, additions>>
      <4>1. gaps' = g
        BY <3>4
      <4>2. PagesTyped'
        BY <1>1, <1>2, <1>4, <3>2, <3>4, <4>1 DEF PagesTyped
      <4>3. PageInBounds'
        BY <1>1, <3>4 DEF PageInBounds, Within, Capacity
      <4> QED
        BY <3>4, <4>2, <4>3 DEF PagesInv
    <3> QED
      BY <2>0, <2>3, <3>3, <3>4 DEF MD!EndOfPage
  <2> QED
    BY <2>1, <2>2, <2>3
<1> QED
  BY <1>10, <1>11

RowsRead == RowsFrom(list[path], Cursor, Head(windows).limit)

(* The window that is asked for begins at the cursor.                      *)
LEMMA WindowAsked ==
    ASSUME PagesInv, pc = "paging"
    PROVE  /\ MD!RowsIn(Head(windows)) = RowsRead
           /\ Head(windows) = windows[1] /\ windows[1].limit \in Nat \ {0}
           /\ windows[1].offset = Cursor /\ Cursor \in Nat
           /\ (Cursor - offset) + windows[1].limit <= PageSize[path]
           /\ Reads(list[path], Cursor, windows[1].limit, RowsRead)
           /\ list[path] \in Seq(Records)
<1>1. PagesTyped /\ PageInBounds /\ PageAccounted
  BY DEF PagesInv
<1>2. /\ windows \in Seq(WindowSet) /\ windows # <<>> /\ windows[1].offset = Cursor
      /\ list[path] \in Seq(Records) /\ Cursor \in Nat /\ offset \in Nat
  BY <1>1 DEF PagesTyped, PageAccounted, Tiled, Cursor
<1>3. Head(windows) = windows[1] /\ windows[1] \in WindowSet /\ 1 \in DOMAIN windows
  BY <1>2
<1>4. /\ windows[1].limit >= 1
      /\ windows[1].offset + windows[1].limit <= offset + PageSize[path]
  BY <1>1, <1>3 DEF PageInBounds, Within
<1>5. windows[1].limit \in Nat \ {0}
  BY <1>3, <1>4 DEF WindowSet
<1>6. MD!RowsIn(Head(windows)) = RowsRead
  BY <1>2, <1>3 DEF MD!RowsIn, RowsRead, RowsFrom
<1>7. Reads(list[path], Cursor, windows[1].limit, RowsRead)
  BY <1>2, <1>3, <1>5, WindowReads DEF RowsRead
<1>8. PageSize[path] \in Nat
  BY <1>1, PagesAre DEF PagesTyped
<1>9. (Cursor - offset) + windows[1].limit <= PageSize[path]
  BY <1>2, <1>4, <1>5, <1>8
<1> QED
  BY <1>2, <1>3, <1>5, <1>6, <1>7, <1>9

LEMMA AnswerKeeps ==
    ASSUME PagesInv, MD!Answer PROVE PagesInv'
<1> DEFINE l == windows[1].limit
           rows == page \o RowsRead
           exhausted == Len(RowsRead) < l
           n == Len(fetched[path]) + Len(page)
           got == Elems(fetched[path]) \cup Elems(page)
<1>1. pc = "paging" /\ UNCHANGED MD!server
  BY DEF MD!Answer
<1>2. /\ MD!RowsIn(Head(windows)) = RowsRead
      /\ Head(windows) = windows[1] /\ l \in Nat \ {0}
      /\ windows[1].offset = Cursor /\ Cursor \in Nat
      /\ (Cursor - offset) + l <= PageSize[path]
      /\ Reads(list[path], Cursor, l, RowsRead) /\ list[path] \in Seq(Records)
  BY <1>1, WindowAsked
<1>3. PagesTyped /\ PageInBounds /\ PageAccounted
  BY <1>1 DEF PagesInv
<1>4. /\ path \in MD!Paths /\ offset \in Nat /\ page \in Seq(Records) /\ skipped \in Nat
      /\ gaps \in Nat /\ fetched[path] \in Seq(Records)
      /\ Listed(path, list[path])
  BY <1>3 DEF PagesTyped
<1>5. RowsRead = RowsFrom(list[path], Cursor, l)
  BY <1>2 DEF RowsRead
<1>6. /\ MD!EndOfWindow(rows, skipped, exhausted)
      /\ gaps' = IF path' = path THEN gaps ELSE 0
  BY <1>2 DEF MD!Answer
<1>7. /\ RowsRead \in Seq(Records) /\ Left(list[path], Cursor) \in Nat
      /\ Len(RowsRead) = IF l <= Left(list[path], Cursor) THEN l
                         ELSE Left(list[path], Cursor)
  BY <1>2 DEF Reads
<1>8. /\ rows \in Seq(Records) /\ Len(rows) = Len(page) + Len(RowsRead)
      /\ Elems(rows) = Elems(page) \cup Elems(RowsRead)
      /\ Len(page) \in Nat /\ Len(RowsRead) \in Nat
  BY <1>4, <1>7, ElemsOfBoth, LenProperties
<1>9. Accounted(n, got, list[path], Cursor, stayed, gaps, additions)
  BY <1>3 DEF PageAccounted
<1>10. n \in Nat
  BY <1>4, <1>8, LenProperties
<1>11. Accounted(n + Len(RowsRead), got \cup Elems(RowsRead), list[path], Cursor + l,
                 stayed, gaps, additions)
  <2> HIDE DEF n, got, l
  <2> QED
    BY <1>2, <1>5, <1>9, <1>10, AccountRead
<1>12. /\ n + Len(RowsRead) = Len(fetched[path]) + Len(rows)
       /\ got \cup Elems(RowsRead) = Elems(fetched[path]) \cup Elems(rows)
  <2> HIDE DEF rows
  <2>1. Len(fetched[path]) \in Nat
    BY <1>4, LenProperties
  <2>2. n + Len(RowsRead) = Len(fetched[path]) + Len(rows)
    <3>1. Len(rows) = Len(page) + Len(RowsRead)
      BY <1>8
    <3>2. Len(page) \in Nat /\ Len(RowsRead) \in Nat
      BY <1>8
    <3> DEFINE x == Len(fetched[path])
               y == Len(page)
               z == Len(RowsRead)
    <3>3. x \in Nat /\ y \in Nat /\ z \in Nat
      BY <2>1, <3>2
    <3>4. n + z = (x + y) + z
      OBVIOUS
    <3> HIDE DEF x, y, z, n
    <3>5. (x + y) + z = x + (y + z)
      BY <3>3
    <3>6. Len(rows) = y + z
      BY <3>1 DEF y, z
    <3>7. n + z = x + Len(rows)
      BY <3>4, <3>5, <3>6
    <3> QED
      BY <3>7 DEF x, z
  <2>3. got \cup Elems(RowsRead) = Elems(fetched[path]) \cup Elems(rows)
    BY <1>8
  <2> QED
    BY <2>2, <2>3
<1>13. ASSUME ~exhausted
       PROVE  /\ (offset + Len(rows)) + skipped = windows[1].offset + l
              /\ Accounted(Len(fetched[path]) + Len(rows),
                           Elems(fetched[path]) \cup Elems(rows), list[path],
                           (offset + Len(rows)) + skipped, stayed, gaps, additions)
  <2>1. Len(RowsRead) = l
    BY <1>2, <1>7, <1>13
  <2>2. (offset + Len(rows)) + skipped = Cursor + l
    <3> HIDE DEF rows, l
    <3> QED
      BY <1>2, <1>4, <1>8, <2>1 DEF Cursor
  <2> HIDE DEF rows, n, got, l
  <2> QED
    BY <1>2, <1>11, <1>12, <2>2
<1>14. skipped <= PageSize[path]
  BY <1>3 DEF PageInBounds
<1>15. ASSUME Len(rows) > 0 PROVE offset < Capacity(path)
  <2>1. CASE Len(page) > 0
    BY <1>3, <2>1 DEF PageInBounds
  <2>2. CASE ~(Len(page) > 0)
    <3>1. Left(list[path], Cursor) > 0
      BY <1>2, <1>7, <1>8, <1>15, <2>2
    <3>2. Cursor < Len(list[path]) /\ Len(list[path]) \in Nat
      BY <1>2, <3>1 DEF Left
    <3>3. Len(list[path]) <= Capacity(path) /\ Capacity(path) \in Nat
      BY <1>4, ListedFits
    <3>4. offset <= Cursor
      BY <1>4, <1>8 DEF Cursor
    <3> QED
      BY <1>2, <1>4, <3>2, <3>3, <3>4
  <2> QED
    BY <2>1, <2>2
<1>16. exhausted \in BOOLEAN
  OBVIOUS
<1> HIDE DEF rows, exhausted, n, got
<1> QED
  BY <1>1, <1>4, <1>6, <1>8, <1>13, <1>14, <1>15, <1>16, WindowDone

LEMMA SkipKeeps ==
    ASSUME PagesInv, MD!Skip PROVE PagesInv'
<1> DEFINE h == IF Elems(RowsRead) \cap Bad # {} \/ RowsRead = <<>>
                THEN gaps ELSE gaps + 1
           n == Len(fetched[path]) + Len(page)
           got == Elems(fetched[path]) \cup Elems(page)
<1>1. pc = "paging" /\ UNCHANGED MD!server
  BY DEF MD!Skip
<1>2. /\ MD!RowsIn(Head(windows)) = RowsRead
      /\ Head(windows) = windows[1] /\ windows[1].limit \in Nat \ {0}
      /\ windows[1].offset = Cursor /\ Cursor \in Nat
      /\ (Cursor - offset) + windows[1].limit <= PageSize[path]
      /\ list[path] \in Seq(Records)
  BY <1>1, WindowAsked
<1>3. PagesTyped /\ PageInBounds /\ PageAccounted
  BY <1>1 DEF PagesInv
<1>4. /\ path \in MD!Paths /\ offset \in Nat /\ page \in Seq(Records) /\ skipped \in Nat
      /\ gaps \in Nat /\ additions \in Nat /\ fetched[path] \in Seq(Records)
      /\ Len(page) \in Nat /\ Len(fetched[path]) \in Nat
  BY <1>3, LenProperties DEF PagesTyped
<1>5. /\ windows[1].limit = 1
      /\ MD!EndOfWindow(page, skipped + 1, FALSE)
      /\ gaps' = h
  BY <1>2 DEF MD!Skip, MD!HoldsBad, MD!ToSet, Elems
<1>6. RowsRead = RowsFrom(list[path], Cursor, 1)
  BY <1>2, <1>5 DEF RowsRead
<1>7. path' = path
  <2>1. MD!EndOfPage(page, skipped + 1, FALSE) => path' = path
    BY DEF MD!EndOfPage
  <2> QED
    BY <1>5, <2>1 DEF MD!EndOfWindow
<1>8. h \in Nat /\ gaps <= h
  BY <1>4
<1>9. stayed \subseteq Elems(list[path])
  BY <1>3 DEF PageAccounted
<1>10. IsFiniteSet(stayed) /\ IsFiniteSet(got)
  BY <1>2, <1>4, <1>9, ElemsAreFinite, FS_Subset, FS_Union
<1>11. Accounted(n, got, list[path], Cursor, stayed, gaps, additions)
  BY <1>3 DEF PageAccounted
<1>12. n \in Nat
  BY <1>4
<1>13. \/ RowsFrom(list[path], Cursor, 1) = <<>> \/ gaps + 1 <= h
       \/ Elems(RowsFrom(list[path], Cursor, 1)) \cap Bad # {}
  BY <1>4, <1>6
<1> HIDE DEF h
<1>14. Accounted(n, got, list[path], Cursor + 1, stayed, h, additions)
  <2> HIDE DEF n, got
  <2> QED
    BY <1>2, <1>4, <1>8, <1>10, <1>11, <1>12, <1>13, AccountSkip
<1>15. /\ (offset + Len(page)) + (skipped + 1) = Cursor + 1
       /\ Cursor + 1 = windows[1].offset + windows[1].limit
  BY <1>2, <1>4, <1>5 DEF Cursor
<1>16. skipped + 1 <= PageSize[path] /\ skipped + 1 \in Nat
  <2>1. PageSize[path] \in Nat
    BY <1>4, PagesAre
  <2> QED
    BY <1>2, <1>4, <1>5, <2>1 DEF Cursor
<1>17. Len(page) > 0 => offset < Capacity(path)
  BY <1>3 DEF PageInBounds
<1>18. FALSE \in BOOLEAN /\ gaps' = IF path' = path THEN h ELSE 0
  BY <1>5, <1>7
<1>19. Accounted(Len(fetched[path]) + Len(page),
                 Elems(fetched[path]) \cup Elems(page), list[path],
                 (offset + Len(page)) + (skipped + 1), stayed, h, additions)
  BY <1>14, <1>15
<1>20. (offset + Len(page)) + (skipped + 1) = windows[1].offset + windows[1].limit
  BY <1>15
<1> QED
  BY <1>1, <1>4, <1>5, <1>8, <1>16, <1>17, <1>18, <1>19, <1>20, WindowDone

LEMMA HalveKeeps ==
    ASSUME PagesInv, MD!Halve PROVE PagesInv'
<1>1. /\ pc = "paging" /\ windows' = MD!Halves(Head(windows)) \o Tail(windows)
      /\ Head(windows).limit > 1
      /\ UNCHANGED <<pc, path, offset, page, skipped, fetched, MD!server, MD!history>>
  BY DEF MD!Halve
<1>2. Head(windows) = windows[1] /\ Cursor \in Nat
  BY <1>1, WindowAsked
<1>3. PagesTyped /\ PageInBounds /\ PageAccounted
  BY <1>1 DEF PagesInv
<1> DEFINE to == offset + PageSize[path]
<1>4. to \in Nat /\ offset \in Nat /\ windows \in Seq(WindowSet)
  BY <1>3, PagesAre DEF PagesTyped
<1>5. Within(windows, offset, to) /\ Tiled(windows, Cursor, to)
  BY <1>3 DEF PageInBounds, PageAccounted
<1> HIDE DEF to
<1>6. /\ windows' \in Seq(WindowSet) /\ Within(windows', offset, to)
      /\ Tiled(windows', Cursor, to)
  BY <1>1, <1>2, <1>4, <1>5, HalvedWindow
<1>7. /\ pc' = pc /\ path' = path /\ offset' = offset /\ page' = page
      /\ skipped' = skipped /\ fetched' = fetched /\ list' = list /\ down' = down
      /\ outages' = outages /\ stayed' = stayed /\ gaps' = gaps
      /\ additions' = additions
  BY <1>1 DEF MD!server, MD!history
<1>8. PagesTyped'
  BY <1>3, <1>6, <1>7 DEF PagesTyped
<1>9. PageInBounds'
  BY <1>3, <1>6, <1>7 DEF PageInBounds, Capacity, to
<1>10. PageAccounted'
  BY <1>3, <1>6, <1>7 DEF PageAccounted, Cursor, to
<1> QED
  BY <1>8, <1>9, <1>10 DEF PagesInv

LEMMA WithdrawKeeps ==
    ASSUME PagesInv, MD!Withdraw PROVE PagesInv'
<1>1. pc = "paging" /\ gaps' = gaps + 1
  BY DEF MD!Withdraw, MD!MayBeEdited
<1>2. PICK i \in DOMAIN list[path] :
        /\ list' = [list EXCEPT ![path] = MD!RemoveAt(@, i)]
        /\ stayed' = stayed \ {list[path][i]}
  BY DEF MD!Withdraw
<1> DEFINE s == list[path]
           t == MD!RemoveAt(s, i)
           n == Len(fetched[path]) + Len(page)
           got == Elems(fetched[path]) \cup Elems(page)
<1>3. /\ pc' = pc /\ path' = path /\ windows' = windows /\ offset' = offset
      /\ page' = page /\ skipped' = skipped /\ fetched' = fetched
      /\ down' = down /\ outages' = outages /\ additions' = additions
  BY DEF MD!Withdraw, MD!client
<1>4. PagesTyped /\ PageInBounds /\ PageAccounted
  BY <1>1 DEF PagesInv
<1>5. /\ path \in MD!Paths /\ Listed(path, s) /\ s \in Seq(Records) /\ IsInjective(s)
      /\ list \in [MD!Paths -> Seq(Records)]
      /\ fetched[path] \in Seq(Records) /\ page \in Seq(Records)
      /\ gaps \in Nat /\ additions \in Nat /\ Cursor \in Nat /\ n \in Nat
  BY <1>4, LenProperties DEF PagesTyped, Listed, Cursor
<1>6. i \in 1 .. Len(s)
  BY <1>5, LenProperties
<1>7. Listed(path, t) /\ Elems(s) \ {s[i]} \subseteq Elems(t) /\ t \in Seq(Records)
  <2>1. Listed(path, t) /\ Elems(s) \ {s[i]} \subseteq Elems(t)
    <3> HIDE DEF s
    <3> QED
      BY <1>5, <1>6, ListedWithout
  <2> QED
    BY <2>1 DEF Listed
<1>8. stayed \subseteq Elems(s)
  BY <1>4 DEF PageAccounted
<1>9. IsFiniteSet(stayed) /\ IsFiniteSet(got)
  BY <1>5, <1>8, ElemsAreFinite, FS_Subset, FS_Union
<1>10. Accounted(n, got, s, Cursor, stayed, gaps, additions)
  BY <1>4 DEF PageAccounted
<1>11. Accounted(n, got, t, Cursor, stayed \ {s[i]}, gaps + 1, additions)
  <2> HIDE DEF n, got, s
  <2> QED
    BY <1>5, <1>6, <1>9, <1>10, AccountWithdraw
<1>12. list'[path] = t /\ \A p \in MD!Paths : p # path => list'[p] = list[p]
  BY <1>2, <1>5
<1>13. list' \in [MD!Paths -> Seq(Records)]
  <2> HIDE DEF t
  <2>1. list' = [list EXCEPT ![path] = t]
    BY <1>2 DEF t
  <2> QED
    BY <1>5, <1>7, <2>1
<1> HIDE DEF t
<1>14. PagesTyped'
  <2>1. \A p \in MD!Paths : Listed(p, list'[p])
    BY <1>4, <1>7, <1>12 DEF PagesTyped
  <2> QED
    BY <1>1, <1>3, <1>4, <1>5, <1>13, <2>1 DEF PagesTyped
<1>15. PageInBounds'
  BY <1>3, <1>4 DEF PageInBounds, Capacity
<1>16. PageAccounted'
  <2>1. stayed' \subseteq Elems(list'[path'])
    BY <1>2, <1>3, <1>7, <1>8, <1>12
  <2>2. Accounted(n, got, list'[path'], Cursor, stayed', gaps', additions')
    BY <1>1, <1>2, <1>3, <1>11, <1>12
  <2> QED
    BY <1>3, <1>4, <2>1, <2>2 DEF PageAccounted, Cursor
<1> QED
  BY <1>14, <1>15, <1>16 DEF PagesInv

LEMMA InsertKeeps ==
    ASSUME PagesInv, MD!Insert PROVE PagesInv'
<1>1. pc = "paging" /\ additions' = additions + 1
  BY DEF MD!Insert, MD!MayBeEdited
<1>2. \E r \in Spare[path] \ Elems(list[path]), i \in 1 .. Len(list[path]) + 1 :
        list' = [list EXCEPT ![path] = MD!InsertAt(@, i, r)]
  BY DEF MD!Insert, MD!ToSet, Elems
<1>3. PICK r \in Spare[path] \ Elems(list[path]), i \in 1 .. Len(list[path]) + 1 :
        list' = [list EXCEPT ![path] = MD!InsertAt(@, i, r)]
  BY <1>2
<1> DEFINE s == list[path]
           t == MD!InsertAt(s, i, r)
           n == Len(fetched[path]) + Len(page)
           got == Elems(fetched[path]) \cup Elems(page)
<1>4. /\ pc' = pc /\ path' = path /\ windows' = windows /\ offset' = offset
      /\ page' = page /\ skipped' = skipped /\ fetched' = fetched
      /\ down' = down /\ outages' = outages /\ stayed' = stayed /\ gaps' = gaps
  BY DEF MD!Insert, MD!client
<1>5. PagesTyped /\ PageInBounds /\ PageAccounted
  BY <1>1 DEF PagesInv
<1>6. /\ path \in MD!Paths /\ Listed(path, s) /\ s \in Seq(Records) /\ IsInjective(s)
      /\ list \in [MD!Paths -> Seq(Records)]
      /\ fetched[path] \in Seq(Records) /\ page \in Seq(Records)
      /\ gaps \in Nat /\ additions \in Nat /\ Cursor \in Nat /\ n \in Nat
  BY <1>5, LenProperties DEF PagesTyped, Listed, Cursor
<1>7. i \in 1 .. Len(s) + 1 /\ r \in Spare[path] \ Elems(s) /\ r \in Records
  BY <1>6, ListingAssumption DEF Records
<1>8. Listed(path, t) /\ Elems(s) \subseteq Elems(t) /\ t \in Seq(Records)
  <2>1. Listed(path, t) /\ Elems(s) \subseteq Elems(t)
    <3> HIDE DEF s
    <3> QED
      BY <1>6, <1>7, ListedWith
  <2> QED
    BY <2>1 DEF Listed
<1>9. stayed \subseteq Elems(s)
  BY <1>5 DEF PageAccounted
<1>10. IsFiniteSet(stayed) /\ IsFiniteSet(got)
  BY <1>6, <1>9, ElemsAreFinite, FS_Subset, FS_Union
<1>11. Accounted(n, got, s, Cursor, stayed, gaps, additions)
  BY <1>5 DEF PageAccounted
<1>12. Accounted(n, got, t, Cursor, stayed, gaps, additions + 1)
  <2> HIDE DEF n, got, s
  <2> QED
    BY <1>6, <1>7, <1>10, <1>11, AccountInsert
<1>13. list'[path] = t /\ \A p \in MD!Paths : p # path => list'[p] = list[p]
  BY <1>3, <1>6
<1>14. list' \in [MD!Paths -> Seq(Records)]
  <2> HIDE DEF t
  <2>1. list' = [list EXCEPT ![path] = t]
    BY <1>3 DEF t
  <2> QED
    BY <1>6, <1>8, <2>1
<1> HIDE DEF t
<1>15. PagesTyped'
  <2>1. \A p \in MD!Paths : Listed(p, list'[p])
    BY <1>5, <1>8, <1>13 DEF PagesTyped
  <2> QED
    BY <1>1, <1>4, <1>5, <1>6, <1>14, <2>1 DEF PagesTyped
<1>16. PageInBounds'
  BY <1>4, <1>5 DEF PageInBounds, Capacity
<1>17. PageAccounted'
  <2>1. stayed' \subseteq Elems(list'[path'])
    BY <1>4, <1>8, <1>9, <1>13
  <2>2. Accounted(n, got, list'[path'], Cursor, stayed', gaps', additions')
    BY <1>1, <1>4, <1>12, <1>13
  <2> QED
    BY <1>4, <1>5, <2>1, <2>2 DEF PageAccounted, Cursor
<1> QED
  BY <1>15, <1>16, <1>17 DEF PagesInv

LEMMA ListingIsListed ==
    /\ Listing \in [MD!Paths -> Seq(Records)]
    /\ \A p \in MD!Paths : Listed(p, Listing[p])
BY ListingAssumption DEF Listed, Records

PagesReset ==
    /\ pc = "token" /\ path = 1 /\ windows = <<>> /\ offset = 0
    /\ page = <<>> /\ skipped = 0 /\ fetched = [p \in MD!Paths |-> <<>>]
    /\ list = Listing /\ down = FALSE /\ outages = 0
    /\ stayed = {} /\ gaps = 0 /\ additions = 0

LEMMA ResetIsFine ==
    PagesReset => PagesInv
<1> SUFFICES ASSUME PagesReset PROVE PagesInv
  OBVIOUS
<1> USE DEF PagesReset
<1>1. 1 \in MD!Paths /\ PageSize[1] \in Nat \ {0}
  BY PagesAre
<1>2. Capacity(1) \in Nat
  BY <1>1, ListingIsListed, ListedFits
<1>3. <<>> \in Seq(WindowSet) /\ DOMAIN windows = {}
  BY EmptySeq
<1>4. PagesTyped
  <2>1. fetched \in [MD!Paths -> Seq(Records)]
    BY EmptyRows
  <2>2. list \in [MD!Paths -> Seq(Records)] /\ \A p \in MD!Paths : Listed(p, list[p])
    BY ListingIsListed
  <2>3. down \in BOOLEAN /\ outages \in 0 .. MaxOutages
    <3>1. MaxOutages \in Nat
      BY ListingAssumption
    <3>2. down \in BOOLEAN
      OBVIOUS
    <3>3. outages \in 0 .. MaxOutages
      BY <3>1
    <3> QED
      BY <3>2, <3>3
  <2>4. page \in Seq(Records) /\ windows \in Seq(WindowSet)
    BY <1>3, EmptyRows
  <2> QED
    BY <1>1, <2>1, <2>2, <2>3, <2>4 DEF PagesTyped
<1>5. PageInBounds
  BY <1>1, <1>2, <1>3, EmptyRows DEF PageInBounds, Within
<1> QED
  BY <1>4, <1>5 DEF PagesInv

LEMMA PagesStep ==
    ASSUME PagesInv,
           \/ MD!Request \/ MD!Raise \/ MD!Server \/ MD!Exit
           \/ UNCHANGED mobilityVars
    PROVE  PagesInv'
<1>0. PagesTyped /\ PageInBounds
  BY DEF PagesInv
<1>1. CASE MD!FetchAccessToken
  <2>1. /\ pc' = "paging" /\ MD!BeginPath(1) /\ gaps' = gaps /\ fetched' = fetched
        /\ UNCHANGED MD!server
    BY <1>1 DEF MD!FetchAccessToken
  <2>2. fetched' = [p \in MD!Paths |-> <<>>] /\ gaps \in Nat
    BY <1>0, <1>1, <2>1 DEF PagesTyped, MD!FetchAccessToken
  <2>3. fetched' \in [MD!Paths -> Seq(Records)] /\ 1 \in MD!Paths /\ 2 \in MD!Paths
    BY <2>2, EmptyRows, PagesAre
  <2>4. fetched'[1] = <<>> /\ fetched'[2] = <<>>
    BY <2>2, <2>3
  <2> QED
    BY <1>0, <2>1, <2>2, <2>3, <2>4, PathBegun
<1>2. CASE MD!NoToken
  <2>1. /\ pc' = "done" /\ path' = path /\ windows' = windows /\ offset' = offset
        /\ page' = page /\ skipped' = skipped /\ fetched' = fetched /\ list' = list
        /\ down' = down /\ outages' = outages /\ stayed' = stayed /\ gaps' = gaps
        /\ additions' = additions
    BY <1>2 DEF MD!NoToken, MD!server, MD!history
  <2> QED
    BY <1>0, <2>1 DEF PagesInv, PagesTyped, PageInBounds, Within, Capacity
<1>3. CASE MD!Raise
  <2>1. /\ pc' = "failed" /\ path' = path /\ windows' = windows /\ offset' = offset
        /\ page' = page /\ skipped' = skipped /\ fetched' = fetched /\ list' = list
        /\ down' = down /\ outages' = outages /\ stayed' = stayed /\ gaps' = gaps
        /\ additions' = additions
    BY <1>3 DEF MD!Raise, MD!server, MD!history
  <2> QED
    BY <1>0, <2>1 DEF PagesInv, PagesTyped, PageInBounds, Within, Capacity
<1>4. CASE MD!GoDown \/ MD!ComeBack
  <2>1. /\ pc' = pc /\ path' = path /\ windows' = windows /\ offset' = offset
        /\ page' = page /\ skipped' = skipped /\ fetched' = fetched /\ list' = list
        /\ stayed' = stayed /\ gaps' = gaps /\ additions' = additions
    BY <1>4 DEF MD!GoDown, MD!ComeBack, MD!client, MD!history
  <2>2. down' \in BOOLEAN /\ outages' \in 0 .. MaxOutages
    <3>1. outages \in 0 .. MaxOutages /\ MaxOutages \in Nat
      BY <1>0, ListingAssumption DEF PagesTyped
    <3>2. CASE MD!GoDown
      <4>1. outages < MaxOutages /\ outages' = outages + 1 /\ down' = TRUE
        BY <3>2 DEF MD!GoDown
      <4> QED
        BY <3>1, <4>1
    <3>3. CASE MD!ComeBack
      BY <3>1, <3>3 DEF MD!ComeBack
    <3> QED
      BY <1>4, <3>2, <3>3
  <2> QED
    BY <2>1, <2>2 DEF PagesInv, PagesTyped, PageInBounds, PageAccounted, Cursor,
       Within, Capacity
<1>5. CASE MD!Exit
  <2>1. PagesReset'
    BY <1>5 DEF MD!Exit, PagesReset
  <2> QED
    BY <2>1, ResetIsFine, PTL
<1>6. CASE UNCHANGED mobilityVars
  BY <1>6 DEF mobilityVars, PagesInv, PagesTyped, PageInBounds, PageAccounted, Cursor,
     Within, Capacity
<1> QED
  BY <1>1, <1>2, <1>3, <1>4, <1>5, <1>6, AnswerKeeps, HalveKeeps, SkipKeeps,
     WithdrawKeeps, InsertKeeps
  DEF MD!Request, MD!Server

(* Only an answer that ends the list ends the reading of it.               *)
LEMMA OnlyAnswersEnd ==
    ASSUME \/ MD!Request \/ MD!Raise \/ MD!Server \/ MD!Exit
           \/ UNCHANGED mobilityVars,
           pc = "paging", path' # path \/ pc' = "done"
    PROVE  MD!Answer
<1>1. ~MD!FetchAccessToken /\ ~MD!NoToken /\ ~MD!Exit
  BY DEF MD!FetchAccessToken, MD!NoToken, MD!Exit
<1>2. ~MD!Raise
  BY DEF MD!Raise
<1>3. ~MD!Halve
  BY DEF MD!Halve
<1>4. ~MD!Server
  BY DEF MD!Server, MD!Withdraw, MD!Insert, MD!GoDown, MD!ComeBack, MD!client
<1>5. ~MD!Skip
  <2>1. ~MD!EndOfPage(page, skipped + 1, FALSE)
    BY DEF MD!EndOfPage
  <2>2. ~MD!EndOfWindow(page, skipped + 1, FALSE)
    BY <2>1 DEF MD!EndOfWindow
  <2> QED
    BY <2>2 DEF MD!Skip
<1>6. ~UNCHANGED mobilityVars
  BY DEF mobilityVars
<1> QED
  BY <1>1, <1>2, <1>3, <1>4, <1>5, <1>6 DEF MD!Request

LEMMA ListIsRead ==
    ASSUME PagesInv, MD!Answer, path' # path \/ pc' = "done"
    PROVE  /\ Cardinality((stayed \ Bad) \ ToSet(fetched'[path])) <= gaps
           /\ Len(fetched'[path]) - Cardinality(ToSet(fetched'[path])) <= additions
<1> DEFINE l == windows[1].limit
           s == list[path]
           rows == page \o RowsRead
           n == Len(fetched[path]) + Len(page)
           got == Elems(fetched[path]) \cup Elems(page)
           all == fetched'[path]
<1>1. pc = "paging"
  BY DEF MD!Answer
<1>2. /\ MD!RowsIn(Head(windows)) = RowsRead
      /\ Head(windows) = windows[1] /\ l \in Nat \ {0} /\ Cursor \in Nat
      /\ Reads(s, Cursor, l, RowsRead) /\ s \in Seq(Records)
  BY <1>1, WindowAsked
<1>3. PagesTyped /\ PageAccounted
  BY <1>1 DEF PagesInv
<1>4. /\ path \in MD!Paths /\ page \in Seq(Records) /\ fetched[path] \in Seq(Records)
      /\ fetched \in [MD!Paths -> Seq(Records)]
  BY <1>3 DEF PagesTyped
<1>5. MD!EndOfWindow(rows, skipped, Len(RowsRead) < l)
  BY <1>2 DEF MD!Answer
<1>6. /\ Len(RowsRead) < l
      /\ fetched' = [fetched EXCEPT ![path] = @ \o rows]
  <2> HIDE DEF rows, l
  <2>1. MD!EndOfPage(rows, skipped, Len(RowsRead) < l)
    BY <1>1, <1>5 DEF MD!EndOfWindow
  <2> QED
    BY <1>1, <2>1 DEF MD!EndOfPage
<1>7. RowsRead = RowsFrom(s, Cursor, l)
  BY <1>2 DEF RowsRead
<1>8. RowsRead \in Seq(Records)
  BY <1>2 DEF Reads
<1>9. /\ rows \in Seq(Records) /\ Len(rows) = Len(page) + Len(RowsRead)
      /\ Elems(rows) = Elems(page) \cup Elems(RowsRead)
  BY <1>4, <1>8, ElemsOfBoth
<1> HIDE DEF rows
<1>10. all = fetched[path] \o rows
  BY <1>4, <1>6
<1>11. /\ Len(all) = Len(fetched[path]) + Len(rows)
       /\ Elems(all) = Elems(fetched[path]) \cup Elems(rows)
  <2>1. /\ Len(fetched[path] \o rows) = Len(fetched[path]) + Len(rows)
        /\ Elems(fetched[path] \o rows) = Elems(fetched[path]) \cup Elems(rows)
    <3> DEFINE old == fetched[path]
    <3>1. old \in Seq(Records) /\ rows \in Seq(Records)
      BY <1>4, <1>9
    <3> HIDE DEF old
    <3>2. /\ Len(old \o rows) = Len(old) + Len(rows)
          /\ Elems(old \o rows) = Elems(old) \cup Elems(rows)
      BY <3>1, ElemsOfBoth
    <3> QED
      BY <3>2 DEF old
  <2> HIDE DEF all
  <2> QED
    BY <1>10, <2>1
<1> HIDE DEF all
<1>12. Len(fetched[path]) \in Nat /\ Len(page) \in Nat /\ Len(RowsRead) \in Nat
  BY <1>4, <1>8, LenProperties
<1>13. Accounted(n, got, s, Cursor, stayed, gaps, additions) /\ n \in Nat
  BY <1>3, <1>12 DEF PageAccounted
<1>14. Len(all) = n + Len(RowsRead)
  <2> DEFINE x == Len(fetched[path])
             y == Len(page)
             z == Len(RowsRead)
  <2>1. Len(all) = x + (y + z)
    BY <1>9, <1>11
  <2>2. n = x + y /\ x \in Nat /\ y \in Nat /\ z \in Nat
    BY <1>12
  <2> HIDE DEF x, y, z, n
  <2>3. Len(all) = n + z
    BY <2>1, <2>2
  <2> QED
    BY <2>3 DEF z
<1>15. Elems(all) = got \cup Elems(RowsRead)
  BY <1>9, <1>11
<1>16. /\ Cardinality(Missing(stayed, got \cup Elems(RowsRead))) <= gaps
       /\ (n + Len(RowsRead)) - Cardinality(got \cup Elems(RowsRead)) <= additions
  <2> HIDE DEF n, got, s, l
  <2>1. Len(RowsFrom(s, Cursor, l)) < l
    BY <1>6, <1>7
  <2> QED
    BY <1>2, <1>7, <1>13, <2>1, AccountClosed
<1>17. /\ Cardinality(Missing(stayed, Elems(all))) <= gaps
       /\ Len(all) - Cardinality(Elems(all)) <= additions
  <2> HIDE DEF n, got
  <2> QED
    BY <1>14, <1>15, <1>16
<1>18. ToSet(all) = Elems(all)
  BY DEF ToSet, Elems
<1>19. /\ Cardinality((stayed \ Bad) \ ToSet(all)) <= gaps
       /\ Len(all) - Cardinality(ToSet(all)) <= additions
  BY <1>17, <1>18 DEF Missing
<1> QED
  BY <1>19 DEF all

-----------------------------------------------------------------------------
(* The inductive invariant of the Transitland Atlas                        *)

FilesInv ==
    /\ phase \in {"start", "fetching", "done", "failed"}
    /\ state \in [TA!Files -> {"waiting", "on the wire", "read", "lost"}]
    /\ Cardinality(TA!OnTheWire) <= Concurrency
    /\ arrived \in Seq(TA!Files) /\ IsInjective(arrived)
    /\ \A i \in DOMAIN arrived : state[arrived[i]] \in {"read", "lost"}
    /\ phase = "start" => arrived = <<>>

FilesReset ==
    /\ phase = "start" /\ state = [f \in TA!Files |-> "waiting"]
    /\ arrived = <<>> /\ docs = <<>>

LEMMA FilesAreFinite ==
    IsFiniteSet(TA!Files) /\ \A S \in SUBSET TA!Files : IsFiniteSet(S)
<1>1. TA!Files = 1 .. Len(Corpus) /\ Len(Corpus) \in Nat
  BY CorpusAssumption DEF TA!Files
<1>2. IsFiniteSet(TA!Files)
  BY <1>1, FS_Interval
<1> QED
  BY <1>2, FS_Subset

LEMMA FilesResetIsFine ==
    FilesReset => FilesInv
<1> SUFFICES ASSUME FilesReset PROVE FilesInv
  OBVIOUS
<1>1. phase = "start" /\ state = [f \in TA!Files |-> "waiting"] /\ arrived = <<>>
  BY DEF FilesReset
<1>2. TA!OnTheWire = {}
  BY <1>1 DEF TA!OnTheWire
<1>3. Cardinality(TA!OnTheWire) <= Concurrency
  BY <1>2, FS_EmptySet, IngestAssumption
<1>4. arrived \in Seq(TA!Files) /\ DOMAIN arrived = {} /\ IsInjective(arrived)
  BY <1>1, EmptySeq DEF IsInjective
<1> QED
  BY <1>1, <1>3, <1>4 DEF FilesInv

LEMMA FilesStep ==
    ASSUME FilesInv, TA!Next \/ TA!Exit \/ UNCHANGED transitlandVars
    PROVE  FilesInv'
<1>1. /\ state \in [TA!Files -> {"waiting", "on the wire", "read", "lost"}]
      /\ arrived \in Seq(TA!Files) /\ IsInjective(arrived)
      /\ Cardinality(TA!OnTheWire) <= Concurrency
      /\ \A i \in DOMAIN arrived : state[arrived[i]] \in {"read", "lost"}
  BY DEF FilesInv
<1>2. IsFiniteSet(TA!OnTheWire) /\ Cardinality(TA!OnTheWire) \in Nat
  <2>1. TA!OnTheWire \in SUBSET TA!Files
    BY DEF TA!OnTheWire
  <2> QED
    BY <2>1, FilesAreFinite, FS_CardinalityType
<1>3. Concurrency \in Nat
  BY IngestAssumption
<1>4. CASE TA!ReadLocal
  <2>1. PICK lost \in SUBSET TA!Files :
          state' = [f \in TA!Files |-> IF f \in lost THEN "lost" ELSE "read"]
    BY <1>4 DEF TA!ReadLocal
  <2>2. arrived' = arrived /\ phase' = "done" /\ phase = "start"
    BY <1>4 DEF TA!ReadLocal
  <2>3. arrived = <<>>
    BY <2>2 DEF FilesInv
  <2>4. TA!OnTheWire' = {}
    BY <2>1 DEF TA!OnTheWire
  <2>5. Cardinality(TA!OnTheWire') <= Concurrency
    BY <1>3, <2>4, FS_EmptySet
  <2>6. DOMAIN arrived' = {}
    BY <2>2, <2>3
  <2>7. state' \in [TA!Files -> {"waiting", "on the wire", "read", "lost"}]
    BY <2>1
  <2> QED
    BY <1>1, <2>2, <2>5, <2>6, <2>7 DEF FilesInv, IsInjective
<1>5. CASE TA!ReadTree \/ TA!Gather \/ TA!Raise
  <2>1. state' = state /\ arrived' = arrived
    BY <1>5 DEF TA!ReadTree, TA!Gather, TA!Raise
  <2>2. phase' \in {"fetching", "done", "failed"}
    BY <1>5 DEF TA!ReadTree, TA!Gather, TA!Raise
  <2> QED
    BY <1>1, <2>1, <2>2 DEF FilesInv, TA!OnTheWire, IsInjective
<1>6. ASSUME NEW f \in TA!Files, TA!Take(f) PROVE FilesInv'
  <2>1. /\ state[f] = "waiting" /\ state' = [state EXCEPT ![f] = "on the wire"]
        /\ phase = "fetching" /\ phase' = phase /\ arrived' = arrived
        /\ TA!Cardinality(TA!OnTheWire) < Concurrency
    BY <1>6 DEF TA!Take
  <2>2. TA!OnTheWire' = TA!OnTheWire \cup {f}
    BY <1>1, <2>1 DEF TA!OnTheWire
  <2>3. Cardinality(TA!OnTheWire) < Concurrency
    BY <2>1, SameCardinality
  <2>4. Cardinality(TA!OnTheWire') <= Concurrency
    BY <1>2, <1>3, <2>2, <2>3, FS_AddElement
  <2>5. state' \in [TA!Files -> {"waiting", "on the wire", "read", "lost"}]
    BY <1>1, <2>1
  <2>6. \A i \in DOMAIN arrived' : state'[arrived'[i]] \in {"read", "lost"}
    <3>1. ASSUME NEW i \in DOMAIN arrived PROVE state'[arrived[i]] \in {"read", "lost"}
      <4>1. state[arrived[i]] \in {"read", "lost"}
        BY <1>1
      <4>2. arrived[i] # f
        BY <2>1, <4>1
      <4>3. arrived[i] \in TA!Files
        BY <1>1, ElementOfSeq, LenProperties
      <4> QED
        BY <1>1, <2>1, <4>1, <4>2, <4>3
    <3> QED
      BY <2>1, <3>1
  <2> QED
    BY <1>1, <2>1, <2>4, <2>5, <2>6 DEF FilesInv, IsInjective
<1>7. ASSUME NEW f \in TA!Files, NEW outcome \in {"read", "lost"},
             TA!Finish(f, outcome)
      PROVE  FilesInv'
  <2>1. /\ state[f] = "on the wire" /\ state' = [state EXCEPT ![f] = outcome]
        /\ phase = "fetching" /\ phase' = phase /\ arrived' = Append(arrived, f)
    BY <1>7 DEF TA!Finish
  <2>2. TA!OnTheWire' \in SUBSET TA!OnTheWire
    BY <1>1, <2>1 DEF TA!OnTheWire
  <2>3. Cardinality(TA!OnTheWire') <= Concurrency
    <3>1. IsFiniteSet(TA!OnTheWire') /\ Cardinality(TA!OnTheWire') <= Cardinality(TA!OnTheWire)
      BY <1>2, <2>2, FS_Subset
    <3>2. Cardinality(TA!OnTheWire') \in Nat
      BY <3>1, FS_CardinalityType
    <3>3. Cardinality(TA!OnTheWire) <= Concurrency
      BY <1>1
    <3> DEFINE x == Cardinality(TA!OnTheWire')
               y == Cardinality(TA!OnTheWire)
    <3>4. x <= y /\ y <= Concurrency /\ x \in Nat /\ y \in Nat
      BY <1>2, <3>1, <3>2, <3>3
    <3> HIDE DEF x, y
    <3>5. x <= Concurrency
      BY <1>3, <3>4
    <3> QED
      BY <3>5 DEF x
  <2>4. state' \in [TA!Files -> {"waiting", "on the wire", "read", "lost"}]
    BY <1>1, <2>1
  <2>5. /\ arrived' \in Seq(TA!Files) /\ Len(arrived') = Len(arrived) + 1
        /\ \A i \in 1 .. Len(arrived) : arrived'[i] = arrived[i]
        /\ arrived'[Len(arrived) + 1] = f
        /\ Len(arrived) \in Nat /\ DOMAIN arrived = 1 .. Len(arrived)
        /\ DOMAIN arrived' = 1 .. Len(arrived) + 1
    <3> DEFINE more == Append(arrived, f)
    <3>0. arrived \in Seq(TA!Files) /\ f \in TA!Files
      BY <1>1, <1>7
    <3> HIDE DEF TA!Files
    <3>1. /\ more \in Seq(TA!Files) /\ Len(more) = Len(arrived) + 1
          /\ \A i \in 1 .. Len(arrived) : more[i] = arrived[i]
          /\ more[Len(arrived) + 1] = f
      BY <3>0, AppendProperties
    <3>2. Len(arrived) \in Nat /\ DOMAIN arrived = 1 .. Len(arrived)
      BY <1>1, LenProperties
    <3> HIDE DEF more
    <3>3. DOMAIN more = 1 .. Len(more)
      BY <3>1, LenProperties
    <3>4. arrived' = more
      BY <2>1 DEF more
    <3> QED
      BY <3>1, <3>2, <3>3, <3>4
  <2>6. \A i \in DOMAIN arrived : arrived[i] # f /\ arrived[i] \in TA!Files
    <3>1. ASSUME NEW i \in DOMAIN arrived
          PROVE  arrived[i] # f /\ arrived[i] \in TA!Files
      <4>1. arrived[i] \in TA!Files
        BY <1>1, ElementOfSeq, LenProperties
      <4> QED
        BY <1>1, <2>1, <4>1
    <3> QED
      BY <3>1
  <2>7. \A i \in DOMAIN arrived' : i \in DOMAIN arrived \/ i = Len(arrived) + 1
    BY <2>5
  <2>8. \A i \in DOMAIN arrived' : state'[arrived'[i]] \in {"read", "lost"}
    BY <1>1, <2>1, <2>5, <2>6, <2>7
  <2>9. IsInjective(arrived')
    <3>1. \A i, j \in DOMAIN arrived : arrived[i] = arrived[j] => i = j
      BY <1>1 DEF IsInjective
    <3>2. \A i, j \in DOMAIN arrived' : arrived'[i] = arrived'[j] => i = j
      BY <2>5, <2>6, <2>7, <3>1
    <3> QED
      BY <3>2 DEF IsInjective
  <2>10. phase' = "fetching"
    BY <2>1
  <2> HIDE DEF TA!OnTheWire
  <2> QED
    BY <2>3, <2>4, <2>5, <2>8, <2>9, <2>10 DEF FilesInv
<1>8. CASE TA!Exit
  <2>1. FilesReset'
    BY <1>8 DEF TA!Exit, FilesReset
  <2> QED
    BY <2>1, FilesResetIsFine, PTL
<1>9. CASE UNCHANGED transitlandVars
  BY <1>9 DEF FilesInv, transitlandVars, TA!OnTheWire, IsInjective
<1> QED
  BY <1>4, <1>5, <1>6, <1>7, <1>8, <1>9 DEF TA!Next, TA!Step, TA!Fetch

LEMMA FilesTyped ==
    FilesInv => TA!TypeOK
<1> SUFFICES ASSUME FilesInv PROVE TA!TypeOK
  OBVIOUS
<1>1. /\ arrived \in Seq(TA!Files) /\ IsInjective(arrived)
      /\ Cardinality(TA!OnTheWire) <= Concurrency
  BY DEF FilesInv
<1>2. /\ Elems(arrived) \in SUBSET TA!Files /\ Cardinality(Elems(arrived)) = Len(arrived)
  BY <1>1, ElemsAreFinite
<1>3. Cardinality(Elems(arrived)) <= Cardinality(TA!Files)
  BY <1>2, FilesAreFinite, FS_Subset
<1>4. Len(arrived) <= TA!Cardinality(TA!Files)
  BY <1>2, <1>3, SameCardinality
<1>5. TA!Cardinality(TA!OnTheWire) <= Concurrency
  BY <1>1, SameCardinality
<1>6. {arrived[i] : i \in DOMAIN arrived} \subseteq TA!Files
  BY <1>2 DEF Elems
<1> QED
  BY <1>4, <1>5, <1>6 DEF FilesInv, TA!TypeOK

LEMMA PagesTypeOK ==
    PagesInv => MD!TypeOK
<1> SUFFICES ASSUME PagesInv PROVE MD!TypeOK
  OBVIOUS
<1>1. PagesTyped /\ PageInBounds
  BY DEF PagesInv
<1>2. /\ windows \in Seq(WindowSet) /\ path \in MD!Paths /\ offset \in Nat
      /\ skipped \in Nat /\ PageSize[path] \in Nat
  BY <1>1, PagesAre DEF PagesTyped
<1>3. ASSUME NEW i \in DOMAIN windows
      PROVE  windows[i].limit \in 1 .. PageSize[path] /\ windows[i].offset >= offset
  <2>1. windows[i] \in WindowSet
    BY <1>2, ElementOfSeq, LenProperties
  <2>3. windows[i].limit \in Nat /\ windows[i].offset \in Nat
    BY <2>1 DEF WindowSet
  <2>2. /\ windows[i].limit >= 1 /\ offset <= windows[i].offset
        /\ windows[i].offset + windows[i].limit <= offset + PageSize[path]
    BY <1>1 DEF PageInBounds, Within
  <2> QED
    BY <1>2, <2>2, <2>3
<1>4. skipped \in 0 .. PageSize[path]
  BY <1>1, <1>2 DEF PageInBounds
<1>5. offset < Len(Listing[path]) + MD!Cardinality(Spare[path]) + PageSize[path]
  <2>1. offset < (Len(Listing[path]) + Cardinality(Spare[path])) + PageSize[path]
    BY <1>1 DEF PageInBounds, Capacity
  <2>2. MD!Cardinality(Spare[path]) = Cardinality(Spare[path])
    BY SameCardinality
  <2> QED
    BY <2>1, <2>2
<1> QED
  BY <1>1, <1>2, <1>3, <1>4, <1>5 DEF PagesTyped, MD!TypeOK

-----------------------------------------------------------------------------
(* The run                                                                 *)

(* A step of the run is one of the Mobility Database's, or leaves it.      *)
LEMMA StepsOfPages ==
    Next \/ UNCHANGED vars =>
        \/ MD!Request \/ MD!Raise \/ MD!Server \/ MD!Exit
        \/ UNCHANGED mobilityVars
BY DEF Next, vars, MobilityStep, MobilityDatabase, TransitlandStep,
       TransitlandAtlas, Fail, Sources, EndpointChecks, Feeds

LEMMA StepsOfFiles ==
    Next \/ UNCHANGED vars => TA!Next \/ TA!Exit \/ UNCHANGED transitlandVars
BY DEF Next, vars, MobilityStep, MobilityDatabase, TransitlandStep,
       TransitlandAtlas, Fail, Sources, EndpointChecks, Feeds

CatalogsInv == PagesInv /\ FilesInv

LEMMA CatalogsBegin == Init => CatalogsInv
<1>1. ASSUME Init PROVE PagesReset /\ FilesReset
  BY <1>1 DEF Init, MD!Init, TA!Init, PagesReset, FilesReset
<1> QED
  BY <1>1, ResetIsFine, FilesResetIsFine DEF CatalogsInv

LEMMA CatalogsStep == CatalogsInv /\ [Next]_vars => CatalogsInv'
<1> SUFFICES ASSUME CatalogsInv, [Next]_vars PROVE CatalogsInv'
  OBVIOUS
<1>1. PagesInv /\ FilesInv
  BY DEF CatalogsInv
<1>2. PagesInv'
  BY <1>1, StepsOfPages, PagesStep
<1>3. FilesInv'
  BY <1>1, StepsOfFiles, FilesStep
<1> QED
  BY <1>2, <1>3 DEF CatalogsInv

LEMMA CatalogsAlways == Spec => []CatalogsInv
<1> QED
  BY CatalogsBegin, CatalogsStep, PTL DEF Spec

(* When a list has been read to its end, a record that was in it all along *)
(* and does not make the server fail is missing only if one before it was  *)
(* withdrawn meanwhile, or the server went down on it, one for each; and   *)
(* one is there twice only if another was added before it.                 *)
THEOREM ReadsList == Spec => ReadsTheList
<1> DEFINE Reading(p) ==
        MD!Finished(p) =>
            LET rows == fetched'[p]
            IN  /\ Cardinality((stayed \ Bad) \ ToSet(rows)) <= gaps
                /\ Len(rows) - Cardinality(ToSet(rows)) <= additions
<1>1. ASSUME CatalogsInv, Next, NEW p \in MD!Paths PROVE Reading(p)
  <2> SUFFICES ASSUME MD!Finished(p)
               PROVE  /\ Cardinality((stayed \ Bad) \ ToSet(fetched'[p])) <= gaps
                      /\ Len(fetched'[p]) - Cardinality(ToSet(fetched'[p]))
                            <= additions
    OBVIOUS
  <2>1. p = path /\ pc = "paging" /\ (path' # path \/ pc' = "done")
    BY DEF MD!Finished
  <2>2. MD!Answer
    BY <1>1, <2>1, StepsOfPages, OnlyAnswersEnd
  <2>3. PagesInv
    BY <1>1 DEF CatalogsInv
  <2> QED
    BY <2>1, <2>2, <2>3, ListIsRead
<1>2. CatalogsInv /\ [Next]_vars => [\A p \in MD!Paths : Reading(p)]_vars
  BY <1>1
<1> QED
  BY <1>2, CatalogsAlways, PTL DEF Spec, ReadsTheList

-----------------------------------------------------------------------------
(* Finite families                                                         *)

LEMMA ImageIsFinite ==
    ASSUME NEW S, IsFiniteSet(S), NEW f, DOMAIN f = S
    PROVE  IsFiniteSet({f[x] : x \in S}) /\ Cardinality({f[x] : x \in S}) <= Cardinality(S)
<1> DEFINE T == {f[x] : x \in S}
           g == [x \in S |-> f[x]]
<1>1. g \in Surjection(S, T)
  BY DEF Surjection
<1> HIDE DEF T, g
<1>2. IsFiniteSet(T) /\ Cardinality(T) <= Cardinality(S)
  BY <1>1, FS_Surjection
<1> QED
  BY <1>2 DEF T

LEMMA FamilyIsFinite ==
    ASSUME NEW S, IsFiniteSet(S), NEW f, DOMAIN f = S,
           \A x \in S : IsFiniteSet(f[x])
    PROVE  IsFiniteSet(UNION {f[x] : x \in S})
<1> DEFINE T == {f[x] : x \in S}
<1>1. IsFiniteSet(T)
  BY ImageIsFinite
<1>2. \A t \in T : IsFiniteSet(t)
  OBVIOUS
<1> HIDE DEF T
<1>3. IsFiniteSet(UNION T)
  BY <1>1, <1>2, FS_UNION
<1> QED
  BY <1>3 DEF T

LEMMA PairIsFinite ==
    ASSUME NEW x, NEW y
    PROVE  IsFiniteSet({x, y})
<1>1. IsFiniteSet({x} \cup {y})
  BY FS_Singleton, FS_Union
<1>2. {x, y} = {x} \cup {y}
  OBVIOUS
<1> QED
  BY <1>1, <1>2

-----------------------------------------------------------------------------
(* Merging rows                                                            *)

Unique(rows) == \A r, s \in rows : r.id = s.id => r = s

(* What merge has after k of its groups.                                   *)
MergedOf(groups, k) ==
    {r \in UNION {groups[i] : i \in 1 .. k} :
        \E i \in 1 .. k :
            r \in groups[i] /\ \A j \in 1 .. i - 1 : r.id \notin Ids(groups[j])}

Merges(acc, groups, n) ==
    /\ acc[0] = {} /\ acc[n] = Merge(groups)
    /\ \A k \in 1 .. n : acc[k] =
        acc[k - 1] \cup {r \in groups[k] : r.id \notin Ids(acc[k - 1])}

LEMMA MergeSteps ==
    ASSUME NEW n \in Nat, NEW groups, DOMAIN groups = 1 .. n
    PROVE  \E acc : Merges(acc, groups, n)
<1> DEFINE S == 1 .. n
           T == SUBSET UNION {groups[i] : i \in S}
           Eq(f) == f = [U \in SUBSET S |-> IF U = {} THEN {}
                            ELSE f[U \ {Max(U)}] \cup
                                    {r \in groups[Max(U)] :
                                        r.id \notin Ids(f[U \ {Max(U)}])}]
           fold == CHOOSE f : Eq(f)
           pick == [U \in SUBSET S |-> Max(U)]
           step == [d \in T \X S |->
                        d[1] \cup {r \in groups[d[2]] : r.id \notin Ids(d[1])}]
<1>1. IsFiniteSet(S) /\ {} \in T
  BY FS_Interval
<1>2. ASSUME NEW U \in SUBSET S, U # {} PROVE Max(U) \in U
  <2>1. U \in SUBSET (0 .. n)
    OBVIOUS
  <2> QED
    BY <1>2, <2>1, ExtremaAreMembers
<1>3. Picks(pick, S)
  BY <1>2 DEF Picks
<1>4. step \in [T \X S -> T]
  OBVIOUS
<1>5. PICK f \in [SUBSET S -> T] : IsFoldOver(f, S, {}, pick, step)
  <2> HIDE DEF S, T, pick, step
  <2> QED
    BY <1>1, <1>3, <1>4, FoldExists
<1>6. Eq(f)
  <2> HIDE DEF S, T
  <2>1. ASSUME NEW U \in SUBSET S
        PROVE  f[U] = IF U = {} THEN {}
                      ELSE f[U \ {Max(U)}] \cup
                            {r \in groups[Max(U)] :
                                r.id \notin Ids(f[U \ {Max(U)}])}
    <3>1. CASE U = {}
      BY <1>5, <3>1 DEF IsFoldOver
    <3>2. CASE U # {}
      <4>1. f[U] = step[<<f[U \ {pick[U]}], pick[U]>>] /\ pick[U] = Max(U)
        BY <1>5, <3>2 DEF IsFoldOver
      <4>2. Max(U) \in S /\ f[U \ {Max(U)}] \in T
        BY <1>2, <3>2
      <4> QED
        BY <3>2, <4>1, <4>2
    <3> QED
      BY <3>1, <3>2
  <2> QED
    BY <2>1
<1>7. Eq(fold)
  <2> HIDE DEF Eq
  <2> QED
    BY <1>6
<1>8. Merge(groups) = fold[S]
  BY DEF Merge, FoldLeft, MapThenFoldSet
<1> HIDE DEF fold
<1> DEFINE acc == [k \in 0 .. n |-> fold[1 .. k]]
<1>9. acc[0] = {} /\ acc[n] = fold[S]
  <2>1. 1 .. 0 = {} /\ 0 \in 0 .. n /\ n \in 0 .. n
    OBVIOUS
  <2>2. acc[0] = fold[{}] /\ acc[n] = fold[S]
    BY <2>1
  <2> QED
    BY <1>7, <2>2
<1>10. ASSUME NEW k \in 1 .. n
       PROVE  acc[k] = acc[k - 1] \cup {r \in groups[k] : r.id \notin Ids(acc[k - 1])}
  <2>1. /\ k \in 0 .. n /\ k - 1 \in 0 .. n /\ k \in 1 .. k
        /\ 1 .. k \in SUBSET S /\ (1 .. k) \ {k} = 1 .. k - 1
    OBVIOUS
  <2>2. Max(1 .. k) = k
    <3>1. 1 .. k \in SUBSET Int /\ k \in 1 .. k /\ \A y \in 1 .. k : y <= k
      OBVIOUS
    <3> QED
      BY <3>1, MaxIs
  <2>3. fold[1 .. k] = LET U == 1 .. k
                       IN  fold[U \ {Max(U)}] \cup
                            {r \in groups[Max(U)] :
                                r.id \notin Ids(fold[U \ {Max(U)}])}
    <3> HIDE DEF S
    <3> QED
      BY <1>7, <2>1
  <2>4. fold[1 .. k] = fold[1 .. k - 1] \cup
            {r \in groups[k] : r.id \notin Ids(fold[1 .. k - 1])}
    BY <2>1, <2>2, <2>3
  <2> QED
    BY <2>1, <2>4
<1> HIDE DEF acc
<1>11. Merges(acc, groups, n)
  BY <1>8, <1>9, <1>10 DEF Merges
<1> QED
  BY <1>11

(* merge keeps a row of the first group that has its id.                   *)
LEMMA MergeIs ==
    ASSUME NEW n \in Nat, NEW groups, DOMAIN groups = 1 .. n
    PROVE  Merge(groups) = MergedOf(groups, n)
<1> PICK acc : Merges(acc, groups, n)
  BY MergeSteps
<1>1. /\ acc[0] = {} /\ acc[n] = Merge(groups)
      /\ \A k \in 1 .. n : acc[k] =
            acc[k - 1] \cup {r \in groups[k] : r.id \notin Ids(acc[k - 1])}
  BY DEF Merges
<1> DEFINE G == {k \in 0 .. n :
                    /\ acc[k] = MergedOf(groups, k)
                    /\ Ids(acc[k]) = UNION {Ids(groups[i]) : i \in 1 .. k}}
<1>2. 0 \in G
  BY <1>1 DEF MergedOf, Ids
<1>3. ASSUME NEW k \in 0 .. n - 1, k \in G PROVE k + 1 \in G
  <2>1. /\ k + 1 \in 1 .. n /\ (k + 1) - 1 = k /\ k + 1 \in 0 .. n
        /\ \A i : i \in 1 .. k + 1 <=> (i \in 1 .. k \/ i = k + 1)
    OBVIOUS
  <2>2. /\ acc[k] = MergedOf(groups, k)
        /\ Ids(acc[k]) = UNION {Ids(groups[i]) : i \in 1 .. k}
    BY <1>3
  <2>3. acc[k + 1] = acc[k] \cup {r \in groups[k + 1] : r.id \notin Ids(acc[k])}
    BY <1>1, <2>1
  <2>4. acc[k + 1] = MergedOf(groups, k + 1)
    <3>1. ASSUME NEW r
          PROVE  r \in acc[k + 1] <=> r \in MergedOf(groups, k + 1)
      <4>1. r \in acc[k + 1] <=> \/ r \in MergedOf(groups, k)
                                 \/ /\ r \in groups[k + 1]
                                    /\ \A j \in 1 .. k : r.id \notin Ids(groups[j])
        BY <2>2, <2>3
      <4>2. r \in MergedOf(groups, k + 1) <=>
                \E i \in 1 .. k + 1 :
                    /\ r \in groups[i]
                    /\ \A j \in 1 .. i - 1 : r.id \notin Ids(groups[j])
        BY DEF MergedOf
      <4>3. r \in MergedOf(groups, k) <=>
                \E i \in 1 .. k :
                    /\ r \in groups[i]
                    /\ \A j \in 1 .. i - 1 : r.id \notin Ids(groups[j])
        BY DEF MergedOf
      <4> QED
        BY <2>1, <4>1, <4>2, <4>3
    <3> QED
      BY <3>1
  <2>5. Ids(acc[k + 1]) = UNION {Ids(groups[i]) : i \in 1 .. k + 1}
    <3>1. ASSUME NEW x
          PROVE  x \in Ids(acc[k + 1]) <=> x \in Ids(acc[k]) \/ x \in Ids(groups[k + 1])
      BY <2>3 DEF Ids
    <3>2. ASSUME NEW x
          PROVE  x \in UNION {Ids(groups[i]) : i \in 1 .. k + 1} <=>
                    \/ x \in UNION {Ids(groups[i]) : i \in 1 .. k}
                    \/ x \in Ids(groups[k + 1])
      BY <2>1
    <3> QED
      BY <2>2, <3>1, <3>2
  <2> QED
    BY <2>1, <2>4, <2>5
<1>4. n \in G
  <2> HIDE DEF G
  <2>1. \A k \in 0 .. n : k \in G
    BY <1>2, <1>3, InductionUpTo
  <2> QED
    BY <2>1
<1> QED
  BY <1>1, <1>4

LEMMA MergeIsUnique ==
    ASSUME NEW n \in Nat, NEW groups, DOMAIN groups = 1 .. n,
           \A i \in 1 .. n : Unique(groups[i]) /\ IsFiniteSet(groups[i])
    PROVE  /\ Unique(Merge(groups)) /\ IsFiniteSet(Merge(groups))
           /\ \A r \in Merge(groups) : \E i \in 1 .. n : r \in groups[i]
<1>1. Merge(groups) = MergedOf(groups, n)
  BY MergeIs
<1>2. ASSUME NEW r \in MergedOf(groups, n), NEW s \in MergedOf(groups, n), r.id = s.id
      PROVE  r = s
  <2>1. PICK i \in 1 .. n :
            r \in groups[i] /\ \A h \in 1 .. i - 1 : r.id \notin Ids(groups[h])
    BY DEF MergedOf
  <2>2. PICK j \in 1 .. n :
            s \in groups[j] /\ \A h \in 1 .. j - 1 : s.id \notin Ids(groups[h])
    BY DEF MergedOf
  <2>3. r.id \in Ids(groups[i]) /\ s.id \in Ids(groups[j])
    BY <2>1, <2>2 DEF Ids
  <2>4. i = j
    <3>1. ~(i \in 1 .. j - 1) /\ ~(j \in 1 .. i - 1)
      BY <1>2, <2>1, <2>2, <2>3
    <3> QED
      BY <3>1
  <2> QED
    BY <1>2, <2>1, <2>2, <2>4 DEF Unique
<1>3. \A r \in MergedOf(groups, n) : \E i \in 1 .. n : r \in groups[i]
  BY DEF MergedOf
<1>4. IsFiniteSet(MergedOf(groups, n))
  <2>1. IsFiniteSet(1 .. n)
    BY FS_Interval
  <2>2. IsFiniteSet(UNION {groups[i] : i \in 1 .. n})
    BY <2>1, FamilyIsFinite
  <2>3. MergedOf(groups, n) \in SUBSET UNION {groups[i] : i \in 1 .. n}
    BY DEF MergedOf
  <2> QED
    BY <2>2, <2>3, FS_Subset
<1> QED
  BY <1>1, <1>2, <1>3, <1>4 DEF Unique

-----------------------------------------------------------------------------
(* The rows of the catalogs                                                *)

IsRow(r) ==
    /\ r = [id |-> r.id, catalog |-> r.catalog, feed |-> r.feed,
            kind |-> r.kind, urls |-> r.urls, auth |-> r.auth,
            place |-> r.place, references |-> r.references, links |-> r.links]
    /\ r.kind \in Kinds /\ r.feed \in Nat /\ r.id = SourceId(r.feed, r.kind)
    /\ DOMAIN r.urls \subseteq RolesOf(r.kind)
    /\ r.urls = [role \in DOMAIN r.urls |-> r.urls[role]]
    /\ \A role \in DOMAIN r.urls : r.urls[role] \in CatalogUrls
    /\ IsFiniteSet(r.references)

(* The rows that a catalog has of its feeds.                               *)
RowsOfCatalog(rows, catalog, numbers) ==
    /\ Unique(rows) /\ IsFiniteSet(rows)
    /\ \A r \in rows : IsRow(r) /\ r.catalog = catalog /\ r.feed \in numbers

LEMMA IdsTellFeeds ==
    ASSUME NEW f \in Nat, NEW g \in Nat, NEW j \in Kinds, NEW k \in Kinds,
           SourceId(f, j) = SourceId(g, k)
    PROVE  f = g /\ j = k
BY DEF SourceId, Kinds

LEMMA MadeRows ==
    ASSUME NEW e, e.feed \in Nat, IsFiniteSet(e.references),
           \A role \in DOMAIN e.urls : e.urls[role] \in CatalogUrls
    PROVE  RowsOfCatalog(MakeRows(e), e.catalog, {e.feed})
<1> DEFINE Made(k) ==
        [id |-> SourceId(e.feed, k), catalog |-> e.catalog,
         feed |-> e.feed, kind |-> k,
         urls |-> [role \in DOMAIN e.urls \cap RolesOf(k) |-> e.urls[role]],
         auth |-> e.auth, place |-> e.place, references |-> e.references,
         links |-> {}]
           kinds == {k \in Kinds : DOMAIN e.urls \cap RolesOf(k) # {}}
           made == [k \in kinds |-> Made(k)]
<1>1. MakeRows(e) = {Made(k) : k \in kinds}
  BY DEF MakeRows
<1>2. ASSUME NEW k \in kinds
      PROVE  IsRow(Made(k)) /\ Made(k).catalog = e.catalog /\ Made(k).feed \in {e.feed}
  <2>1. DOMAIN Made(k).urls \subseteq RolesOf(k)
    OBVIOUS
  <2> QED
    BY <2>1 DEF IsRow
<1>3. ASSUME NEW j \in kinds, NEW k \in kinds, Made(j).id = Made(k).id
      PROVE  Made(j) = Made(k)
  <2>1. SourceId(e.feed, j) = SourceId(e.feed, k)
    BY <1>3
  <2>2. j = k
    BY <2>1, IdsTellFeeds
  <2> QED
    BY <2>2
<1>4. Unique(MakeRows(e))
  <2>1. \A j, k \in kinds : Made(j).id = Made(k).id => Made(j) = Made(k)
    BY <1>3
  <2> HIDE DEF kinds, Made
  <2> QED
    BY <1>1, <2>1 DEF Unique
<1>5. IsFiniteSet(kinds)
  <2>1. IsFiniteSet(Kinds)
    BY PairIsFinite DEF Kinds
  <2> QED
    BY <2>1, FS_Subset
<1>6. IsFiniteSet({made[k] : k \in kinds})
  <2> HIDE DEF kinds, Made
  <2> QED
    BY <1>5, ImageIsFinite
<1>7. {made[k] : k \in kinds} = {Made(k) : k \in kinds}
  <2> HIDE DEF kinds, Made
  <2> QED
    OBVIOUS
<1> HIDE DEF kinds, Made, made
<1>8. IsFiniteSet(MakeRows(e))
  BY <1>1, <1>6, <1>7
<1> QED
  BY <1>1, <1>2, <1>4, <1>8 DEF RowsOfCatalog

(* The rows of entries that each have a number of their own.               *)
LEMMA RowsOfEntries ==
    ASSUME NEW S, IsFiniteSet(S), NEW entry, DOMAIN entry = S, NEW catalog,
           NEW N \in SUBSET Nat,
           \A x \in S : /\ entry[x].feed \in N /\ entry[x].catalog = catalog
                        /\ IsFiniteSet(entry[x].references)
                        /\ \A role \in DOMAIN entry[x].urls :
                                entry[x].urls[role] \in CatalogUrls,
           \A x, y \in S : entry[x].feed = entry[y].feed => x = y
    PROVE  RowsOfCatalog(UNION {MakeRows(entry[x]) : x \in S}, catalog, N)
<1> DEFINE Made(x) == MakeRows(entry[x])
           made == [x \in S |-> Made(x)]
           all == UNION {Made(x) : x \in S}
<1>1. ASSUME NEW x \in S PROVE RowsOfCatalog(Made(x), catalog, {entry[x].feed})
  <2>1. /\ entry[x].feed \in Nat /\ entry[x].catalog = catalog
        /\ IsFiniteSet(entry[x].references)
        /\ \A role \in DOMAIN entry[x].urls : entry[x].urls[role] \in CatalogUrls
    OBVIOUS
  <2> QED
    BY <2>1, MadeRows
<1> HIDE DEF Made
<1>2. ASSUME NEW r \in all
      PROVE  IsRow(r) /\ r.catalog = catalog /\ r.feed \in N
  <2>1. PICK x \in S : r \in Made(x)
    OBVIOUS
  <2>2. entry[x].feed \in N
    OBVIOUS
  <2> QED
    BY <1>1, <2>1, <2>2 DEF RowsOfCatalog
<1>3. ASSUME NEW r \in all, NEW s \in all, r.id = s.id PROVE r = s
  <2>1. PICK x \in S : r \in Made(x)
    OBVIOUS
  <2>2. PICK y \in S : s \in Made(y)
    OBVIOUS
  <2>3. /\ IsRow(r) /\ r.feed = entry[x].feed /\ IsRow(s) /\ s.feed = entry[y].feed
        /\ Unique(Made(x))
    BY <1>1, <2>1, <2>2 DEF RowsOfCatalog
  <2>4. r.feed = s.feed
    BY <1>3, <2>3, IdsTellFeeds DEF IsRow
  <2>5. x = y
    BY <2>3, <2>4
  <2> QED
    BY <1>3, <2>1, <2>2, <2>3, <2>5 DEF Unique
<1>4. IsFiniteSet(all)
  <2>1. \A x \in S : IsFiniteSet(made[x])
    BY <1>1 DEF RowsOfCatalog
  <2>2. IsFiniteSet(UNION {made[x] : x \in S})
    <3> HIDE DEF made
    <3>1. DOMAIN made = S
      BY DEF made
    <3> QED
      BY <2>1, <3>1, FamilyIsFinite
  <2>3. UNION {made[x] : x \in S} = all
    OBVIOUS
  <2> QED
    BY <2>2, <2>3
<1>5. Unique(all)
  BY <1>3 DEF Unique
<1>6. RowsOfCatalog(all, catalog, N)
  <2> HIDE DEF all
  <2> QED
    BY <1>2, <1>4, <1>5 DEF RowsOfCatalog
<1> QED
  BY <1>6 DEF Made

LEMMA MobilityRowsAre ==
    ASSUME NEW records \in SUBSET Records, IsFiniteSet(records)
    PROVE  RowsOfCatalog(MobilityRows(records), "mobilitydatabase", Records)
<1> DEFINE Roles(r) ==
            CASE MobilityEntry[r].entities = None -> StaticRoles
              [] MobilityEntry[r].entities = {} -> {"vehicles"}
              [] OTHER -> MobilityEntry[r].entities
           Entry(r) ==
            [feed |-> r, catalog |-> "mobilitydatabase",
             urls |-> [role \in Roles(r) |-> MobilityEntry[r].url],
             auth |-> MobilityEntry[r].auth, place |-> MobilityEntry[r].place,
             references |-> MobilityEntry[r].references]
           S == {r \in records : MobilityEntry[r].url # None}
           entry == [r \in S |-> Entry(r)]
<1>1. IsFiniteSet(S) /\ S \subseteq Records /\ Records \in SUBSET Nat
  BY FS_Subset, ListingAssumption DEF Records
<1>2. ASSUME NEW r \in S
      PROVE  /\ Entry(r).feed = r /\ Entry(r).catalog = "mobilitydatabase"
             /\ Entry(r).references = MobilityEntry[r].references
             /\ \A role \in DOMAIN Entry(r).urls :
                    Entry(r).urls[role] \in CatalogUrls
  <2>1. MobilityEntry[r].url \in CatalogUrls
    BY DEF CatalogUrls, Records
  <2> HIDE DEF Roles
  <2> QED
    BY <2>1
<1>3. MobilityRows(records) = UNION {MakeRows(Entry(r)) : r \in S}
  BY DEF MobilityRows
<1> HIDE DEF Entry, S
<1>4. /\ \A x \in S : /\ entry[x].feed \in Records
                      /\ entry[x].catalog = "mobilitydatabase"
                      /\ IsFiniteSet(entry[x].references)
                      /\ \A role \in DOMAIN entry[x].urls :
                            entry[x].urls[role] \in CatalogUrls
      /\ \A x, y \in S : entry[x].feed = entry[y].feed => x = y
  BY <1>1, <1>2, EntriesAssumption DEF Records
<1>5. DOMAIN entry = S
  OBVIOUS
<1>6. UNION {MakeRows(entry[r]) : r \in S} = UNION {MakeRows(Entry(r)) : r \in S}
  OBVIOUS
<1> HIDE DEF entry
<1>7. RowsOfCatalog(UNION {MakeRows(entry[r]) : r \in S}, "mobilitydatabase", Records)
  <2> DEFINE N == Records
             c == "mobilitydatabase"
  <2>1. IsFiniteSet(S) /\ N \in SUBSET Nat
    BY <1>1
  <2>2. /\ \A x \in S : /\ entry[x].feed \in N /\ entry[x].catalog = c
                        /\ IsFiniteSet(entry[x].references)
                        /\ \A role \in DOMAIN entry[x].urls :
                            entry[x].urls[role] \in CatalogUrls
        /\ \A x, y \in S : entry[x].feed = entry[y].feed => x = y
    BY <1>4
  <2> HIDE DEF N, c
  <2>3. RowsOfCatalog(UNION {MakeRows(entry[r]) : r \in S}, c, N)
    BY <1>5, <2>1, <2>2, RowsOfEntries
  <2> QED
    BY <2>3 DEF N, c
<1> QED
  BY <1>3, <1>6, <1>7

CuratedNumbers == {e.feed : e \in Curated}
CorpusNumbers == {e.id : e \in CorpusFeeds}

LEMMA NumbersAre ==
    /\ CuratedNumbers \subseteq Nat /\ CorpusNumbers \subseteq Nat
    /\ Records \subseteq Nat
    /\ CorpusNumbers \cap CuratedNumbers = {}
    /\ CorpusNumbers \cap Records = {} /\ CuratedNumbers \cap Records = {}
BY NumbersAssumption, ListingAssumption DEF CuratedNumbers, CorpusNumbers, Records

LEMMA UrlsAreCatalogs ==
    \A e \in Curated \cup CorpusFeeds :
        \A role \in DOMAIN e.urls : e.urls[role] \in CatalogUrls
BY DEF CatalogUrls, Range

LEMMA CuratedRowsAre ==
    RowsOfCatalog(CuratedRows, "curated", CuratedNumbers)
<1> DEFINE entry == [e \in Curated |-> e]
<1>1. /\ IsFiniteSet(Curated) /\ DOMAIN entry = Curated
      /\ CuratedNumbers \in SUBSET Nat
  BY EntriesAssumption, NumbersAre
<1>2. /\ \A x \in Curated : /\ entry[x].feed \in CuratedNumbers
                            /\ entry[x].catalog = "curated"
                            /\ IsFiniteSet(entry[x].references)
                            /\ \A role \in DOMAIN entry[x].urls :
                                    entry[x].urls[role] \in CatalogUrls
      /\ \A x, y \in Curated : entry[x].feed = entry[y].feed => x = y
  <2>1. \A e \in Curated : \A role \in DOMAIN e.urls : e.urls[role] \in CatalogUrls
    BY UrlsAreCatalogs
  <2> QED
    BY <2>1, EntriesAssumption, NumbersAssumption DEF CuratedNumbers
<1>3. CuratedRows = UNION {MakeRows(entry[e]) : e \in Curated}
  BY DEF CuratedRows
<1> HIDE DEF entry
<1> QED
  BY <1>1, <1>2, <1>3, RowsOfEntries

(* What is read of a file, or stands for it.                               *)
IsDocument(d) == d.dmfr["feeds"] \in Seq(CorpusFeeds)

(* What All has after k of the documents.                                  *)
Concatenates(acc, documents, kind, n) ==
    /\ acc[0] = <<>> /\ acc[n] = TA!All(documents, kind)
    /\ \A i \in 1 .. n : acc[i] = acc[i - 1] \o documents[i].dmfr[kind]

LEMMA AllSteps ==
    ASSUME NEW documents, NEW n \in Nat, Len(documents) = n, NEW kind, NEW S,
           \A i \in 1 .. n : documents[i].dmfr[kind] \in Seq(S)
    PROVE  \E acc \in [0 .. n -> Seq(S)] : Concatenates(acc, documents, kind, n)
<1> DEFINE D == 0 .. n
           T == Seq(S)
           Eq(f) == f = [i \in D |-> IF i = 0 THEN <<>>
                            ELSE f[i - 1] \o documents[i].dmfr[kind]]
           of == CHOOSE f : Eq(f)
           step == [d \in T \X (1 .. n) |-> d[1] \o documents[d[2]].dmfr[kind]]
<1>1. <<>> \in T
  BY EmptySeq
<1>2. ASSUME NEW s \in T, NEW i \in 1 .. n
      PROVE  s \o documents[i].dmfr[kind] \in T
  <2>1. documents[i].dmfr[kind] \in T
    OBVIOUS
  <2> QED
    BY <2>1, ConcatProperties
<1>3. step \in [T \X (1 .. n) -> T]
  <2> HIDE DEF T
  <2> QED
    BY <1>2
<1>4. PICK f \in [D -> T] : Iterates(f, n, <<>>, step)
  <2> HIDE DEF T, step, D
  <2>1. \E f \in [0 .. n -> T] : Iterates(f, n, <<>>, step)
    BY <1>1, <1>3, IterationExists
  <2> QED
    BY <2>1 DEF D
<1>5. Eq(f)
  <2> HIDE DEF T
  <2>1. f[0] = <<>> /\ \A i \in 1 .. n : f[i] = step[<<f[i - 1], i>>]
    BY <1>4 DEF Iterates
  <2>2. ASSUME NEW i \in D
        PROVE  f[i] = IF i = 0 THEN <<>>
                      ELSE f[i - 1] \o documents[i].dmfr[kind]
    <3>1. CASE i = 0
      BY <2>1, <3>1
    <3>2. CASE i # 0
      <4>1. i \in 1 .. n /\ i - 1 \in D
        BY <3>2
      <4>2. f[i] = step[<<f[i - 1], i>>] /\ f[i - 1] \in T
        BY <2>1, <4>1
      <4> QED
        BY <3>2, <4>1, <4>2
    <3> QED
      BY <3>1, <3>2
  <2> HIDE DEF step
  <2> QED
    BY <2>2
<1>6. Eq(of)
  <2> HIDE DEF Eq
  <2> QED
    BY <1>5
<1>7. TA!All(documents, kind) = of[n]
  BY DEF TA!All
<1> HIDE DEF of
<1>8. of[0] = <<>> /\ DOMAIN of = D
  BY <1>6
<1>9. ASSUME NEW k \in 1 .. n
      PROVE  of[k] = of[k - 1] \o documents[k].dmfr[kind]
  <2>1. k \in D /\ k # 0
    OBVIOUS
  <2> QED
    BY <1>6, <2>1
<1> DEFINE G == {i \in D : of[i] \in T}
<1>10. 0 \in G
  BY <1>1, <1>6
<1>11. ASSUME NEW k \in 0 .. n - 1, k \in G PROVE k + 1 \in G
  <2>1. k + 1 \in D /\ k + 1 \in 1 .. n /\ (k + 1) - 1 = k
    OBVIOUS
  <2>2. of[k + 1] = of[k] \o documents[k + 1].dmfr[kind]
    BY <1>9, <2>1
  <2> QED
    BY <1>2, <1>11, <2>1, <2>2
<1>12. \A k \in 0 .. n : k \in G
  <2> HIDE DEF G
  <2> QED
    BY <1>10, <1>11, InductionUpTo
<1>13. of \in [0 .. n -> Seq(S)]
  <2>1. of = [i \in D |-> of[i]]
    BY <1>6
  <2> QED
    BY <1>12, <2>1
<1> HIDE DEF D, T, G
<1>14. Concatenates(of, documents, kind, n)
  BY <1>7, <1>8, <1>9 DEF Concatenates
<1> QED
  BY <1>13, <1>14

LEMMA AllFeedsAre ==
    ASSUME NEW documents, NEW n \in Nat, Len(documents) = n,
           \A i \in 1 .. n : IsDocument(documents[i])
    PROVE  TA!All(documents, "feeds") \in Seq(CorpusFeeds)
<1>1. \A i \in 1 .. n : documents[i].dmfr["feeds"] \in Seq(CorpusFeeds)
  BY DEF IsDocument
<1>2. PICK acc \in [0 .. n -> Seq(CorpusFeeds)] : Concatenates(acc, documents, "feeds", n)
  BY <1>1, AllSteps
<1>3. n \in 0 .. n
  OBVIOUS
<1> QED
  BY <1>2, <1>3 DEF Concatenates

LEMMA TransitlandRowsAre ==
    ASSUME NEW documents, NEW n \in Nat, Len(documents) = n,
           \A i \in 1 .. n : IsDocument(documents[i])
    PROVE  RowsOfCatalog(TransitlandRows(documents), "transitland", CorpusNumbers)
<1> DEFINE listed == TA!All(documents, "feeds")
           Entry(f) == [feed |-> f.id, catalog |-> "transitland",
                        urls |-> f.urls, auth |-> FALSE, place |-> None,
                        references |-> {}]
           groups == [i \in DOMAIN listed |->
                IF TA!Usable(listed[i]) THEN MakeRows(Entry(listed[i])) ELSE {}]
           l == Len(listed)
           rows == TransitlandRows(documents)
<1>1. listed \in Seq(CorpusFeeds)
  BY AllFeedsAre
<1>2. rows = Merge(groups)
  BY DEF TransitlandRows
<1> HIDE DEF listed, rows
<1>3. l \in Nat /\ DOMAIN listed = 1 .. l /\ \A i \in 1 .. l : listed[i] \in CorpusFeeds
  BY <1>1, ElementOfSeq, LenProperties
<1>4. ASSUME NEW i \in 1 .. l
      PROVE  RowsOfCatalog(groups[i], "transitland", CorpusNumbers)
  <2>1. CASE TA!Usable(listed[i])
    <3> DEFINE e == Entry(listed[i])
    <3>1. /\ e.feed \in CorpusNumbers /\ e.catalog = "transitland"
          /\ e.references = {}
          /\ \A role \in DOMAIN e.urls : e.urls[role] \in CatalogUrls
      BY <1>3, UrlsAreCatalogs DEF CorpusNumbers
    <3>2. groups[i] = MakeRows(e)
      BY <1>3, <2>1
    <3> HIDE DEF e
    <3>3. RowsOfCatalog(MakeRows(e), "transitland", {e.feed})
      BY <3>1, NumbersAre, FS_EmptySet, MadeRows
    <3> QED
      BY <3>1, <3>2, <3>3 DEF RowsOfCatalog
  <2>2. CASE ~TA!Usable(listed[i])
    <3>1. groups[i] = {}
      BY <1>3, <2>2
    <3> QED
      BY <3>1, FS_EmptySet DEF RowsOfCatalog, Unique
  <2> QED
    BY <2>1, <2>2
<1>5. DOMAIN groups = 1 .. l
  BY <1>3
<1> HIDE DEF groups, l
<1>6. /\ \A i \in 1 .. l : Unique(groups[i]) /\ IsFiniteSet(groups[i])
      /\ l \in Nat
  BY <1>3, <1>4 DEF RowsOfCatalog
<1>7. /\ Unique(rows) /\ IsFiniteSet(rows)
      /\ \A r \in rows : \E i \in 1 .. l : r \in groups[i]
  BY <1>2, <1>5, <1>6, MergeIsUnique
<1>8. RowsOfCatalog(rows, "transitland", CorpusNumbers)
  BY <1>4, <1>7 DEF RowsOfCatalog
<1> QED
  BY <1>8 DEF rows

-----------------------------------------------------------------------------
(* The documents of the atlas                                              *)

DocumentsAre(documents) ==
    /\ Len(documents) \in Nat
    /\ \A i \in 1 .. Len(documents) : IsDocument(documents[i])

ReadDocument(f) == [file |-> f, dmfr |-> Corpus[f]]

(* What read_local has after k of the files.                               *)
ReadsFiles(acc, lost) ==
    /\ acc[0] = <<>> /\ acc[Len(Corpus)] = TA!ReadInOrder(lost)
    /\ \A f \in 1 .. Len(Corpus) : acc[f] =
        IF f \in lost THEN acc[f - 1] ELSE Append(acc[f - 1], ReadDocument(f))

LEMMA ReadSteps ==
    ASSUME NEW lost
    PROVE  \E acc \in [0 .. Len(Corpus) ->
                            Seq({ReadDocument(f) : f \in 1 .. Len(Corpus)})] :
                ReadsFiles(acc, lost)
<1> DEFINE n == Len(Corpus)
           D == 0 .. n
           Read == {ReadDocument(i) : i \in 1 .. n}
           T == Seq(Read)
           Eq(f) == f = [i \in D |->
                IF i = 0 THEN <<>>
                ELSE IF i \in lost THEN f[i - 1]
                ELSE Append(f[i - 1], [file |-> i, dmfr |-> Corpus[i]])]
           of == CHOOSE f : Eq(f)
           step == [d \in T \X (1 .. n) |->
                        IF d[2] \in lost THEN d[1]
                        ELSE Append(d[1], ReadDocument(d[2]))]
<1>1. n \in Nat /\ <<>> \in T
  BY CorpusAssumption, EmptySeq
<1>2. ASSUME NEW s \in T, NEW i \in 1 .. n PROVE Append(s, ReadDocument(i)) \in T
  <2>1. ReadDocument(i) \in Read
    OBVIOUS
  <2> HIDE DEF Read
  <2> QED
    BY <2>1, AppendProperties
<1>3. step \in [T \X (1 .. n) -> T]
  <2> HIDE DEF T
  <2> QED
    BY <1>2
<1>4. PICK f \in [D -> T] : Iterates(f, n, <<>>, step)
  <2> HIDE DEF T, step, D, n
  <2>1. \E f \in [0 .. n -> T] : Iterates(f, n, <<>>, step)
    BY <1>1, <1>3, IterationExists
  <2> QED
    BY <2>1 DEF D
<1>5. Eq(f)
  <2> HIDE DEF T, n
  <2>1. f[0] = <<>> /\ \A i \in 1 .. n : f[i] = step[<<f[i - 1], i>>]
    BY <1>4 DEF Iterates
  <2>2. ASSUME NEW i \in D
        PROVE  f[i] = IF i = 0 THEN <<>>
                      ELSE IF i \in lost THEN f[i - 1]
                      ELSE Append(f[i - 1], [file |-> i, dmfr |-> Corpus[i]])
    <3>1. CASE i = 0
      BY <2>1, <3>1
    <3>2. CASE i # 0
      <4>1. i \in 1 .. n /\ i - 1 \in D
        BY <1>1, <3>2
      <4>2. f[i] = step[<<f[i - 1], i>>] /\ f[i - 1] \in T
        BY <2>1, <4>1
      <4> QED
        BY <3>2, <4>1, <4>2 DEF ReadDocument
    <3> QED
      BY <3>1, <3>2
  <2> HIDE DEF step
  <2> QED
    BY <2>2
<1>6. Eq(of)
  <2> HIDE DEF Eq
  <2> QED
    BY <1>5
<1>7. TA!ReadInOrder(lost) = of[n]
  BY DEF TA!ReadInOrder
<1> HIDE DEF of
<1>8. of[0] = <<>>
  <2> HIDE DEF n
  <2> QED
    BY <1>1, <1>6
<1>9. ASSUME NEW k \in 1 .. n
      PROVE  of[k] = IF k \in lost THEN of[k - 1]
                     ELSE Append(of[k - 1], ReadDocument(k))
  <2> HIDE DEF n
  <2>1. k \in D /\ k # 0
    BY <1>1
  <2> QED
    BY <1>6, <2>1 DEF ReadDocument
<1> DEFINE G == {i \in D : of[i] \in T}
<1>10. 0 \in G
  <2> HIDE DEF T, n
  <2> QED
    BY <1>1, <1>8
<1>11. ASSUME NEW k \in 0 .. n - 1, k \in G PROVE k + 1 \in G
  <2> HIDE DEF T, n
  <2>1. k + 1 \in D /\ k + 1 \in 1 .. n /\ (k + 1) - 1 = k
    BY <1>1
  <2>2. of[k + 1] = IF k + 1 \in lost THEN of[k]
                    ELSE Append(of[k], ReadDocument(k + 1))
    BY <1>9, <2>1
  <2>3. Append(of[k], ReadDocument(k + 1)) \in T /\ of[k] \in T
    BY <1>2, <1>11, <2>1
  <2> QED
    BY <2>1, <2>2, <2>3
<1>12. \A k \in 0 .. n : k \in G
  <2> HIDE DEF G, n
  <2> QED
    BY <1>1, <1>10, <1>11, InductionUpTo
<1>13. of \in [D -> T]
  <2> HIDE DEF T, n
  <2>1. of = [i \in D |-> of[i]]
    BY <1>6
  <2> QED
    BY <1>12, <2>1
<1>14. ReadsFiles(of, lost)
  BY <1>7, <1>8, <1>9 DEF ReadsFiles
<1> QED
  BY <1>13, <1>14

LEMMA ReadDocumentsAre ==
    ASSUME NEW lost
    PROVE  DocumentsAre(TA!ReadInOrder(lost))
<1> DEFINE n == Len(Corpus)
           Read == {ReadDocument(f) : f \in 1 .. n}
           docsRead == TA!ReadInOrder(lost)
<1>1. PICK acc \in [0 .. n -> Seq(Read)] : ReadsFiles(acc, lost)
  BY ReadSteps
<1>2. n \in 0 .. n
  BY CorpusAssumption
<1>3. docsRead \in Seq(Read)
  BY <1>1, <1>2 DEF ReadsFiles
<1>4. \A d \in Read : IsDocument(d)
  BY CorpusAssumption DEF IsDocument, ReadDocument
<1> HIDE DEF docsRead, n, Read
<1>5. Len(docsRead) \in Nat /\ \A i \in 1 .. Len(docsRead) : docsRead[i] \in Read
  BY <1>3, ElementOfSeq, LenProperties
<1>6. DocumentsAre(docsRead)
  BY <1>4, <1>5 DEF DocumentsAre
<1> QED
  BY <1>6 DEF docsRead

LEMMA GatheredDocumentsAre ==
    DocumentsAre(TA!Gathered)
<1> DEFINE n == Len(Corpus)
           all == TA!Gathered
<1>1. n \in Nat /\ TA!Files = 1 .. n
  BY CorpusAssumption DEF TA!Files
<1>2. ASSUME NEW f \in 1 .. n PROVE IsDocument(TA!Document(f))
  <2>1. Corpus[f].feeds \in Seq(CorpusFeeds) /\ <<>> \in Seq(CorpusFeeds)
    BY CorpusAssumption, EmptySeq
  <2> QED
    BY <2>1 DEF TA!Document, TA!EmptyDocument, IsDocument
<1>3. all = [f \in 1 .. n |-> TA!Document(f)]
  BY <1>1 DEF TA!Gathered
<1> HIDE DEF all, n
<1>4. Len(all) = n
  BY <1>1, <1>3
<1>5. DocumentsAre(all)
  BY <1>1, <1>2, <1>3, <1>4 DEF DocumentsAre
<1> QED
  BY <1>5 DEF all

LEMMA NoDocuments == DocumentsAre(<<>>)
BY DEF DocumentsAre

LEMMA DocumentsStep ==
    ASSUME DocumentsAre(docs), TA!Next \/ TA!Exit \/ UNCHANGED transitlandVars
    PROVE  DocumentsAre(docs')
<1>1. CASE TA!ReadLocal
  BY <1>1, ReadDocumentsAre DEF TA!ReadLocal
<1>2. CASE TA!Gather
  <2>1. docs' = TA!Gathered
    BY <1>2 DEF TA!Gather
  <2> QED
    BY <2>1, GatheredDocumentsAre
<1>3. CASE TA!Exit
  BY <1>3, NoDocuments DEF TA!Exit
<1>4. CASE TA!ReadTree \/ TA!Raise \/ UNCHANGED transitlandVars
  <2>1. docs' = docs
    BY <1>4 DEF TA!ReadTree, TA!Raise, transitlandVars
  <2> QED
    BY <2>1
<1>5. ASSUME NEW f, TA!Fetch(f) PROVE DocumentsAre(docs')
  <2>1. docs' = docs
    BY <1>5 DEF TA!Fetch, TA!Take, TA!Finish
  <2> QED
    BY <2>1
<1> QED
  BY <1>1, <1>2, <1>3, <1>4, <1>5 DEF TA!Next, TA!Step

-----------------------------------------------------------------------------
(* The sources                                                             *)

(* What cross_link makes of a row.                                         *)
Link(r, rows) ==
    [r EXCEPT !.links = Ids(Matches(r, rows)),
              !.place = PlaceOf(r, Matches(r, rows))]

LEMMA LinkKeeps ==
    ASSUME NEW rows, NEW r, IsRow(r)
    PROVE  /\ IsRow(Link(r, rows))
           /\ Link(r, rows).id = r.id /\ Link(r, rows).catalog = r.catalog
           /\ Link(r, rows).feed = r.feed /\ Link(r, rows).kind = r.kind
           /\ Link(r, rows).urls = r.urls /\ Link(r, rows).auth = r.auth
           /\ Link(r, rows).references = r.references
           /\ Link(r, rows).links = Ids(Matches(r, rows))
           /\ Link(r, rows).place = PlaceOf(r, Matches(r, rows))
<1> DEFINE links == Ids(Matches(r, rows))
           place == PlaceOf(r, Matches(r, rows))
<1> HIDE DEF links, place
<1>1. Link(r, rows) = [r EXCEPT !.links = links, !.place = place]
  BY DEF Link, links, place
<1>2. Link(r, rows) =
        [id |-> r.id, catalog |-> r.catalog, feed |-> r.feed, kind |-> r.kind,
         urls |-> r.urls, auth |-> r.auth, place |-> place,
         references |-> r.references, links |-> links]
  BY <1>1 DEF IsRow
<1>3. IsRow(Link(r, rows))
  BY <1>2 DEF IsRow
<1> QED
  BY <1>2, <1>3 DEF links, place

LEMMA CrossLinkIs ==
    ASSUME NEW rows
    PROVE  CrossLink(rows) = {Link(r, rows) : r \in rows}
BY DEF CrossLink, Link

RowsAre(rows) ==
    Unique(rows) /\ IsFiniteSet(rows) /\ \A r \in rows : IsRow(r)

LEMMA CrossLinkKeeps ==
    ASSUME NEW rows, RowsAre(rows)
    PROVE  RowsAre(CrossLink(rows))
<1> DEFINE linked == [r \in rows |-> Link(r, rows)]
<1>1. CrossLink(rows) = {linked[r] : r \in rows}
  BY CrossLinkIs
<1>2. \A r \in rows : IsRow(r)
  BY DEF RowsAre
<1>3. \A r \in rows : IsRow(linked[r]) /\ linked[r].id = r.id
  BY <1>2, LinkKeeps
<1>4. DOMAIN linked = rows
  OBVIOUS
<1> HIDE DEF linked
<1>5. IsFiniteSet(rows) /\ Unique(rows)
  BY DEF RowsAre
<1>6. IsFiniteSet(CrossLink(rows))
  BY <1>1, <1>4, <1>5, ImageIsFinite
<1>7. Unique(CrossLink(rows))
  BY <1>1, <1>3, <1>5 DEF Unique
<1> QED
  BY <1>1, <1>3, <1>6, <1>7 DEF RowsAre

(* The rows of all three, before they are linked.                          *)
Merged == Merge(<<transitland, mobility, CuratedRows>>)

CatalogRows ==
    /\ RowsOfCatalog(mobility, "mobilitydatabase", Records)
    /\ RowsOfCatalog(transitland, "transitland", CorpusNumbers)

LEMMA MergedRowsAre ==
    ASSUME CatalogRows
    PROVE  /\ RowsAre(Merged)
           /\ \A r \in Merged :
                r \in transitland \/ r \in mobility \/ r \in CuratedRows
<1> DEFINE groups == <<transitland, mobility, CuratedRows>>
<1>1. /\ RowsOfCatalog(mobility, "mobilitydatabase", Records)
      /\ RowsOfCatalog(transitland, "transitland", CorpusNumbers)
      /\ RowsOfCatalog(CuratedRows, "curated", CuratedNumbers)
  BY CuratedRowsAre DEF CatalogRows
<1>2. DOMAIN groups = 1 .. 3 /\ groups[1] = transitland /\ groups[2] = mobility
      /\ groups[3] = CuratedRows
  OBVIOUS
<1> HIDE DEF groups
<1>3. \A i \in 1 .. 3 : Unique(groups[i]) /\ IsFiniteSet(groups[i])
  BY <1>1, <1>2 DEF RowsOfCatalog
<1>4. /\ Unique(Merge(groups)) /\ IsFiniteSet(Merge(groups))
      /\ \A r \in Merge(groups) : \E i \in 1 .. 3 : r \in groups[i]
  <2>1. 3 \in Nat
    OBVIOUS
  <2> QED
    BY <1>2, <1>3, <2>1, MergeIsUnique
<1>5. Merged = Merge(groups)
  BY DEF Merged, groups
<1>6. \A r \in Merged : r \in transitland \/ r \in mobility \/ r \in CuratedRows
  BY <1>2, <1>4, <1>5
<1>7. \A r \in Merged : IsRow(r)
  BY <1>1, <1>6 DEF RowsOfCatalog
<1> QED
  BY <1>4, <1>5, <1>6, <1>7 DEF RowsAre

Stages == {"mobility", "transitland", "sources", "checks", "feeds", "done", "failed"}

(* What each asset has returned, of which those after it are made.         *)
RunInv ==
    /\ CatalogsInv /\ DocumentsAre(docs)
    /\ stage \in Stages
    /\ CatalogRows
    /\ Linked => sources = CrossLink(Merged)
    /\ stage \in {"mobility", "transitland", "sources"} => sources = {}
    /\ sources \in {{}, CrossLink(Merged)}

LEMMA NoRows == \A catalog, numbers : RowsOfCatalog({}, catalog, numbers)
BY FS_EmptySet DEF RowsOfCatalog, Unique

LEMMA RunBegins == Init => RunInv
<1> SUFFICES ASSUME Init PROVE RunInv
  OBVIOUS
<1>1. CatalogsInv
  BY CatalogsBegin
<1>2. docs = <<>>
  BY DEF Init, TA!Init
<1>3. stage = "mobility" /\ mobility = {} /\ transitland = {} /\ sources = {}
  BY DEF Init
<1>4. CatalogRows
  BY <1>3, NoRows DEF CatalogRows
<1> QED
  BY <1>1, <1>2, <1>3, <1>4, NoDocuments DEF RunInv, Linked, Stages

LEMMA FetchedRows ==
    ASSUME PagesInv
    PROVE  RowsOfCatalog(MobilityRows(UNION {ToSet(fetched[p]) : p \in MD!Paths}),
                         "mobilitydatabase", Records)
<1> DEFINE records == UNION {ToSet(fetched[p]) : p \in MD!Paths}
           got == [p \in MD!Paths |-> ToSet(fetched[p])]
<1>1. fetched \in [MD!Paths -> Seq(Records)]
  BY DEF PagesInv, PagesTyped
<1>2. ASSUME NEW p \in MD!Paths
      PROVE  IsFiniteSet(got[p]) /\ got[p] \subseteq Records
  <2>1. fetched[p] \in Seq(Records)
    BY <1>1
  <2>2. got[p] = Elems(fetched[p])
    BY DEF ToSet, Elems
  <2> QED
    BY <2>1, <2>2, ElemsAreFinite
<1>3. IsFiniteSet(MD!Paths)
  BY PagesAre, PairIsFinite
<1>4. records = UNION {got[p] : p \in MD!Paths} /\ DOMAIN got = MD!Paths
  OBVIOUS
<1> HIDE DEF records, got
<1>5. IsFiniteSet(records) /\ records \in SUBSET Records
  BY <1>2, <1>3, <1>4, FamilyIsFinite
<1>6. RowsOfCatalog(MobilityRows(records), "mobilitydatabase", Records)
  BY <1>5, MobilityRowsAre
<1> QED
  BY <1>6 DEF records

LEMMA RunStep == RunInv /\ [Next]_vars => RunInv'
<1> SUFFICES ASSUME RunInv, [Next]_vars PROVE RunInv'
  OBVIOUS
<1>1. CatalogsInv /\ DocumentsAre(docs) /\ CatalogRows /\ stage \in Stages
  BY DEF RunInv
<1>2. CatalogsInv' /\ DocumentsAre(docs')
  BY <1>1, CatalogsStep, StepsOfFiles, DocumentsStep
<1>3. CASE MobilityDatabase
  <2>1. /\ mobility' = MobilityRows(UNION {ToSet(fetched[p]) : p \in MD!Paths})
        /\ transitland' = transitland /\ sources' = sources
        /\ stage = "mobility" /\ stage' = "transitland"
    BY <1>3 DEF MobilityDatabase
  <2>2. CatalogRows'
    BY <1>1, <2>1, FetchedRows DEF CatalogsInv, CatalogRows
  <2>3. sources' = {}
    BY <2>1 DEF RunInv, Linked
  <2> QED
    BY <1>2, <2>1, <2>2, <2>3 DEF RunInv, Linked, Stages
<1>4. CASE TransitlandAtlas
  <2>1. /\ transitland' = TransitlandRows(docs)
        /\ mobility' = mobility /\ sources' = sources
        /\ stage = "transitland" /\ stage' = "sources"
    BY <1>4 DEF TransitlandAtlas
  <2>2. RowsOfCatalog(TransitlandRows(docs), "transitland", CorpusNumbers)
    BY <1>1, TransitlandRowsAre DEF DocumentsAre
  <2>3. CatalogRows'
    BY <1>1, <2>1, <2>2 DEF CatalogRows
  <2>4. sources' = {}
    BY <2>1 DEF RunInv, Linked
  <2> QED
    BY <1>2, <2>1, <2>3, <2>4 DEF RunInv, Linked, Stages
<1>5. CASE Sources
  <2>1. /\ sources' = CrossLink(Merge(<<transitland, mobility, CuratedRows>>))
        /\ transitland' = transitland /\ mobility' = mobility
        /\ stage' = "checks"
    BY <1>5 DEF Sources
  <2>2. CatalogRows' /\ sources' = CrossLink(Merged')
    BY <1>1, <2>1 DEF CatalogRows, Merged
  <2> QED
    BY <1>2, <2>1, <2>2 DEF RunInv, Linked, Stages
<1>6. ASSUME /\ UNCHANGED <<mobility, transitland, sources>>
             /\ stage' \in Stages
             /\ stage' \in {stage, "failed"} \/ (Linked /\ Linked')
      PROVE  RunInv'
  <2>1. CatalogRows' /\ Merged' = Merged
    BY <1>1, <1>6 DEF CatalogRows, Merged
  <2>2. /\ Linked' => sources' = CrossLink(Merged')
        /\ stage' \in {"mobility", "transitland", "sources"} => sources' = {}
        /\ sources' \in {{}, CrossLink(Merged')}
    BY <1>6, <2>1 DEF RunInv, Linked
  <2> QED
    BY <1>2, <1>6, <2>1, <2>2 DEF RunInv
<1>7. CASE MobilityStep \/ TransitlandStep \/ UNCHANGED vars
  <2>1. UNCHANGED <<mobility, transitland, sources, stage>>
    BY <1>7 DEF MobilityStep, TransitlandStep, vars, returned
  <2> QED
    BY <1>1, <1>6, <2>1
<1>8. CASE Fail
  <2>1. /\ UNCHANGED <<mobility, transitland, sources>>
        /\ stage' = "failed"
    BY <1>8 DEF Fail, returned
  <2> QED
    BY <1>6, <2>1 DEF Stages
<1>9. CASE EndpointChecks \/ Feeds
  <2>1. /\ UNCHANGED <<mobility, transitland, sources>>
        /\ stage \in {"checks", "feeds"} /\ stage' \in {"feeds", "done"}
    BY <1>9 DEF EndpointChecks, Feeds
  <2> QED
    BY <1>6, <2>1 DEF Linked, Stages
<1> QED
  BY <1>3, <1>4, <1>5, <1>7, <1>8, <1>9 DEF Next

LEMMA RunAlways == Spec => []RunInv
<1> QED
  BY RunBegins, RunStep, PTL DEF Spec

LEMMA SourcesAre ==
    RunInv => RowsAre(sources)
<1> SUFFICES ASSUME RunInv PROVE RowsAre(sources)
  OBVIOUS
<1>1. CASE sources = CrossLink(Merged)
  <2>1. RowsAre(Merged)
    BY MergedRowsAre DEF RunInv
  <2> QED
    BY <1>1, <2>1, CrossLinkKeeps
<1>2. CASE sources = {}
  BY <1>2, FS_EmptySet DEF RowsAre, Unique
<1> QED
  BY <1>1, <1>2 DEF RunInv

(* No two sources have one id; no page of the Mobility Database begins     *)
(* more than a page beyond the end of its list, nor a window outside of    *)
(* its page; and no more files of the atlas are on the wire than the       *)
(* semaphore lets.                                                         *)
THEOREM TypeCorrect == Spec => []TypeOK
<1>1. ASSUME RunInv PROVE TypeOK
  <2>1. MD!TypeOK /\ TA!TypeOK
    BY <1>1, PagesTypeOK, FilesTyped DEF RunInv, CatalogsInv
  <2>2. \A r, s \in sources : r.id = s.id => r = s
    BY <1>1, SourcesAre DEF RowsAre, Unique
  <2>3. stage \in Stages
    BY <1>1 DEF RunInv
  <2> QED
    BY <2>1, <2>2, <2>3 DEF TypeOK, Stages
<1> QED
  BY <1>1, RunAlways, PTL

-----------------------------------------------------------------------------
(* Links                                                                   *)

LEMMA RolesAreFinite == \A k \in Kinds : IsFiniteSet(RolesOf(k))
<1>1. IsFiniteSet(StaticRoles)
  BY FS_Singleton DEF StaticRoles
<1>2. IsFiniteSet({"vehicles", "trip_updates"} \cup {"alerts"})
  BY PairIsFinite, FS_Singleton, FS_Union
<1>3. RtRoles = {"vehicles", "trip_updates"} \cup {"alerts"}
  BY DEF RtRoles
<1>4. IsFiniteSet(RtRoles)
  BY <1>2, <1>3
<1> QED
  BY <1>1, <1>4 DEF RolesOf

LEMMA UrlsAreFinite ==
    ASSUME NEW r, IsRow(r)
    PROVE  /\ IsFiniteSet(DOMAIN r.urls) /\ IsFiniteSet(Urls(r))
           /\ IsFiniteSet(NormalizedUrls(r))
<1> DEFINE roles == DOMAIN r.urls
           all == Urls(r)
           key == [u \in all |-> NormalizeUrl(u)]
<1>1. IsFiniteSet(roles)
  <2>1. IsFiniteSet(RolesOf(r.kind)) /\ roles \in SUBSET RolesOf(r.kind)
    BY RolesAreFinite DEF IsRow
  <2> QED
    BY <2>1, FS_Subset
<1>2. IsFiniteSet(all)
  <2> DEFINE urls == r.urls
  <2>1. DOMAIN urls = roles /\ all = {urls[role] : role \in roles}
    BY DEF Urls
  <2> HIDE DEF urls, roles, all
  <2> QED
    BY <1>1, <2>1, ImageIsFinite
<1>3. IsFiniteSet({key[u] : u \in all})
  <2>1. DOMAIN key = all
    OBVIOUS
  <2> HIDE DEF key, all
  <2> QED
    BY <1>2, <2>1, ImageIsFinite
<1>4. NormalizedUrls(r) \in SUBSET {key[u] : u \in all}
  BY DEF NormalizedUrls
<1>5. IsFiniteSet(NormalizedUrls(r))
  <2> HIDE DEF key, all
  <2> QED
    BY <1>3, <1>4, FS_Subset
<1> QED
  BY <1>1, <1>2, <1>5

(* What shares a key, for finitely many keys of finitely many rows.        *)
SharedBy(rows, key) ==
    {Ids({r \in rows : k \in key[r]}) : k \in UNION {key[r] : r \in rows}}

LEMMA SharingIsFinite ==
    ASSUME NEW rows, IsFiniteSet(rows), NEW key, DOMAIN key = rows,
           \A r \in rows : IsFiniteSet(key[r])
    PROVE  IsFiniteSet(SharedBy(rows, key))
<1> DEFINE K == UNION {key[r] : r \in rows}
           sharing == [k \in K |-> Ids({r \in rows : k \in key[r]})]
<1>1. IsFiniteSet(K)
  BY FamilyIsFinite
<1>2. DOMAIN sharing = K
  OBVIOUS
<1>3. {sharing[k] : k \in K} = {Ids({r \in rows : k \in key[r]}) : k \in K}
  OBVIOUS
<1> HIDE DEF sharing, K
<1>4. IsFiniteSet({sharing[k] : k \in K})
  BY <1>1, <1>2, ImageIsFinite
<1>5. IsFiniteSet({Ids({r \in rows : k \in key[r]}) : k \in K})
  BY <1>3, <1>4
<1> QED
  BY <1>5 DEF K, SharedBy

SiblingsOfRow(r) ==
    {Sibling[k] : k \in {NormalizeUrl(r.urls[role]) :
        role \in DOMAIN r.urls \cap RtRoles} \ {None}} \ {None}

ReferencesOfRow(r, rows) ==
    {{r.id, SourceId(f, "static")} :
        f \in {f \in r.references : SourceId(f, "static") \in Ids(rows)}}

LEMMA SiblingsAreFinite ==
    ASSUME NEW r, IsRow(r)
    PROVE  IsFiniteSet(SiblingsOfRow(r))
<1> DEFINE roles == DOMAIN r.urls \cap RtRoles
           key == [role \in roles |-> NormalizeUrl(r.urls[role])]
           keys == {key[role] : role \in roles}
           some == {NormalizeUrl(r.urls[role]) : role \in roles} \ {None}
           sibling == [k \in some |-> Sibling[k]]
<1>1. IsFiniteSet(roles)
  BY UrlsAreFinite, FS_Intersection
<1>2. IsFiniteSet(keys)
  <2>1. DOMAIN key = roles
    OBVIOUS
  <2> HIDE DEF roles, key
  <2> QED
    BY <1>1, <2>1, ImageIsFinite
<1>3. IsFiniteSet(some)
  <2>1. some \in SUBSET keys
    <3> HIDE DEF roles
    <3> QED
      OBVIOUS
  <2> HIDE DEF some, keys
  <2> QED
    BY <1>2, <2>1, FS_Subset
<1>4. IsFiniteSet({sibling[k] : k \in some})
  <2>1. DOMAIN sibling = some
    OBVIOUS
  <2> HIDE DEF some, sibling
  <2> QED
    BY <1>3, <2>1, ImageIsFinite
<1>5. SiblingsOfRow(r) \in SUBSET {sibling[k] : k \in some}
  <2>1. SiblingsOfRow(r) = {Sibling[k] : k \in some} \ {None}
    BY DEF SiblingsOfRow
  <2> HIDE DEF some
  <2> QED
    BY <2>1
<1> HIDE DEF some, sibling
<1> QED
  BY <1>4, <1>5, FS_Subset

LEMMA ReferencesAreFinite ==
    ASSUME NEW rows, NEW r, IsRow(r)
    PROVE  IsFiniteSet(ReferencesOfRow(r, rows))
<1> DEFINE F == {f \in r.references : SourceId(f, "static") \in Ids(rows)}
           pair == [f \in F |-> {r.id, SourceId(f, "static")}]
<1>1. IsFiniteSet(F)
  <2>1. IsFiniteSet(r.references) /\ F \in SUBSET r.references
    BY DEF IsRow
  <2> HIDE DEF F
  <2> QED
    BY <2>1, FS_Subset
<1>2. DOMAIN pair = F
  OBVIOUS
<1>3. ReferencesOfRow(r, rows) = {pair[f] : f \in F}
  <2>1. ReferencesOfRow(r, rows) = {{r.id, SourceId(f, "static")} : f \in F}
    BY DEF ReferencesOfRow
  <2> HIDE DEF F
  <2> QED
    BY <2>1
<1> HIDE DEF F, pair
<1> QED
  BY <1>1, <1>2, <1>3, ImageIsFinite

LEMMA EvidenceIs ==
    ASSUME NEW rows
    PROVE  LET Sharing(Key(_)) ==
                {Ids({r \in rows : k \in Key(r)}) : k \in UNION {Key(r) : r \in rows}}
               FeedOf(r) == {<<r.catalog, r.feed>>}
           IN  Evidence(rows) =
                Sharing(FeedOf) \cup Sharing(NormalizedUrls)
                \cup Sharing(SiblingsOfRow)
                \cup UNION {ReferencesOfRow(r, rows) : r \in rows}
BY DEF Evidence, SiblingsOfRow, ReferencesOfRow

LEMMA EvidenceIsFinite ==
    ASSUME NEW rows, RowsAre(rows)
    PROVE  IsFiniteSet(Evidence(rows))
<1> DEFINE FeedOf(r) == {<<r.catalog, r.feed>>}
           feed == [r \in rows |-> FeedOf(r)]
           urls == [r \in rows |-> NormalizedUrls(r)]
           siblings == [r \in rows |-> SiblingsOfRow(r)]
           references == [r \in rows |-> ReferencesOfRow(r, rows)]
           Sharing(key) == SharedBy(rows, key)
<1>1. IsFiniteSet(rows) /\ \A r \in rows : IsRow(r)
  BY DEF RowsAre
<1>2. IsFiniteSet(Sharing(feed))
  <2>1. DOMAIN feed = rows /\ \A r \in rows : IsFiniteSet(feed[r])
    BY FS_Singleton
  <2> HIDE DEF feed
  <2> QED
    BY <1>1, <2>1, SharingIsFinite
<1>3. IsFiniteSet(Sharing(urls))
  <2>1. DOMAIN urls = rows /\ \A r \in rows : IsFiniteSet(urls[r])
    BY <1>1, UrlsAreFinite
  <2> HIDE DEF urls
  <2> QED
    BY <1>1, <2>1, SharingIsFinite
<1>4. IsFiniteSet(Sharing(siblings))
  <2>1. DOMAIN siblings = rows /\ \A r \in rows : IsFiniteSet(siblings[r])
    BY <1>1, SiblingsAreFinite
  <2> HIDE DEF siblings
  <2> QED
    BY <1>1, <2>1, SharingIsFinite
<1>5. IsFiniteSet(UNION {references[r] : r \in rows})
  <2>1. DOMAIN references = rows /\ \A r \in rows : IsFiniteSet(references[r])
    BY <1>1, ReferencesAreFinite
  <2> HIDE DEF references
  <2> QED
    BY <1>1, <2>1, FamilyIsFinite
<1>6. Evidence(rows) = Sharing(feed) \cup Sharing(urls) \cup Sharing(siblings)
                        \cup UNION {references[r] : r \in rows}
  <2> DEFINE Shared(Key(_)) ==
        {Ids({r \in rows : k \in Key(r)}) : k \in UNION {Key(r) : r \in rows}}
  <2>1. Shared(FeedOf) = Sharing(feed)
    BY DEF Ids, SharedBy
  <2>2. Shared(NormalizedUrls) = Sharing(urls)
    BY DEF Ids, SharedBy
  <2>3. Shared(SiblingsOfRow) = Sharing(siblings)
    BY DEF Ids, SharedBy
  <2>4. UNION {ReferencesOfRow(r, rows) : r \in rows}
            = UNION {references[r] : r \in rows}
    OBVIOUS
  <2>5. Evidence(rows) = Shared(FeedOf) \cup Shared(NormalizedUrls)
            \cup Shared(SiblingsOfRow)
            \cup UNION {ReferencesOfRow(r, rows) : r \in rows}
    BY EvidenceIs
  <2> QED
    BY <2>1, <2>2, <2>3, <2>4, <2>5
<1> HIDE DEF Sharing
<1> DEFINE A == Sharing(feed)
           B == Sharing(urls)
           C == Sharing(siblings)
           R == UNION {references[r] : r \in rows}
<1>7. Evidence(rows) = A \cup B \cup C \cup R
  BY <1>6
<1> HIDE DEF A, B, C, R
<1>8. IsFiniteSet(A) /\ IsFiniteSet(B) /\ IsFiniteSet(C) /\ IsFiniteSet(R)
  BY <1>2, <1>3, <1>4, <1>5 DEF A, B, C, R
<1>9. IsFiniteSet(A \cup B \cup C \cup R)
  BY <1>8, FS_Union
<1> QED
  BY <1>7, <1>9

(* What a piece of evidence makes of the groups so far.                    *)
JoinedBy(e, parts) ==
    {UNION {p \in parts : p \cap e # {}}} \cup {p \in parts : p \cap e = {}}

Holds(parts, e) == \E p \in parts : e \subseteq p

JoinsIn(I, e, parts, joined) ==
    /\ joined \in SUBSET SUBSET I /\ UNION joined = I
    /\ e \subseteq I => Holds(joined, e)
    /\ \A d : Holds(parts, d) => Holds(joined, d)

LEMMA JoinHolds ==
    ASSUME NEW I, NEW parts, parts \in SUBSET SUBSET I, UNION parts = I, NEW e
    PROVE  JoinsIn(I, e, parts, JoinedBy(e, parts))
<1> DEFINE met == UNION {p \in parts : p \cap e # {}}
           rest == {p \in parts : p \cap e = {}}
<1>1. JoinedBy(e, parts) = {met} \cup rest
  BY DEF JoinedBy
<1>2. met \in SUBSET I /\ rest \in SUBSET SUBSET I
  OBVIOUS
<1>3. ASSUME NEW i \in I PROVE i \in met \/ i \in UNION rest
  <2>1. PICK p \in parts : i \in p
    OBVIOUS
  <2> QED
    BY <2>1
<1>4. ASSUME e \subseteq I PROVE e \subseteq met
  <2>1. ASSUME NEW i \in e PROVE i \in met
    <3>1. PICK p \in parts : i \in p
      BY <1>4
    <3> QED
      BY <3>1
  <2> QED
    BY <2>1
<1>5. ASSUME NEW p \in parts PROVE p \subseteq met \/ p \in rest
  OBVIOUS
<1> HIDE DEF met, rest
<1>6. JoinedBy(e, parts) \in SUBSET SUBSET I /\ UNION JoinedBy(e, parts) = I
  BY <1>1, <1>2, <1>3
<1>7. e \subseteq I => Holds(JoinedBy(e, parts), e)
  BY <1>1, <1>4 DEF Holds
<1>8. ASSUME NEW d, Holds(parts, d) PROVE Holds(JoinedBy(e, parts), d)
  <2>1. PICK p \in parts : d \subseteq p
    BY <1>8 DEF Holds
  <2> QED
    BY <1>1, <1>5, <2>1 DEF Holds
<1> QED
  BY <1>6, <1>7, <1>8 DEF JoinsIn

(* Whatever order it comes in, a piece of evidence ends within one group.  *)
LEMMA GroupsHold ==
    ASSUME NEW rows, IsFiniteSet(Evidence(rows)),
           NEW e \in Evidence(rows), e # {}, e \subseteq Ids(rows)
    PROVE  \E g \in GroupsOf(rows) : \A r \in rows : r.id \in e => r \in g
<1> DEFINE I == Ids(rows)
           E == Evidence(rows)
           T == SUBSET SUBSET I
           base == {{i} : i \in I}
           Eq(f) == f = [U \in SUBSET E |->
                IF U = {} THEN base
                ELSE LET x == CHOOSE x \in U : TRUE
                     IN  JoinedBy(x, f[U \ {x}])]
           fold == CHOOSE f : Eq(f)
           pick == [U \in SUBSET E |-> CHOOSE x \in U : TRUE]
           step == [d \in T \X E |-> JoinedBy(d[2], d[1])]
<1>1. base \in T /\ UNION base = I
  OBVIOUS
<1>2. Picks(pick, E)
  BY DEF Picks
<1>3. step \in [T \X E -> T]
  <2>1. \A x \in E, parts \in T : JoinedBy(x, parts) \in T
    <3> HIDE DEF E, I
    <3> QED
      BY DEF JoinedBy
  <2> HIDE DEF T, E
  <2> QED
    BY <2>1
<1>4. PICK f \in [SUBSET E -> T] : IsFoldOver(f, E, base, pick, step)
  <2> HIDE DEF E, T, base, pick, step
  <2>1. IsFiniteSet(E)
    BY DEF E
  <2> QED
    BY <1>1, <1>2, <1>3, <2>1, FoldExists
<1>5. Eq(f)
  <2> HIDE DEF E, T, base
  <2>1. ASSUME NEW U \in SUBSET E
        PROVE  f[U] = IF U = {} THEN base
                      ELSE LET x == CHOOSE x \in U : TRUE
                           IN  JoinedBy(x, f[U \ {x}])
    <3>1. CASE U = {}
      BY <1>4, <3>1 DEF IsFoldOver
    <3>2. CASE U # {}
      <4>1. f[U] = step[<<f[U \ {pick[U]}], pick[U]>>]
        BY <1>4, <3>2 DEF IsFoldOver
      <4> DEFINE x == pick[U]
                 parts == f[U \ {x}]
      <4>2. x \in E /\ parts \in T /\ f[U] = step[<<parts, x>>]
        BY <3>2, <4>1
      <4>3. x = CHOOSE y \in U : TRUE
        OBVIOUS
      <4>4. \A q \in T, y \in E : step[<<q, y>>] = JoinedBy(y, q)
        OBVIOUS
      <4> HIDE DEF step, x, parts
      <4>5. f[U] = JoinedBy(x, parts)
        BY <4>2, <4>4
      <4> QED
        BY <3>2, <4>3, <4>5 DEF parts
    <3> QED
      BY <3>1, <3>2
  <2> QED
    BY <2>1
<1>6. Eq(fold)
  <2> HIDE DEF Eq
  <2> QED
    BY <1>5
<1>7. GroupsOf(rows) = {{r \in rows : r.id \in g} : g \in fold[E]}
  BY DEF GroupsOf, FoldSet, MapThenFoldSet, JoinedBy
<1> HIDE DEF fold
<1> DEFINE Good(U) == /\ fold[U] \in T /\ UNION fold[U] = I
                      /\ \A d \in U : d # {} /\ d \subseteq I => Holds(fold[U], d)
           G == {U \in SUBSET E : Good(U)}
<1>8. {} \in G
  <2>1. fold[{}] = base
    BY <1>6
  <2> HIDE DEF base, T
  <2> QED
    BY <1>1, <2>1
<1>9. ASSUME NEW U \in SUBSET E, U # {}, U \ {pick[U]} \in G
      PROVE  U \in G
  <2> DEFINE x == pick[U]
             V == U \ {x}
             parts == fold[V]
  <2>1. x \in U /\ V \in SUBSET E
    BY <1>9
  <2>2. fold[U] = JoinedBy(x, parts)
    <3> HIDE DEF E, base
    <3> QED
      BY <1>6, <1>9
  <2>3. Good(V)
    BY <1>9
  <2>4. V = U \ {x}
    OBVIOUS
  <2> HIDE DEF x, V, parts, E, I
  <2>5. /\ parts \in SUBSET SUBSET I /\ UNION parts = I
        /\ \A d \in V : d # {} /\ d \subseteq I => Holds(parts, d)
    BY <2>3 DEF parts
  <2>6. JoinsIn(I, x, parts, fold[U])
    BY <2>2, <2>5, JoinHolds
  <2>7. ASSUME NEW d \in U, d # {}, d \subseteq I PROVE Holds(fold[U], d)
    <3>1. CASE d = x
      BY <2>6, <2>7, <3>1 DEF JoinsIn
    <3>2. CASE d # x
      BY <2>4, <2>5, <2>6, <2>7, <3>2 DEF JoinsIn
    <3> QED
      BY <3>1, <3>2
  <2>8. fold[U] \in T /\ UNION fold[U] = I
    BY <2>6 DEF JoinsIn
  <2> QED
    BY <2>7, <2>8
<1>10. Grows(G, pick, E)
  BY <1>8, <1>9 DEF Grows
<1>11. \A U \in SUBSET E : U \in G
  <2> HIDE DEF G, pick, E
  <2>1. IsFiniteSet(E)
    BY DEF E
  <2> QED
    BY <1>2, <1>10, <2>1, SubsetInduction
<1>12. PICK p \in fold[E] : e \subseteq p
  <2>1. Good(E)
    BY <1>11
  <2> QED
    BY <2>1 DEF Holds
<1> DEFINE g == {r \in rows : r.id \in p}
<1>13. g \in GroupsOf(rows)
  BY <1>7
<1>14. \A r \in rows : r.id \in e => r \in g
  BY <1>12
<1> QED
  BY <1>13, <1>14

-----------------------------------------------------------------------------
(* What the checks and the feeds are made of                               *)

(* The results that the URLs picked within a limit come to.                *)
ResultsOf(rows, picked, answer) ==
    [k \in DOMAIN Skips(rows) \cup picked |->
        IF k \in DOMAIN Skips(rows) THEN Skips(rows)[k]
        ELSE [ok |-> answer[k].ok, skipped |-> FALSE,
              class |-> "", modified |-> answer[k].modified]]

Checkable(rows, limit) ==
    IF limit = 0 THEN {Targets(rows)} ELSE SampleTargets(Targets(rows), limit)

AnswersOf(picked) ==
    {f \in [picked -> UNION {Answers[k] : k \in picked}] :
        \A k \in picked : f[k] \in Answers[k]}

ResultsInv ==
    Checked => \E limit \in Limits :
                \E picked \in Checkable(sources, limit) :
                \E answer \in AnswersOf(picked) :
                    results = ResultsOf(sources, picked, answer)

FeedsInv ==
    stage = "done" => feeds = {BuildFeed(g, results) : g \in GroupsOf(sources)}

AssetsInv == RunInv /\ ResultsInv /\ FeedsInv

LEMMA AssetsBegin == Init => AssetsInv
<1> SUFFICES ASSUME Init PROVE AssetsInv
  OBVIOUS
<1>1. stage = "mobility"
  BY DEF Init
<1> QED
  BY <1>1, RunBegins DEF AssetsInv, ResultsInv, FeedsInv, Checked

LEMMA AssetsStep == AssetsInv /\ [Next]_vars => AssetsInv'
<1> SUFFICES ASSUME AssetsInv, [Next]_vars PROVE AssetsInv'
  OBVIOUS
<1>1. RunInv'
  BY RunStep DEF AssetsInv
<1>2. CASE EndpointChecks
  <2>1. /\ stage' = "feeds" /\ sources' = sources
        /\ \E limit \in Limits : \E picked \in Checkable(sources, limit) :
            \E answer \in AnswersOf(picked) :
                results' = ResultsOf(sources, picked, answer)
    BY <1>2 DEF EndpointChecks, Checkable, AnswersOf, ResultsOf
  <2>2. ResultsInv'
    BY <2>1 DEF ResultsInv
  <2> QED
    BY <1>1, <2>1, <2>2 DEF AssetsInv, FeedsInv
<1>3. CASE Feeds
  <2>1. /\ stage = "feeds" /\ stage' = "done"
        /\ sources' = sources /\ results' = results
        /\ feeds' = {BuildFeed(g, results) : g \in GroupsOf(sources)}
    BY <1>3 DEF Feeds
  <2>2. ResultsInv'
    BY <2>1 DEF AssetsInv, ResultsInv, Checked
  <2>3. FeedsInv'
    BY <2>1 DEF FeedsInv
  <2> QED
    BY <1>1, <2>2, <2>3 DEF AssetsInv
<1>4. CASE UNCHANGED vars
  <2>1. UNCHANGED <<stage, sources, results, feeds>>
    BY <1>4 DEF vars, returned
  <2> QED
    BY <1>1, <2>1 DEF AssetsInv, ResultsInv, FeedsInv, Checked
<1>5. CASE \/ MobilityStep \/ MobilityDatabase \/ TransitlandStep
           \/ TransitlandAtlas \/ Fail \/ Sources
  <2>1. stage' \notin {"feeds", "done"}
    BY <1>5 DEF MobilityStep, MobilityDatabase, TransitlandStep,
                TransitlandAtlas, Fail, Sources
  <2> QED
    BY <1>1, <2>1 DEF AssetsInv, ResultsInv, FeedsInv, Checked
<1> QED
  BY <1>2, <1>3, <1>4, <1>5 DEF Next

LEMMA AssetsAlways == Spec => []AssetsInv
<1> QED
  BY AssetsBegin, AssetsStep, PTL DEF Spec

-----------------------------------------------------------------------------
(* Links and places                                                        *)

LEMMA IdsAreNumbers ==
    ASSUME NEW r, IsRow(r)
    PROVE  r.id \in Nat
<1>1. r.feed \in Nat /\ r.kind \in Kinds /\ r.id = SourceId(r.feed, r.kind)
  BY DEF IsRow
<1>2. \A f \in Nat, k \in Kinds : SourceId(f, k) \in Nat
  BY DEF SourceId, Kinds
<1> QED
  BY <1>1, <1>2

LEMMA EarliestIs ==
    ASSUME NEW rows, rows # {}, \A r \in rows : IsRow(r)
    PROVE  Earliest(rows) \in rows
<1> DEFINE ids == {r.id : r \in rows}
<1>1. ids \in SUBSET Nat /\ ids # {}
  BY IdsAreNumbers
<1>2. PICK i \in ids : \A j \in ids : i <= j
  BY <1>1, LeastExists
<1>3. \E r \in rows : \A s \in rows : r.id <= s.id
  BY <1>2
<1> QED
  BY <1>3 DEF Earliest

(* A row without a place is linked to none that has one.                   *)
LEMMA PlaceIsTaken ==
    ASSUME NEW rows, RowsAre(rows), NEW r \in rows,
           PlaceOf(r, Matches(r, rows)) = None
    PROVE  \A m \in Matches(r, rows) : m.place = None
<1> DEFINE matches == Matches(r, rows)
           placed == {m \in matches : m.place # None}
           By(k) == {m \in placed : k \in NormalizedUrls(m)}
           key == CHOOSE k \in NormalizedUrls(r) : By(k) # {}
<1> SUFFICES ASSUME placed # {} PROVE FALSE
  OBVIOUS
<1>1. PlaceOf(r, matches) =
        IF r.place = None /\ placed # {} THEN Earliest(By(key)).place ELSE r.place
  BY DEF PlaceOf
<1>2. Earliest(By(key)).place = None
  BY <1>1
<1>3. PICK m \in placed : TRUE
  OBVIOUS
<1>4. m \in rows /\ NormalizedUrls(m) \cap NormalizedUrls(r) # {}
  BY <1>3 DEF Matches
<1>5. \E k \in NormalizedUrls(r) : By(k) # {}
  BY <1>3, <1>4
<1>6. By(key) # {} /\ By(key) \subseteq placed /\ placed \subseteq rows
  BY <1>5 DEF Matches
<1>7. \A x \in By(key) : IsRow(x) /\ x.place # None
  BY <1>6 DEF RowsAre
<1> DEFINE some == By(key)
<1> HIDE DEF By, key
<1>8. Earliest(some) \in some
  <2> HIDE DEF some
  <2>1. some # {} /\ \A x \in some : IsRow(x)
    BY <1>6, <1>7 DEF some
  <2> QED
    BY <2>1, EarliestIs
<1> QED
  BY <1>2, <1>7, <1>8

LEMMA MatchesAre ==
    ASSUME NEW rows, NEW r, NEW s
    PROVE  s \in Matches(r, rows) <=>
            /\ s \in rows /\ s.catalog # r.catalog /\ s.kind = r.kind
            /\ \E u \in Urls(r), v \in Urls(s) : u.key # None /\ u.key = v.key
<1>1. NormalizedUrls(s) \cap NormalizedUrls(r) # {} <=>
        \E u \in Urls(r), v \in Urls(s) : u.key # None /\ u.key = v.key
  BY DEF NormalizedUrls, NormalizeUrl
<1> QED
  BY <1>1 DEF Matches

(* The row that a source was made of.                                      *)
LEMMA SourceIsLinked ==
    ASSUME RunInv, Linked, NEW s \in sources
    PROVE  \E m \in Merged : s = Link(m, Merged) /\ IsRow(m)
<1>1. sources = CrossLink(Merged) /\ CatalogRows
  BY DEF RunInv
<1>2. PICK m \in Merged : s = Link(m, Merged)
  BY <1>1, CrossLinkIs
<1>3. IsRow(m)
  BY <1>1, MergedRowsAre DEF RowsAre
<1> QED
  BY <1>2, <1>3

LEMMA RowsOfOneCatalog ==
    ASSUME CatalogRows, NEW m \in mobility, NEW s \in Merged, m.id = s.id
    PROVE  m = s
<1>1. /\ RowsOfCatalog(mobility, "mobilitydatabase", Records)
      /\ RowsOfCatalog(transitland, "transitland", CorpusNumbers)
      /\ RowsOfCatalog(CuratedRows, "curated", CuratedNumbers)
  BY CuratedRowsAre DEF CatalogRows
<1>2. s \in transitland \/ s \in mobility \/ s \in CuratedRows
  BY MergedRowsAre
<1>3. IsRow(m) /\ IsRow(s) /\ m.feed \in Records
  BY <1>1, <1>2 DEF RowsOfCatalog
<1>4. m.feed = s.feed
  BY <1>3, IdsTellFeeds DEF IsRow
<1>5. s \notin transitland /\ s \notin CuratedRows
  BY <1>1, <1>3, <1>4, NumbersAre DEF RowsOfCatalog
<1> QED
  BY <1>1, <1>2, <1>5 DEF RowsOfCatalog, Unique

(* A group that the evidence of a common URL ends in.                      *)
LEMMA UrlsGroup ==
    ASSUME NEW rows, RowsAre(rows), NEW r \in rows, NEW s \in rows,
           NormalizedUrls(r) \cap NormalizedUrls(s) # {}
    PROVE  \E g \in GroupsOf(rows) : r \in g /\ s \in g
<1>1. PICK k : k \in NormalizedUrls(r) /\ k \in NormalizedUrls(s)
  OBVIOUS
<1> DEFINE e == Ids({x \in rows : k \in NormalizedUrls(x)})
           Shared(Key(_)) ==
             {Ids({x \in rows : j \in Key(x)}) : j \in UNION {Key(x) : x \in rows}}
<1>2. e \in Shared(NormalizedUrls)
  BY <1>1
<1>3. Shared(NormalizedUrls) \subseteq Evidence(rows)
  BY EvidenceIs
<1>4. r.id \in e /\ s.id \in e /\ e \subseteq Ids(rows)
  BY <1>1 DEF Ids
<1>5. e \in Evidence(rows)
  BY <1>2, <1>3
<1> HIDE DEF e
<1>6. \E g \in GroupsOf(rows) : \A x \in rows : x.id \in e => x \in g
  BY <1>4, <1>5, EvidenceIsFinite, GroupsHold
<1> QED
  BY <1>4, <1>6

LEMMA GroupsAreMembers ==
    ASSUME NEW rows, NEW g \in GroupsOf(rows)
    PROVE  g \subseteq rows
BY DEF GroupsOf

LEMMA MembersOfFeed ==
    ASSUME NEW members, NEW r
    PROVE  BuildFeed(members, r).members = Ids(members)
BY DEF BuildFeed

(* Two rows of different catalogs and one kind name each other just when   *)
(* one has a URL whose normalized form is one of the other's; they end in  *)
(* one feed; and a row linked to one that the Mobility Database has placed *)
(* is placed itself.                                                       *)
THEOREM LinksAreMutual == Spec => []LinksAgree
<1>1. ASSUME AssetsInv, Linked, NEW r \in sources, NEW s \in sources
      PROVE  /\ s.id \in r.links <=>
                /\ r.catalog # s.catalog /\ r.kind = s.kind
                /\ \E u \in Urls(r), v \in Urls(s) : u.key # None /\ u.key = v.key
             /\ s.id \in r.links /\ stage = "done" =>
                \E f \in feeds : {r.id, s.id} \subseteq f.members
             /\ s.id \in r.links /\ r.place = None => \A m \in mobility :
                m.id = s.id => m.place = None
  <2>1. RunInv /\ CatalogRows
    BY <1>1 DEF AssetsInv, RunInv
  <2>2. PICK p \in Merged : r = Link(p, Merged) /\ IsRow(p)
    BY <1>1, <2>1, SourceIsLinked
  <2>3. PICK q \in Merged : s = Link(q, Merged) /\ IsRow(q)
    BY <1>1, <2>1, SourceIsLinked
  <2>4. /\ r.id = p.id /\ r.catalog = p.catalog /\ r.kind = p.kind
        /\ r.urls = p.urls /\ r.links = Ids(Matches(p, Merged))
        /\ r.place = PlaceOf(p, Matches(p, Merged))
    BY <2>2, LinkKeeps
  <2>5. /\ s.id = q.id /\ s.catalog = q.catalog /\ s.kind = q.kind
        /\ s.urls = q.urls
    BY <2>3, LinkKeeps
  <2>6. Urls(r) = Urls(p) /\ Urls(s) = Urls(q)
    BY <2>4, <2>5 DEF Urls
  <2>7. RowsAre(Merged)
    BY <2>1, MergedRowsAre
  <2>8. s.id \in r.links <=> q \in Matches(p, Merged)
    <3>1. \A m \in Matches(p, Merged) : m \in Merged
      BY DEF Matches
    <3> QED
      BY <2>3, <2>4, <2>5, <2>7, <3>1 DEF Ids, RowsAre, Unique
  <2>9. q \in Matches(p, Merged) <=>
            /\ q.catalog # p.catalog /\ q.kind = p.kind
            /\ \E u \in Urls(p), v \in Urls(q) : u.key # None /\ u.key = v.key
    BY <2>3, MatchesAre
  <2>10. s.id \in r.links <=>
            /\ r.catalog # s.catalog /\ r.kind = s.kind
            /\ \E u \in Urls(r), v \in Urls(s) : u.key # None /\ u.key = v.key
    BY <2>4, <2>5, <2>6, <2>8, <2>9
  <2>11. ASSUME s.id \in r.links, stage = "done"
         PROVE  \E f \in feeds : {r.id, s.id} \subseteq f.members
    <3>1. NormalizedUrls(r) \cap NormalizedUrls(s) # {}
      BY <2>10, <2>11 DEF NormalizedUrls, NormalizeUrl
    <3>2. PICK g \in GroupsOf(sources) : r \in g /\ s \in g
      BY <1>1, <2>1, <3>1, SourcesAre, UrlsGroup
    <3>3. BuildFeed(g, results) \in feeds
      BY <1>1, <2>11 DEF AssetsInv, FeedsInv
    <3>4. {r.id, s.id} \subseteq BuildFeed(g, results).members
      BY <3>2, MembersOfFeed DEF Ids
    <3> QED
      BY <3>3, <3>4
  <2>12. ASSUME s.id \in r.links, r.place = None, NEW m \in mobility, m.id = s.id
         PROVE  m.place = None
    <3>1. m = q
      BY <2>1, <2>5, <2>12, RowsOfOneCatalog
    <3>2. q.place = None
      BY <2>2, <2>4, <2>7, <2>8, <2>12, PlaceIsTaken
    <3> QED
      BY <3>1, <3>2
  <2> QED
    BY <2>10, <2>11, <2>12
<1>2. AssetsInv => LinksAgree
  BY <1>1 DEF LinksAgree
<1> QED
  BY <1>2, AssetsAlways, PTL

-----------------------------------------------------------------------------
(* What becomes of a URL                                                   *)

RelativeTexts(rows) ==
    {u.text : u \in {u \in UNION {Urls(r) : r \in rows} : NormalizeUrl(u) = None}}

NeedingKey(rows) == UNION {NormalizedUrls(r) : r \in {r \in rows : r.auth}}

LEMMA SkipsAre ==
    ASSUME NEW rows
    PROVE  /\ DOMAIN Skips(rows) =
                (NeedingKey(rows) \ Targets(rows)) \cup RelativeTexts(rows)
           /\ \A k \in DOMAIN Skips(rows) :
                /\ Skips(rows)[k].skipped = TRUE
                /\ Skips(rows)[k].class =
                    IF k \in RelativeTexts(rows) THEN "relative" ELSE "auth_required"
<1> DEFINE D == (NeedingKey(rows) \ Targets(rows)) \cup RelativeTexts(rows)
           class(k) == IF k \in RelativeTexts(rows) THEN "relative"
                       ELSE "auth_required"
<1>1. Skips(rows) = [k \in D |-> Skipped(class(k))]
  BY DEF Skips, RelativeTexts, NeedingKey
<1>2. \A c : Skipped(c).skipped = TRUE /\ Skipped(c).class = c
  BY DEF Skipped
<1> HIDE DEF D
<1>3. DOMAIN Skips(rows) = D
  BY <1>1
<1>4. ASSUME NEW k \in D
      PROVE  Skips(rows)[k].skipped = TRUE /\ Skips(rows)[k].class = class(k)
  BY <1>1, <1>2
<1> QED
  BY <1>3, <1>4 DEF D

LEMMA UrlsOfRows ==
    ASSUME NEW rows, RowsAre(rows), NEW r \in rows, NEW u \in Urls(r)
    PROVE  u \in CatalogUrls
BY DEF RowsAre, IsRow, Urls

LEMMA TargetsAre ==
    ASSUME NEW rows, NEW k
    PROVE  k \in Targets(rows) <=>
            /\ k # None
            /\ \E s \in rows : ~s.auth /\ \E v \in Urls(s) : v.key = k
BY DEF Targets, NormalizedUrls, NormalizeUrl

LEMMA TargetsAreFinite ==
    ASSUME NEW rows, RowsAre(rows)
    PROVE  IsFiniteSet(Targets(rows))
<1> DEFINE open == {r \in rows : ~r.auth}
           keys == [r \in open |-> NormalizedUrls(r)]
<1>1. IsFiniteSet(open)
  BY FS_Subset DEF RowsAre
<1>2. \A r \in open : IsFiniteSet(keys[r])
  BY UrlsAreFinite DEF RowsAre
<1>3. DOMAIN keys = open /\ Targets(rows) = UNION {keys[r] : r \in open}
  BY DEF Targets
<1> HIDE DEF keys, open
<1> QED
  BY <1>1, <1>2, <1>3, FamilyIsFinite

(* No relative text is what an absolute URL normalizes to.                 *)
LEMMA RelativeIsNoKey ==
    ASSUME NEW rows, RowsAre(rows), NEW s \in rows, NEW v \in Urls(s), v.key # None
    PROVE  v.key \notin RelativeTexts(rows)
<1> SUFFICES ASSUME v.key \in RelativeTexts(rows) PROVE FALSE
  OBVIOUS
<1>1. PICK r \in rows : \E u \in Urls(r) : u.key = None /\ v.key = u.text
  BY DEF RelativeTexts, NormalizeUrl
<1>2. PICK u \in Urls(r) : u.key = None /\ v.key = u.text
  BY <1>1
<1>3. u \in CatalogUrls /\ v \in CatalogUrls
  BY UrlsOfRows
<1> QED
  BY <1>2, <1>3, UrlsAssumption

LEMMA TargetsAreNotSkipped ==
    ASSUME NEW rows, RowsAre(rows), NEW k \in Targets(rows)
    PROVE  k \notin DOMAIN Skips(rows)
<1>1. PICK s \in rows : \E v \in Urls(s) : v.key = k /\ k # None
  BY TargetsAre
<1>2. k \notin RelativeTexts(rows)
  BY <1>1, RelativeIsNoKey
<1> QED
  BY <1>2, SkipsAre

(* A trial run that leaves something out has used its limit up.            *)
LEMMA SampleUsesLimit ==
    ASSUME NEW targets, IsFiniteSet(targets), NEW limit \in Nat,
           NEW picked \in SampleTargets(targets, limit)
    PROVE  picked \subseteq targets
           /\ (picked # targets => Cardinality(picked) = limit)
<1> DEFINE n == Cardinality(targets)
           size == Min({limit, n})
<1>1. picked \in kSubset(size, targets)
  BY DEF SampleTargets
<1>2. picked \in SUBSET targets /\ Cardinality(picked) = size
  <2> HIDE DEF size
  <2> QED
    BY <1>1 DEF kSubset
<1>3. n \in Nat
  BY FS_CardinalityType
<1> HIDE DEF n
<1>4. CASE limit <= n
  <2>1. {limit, n} \in SUBSET Int /\ limit \in {limit, n}
        /\ \A y \in {limit, n} : limit <= y
    BY <1>3, <1>4
  <2>2. size = limit
    BY <2>1, MinIs
  <2> QED
    BY <1>2, <2>2
<1>5. CASE n <= limit
  <2>1. {limit, n} \in SUBSET Int /\ n \in {limit, n}
        /\ \A y \in {limit, n} : n <= y
    BY <1>3, <1>5
  <2>2. size = n
    BY <2>1, MinIs
  <2>3. Cardinality(picked) = Cardinality(targets)
    BY <1>2, <2>2 DEF n
  <2>4. picked = targets
    <3> HIDE DEF size
    <3> QED
      BY <1>2, <2>3, FS_Subset
  <2> QED
    BY <2>4
<1>6. limit <= n \/ n <= limit
  BY <1>3
<1> QED
  BY <1>4, <1>5, <1>6

LEMMA PickedAreTargets ==
    ASSUME NEW rows, RowsAre(rows), NEW limit \in Limits,
           NEW picked \in Checkable(rows, limit)
    PROVE  /\ picked \subseteq Targets(rows)
           /\ picked # Targets(rows) =>
                limit # 0 /\ Cardinality(picked) = limit
<1>1. limit \in Nat
  BY IngestAssumption
<1>2. CASE limit = 0
  <2>1. picked = Targets(rows)
    BY <1>2 DEF Checkable
  <2> QED
    BY <2>1
<1>3. CASE limit # 0
  <2>1. picked \in SampleTargets(Targets(rows), limit)
    BY <1>3 DEF Checkable
  <2> QED
    BY <1>1, <1>3, <2>1, TargetsAreFinite, SampleUsesLimit
<1> QED
  BY <1>2, <1>3

SkipsAndAnswers(rows, picked, res) ==
    /\ DOMAIN res = DOMAIN Skips(rows) \cup picked
    /\ \A k \in picked : ~res[k].skipped
    /\ \A k \in DOMAIN Skips(rows) : res[k] = Skips(rows)[k]
    /\ {j \in DOMAIN res : ~res[j].skipped} = picked

LEMMA ResultsAre ==
    ASSUME NEW rows, NEW picked, NEW answer, RowsAre(rows),
           picked \subseteq Targets(rows)
    PROVE  SkipsAndAnswers(rows, picked, ResultsOf(rows, picked, answer))
<1> DEFINE res == ResultsOf(rows, picked, answer)
<1>1. DOMAIN res = DOMAIN Skips(rows) \cup picked
  BY DEF ResultsOf
<1>2. \A k \in DOMAIN Skips(rows) : res[k] = Skips(rows)[k]
  BY DEF ResultsOf
<1>3. ASSUME NEW k \in picked PROVE res[k].skipped = FALSE
  <2>1. k \notin DOMAIN Skips(rows)
    BY TargetsAreNotSkipped
  <2> QED
    BY <2>1 DEF ResultsOf
<1>4. \A k \in DOMAIN Skips(rows) : res[k].skipped = TRUE
  BY <1>2, SkipsAre
<1> HIDE DEF res
<1>5. {j \in DOMAIN res : ~res[j].skipped} = picked
  BY <1>1, <1>3, <1>4
<1> QED
  BY <1>1, <1>2, <1>3, <1>5 DEF res, SkipsAndAnswers

(* Every URL of every row is answered or told why it was not asked: it is  *)
(* relative, or only rows that need a key have it; unless it is one that   *)
(* some row lists openly and a trial run has used its limit up on others.  *)
THEOREM UrlsAreDecided == Spec => []EveryUrlIsDecided
<1>1. ASSUME AssetsInv, Checked, NEW r \in sources, NEW u \in Urls(r)
      PROVE  LET k == ResultKey(u)
                 open == \E s \in sources : ~s.auth /\ \E v \in Urls(s) : v.key = k
             IN  IF u.key = None
                 THEN k \in DOMAIN results /\ results[k].class = "relative"
                 ELSE IF ~open
                 THEN k \in DOMAIN results /\ results[k].class = "auth_required"
                 ELSE IF k \in DOMAIN results THEN ~results[k].skipped
                 ELSE Cardinality({j \in DOMAIN results : ~results[j].skipped})
                        \in Limits \ {0}
  <2> DEFINE k == ResultKey(u)
             open == \E s \in sources : ~s.auth /\ \E v \in Urls(s) : v.key = k
  <2>1. PICK limit \in Limits : \E picked \in Checkable(sources, limit) :
          \E answer \in AnswersOf(picked) : results = ResultsOf(sources, picked, answer)
    BY <1>1 DEF AssetsInv, ResultsInv
  <2>2. PICK picked \in Checkable(sources, limit) :
          \E answer \in AnswersOf(picked) : results = ResultsOf(sources, picked, answer)
    BY <2>1
  <2>3. PICK answer \in AnswersOf(picked) : results = ResultsOf(sources, picked, answer)
    BY <2>2
  <2>4. RowsAre(sources)
    BY <1>1, SourcesAre DEF AssetsInv
  <2>5. /\ picked \subseteq Targets(sources)
        /\ picked # Targets(sources) => limit # 0 /\ Cardinality(picked) = limit
    BY <2>4, PickedAreTargets
  <2>6. /\ DOMAIN results = DOMAIN Skips(sources) \cup picked
        /\ \A j \in picked : ~results[j].skipped
        /\ \A j \in DOMAIN Skips(sources) : results[j] = Skips(sources)[j]
        /\ {j \in DOMAIN results : ~results[j].skipped} = picked
    <3>1. SkipsAndAnswers(sources, picked, ResultsOf(sources, picked, answer))
      BY <2>4, <2>5, ResultsAre
    <3> QED
      BY <2>3, <3>1 DEF SkipsAndAnswers
  <2>7. k = IF u.key = None THEN u.text ELSE u.key
    BY DEF ResultKey
  <2>8. ASSUME u.key = None
        PROVE  k \in DOMAIN results /\ results[k].class = "relative"
    <3>1. k \in RelativeTexts(sources)
      BY <2>7, <2>8 DEF RelativeTexts, NormalizeUrl
    <3>2. k \in DOMAIN Skips(sources) /\ Skips(sources)[k].class = "relative"
      BY <3>1, SkipsAre
    <3> QED
      BY <2>6, <3>2
  <2>9. ASSUME u.key # None, ~open
        PROVE  k \in DOMAIN results /\ results[k].class = "auth_required"
    <3>1. k = u.key /\ k \notin RelativeTexts(sources)
      BY <2>4, <2>7, <2>9, RelativeIsNoKey
    <3>2. k \notin Targets(sources)
      BY <2>9, TargetsAre
    <3>3. r.auth
      BY <2>9, <3>1
    <3>4. k \in NormalizedUrls(r)
      BY <2>9, <3>1 DEF NormalizedUrls, NormalizeUrl
    <3>5. k \in NeedingKey(sources)
      BY <3>3, <3>4 DEF NeedingKey
    <3>6. k \in DOMAIN Skips(sources) /\ Skips(sources)[k].class = "auth_required"
      BY <3>1, <3>2, <3>5, SkipsAre
    <3> QED
      BY <2>6, <3>6
  <2>10. ASSUME u.key # None, open, k \in DOMAIN results PROVE ~results[k].skipped
    <3>1. k \in Targets(sources)
      BY <2>7, <2>10, TargetsAre
    <3>2. k \in picked
      BY <2>4, <2>6, <2>10, <3>1, TargetsAreNotSkipped
    <3> QED
      BY <2>6, <3>2
  <2>11. ASSUME u.key # None, open, k \notin DOMAIN results
         PROVE  Cardinality({j \in DOMAIN results : ~results[j].skipped})
                    \in Limits \ {0}
    <3>1. k \in Targets(sources)
      BY <2>7, <2>11, TargetsAre
    <3>2. picked # Targets(sources)
      BY <2>6, <2>11, <3>1
    <3>3. Cardinality(picked) \in Limits \ {0}
      BY <2>5, <3>2
    <3> QED
      BY <2>6, <3>3
  <2> HIDE DEF k
  <2> QED
    BY <2>8, <2>9, <2>10, <2>11 DEF k
<1>2. AssetsInv => EveryUrlIsDecided
  BY <1>1 DEF EveryUrlIsDecided
<1> QED
  BY <1>2, AssetsAlways, PTL

-----------------------------------------------------------------------------
(* Orders of finite sets                                                   *)

Orders(R, S) ==
    /\ \A x \in S : <<x, x>> \notin R
    /\ \A x, y \in S : x = y \/ <<x, y>> \in R \/ <<y, x>> \in R
    /\ \A x, y, z \in S : <<x, y>> \in R /\ <<y, z>> \in R => <<x, z>> \in R

InFront(R, S, x) == {y \in S : <<y, x>> \in R}

(* Each place of an order is that of one element.                          *)
HasPlaces(R, S) ==
    /\ \A x \in S : Cardinality(InFront(R, S, x)) \in 0 .. Cardinality(S) - 1
    /\ \A x, y \in S :
        Cardinality(InFront(R, S, x)) = Cardinality(InFront(R, S, y)) => x = y
    /\ \A i \in 1 .. Cardinality(S) :
        \E x \in S : Cardinality(InFront(R, S, x)) = i - 1

LEMMA FrontGrows ==
    ASSUME NEW R, NEW S, IsFiniteSet(S), Orders(R, S),
           NEW x \in S, NEW y \in S, <<x, y>> \in R
    PROVE  Cardinality(InFront(R, S, x)) < Cardinality(InFront(R, S, y))
<1> DEFINE A == InFront(R, S, x)
           B == InFront(R, S, y)
<1>1. A \subseteq B /\ x \in B /\ x \notin A /\ B \subseteq S
  BY DEF InFront, Orders
<1> HIDE DEF A, B
<1>2. IsFiniteSet(B)
  BY <1>1, FS_Subset
<1>3. /\ IsFiniteSet(A) /\ Cardinality(A) <= Cardinality(B)
      /\ Cardinality(A) # Cardinality(B)
  BY <1>1, <1>2, FS_Subset
<1>4. Cardinality(A) \in Nat /\ Cardinality(B) \in Nat
  BY <1>2, <1>3, FS_CardinalityType
<1>5. Cardinality(A) < Cardinality(B)
  BY <1>3, <1>4
<1> QED
  BY <1>5 DEF A, B

LEMMA PlacesOfOrder ==
    ASSUME NEW R, NEW S, IsFiniteSet(S), Orders(R, S)
    PROVE  HasPlaces(R, S)
<1> DEFINE n == Cardinality(S)
           ahead == [x \in S |-> Cardinality(InFront(R, S, x))]
           T == 0 .. n - 1
<1>1. n \in Nat
  BY FS_CardinalityType
<1>2. ASSUME NEW x \in S PROVE Cardinality(InFront(R, S, x)) \in T
  <2> DEFINE A == InFront(R, S, x)
  <2>1. A \subseteq S /\ x \notin A
    BY DEF InFront, Orders
  <2> HIDE DEF A
  <2>2. IsFiniteSet(A) /\ Cardinality(A) <= n /\ Cardinality(A) # n
    BY <2>1, FS_Subset
  <2>3. Cardinality(A) \in Nat
    BY <2>2, FS_CardinalityType
  <2> HIDE DEF n
  <2>4. Cardinality(A) \in T
    BY <1>1, <2>2, <2>3
  <2> QED
    BY <2>4 DEF A
<1>3. ASSUME NEW x \in S, NEW y \in S,
             Cardinality(InFront(R, S, x)) = Cardinality(InFront(R, S, y))
      PROVE  x = y
  <2>1. Cardinality(InFront(R, S, x)) \in Int
    BY <1>1, <1>2
  <2> DEFINE a == Cardinality(InFront(R, S, x))
             b == Cardinality(InFront(R, S, y))
  <2>2. (<<x, y>> \in R => a < b) /\ (<<y, x>> \in R => b < a)
    BY FrontGrows
  <2>3. a = b /\ a \in Int
    BY <1>3, <2>1
  <2> HIDE DEF a, b
  <2>4. <<x, y>> \notin R /\ <<y, x>> \notin R
    BY <2>2, <2>3
  <2> QED
    BY <2>4 DEF Orders
<1>4. ahead \in Injection(S, T)
  <2>1. ahead \in [S -> T]
    BY <1>2
  <2>2. \A x, y \in S : ahead[x] = ahead[y] => x = y
    BY <1>3
  <2> HIDE DEF ahead
  <2> QED
    BY <2>1, <2>2 DEF Injection, IsInjective
<1>5. IsFiniteSet(T) /\ Cardinality(T) = n
  <2> HIDE DEF n
  <2>1. 0 \in Int /\ n - 1 \in Int
    BY <1>1
  <2>2. /\ IsFiniteSet(0 .. n - 1)
        /\ Cardinality(0 .. n - 1) = IF 0 > n - 1 THEN 0 ELSE n - 1 - 0 + 1
    BY <2>1, FS_Interval
  <2> QED
    BY <1>1, <2>2
<1>6. ahead \in Surjection(S, T)
  <2> HIDE DEF ahead, T
  <2> QED
    BY <1>4, <1>5, FS_Injection
<1>7. ASSUME NEW i \in 1 .. n
      PROVE  \E x \in S : Cardinality(InFront(R, S, x)) = i - 1
  <2>1. i - 1 \in T
    <3> HIDE DEF n
    <3> QED
      BY <1>1
  <2>2. \A t \in T : \E x \in S : ahead[x] = t
    <3> HIDE DEF ahead, T
    <3> QED
      BY <1>6 DEF Surjection
  <2> QED
    BY <2>1, <2>2
<1> QED
  BY <1>2, <1>3, <1>7 DEF HasPlaces

LEMMA FirstExists ==
    ASSUME NEW R, NEW S, IsFiniteSet(S), Orders(R, S), S # {}
    PROVE  \E x \in S : \A y \in S : <<y, x>> \notin R
<1> DEFINE n == Cardinality(S)
<1>1. n \in Nat /\ n # 0
  BY FS_CardinalityType, FS_EmptySet
<1>2. 1 \in 1 .. n
  <2> HIDE DEF n
  <2> QED
    BY <1>1
<1>3. PICK x \in S : Cardinality(InFront(R, S, x)) = 1 - 1
  BY <1>2, PlacesOfOrder DEF HasPlaces
<1>4. InFront(R, S, x) = {}
  <2>1. IsFiniteSet(InFront(R, S, x))
    BY FS_Subset DEF InFront
  <2> QED
    BY <1>3, <2>1, FS_EmptySet
<1> QED
  BY <1>4 DEF InFront

LEMMA OrdersOfParts ==
    ASSUME NEW R, NEW S, Orders(R, S), NEW T \in SUBSET S
    PROVE  Orders(R, T)
BY DEF Orders

-----------------------------------------------------------------------------
(* The order of the names                                                  *)

CatalogNames == {"curated", "mobilitydatabase", "transitland"}

FromCatalogs(rows) == RowsAre(rows) /\ \A r \in rows : r.catalog \in CatalogNames

PriorityOf(catalog) ==
    IF catalog = "curated" THEN 0 ELSE IF catalog = "mobilitydatabase" THEN 1 ELSE 2

KindOrder(kind) == IF kind = "static" THEN 0 ELSE 1

Before3(a, b, c, d, e, f) ==
    a < d \/ (a = d /\ b < e) \/ (a = d /\ b = e /\ c < f)

LEMMA NameBeforeIs ==
    ASSUME NEW r, NEW s, r.catalog \in CatalogNames, s.catalog \in CatalogNames
    PROVE  NameBefore(r, s) <=>
            Before3(PriorityOf(r.catalog), KindOrder(r.kind), r.id,
                    PriorityOf(s.catalog), KindOrder(s.kind), s.id)
<1>1. \A c \in CatalogNames :
        [curated |-> 0, mobilitydatabase |-> 1, transitland |-> 2][c] = PriorityOf(c)
  BY DEF CatalogNames, PriorityOf
<1> QED
  BY <1>1 DEF NameBefore, Before3, KindOrder

NamesOf(rows) == {p \in rows \X rows : NameBefore(p[1], p[2])}

LEMMA NamesAreOrdered ==
    ASSUME NEW rows, FromCatalogs(rows)
    PROVE  Orders(NamesOf(rows), rows)
<1> DEFINE P(r) == PriorityOf(r.catalog)
           K(r) == KindOrder(r.kind)
<1>1. ASSUME NEW r \in rows PROVE P(r) \in Int /\ K(r) \in Int /\ r.id \in Int
  BY IdsAreNumbers DEF FromCatalogs, RowsAre, PriorityOf, KindOrder
<1>2. ASSUME NEW r \in rows, NEW s \in rows
      PROVE  <<r, s>> \in NamesOf(rows) <=>
                Before3(P(r), K(r), r.id, P(s), K(s), s.id)
  <2>1. <<r, s>> \in NamesOf(rows) <=> NameBefore(r, s)
    BY DEF NamesOf
  <2> QED
    BY <2>1, NameBeforeIs DEF FromCatalogs
<1> HIDE DEF P, K
<1>3. ASSUME NEW r \in rows, NEW s \in rows, r # s
      PROVE  \/ Before3(P(r), K(r), r.id, P(s), K(s), s.id)
             \/ Before3(P(s), K(s), s.id, P(r), K(r), r.id)
  <2>1. r.id # s.id
    BY <1>3 DEF FromCatalogs, RowsAre, Unique
  <2> QED
    BY <1>1, <2>1 DEF Before3
<1>4. ASSUME NEW r \in rows
      PROVE  ~Before3(P(r), K(r), r.id, P(r), K(r), r.id)
  BY <1>1 DEF Before3
<1>5. ASSUME NEW r \in rows, NEW s \in rows, NEW t \in rows,
             Before3(P(r), K(r), r.id, P(s), K(s), s.id),
             Before3(P(s), K(s), s.id, P(t), K(t), t.id)
      PROVE  Before3(P(r), K(r), r.id, P(t), K(t), t.id)
  BY <1>1, <1>5 DEF Before3
<1> QED
  BY <1>2, <1>3, <1>4, <1>5 DEF Orders

-----------------------------------------------------------------------------
(* The order of the URLs of a role                                         *)

Dated(answers) == \A k \in DOMAIN answers : answers[k].modified \in Nat

LEMMA ModifiedIs ==
    ASSUME NEW answers, Dated(answers), NEW url
    PROVE  Modified(url, answers) \in Nat
BY DEF Modified, Dated

(* All that role lists, one of each form or not.                           *)
ListingsOf(members, role) ==
    {[url |-> r.urls[role], row |-> r] : r \in {r \in members : role \in DOMAIN r.urls}}

LEMMA ListingsAre ==
    ASSUME NEW members, NEW role, NEW x
    PROVE  x \in Listings(members, role) <=>
            /\ x \in ListingsOf(members, role)
            /\ \A y \in ListingsOf(members, role) :
                ResultKey(y.url) = ResultKey(x.url) => ~NameBefore(y.row, x.row)
BY DEF Listings, ListingsOf

LEMMA ListingIs ==
    ASSUME NEW members, NEW role, NEW x \in ListingsOf(members, role)
    PROVE  /\ x.row \in members /\ role \in DOMAIN x.row.urls
           /\ x.url = x.row.urls[role] /\ x = [url |-> x.url, row |-> x.row]
<1>1. PICK r \in members : role \in DOMAIN r.urls /\ x = [url |-> r.urls[role], row |-> r]
  BY DEF ListingsOf
<1>2. x.url = r.urls[role] /\ x.row = r
  BY <1>1
<1> QED
  BY <1>1, <1>2

LEMMA ListingsDiffer ==
    ASSUME NEW members, NEW role, NEW x \in ListingsOf(members, role),
           NEW y \in ListingsOf(members, role), x.row = y.row
    PROVE  x = y
BY ListingIs

LEMMA ListingsAreFinite ==
    ASSUME NEW members, IsFiniteSet(members), NEW role
    PROVE  IsFiniteSet(ListingsOf(members, role)) /\ IsFiniteSet(Listings(members, role))
<1> DEFINE having == {r \in members : role \in DOMAIN r.urls}
           listing == [r \in having |-> [url |-> r.urls[role], row |-> r]]
<1>1. IsFiniteSet(having)
  BY FS_Subset
<1>2. ListingsOf(members, role) = {listing[r] : r \in having} /\ DOMAIN listing = having
  BY DEF ListingsOf
<1> HIDE DEF listing, having
<1>3. IsFiniteSet(ListingsOf(members, role))
  BY <1>1, <1>2, ImageIsFinite
<1>4. Listings(members, role) \subseteq ListingsOf(members, role)
  BY ListingsAre
<1> QED
  BY <1>3, <1>4, FS_Subset

(* Each form that a role has a URL of is listed, once.                     *)
LEMMA FormsAreListed ==
    ASSUME NEW members, FromCatalogs(members), NEW role,
           NEW y \in ListingsOf(members, role)
    PROVE  /\ \E x \in Listings(members, role) : ResultKey(x.url) = ResultKey(y.url)
           /\ \A x, z \in Listings(members, role) :
                ResultKey(x.url) = ResultKey(z.url) => x = z
<1> DEFINE same == {x \in ListingsOf(members, role) :
                        ResultKey(x.url) = ResultKey(y.url)}
           rows == {x.row : x \in same}
           R == NamesOf(members)
<1>1. rows \in SUBSET members /\ rows # {}
  BY ListingIs
<1>2. IsFiniteSet(rows) /\ Orders(R, members) /\ Orders(R, rows)
  BY <1>1, NamesAreOrdered, OrdersOfParts, FS_Subset DEF FromCatalogs, RowsAre
<1>3. PICK r \in rows : \A s \in rows : <<s, r>> \notin R
  <2> HIDE DEF rows, R
  <2> QED
    BY <1>1, <1>2, FirstExists
<1>4. PICK x \in same : x.row = r
  OBVIOUS
<1>5. \A s \in rows : ~NameBefore(s, r)
  BY <1>1, <1>3 DEF NamesOf
<1>6. x \in Listings(members, role)
  BY <1>4, <1>5, ListingsAre
<1>7. ASSUME NEW v \in Listings(members, role), NEW z \in Listings(members, role),
             ResultKey(v.url) = ResultKey(z.url)
      PROVE  v = z
  <2>1. /\ v \in ListingsOf(members, role) /\ z \in ListingsOf(members, role)
        /\ ~NameBefore(v.row, z.row) /\ ~NameBefore(z.row, v.row)
    BY <1>7, ListingsAre
  <2>2. v.row \in members /\ z.row \in members
    BY <2>1, ListingIs
  <2>3. v.row = z.row
    BY <1>2, <2>1, <2>2 DEF Orders, NamesOf
  <2> QED
    BY <2>1, <2>3, ListingsDiffer
<1> QED
  BY <1>4, <1>6, <1>7

RanksOf(listings, answers) ==
    {p \in listings \X listings : RankedBefore(p[1], p[2], answers)}

StateRank(url, answers) == StateOrder[UrlState(url, answers)]

LEMMA StateRankIs ==
    ASSUME NEW url, NEW answers
    PROVE  /\ StateRank(url, answers) \in Int
           /\ UrlState(url, answers) = "up" => StateRank(url, answers) = 0
           /\ UrlState(url, answers) # "up" => StateRank(url, answers) > 0
<1>1. UrlState(url, answers) \in {"up", "unknown", "down"}
  BY DEF UrlState
<1>2. StateOrder["up"] = 0 /\ StateOrder["unknown"] = 1 /\ StateOrder["down"] = 2
  BY DEF StateOrder
<1> QED
  BY <1>1, <1>2 DEF StateRank

RankOrder(a, m, b, n, before) == a < b \/ (a = b /\ m > n) \/ (a = b /\ m = n /\ before)

LEMMA RanksAreOrdered ==
    ASSUME NEW members, FromCatalogs(members), NEW role, NEW answers, Dated(answers)
    PROVE  Orders(RanksOf(Listings(members, role), answers), Listings(members, role))
<1> DEFINE L == Listings(members, role)
           A(x) == StateRank(x.url, answers)
           M(x) == Modified(x.url, answers)
           N(x, y) == <<x.row, y.row>> \in NamesOf(members)
<1>1. ASSUME NEW x \in L
      PROVE  A(x) \in Int /\ M(x) \in Int /\ x.row \in members
  <2>1. x \in ListingsOf(members, role)
    BY ListingsAre
  <2> QED
    BY <2>1, StateRankIs, ModifiedIs, ListingIs
<1>2. ASSUME NEW x \in L, NEW y \in L
      PROVE  <<x, y>> \in RanksOf(L, answers) <=> RankOrder(A(x), M(x), A(y), M(y), N(x, y))
  <2>1. NameBefore(x.row, y.row) <=> N(x, y)
    BY <1>1 DEF NamesOf
  <2>2. <<x, y>> \in RanksOf(L, answers) <=> RankedBefore(x, y, answers)
    <3> HIDE DEF L
    <3> QED
      BY DEF RanksOf
  <2> QED
    BY <2>1, <2>2 DEF RankedBefore, StateRank, RankOrder
<1>3. Orders(NamesOf(members), members)
  BY NamesAreOrdered
<1>4. \A x, y \in L : x.row = y.row => x = y
  BY ListingsAre, ListingsDiffer
<1>5. ASSUME NEW x \in L, NEW y \in L, NEW z \in L
      PROVE  /\ ~N(x, x)
             /\ x = y \/ N(x, y) \/ N(y, x)
             /\ N(x, y) /\ N(y, z) => N(x, z)
  <2>1. x.row \in members /\ y.row \in members /\ z.row \in members
    BY <1>1
  <2> HIDE DEF L
  <2> QED
    BY <1>3, <1>4, <2>1 DEF Orders
<1> HIDE DEF L, A, M, N
<1>6. \A x \in L : <<x, x>> \notin RanksOf(L, answers)
  BY <1>1, <1>2, <1>5 DEF RankOrder
<1>7. ASSUME NEW x \in L, NEW y \in L
      PROVE  x = y \/ <<x, y>> \in RanksOf(L, answers) \/ <<y, x>> \in RanksOf(L, answers)
  BY <1>1, <1>2, <1>5 DEF RankOrder
<1>8. ASSUME NEW x \in L, NEW y \in L, NEW z \in L,
             <<x, y>> \in RanksOf(L, answers), <<y, z>> \in RanksOf(L, answers)
      PROVE  <<x, z>> \in RanksOf(L, answers)
  <2>1. RankOrder(A(x), M(x), A(y), M(y), N(x, y)) /\ RankOrder(A(y), M(y), A(z), M(z), N(y, z))
    BY <1>2, <1>8
  <2>2. RankOrder(A(x), M(x), A(z), M(z), N(x, z))
    BY <1>1, <1>5, <2>1 DEF RankOrder
  <2> QED
    BY <1>2, <2>2
<1>9. Orders(RanksOf(L, answers), L)
  BY <1>6, <1>7, <1>8 DEF Orders
<1> QED
  BY <1>9 DEF L

(* Every listing has its one place, and the first is behind none.          *)
RankedWell(ranked, listings, answers) ==
    /\ DOMAIN ranked = 1 .. Cardinality(listings)
    /\ \A i \in DOMAIN ranked : ranked[i] \in listings
    /\ \A i, j \in DOMAIN ranked : ranked[i] = ranked[j] => i = j
    /\ \A x \in listings : \E i \in DOMAIN ranked : ranked[i] = x
    /\ listings # {} => /\ 1 \in DOMAIN ranked
                        /\ \A x \in listings : ~RankedBefore(x, ranked[1], answers)

LEMMA RankedAre ==
    ASSUME NEW listings, IsFiniteSet(listings), NEW answers,
           Orders(RanksOf(listings, answers), listings)
    PROVE  RankedWell(Ranked(listings, answers), listings, answers)
<1> DEFINE ranked == Ranked(listings, answers)
           R == RanksOf(listings, answers)
           n == Cardinality(listings)
           Place(x) == Cardinality(InFront(R, listings, x))
<1>1. HasPlaces(R, listings)
  BY PlacesOfOrder
<1>2. \A x \in listings :
        {y \in listings : RankedBefore(y, x, answers)} = InFront(R, listings, x)
  BY DEF InFront, RanksOf
<1>3. n \in Nat
  BY FS_CardinalityType
<1>4. DOMAIN ranked = 1 .. n
  BY DEF Ranked
<1>5. ASSUME NEW i \in 1 .. n
      PROVE  ranked[i] \in listings /\ Place(ranked[i]) = i - 1
  <2>1. ranked[i] = CHOOSE x \in listings :
            Cardinality({y \in listings : RankedBefore(y, x, answers)}) = i - 1
    BY DEF Ranked
  <2>2. \E x \in listings :
            Cardinality({y \in listings : RankedBefore(y, x, answers)}) = i - 1
    BY <1>1, <1>2 DEF HasPlaces
  <2>3. /\ ranked[i] \in listings
        /\ Cardinality({y \in listings : RankedBefore(y, ranked[i], answers)}) = i - 1
    BY <2>1, <2>2
  <2> QED
    BY <1>2, <2>3
<1> HIDE DEF ranked, n
<1>6. ASSUME NEW i \in 1 .. n, NEW j \in 1 .. n, ranked[i] = ranked[j]
      PROVE  i = j
  <2> HIDE DEF Place
  <2>1. Place(ranked[i]) = i - 1 /\ Place(ranked[j]) = j - 1
    BY <1>5
  <2>2. i - 1 = j - 1
    BY <1>6, <2>1
  <2> QED
    BY <1>3, <2>2
<1>7. ASSUME NEW x \in listings PROVE \E i \in 1 .. n : ranked[i] = x
  <2>1. Place(x) \in 0 .. n - 1
    BY <1>1 DEF HasPlaces, n
  <2> DEFINE i == Place(x) + 1
  <2>2. i \in 1 .. n /\ i - 1 = Place(x)
    <3> HIDE DEF Place
    <3> QED
      BY <1>3, <2>1
  <2>3. ranked[i] \in listings /\ Place(ranked[i]) = Place(x)
    <3> HIDE DEF i
    <3> QED
      BY <1>5, <2>2
  <2>4. ranked[i] = x
    <3> HIDE DEF i
    <3> QED
      BY <1>1, <2>3 DEF HasPlaces
  <2> QED
    BY <2>2, <2>4
<1>8. ASSUME listings # {}
      PROVE  1 \in 1 .. n /\ \A x \in listings : ~RankedBefore(x, ranked[1], answers)
  <2>1. n # 0
    BY <1>8, FS_EmptySet DEF n
  <2>2. 1 \in 1 .. n /\ 1 - 1 = 0
    BY <1>3, <2>1
  <2>3. ranked[1] \in listings /\ Place(ranked[1]) = 0
    BY <1>5, <2>2
  <2>4. InFront(R, listings, ranked[1]) = {}
    <3>1. InFront(R, listings, ranked[1]) \subseteq listings
      BY DEF InFront
    <3>2. IsFiniteSet(InFront(R, listings, ranked[1]))
      BY <3>1, FS_Subset
    <3> QED
      BY <2>3, <3>2, FS_EmptySet
  <2> QED
    BY <1>2, <2>2, <2>3, <2>4
<1> QED
  BY <1>4, <1>5, <1>6, <1>7, <1>8 DEF RankedWell, ranked, n

-----------------------------------------------------------------------------
(* What a feed is made of                                                  *)

FeedRoles(members) == UNION {DOMAIN r.urls : r \in members}

RankedOf(members, role, answers) == Ranked(Listings(members, role), answers)

StatesOf(members, role, answers) ==
    {UrlState(RankedOf(members, role, answers)[i].url, answers) :
        i \in DOMAIN RankedOf(members, role, answers)}

NeedsKey(url, answers) ==
    /\ ResultKey(url) \in DOMAIN answers
    /\ answers[ResultKey(url)].class = "auth_required"

FeedIsBuilt(f, members, answers) ==
    /\ f.members = Ids(members)
    /\ DOMAIN f.urls = FeedRoles(members)
    /\ \A role \in FeedRoles(members) :
        f.urls[role] = [i \in DOMAIN RankedOf(members, role, answers) |->
                            RankedOf(members, role, answers)[i].url]
    /\ \A role \in FeedRoles(members) :
        f.roleState[role] = AnyUp(StatesOf(members, role, answers))
    /\ f.state = AllUp(UNION {StatesOf(members, role, answers) :
                                role \in FeedRoles(members)})
    /\ \A role \in f.authRoles :
        /\ role \in FeedRoles(members)
        /\ \A i \in DOMAIN RankedOf(members, role, answers) :
            NeedsKey(RankedOf(members, role, answers)[i].url, answers)

LEMMA BuildsFeed ==
    ASSUME NEW members, NEW answers
    PROVE  FeedIsBuilt(BuildFeed(members, answers), members, answers)
<1> DEFINE roles == FeedRoles(members)
           ranked == [role \in roles |-> RankedOf(members, role, answers)]
           states == [role \in roles |->
                {UrlState(ranked[role][i].url, answers) : i \in DOMAIN ranked[role]}]
           f == BuildFeed(members, answers)
<1>1. f = [members |-> Ids(members),
           urls |-> [role \in roles |->
                        [i \in DOMAIN ranked[role] |-> ranked[role][i].url]],
           roleState |-> [role \in roles |-> AnyUp(states[role])],
           state |-> AllUp(UNION {states[role] : role \in roles}),
           authRoles |-> {role \in roles : \A i \in DOMAIN ranked[role] :
                            NeedsKey(ranked[role][i].url, answers)}]
  BY DEF BuildFeed, FeedRoles, RankedOf, NeedsKey
<1>2. \A role \in roles : ranked[role] = RankedOf(members, role, answers)
  OBVIOUS
<1>3. \A role \in roles : states[role] = StatesOf(members, role, answers)
  BY DEF StatesOf
<1>4. {states[role] : role \in roles} = {StatesOf(members, role, answers) : role \in roles}
  BY <1>3
<1> HIDE DEF roles, ranked, states, f
<1>5. /\ f.members = Ids(members) /\ DOMAIN f.urls = roles
      /\ \A role \in roles :
            /\ f.urls[role] = [i \in DOMAIN ranked[role] |-> ranked[role][i].url]
            /\ f.roleState[role] = AnyUp(states[role])
      /\ f.state = AllUp(UNION {states[role] : role \in roles})
      /\ \A role \in f.authRoles : role \in roles /\
            \A i \in DOMAIN ranked[role] : NeedsKey(ranked[role][i].url, answers)
  BY <1>1
<1>6. FeedIsBuilt(f, members, answers)
  <2>1. /\ f.members = Ids(members)
        /\ DOMAIN f.urls = FeedRoles(members)
    BY <1>5 DEF roles
  <2>2. ASSUME NEW role \in FeedRoles(members)
        PROVE  /\ f.urls[role] = [i \in DOMAIN RankedOf(members, role, answers) |->
                                    RankedOf(members, role, answers)[i].url]
               /\ f.roleState[role] = AnyUp(StatesOf(members, role, answers))
    <3>1. role \in roles
      BY DEF roles
    <3> QED
      BY <1>2, <1>3, <1>5, <3>1
  <2>3. f.state = AllUp(UNION {StatesOf(members, role, answers) :
                                role \in FeedRoles(members)})
    BY <1>4, <1>5 DEF roles
  <2>4. ASSUME NEW role \in f.authRoles
        PROVE  /\ role \in FeedRoles(members)
               /\ \A i \in DOMAIN RankedOf(members, role, answers) :
                    NeedsKey(RankedOf(members, role, answers)[i].url, answers)
    <3>1. role \in roles
      BY <1>5
    <3>2. ranked[role] = RankedOf(members, role, answers)
      BY <1>2, <3>1
    <3> QED
      BY <1>5, <3>1, <3>2 DEF roles
  <2> QED
    BY <2>1, <2>2, <2>3, <2>4 DEF FeedIsBuilt
<1> QED
  BY <1>6 DEF f

(* What the list of a role is, of a role that some member has.             *)
LEMMA RankedOfRole ==
    ASSUME NEW members, FromCatalogs(members), NEW answers, Dated(answers),
           NEW role \in FeedRoles(members)
    PROVE  /\ RankedWell(RankedOf(members, role, answers), Listings(members, role), answers)
           /\ Listings(members, role) # {}
<1>1. IsFiniteSet(Listings(members, role))
  BY ListingsAreFinite DEF FromCatalogs, RowsAre
<1>2. Orders(RanksOf(Listings(members, role), answers), Listings(members, role))
  BY RanksAreOrdered
<1>3. RankedWell(RankedOf(members, role, answers), Listings(members, role), answers)
  BY <1>1, <1>2, RankedAre DEF RankedOf
<1>4. PICK r \in members : role \in DOMAIN r.urls
  BY DEF FeedRoles
<1>5. [url |-> r.urls[role], row |-> r] \in ListingsOf(members, role)
  BY <1>4 DEF ListingsOf
<1> QED
  BY <1>3, <1>5, FormsAreListed

(* The states of a role are those of its members' URLs, since a URL that   *)
(* is not listed itself is in another spelling.                            *)
LEMMA StatesAre ==
    ASSUME NEW members, FromCatalogs(members), NEW answers, Dated(answers),
           NEW role \in FeedRoles(members)
    PROVE  StatesOf(members, role, answers) =
            {UrlState(r.urls[role], answers) : r \in {r \in members : role \in DOMAIN r.urls}}
<1> DEFINE having == {r \in members : role \in DOMAIN r.urls}
           L == Listings(members, role)
           ranked == RankedOf(members, role, answers)
<1>1. RankedWell(ranked, L, answers)
  BY RankedOfRole
<1>2. \A u, v : ResultKey(u) = ResultKey(v) => UrlState(u, answers) = UrlState(v, answers)
  BY DEF UrlState
<1>3. ASSUME NEW i \in DOMAIN ranked
      PROVE  \E r \in having : UrlState(ranked[i].url, answers) = UrlState(r.urls[role], answers)
  <2>1. ranked[i] \in ListingsOf(members, role)
    BY <1>1, ListingsAre DEF RankedWell
  <2> QED
    BY <2>1, ListingIs
<1>4. ASSUME NEW r \in having
      PROVE  \E i \in DOMAIN ranked :
                UrlState(ranked[i].url, answers) = UrlState(r.urls[role], answers)
  <2> DEFINE y == [url |-> r.urls[role], row |-> r]
  <2>1. y \in ListingsOf(members, role) /\ y.url = r.urls[role]
    BY DEF ListingsOf
  <2>2. PICK x \in L : ResultKey(x.url) = ResultKey(y.url)
    BY <2>1, FormsAreListed
  <2>3. PICK i \in DOMAIN ranked : ranked[i] = x
    BY <1>1 DEF RankedWell
  <2> QED
    BY <1>2, <2>1, <2>2, <2>3
<1> HIDE DEF having, ranked
<1>5. {UrlState(ranked[i].url, answers) : i \in DOMAIN ranked} =
        {UrlState(r.urls[role], answers) : r \in having}
  BY <1>3, <1>4
<1> QED
  BY <1>5 DEF having, ranked, StatesOf

(* A row is down if one of its URLs is, and up if one is and none is down. *)
LEMMA FoldIs ==
    ASSUME NEW row, NEW answers
    PROVE  /\ Fold(row, answers) = "down" <=>
                \E u \in Urls(row) : UrlState(u, answers) = "down"
           /\ Fold(row, answers) = "up" <=>
                /\ \E u \in Urls(row) : UrlState(u, answers) = "up"
                /\ \A u \in Urls(row) : UrlState(u, answers) # "down"
<1> DEFINE keys == {k \in {ResultKey(u) : u \in Urls(row)} :
                        k \in DOMAIN answers /\ ~answers[k].skipped}
           checks == {answers[k] : k \in keys}
           urls == {u \in Urls(row) : ResultKey(u) \in keys}
<1>1. Fold(row, answers) = IF checks = {} THEN "unknown"
                           ELSE IF \A c \in checks : c.ok THEN "up" ELSE "down"
  BY DEF Fold
<1>2. \A u \in Urls(row) : ResultKey(u) \in keys <=>
        ResultKey(u) \in DOMAIN answers /\ ~answers[ResultKey(u)].skipped
  OBVIOUS
<1>3. \A u \in Urls(row) :
        /\ ResultKey(u) \notin keys => UrlState(u, answers) = "unknown"
        /\ ResultKey(u) \in keys => UrlState(u, answers) =
                IF answers[ResultKey(u)].ok THEN "up" ELSE "down"
  BY <1>2 DEF UrlState
<1>4. checks = {answers[ResultKey(u)] : u \in urls}
  OBVIOUS
<1>5. \A u \in Urls(row) : u \in urls <=> ResultKey(u) \in keys
  OBVIOUS
<1> HIDE DEF keys, checks, urls
<1>6. urls \subseteq Urls(row)
  BY DEF urls
<1>7. (\E c \in checks : ~c.ok) <=> \E u \in Urls(row) : UrlState(u, answers) = "down"
  BY <1>3, <1>4, <1>5, <1>6
<1>8. (\E c \in checks : c.ok) <=> \E u \in Urls(row) : UrlState(u, answers) = "up"
  BY <1>3, <1>4, <1>5, <1>6
<1> QED
  BY <1>1, <1>7, <1>8

StatesOfRows(members, answers) ==
    UNION {StatesOf(members, role, answers) : role \in FeedRoles(members)}

LEMMA StatesOfRowsAre ==
    ASSUME NEW members, FromCatalogs(members), NEW answers, Dated(answers), NEW s
    PROVE  s \in StatesOfRows(members, answers) <=>
            \E r \in members : \E u \in Urls(r) : UrlState(u, answers) = s
<1>1. ASSUME NEW role \in FeedRoles(members), s \in StatesOf(members, role, answers)
      PROVE  \E r \in members : \E u \in Urls(r) : UrlState(u, answers) = s
  <2>1. PICK r \in members : role \in DOMAIN r.urls /\ UrlState(r.urls[role], answers) = s
    BY <1>1, StatesAre
  <2> QED
    BY <2>1 DEF Urls
<1>2. ASSUME NEW r \in members, NEW u \in Urls(r), UrlState(u, answers) = s
      PROVE  s \in StatesOfRows(members, answers)
  <2>1. PICK role \in DOMAIN r.urls : u = r.urls[role]
    BY DEF Urls
  <2>2. role \in FeedRoles(members)
    BY <2>1 DEF FeedRoles
  <2>3. s \in StatesOf(members, role, answers)
    BY <1>2, <2>1, <2>2, StatesAre
  <2> QED
    BY <2>2, <2>3 DEF StatesOfRows
<1> QED
  BY <1>1, <1>2 DEF StatesOfRows

(* The state of a feed and the states of its rows.                         *)
LEMMA FeedStateIs ==
    ASSUME NEW members, FromCatalogs(members), NEW answers, Dated(answers)
    PROVE  LET states == {Fold(r, answers) : r \in members}
               whole == AllUp(StatesOfRows(members, answers))
           IN  /\ whole = "down" <=> "down" \in states
               /\ whole = "up" <=> "up" \in states /\ "down" \notin states
<1> DEFINE states == {Fold(r, answers) : r \in members}
           all == StatesOfRows(members, answers)
<1>1. \A s : s \in all <=> \E r \in members : \E u \in Urls(r) : UrlState(u, answers) = s
  BY StatesOfRowsAre
<1>2. "down" \in states <=> "down" \in all
  BY <1>1, FoldIs
<1>3. "up" \in states /\ "down" \notin states <=> "up" \in all /\ "down" \notin all
  BY <1>1, FoldIs
<1>4. all \subseteq {"up", "down", "unknown"}
  BY <1>1 DEF UrlState
<1> HIDE DEF all, states
<1>5. AllUp(all) = "down" <=> "down" \in all
  BY DEF AllUp
<1>6. AllUp(all) = "up" <=> "up" \in all /\ "down" \notin all
  BY <1>4 DEF AllUp
<1>7. /\ AllUp(all) = "down" <=> "down" \in states
      /\ AllUp(all) = "up" <=> "up" \in states /\ "down" \notin states
  BY <1>2, <1>3, <1>5, <1>6
<1> QED
  BY <1>7 DEF all, states

-----------------------------------------------------------------------------
(* Feeds and their rows                                                    *)

(* What the property asks of the URLs of a role.                           *)
RoleAgrees(urls, roleState, answers) ==
    /\ roleState = "up" <=> UrlState(urls[1], answers) = "up"
    /\ \A i \in DOMAIN urls :
        UrlState(urls[i], answers) = "up" =>
            /\ UrlState(urls[1], answers) = "up"
            /\ Modified(urls[i], answers) <= Modified(urls[1], answers)

LEMMA BestIsFirst ==
    ASSUME NEW members, FromCatalogs(members), NEW answers, Dated(answers),
           NEW role \in FeedRoles(members)
    PROVE  LET ranked == RankedOf(members, role, answers)
           IN  RoleAgrees([i \in DOMAIN ranked |-> ranked[i].url],
                          AnyUp(StatesOf(members, role, answers)), answers)
<1> DEFINE ranked == RankedOf(members, role, answers)
           urls == [i \in DOMAIN ranked |-> ranked[i].url]
           S == StatesOf(members, role, answers)
<1>1. RankedWell(ranked, Listings(members, role), answers)
  BY RankedOfRole
<1>2. Listings(members, role) # {}
  BY RankedOfRole
<1>3. S = {UrlState(ranked[i].url, answers) : i \in DOMAIN ranked}
  BY DEF StatesOf
<1> HIDE DEF ranked, S
<1>4. 1 \in DOMAIN ranked /\ DOMAIN urls = DOMAIN ranked /\ urls[1] = ranked[1].url
  BY <1>1, <1>2 DEF RankedWell
<1>5. ASSUME NEW i \in DOMAIN ranked, UrlState(ranked[i].url, answers) = "up"
      PROVE  /\ UrlState(ranked[1].url, answers) = "up"
             /\ Modified(ranked[i].url, answers) <= Modified(ranked[1].url, answers)
  <2> DEFINE a == StateRank(ranked[i].url, answers)
             b == StateRank(ranked[1].url, answers)
             m == Modified(ranked[i].url, answers)
             n == Modified(ranked[1].url, answers)
  <2>1. ~RankedBefore(ranked[i], ranked[1], answers)
    BY <1>1, <1>2 DEF RankedWell
  <2>2. ~(a < b) /\ ~(a = b /\ m > n)
    BY <2>1 DEF RankedBefore, StateRank
  <2>3. a = 0 /\ b \in Int /\ m \in Int /\ n \in Int
    BY <1>5, StateRankIs, ModifiedIs
  <2>4. UrlState(ranked[1].url, answers) = "up" => b = 0
    BY StateRankIs
  <2>5. UrlState(ranked[1].url, answers) # "up" => b > 0
    BY StateRankIs
  <2> HIDE DEF a, b, m, n
  <2>6. UrlState(ranked[1].url, answers) = "up" /\ m <= n
    BY <2>2, <2>3, <2>4, <2>5
  <2> QED
    BY <2>6 DEF m, n
<1>6. AnyUp(S) = "up" <=> "up" \in S
  BY DEF AnyUp
<1>7. "up" \in S <=> UrlState(ranked[1].url, answers) = "up"
  BY <1>3, <1>4, <1>5
<1>8. \A i \in DOMAIN urls : urls[i] = ranked[i].url
  OBVIOUS
<1> HIDE DEF urls
<1>9. RoleAgrees(urls, AnyUp(S), answers)
  BY <1>4, <1>5, <1>6, <1>7, <1>8 DEF RoleAgrees
<1> QED
  BY <1>9 DEF urls, ranked, S

LEMMA OnceEach ==
    ASSUME NEW members, FromCatalogs(members), NEW answers, Dated(answers),
           NEW r \in members, NEW role \in DOMAIN r.urls, NEW urls,
           urls = [i \in DOMAIN RankedOf(members, role, answers) |->
                        RankedOf(members, role, answers)[i].url]
    PROVE  Cardinality({i \in DOMAIN urls :
                ResultKey(urls[i]) = ResultKey(r.urls[role])}) = 1
<1> DEFINE ranked == RankedOf(members, role, answers)
           y == [url |-> r.urls[role], row |-> r]
           places == {i \in DOMAIN urls : ResultKey(urls[i]) = ResultKey(r.urls[role])}
<1>1. role \in FeedRoles(members)
  BY DEF FeedRoles
<1>2. RankedWell(ranked, Listings(members, role), answers)
  BY <1>1, RankedOfRole
<1>3. y \in ListingsOf(members, role) /\ y.url = r.urls[role]
  BY DEF ListingsOf
<1> HIDE DEF ranked, y
<1>4. PICK x \in Listings(members, role) : ResultKey(x.url) = ResultKey(y.url)
  BY <1>3, FormsAreListed
<1>5. \A z \in Listings(members, role) : ResultKey(z.url) = ResultKey(x.url) => z = x
  BY <1>3, FormsAreListed
<1>6. PICK i \in DOMAIN ranked : ranked[i] = x
  BY <1>2 DEF RankedWell
<1>7. DOMAIN urls = DOMAIN ranked /\ \A j \in DOMAIN ranked : urls[j] = ranked[j].url
  BY DEF ranked
<1>8. i \in places
  BY <1>3, <1>4, <1>6, <1>7
<1>9. ASSUME NEW j \in places PROVE j = i
  <2>1. j \in DOMAIN ranked /\ ResultKey(ranked[j].url) = ResultKey(x.url)
    BY <1>3, <1>4, <1>7
  <2>2. ranked[j] = x
    BY <1>2, <1>5, <2>1 DEF RankedWell
  <2> QED
    BY <1>2, <1>6, <2>1, <2>2 DEF RankedWell
<1>10. places = {i}
  BY <1>8, <1>9
<1> HIDE DEF places
<1>11. Cardinality(places) = 1
  BY <1>10, FS_Singleton
<1> QED
  BY <1>11 DEF places

(* The rows of a role that is said to need a key all do.                   *)
LEMMA KeysAreNeeded ==
    ASSUME EveryUrlIsDecided, Checked,
           \A k \in DOMAIN results : results[k].class = "auth_required" => results[k].skipped,
           NEW members \in SUBSET sources, FromCatalogs(members), Dated(results),
           NEW r \in members, NEW role \in DOMAIN r.urls,
           \A i \in DOMAIN RankedOf(members, role, results) :
                NeedsKey(RankedOf(members, role, results)[i].url, results)
    PROVE  r.auth
<1> DEFINE ranked == RankedOf(members, role, results)
           y == [url |-> r.urls[role], row |-> r]
           u == r.urls[role]
           k == ResultKey(u)
<1>1. role \in FeedRoles(members)
  BY DEF FeedRoles
<1>2. RankedWell(ranked, Listings(members, role), results)
  BY <1>1, RankedOfRole
<1>3. y \in ListingsOf(members, role) /\ y.url = u
  BY DEF ListingsOf
<1>4. \A i \in DOMAIN ranked : NeedsKey(ranked[i].url, results)
  OBVIOUS
<1> HIDE DEF ranked, y
<1>5. PICK x \in Listings(members, role) : ResultKey(x.url) = ResultKey(y.url)
  BY <1>3, FormsAreListed
<1>6. NeedsKey(x.url, results)
  BY <1>2, <1>4, <1>5 DEF RankedWell
<1>7. k \in DOMAIN results /\ results[k].class = "auth_required" /\ results[k].skipped
  BY <1>3, <1>5, <1>6 DEF NeedsKey
<1>8. r \in sources /\ u \in Urls(r)
  BY DEF Urls
<1> DEFINE open == \E s \in sources : ~s.auth /\ \E v \in Urls(s) : v.key = k
<1>9. IF u.key = None
      THEN k \in DOMAIN results /\ results[k].class = "relative"
      ELSE IF ~open
      THEN k \in DOMAIN results /\ results[k].class = "auth_required"
      ELSE IF k \in DOMAIN results THEN ~results[k].skipped
      ELSE Cardinality({j \in DOMAIN results : ~results[j].skipped}) \in Limits \ {0}
  BY <1>8 DEF EveryUrlIsDecided
<1> HIDE DEF open
<1>10. u.key # None /\ ~open
  BY <1>7, <1>9
<1>11. k = u.key
  BY <1>10 DEF ResultKey
<1> QED
  BY <1>8, <1>10, <1>11 DEF open

LEMMA ResultsAreDated ==
    ASSUME AssetsInv, Checked
    PROVE  /\ Dated(results)
           /\ \A k \in DOMAIN results :
                results[k].class = "auth_required" => results[k].skipped
<1>1. PICK limit \in Limits : \E picked \in Checkable(sources, limit) :
        \E answer \in AnswersOf(picked) : results = ResultsOf(sources, picked, answer)
  BY DEF AssetsInv, ResultsInv
<1>2. PICK picked \in Checkable(sources, limit) :
        \E answer \in AnswersOf(picked) : results = ResultsOf(sources, picked, answer)
  BY <1>1
<1>3. PICK answer \in AnswersOf(picked) : results = ResultsOf(sources, picked, answer)
  BY <1>2
<1>4. RowsAre(sources)
  BY SourcesAre DEF AssetsInv
<1>5. picked \subseteq Targets(sources)
  BY <1>4, PickedAreTargets
<1>6. ASSUME NEW k \in picked PROVE answer[k].modified \in Nat
  <2>1. PICK s \in sources : \E v \in Urls(s) : v.key = k /\ k # None
    BY <1>5, TargetsAre
  <2>2. PICK v \in Urls(s) : v.key = k /\ k # None
    BY <2>1
  <2>3. v \in CatalogUrls
    BY <1>4, UrlsOfRows
  <2>4. k \in DOMAIN Answers
    BY <2>2, <2>3, UrlsAssumption
  <2>5. answer[k] \in [ok: BOOLEAN, modified: Nat]
    BY <2>4, IngestAssumption DEF AnswersOf
  <2> QED
    BY <2>5
<1>7. \A k \in DOMAIN Skips(sources) :
        Skips(sources)[k].modified = 0 /\ Skips(sources)[k].skipped = TRUE
  BY DEF Skips, Skipped
<1>8. ASSUME NEW k \in DOMAIN results
      PROVE  /\ results[k].modified \in Nat
             /\ results[k].class = "auth_required" => results[k].skipped
  <2>1. CASE k \in DOMAIN Skips(sources)
    <3>1. results[k] = Skips(sources)[k]
      BY <1>3, <2>1 DEF ResultsOf
    <3> QED
      BY <1>7, <2>1, <3>1
  <2>2. CASE k \notin DOMAIN Skips(sources)
    <3>1. k \in picked
      BY <1>3, <2>2 DEF ResultsOf
    <3> DEFINE a == answer[k].ok
               m == answer[k].modified
               none == ""
    <3>2. results[k] = [ok |-> a, skipped |-> FALSE, class |-> none, modified |-> m]
      BY <1>3, <2>2 DEF ResultsOf
    <3>3. none # "auth_required"
      BY Zenon
    <3> HIDE DEF a, m, none
    <3>4. results[k].modified = m /\ results[k].class # "auth_required"
      BY <3>2, <3>3
    <3> QED
      BY <1>6, <3>1, <3>4 DEF m
  <2> QED
    BY <2>1, <2>2
<1> QED
  BY <1>8 DEF Dated

LEMMA SourcesAreOfCatalogs ==
    ASSUME RunInv, Linked
    PROVE  FromCatalogs(sources)
<1>1. RowsAre(sources)
  BY SourcesAre
<1>2. CatalogRows
  BY DEF RunInv
<1>3. ASSUME NEW s \in sources PROVE s.catalog \in CatalogNames
  <2>1. PICK m \in Merged : s = Link(m, Merged) /\ IsRow(m)
    BY SourceIsLinked
  <2>2. s.catalog = m.catalog
    BY <2>1, LinkKeeps
  <2>3. m \in transitland \/ m \in mobility \/ m \in CuratedRows
    BY <1>2, MergedRowsAre
  <2>4. m.catalog \in CatalogNames
    BY <1>2, <2>3, CuratedRowsAre DEF CatalogRows, RowsOfCatalog, CatalogNames
  <2> QED
    BY <2>2, <2>4
<1> QED
  BY <1>1, <1>3 DEF FromCatalogs

LEMMA PartsOfCatalogs ==
    ASSUME NEW rows, FromCatalogs(rows), NEW members \in SUBSET rows
    PROVE  FromCatalogs(members)
BY FS_Subset DEF FromCatalogs, RowsAre, Unique

(* A feed is down just when one of its rows is, and up just when one is    *)
(* and none is down.  The URL that each role has first answers if any of   *)
(* its URLs does, and none that answers is newer; a role is said to need a *)
(* key only where each of its rows does; and every URL of every row is     *)
(* there once, in one spelling.                                            *)
THEOREM FeedsAreTrue == Spec => []FeedsAgreeWithRows
<1>1. ASSUME AssetsInv, EveryUrlIsDecided, stage = "done", NEW f \in feeds
      PROVE  LET members == {r \in sources : r.id \in f.members}
                 states == {Fold(r, results) : r \in members}
             IN  /\ f.state = "down" <=> "down" \in states
                 /\ f.state = "up" <=> "up" \in states /\ "down" \notin states
                 /\ \A role \in DOMAIN f.urls :
                     LET urls == f.urls[role]
                     IN  /\ f.roleState[role] = "up" <=>
                                UrlState(urls[1], results) = "up"
                         /\ \A i \in DOMAIN urls :
                             UrlState(urls[i], results) = "up" =>
                                 /\ UrlState(urls[1], results) = "up"
                                 /\ Modified(urls[i], results)
                                        <= Modified(urls[1], results)
                         /\ role \in f.authRoles =>
                             \A r \in members : role \in DOMAIN r.urls => r.auth
                 /\ \A r \in members : \A role \in DOMAIN r.urls :
                     Cardinality({i \in DOMAIN f.urls[role] :
                         ResultKey(f.urls[role][i]) = ResultKey(r.urls[role])}) = 1
  <2> DEFINE members == {r \in sources : r.id \in f.members}
             states == {Fold(r, results) : r \in members}
  <2>1. RunInv /\ Linked /\ Checked
    BY <1>1 DEF AssetsInv, Linked, Checked
  <2>2. PICK g \in GroupsOf(sources) : f = BuildFeed(g, results)
    BY <1>1 DEF AssetsInv, FeedsInv
  <2>3. FeedIsBuilt(f, g, results)
    BY <2>2, BuildsFeed
  <2>4. FromCatalogs(sources)
    BY <2>1, SourcesAreOfCatalogs
  <2>5. g \in SUBSET sources
    BY GroupsAreMembers
  <2>6. g = members
    BY <2>3, <2>4, <2>5 DEF FeedIsBuilt, Ids, FromCatalogs, RowsAre, Unique
  <2> HIDE DEF members
  <2>7. FromCatalogs(members) /\ members \in SUBSET sources
    BY <2>4, <2>5, <2>6, PartsOfCatalogs
  <2>8. FeedIsBuilt(f, members, results)
    BY <2>3, <2>6
  <2>9. /\ Dated(results)
        /\ \A k \in DOMAIN results :
            results[k].class = "auth_required" => results[k].skipped
    BY <1>1, <2>1, ResultsAreDated
  <2>10. /\ f.state = "down" <=> "down" \in states
         /\ f.state = "up" <=> "up" \in states /\ "down" \notin states
    <3>1. f.state = AllUp(StatesOfRows(members, results))
      BY <2>8 DEF FeedIsBuilt, StatesOfRows
    <3> QED
      BY <2>7, <2>9, <3>1, FeedStateIs
  <2>11. ASSUME NEW role \in DOMAIN f.urls
         PROVE  RoleAgrees(f.urls[role], f.roleState[role], results)
    <3>1. role \in FeedRoles(members)
      BY <2>8 DEF FeedIsBuilt
    <3> DEFINE ranked == RankedOf(members, role, results)
               urls == [i \in DOMAIN ranked |-> ranked[i].url]
    <3>2. f.urls[role] = urls
          /\ f.roleState[role] = AnyUp(StatesOf(members, role, results))
      BY <2>8, <3>1 DEF FeedIsBuilt
    <3>3. RoleAgrees(urls, AnyUp(StatesOf(members, role, results)), results)
      BY <2>7, <2>9, <3>1, BestIsFirst
    <3> HIDE DEF urls
    <3> QED
      BY <3>2, <3>3
  <2>12. ASSUME NEW role \in f.authRoles, NEW r \in members, role \in DOMAIN r.urls
         PROVE  r.auth
    <3>1. \A i \in DOMAIN RankedOf(members, role, results) :
            NeedsKey(RankedOf(members, role, results)[i].url, results)
      BY <2>8, <2>12 DEF FeedIsBuilt
    <3> QED
      BY <1>1, <2>1, <2>7, <2>9, <2>12, <3>1, KeysAreNeeded
  <2>13. ASSUME NEW r \in members, NEW role \in DOMAIN r.urls
         PROVE  Cardinality({i \in DOMAIN f.urls[role] :
                    ResultKey(f.urls[role][i]) = ResultKey(r.urls[role])}) = 1
    <3>1. role \in FeedRoles(members)
      BY DEF FeedRoles
    <3>2. f.urls[role] = [i \in DOMAIN RankedOf(members, role, results) |->
                            RankedOf(members, role, results)[i].url]
      BY <2>8, <3>1 DEF FeedIsBuilt
    <3> DEFINE urls == f.urls[role]
    <3> HIDE DEF urls
    <3>3. Cardinality({i \in DOMAIN urls :
                ResultKey(urls[i]) = ResultKey(r.urls[role])}) = 1
      BY <2>7, <2>9, <3>2, OnceEach DEF urls
    <3> QED
      BY <3>3 DEF urls
  <2> HIDE DEF states
  <2>14. ASSUME NEW role \in DOMAIN f.urls
         PROVE  LET urls == f.urls[role]
                IN  /\ f.roleState[role] = "up" <=> UrlState(urls[1], results) = "up"
                    /\ \A i \in DOMAIN urls :
                         UrlState(urls[i], results) = "up" =>
                             /\ UrlState(urls[1], results) = "up"
                             /\ Modified(urls[i], results)
                                    <= Modified(urls[1], results)
    BY <2>11 DEF RoleAgrees
  <2> QED
    BY <2>10, <2>12, <2>13, <2>14 DEF members, states
<1>2. AssetsInv /\ EveryUrlIsDecided => FeedsAgreeWithRows
  BY <1>1 DEF FeedsAgreeWithRows
<1> QED
  BY <1>2, AssetsAlways, UrlsAreDecided, PTL

-----------------------------------------------------------------------------
(* Where in the corpus the entries come from                               *)

EntryKinds == {"feeds", "operators"}

EntriesOf(kind) == IF kind = "feeds" THEN CorpusFeeds ELSE CorpusOperators

LEMMA FilesHaveEntries ==
    /\ Len(Corpus) \in Nat /\ TA!Files = 1 .. Len(Corpus)
    /\ \A f \in TA!Files, kind \in EntryKinds :
        /\ Corpus[f][kind] \in Seq(EntriesOf(kind))
        /\ Len(Corpus[f][kind]) \in Nat
        /\ DOMAIN Corpus[f][kind] = 1 .. Len(Corpus[f][kind])
<1>1. Len(Corpus) \in Nat /\ TA!Files = 1 .. Len(Corpus)
  BY CorpusAssumption DEF TA!Files
<1>2. ASSUME NEW f \in TA!Files, NEW kind \in EntryKinds
      PROVE  Corpus[f][kind] \in Seq(EntriesOf(kind))
  BY CorpusAssumption DEF TA!Files, EntryKinds, EntriesOf
<1> QED
  BY <1>1, <1>2, LenProperties

(* Of documents whose files are read in order, R is those that were.       *)
OfFiles(documents, R) ==
    /\ Len(documents) \in Nat
    /\ \A i \in 1 .. Len(documents) :
        /\ documents[i].file \in TA!Files
        /\ documents[i].dmfr = IF documents[i].file \in R
                               THEN Corpus[documents[i].file] ELSE TA!EmptyDocument
    /\ \A i, j \in 1 .. Len(documents) :
        i < j => documents[i].file < documents[j].file
    /\ \A f \in R : \E i \in 1 .. Len(documents) : documents[i].file = f

Earlier(p, q) == p[1] < q[1] \/ (p[1] = q[1] /\ p[2] < q[2])

(* Each entry of s comes from its place in a file of R, all of them do, in *)
(* the order of the files.                                                 *)
Traced(s, from, kind, R) ==
    /\ DOMAIN from = 1 .. Len(s)
    /\ \A k \in 1 .. Len(s) :
        /\ from[k] \in R \X Nat
        /\ from[k][2] \in 1 .. Len(Corpus[from[k][1]][kind])
        /\ s[k] = Corpus[from[k][1]][kind][from[k][2]]
    /\ \A k, l \in 1 .. Len(s) : k < l => Earlier(from[k], from[l])
    /\ \A f \in R : \A j \in 1 .. Len(Corpus[f][kind]) :
        \E k \in 1 .. Len(s) : from[k] = <<f, j>>

LEMMA NothingIsTraced ==
    ASSUME NEW kind
    PROVE  \E from : Traced(<<>>, from, kind, {})
<1> DEFINE from == [k \in {} |-> 0]
<1>1. Len(<<>>) = 0 /\ 1 .. 0 = {} /\ DOMAIN from = {}
  OBVIOUS
<1> HIDE DEF from
<1>2. Traced(<<>>, from, kind, {})
  BY <1>1 DEF Traced
<1> QED
  BY <1>2

LEMMA TraceGrows ==
    ASSUME NEW kind, NEW S, NEW s \in Seq(S), NEW from, NEW R \in SUBSET Nat,
           Traced(s, from, kind, R),
           NEW f \in Nat, \A g \in R : g < f, Corpus[f][kind] \in Seq(S)
    PROVE  \E longer : Traced(s \o Corpus[f][kind], longer, kind, R \cup {f})
<1> DEFINE t == Corpus[f][kind]
           a == Len(s)
           b == Len(t)
           st == s \o t
           longer == [k \in 1 .. a + b |-> IF k <= a THEN from[k] ELSE <<f, k - a>>]
<1>1. a \in Nat /\ b \in Nat
  BY LenProperties
<1>2. /\ Len(st) = a + b
      /\ \A k \in 1 .. a + b : st[k] = IF k <= a THEN s[k] ELSE t[k - a]
  BY ConcatProperties
<1>3. f \notin R
  <2> SUFFICES ASSUME f \in R PROVE FALSE
    OBVIOUS
  <2>1. f < f
    OBVIOUS
  <2> QED
    BY <2>1
<1>4. /\ \A k \in 1 .. a :
            /\ from[k] \in R \X Nat
            /\ from[k][2] \in 1 .. Len(Corpus[from[k][1]][kind])
            /\ s[k] = Corpus[from[k][1]][kind][from[k][2]]
      /\ \A k, l \in 1 .. a : k < l => Earlier(from[k], from[l])
      /\ \A g \in R : \A j \in 1 .. Len(Corpus[g][kind]) :
            \E k \in 1 .. a : from[k] = <<g, j>>
  BY DEF Traced
<1> HIDE DEF a, b, st
<1>5. ASSUME NEW k \in 1 .. a + b
      PROVE  \/ k \in 1 .. a /\ longer[k] = from[k] /\ st[k] = s[k]
             \/ /\ k > a /\ k - a \in 1 .. b
                /\ longer[k] = <<f, k - a>> /\ st[k] = t[k - a]
  BY <1>1, <1>2
<1>6. ASSUME NEW j \in 1 .. b
      PROVE  a + j \in 1 .. a + b /\ longer[a + j] = <<f, j>>
  <2>1. a + j \in 1 .. a + b /\ ~(a + j <= a) /\ (a + j) - a = j
    BY <1>1
  <2> QED
    BY <2>1
<1>7. DOMAIN longer = 1 .. a + b /\ \A k \in 1 .. a : k \in 1 .. a + b /\ longer[k] = from[k]
  BY <1>1
<1> HIDE DEF longer
<1>8. ASSUME NEW k \in 1 .. a + b
      PROVE  /\ longer[k] \in (R \cup {f}) \X Nat
             /\ longer[k][2] \in 1 .. Len(Corpus[longer[k][1]][kind])
             /\ st[k] = Corpus[longer[k][1]][kind][longer[k][2]]
  <2>1. CASE k \in 1 .. a /\ longer[k] = from[k] /\ st[k] = s[k]
    <3>1. from[k] \in (R \cup {f}) \X Nat
      BY <1>4, <2>1
    <3> QED
      BY <1>4, <2>1, <3>1
  <2>2. CASE k > a /\ k - a \in 1 .. b /\ longer[k] = <<f, k - a>> /\ st[k] = t[k - a]
    <3>1. k - a \in Nat /\ k - a \in 1 .. Len(Corpus[f][kind])
      BY <2>2, <1>1 DEF b
    <3>2. longer[k][1] = f /\ longer[k][2] = k - a
      BY <2>2
    <3>3. longer[k] \in (R \cup {f}) \X Nat
      BY <2>2, <3>1
    <3>4. st[k] = Corpus[f][kind][k - a]
      BY <2>2
    <3> QED
      BY <3>1, <3>2, <3>3, <3>4
  <2> QED
    BY <1>5, <2>1, <2>2
<1>9. ASSUME NEW k \in 1 .. a + b, NEW l \in 1 .. a + b, k < l
      PROVE  Earlier(longer[k], longer[l])
  <2>1. CASE l \in 1 .. a
    <3>1. k \in 1 .. a
      BY <1>1, <1>9, <2>1
    <3> QED
      BY <1>4, <1>7, <1>9, <2>1, <3>1
  <2>2. CASE k \in 1 .. a /\ l > a
    <3>1. longer[k] = from[k]
      BY <1>7, <2>2
    <3>2. from[k] \in R \X Nat
      BY <1>4, <2>2
    <3>3. longer[l] = <<f, l - a>>
      BY <1>1, <1>5, <2>2
    <3>4. longer[l][1] = f
      BY <3>3
    <3>5. from[k][1] < f
      BY <3>2
    <3> QED
      BY <3>1, <3>4, <3>5 DEF Earlier
  <2>3. CASE k > a
    <3>1. longer[k] = <<f, k - a>> /\ longer[l] = <<f, l - a>>
      BY <1>1, <1>5, <1>9, <2>3
    <3>2. k - a < l - a
      BY <1>1, <1>9
    <3> QED
      BY <3>1, <3>2 DEF Earlier
  <2> QED
    BY <1>1, <2>1, <2>2, <2>3
<1>10. ASSUME NEW g \in R \cup {f}, NEW j \in 1 .. Len(Corpus[g][kind])
       PROVE  \E k \in 1 .. a + b : longer[k] = <<g, j>>
  <2>1. CASE g \in R
    <3>1. PICK k \in 1 .. a : from[k] = <<g, j>>
      BY <1>4, <2>1
    <3>2. k \in 1 .. a + b /\ longer[k] = from[k]
      BY <1>7
    <3> QED
      BY <3>1, <3>2
  <2>2. CASE g = f
    <3>1. j \in 1 .. b
      BY <2>2 DEF b
    <3> QED
      BY <1>6, <2>2, <3>1
  <2> QED
    BY <2>1, <2>2
<1>11. Traced(st, longer, kind, R \cup {f})
  <2>1. Len(st) = a + b /\ DOMAIN longer = 1 .. a + b
    BY <1>2, <1>7
  <2> DEFINE U == R \cup {f}
             size == a + b
  <2>2. \A k \in 1 .. size :
            /\ longer[k] \in U \X Nat
            /\ longer[k][2] \in 1 .. Len(Corpus[longer[k][1]][kind])
            /\ st[k] = Corpus[longer[k][1]][kind][longer[k][2]]
    BY <1>8
  <2>3. \A k, l \in 1 .. size : k < l => Earlier(longer[k], longer[l])
    BY <1>9
  <2>4. \A g \in U : \A j \in 1 .. Len(Corpus[g][kind]) :
            \E k \in 1 .. size : longer[k] = <<g, j>>
    BY <1>10
  <2>5. Len(st) = size /\ DOMAIN longer = 1 .. size
    BY <2>1
  <2> HIDE DEF U, size
  <2>6. Traced(st, longer, kind, U)
    BY <2>2, <2>3, <2>4, <2>5 DEF Traced
  <2> QED
    BY <2>6 DEF U
<1> QED
  BY <1>11 DEF st

(* Every entry of the documents can be traced.                             *)
LEMMA AllIsTraced ==
    ASSUME NEW documents, NEW R \in SUBSET TA!Files, OfFiles(documents, R),
           NEW kind \in EntryKinds
    PROVE  /\ TA!All(documents, kind) \in Seq(EntriesOf(kind))
           /\ \E from : Traced(TA!All(documents, kind), from, kind, R)
<1> DEFINE n == Len(documents)
           S == EntriesOf(kind)
           Until(i) == {f \in R : \E j \in 1 .. i : documents[j].file = f}
<1>1. n \in Nat /\ R \subseteq Nat
  BY FilesHaveEntries DEF OfFiles
<1>2. ASSUME NEW i \in 1 .. n
      PROVE  /\ documents[i].dmfr[kind] \in Seq(S)
             /\ documents[i].file \in Nat
             /\ documents[i].file \notin R => documents[i].dmfr[kind] = <<>>
             /\ documents[i].file \in R =>
                    documents[i].dmfr[kind] = Corpus[documents[i].file][kind]
  <2> DEFINE d == documents[i].dmfr
             f == documents[i].file
  <2>1. TA!EmptyDocument[kind] = <<>> /\ <<>> \in Seq(S)
    BY EmptySeq DEF TA!EmptyDocument, EntryKinds
  <2>2. f \in TA!Files /\ d = IF f \in R THEN Corpus[f] ELSE TA!EmptyDocument
    BY DEF OfFiles
  <2>3. f \in Nat /\ Corpus[f][kind] \in Seq(S)
    BY <2>2, FilesHaveEntries
  <2> HIDE DEF d, f, S
  <2>4. /\ d[kind] \in Seq(S)
        /\ f \notin R => d[kind] = <<>>
        /\ f \in R => d[kind] = Corpus[f][kind]
    BY <2>1, <2>2, <2>3
  <2> QED
    BY <2>3, <2>4 DEF d, f
<1>3. PICK acc \in [0 .. n -> Seq(S)] : Concatenates(acc, documents, kind, n)
  BY <1>1, <1>2, AllSteps
<1>4. ASSUME NEW i \in 1 .. n, NEW j \in 1 .. n, i < j
      PROVE  documents[i].file < documents[j].file
  BY <1>4 DEF OfFiles
<1> HIDE DEF n, S
<1>5. /\ acc[0] = <<>> /\ acc[n] = TA!All(documents, kind)
      /\ \A i \in 1 .. n : acc[i] = acc[i - 1] \o documents[i].dmfr[kind]
  BY <1>3 DEF Concatenates
<1> DEFINE G == {i \in 0 .. n : \E from : Traced(acc[i], from, kind, Until(i))}
<1>6. 0 \in G
  <2>1. Until(0) = {} /\ 0 \in 0 .. n
    BY <1>1
  <2> QED
    BY <1>5, <2>1, NothingIsTraced
<1>7. ASSUME NEW i \in 0 .. n - 1, i \in G PROVE i + 1 \in G
  <2> DEFINE f == documents[i + 1].file
  <2>1. /\ i + 1 \in 0 .. n /\ i + 1 \in 1 .. n /\ (i + 1) - 1 = i /\ i \in 0 .. n
        /\ \A j \in 1 .. i + 1 : (j = i + 1 \/ j \in 1 .. i)
        /\ \A j \in 1 .. i : j \in 1 .. i + 1 /\ j \in 1 .. n /\ j < i + 1
    BY <1>1
  <2>2. PICK from : Traced(acc[i], from, kind, Until(i))
    BY <1>7
  <2>3. acc[i + 1] = acc[i] \o documents[i + 1].dmfr[kind] /\ acc[i] \in Seq(S)
    BY <1>3, <1>5, <2>1
  <2>4. CASE f \notin R
    <3>1. Until(i + 1) = Until(i)
      BY <2>1, <2>4
    <3>2. acc[i + 1] = acc[i] \o <<>>
      BY <1>2, <2>1, <2>3, <2>4
    <3>3. acc[i] \o <<>> = acc[i]
      BY <2>3, ConcatEmptySeq
    <3> QED
      BY <2>1, <2>2, <3>1, <3>2, <3>3
  <2>5. CASE f \in R
    <3>1. Until(i + 1) = Until(i) \cup {f}
      BY <2>1, <2>5
    <3>2. \A g \in Until(i) : g < f
      BY <1>4, <2>1
    <3>3. Corpus[f][kind] \in Seq(S) /\ documents[i + 1].dmfr[kind] = Corpus[f][kind]
      BY <1>2, <2>1, <2>5
    <3>4. Until(i) \in SUBSET Nat /\ f \in Nat
      BY <1>1, <1>2, <2>1
    <3> DEFINE U == Until(i)
    <3> HIDE DEF f, U
    <3>5. \E longer : Traced(acc[i] \o Corpus[f][kind], longer, kind, U \cup {f})
      BY <2>2, <2>3, <3>2, <3>3, <3>4, TraceGrows DEF U
    <3>6. \E longer : Traced(acc[i + 1], longer, kind, Until(i + 1))
      BY <2>3, <3>1, <3>3, <3>5 DEF U
    <3> QED
      BY <2>1, <3>6
  <2> QED
    BY <2>4, <2>5
<1>8. n \in G
  <2> HIDE DEF G
  <2>1. \A i \in 0 .. n : i \in G
    BY <1>1, <1>6, <1>7, InductionUpTo
  <2>2. n \in 0 .. n
    BY <1>1
  <2> QED
    BY <2>1, <2>2
<1>9. Until(n) = R
  BY DEF OfFiles, n
<1>10. acc[n] \in Seq(S)
  BY <1>1, <1>3
<1> QED
  BY <1>5, <1>8, <1>9, <1>10 DEF S

LEMMA InOrderOfFiles ==
    ASSUME NEW documents, DOMAIN documents = TA!Files, NEW R \in SUBSET TA!Files,
           documents = [f \in TA!Files |-> documents[f]],
           \A f \in TA!Files :
            /\ documents[f].file = f
            /\ documents[f].dmfr = IF f \in R THEN Corpus[f] ELSE TA!EmptyDocument
    PROVE  OfFiles(documents, R)
<1> DEFINE n == Len(Corpus)
<1>1. n \in Nat /\ TA!Files = 1 .. n
  BY FilesHaveEntries
<1> HIDE DEF n
<1>2. Len(documents) = n
  BY <1>1
<1>3. \A i, j \in 1 .. n : i < j => documents[i].file < documents[j].file
  BY <1>1
<1>4. \A f \in R : f \in 1 .. n /\ documents[f].file = f
  BY <1>1
<1> QED
  BY <1>1, <1>2, <1>3, <1>4 DEF OfFiles

LEMMA WholeIsOfFiles == OfFiles(WholeCorpus, TA!Files)
<1> DEFINE whole == WholeCorpus
<1>1. /\ DOMAIN whole = TA!Files /\ whole = [f \in TA!Files |-> whole[f]]
      /\ \A f \in TA!Files : whole[f].file = f /\ whole[f].dmfr = Corpus[f]
  BY DEF WholeCorpus
<1> HIDE DEF whole
<1>2. OfFiles(whole, TA!Files)
  BY <1>1, InOrderOfFiles
<1> QED
  BY <1>2 DEF whole

FilesRead == {f \in TA!Files : state[f] = "read"}

LEMMA GatheredIsOfFiles == OfFiles(TA!Gathered, FilesRead)
<1> DEFINE all == TA!Gathered
<1>1. /\ DOMAIN all = TA!Files /\ all = [f \in TA!Files |-> all[f]]
      /\ \A f \in TA!Files : all[f] = TA!Document(f)
  BY DEF TA!Gathered
<1>2. \A f \in TA!Files :
        /\ TA!Document(f).file = f
        /\ TA!Document(f).dmfr = IF f \in FilesRead THEN Corpus[f] ELSE TA!EmptyDocument
  BY DEF TA!Document, FilesRead
<1> HIDE DEF all
<1>3. FilesRead \in SUBSET TA!Files
  BY DEF FilesRead
<1>4. \A f \in TA!Files :
        /\ all[f].file = f
        /\ all[f].dmfr = IF f \in FilesRead THEN Corpus[f] ELSE TA!EmptyDocument
  BY <1>1, <1>2
<1>5. OfFiles(all, FilesRead)
  BY <1>1, <1>3, <1>4, InOrderOfFiles
<1> QED
  BY <1>5 DEF all

(* After k files, read_local has those of the first k that it could read.  *)
LEMMA ReadIsOfFiles ==
    ASSUME NEW lost \in SUBSET TA!Files
    PROVE  OfFiles(TA!ReadInOrder(lost), TA!Files \ lost)
<1> DEFINE n == Len(Corpus)
           Read == {ReadDocument(f) : f \in 1 .. n}
           HasRead(s, k) ==
            /\ \A i \in 1 .. Len(s) :
                /\ s[i].file \in 1 .. k /\ s[i].file \notin lost
                /\ s[i].dmfr = Corpus[s[i].file]
            /\ \A i, j \in 1 .. Len(s) : i < j => s[i].file < s[j].file
            /\ \A f \in (1 .. k) \ lost : \E i \in 1 .. Len(s) : s[i].file = f
<1>1. n \in Nat /\ TA!Files = 1 .. n
  BY FilesHaveEntries
<1>2. PICK acc \in [0 .. n -> Seq(Read)] : ReadsFiles(acc, lost)
  BY ReadSteps
<1>3. /\ acc[0] = <<>> /\ acc[n] = TA!ReadInOrder(lost)
      /\ \A f \in 1 .. n : acc[f] =
            IF f \in lost THEN acc[f - 1] ELSE Append(acc[f - 1], ReadDocument(f))
  BY <1>2 DEF ReadsFiles
<1> HIDE DEF n, Read
<1> DEFINE G == {k \in 0 .. n : HasRead(acc[k], k)}
<1>4. 0 \in G
  <2>1. HasRead(<<>>, 0)
    OBVIOUS
  <2> HIDE DEF HasRead
  <2> QED
    BY <1>1, <1>3, <2>1
<1>5. ASSUME NEW k \in 0 .. n - 1, k \in G PROVE k + 1 \in G
  <2>1. k + 1 \in 0 .. n /\ k + 1 \in 1 .. n /\ (k + 1) - 1 = k /\ k \in 0 .. n /\ k \in Nat
    BY <1>1
  <2> DEFINE s == acc[k]
             d == ReadDocument(k + 1)
             t == acc[k + 1]
  <2>2. HasRead(s, k) /\ s \in Seq(Read)
    BY <1>2, <1>5, <2>1
  <2>3. d.file = k + 1 /\ d.dmfr = Corpus[k + 1]
    BY DEF ReadDocument
  <2>4. CASE k + 1 \in lost
    <3>1. t = s
      BY <1>3, <2>1, <2>4
    <3>2. \A f \in 1 .. k + 1 : (f = k + 1 \/ f \in 1 .. k)
      BY <2>1
    <3>3. \A f \in 1 .. k : f \in 1 .. k + 1
      BY <2>1
    <3> HIDE DEF s, t
    <3>4. HasRead(s, k + 1)
      BY <2>2, <2>4, <3>2, <3>3
    <3> HIDE DEF HasRead
    <3> QED
      BY <2>1, <3>1, <3>4 DEF t
  <2>5. CASE k + 1 \notin lost
    <3> DEFINE m == Len(s)
    <3>1. t = Append(s, d)
      BY <1>3, <2>1, <2>5
    <3>2. m \in Nat
      BY <2>2, LenProperties
    <3> HIDE DEF t, s, d
    <3>3. d \in Read /\ s \in Seq(Read)
      BY <2>1, <2>2 DEF Read, n, d
    <3>4. Len(t) = m + 1 /\ t[m + 1] = d /\ \A i \in 1 .. m : t[i] = s[i]
      BY <3>1, <3>3, AppendProperties
    <3>5. /\ \A i \in 1 .. m : /\ s[i].file \in 1 .. k /\ s[i].file \notin lost
                               /\ s[i].dmfr = Corpus[s[i].file]
          /\ \A i, j \in 1 .. m : i < j => s[i].file < s[j].file
          /\ \A f \in (1 .. k) \ lost : \E i \in 1 .. m : s[i].file = f
      BY <2>2
    <3> HIDE DEF m
    <3>6. /\ \A i \in 1 .. m + 1 : (i \in 1 .. m \/ i = m + 1)
          /\ \A i \in 1 .. m : i \in 1 .. m + 1
          /\ m + 1 \in 1 .. m + 1
      BY <3>2
    <3>7. ASSUME NEW i \in 1 .. m + 1
          PROVE  /\ t[i].file \in 1 .. k + 1 /\ t[i].file \notin lost
                 /\ t[i].dmfr = Corpus[t[i].file]
      <4>1. CASE i \in 1 .. m
        <5>1. t[i] = s[i] /\ s[i].file \in 1 .. k
          BY <3>4, <3>5, <4>1
        <5>2. s[i].file \in 1 .. k + 1
          BY <2>1, <5>1
        <5> QED
          BY <3>5, <4>1, <5>1, <5>2
      <4>2. CASE i = m + 1
        <5>1. t[i].file = k + 1 /\ t[i].dmfr = Corpus[k + 1] /\ k + 1 \in 1 .. k + 1
          BY <2>1, <2>3, <3>4, <4>2
        <5> QED
          BY <2>5, <5>1
      <4> QED
        BY <3>6, <4>1, <4>2
    <3>8. ASSUME NEW i \in 1 .. m + 1, NEW j \in 1 .. m + 1, i < j
          PROVE  t[i].file < t[j].file
      <4>1. i \in 1 .. m
        BY <3>2, <3>8
      <4>2. CASE j \in 1 .. m
        BY <3>4, <3>5, <3>8, <4>1, <4>2
      <4>3. CASE j = m + 1
        <5>1. t[i].file \in 1 .. k /\ t[j].file = k + 1
          BY <2>3, <3>4, <3>5, <4>1, <4>3
        <5> QED
          BY <2>1, <5>1
      <4> QED
        BY <3>6, <4>2, <4>3
    <3>9. ASSUME NEW f \in (1 .. k + 1) \ lost
          PROVE  \E i \in 1 .. m + 1 : t[i].file = f
      <4>1. CASE f \in 1 .. k
        <5>1. PICK i \in 1 .. m : s[i].file = f
          BY <3>5, <4>1
        <5> QED
          BY <3>4, <3>6, <5>1
      <4>2. CASE f = k + 1
        <5>1. t[m + 1].file = f
          BY <2>3, <3>4, <4>2
        <5> QED
          BY <3>6, <5>1
      <4>3. f \in 1 .. k \/ f = k + 1
        BY <2>1
      <4> QED
        BY <4>1, <4>2, <4>3
    <3>10. HasRead(t, k + 1)
      BY <3>4, <3>7, <3>8, <3>9
    <3> HIDE DEF HasRead
    <3> QED
      BY <2>1, <3>10 DEF t
  <2> QED
    BY <2>4, <2>5
<1>6. n \in G
  <2> HIDE DEF G
  <2>1. \A k \in 0 .. n : k \in G
    BY <1>1, <1>4, <1>5, InductionUpTo
  <2>2. n \in 0 .. n
    BY <1>1
  <2> QED
    BY <2>1, <2>2
<1> DEFINE all == TA!ReadInOrder(lost)
<1>7. HasRead(all, n) /\ all \in Seq(Read)
  <2> HIDE DEF HasRead
  <2>1. n \in 0 .. n
    BY <1>1
  <2> QED
    BY <1>2, <1>3, <1>6, <2>1
<1>8. Len(all) \in Nat
  BY <1>7, LenProperties
<1> HIDE DEF all
<1>9. OfFiles(all, TA!Files \ lost)
  BY <1>1, <1>7, <1>8 DEF OfFiles
<1> QED
  BY <1>9 DEF all

(* Once the files are done with, the documents are those of the files that *)
(* were read; the others are lost.                                         *)
CorpusInv ==
    phase = "done" =>
        /\ \A f \in TA!Files : state[f] \in {"read", "lost"}
        /\ OfFiles(docs, FilesRead)

LEMMA CorpusStep ==
    ASSUME FilesInv, CorpusInv, TA!Next \/ TA!Exit \/ UNCHANGED transitlandVars
    PROVE  CorpusInv'
<1>1. CASE TA!ReadLocal
  <2>1. PICK lost \in SUBSET TA!Files :
            /\ state' = [f \in TA!Files |-> IF f \in lost THEN "lost" ELSE "read"]
            /\ docs' = TA!ReadInOrder(lost)
    BY <1>1 DEF TA!ReadLocal
  <2>2. FilesRead' = TA!Files \ lost
    BY <2>1 DEF FilesRead
  <2>3. OfFiles(docs', FilesRead')
    BY <2>1, <2>2, ReadIsOfFiles
  <2>4. \A f \in TA!Files : state'[f] \in {"read", "lost"}
    BY <2>1
  <2> QED
    BY <2>3, <2>4 DEF CorpusInv
<1>2. CASE TA!Gather
  <2>1. /\ TA!Cardinality(TA!Files) = Len(arrived) /\ docs' = TA!Gathered
        /\ state' = state
    BY <1>2 DEF TA!Gather
  <2>2. /\ arrived \in Seq(TA!Files) /\ IsInjective(arrived)
        /\ \A i \in DOMAIN arrived : state[arrived[i]] \in {"read", "lost"}
    BY DEF FilesInv
  <2>3. Elems(arrived) \in SUBSET TA!Files /\ Cardinality(Elems(arrived)) = Len(arrived)
    BY <2>2, ElemsAreFinite
  <2>4. Elems(arrived) = TA!Files
    BY <2>1, <2>3, FilesAreFinite, SameCardinality, FS_Subset
  <2>5. \A f \in TA!Files : state[f] \in {"read", "lost"}
    BY <2>2, <2>4 DEF Elems
  <2>6. OfFiles(docs', FilesRead')
    BY <2>1, GatheredIsOfFiles DEF FilesRead
  <2> QED
    BY <2>1, <2>5, <2>6 DEF CorpusInv
<1>3. CASE TA!Exit \/ TA!ReadTree \/ TA!Raise
  <2>1. phase' # "done"
    BY <1>3 DEF TA!Exit, TA!ReadTree, TA!Raise
  <2> QED
    BY <2>1 DEF CorpusInv
<1>4. CASE UNCHANGED transitlandVars
  <2>1. phase' = phase /\ state' = state /\ docs' = docs
    BY <1>4 DEF transitlandVars
  <2> QED
    BY <2>1 DEF CorpusInv, FilesRead
<1>5. ASSUME NEW f \in TA!Files, TA!Fetch(f) PROVE CorpusInv'
  <2>1. phase' # "done"
    BY <1>5 DEF TA!Fetch, TA!Take, TA!Finish
  <2> QED
    BY <2>1 DEF CorpusInv
<1> QED
  BY <1>1, <1>2, <1>3, <1>4, <1>5 DEF TA!Next, TA!Step

LEMMA CorpusAlways == Spec => []CorpusInv
<1>1. Init => CorpusInv
  BY DEF Init, TA!Init, CorpusInv
<1>2. CatalogsInv /\ CorpusInv /\ [Next]_vars => CorpusInv'
  BY StepsOfFiles, CorpusStep DEF CatalogsInv
<1> QED
  BY <1>1, <1>2, CatalogsAlways, PTL DEF Spec

-----------------------------------------------------------------------------
(* What is read of the corpus, in the whole                                *)

InFile(f, kind, entry) ==
    \E j \in 1 .. Len(Corpus[f][kind]) : Corpus[f][kind][j] = entry

(* m takes each entry of part to its place in whole, and keeps the order;  *)
(* what it does not reach is of a file outside R.                          *)
Embeds(m, part, whole, kind, R) ==
    /\ \A k \in 1 .. Len(part) : m[k] \in 1 .. Len(whole) /\ part[k] = whole[m[k]]
    /\ \A k, l \in 1 .. Len(part) : m[k] <= m[l] => k <= l
    /\ \A w \in 1 .. Len(whole) :
        \/ \E k \in 1 .. Len(part) : m[k] = w
        \/ \E f \in TA!Files \ R : InFile(f, kind, whole[w])

LEMMA EarlierIsStrict ==
    ASSUME NEW p \in Nat \X Nat, NEW q \in Nat \X Nat
    PROVE  Earlier(p, q) => p # q /\ ~Earlier(q, p)
BY DEF Earlier

LEMMA TracesTell ==
    ASSUME NEW s, NEW from, NEW kind, NEW R \in SUBSET Nat,
           Traced(s, from, kind, R), Len(s) \in Nat,
           NEW k \in 1 .. Len(s), NEW l \in 1 .. Len(s)
    PROVE  /\ from[k] \in Nat \X Nat
           /\ from[k] = from[l] => k = l
           /\ Earlier(from[k], from[l]) => k < l
<1>1. from[k] \in R \X Nat /\ from[l] \in R \X Nat
  BY DEF Traced
<1>2. from[k] \in Nat \X Nat /\ from[l] \in Nat \X Nat
  BY <1>1
<1>3. /\ k < l => Earlier(from[k], from[l])
      /\ l < k => Earlier(from[l], from[k])
  BY DEF Traced
<1>4. k < l \/ k = l \/ l < k
  OBVIOUS
<1>5. ~(k < l) \/ ~(l < k)
  OBVIOUS
<1> QED
  BY <1>2, <1>3, <1>4, EarlierIsStrict

LEMMA ReadIsEmbedded ==
    ASSUME NEW kind, NEW R \in SUBSET TA!Files,
           NEW part, Len(part) \in Nat, NEW at, Traced(part, at, kind, R),
           NEW whole, Len(whole) \in Nat, NEW from, Traced(whole, from, kind, TA!Files)
    PROVE  \E m : Embeds(m, part, whole, kind, R)
<1> DEFINE m == [k \in 1 .. Len(part) |->
                    CHOOSE w \in 1 .. Len(whole) : from[w] = at[k]]
<1>1. R \in SUBSET Nat /\ TA!Files \in SUBSET Nat
  BY FilesHaveEntries
<1>2. ASSUME NEW k \in 1 .. Len(part)
      PROVE  /\ m[k] \in 1 .. Len(whole) /\ from[m[k]] = at[k]
             /\ part[k] = whole[m[k]]
  <2>1. /\ at[k] \in R \X Nat /\ at[k][2] \in 1 .. Len(Corpus[at[k][1]][kind])
        /\ part[k] = Corpus[at[k][1]][kind][at[k][2]]
    BY DEF Traced
  <2>2. at[k][1] \in TA!Files /\ at[k] = <<at[k][1], at[k][2]>>
    BY <2>1
  <2>3. \E w \in 1 .. Len(whole) : from[w] = at[k]
    BY <2>1, <2>2 DEF Traced
  <2>4. m[k] \in 1 .. Len(whole) /\ from[m[k]] = at[k]
    BY <2>3
  <2> HIDE DEF m
  <2>5. whole[m[k]] = Corpus[from[m[k]][1]][kind][from[m[k]][2]]
    BY <2>4 DEF Traced
  <2> QED
    BY <2>1, <2>4, <2>5
<1> HIDE DEF m
<1>3. ASSUME NEW k \in 1 .. Len(part), NEW l \in 1 .. Len(part), m[k] <= m[l]
      PROVE  k <= l
  <2>1. CASE l < k
    <3>1. Earlier(from[m[l]], from[m[k]])
      BY <1>2, <2>1 DEF Traced
    <3>2. m[l] < m[k]
      BY <1>1, <1>2, <3>1, TracesTell
    <3> QED
      BY <1>2, <1>3, <3>2
  <2> QED
    BY <2>1
<1>4. ASSUME NEW w \in 1 .. Len(whole)
      PROVE  \/ \E k \in 1 .. Len(part) : m[k] = w
             \/ \E f \in TA!Files \ R : InFile(f, kind, whole[w])
  <2> DEFINE f == from[w][1]
             j == from[w][2]
  <2>1. /\ from[w] \in TA!Files \X Nat /\ j \in 1 .. Len(Corpus[f][kind])
        /\ whole[w] = Corpus[f][kind][j]
    BY DEF Traced
  <2>2. f \in TA!Files /\ from[w] = <<f, j>>
    BY <2>1
  <2> HIDE DEF f, j
  <2>3. CASE f \in R
    <3>1. PICK k \in 1 .. Len(part) : at[k] = <<f, j>>
      BY <2>1, <2>3 DEF Traced
    <3>2. from[m[k]] = from[w] /\ m[k] \in 1 .. Len(whole)
      BY <1>2, <2>2, <3>1
    <3>3. m[k] = w
      BY <1>1, <3>2, TracesTell
    <3> QED
      BY <3>3
  <2>4. CASE f \notin R
    BY <2>1, <2>2, <2>4 DEF InFile
  <2> QED
    BY <2>3, <2>4
<1>5. Embeds(m, part, whole, kind, R)
  BY <1>2, <1>3, <1>4 DEF Embeds
<1> QED
  BY <1>5

-----------------------------------------------------------------------------
(* The operator of a feed                                                  *)

Claims(ops, id) == {i \in DOMAIN ops : id \in ops[i].associated}

Named(ops, feedsRead, id) ==
    {n \in (DOMAIN feedsRead) \X (DOMAIN ops) :
        /\ feedsRead[n[1]].id = id
        /\ feedsRead[n[1]].operator # None
        /\ feedsRead[n[1]].operator = ops[n[2]].id}

(* The first feed that names an operator, and the last document for it.    *)
FirstOf(named) == {n \in named : \A m \in named : n[1] <= m[1]}
BestOf(named) == {n \in FirstOf(named) : \A m \in FirstOf(named) : m[2] <= n[2]}

OperatorIn(ops, feedsRead, id) ==
    LET claims == Claims(ops, id)
        named == Named(ops, feedsRead, id)
    IN  IF claims # {} THEN ops[CHOOSE i \in claims : \A j \in claims : i <= j]
        ELSE IF named # {} THEN ops[(CHOOSE n \in FirstOf(named) :
                                    \A m \in FirstOf(named) : m[2] <= n[2])[2]]
        ELSE None

LEMMA OperatorOfIs ==
    ASSUME NEW documents, NEW id
    PROVE  TA!OperatorOf(documents, id) =
            OperatorIn(TA!All(documents, "operators"), TA!All(documents, "feeds"), id)
<1> DEFINE ops == TA!All(documents, "operators")
           listed == TA!All(documents, "feeds")
<1> HIDE DEF ops, listed
<1> QED
  BY DEF TA!OperatorOf, OperatorIn, Claims, Named, FirstOf, ops, listed

LEMMA FirstClaimHas ==
    ASSUME NEW ops, Len(ops) \in Nat, DOMAIN ops = 1 .. Len(ops), NEW listed, NEW id
    PROVE  /\ Claims(ops, id) # {} =>
                \E i \in Claims(ops, id) : \A j \in Claims(ops, id) : i <= j
           /\ \A i \in Claims(ops, id) : (\A j \in Claims(ops, id) : i <= j) =>
                OperatorIn(ops, listed, id) = ops[i]
<1> DEFINE claims == Claims(ops, id)
<1>1. claims \in SUBSET Nat
  BY DEF Claims
<1> HIDE DEF claims
<1>2. claims # {} => \E i \in claims : \A j \in claims : i <= j
  BY <1>1, LeastExists
<1>3. ASSUME NEW i \in claims, \A j \in claims : i <= j
      PROVE  (CHOOSE k \in claims : \A j \in claims : k <= j) = i
  <2> DEFINE k == CHOOSE k \in claims : \A j \in claims : k <= j
  <2>1. k \in claims /\ \A j \in claims : k <= j
    BY <1>3
  <2> HIDE DEF k
  <2>2. k <= i /\ i <= k /\ i \in Nat /\ k \in Nat
    BY <1>1, <1>3, <2>1
  <2>3. k = i
    BY <2>2
  <2> QED
    BY <2>3 DEF k
<1>4. ASSUME NEW i \in claims, \A j \in claims : i <= j
      PROVE  OperatorIn(ops, listed, id) = ops[i]
  BY <1>3, <1>4 DEF OperatorIn, claims
<1> QED
  BY <1>2, <1>4 DEF claims

LEMMA BestNamedHas ==
    ASSUME NEW ops, Len(ops) \in Nat, DOMAIN ops = 1 .. Len(ops),
           NEW listed, Len(listed) \in Nat, DOMAIN listed = 1 .. Len(listed),
           NEW id
    PROVE  /\ Named(ops, listed, id) # {} => BestOf(Named(ops, listed, id)) # {}
           /\ Claims(ops, id) = {} => \A n \in BestOf(Named(ops, listed, id)) :
                OperatorIn(ops, listed, id) = ops[n[2]]
           /\ Claims(ops, id) = {} /\ Named(ops, listed, id) = {} =>
                OperatorIn(ops, listed, id) = None
<1> DEFINE named == Named(ops, listed, id)
           first == FirstOf(named)
           Fronts == {n[1] : n \in named}
           Backs == {n[2] : n \in first}
<1>1. \A n \in named : n[1] \in Nat /\ n[2] \in 1 .. Len(ops)
  BY DEF Named
<1> HIDE DEF named
<1>2. first \subseteq named
  BY DEF FirstOf
<1>3. ASSUME named # {} PROVE BestOf(named) # {}
  <2>1. Fronts \in SUBSET Nat /\ Fronts # {}
    BY <1>1, <1>3
  <2>2. PICK a \in Fronts : \A b \in Fronts : a <= b
    <3> HIDE DEF Fronts
    <3> QED
      BY <2>1, LeastExists
  <2>3. PICK n \in named : n[1] = a
    OBVIOUS
  <2>4. n \in first
    BY <2>2, <2>3 DEF FirstOf
  <2> HIDE DEF first
  <2>5. Backs \in SUBSET (0 .. Len(ops)) /\ Backs # {}
    BY <1>1, <1>2, <2>4
  <2>6. PICK y \in Backs : \A z \in Backs : z <= y
    <3> HIDE DEF Backs
    <3> QED
      BY <2>5, GreatestExists
  <2>7. PICK p \in first : p[2] = y
    OBVIOUS
  <2>8. p \in BestOf(named)
    BY <2>6, <2>7 DEF BestOf, first
  <2> QED
    BY <2>8
<1>4. ASSUME Claims(ops, id) = {}, NEW n \in BestOf(named)
      PROVE  OperatorIn(ops, listed, id) = ops[n[2]]
  <2>1. n \in first /\ \A p \in first : p[2] <= n[2]
    BY <1>4 DEF BestOf
  <2> DEFINE p == CHOOSE p \in first : \A q \in first : q[2] <= p[2]
  <2> HIDE DEF first
  <2>2. p \in first /\ \A q \in first : q[2] <= p[2]
    BY <2>1
  <2> HIDE DEF p
  <2>3. p[2] <= n[2] /\ n[2] <= p[2] /\ p[2] \in Nat /\ n[2] \in Nat
    BY <1>1, <1>2, <2>1, <2>2
  <2>4. p[2] = n[2]
    BY <2>3
  <2>5. named # {}
    BY <1>2, <2>1
  <2>6. OperatorIn(ops, listed, id) = ops[p[2]]
    BY <1>4, <2>5 DEF OperatorIn, named, first, p
  <2> QED
    BY <2>4, <2>6
<1>5. ASSUME Claims(ops, id) = {}, named = {}
      PROVE  OperatorIn(ops, listed, id) = None
  BY <1>5 DEF OperatorIn, named
<1> QED
  BY <1>3, <1>4, <1>5 DEF named

(* A file outside R has the operator, or an entry of the feed naming it.   *)
LostOperator(op, id, R) ==
    \E f \in TA!Files \ R : HasOperator(f, op) \/ DeclaresOperator(f, id, op)

LEMMA OperatorsAreInFiles ==
    ASSUME NEW f \in TA!Files, NEW op
    PROVE  /\ InFile(f, "operators", op) => HasOperator(f, op)
           /\ \A entry, id : InFile(f, "feeds", entry) /\ entry.id = id
                /\ entry.operator = op.id => DeclaresOperator(f, id, op)
<1>1. /\ DOMAIN Corpus[f].operators = 1 .. Len(Corpus[f].operators)
      /\ DOMAIN Corpus[f].feeds = 1 .. Len(Corpus[f].feeds)
  BY FilesHaveEntries DEF EntryKinds
<1>2. /\ Corpus[f]["operators"] = Corpus[f].operators
      /\ Corpus[f]["feeds"] = Corpus[f].feeds
  OBVIOUS
<1> QED
  BY <1>1, <1>2 DEF InFile, HasOperator, DeclaresOperator

LEMMA ClaimsAgree ==
    ASSUME NEW R \in SUBSET TA!Files, NEW id, NEW listed, NEW all,
           NEW ops, Len(ops) \in Nat, DOMAIN ops = 1 .. Len(ops),
           NEW whole, Len(whole) \in Nat, DOMAIN whole = 1 .. Len(whole),
           NEW m, Embeds(m, ops, whole, "operators", R)
    PROVE  /\ Claims(whole, id) = {} => Claims(ops, id) = {}
           /\ Claims(whole, id) # {} =>
                LET op == OperatorIn(whole, all, id)
                IN  OperatorIn(ops, listed, id) = op \/ LostOperator(op, id, R)
<1>1. \A k \in Claims(ops, id) : m[k] \in Claims(whole, id)
  BY DEF Claims, Embeds
<1>2. ASSUME Claims(whole, id) # {}
      PROVE  LET op == OperatorIn(whole, all, id)
             IN  OperatorIn(ops, listed, id) = op \/ LostOperator(op, id, R)
  <2>1. PICK i \in Claims(whole, id) : \A j \in Claims(whole, id) : i <= j
    BY <1>2, FirstClaimHas
  <2>2. OperatorIn(whole, all, id) = whole[i]
    BY <2>1, FirstClaimHas
  <2>3. i \in 1 .. Len(whole)
    BY DEF Claims
  <2>4. CASE \E f \in TA!Files \ R : InFile(f, "operators", whole[i])
    BY <2>2, <2>4, OperatorsAreInFiles DEF LostOperator
  <2>5. ASSUME NEW k \in 1 .. Len(ops), m[k] = i
        PROVE  OperatorIn(ops, listed, id) = whole[i]
    <3>1. ops[k] = whole[i]
      BY <2>5 DEF Embeds
    <3>2. k \in Claims(ops, id)
      BY <3>1 DEF Claims
    <3>3. \A j \in Claims(ops, id) : j \in 1 .. Len(ops) /\ m[k] <= m[j]
      BY <1>1, <2>1, <2>5 DEF Claims
    <3>4. \A j \in Claims(ops, id) : k <= j
      BY <3>3 DEF Embeds
    <3> QED
      BY <3>1, <3>2, <3>4, FirstClaimHas
  <2> QED
    BY <2>2, <2>3, <2>4, <2>5 DEF Embeds
<1> QED
  BY <1>1, <1>2

LEMMA NamesAgree ==
    ASSUME NEW R \in SUBSET TA!Files, NEW id,
           NEW ops, Len(ops) \in Nat, DOMAIN ops = 1 .. Len(ops),
           NEW whole, Len(whole) \in Nat, DOMAIN whole = 1 .. Len(whole),
           NEW listed, Len(listed) \in Nat, DOMAIN listed = 1 .. Len(listed),
           NEW all, Len(all) \in Nat, DOMAIN all = 1 .. Len(all),
           NEW m, Embeds(m, ops, whole, "operators", R),
           NEW l, Embeds(l, listed, all, "feeds", R),
           Claims(whole, id) = {}, Claims(ops, id) = {}
    PROVE  LET op == OperatorIn(whole, all, id)
           IN  OperatorIn(ops, listed, id) = op \/ LostOperator(op, id, R)
<1> DEFINE there == Named(whole, all, id)
           here == Named(ops, listed, id)
<1>1. /\ \A n \in here :
            /\ n \in (1 .. Len(listed)) \X (1 .. Len(ops))
            /\ listed[n[1]].id = id /\ listed[n[1]].operator # None
            /\ listed[n[1]].operator = ops[n[2]].id
      /\ \A n \in there :
            /\ n \in (1 .. Len(all)) \X (1 .. Len(whole))
            /\ all[n[1]].id = id /\ all[n[1]].operator # None
            /\ all[n[1]].operator = whole[n[2]].id
  BY DEF Named
<1>2. ASSUME NEW n \in here
      PROVE  /\ <<l[n[1]], m[n[2]]>> \in there
             /\ n[1] \in 1 .. Len(listed) /\ n[2] \in 1 .. Len(ops)
  <2> DEFINE a == n[1]
             b == n[2]
  <2>1. /\ a \in 1 .. Len(listed) /\ b \in 1 .. Len(ops)
        /\ listed[a].id = id /\ listed[a].operator # None
        /\ listed[a].operator = ops[b].id
    BY <1>1
  <2> HIDE DEF a, b, here
  <2>2. /\ l[a] \in 1 .. Len(all) /\ listed[a] = all[l[a]]
        /\ m[b] \in 1 .. Len(whole) /\ ops[b] = whole[m[b]]
    BY <2>1 DEF Embeds
  <2>3. <<l[a], m[b]>> \in there
    BY <2>1, <2>2 DEF Named
  <2> QED
    BY <2>1, <2>3 DEF a, b
<1> HIDE DEF there, here
<1>3. CASE there = {}
  <2>1. here = {}
    BY <1>2, <1>3
  <2> QED
    BY <1>3, <2>1, BestNamedHas DEF here, there
<1>4. CASE there # {}
  <2>1. PICK n \in BestOf(there) : TRUE
    BY <1>4, BestNamedHas DEF there
  <2> DEFINE a == n[1]
             b == n[2]
  <2>2. OperatorIn(whole, all, id) = whole[b]
    BY BestNamedHas DEF there
  <2>3. /\ n \in there
        /\ \A p \in there : a <= p[1]
        /\ \A p \in FirstOf(there) : p[2] <= b
    BY DEF BestOf, FirstOf
  <2>4. /\ a \in 1 .. Len(all) /\ b \in 1 .. Len(whole)
        /\ all[a].id = id /\ all[a].operator # None
        /\ all[a].operator = whole[b].id
    BY <1>1, <2>3
  <2> HIDE DEF a, b
  <2>5. CASE \E f \in TA!Files \ R : InFile(f, "operators", whole[b])
    BY <2>2, <2>5, OperatorsAreInFiles DEF LostOperator
  <2>6. CASE \E f \in TA!Files \ R : InFile(f, "feeds", all[a])
    BY <2>2, <2>4, <2>6, OperatorsAreInFiles DEF LostOperator
  <2>7. ASSUME NEW x \in 1 .. Len(listed), l[x] = a,
               NEW y \in 1 .. Len(ops), m[y] = b
        PROVE  OperatorIn(ops, listed, id) = whole[b]
    <3>1. listed[x] = all[a] /\ ops[y] = whole[b]
      BY <2>7 DEF Embeds
    <3> DEFINE best == <<x, y>>
    <3>2. best \in here /\ best[1] = x /\ best[2] = y
      BY <2>4, <3>1 DEF here, Named
    <3> HIDE DEF best
    <3>3. ASSUME NEW p \in here PROVE x <= p[1]
      <4>1. <<l[p[1]], m[p[2]]>> \in there /\ p[1] \in 1 .. Len(listed)
        BY <1>2
      <4>2. a <= <<l[p[1]], m[p[2]]>>[1]
        BY <2>3, <4>1
      <4>3. l[x] <= l[p[1]]
        BY <2>7, <4>2
      <4> QED
        BY <4>1, <4>3 DEF Embeds
    <3>4. best \in FirstOf(here)
      BY <3>2, <3>3 DEF FirstOf
    <3>5. ASSUME NEW p \in FirstOf(here) PROVE p[2] <= y
      <4>1. p \in here /\ p[1] <= x
        BY <3>2 DEF FirstOf
      <4>2. /\ <<l[p[1]], m[p[2]]>> \in there
            /\ p[1] \in 1 .. Len(listed) /\ p[2] \in 1 .. Len(ops)
        BY <1>2, <4>1
      <4>3. p[1] = x
        BY <3>3, <4>1, <4>2
      <4> DEFINE q == <<l[p[1]], m[p[2]]>>
      <4>4. q[1] = a /\ q[2] = m[p[2]]
        BY <2>7, <4>3
      <4> HIDE DEF q
      <4>5. q \in FirstOf(there)
        BY <2>3, <4>2, <4>4 DEF FirstOf, q
      <4>6. m[p[2]] <= m[y]
        BY <2>3, <2>7, <4>4, <4>5
      <4> QED
        BY <4>2, <4>6 DEF Embeds
    <3>6. best \in BestOf(here)
      BY <3>2, <3>4, <3>5 DEF BestOf
    <3>7. OperatorIn(ops, listed, id) = ops[best[2]]
      BY <3>6, BestNamedHas DEF here
    <3> QED
      BY <3>1, <3>2, <3>7
  <2>8. /\ (\E x \in 1 .. Len(listed) : l[x] = a) \/
                (\E f \in TA!Files \ R : InFile(f, "feeds", all[a]))
        /\ (\E y \in 1 .. Len(ops) : m[y] = b) \/
                (\E f \in TA!Files \ R : InFile(f, "operators", whole[b]))
    BY <2>4 DEF Embeds
  <2> QED
    BY <2>2, <2>5, <2>6, <2>7, <2>8
<1> QED
  BY <1>3, <1>4

(* What is lost of a feed's operator is lost with a file that has it, or   *)
(* that has the entry which names it.                                      *)
LEMMA OperatorsAgree ==
    ASSUME NEW documents, NEW R \in SUBSET TA!Files, OfFiles(documents, R), NEW id
    PROVE  LET op == TA!OperatorOf(WholeCorpus, id)
           IN  TA!OperatorOf(documents, id) = op \/ LostOperator(op, id, R)
<1> DEFINE ops == TA!All(documents, "operators")
           listed == TA!All(documents, "feeds")
           whole == TA!All(WholeCorpus, "operators")
           all == TA!All(WholeCorpus, "feeds")
<1>1. "operators" \in EntryKinds /\ "feeds" \in EntryKinds
  BY DEF EntryKinds
<1>2. /\ ops \in Seq(EntriesOf("operators")) /\ listed \in Seq(EntriesOf("feeds"))
      /\ whole \in Seq(EntriesOf("operators")) /\ all \in Seq(EntriesOf("feeds"))
  BY <1>1, AllIsTraced, WholeIsOfFiles
<1>3. /\ \E at : Traced(ops, at, "operators", R)
      /\ \E at : Traced(listed, at, "feeds", R)
      /\ \E at : Traced(whole, at, "operators", TA!Files)
      /\ \E at : Traced(all, at, "feeds", TA!Files)
  BY <1>1, AllIsTraced, WholeIsOfFiles
<1>4. /\ TA!OperatorOf(WholeCorpus, id) = OperatorIn(whole, all, id)
      /\ TA!OperatorOf(documents, id) = OperatorIn(ops, listed, id)
  BY OperatorOfIs
<1> HIDE DEF ops, listed, whole, all
<1>5. /\ Len(ops) \in Nat /\ DOMAIN ops = 1 .. Len(ops)
      /\ Len(listed) \in Nat /\ DOMAIN listed = 1 .. Len(listed)
      /\ Len(whole) \in Nat /\ DOMAIN whole = 1 .. Len(whole)
      /\ Len(all) \in Nat /\ DOMAIN all = 1 .. Len(all)
  BY <1>2, LenProperties
<1>6. PICK m : Embeds(m, ops, whole, "operators", R)
  BY <1>3, <1>5, ReadIsEmbedded
<1>7. PICK l : Embeds(l, listed, all, "feeds", R)
  BY <1>3, <1>5, ReadIsEmbedded
<1>8. \/ Claims(whole, id) # {}
      \/ Claims(whole, id) = {} /\ Claims(ops, id) = {}
  BY <1>5, <1>6, ClaimsAgree
<1> DEFINE op == OperatorIn(whole, all, id)
           mine == OperatorIn(ops, listed, id)
<1>9. mine = op \/ LostOperator(op, id, R)
  <2>1. CASE Claims(whole, id) # {}
    BY <1>5, <1>6, <2>1, ClaimsAgree
  <2>2. CASE Claims(whole, id) = {} /\ Claims(ops, id) = {}
    BY <1>5, <1>6, <1>7, <2>2, NamesAgree
  <2> QED
    BY <1>8, <2>1, <2>2
<1> HIDE DEF op, mine
<1>10. TA!OperatorOf(WholeCorpus, id) = op /\ TA!OperatorOf(documents, id) = mine
  BY <1>4 DEF op, mine
<1> QED
  BY <1>9, <1>10

-----------------------------------------------------------------------------
(* Which file a row is of                                                  *)

(* The rows build_sources makes of one feed.                               *)
RowsOfFeed(entry) ==
    IF TA!Usable(entry)
    THEN MakeRows([feed |-> entry.id, catalog |-> "transitland",
                   urls |-> entry.urls, auth |-> FALSE, place |-> None,
                   references |-> {}])
    ELSE {}

(* The first entry that has a row of r's id is the one r is made of.       *)
IsFirst(r, listed) == \E i \in 1 .. Len(listed) :
    /\ r \in RowsOfFeed(listed[i])
    /\ \A j \in 1 .. i - 1 : r.id \notin Ids(RowsOfFeed(listed[j]))

LEMMA FeedsGiveRows ==
    ASSUME NEW entry
    PROVE  /\ \A r \in RowsOfFeed(entry) :
                /\ TA!Usable(entry) /\ r.feed = entry.id /\ r.kind \in Kinds
                /\ r.id = SourceId(entry.id, r.kind)
                /\ DOMAIN entry.urls \cap RolesOf(r.kind) # {}
           /\ \A kind \in Kinds :
                TA!Usable(entry) /\ DOMAIN entry.urls \cap RolesOf(kind) # {} =>
                    SourceId(entry.id, kind) \in Ids(RowsOfFeed(entry))
<1> DEFINE e == [feed |-> entry.id, catalog |-> "transitland",
                 urls |-> entry.urls, auth |-> FALSE, place |-> None,
                 references |-> {}]
           Row(kind) ==
            [id |-> SourceId(e.feed, kind), catalog |-> e.catalog,
             feed |-> e.feed, kind |-> kind,
             urls |-> [role \in DOMAIN e.urls \cap RolesOf(kind) |-> e.urls[role]],
             auth |-> e.auth, place |-> e.place, references |-> e.references,
             links |-> {}]
<1>1. MakeRows(e) =
        {Row(kind) : kind \in {k \in Kinds : DOMAIN e.urls \cap RolesOf(k) # {}}}
  BY DEF MakeRows
<1>2. e.feed = entry.id /\ e.urls = entry.urls
  OBVIOUS
<1>3. \A kind : /\ Row(kind).id = SourceId(e.feed, kind)
                /\ Row(kind).feed = e.feed /\ Row(kind).kind = kind
  OBVIOUS
<1>4. RowsOfFeed(entry) = IF TA!Usable(entry) THEN MakeRows(e) ELSE {}
  BY DEF RowsOfFeed
<1> HIDE DEF e, Row
<1>5. ASSUME NEW r \in RowsOfFeed(entry)
      PROVE  /\ TA!Usable(entry) /\ r.feed = entry.id /\ r.kind \in Kinds
             /\ r.id = SourceId(entry.id, r.kind)
             /\ DOMAIN entry.urls \cap RolesOf(r.kind) # {}
  <2>1. TA!Usable(entry) /\ r \in MakeRows(e)
    BY <1>4
  <2>2. PICK kind \in Kinds : DOMAIN e.urls \cap RolesOf(kind) # {} /\ r = Row(kind)
    BY <1>1, <2>1
  <2> QED
    BY <1>2, <1>3, <2>1, <2>2
<1>6. ASSUME NEW kind \in Kinds, TA!Usable(entry),
             DOMAIN entry.urls \cap RolesOf(kind) # {}
      PROVE  SourceId(entry.id, kind) \in Ids(RowsOfFeed(entry))
  <2>1. Row(kind) \in RowsOfFeed(entry)
    BY <1>1, <1>2, <1>4, <1>6
  <2> QED
    BY <1>2, <1>3, <2>1 DEF Ids
<1> QED
  BY <1>5, <1>6

LEMMA RowsAreOfFirst ==
    ASSUME NEW documents, NEW listed, listed = TA!All(documents, "feeds"),
           Len(listed) \in Nat, DOMAIN listed = 1 .. Len(listed), NEW r
    PROVE  r \in TransitlandRows(documents) <=> IsFirst(r, listed)
<1> DEFINE n == Len(listed)
           groups == [i \in DOMAIN listed |-> RowsOfFeed(listed[i])]
<1>1. TransitlandRows(documents) = Merge(groups)
  BY DEF TransitlandRows, RowsOfFeed
<1>2. DOMAIN groups = 1 .. n /\ \A i \in 1 .. n : groups[i] = RowsOfFeed(listed[i])
  OBVIOUS
<1> HIDE DEF n, groups
<1>3. n \in Nat
  BY DEF n
<1>4. Merge(groups) = MergedOf(groups, n)
  BY <1>2, <1>3, MergeIs
<1>5. r \in MergedOf(groups, n) <=>
        \E i \in 1 .. n :
            r \in groups[i] /\ \A j \in 1 .. i - 1 : r.id \notin Ids(groups[j])
  BY DEF MergedOf
<1>6. \A i \in 1 .. n : \A j \in 1 .. i - 1 : j \in 1 .. n
  BY <1>3
<1>7. r \in MergedOf(groups, n) <=> IsFirst(r, listed)
  BY <1>2, <1>5, <1>6 DEF IsFirst, n
<1> QED
  BY <1>1, <1>4, <1>7

LEMMA FeedsOfFiles ==
    ASSUME NEW R \in SUBSET TA!Files, NEW f \in R, NEW j \in 1 .. Len(Corpus[f].feeds)
    PROVE  /\ \A r \in RowsOfFeed(Corpus[f].feeds[j]) : HasFeed(f, r)
           /\ f \in Nat /\ j \in Nat
<1>1. /\ DOMAIN Corpus[f].feeds = 1 .. Len(Corpus[f].feeds)
      /\ Len(Corpus[f].feeds) \in Nat /\ f \in Nat
  BY FilesHaveEntries DEF EntryKinds
<1>2. ASSUME NEW r \in RowsOfFeed(Corpus[f].feeds[j]) PROVE HasFeed(f, r)
  <2> DEFINE entry == Corpus[f].feeds[j]
  <2>1. /\ TA!Usable(entry) /\ r.feed = entry.id
        /\ DOMAIN entry.urls \cap RolesOf(r.kind) # {}
    BY FeedsGiveRows
  <2> QED
    BY <1>1, <2>1 DEF HasFeed
<1> QED
  BY <1>1, <1>2

(* A trace of feeds, with the field of the file written as one.            *)
LEMMA TraceOfFeeds ==
    ASSUME NEW s, NEW from, NEW R, Traced(s, from, "feeds", R)
    PROVE  \A k \in 1 .. Len(s) :
            /\ from[k] \in R \X Nat
            /\ from[k][2] \in 1 .. Len(Corpus[from[k][1]].feeds)
            /\ s[k] = Corpus[from[k][1]].feeds[from[k][2]]
BY DEF Traced

(* Of the whole corpus, a row is of the first file that has its feed.      *)
LEMMA HomeIsFirst ==
    ASSUME NEW all, Len(all) \in Nat, NEW from, Traced(all, from, "feeds", TA!Files),
           NEW r, NEW i \in 1 .. Len(all), r \in RowsOfFeed(all[i]),
           \A j \in 1 .. i - 1 : r.id \notin Ids(RowsOfFeed(all[j]))
    PROVE  HomeOf(r) = from[i][1]
<1> DEFINE g == from[i][1]
           p == from[i][2]
           IsHome(f) == HasFeed(f, r) /\ \A h \in TA!Files : h < f => ~HasFeed(h, r)
<1>1. /\ from[i] \in TA!Files \X Nat /\ p \in 1 .. Len(Corpus[g].feeds)
      /\ all[i] = Corpus[g].feeds[p]
  BY TraceOfFeeds
<1>2. g \in TA!Files /\ from[i] = <<g, p>>
  BY <1>1
<1> HIDE DEF g, p
<1>3. HasFeed(g, r)
  BY <1>1, <1>2, FeedsOfFiles
<1>4. r.kind \in Kinds /\ r.id = SourceId(r.feed, r.kind)
  BY FeedsGiveRows
<1>5. ASSUME NEW h \in TA!Files, h < g, HasFeed(h, r) PROVE FALSE
  <2>1. DOMAIN Corpus[h].feeds = 1 .. Len(Corpus[h].feeds)
    BY FilesHaveEntries DEF EntryKinds
  <2>2. PICK q \in 1 .. Len(Corpus[h].feeds) :
            LET entry == Corpus[h].feeds[q]
            IN  /\ entry.id = r.feed /\ TA!Usable(entry)
                /\ DOMAIN entry.urls \cap RolesOf(r.kind) # {}
    BY <1>5, <2>1 DEF HasFeed
  <2>3. r.id \in Ids(RowsOfFeed(Corpus[h].feeds[q]))
    BY <1>4, <2>2, FeedsGiveRows
  <2>4. PICK k \in 1 .. Len(all) : from[k] = <<h, q>>
    BY DEF Traced
  <2>5. all[k] = Corpus[h].feeds[q]
    BY <2>4, TraceOfFeeds
  <2>6. Earlier(from[k], from[i])
    BY <1>2, <1>5, <2>4 DEF Earlier
  <2>7. k < i
    BY <2>6, FilesHaveEntries, TracesTell
  <2>8. k \in 1 .. i - 1
    BY <2>7
  <2> QED
    BY <2>3, <2>5, <2>8
<1>6. IsHome(g)
  BY <1>3, <1>5
<1>7. HomeOf(r) = CHOOSE f \in TA!Files : IsHome(f)
  BY DEF HomeOf
<1>8. ASSUME NEW f \in TA!Files, IsHome(f) PROVE f = g
  <2>1. ~(f < g) /\ ~(g < f) /\ f \in Nat /\ g \in Nat
    BY <1>2, <1>3, <1>5, <1>8, FilesHaveEntries
  <2> QED
    BY <2>1
<1> HIDE DEF IsHome
<1>9. HomeOf(r) = g
  BY <1>2, <1>6, <1>7, <1>8
<1> QED
  BY <1>9 DEF g

(* A row is still there when its own file was read.                        *)
LEMMA RowsStay ==
    ASSUME NEW documents, NEW R \in SUBSET TA!Files, OfFiles(documents, R),
           NEW r \in TransitlandRows(WholeCorpus), HomeOf(r) \in R
    PROVE  r \in TransitlandRows(documents)
<1> DEFINE part == TA!All(documents, "feeds")
           all == TA!All(WholeCorpus, "feeds")
<1>1. "feeds" \in EntryKinds
  BY DEF EntryKinds
<1>2. part \in Seq(EntriesOf("feeds")) /\ all \in Seq(EntriesOf("feeds"))
  BY <1>1, AllIsTraced, WholeIsOfFiles
<1>3. PICK at : Traced(part, at, "feeds", R)
  BY <1>1, AllIsTraced
<1>4. PICK from : Traced(all, from, "feeds", TA!Files)
  BY <1>1, AllIsTraced, WholeIsOfFiles
<1>5. /\ Len(part) \in Nat /\ DOMAIN part = 1 .. Len(part)
      /\ Len(all) \in Nat /\ DOMAIN all = 1 .. Len(all)
  BY <1>2, LenProperties
<1>6. PICK i \in 1 .. Len(all) :
        /\ r \in RowsOfFeed(all[i])
        /\ \A j \in 1 .. i - 1 : r.id \notin Ids(RowsOfFeed(all[j]))
  BY <1>5, RowsAreOfFirst DEF IsFirst
<1>7. r \in TransitlandRows(documents) <=> IsFirst(r, part)
  BY <1>5, RowsAreOfFirst
<1> HIDE DEF part, all
<1> DEFINE g == from[i][1]
           p == from[i][2]
<1>8. HomeOf(r) = g
  BY <1>4, <1>5, <1>6, HomeIsFirst
<1>9. /\ from[i] = <<g, p>> /\ p \in 1 .. Len(Corpus[g].feeds)
      /\ all[i] = Corpus[g].feeds[p] /\ g \in R
  BY <1>4, <1>8, TraceOfFeeds
<1> HIDE DEF g, p
<1>10. PICK k \in 1 .. Len(part) : at[k] = from[i]
  <2>1. \E k \in 1 .. Len(part) : at[k] = <<g, p>>
    BY <1>3, <1>9 DEF Traced
  <2> QED
    BY <1>9, <2>1
<1>11. part[k] = all[i]
  <2>1. part[k] = Corpus[at[k][1]].feeds[at[k][2]]
    BY <1>3, TraceOfFeeds
  <2>2. at[k][1] = g /\ at[k][2] = p
    BY <1>9, <1>10
  <2> QED
    BY <1>9, <2>1, <2>2
<1>12. ASSUME NEW l \in 1 .. k - 1 PROVE r.id \notin Ids(RowsOfFeed(part[l]))
  <2>1. l \in 1 .. Len(part) /\ l < k
    BY <1>5
  <2>2. Earlier(at[l], at[k])
    BY <1>3, <2>1 DEF Traced
  <2> DEFINE f == at[l][1]
             q == at[l][2]
  <2>3. /\ at[l] = <<f, q>> /\ f \in R /\ q \in 1 .. Len(Corpus[f].feeds)
        /\ part[l] = Corpus[f].feeds[q]
    BY <1>3, <2>1, TraceOfFeeds
  <2> HIDE DEF f, q
  <2>4. PICK j \in 1 .. Len(all) : from[j] = <<f, q>>
    BY <1>4, <2>3 DEF Traced
  <2>5. all[j] = part[l]
    <3>1. all[j] = Corpus[from[j][1]].feeds[from[j][2]]
      BY <1>4, TraceOfFeeds
    <3> QED
      BY <2>3, <2>4, <3>1
  <2>6. j < i
    <3>1. Earlier(from[j], from[i]) /\ TA!Files \in SUBSET Nat
      BY <1>10, <2>2, <2>3, <2>4, FilesHaveEntries
    <3> QED
      BY <1>4, <1>5, <3>1, TracesTell
  <2>7. j \in 1 .. i - 1
    BY <2>6
  <2> QED
    BY <1>6, <2>5, <2>7
<1> QED
  BY <1>6, <1>7, <1>11, <1>12 DEF IsFirst

(* Every row is of a file that was read.                                   *)
LEMMA RowsAreOfRead ==
    ASSUME NEW documents, NEW R \in SUBSET TA!Files, OfFiles(documents, R),
           NEW r \in TransitlandRows(documents)
    PROVE  \E f \in R : HasFeed(f, r)
<1> DEFINE part == TA!All(documents, "feeds")
<1>1. "feeds" \in EntryKinds
  BY DEF EntryKinds
<1>2. part \in Seq(EntriesOf("feeds"))
  BY <1>1, AllIsTraced
<1>3. PICK at : Traced(part, at, "feeds", R)
  BY <1>1, AllIsTraced
<1>4. Len(part) \in Nat /\ DOMAIN part = 1 .. Len(part)
  BY <1>2, LenProperties
<1>5. PICK i \in 1 .. Len(part) : r \in RowsOfFeed(part[i])
  BY <1>4, RowsAreOfFirst DEF IsFirst
<1> HIDE DEF part
<1> DEFINE f == at[i][1]
           q == at[i][2]
<1>6. f \in R /\ q \in 1 .. Len(Corpus[f].feeds) /\ part[i] = Corpus[f].feeds[q]
  BY <1>3, TraceOfFeeds
<1> HIDE DEF f, q
<1>7. HasFeed(f, r)
  BY <1>5, <1>6, FeedsOfFiles
<1> QED
  BY <1>6, <1>7

(* A file that cannot be read costs its own rows, and the operators it has *)
(* or names.                                                               *)
THEOREM LossStaysLocal == Spec => LostFileCostsItsOwn
<1> DEFINE Local ==
        /\ \A r \in TransitlandRows(WholeCorpus) : state[HomeOf(r)] = "read" =>
            LET op == TA!OperatorOf(WholeCorpus, r.feed)
            IN  /\ r \in transitland'
                /\ \/ TA!OperatorOf(docs, r.feed) = op
                   \/ \E f \in TA!Files :
                        /\ HasOperator(f, op) \/ DeclaresOperator(f, r.feed, op)
                        /\ state[f] = "lost"
        /\ \A r \in transitland' : \E f \in TA!Files :
                HasFeed(f, r) /\ state[f] = "read"
<1>1. ASSUME CorpusInv, Next, stage = "transitland", stage' = "sources" PROVE Local
  <2>1. TransitlandAtlas
    BY <1>1 DEF Next, MobilityStep, MobilityDatabase, TransitlandStep,
                TransitlandAtlas, Fail, Sources, EndpointChecks, Feeds
  <2>2. transitland' = TransitlandRows(docs) /\ phase = "done"
    BY <2>1 DEF TransitlandAtlas, TA!Exit
  <2>3. /\ OfFiles(docs, FilesRead) /\ FilesRead \in SUBSET TA!Files
        /\ \A f \in TA!Files \ FilesRead : state[f] = "lost"
        /\ \A f \in FilesRead : f \in TA!Files /\ state[f] = "read"
    BY <1>1, <2>2 DEF CorpusInv, FilesRead
  <2>4. ASSUME NEW r \in TransitlandRows(WholeCorpus), state[HomeOf(r)] = "read"
        PROVE  HomeOf(r) \in FilesRead
    <3> DEFINE all == TA!All(WholeCorpus, "feeds")
    <3>1. "feeds" \in EntryKinds
      BY DEF EntryKinds
    <3>2. PICK from : Traced(all, from, "feeds", TA!Files)
      BY <3>1, AllIsTraced, WholeIsOfFiles
    <3>3. Len(all) \in Nat /\ DOMAIN all = 1 .. Len(all)
      BY <3>1, AllIsTraced, WholeIsOfFiles, LenProperties
    <3>4. PICK i \in 1 .. Len(all) :
            /\ r \in RowsOfFeed(all[i])
            /\ \A j \in 1 .. i - 1 : r.id \notin Ids(RowsOfFeed(all[j]))
      BY <3>3, RowsAreOfFirst DEF IsFirst
    <3> HIDE DEF all
    <3>5. HomeOf(r) = from[i][1]
      BY <3>2, <3>3, <3>4, HomeIsFirst
    <3>6. from[i] \in TA!Files \X Nat
      BY <3>2, TraceOfFeeds
    <3>7. HomeOf(r) \in TA!Files
      BY <3>5, <3>6
    <3> QED
      BY <2>4, <3>7 DEF FilesRead
  <2>5. ASSUME NEW r \in TransitlandRows(WholeCorpus), state[HomeOf(r)] = "read",
               NEW op, op = TA!OperatorOf(WholeCorpus, r.feed)
        PROVE  /\ r \in transitland'
               /\ \/ TA!OperatorOf(docs, r.feed) = op
                  \/ \E f \in TA!Files :
                        /\ HasOperator(f, op) \/ DeclaresOperator(f, r.feed, op)
                        /\ state[f] = "lost"
    <3>1. r \in transitland'
      BY <2>2, <2>3, <2>4, <2>5, RowsStay
    <3>2. TA!OperatorOf(docs, r.feed) = op \/ LostOperator(op, r.feed, FilesRead)
      BY <2>3, <2>5, OperatorsAgree
    <3> QED
      BY <2>3, <3>1, <3>2 DEF LostOperator
  <2>6. ASSUME NEW r \in transitland'
        PROVE  \E f \in TA!Files : HasFeed(f, r) /\ state[f] = "read"
    <3>1. \E f \in FilesRead : HasFeed(f, r)
      BY <2>2, <2>3, <2>6, RowsAreOfRead
    <3> QED
      BY <2>3, <3>1
  <2> QED
    BY <2>5, <2>6
<1>2. CorpusInv /\ [Next]_vars =>
        [stage = "transitland" /\ stage' = "sources" => Local]_vars
  BY <1>1
<1> QED
  BY <1>2, CorpusAlways, PTL DEF Spec, LostFileCostsItsOwn
=============================================================================
