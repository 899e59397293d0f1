---------------------------- MODULE PagesProofs ----------------------------
(***************************************************************************)
(* What holds of Pages for every set of feeds and texts, any calendar,     *)
(* noindex window and number of runs, whichever of them die.               *)
(*                                                                         *)
(* One invariant is behind all of it: a feed's two fragments are what its  *)
(* entry in the index says, unless it is among the feeds that a run now    *)
(* writing, or one that died, had to write or delete.                      *)
(***************************************************************************)
EXTENDS Pages, TLAPS

USE DEF Runs, Days

LEMMA DigestType ==
    ASSUME NEW facts \in Facts, NEW now \in Days
    PROVE  Digest(facts, now) \in Digests
  BY DEF Digest, Digests, Indexable

(* A changed page is dated today, an unchanged one as it was.              *)
SoundEntry(e, old, now) ==
    /\ e \in Entry
    /\ e.indexed = e.sha.indexable
    /\ old = None \/ old.sha # e.sha => e.lastmod = now
    /\ old # None /\ old.sha = e.sha => e.lastmod = old.lastmod

LEMMA EntryOfIsSound ==
    ASSUME NEW old \in Entry \cup {None}, NEW facts \in Facts, NEW now \in Days
    PROVE  SoundEntry(EntryOf(old, facts, now), old, now)
<1>1. Digest(facts, now) \in Digests
  BY DigestType
<1>2. Digest(facts, now).indexable = Indexable(facts, now)
  BY DEF Digest
<1>3. old # None => old.lastmod \in Days
  BY DEF Entry
<1>4. Indexable(facts, now) \in BOOLEAN
  BY DEF Indexable
<1> QED
  BY <1>1, <1>2, <1>3, <1>4 DEF EntryOf, Entry, SoundEntry

-----------------------------------------------------------------------------
(* What a run is going to put as the index: every entry says of noindex    *)
(* what its hash says.                                                     *)
Sound(idx) == \A f \in Feeds : idx[f] # None => idx[f].indexed = idx[f].sha.indexable

(* The feeds that a run has to write or to delete.                         *)
Touched(r) == Changed(previous[r], next[r]) \cup Vanished(previous[r], next[r])

(* The entry of an unchanged page is dated as it was.                      *)
Dated(r) ==
    \A f \in Feeds : next[r][f] # None =>
        IF f \in Changed(previous[r], next[r])
        THEN next[r][f].lastmod = day[r]
        ELSE /\ previous[r][f] # None
             /\ next[r][f].sha = previous[r][f].sha
             /\ next[r][f].lastmod = previous[r][f].lastmod

(* What a run works out when it starts.                                    *)
LEMMA StartIsSound ==
    ASSUME TypeOK, NEW r \in Runs, Start(r)
    PROVE  /\ next' \in [Runs -> Index] /\ next' = [next EXCEPT ![r] = next'[r]]
           /\ previous' = [previous EXCEPT ![r] = index]
           /\ todo' = [todo EXCEPT ![r] = Changed(index, next'[r])]
           /\ gone' = [gone EXCEPT ![r] = Vanished(index, next'[r])]
           /\ Sound(next'[r])
           /\ Dated(r)'
<1>1. PICK feeds \in SUBSET Feeds : \E facts \in [feeds -> Facts] :
        LET new == [f \in Feeds |->
                        IF f \in feeds THEN EntryOf(index[f], facts[f], today)
                                       ELSE None]
        IN  /\ next' = [next EXCEPT ![r] = new]
            /\ todo' = [todo EXCEPT ![r] = Changed(index, new)]
            /\ gone' = [gone EXCEPT ![r] = Vanished(index, new)]
  BY DEF Start
<1>2. PICK facts \in [feeds -> Facts] :
        LET new == [f \in Feeds |->
                        IF f \in feeds THEN EntryOf(index[f], facts[f], today)
                                       ELSE None]
        IN  /\ next' = [next EXCEPT ![r] = new]
            /\ todo' = [todo EXCEPT ![r] = Changed(index, new)]
            /\ gone' = [gone EXCEPT ![r] = Vanished(index, new)]
  BY <1>1
<1> DEFINE new == [f \in Feeds |-> IF f \in feeds
                                   THEN EntryOf(index[f], facts[f], today)
                                   ELSE None]
<1>3. /\ \A f \in Feeds : index[f] \in Entry \cup {None}
      /\ today \in Days
      /\ next \in [Runs -> Index] /\ previous \in [Runs -> Index]
      /\ day \in [Runs -> Days]
  BY DEF TypeOK, Index
<1>4. \A f \in feeds : SoundEntry(new[f], index[f], today)
  BY <1>3, EntryOfIsSound
<1>5. \A f \in Feeds \ feeds : new[f] = None
  OBVIOUS
<1>6. new \in Index
  BY <1>4, <1>5 DEF Index, SoundEntry
<1>7. Sound(new)
  BY <1>4, <1>5 DEF Sound, SoundEntry
<1>8. /\ next' = [next EXCEPT ![r] = new]
      /\ todo' = [todo EXCEPT ![r] = Changed(index, new)]
      /\ gone' = [gone EXCEPT ![r] = Vanished(index, new)]
  BY <1>2
<1> HIDE DEF new
<1>9. /\ previous' = [previous EXCEPT ![r] = index]
      /\ day' = [day EXCEPT ![r] = today]
  BY DEF Start
<1>10. next'[r] = new /\ previous'[r] = index /\ day'[r] = today
  BY <1>3, <1>8, <1>9
<1>11. \A f \in Feeds : new[f] # None =>
        IF f \in Changed(index, new)
        THEN new[f].lastmod = today
        ELSE /\ index[f] # None
             /\ new[f].sha = index[f].sha
             /\ new[f].lastmod = index[f].lastmod
  BY <1>4, <1>5 DEF Changed, SoundEntry
<1>12. Dated(r)'
  BY <1>10, <1>11 DEF Dated
<1>13. next' \in [Runs -> Index]
  BY <1>3, <1>6, <1>8
<1> QED
  BY <1>7, <1>8, <1>9, <1>10, <1>12, <1>13

-----------------------------------------------------------------------------
(* Types.  That a run has put the head of none but a changed feed is part  *)
(* of them: the body is put of half[r], which must be a feed with an entry.*)

Prepared(r) ==
    /\ todo[r] \subseteq Changed(previous[r], next[r])
    /\ gone[r] \subseteq Vanished(previous[r], next[r])
    /\ half[r] \in todo[r] \cup {None}
    /\ pc[r] = "idle" => half[r] = None

TypeInv == TypeOK /\ \A r \in Runs : Prepared(r)

LEMMA FragmentType ==
    ASSUME TypeInv, NEW r \in Runs, NEW f \in todo[r]
    PROVE  f \in Feeds /\ Fragment(r, f) \in Page
<1>1. f \in Feeds /\ next[r][f] # None
  BY DEF TypeInv, Prepared, Changed
<1>2. next[r][f] \in Entry /\ day[r] \in Days
  BY <1>1 DEF TypeInv, TypeOK, Index
<1> QED
  BY <1>1, <1>2 DEF Fragment, Page, Entry, Digests

LEMMA TypeInvInductive == TypeInv /\ [Next]_vars => TypeInv'
<1> SUFFICES ASSUME TypeInv, [Next]_vars PROVE TypeInv'
  OBVIOUS
<1> USE PagesAssumption
<1>0. /\ TypeOK /\ \A q \in Runs : Prepared(q)
      /\ pc \in [Runs -> PC] /\ day \in [Runs -> Days]
      /\ previous \in [Runs -> Index] /\ next \in [Runs -> Index]
      /\ todo \in [Runs -> SUBSET Feeds] /\ gone \in [Runs -> SUBSET Feeds]
      /\ half \in [Runs -> Feeds \cup {None}]
      /\ head \in Fragments /\ body \in Fragments /\ index \in Index
  BY DEF TypeInv, TypeOK
<1>1. CASE NextDay
  BY <1>0, <1>1 DEF NextDay, bucket, locals, TypeInv, TypeOK, Prepared
<1>2. ASSUME NEW r \in Runs, Start(r) PROVE TypeInv'
  <2>1. /\ next' \in [Runs -> Index] /\ next' = [next EXCEPT ![r] = next'[r]]
        /\ previous' = [previous EXCEPT ![r] = index]
        /\ todo' = [todo EXCEPT ![r] = Changed(index, next'[r])]
        /\ gone' = [gone EXCEPT ![r] = Vanished(index, next'[r])]
    BY <1>0, <1>2, StartIsSound
  <2>2. /\ pc[r] = "idle" /\ pc' = [pc EXCEPT ![r] = "fragments"]
        /\ day' = [day EXCEPT ![r] = today]
        /\ UNCHANGED <<today, head, body, index, sitemap, half>>
    BY <1>2 DEF Start, bucket
  <2>3. TypeOK'
    <3>1. Changed(index, next'[r]) \subseteq Feeds
          /\ Vanished(index, next'[r]) \subseteq Feeds
      BY DEF Changed, Vanished
    <3> QED
      BY <1>0, <2>1, <2>2, <3>1 DEF TypeOK, PC
  <2>4. \A q \in Runs : Prepared(q)'
    BY <1>0, <2>1, <2>2 DEF Prepared
  <2> QED
    BY <2>3, <2>4 DEF TypeInv
<1>3. ASSUME NEW r \in Runs, PutHead(r) PROVE TypeInv'
  <2>1. PICK f \in todo[r] : /\ head' = [head EXCEPT ![f] = Fragment(r, f)]
                             /\ half' = [half EXCEPT ![r] = f]
    BY <1>3 DEF PutHead
  <2>2. /\ pc[r] = "fragments"
        /\ UNCHANGED <<today, body, index, sitemap, pc, day, previous, next,
                       todo, gone>>
    BY <1>3 DEF PutHead
  <2>3. TypeOK'
    BY <1>0, <2>1, <2>2, FragmentType DEF TypeOK, Fragments
  <2>4. \A q \in Runs : Prepared(q)'
    BY <1>0, <2>1, <2>2 DEF Prepared
  <2> QED
    BY <2>3, <2>4 DEF TypeInv
<1>4. ASSUME NEW r \in Runs, PutBody(r) PROVE TypeInv'
  <2>1. /\ half[r] \in todo[r]
        /\ body' = [body EXCEPT ![half[r]] = Fragment(r, half[r])]
        /\ todo' = [todo EXCEPT ![r] = @ \ {half[r]}]
        /\ half' = [half EXCEPT ![r] = None]
        /\ UNCHANGED <<today, head, index, sitemap, pc, day, previous, next,
                       gone>>
    BY <1>0, <1>4 DEF PutBody, Prepared
  <2>2. TypeOK'
    BY <1>0, <2>1, FragmentType DEF TypeOK, Fragments
  <2>3. \A q \in Runs : Prepared(q)'
    BY <1>0, <2>1 DEF Prepared
  <2> QED
    BY <2>2, <2>3 DEF TypeInv
<1>5. ASSUME NEW r \in Runs, DeletePrefix(r) PROVE TypeInv'
  <2>1. PICK f \in gone[r] : /\ head' = [head EXCEPT ![f] = None]
                             /\ body' = [body EXCEPT ![f] = None]
                             /\ gone' = [gone EXCEPT ![r] = @ \ {f}]
    BY <1>5 DEF DeletePrefix
  <2>2. UNCHANGED <<today, index, sitemap, pc, day, previous, next, todo, half>>
    BY <1>5 DEF DeletePrefix
  <2>3. TypeOK'
    BY <1>0, <2>1, <2>2 DEF TypeOK, Fragments
  <2>4. \A q \in Runs : Prepared(q)'
    BY <1>0, <2>1, <2>2 DEF Prepared
  <2> QED
    BY <2>3, <2>4 DEF TypeInv
<1>6. ASSUME NEW r \in Runs, PutIndex(r) PROVE TypeInv'
  BY <1>0, <1>6 DEF PutIndex, TypeInv, TypeOK, Prepared, PC
<1>7. ASSUME NEW r \in Runs, PutSitemap(r) PROVE TypeInv'
  <2>1. \A f \in Feeds : next[r][f] # None => next[r][f].lastmod \in Days
    BY <1>0 DEF Index, Entry
  <2>2. sitemap' \in [Feeds -> Days \cup {None}]
    BY <1>7, <2>1 DEF PutSitemap
  <2>3. /\ pc' = [pc EXCEPT ![r] = "done"] /\ pc[r] = "sitemap"
        /\ UNCHANGED <<today, head, body, index, day, previous, next, todo,
                       gone, half>>
    BY <1>7 DEF PutSitemap
  <2> QED
    BY <1>0, <2>2, <2>3 DEF TypeInv, TypeOK, Prepared, PC
<1>8. ASSUME NEW r \in Runs, Fail(r) PROVE TypeInv'
  BY <1>0, <1>8 DEF Fail, bucket, Active, TypeInv, TypeOK, Prepared, PC
<1>9. CASE UNCHANGED vars
  BY <1>0, <1>9 DEF vars, bucket, locals, TypeInv, TypeOK, Prepared
<1> QED
  BY <1>1, <1>2, <1>3, <1>4, <1>5, <1>6, <1>7, <1>8, <1>9 DEF Next, Step

LEMMA InitIsTyped == Init => TypeInv
<1>1. NoEntries \in Index /\ NoEntries \in Fragments
      /\ NoEntries \in [Feeds -> Days \cup {None}]
  BY DEF NoEntries, Index, Fragments
<1> QED
  BY <1>1, PagesAssumption DEF Init, TypeInv, TypeOK, Prepared, PC

(* Every variable stays in its domain: in particular what a run puts, in   *)
(* the bucket, the index or the sitemap, it always has a hash and a        *)
(* lastmod for.                                                            *)
THEOREM TypeCorrect == Spec => []TypeOK
<1>1. TypeInv => TypeOK
  BY DEF TypeInv
<1> QED
  BY <1>1, InitIsTyped, TypeInvInductive, PTL DEF Spec

-----------------------------------------------------------------------------
(* What the bucket holds.                                                  *)

Serial == \A q, r \in Runs : Active(q) /\ Active(r) => q = r

PageOf(e) == [shows |-> e.sha, put |-> e.lastmod]

(* The fragments of a feed are those of an entry.                          *)
Shows(f, e) ==
    IF e = None THEN head[f] = None /\ body[f] = None
                ELSE head[f] = PageOf(e) /\ body[f] = PageOf(e)

(* How far a run is: what it no longer has to write is written, and what   *)
(* it no longer has to delete is gone.                                     *)
InHand(r) ==
    /\ pc[r] = "fragments" =>
        /\ previous[r] = index
        /\ Sound(next[r]) /\ Dated(r)
        /\ \A f \in Changed(previous[r], next[r]) \ todo[r] : Shows(f, next[r][f])
        /\ \A f \in Vanished(previous[r], next[r]) \ gone[r] : Shows(f, None)
        /\ half[r] # None => head[half[r]] = PageOf(next[r][half[r]])
    /\ pc[r] = "sitemap" => index = next[r]

Accounted ==
    \A f \in Feeds :
        \/ Shows(f, index[f])
        \/ \E r \in Runs : pc[r] \in {"fragments", "failed"} /\ f \in Touched(r)

Mapped ==
    /\ Sound(index)
    /\ Quiet /\ NobodyDied => \A f \in Feeds :
        sitemap[f] # None <=> index[f] # None /\ index[f].indexed

BucketInv == Serial /\ (\A r \in Runs : InHand(r)) /\ Accounted /\ Mapped

LEMMA SerialInductive ==
    ASSUME TypeInv, Serial, [Next]_vars
    PROVE  Serial'
<1>0. pc \in [Runs -> PC]
  BY DEF TypeInv, TypeOK
<1>1. ASSUME NEW r \in Runs, Start(r) PROVE Serial'
  BY <1>0, <1>1 DEF Start, Serial, Active
<1>2. ASSUME NEW r \in Runs, Step(r) \/ Fail(r) PROVE Serial'
  BY <1>0, <1>2 DEF Step, PutHead, PutBody, DeletePrefix, PutIndex, PutSitemap,
     Fail, Serial, Active
<1>3. CASE NextDay \/ UNCHANGED vars
  BY <1>3 DEF NextDay, vars, locals, Serial, Active
<1> QED
  BY <1>1, <1>2, <1>3 DEF Next

(* A fragment and the entry that will stand for it say the same.           *)
LEMMA FragmentIsPage ==
    ASSUME TypeInv, NEW r \in Runs, pc[r] = "fragments", InHand(r),
           NEW f \in todo[r]
    PROVE  /\ f \in Changed(previous[r], next[r])
           /\ f \in Feeds /\ next[r][f] # None
           /\ Fragment(r, f) = PageOf(next[r][f])
<1>1. f \in Changed(previous[r], next[r])
  BY DEF TypeInv, Prepared
<1>2. f \in Feeds /\ next[r][f] # None
  BY <1>1 DEF Changed
<1>3. next[r][f].sha \in Digests
  BY <1>2 DEF TypeInv, TypeOK, Index, Entry
<1>4. /\ next[r][f].indexed = next[r][f].sha.indexable
      /\ next[r][f].lastmod = day[r]
  BY <1>1, <1>2 DEF InHand, Sound, Dated
<1> QED
  BY <1>1, <1>2, <1>3, <1>4 DEF Fragment, PageOf, Digests

-----------------------------------------------------------------------------
LEMMA BucketInvInductive ==
    ASSUME TypeInv, TypeInv', BucketInv, [Next]_vars
    PROVE  BucketInv'
<1> USE PagesAssumption DEF BucketInv
<1>0. /\ TypeOK /\ \A q \in Runs : Prepared(q)
      /\ pc \in [Runs -> PC] /\ day \in [Runs -> Days]
      /\ previous \in [Runs -> Index] /\ next \in [Runs -> Index]
      /\ todo \in [Runs -> SUBSET Feeds] /\ gone \in [Runs -> SUBSET Feeds]
      /\ half \in [Runs -> Feeds \cup {None}]
      /\ head \in Fragments /\ body \in Fragments /\ index \in Index
  BY DEF TypeInv, TypeOK
<1>s. Serial'
  BY SerialInductive
<1>1. CASE NextDay \/ UNCHANGED vars
  <2>1. UNCHANGED <<head, body, index, sitemap, pc, day, previous, next, todo,
                    gone, half>>
    BY <1>1 DEF NextDay, vars, bucket, locals
  <2>2. \A r \in Runs : InHand(r)'
    BY <2>1 DEF InHand, Sound, Dated, Shows
  <2>3. Accounted' /\ Mapped'
    BY <2>1 DEF Accounted, Mapped, Touched, Shows, Sound, Quiet, NobodyDied,
       Active
  <2> QED
    BY <1>s, <2>2, <2>3
<1>2. ASSUME NEW r \in Runs, Start(r) PROVE BucketInv'
  <2>1. /\ next' = [next EXCEPT ![r] = next'[r]]
        /\ previous' = [previous EXCEPT ![r] = index]
        /\ todo' = [todo EXCEPT ![r] = Changed(index, next'[r])]
        /\ gone' = [gone EXCEPT ![r] = Vanished(index, next'[r])]
        /\ Sound(next'[r])
        /\ Dated(r)'
    BY <1>0, <1>2, StartIsSound
  <2>2. /\ pc[r] = "idle" /\ pc' = [pc EXCEPT ![r] = "fragments"]
        /\ \A q \in Runs : ~Active(q)
        /\ UNCHANGED <<head, body, index, sitemap, half>>
    BY <1>2 DEF Start, bucket
  <2>3. half[r] = None
    BY <1>0, <2>2 DEF Prepared
  <2>4. \A q \in Runs : InHand(q)'
    <3>1. InHand(r)'
      BY <1>0, <2>1, <2>2, <2>3 DEF InHand, Sound
    <3>2. ASSUME NEW q \in Runs, q # r PROVE InHand(q)'
      BY <1>0, <2>2, <3>2 DEF InHand, Active
    <3> QED
      BY <3>1, <3>2
  <2>5. Accounted'
    <3> SUFFICES ASSUME NEW f \in Feeds, ~Shows(f, index[f])'
                 PROVE  \E q \in Runs : /\ pc'[q] \in {"fragments", "failed"}
                                        /\ f \in Touched(q)'
      BY DEF Accounted
    <3>1. PICK q \in Runs : pc[q] \in {"fragments", "failed"} /\ f \in Touched(q)
      BY <2>2 DEF Accounted, Shows
    <3>2. q # r /\ pc[q] = "failed"
      BY <2>2, <3>1 DEF Active
    <3> QED
      BY <1>0, <2>1, <2>2, <3>1, <3>2 DEF Touched
  <2>6. Mapped'
    BY <1>0, <2>2 DEF Mapped, Sound, Quiet, Active
  <2> QED
    BY <1>s, <2>4, <2>5, <2>6
<1>3. ASSUME NEW r \in Runs, Active(r), NEW q \in Runs, q # r,
             pc'[q] = pc[q]
      PROVE  InHand(q)'
  BY <1>0, <1>3 DEF Serial, InHand, Active
(* A step that touches one feed of the active run and nothing else.        *)
<1>4. ASSUME NEW r \in Runs, NEW f \in Touched(r), pc[r] = "fragments",
             UNCHANGED <<index, sitemap, pc, previous, next>>,
             \A g \in Feeds \ {f} : head'[g] = head[g] /\ body'[g] = body[g]
      PROVE  Accounted' /\ Mapped'
  <2>1. Accounted'
    BY <1>4 DEF Accounted, Touched, Shows
  <2>2. Mapped'
    BY <1>4 DEF Mapped, Sound, Quiet, Active
  <2> QED
    BY <2>1, <2>2
<1>5. ASSUME NEW r \in Runs, PutHead(r) PROVE BucketInv'
  <2>1. PICK f \in todo[r] : /\ head' = [head EXCEPT ![f] = Fragment(r, f)]
                             /\ half' = [half EXCEPT ![r] = f]
    BY <1>5 DEF PutHead
  <2>2. /\ pc[r] = "fragments"
        /\ UNCHANGED <<body, index, sitemap, pc, day, previous, next, todo, gone>>
    BY <1>5 DEF PutHead
  <2>3. /\ f \in Changed(previous[r], next[r])
        /\ f \in Feeds /\ next[r][f] # None
        /\ Fragment(r, f) = PageOf(next[r][f])
    BY <2>2, FragmentIsPage
  <2>4. head'[f] = PageOf(next[r][f]) /\ half'[r] = f
        /\ \A g \in Feeds \ {f} : head'[g] = head[g] /\ body'[g] = body[g]
    BY <1>0, <2>1, <2>2, <2>3 DEF Fragments
  <2>5. InHand(r)'
    <3>1. \A g \in Changed(previous[r], next[r]) \ todo[r] : g \in Feeds \ {f}
      BY DEF Changed
    <3>2. \A g \in Vanished(previous[r], next[r]) : g \in Feeds \ {f}
      BY <2>3 DEF Vanished
    <3> QED
      BY <2>2, <2>4, <3>1, <3>2 DEF InHand, Sound, Dated, Shows
  <2>6. f \in Touched(r)
    BY <2>3 DEF Touched
  <2>7. Accounted' /\ Mapped'
    BY <1>4, <2>2, <2>4, <2>6
  <2> QED
    BY <1>3, <1>s, <2>2, <2>5, <2>7 DEF Active
<1>6. ASSUME NEW r \in Runs, PutBody(r) PROVE BucketInv'
  <2> DEFINE f == half[r]
  <2>1. /\ pc[r] = "fragments" /\ f # None /\ f \in todo[r]
        /\ body' = [body EXCEPT ![f] = Fragment(r, f)]
        /\ todo' = [todo EXCEPT ![r] = @ \ {f}]
        /\ half' = [half EXCEPT ![r] = None]
        /\ UNCHANGED <<head, index, sitemap, pc, day, previous, next, gone>>
    BY <1>0, <1>6 DEF PutBody, Prepared
  <2>2. /\ f \in Changed(previous[r], next[r])
        /\ f \in Feeds /\ next[r][f] # None
        /\ Fragment(r, f) = PageOf(next[r][f])
    BY <2>1, FragmentIsPage
  <2>3. /\ body'[f] = PageOf(next[r][f]) /\ head'[f] = PageOf(next[r][f])
        /\ todo'[r] = todo[r] \ {f} /\ half'[r] = None
        /\ \A g \in Feeds \ {f} : head'[g] = head[g] /\ body'[g] = body[g]
    BY <1>0, <2>1, <2>2 DEF Fragments, InHand
  <2> HIDE DEF f
  <2>4. InHand(r)'
    <3>1. \A g \in Changed(previous[r], next[r]) : g \in Feeds
      BY DEF Changed
    <3>2. \A g \in Vanished(previous[r], next[r]) : g \in Feeds \ {f}
      BY <2>2 DEF Vanished
    <3> QED
      BY <2>1, <2>2, <2>3, <3>1, <3>2 DEF InHand, Sound, Dated, Shows
  <2>5. f \in Touched(r)
    BY <2>2 DEF Touched
  <2>6. Accounted' /\ Mapped'
    BY <1>4, <2>1, <2>3, <2>5
  <2> QED
    BY <1>3, <1>s, <2>1, <2>4, <2>6 DEF Active
<1>7. ASSUME NEW r \in Runs, DeletePrefix(r) PROVE BucketInv'
  <2>1. PICK f \in gone[r] : /\ head' = [head EXCEPT ![f] = None]
                             /\ body' = [body EXCEPT ![f] = None]
                             /\ gone' = [gone EXCEPT ![r] = @ \ {f}]
    BY <1>7 DEF DeletePrefix
  <2>2. /\ pc[r] = "fragments" /\ todo[r] = {}
        /\ UNCHANGED <<index, sitemap, pc, day, previous, next, todo, half>>
    BY <1>7 DEF DeletePrefix
  <2>3. f \in Vanished(previous[r], next[r]) /\ f \in Feeds /\ next[r][f] = None
    BY <1>0, <2>1 DEF Prepared, Vanished
  <2>4. /\ head'[f] = None /\ body'[f] = None /\ gone'[r] = gone[r] \ {f}
        /\ \A g \in Feeds \ {f} : head'[g] = head[g] /\ body'[g] = body[g]
    BY <1>0, <2>1, <2>3 DEF Fragments
  <2>5. InHand(r)'
    <3>1. \A g \in Changed(previous[r], next[r]) : g \in Feeds \ {f}
      BY <2>3 DEF Changed
    <3>2. \A g \in Vanished(previous[r], next[r]) : g \in Feeds
      BY DEF Vanished
    <3>3. half[r] = None
      BY <1>0, <2>2 DEF Prepared
    <3> QED
      BY <2>2, <2>4, <3>1, <3>2, <3>3 DEF InHand, Sound, Dated, Shows
  <2>6. f \in Touched(r)
    BY <2>3 DEF Touched
  <2>7. Accounted' /\ Mapped'
    BY <1>4, <2>2, <2>4, <2>6
  <2> QED
    BY <1>3, <1>s, <2>2, <2>5, <2>7 DEF Active
<1>8. ASSUME NEW r \in Runs, PutIndex(r) PROVE BucketInv'
  <2>1. /\ pc[r] = "fragments" /\ todo[r] = {} /\ gone[r] = {}
        /\ index' = next[r]
        /\ pc' = [pc EXCEPT ![r] = "sitemap"]
        /\ UNCHANGED <<head, body, sitemap, day, previous, next, todo, gone, half>>
    BY <1>8 DEF PutIndex
  <2>2. /\ pc'[r] = "sitemap" /\ Active(r)
        /\ \A q \in Runs \ {r} : pc'[q] = pc[q]
    BY <1>0, <2>1 DEF Active
  <2>3. \A q \in Runs : InHand(q)'
    BY <1>3, <2>1, <2>2 DEF InHand
  <2>4. Accounted'
    <3> SUFFICES ASSUME NEW f \in Feeds, ~Shows(f, index[f])'
                 PROVE  \E q \in Runs : /\ pc'[q] \in {"fragments", "failed"}
                                        /\ f \in Touched(q)'
      BY DEF Accounted
    <3>1. ~Shows(f, next[r][f])
      BY <2>1 DEF Shows
    <3>2. previous[r] = index
      BY <2>1 DEF InHand
    <3>3. f \notin Changed(previous[r], next[r])
      BY <2>1, <3>1 DEF InHand
    <3>4. f \notin Vanished(previous[r], next[r])
      BY <2>1, <3>1 DEF InHand, Vanished
    <3>5. next[r][f] = None => index[f] = None
      BY <3>2, <3>4 DEF Vanished
    <3>6. next[r][f] # None => /\ index[f] # None
                               /\ PageOf(next[r][f]) = PageOf(index[f])
      BY <2>1, <3>2, <3>3 DEF InHand, Dated, PageOf
    <3>7. ~Shows(f, index[f])
      BY <3>1, <3>5, <3>6 DEF Shows
    <3>8. PICK q \in Runs : pc[q] \in {"fragments", "failed"} /\ f \in Touched(q)
      BY <3>7 DEF Accounted
    <3>9. q # r
      BY <3>3, <3>4, <3>8 DEF Touched
    <3> QED
      BY <2>1, <2>2, <3>8, <3>9 DEF Touched
  <2>5. Mapped'
    BY <2>1, <2>2 DEF InHand, Mapped, Sound, Quiet, Active
  <2> QED
    BY <1>s, <2>3, <2>4, <2>5
<1>9. ASSUME NEW r \in Runs, PutSitemap(r) PROVE BucketInv'
  <2>1. /\ pc[r] = "sitemap" /\ index = next[r]
        /\ sitemap' = [f \in Feeds |->
                        IF next[r][f] # None /\ next[r][f].indexed
                        THEN next[r][f].lastmod ELSE None]
        /\ pc' = [pc EXCEPT ![r] = "done"]
        /\ UNCHANGED <<head, body, index, day, previous, next, todo, gone, half>>
    BY <1>9 DEF PutSitemap, InHand
  <2>2. /\ pc'[r] = "done" /\ Active(r)
        /\ \A q \in Runs \ {r} : pc'[q] = pc[q]
    BY <1>0, <2>1 DEF Active
  <2>3. \A q \in Runs : InHand(q)'
    BY <1>3, <2>2 DEF InHand
  <2>4. Accounted'
    BY <2>1, <2>2 DEF Accounted, Touched, Shows
  <2>5. Mapped'
    <3>1. \A f \in Feeds : index[f] # None => index[f].lastmod # None
      BY <1>0 DEF Index, Entry
    <3> QED
      BY <2>1, <3>1 DEF Mapped, Sound
  <2> QED
    BY <1>s, <2>3, <2>4, <2>5
<1>10. ASSUME NEW r \in Runs, Fail(r) PROVE BucketInv'
  <2>1. /\ Active(r) /\ pc' = [pc EXCEPT ![r] = "failed"]
        /\ UNCHANGED <<head, body, index, sitemap, day, previous, next, todo,
                       gone, half>>
    BY <1>10 DEF Fail, bucket
  <2>2. pc'[r] = "failed" /\ \A q \in Runs \ {r} : pc'[q] = pc[q]
    BY <1>0, <2>1
  <2>3. \A q \in Runs : InHand(q)'
    BY <1>3, <2>1, <2>2 DEF InHand
  <2>4. Accounted'
    BY <2>1, <2>2 DEF Accounted, Touched, Shows
  <2>5. Mapped'
    BY <2>1, <2>2 DEF Mapped, Sound, NobodyDied
  <2> QED
    BY <1>s, <2>3, <2>4, <2>5
<1> QED
  BY <1>1, <1>2, <1>5, <1>6, <1>7, <1>8, <1>9, <1>10 DEF Next, Step

LEMMA BucketInvHolds == Spec => [](TypeInv /\ BucketInv)
<1>1. Init => BucketInv
  BY DEF Init, NoEntries, BucketInv, Serial, Active, InHand, Accounted, Shows,
     Mapped, Sound
<1> QED
  BY <1>1, InitIsTyped, TypeInvInductive, BucketInvInductive, PTL DEF Spec

-----------------------------------------------------------------------------
(* Between runs, if none has died, the fragments are the ones the index    *)
(* has the hash of, as they were put on the day it gives as lastmod: the   *)
(* hashes that decide what is written next can be relied upon.             *)
THEOREM PagesAreIndexed == Spec => []PagesMatchIndex
<1>1. TypeInv /\ BucketInv => PagesMatchIndex
  <2> SUFFICES ASSUME TypeInv, BucketInv, Quiet, NobodyDied, NEW f \in Feeds
               PROVE  /\ Agrees(f)
                      /\ index[f] # None => head[f].put = index[f].lastmod
                                         /\ body[f].put = index[f].lastmod
    BY DEF PagesMatchIndex
  <2>1. Shows(f, index[f])
    BY DEF BucketInv, Accounted, Quiet, NobodyDied, Active
  <2>2. index[f] # None => PageOf(index[f]) # None
    BY NoneAssumption DEF TypeInv, TypeOK, Index, Entry, Page, PageOf
  <2> QED
    BY <2>1, <2>2 DEF Shows, Agrees, PageOf
<1> QED
  BY <1>1, BucketInvHolds, PTL

(* Between runs, if none has died, the sitemap lists exactly the pages     *)
(* that are up without a noindex, although the one is written on every run *)
(* and the others only when their hash changes.                            *)
THEOREM SitemapIsTrue == Spec => []SitemapMatchesRobots
<1>1. TypeInv /\ BucketInv => SitemapMatchesRobots
  <2> SUFFICES ASSUME TypeInv, BucketInv, Quiet, NobodyDied, NEW f \in Feeds
               PROVE  sitemap[f] # None <=> head[f] # None /\ head[f].shows.indexable
    BY DEF SitemapMatchesRobots
  <2>1. Shows(f, index[f])
    BY DEF BucketInv, Accounted, Quiet, NobodyDied, Active
  <2>2. sitemap[f] # None <=> index[f] # None /\ index[f].indexed
    BY DEF BucketInv, Mapped
  <2>3. index[f] # None => /\ PageOf(index[f]) # None
                           /\ index[f].indexed = index[f].sha.indexable
    BY NoneAssumption
    DEF TypeInv, TypeOK, Index, Entry, Page, PageOf, BucketInv, Mapped, Sound
  <2>4. index[f] # None => PageOf(index[f]).shows = index[f].sha
    BY DEF PageOf
  <2> QED
    BY <2>1, <2>2, <2>3, <2>4 DEF Shows
<1> QED
  BY <1>1, BucketInvHolds, PTL

(* Whatever dies, and where: a page that is not what the index says is one *)
(* that a run now writing, or one that died, had to write or delete.       *)
THEOREM DamageIsAccountedFor == Spec => []StaleOnlyAfterDeath
<1>1. TypeInv /\ BucketInv => StaleOnlyAfterDeath
  <2> SUFFICES ASSUME TypeInv, BucketInv, NEW f \in Feeds, ~Agrees(f)
               PROVE  \E r \in Runs :
                        /\ pc[r] \in {"fragments", "failed"}
                        /\ f \in Changed(previous[r], next[r])
                                 \cup Vanished(previous[r], next[r])
    BY DEF StaleOnlyAfterDeath
  <2>1. index[f] # None => PageOf(index[f]) # None
    BY NoneAssumption DEF TypeInv, TypeOK, Index, Entry, Page, PageOf
  <2>2. ~Shows(f, index[f])
    BY <2>1 DEF Shows, Agrees, PageOf
  <2> QED
    BY <2>2 DEF BucketInv, Accounted, Touched
<1> QED
  BY <1>1, BucketInvHolds, PTL
=============================================================================
