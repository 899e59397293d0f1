--------------------------- MODULE PublishProofs ---------------------------
(***************************************************************************)
(* What holds of Publish for every calendar, retention window, number of   *)
(* runs and choice of failing runs.  TypeOK needs nothing more; the others *)
(* are about runs that do not overlap: first what is up at a time, then    *)
(* what the dedupe and the retention of snapshots come to over many runs,  *)
(* that is what is kept, what is thinned, and when a quiet run writes.     *)
(***************************************************************************)
EXTENDS Publish, Inductions

USE DEF Runs, Days, Documents, NumDocs, Index

(* SnapshotsToDelete never drops the day of the run, so the snapshot just  *)
(* taken survives its own retention pass.                                  *)
LEMMA TodayIsKept ==
    ASSUME NEW idx \in Index, NEW now \in Days
    PROVE  now \notin SnapshotsToDelete(idx, now)
  BY PublishAssumption DEF SnapshotsToDelete

LEMMA DropIsDays ==
    ASSUME NEW idx \in Index, NEW now \in Days
    PROVE  SnapshotsToDelete(idx, now) \in SUBSET Days
  BY DEF SnapshotsToDelete, Listed

LEMMA WithoutIsIndex ==
    ASSUME NEW idx \in Index, NEW gone
    PROVE  Without(idx, gone) \in Index
  BY DEF Without

-----------------------------------------------------------------------------
(* How far a run is bounds what it has put; without it nothing says that   *)
(* the counter stops at the number of documents.                           *)
Counted ==
    \A r \in Runs : /\ pc[r] = "idle" => put[r] = 0
                    /\ pc[r] = "documents" => put[r] < NumDocs
                    /\ Active(r) /\ pc[r] # "documents" => put[r] = NumDocs

TypeInv == TypeOK /\ Counted

LEMMA TypeInvInductive == TypeInv /\ [Next]_vars => TypeInv'
<1> SUFFICES ASSUME TypeInv, [Next]_vars PROVE TypeInv'
  OBVIOUS
<1> USE PublishAssumption DEF TypeInv
<1>0. /\ pc \in [Runs -> PC] /\ put \in [Runs -> 0 .. NumDocs] /\ Counted
      /\ docs \in [Documents -> 0 .. MaxRuns] /\ snapshots \in Index
      /\ dropped \in [Runs -> SUBSET Days]
  BY DEF TypeOK
<1>a. snapshots \in Index /\ day \in [Runs -> Days]
      /\ dropped \in [Runs -> SUBSET Days] /\ ahead \in [Runs -> SUBSET Days]
  BY DEF TypeOK
<1>1. CASE NextDay
  <2>1. today' \in Days
    BY <1>1 DEF NextDay, TypeOK
  <2>2. UNCHANGED <<docs, snapshots, index, manifest, pc, day, payload, put,
                    newIndex, dropped, ahead>>
    BY <1>1 DEF NextDay, bucket, locals
  <2> QED
    BY <2>1, <2>2 DEF TypeOK, Counted, Active
<1>2. ASSUME NEW r \in Runs, Start(r) PROVE TypeInv'
  <2>1. pc' \in [Runs -> PC] /\ day' \in [Runs -> Days]
    BY <1>2 DEF Start, TypeOK, PC
  <2>2. payload' \in [Runs -> Payloads \cup {None}]
    BY <1>2 DEF Start, TypeOK
  <2>3. UNCHANGED <<today, docs, snapshots, index, manifest, put, newIndex,
                    dropped, ahead>>
    BY <1>2 DEF Start, bucket
  <2>4. Counted'
    BY <1>0, <1>2, <2>1, <2>3 DEF Start, Counted, Active, PC
  <2> QED
    BY <2>1, <2>2, <2>3, <2>4 DEF TypeOK
<1>3. ASSUME NEW r \in Runs, PutDocument(r) PROVE TypeInv'
  <2>1. put[r] \in 0 .. 4
    BY <1>0, <1>3 DEF PutDocument, Counted
  <2>2. docs' \in [Documents -> 0 .. MaxRuns]
    BY <1>0, <1>3, <2>1 DEF PutDocument
  <2>3. put' \in [Runs -> 0 .. NumDocs] /\ pc' \in [Runs -> PC]
    BY <1>0, <1>3, <2>1 DEF PutDocument, PC
  <2>4. UNCHANGED <<today, snapshots, index, manifest, day, payload, newIndex,
                    dropped, ahead>>
    BY <1>3 DEF PutDocument
  <2>5. Counted'
    BY <1>0, <1>3, <2>1, <2>3 DEF PutDocument, Counted, Active, PC
  <2> QED
    BY <2>2, <2>3, <2>4, <2>5 DEF TypeOK
<1>4. ASSUME NEW r \in Runs, PublishPages(r) PROVE TypeInv'
  <2>1. pc' \in [Runs -> PC]
    BY <1>4 DEF PublishPages, TypeOK, PC
  <2>2. UNCHANGED <<today, docs, snapshots, index, manifest, day, payload,
                    put, newIndex, dropped, ahead>>
    BY <1>4 DEF PublishPages, bucket
  <2>3. Counted'
    BY <1>4, <2>1, <2>2 DEF PublishPages, TypeOK, Counted, Active, PC
  <2> QED
    BY <2>1, <2>2, <2>3 DEF TypeOK
<1>5. ASSUME NEW r \in Runs, ReadIndex(r) PROVE TypeInv'
  <2> DEFINE unchanged == \E d \in Days : IsLatest(index, d)
                                       /\ index[d] = payload[r]
             appended == IF unchanged THEN index
                         ELSE [index EXCEPT ![day[r]] = payload[r]]
             drop == SnapshotsToDelete(appended, day[r])
  <2>1. appended \in Index /\ day[r] \in Days
    BY DEF TypeOK
  <2>2. Without(appended, drop) \in Index /\ drop \in SUBSET Days
    BY <2>1, DropIsDays, WithoutIsIndex
  <2>3. /\ newIndex' = [newIndex EXCEPT ![r] = Without(appended, drop)]
        /\ dropped' = [dropped EXCEPT ![r] = drop]
        /\ pc' = [pc EXCEPT ![r] = IF unchanged THEN "delete" ELSE "snapshot"]
        /\ pc[r] = "readindex"
    BY <1>5 DEF ReadIndex
  <2> HIDE DEF unchanged, appended, drop
  <2>4. newIndex' \in [Runs -> Index] /\ dropped' \in [Runs -> SUBSET Days]
    BY <2>2, <2>3 DEF TypeOK
  <2>5. pc' \in [Runs -> PC]
    BY <2>3 DEF TypeOK, PC
  <2>6. UNCHANGED <<today, docs, snapshots, index, manifest, day, payload, put,
                    ahead>>
    BY <1>5 DEF ReadIndex, bucket
  <2>7. Counted'
    BY <2>3, <2>5, <2>6 DEF TypeOK, Counted, Active, PC
  <2> QED
    BY <2>4, <2>5, <2>6, <2>7 DEF TypeOK
<1>6. ASSUME NEW r \in Runs, PutSnapshot(r) PROVE TypeInv'
  <2>1. snapshots' \in Index /\ pc' \in [Runs -> PC]
    BY <1>6 DEF PutSnapshot, TypeOK, PC
  <2>1a. ahead' \in [Runs -> SUBSET Days]
    BY <1>a, <1>6 DEF PutSnapshot
  <2>2. UNCHANGED <<today, docs, index, manifest, day, payload, put, newIndex,
                    dropped>>
    BY <1>6 DEF PutSnapshot
  <2>3. Counted'
    BY <1>6, <2>1, <2>2 DEF PutSnapshot, TypeOK, Counted, Active, PC
  <2> QED
    BY <2>1, <2>1a, <2>2, <2>3 DEF TypeOK
<1>7. ASSUME NEW r \in Runs, DeleteSnapshot(r) PROVE TypeInv'
  <2>1. /\ snapshots' \in Index /\ dropped' \in [Runs -> SUBSET Days]
        /\ ahead' \in [Runs -> SUBSET Days]
    BY <1>a, <1>7 DEF DeleteSnapshot
  <2>2. UNCHANGED <<today, docs, index, manifest, pc, day, payload, put,
                    newIndex>>
    BY <1>7 DEF DeleteSnapshot
  <2> QED
    BY <2>1, <2>2 DEF TypeOK, Counted, Active
<1>8. ASSUME NEW r \in Runs, PutIndex(r) PROVE TypeInv'
  <2>1. index' \in Index /\ pc' \in [Runs -> PC]
    BY <1>8 DEF PutIndex, TypeOK, PC
  <2>1a. ahead' \in [Runs -> SUBSET Days]
    BY <1>a, <1>8 DEF PutIndex
  <2>2. UNCHANGED <<today, docs, snapshots, manifest, day, payload, put,
                    newIndex, dropped>>
    BY <1>8 DEF PutIndex
  <2>3. Counted'
    BY <1>8, <2>1, <2>2 DEF PutIndex, TypeOK, Counted, Active, PC
  <2> QED
    BY <2>1, <2>1a, <2>2, <2>3 DEF TypeOK
<1>9. ASSUME NEW r \in Runs, PutManifest(r) PROVE TypeInv'
  <2>1. newIndex[r] \in Index
    BY DEF TypeOK
  <2>2. manifest' \in [run: 0 .. MaxRuns, docs: [Documents -> 0 .. MaxRuns],
                       index: Index]
    BY <1>9, <2>1 DEF PutManifest
  <2>3. pc' \in [Runs -> PC]
    BY <1>9 DEF PutManifest, TypeOK, PC
  <2>4. UNCHANGED <<today, docs, snapshots, index, day, payload, put,
                    newIndex, dropped, ahead>>
    BY <1>9 DEF PutManifest
  <2>5. Counted'
    BY <1>9, <2>3, <2>4 DEF PutManifest, TypeOK, Counted, Active, PC
  <2> QED
    BY <2>2, <2>3, <2>4, <2>5 DEF TypeOK
<1>10. ASSUME NEW r \in Runs, Fail(r) PROVE TypeInv'
  <2>1. pc' \in [Runs -> PC]
    BY <1>10 DEF Fail, TypeOK, PC
  <2>2. UNCHANGED <<today, docs, snapshots, index, manifest, day, payload,
                    put, newIndex, dropped, ahead>>
    BY <1>10 DEF Fail, bucket
  <2>3. Counted'
    BY <1>10, <2>1, <2>2 DEF Fail, TypeOK, Counted, Active, PC
  <2> QED
    BY <2>1, <2>2, <2>3 DEF TypeOK
<1>11. CASE UNCHANGED vars
  BY <1>11 DEF vars, bucket, locals, TypeOK, Counted, Active
<1> QED
  BY <1>1, <1>2, <1>3, <1>4, <1>5, <1>6, <1>7, <1>8, <1>9, <1>10, <1>11
  DEF Next, Step

LEMMA TypeInvHolds == Spec => []TypeInv
<1>1. Init => TypeInv
  BY PublishAssumption DEF Init, TypeInv, TypeOK, Counted, Active, PC, EmptyIndex
<1> QED
  BY <1>1, TypeInvInductive, PTL DEF Spec

(* Every variable stays in its domain: in particular a run never counts    *)
(* more documents than there are, and no entry of an index is anything but *)
(* a payload hash or absent.                                               *)
THEOREM TypeCorrect == Spec => []TypeOK
  BY TypeInvHolds, PTL DEF TypeInv

-----------------------------------------------------------------------------
(* Runs that do not overlap.                                               *)

Serial == \A q, r \in Runs : Active(q) /\ Active(r) => q = r

(* The active run, and no other, wrote the documents it counts; the index  *)
(* it is about to advertise is the one in the bucket.                      *)
Written ==
    \A r \in Runs :
        /\ Active(r) => \A k \in 1 .. put[r] : docs[k] = r
        /\ pc[r] = "manifest" => index = newIndex[r]

(* A step other than Start makes no run active.                            *)
LEMMA ActiveShrinks ==
    ASSUME TypeInv, NEW r \in Runs, Step(r) \/ Fail(r) \/ NextDay,
           NEW q \in Runs, Active(q)'
    PROVE  Active(q)
<1>1. pc \in [Runs -> PC]
  BY DEF TypeInv, TypeOK
<1> QED
  BY <1>1 DEF Active, Step, PutDocument, PublishPages, ReadIndex, PutSnapshot,
     DeleteSnapshot, PutIndex, PutManifest, Fail, NextDay, locals

LEMMA SerialInductive ==
    ASSUME OverlappingRuns = {}, TypeInv, Serial, [Next]_vars
    PROVE  Serial'
<1>0. pc \in [Runs -> PC]
  BY DEF TypeInv, TypeOK
<1>1. ASSUME NEW r \in Runs, Start(r) PROVE Serial'
  BY <1>0, <1>1 DEF Start, Serial, Active
<1>2. ASSUME NEW r \in Runs, Step(r) \/ Fail(r) PROVE Serial'
  BY <1>2, ActiveShrinks DEF Serial
<1>3. CASE NextDay
  BY <1>3 DEF NextDay, locals, Serial, Active
<1>4. CASE UNCHANGED vars
  BY <1>4 DEF vars, locals, Serial, Active
<1> QED
  BY <1>1, <1>2, <1>3, <1>4 DEF Next

LEMMA WrittenInductive ==
    ASSUME OverlappingRuns = {}, TypeInv, TypeInv', Serial, Serial', Written,
           [Next]_vars
    PROVE  Written'
<1>0. /\ pc \in [Runs -> PC] /\ put \in [Runs -> 0 .. NumDocs] /\ Counted
      /\ docs \in [Documents -> 0 .. MaxRuns]
      /\ newIndex \in [Runs -> Index]
  BY DEF TypeInv, TypeOK
<1>1. ASSUME NEW r \in Runs, Start(r) PROVE Written'
  BY <1>0, <1>1 DEF Start, bucket, Written, Counted, Active
<1>2. ASSUME NEW r \in Runs, PutDocument(r) PROVE Written'
  <2>1. put[r] \in 0 .. 4 /\ Active(r)
    BY <1>0, <1>2 DEF PutDocument, Counted, Active
  <2>2. \A q \in Runs : Active(q)' => q = r
    BY <1>2, <2>1, ActiveShrinks DEF Step, Serial
  <2>3. \A k \in 1 .. put'[r] : docs'[k] = r
    BY <1>0, <1>2, <2>1 DEF PutDocument, Written
  <2>4. \A q \in Runs : pc'[q] # "manifest"
    BY <1>0, <1>2, <2>1, <2>2 DEF PutDocument, Active
  <2> QED
    BY <2>2, <2>3, <2>4 DEF Written
<1>3. ASSUME NEW r \in Runs, PublishPages(r) PROVE Written'
  BY <1>0, <1>3 DEF PublishPages, bucket, Written, Active
<1>4. ASSUME NEW r \in Runs, ReadIndex(r) PROVE Written'
  <2>1. Active(r) /\ pc'[r] # "manifest"
    BY <1>0, <1>4 DEF ReadIndex, Active
  <2>2. \A q \in Runs : Active(q)' => q = r
    BY <1>4, <2>1, ActiveShrinks DEF Step, Serial
  <2>3. UNCHANGED <<docs, put>>
    BY <1>4 DEF ReadIndex, bucket
  <2> QED
    BY <1>0, <2>1, <2>2, <2>3 DEF Written, Active
<1>5. ASSUME NEW r \in Runs, PutSnapshot(r) PROVE Written'
  BY <1>0, <1>5 DEF PutSnapshot, Written, Active
<1>6. ASSUME NEW r \in Runs, DeleteSnapshot(r) PROVE Written'
  BY <1>0, <1>6 DEF DeleteSnapshot, Written, Active
<1>7. ASSUME NEW r \in Runs, PutIndex(r) PROVE Written'
  <2>1. Active(r)
    BY <1>7 DEF PutIndex, Active
  <2>2. \A q \in Runs : Active(q)' => q = r
    BY <1>7, <2>1, ActiveShrinks DEF Step, Serial
  <2>3. UNCHANGED <<docs, put, newIndex>> /\ index' = newIndex[r]
    BY <1>7 DEF PutIndex
  <2> QED
    BY <1>0, <2>1, <2>2, <2>3 DEF Written, Active
<1>8. ASSUME NEW r \in Runs, PutManifest(r) PROVE Written'
  BY <1>0, <1>8 DEF PutManifest, Written, Active
<1>9. ASSUME NEW r \in Runs, Fail(r) PROVE Written'
  BY <1>0, <1>9 DEF Fail, bucket, Written, Active
<1>10. CASE NextDay
  BY <1>10 DEF NextDay, bucket, locals, Written, Active
<1>11. CASE UNCHANGED vars
  BY <1>11 DEF vars, bucket, locals, Written, Active
<1> QED
  BY <1>1, <1>2, <1>3, <1>4, <1>5, <1>6, <1>7, <1>8, <1>9, <1>10, <1>11
  DEF Next, Step

(* "It must never advertise a hash for a file that is not up yet": when    *)
(* runs do not overlap, every manifest that goes up lists documents and an *)
(* index that are in the bucket at that moment, for any number of runs and *)
(* whichever of them died, and where.                                      *)
THEOREM ManifestIsSafe ==
    ASSUME OverlappingRuns = {}
    PROVE  Spec => ManifestAdvertisesWhatIsUp
<1> DEFINE Inv == TypeInv /\ Serial /\ Written
<1>1. Init => Serial /\ Written
  BY PublishAssumption DEF Init, Serial, Written, Active
<1>2. Init => TypeInv
  BY PublishAssumption DEF Init, TypeInv, TypeOK, Counted, Active, PC, EmptyIndex
<1>3. Inv /\ [Next]_vars => Inv'
  BY TypeInvInductive, SerialInductive, WrittenInductive
<1>4. Inv /\ [Next]_vars =>
        [manifest' # manifest =>
            docs = manifest'.docs /\ index = manifest'.index]_vars
  <2> SUFFICES ASSUME Inv, Next, manifest' # manifest
               PROVE  docs = manifest'.docs /\ index = manifest'.index
    BY DEF vars, bucket
  <2>1. PICK r \in Runs : PutManifest(r)
    BY DEF Next, NextDay, Start, Step, PutDocument, PublishPages, ReadIndex,
       PutSnapshot, DeleteSnapshot, PutIndex, Fail, bucket
  <2>2. put[r] = NumDocs /\ Active(r)
    BY <2>1 DEF PutManifest, TypeInv, Counted, Active
  <2>3. docs \in [Documents -> 0 .. MaxRuns]
    BY DEF TypeInv, TypeOK
  <2>4. docs = [k \in Documents |-> r]
    BY <2>2, <2>3 DEF Written
  <2>5. index = newIndex[r]
    BY <2>1 DEF PutManifest, Written
  <2> QED
    BY <2>1, <2>4, <2>5 DEF PutManifest
<1> QED
  BY <1>1, <1>2, <1>3, <1>4, PTL DEF Spec, ManifestAdvertisesWhatIsUp

-----------------------------------------------------------------------------
(* The stored snapshots against the index that names them.                 *)

(* What the index a run is going to put has to do with the bucket: it is   *)
(* already true of what the run has touched, it lists none of what is      *)
(* still to be deleted, and anywhere else but at a snapshot still to be    *)
(* put it is the index that is there.                                      *)
Pending(r) ==
    /\ \A d \in ahead[r] : snapshots[d] = newIndex[r][d]
    /\ \A d \in dropped[r] : newIndex[r][d] = None
    /\ \A d \in Days : newIndex[r][d] # index[d] =>
            d \in ahead[r] \cup dropped[r] \/ (pc[r] = "snapshot" /\ d = day[r])

InPhase(r) == pc[r] \in {"snapshot", "delete"}

Accounted ==
    /\ DamageIsLocal
    /\ \A r \in Runs : pc[r] \notin {"delete", "failed"} => ahead[r] = {}
    /\ \A r \in Runs : InPhase(r) => Pending(r)
    /\ \A r \in Runs : pc[r] = "snapshot" => newIndex[r][day[r]] = payload[r]

LEMMA AccountedInductive ==
    ASSUME OverlappingRuns = {}, TypeInv, Serial, Serial', Accounted,
           [Next]_vars
    PROVE  Accounted'
<1>0. /\ pc \in [Runs -> PC] /\ day \in [Runs -> Days]
      /\ newIndex \in [Runs -> Index] /\ dropped \in [Runs -> SUBSET Days]
      /\ snapshots \in Index /\ index \in Index
      /\ payload \in [Runs -> Payloads \cup {None}]
      /\ ahead \in [Runs -> SUBSET Days]
  BY DEF TypeInv, TypeOK
(* A step of an active run: the others are not in their snapshot phase.    *)
<1>o. ASSUME NEW r \in Runs, Active(r), Step(r) \/ Fail(r),
             NEW q \in Runs, q # r
      PROVE  ~InPhase(q) /\ ~InPhase(q)'
  BY <1>o, ActiveShrinks DEF Serial, Active, InPhase
(* Steps outside the phase, and deaths, touch nothing of what this says.   *)
<1>1. ASSUME NEW r \in Runs,
             \/ Start(r) \/ PutDocument(r) \/ PublishPages(r) \/ PutManifest(r)
             \/ Fail(r)
      PROVE  Accounted'
  <2>1. /\ UNCHANGED <<snapshots, index, newIndex, dropped, ahead>>
        /\ ~InPhase(r)'
        /\ pc'[r] # "failed" => pc[r] \notin {"delete", "failed"}
        /\ \A q \in Runs : q # r => pc'[q] = pc[q]
    BY <1>0, <1>1 DEF Start, PutDocument, PublishPages, PutManifest, Fail,
       Active, InPhase, bucket
  <2>2. \A q \in Runs : ~InPhase(q)'
    <3>1. CASE Start(r)
      BY <1>0, <2>1, <3>1 DEF Start, Active, InPhase
    <3>2. CASE ~Start(r)
      BY <1>1, <1>o, <2>1, <3>2
      DEF Step, Active, PutDocument, PublishPages, PutManifest, Fail
    <3> QED
      BY <3>1, <3>2
  <2>3. DamageIsLocal'
    BY <2>1 DEF Accounted, DamageIsLocal
  <2>4. \A q \in Runs : pc'[q] \notin {"delete", "failed"} => ahead'[q] = {}
    BY <2>1 DEF Accounted
  <2> QED
    BY <2>2, <2>3, <2>4 DEF Accounted, InPhase
<1>3. ASSUME NEW r \in Runs, ReadIndex(r) PROVE Accounted'
  <2> DEFINE unchanged == \E d \in Days : IsLatest(index, d)
                                       /\ index[d] = payload[r]
             appended == IF unchanged THEN index
                         ELSE [index EXCEPT ![day[r]] = payload[r]]
             drop == SnapshotsToDelete(appended, day[r])
  <2>1. /\ newIndex' = [newIndex EXCEPT ![r] = Without(appended, drop)]
        /\ dropped' = [dropped EXCEPT ![r] = drop]
        /\ pc' = [pc EXCEPT ![r] = IF unchanged THEN "delete" ELSE "snapshot"]
        /\ pc[r] = "readindex"
        /\ UNCHANGED <<snapshots, index, day, payload, ahead>>
    BY <1>3 DEF ReadIndex, bucket
  <2>2. appended \in Index /\ day[r] \in Days
    BY <1>0
  <2>3. day[r] \notin drop
    BY <2>2, TodayIsKept
  <2>4. unchanged => appended = index
    OBVIOUS
  <2>5. ~unchanged => appended = [index EXCEPT ![day[r]] = payload[r]]
    OBVIOUS
  <2> HIDE DEF unchanged, appended, drop
  <2>6. /\ newIndex'[r] = Without(appended, drop) /\ dropped'[r] = drop
        /\ day'[r] = day[r] /\ payload'[r] = payload[r]
        /\ pc'[r] = IF unchanged THEN "delete" ELSE "snapshot"
        /\ ahead'[r] = {}
    BY <1>0, <2>1 DEF Accounted
  <2>7. \A d \in Days : newIndex'[r][d] = IF d \in drop THEN None
                                                       ELSE appended[d]
    BY <2>6 DEF Without
  <2>8. drop \in SUBSET Days
    BY <2>2, DropIsDays DEF drop
  <2>9. Pending(r)'
    <3>1. \A d \in dropped'[r] : newIndex'[r][d] = None
      BY <2>6, <2>7, <2>8
    <3>2. ASSUME NEW d \in Days, newIndex'[r][d] # index'[d]
          PROVE  d \in dropped'[r] \/ (pc'[r] = "snapshot" /\ d = day'[r])
      <4>1. CASE d \in drop
        BY <2>6, <4>1
      <4>2. CASE d \notin drop
        BY <1>0, <2>1, <2>4, <2>5, <2>6, <2>7, <3>2, <4>2
      <4> QED
        BY <4>1, <4>2
    <3> QED
      BY <2>6, <3>1, <3>2 DEF Pending
  <2>10. \A q \in Runs : q # r => ~InPhase(q)'
    BY <1>3, <1>o, <2>1 DEF Step, Active
  <2>11. pc'[r] = "snapshot" => newIndex'[r][day'[r]] = payload'[r]
    BY <1>0, <2>2, <2>3, <2>5, <2>6, <2>7
  <2>12. DamageIsLocal'
    BY <2>1 DEF Accounted, DamageIsLocal
  <2>13. \A q \in Runs : pc'[q] \notin {"delete", "failed"} => ahead'[q] = {}
    BY <1>0, <2>1, <2>6 DEF Accounted
  <2> QED
    BY <2>9, <2>10, <2>11, <2>12, <2>13 DEF Accounted, InPhase
<1>4. ASSUME NEW r \in Runs, PutSnapshot(r) PROVE Accounted'
  <2>1. /\ pc[r] = "snapshot" /\ pc' = [pc EXCEPT ![r] = "delete"]
        /\ snapshots' = [snapshots EXCEPT ![day[r]] = payload[r]]
        /\ ahead' = [ahead EXCEPT ![r] = {day[r]}]
        /\ UNCHANGED <<index, day, payload, newIndex, dropped>>
    BY <1>4 DEF PutSnapshot
  <2>2. \A q \in Runs : q # r => ~InPhase(q)'
    BY <1>4, <1>o, <2>1 DEF Step, Active
  <2>3. /\ pc'[r] = "delete" /\ ahead'[r] = {day[r]} /\ ahead[r] = {}
        /\ \A q \in Runs : q # r => ahead'[q] = ahead[q]
    BY <1>0, <2>1 DEF Accounted
  <2>4. Pending(r) /\ newIndex[r][day[r]] = payload[r]
    BY <2>1 DEF Accounted, InPhase
  <2>5. Pending(r)'
    BY <1>0, <2>1, <2>3, <2>4 DEF Pending
  <2>6. ASSUME NEW d \in Days, snapshots'[d] # index'[d]
        PROVE  \E q \in Runs : d \in ahead'[q]
    <3>1. CASE d = day[r]
      BY <2>3, <3>1
    <3>2. CASE d # day[r]
      <4>1. PICK q \in Runs : d \in ahead[q]
        BY <1>0, <2>1, <2>6, <3>2 DEF Accounted, DamageIsLocal
      <4> QED
        BY <2>3, <4>1
    <3> QED
      BY <3>1, <3>2
  <2>7. \A q \in Runs : pc'[q] \notin {"delete", "failed"} => ahead'[q] = {}
    BY <1>0, <2>1, <2>3 DEF Accounted
  <2> QED
    BY <2>2, <2>3, <2>5, <2>6, <2>7 DEF Accounted, DamageIsLocal, InPhase
<1>5. ASSUME NEW r \in Runs, DeleteSnapshot(r) PROVE Accounted'
  <2>1. PICK e \in dropped[r] :
          /\ snapshots' = [snapshots EXCEPT ![e] = None]
          /\ dropped' = [dropped EXCEPT ![r] = @ \ {e}]
          /\ ahead' = [ahead EXCEPT ![r] = @ \cup {e}]
    BY <1>5 DEF DeleteSnapshot
  <2>2. pc[r] = "delete" /\ UNCHANGED <<index, pc, day, payload, newIndex>>
    BY <1>5 DEF DeleteSnapshot
  <2>3. \A q \in Runs : q # r => ~InPhase(q)'
    BY <1>5, <1>o, <2>2 DEF Step, Active
  <2>4. /\ dropped'[r] = dropped[r] \ {e} /\ ahead'[r] = ahead[r] \cup {e}
        /\ \A q \in Runs : q # r => ahead'[q] = ahead[q]
        /\ e \in Days
    BY <1>0, <2>1
  <2>5. Pending(r)
    BY <2>2 DEF Accounted, InPhase
  <2>6. Pending(r)'
    <3>1. \A d \in ahead'[r] : snapshots'[d] = newIndex'[r][d]
      BY <1>0, <2>1, <2>2, <2>4, <2>5 DEF Pending
    <3>2. \A d \in dropped'[r] : newIndex'[r][d] = None
      BY <2>2, <2>4, <2>5 DEF Pending
    <3>3. \A d \in Days : newIndex'[r][d] # index'[d] =>
                              d \in ahead'[r] \cup dropped'[r]
      BY <2>2, <2>4, <2>5 DEF Pending
    <3> QED
      BY <3>1, <3>2, <3>3 DEF Pending
  <2>7. ASSUME NEW d \in Days, snapshots'[d] # index'[d]
        PROVE  \E q \in Runs : d \in ahead'[q]
    <3>1. CASE d = e
      BY <2>4, <3>1
    <3>2. CASE d # e
      <4>1. PICK q \in Runs : d \in ahead[q]
        BY <1>0, <2>1, <2>2, <2>7, <3>2 DEF Accounted, DamageIsLocal
      <4> QED
        BY <2>4, <4>1
    <3> QED
      BY <3>1, <3>2
  <2>8. \A q \in Runs : pc'[q] \notin {"delete", "failed"} => ahead'[q] = {}
    BY <2>2, <2>4 DEF Accounted
  <2> QED
    BY <2>2, <2>3, <2>6, <2>7, <2>8 DEF Accounted, DamageIsLocal, InPhase
(* The index is now true of what the run has touched; elsewhere it is the  *)
(* one that was there.                                                     *)
<1>6. ASSUME NEW r \in Runs, PutIndex(r) PROVE Accounted'
  <2>1. /\ pc[r] = "delete" /\ dropped[r] = {}
        /\ index' = newIndex[r] /\ pc' = [pc EXCEPT ![r] = "manifest"]
        /\ ahead' = [ahead EXCEPT ![r] = {}]
        /\ UNCHANGED snapshots
    BY <1>6 DEF PutIndex
  <2>2. \A q \in Runs : ~InPhase(q)'
    BY <1>0, <1>6, <1>o, <2>1 DEF Step, Active, InPhase
  <2>3. Pending(r)
    BY <2>1 DEF Accounted, InPhase
  <2>4. ASSUME NEW d \in Days, snapshots'[d] # index'[d]
        PROVE  \E q \in Runs : d \in ahead'[q]
    <3>1. d \notin ahead[r] /\ snapshots[d] # index[d]
      BY <2>1, <2>3, <2>4 DEF Pending
    <3>2. PICK q \in Runs : d \in ahead[q]
      BY <3>1 DEF Accounted, DamageIsLocal
    <3> QED
      BY <1>0, <2>1, <3>1, <3>2
  <2>5. \A q \in Runs : pc'[q] \notin {"delete", "failed"} => ahead'[q] = {}
    BY <1>0, <2>1 DEF Accounted
  <2> QED
    BY <2>2, <2>4, <2>5 DEF Accounted, DamageIsLocal, InPhase
<1>7. CASE NextDay \/ UNCHANGED vars
  BY <1>7 DEF NextDay, vars, bucket, locals, Accounted, DamageIsLocal,
     Pending, InPhase
<1> QED
  BY <1>1, <1>3, <1>4, <1>5, <1>6, <1>7 DEF Next, Step

LEMMA AccountedHolds ==
    ASSUME OverlappingRuns = {}
    PROVE  Spec => []Accounted
<1> DEFINE Inv == TypeInv /\ Serial /\ Accounted
<1>1. Init => Inv
  BY PublishAssumption DEF Init, TypeInv, TypeOK, Counted, Serial, Accounted,
     DamageIsLocal, InPhase, Active, PC, EmptyIndex
<1>2. Inv /\ [Next]_vars => Inv'
  BY TypeInvInductive, SerialInductive, AccountedInductive
<1> QED
  BY <1>1, <1>2, PTL DEF Spec

(* However many runs die, and wherever, a day's snapshot and its index     *)
(* entry disagree only if the day is one whose object a dead run, or the   *)
(* run now in its snapshot phase, has touched without putting the index.   *)
THEOREM DamageStaysLocal ==
    ASSUME OverlappingRuns = {}
    PROVE  Spec => []DamageIsLocal
<1>1. Accounted => DamageIsLocal
  BY DEF Accounted
<1> QED
  BY <1>1, AccountedHolds, PTL

-----------------------------------------------------------------------------
(* One reading of the index                                                *)

Appended(idx, p, now) ==
    IF \E d \in Days : IsLatest(idx, d) /\ idx[d] = p THEN idx
    ELSE [idx EXCEPT ![now] = p]
Computed(idx, p, now) ==
    Without(Appended(idx, p, now),
            SnapshotsToDelete(Appended(idx, p, now), now))

(* What new has lost of old goes to an older day of its week or month.     *)
KeepsOlder(old, new) ==
    \A d \in Days : old[d] # None /\ new[d] = None =>
        \E e \in Days :
            /\ e < d /\ old[e] # None /\ new[e] # None
            /\ WeekOf[e] = WeekOf[d] \/ MonthOf[e] = MonthOf[d]

Thin(idx, now) ==
    \A d, e \in Listed(idx) :
        d < e /\ e < now - DailyDays => Period(d, now) # Period(e, now)

(* The last snapshot is of these answers, or all are past the daily window.*)
Ends(idx, p, now) ==
    \/ \E d \in Days : IsLatest(idx, d) /\ idx[d] = p
    \/ \A d \in Listed(idx) : d < now - DailyDays

UpTo(idx, now) == \A d \in Listed(idx) : d <= now

LEMMA WithoutIs ==
    ASSUME NEW idx \in Index, NEW gone, NEW d \in Days
    PROVE  d \in Listed(Without(idx, gone)) <=>
                d \in Listed(idx) /\ d \notin gone
  BY DEF Without, Listed

LEMMA AppendedIs ==
    ASSUME NEW idx \in Index, NEW p \in Payloads, NEW now \in Days
    PROVE  /\ Appended(idx, p, now) \in Index
           /\ \/ Appended(idx, p, now) = idx
                 /\ \E d \in Days : IsLatest(idx, d) /\ idx[d] = p
              \/ Appended(idx, p, now)[now] = p
  BY DEF Appended

LEMMA AppendedOnlyNow ==
    ASSUME NEW idx \in Index, NEW p \in Payloads, NEW now \in Days,
           NEW d \in Days
    PROVE  /\ d # now => Appended(idx, p, now)[d] = idx[d]
           /\ idx[d] # None => Appended(idx, p, now)[d] # None
  BY PublishAssumption DEF Appended

(* The oldest of a period is kept, so whatever retention drops has an      *)
(* older day of its period that stays.                                     *)
LEMMA OldestStays ==
    ASSUME NEW idx \in Index, NEW now \in Days,
           NEW d \in SnapshotsToDelete(idx, now)
    PROVE  \E e \in Listed(idx) : /\ e < d /\ Period(e, now) = Period(d, now)
                                  /\ e \notin SnapshotsToDelete(idx, now)
<1> DEFINE T == {e \in Listed(idx) : Period(e, now) = Period(d, now)}
<1>1. d \in Days /\ Listed(idx) \in SUBSET Days
  BY DEF SnapshotsToDelete, Listed
<1>2. PICK c \in T : c < d
  BY DEF SnapshotsToDelete
<1>3. T \in SUBSET Nat /\ T # {}
  BY <1>1, <1>2
<1>4. PICK e \in T : \A c2 \in T : e <= c2
  BY <1>3, LeastExists
<1>5. e \in Listed(idx) /\ Period(e, now) = Period(d, now) /\ e < d
  BY <1>1, <1>2, <1>4
<1>6. e \notin SnapshotsToDelete(idx, now)
  <2> SUFFICES ASSUME e \in SnapshotsToDelete(idx, now) PROVE FALSE
    OBVIOUS
  <2>1. PICK c2 \in Listed(idx) : c2 < e /\ Period(c2, now) = Period(e, now)
    BY DEF SnapshotsToDelete
  <2>2. c2 \in T
    BY <1>5, <2>1
  <2> QED
    BY <1>1, <1>4, <2>1, <2>2
<1> QED
  BY <1>5, <1>6

LEMMA ComputedKeepsOlder ==
    ASSUME NEW idx \in Index, NEW p \in Payloads, NEW now \in Days
    PROVE  KeepsOlder(idx, Computed(idx, p, now))
<1> DEFINE app == Appended(idx, p, now)
           drop == SnapshotsToDelete(app, now)
           new == Computed(idx, p, now)
<1>1. app \in Index
  BY AppendedIs
<1>9. \A d \in Days : /\ d # now => app[d] = idx[d]
                      /\ idx[d] # None => app[d] # None
  BY AppendedOnlyNow
<1>0. new = Without(app, drop)
  BY DEF Computed
<1> HIDE DEF app, drop, new
<1>2. \A d \in Days : new[d] = IF d \in drop THEN None ELSE app[d]
  BY <1>0, <1>1 DEF Without
<1> SUFFICES ASSUME NEW d \in Days, idx[d] # None, new[d] = None
             PROVE  \E e \in Days :
                        /\ e < d /\ idx[e] # None /\ new[e] # None
                        /\ WeekOf[e] = WeekOf[d] \/ MonthOf[e] = MonthOf[d]
  BY DEF KeepsOlder, new
<1>3. app[d] # None
  BY <1>9
<1>4. d \in drop /\ d < now - DailyDays
  BY <1>2, <1>3 DEF SnapshotsToDelete, drop
<1>5. PICK e \in Listed(app) : /\ e < d /\ Period(e, now) = Period(d, now)
                               /\ e \notin drop
  BY <1>1, <1>4, OldestStays DEF drop
<1>6. e \in Days /\ app[e] # None /\ e # now
  BY <1>4, <1>5, PublishAssumption DEF Listed
<1>7. idx[e] # None /\ new[e] # None
  BY <1>2, <1>5, <1>6, <1>9
<1>8. WeekOf[e] = WeekOf[d] \/ MonthOf[e] = MonthOf[d]
  BY <1>5 DEF Period
<1> QED
  BY <1>5, <1>6, <1>7, <1>8

LEMMA ComputedIsThin ==
    ASSUME NEW idx \in Index, NEW p \in Payloads, NEW now \in Days
    PROVE  Thin(Computed(idx, p, now), now)
<1> DEFINE app == Appended(idx, p, now)
           drop == SnapshotsToDelete(app, now)
<1>1. app \in Index
  BY AppendedIs
<1> HIDE DEF app
<1> SUFFICES ASSUME NEW d \in Listed(Without(app, drop)),
                    NEW e \in Listed(Without(app, drop)),
                    d < e, e < now - DailyDays, Period(d, now) = Period(e, now)
             PROVE  FALSE
  BY DEF Thin, Computed, app
<1>2. /\ d \in Days /\ e \in Days /\ d \in Listed(app) /\ e \in Listed(app)
      /\ e \notin drop
  BY <1>1, WithoutIs DEF Listed
<1> QED
  BY <1>2 DEF SnapshotsToDelete

LEMMA ComputedEnds ==
    ASSUME NEW idx \in Index, NEW p \in Payloads, NEW now \in Days,
           UpTo(idx, now)
    PROVE  /\ Ends(Computed(idx, p, now), p, now)
           /\ UpTo(Computed(idx, p, now), now)
<1> DEFINE app == Appended(idx, p, now)
           drop == SnapshotsToDelete(app, now)
           new == Without(app, drop)
<1>1. app \in Index
  BY AppendedIs
<1>2. UpTo(app, now)
  <2>1. \A d \in Days : d # now => app[d] = idx[d]
    BY AppendedOnlyNow
  <2> HIDE DEF app
  <2> QED
    BY <2>1 DEF UpTo, Listed
<1>3. \E d \in Days : IsLatest(app, d) /\ app[d] = p
  <2>1. CASE app = idx /\ \E d \in Days : IsLatest(idx, d) /\ idx[d] = p
    BY <2>1
  <2>2. CASE app[now] = p
    <3> HIDE DEF app
    <3>1. IsLatest(app, now)
      BY <1>2, <2>2, PublishAssumption DEF IsLatest, UpTo, Listed
    <3> QED
      BY <2>2, <3>1
  <2> QED
    BY <2>1, <2>2, AppendedIs
<1>4. PICK d \in Days : IsLatest(app, d) /\ app[d] = p
  BY <1>3
<1>5. new = Computed(idx, p, now)
  BY DEF Computed
<1> HIDE DEF app, drop
<1>6. \A e \in Listed(new) : e \in Listed(app) /\ e \in Days
  BY <1>1, WithoutIs DEF Listed
<1>7. UpTo(new, now)
  BY <1>2, <1>6 DEF UpTo
<1>8. CASE d \in drop
  <2>1. d < now - DailyDays
    BY <1>8 DEF SnapshotsToDelete, drop
  <2>2. \A e \in Listed(new) : e < now - DailyDays
    BY <1>4, <1>6, <2>1, PublishAssumption DEF IsLatest
  <2> QED
    BY <1>5, <1>7, <2>2 DEF Ends
<1>9. CASE d \notin drop
  <2>1. new[d] = p /\ d \in Listed(new)
    <3>1. d \in Listed(app) /\ app[d] = p
      BY <1>4 DEF IsLatest
    <3> QED
      BY <1>1, <1>9, <3>1 DEF Without, Listed
  <2>2. IsLatest(new, d)
    BY <1>4, <1>6, <2>1 DEF IsLatest
  <2> HIDE DEF new
  <2> QED
    BY <1>5, <1>7, <2>1, <2>2 DEF Ends
<1> QED
  BY <1>8, <1>9

-----------------------------------------------------------------------------
(* Runs one after the other                                                *)

(* Before a run starts, all that started before it are over.               *)
InOrder ==
    \A q, r \in Runs : q < r /\ pc[r] # "idle" => pc[q] # "idle" /\ ~Active(q)

Timely ==
    /\ UpTo(index, today)
    /\ \A r \in Runs :
        /\ day[r] <= today
        /\ pc[r] # "idle" => payload[r] \in Payloads
        /\ Active(r) => UpTo(index, day[r])

(* What the active run has made of the index that is in the bucket.        *)
Read(r) ==
    /\ pc[r] \in {"snapshot", "delete"} =>
        /\ KeepsOlder(index, newIndex[r])
        /\ Thin(newIndex[r], day[r])
        /\ Ends(newIndex[r], payload[r], day[r])
        /\ UpTo(newIndex[r], day[r])
    /\ pc[r] = "snapshot" =>
        ~\E d \in Days : IsLatest(index, d) /\ index[d] = payload[r]

BeforeIndex == {"idle", "documents", "pages", "readindex", "snapshot", "delete"}

(* The index in the bucket is the one that the last run to put it made.    *)
IsLast(r) == /\ pc[r] \in {"manifest", "done"}
             /\ \A q \in Runs : q > r => pc[q] \in BeforeIndex

LastPut ==
    \A r \in Runs : IsLast(r) =>
        Thin(index, day[r]) /\ Ends(index, payload[r], day[r])

RetentionInv == InOrder /\ Timely /\ (\A r \in Runs : Read(r)) /\ LastPut

LEMMA OthersAreNotActive ==
    ASSUME InOrder, NEW q \in Runs, NEW r \in Runs, Active(q), Active(r)
    PROVE  q = r
<1>1. q < r \/ r < q \/ q = r
  BY PublishAssumption
<1> QED
  BY <1>1 DEF InOrder, Active

LEMMA InOrderInductive ==
    ASSUME OverlappingRuns = {}, TypeInv, InOrder, [Next]_vars
    PROVE  InOrder'
<1>0. pc \in [Runs -> PC]
  BY DEF TypeInv, TypeOK
<1>1. ASSUME NEW r \in Runs, Start(r) PROVE InOrder'
  BY <1>0, <1>1 DEF Start, InOrder, Active
<1>2. ASSUME NEW r \in Runs, Step(r) \/ Fail(r) PROVE InOrder'
  <2>1. pc[r] # "idle"
    BY <1>2 DEF Step, PutDocument, PublishPages, ReadIndex, PutSnapshot,
       DeleteSnapshot, PutIndex, PutManifest, Fail, Active
  <2>2. \A q \in Runs : pc'[q] = "idle" <=> pc[q] = "idle"
    BY <1>0, <1>2 DEF Step, PutDocument, PublishPages, ReadIndex, PutSnapshot,
       DeleteSnapshot, PutIndex, PutManifest, Fail, Active
  <2>3. \A q \in Runs : Active(q)' => Active(q)
    BY <1>2, ActiveShrinks
  <2> QED
    BY <2>2, <2>3 DEF InOrder
<1>3. CASE NextDay \/ UNCHANGED vars
  BY <1>3 DEF NextDay, vars, locals, InOrder, Active
<1> QED
  BY <1>1, <1>2, <1>3 DEF Next

(* All but Start, ReadIndex and PutIndex leave what Read, Timely and       *)
(* LastPut are about.                                                      *)
Bystanding(r) ==
    PutDocument(r) \/ PublishPages(r) \/ PutSnapshot(r) \/ DeleteSnapshot(r)
    \/ PutManifest(r) \/ Fail(r)

LEMMA BystandingKeeps ==
    ASSUME TypeInv, NEW r \in Runs, Bystanding(r)
    PROVE  /\ today' = today /\ index' = index /\ newIndex' = newIndex
           /\ day' = day /\ payload' = payload
           /\ \A q \in Runs :
                /\ pc'[q] = "snapshot" => pc[q] = "snapshot"
                /\ pc'[q] = "delete" => pc[q] \in {"snapshot", "delete"}
                /\ pc[q] = "idle" => pc'[q] = "idle"
                /\ pc'[q] \in {"manifest", "done"} =>
                        pc[q] \in {"manifest", "done"}
                /\ pc'[q] \in BeforeIndex => pc[q] \in BeforeIndex
                /\ Active(q)' => Active(q)
<1>0. pc \in [Runs -> PC]
  BY DEF TypeInv, TypeOK
<1>1. /\ today' = today /\ index' = index /\ newIndex' = newIndex
      /\ day' = day /\ payload' = payload
  BY DEF Bystanding, PutDocument, PublishPages, PutSnapshot, DeleteSnapshot,
     PutManifest, Fail, bucket
<1>2. \A q \in Runs : q # r => pc'[q] = pc[q]
  BY <1>0 DEF Bystanding, PutDocument, PublishPages, PutSnapshot,
     DeleteSnapshot, PutManifest, Fail
<1>3. \/ pc[r] = "documents" /\ pc'[r] \in {"documents", "pages"}
      \/ pc[r] = "pages" /\ pc'[r] = "readindex"
      \/ pc[r] = "snapshot" /\ pc'[r] = "delete"
      \/ pc[r] = "delete" /\ pc'[r] = "delete"
      \/ pc[r] = "manifest" /\ pc'[r] = "done"
      \/ Active(r) /\ pc'[r] = "failed"
  BY <1>0 DEF Bystanding, PutDocument, PublishPages, PutSnapshot,
     DeleteSnapshot, PutManifest, Fail
<1> QED
  BY <1>1, <1>2, <1>3 DEF Active, BeforeIndex

LEMMA BystandingKeepsInv ==
    ASSUME TypeInv, RetentionInv, NEW r \in Runs, Bystanding(r)
    PROVE  Timely' /\ (\A q \in Runs : Read(q)') /\ LastPut'
<1>1. Timely'
  BY BystandingKeeps DEF RetentionInv, Timely, UpTo
<1>2. ASSUME NEW q \in Runs PROVE Read(q)'
  <2>1. Read(q)
    BY DEF RetentionInv
  <2> QED
    BY <2>1, BystandingKeeps DEF Read
<1>3. LastPut'
  BY BystandingKeeps DEF RetentionInv, LastPut, IsLast
<1> QED
  BY <1>1, <1>2, <1>3

LEMMA StartKeepsInv ==
    ASSUME OverlappingRuns = {}, TypeInv, RetentionInv, NEW r \in Runs, Start(r)
    PROVE  Timely' /\ (\A q \in Runs : Read(q)') /\ LastPut'
<1>0. /\ pc \in [Runs -> PC] /\ day \in [Runs -> Days] /\ today \in Days
      /\ payload \in [Runs -> Payloads \cup {None}]
  BY DEF TypeInv, TypeOK
<1>1. /\ today' = today /\ index' = index /\ newIndex' = newIndex
      /\ pc[r] = "idle" /\ pc' = [pc EXCEPT ![r] = "documents"]
      /\ day' = [day EXCEPT ![r] = today]
      /\ \A q \in Runs : ~Active(q)
  BY DEF Start, bucket
<1>2. PICK p \in Payloads : payload' = [payload EXCEPT ![r] = p]
  BY DEF Start
<1>3. /\ day'[r] = today /\ payload'[r] \in Payloads /\ pc'[r] = "documents"
      /\ \A q \in Runs \ {r} : /\ day'[q] = day[q] /\ payload'[q] = payload[q]
                               /\ pc'[q] = pc[q]
  BY <1>0, <1>1, <1>2
<1>4. Timely'
  <2>1. \A q \in Runs \ {r} : ~Active(q)'
    BY <1>1, <1>3 DEF Active
  <2>2. UpTo(index', today')
    BY <1>1 DEF RetentionInv, Timely
  <2>3. \A q \in Runs : day'[q] <= today'
    BY <1>0, <1>1, <1>3 DEF RetentionInv, Timely
  <2>4. \A q \in Runs : pc'[q] # "idle" => payload'[q] \in Payloads
    BY <1>3 DEF RetentionInv, Timely
  <2>5. \A q \in Runs : Active(q)' => UpTo(index', day'[q])
    BY <1>1, <1>3, <2>1, <2>2
  <2> QED
    BY <2>2, <2>3, <2>4, <2>5 DEF Timely, UpTo, Listed
<1>5. ASSUME NEW q \in Runs PROVE Read(q)'
  <2>1. CASE q = r
    BY <1>3, <2>1 DEF Read
  <2>2. CASE q # r
    BY <1>1, <1>3, <2>2 DEF RetentionInv, Read
  <2> QED
    BY <2>1, <2>2
<1>6. LastPut'
  <2> SUFFICES ASSUME NEW q \in Runs, IsLast(q)'
               PROVE  Thin(index', day'[q]) /\ Ends(index', payload'[q], day'[q])
    BY DEF LastPut, Thin, Ends, IsLatest, Listed
  <2>1. q # r /\ pc[q] \in {"manifest", "done"}
    BY <1>3 DEF IsLast
  <2>2. IsLast(q)
    BY <1>1, <1>3, <2>1 DEF IsLast, BeforeIndex
  <2> QED
    BY <1>1, <1>3, <2>1, <2>2 DEF RetentionInv, LastPut
<1> QED
  BY <1>4, <1>5, <1>6

LEMMA ReadIndexKeepsInv ==
    ASSUME TypeInv, RetentionInv, NEW r \in Runs, ReadIndex(r)
    PROVE  Timely' /\ (\A q \in Runs : Read(q)') /\ LastPut'
<1> DEFINE unchanged == \E d \in Days : IsLatest(index, d)
                                        /\ index[d] = payload[r]
           new == Computed(index, payload[r], day[r])
<1>0. /\ pc \in [Runs -> PC] /\ day[r] \in Days /\ index \in Index
      /\ newIndex \in [Runs -> Index] /\ payload[r] \in Payloads
      /\ pc[r] = "readindex" /\ Active(r) /\ UpTo(index, day[r])
  BY DEF TypeInv, TypeOK, ReadIndex, Active, RetentionInv, Timely
<1>1. /\ today' = today /\ index' = index /\ day' = day /\ payload' = payload
      /\ newIndex' = [newIndex EXCEPT ![r] = new]
      /\ pc' = [pc EXCEPT ![r] = IF unchanged THEN "delete" ELSE "snapshot"]
  BY DEF ReadIndex, bucket, Computed, Appended
<1> HIDE DEF new, unchanged
<1>2. /\ newIndex'[r] = new
      /\ \A q \in Runs \ {r} : pc'[q] = pc[q] /\ newIndex'[q] = newIndex[q]
      /\ pc'[r] = IF unchanged THEN "delete" ELSE "snapshot"
  BY <1>0, <1>1
<1>3. Timely'
  <2>1. \A q \in Runs : /\ Active(q)' => Active(q)
                        /\ pc'[q] # "idle" => pc[q] # "idle"
    BY <1>0, <1>2 DEF Active
  <2> QED
    BY <1>1, <2>1 DEF RetentionInv, Timely, UpTo, Listed
<1>4. Read(r)'
  <2>1. /\ KeepsOlder(index, new) /\ Thin(new, day[r])
        /\ Ends(new, payload[r], day[r]) /\ UpTo(new, day[r])
    BY <1>0, ComputedKeepsOlder, ComputedIsThin, ComputedEnds DEF new
  <2>2. pc'[r] = "snapshot" => ~unchanged
    BY <1>2
  <2> QED
    BY <1>1, <1>2, <2>1, <2>2 DEF Read, unchanged
<1>5. ASSUME NEW q \in Runs \ {r} PROVE Read(q)'
  BY <1>1, <1>2 DEF RetentionInv, Read
<1>6. LastPut'
  <2> SUFFICES ASSUME NEW q \in Runs, IsLast(q)'
               PROVE  Thin(index, day[q]) /\ Ends(index, payload[q], day[q])
    BY <1>1 DEF LastPut
  <2>1. q # r /\ pc[q] \in {"manifest", "done"}
    BY <1>2 DEF IsLast
  <2>2. IsLast(q)
    BY <1>0, <1>2, <2>1 DEF IsLast, BeforeIndex
  <2> QED
    BY <2>2 DEF RetentionInv, LastPut
<1> QED
  BY <1>3, <1>4, <1>5, <1>6

LEMMA PutIndexKeepsInv ==
    ASSUME TypeInv, RetentionInv, NEW r \in Runs, PutIndex(r)
    PROVE  Timely' /\ (\A q \in Runs : Read(q)') /\ LastPut'
<1>0. /\ pc \in [Runs -> PC] /\ pc[r] = "delete" /\ Active(r)
      /\ day \in [Runs -> Days] /\ today \in Days
  BY DEF TypeInv, TypeOK, PutIndex, Active
<1>1. /\ today' = today /\ index' = newIndex[r] /\ day' = day
      /\ payload' = payload /\ newIndex' = newIndex
      /\ pc'[r] = "manifest" /\ \A q \in Runs \ {r} : pc'[q] = pc[q]
  BY <1>0 DEF PutIndex
<1>2. \A q \in Runs \ {r} : ~Active(q) /\ ~Active(q)'
  BY <1>0, <1>1, OthersAreNotActive DEF RetentionInv, Active
<1>3. /\ Thin(newIndex[r], day[r]) /\ Ends(newIndex[r], payload[r], day[r])
      /\ UpTo(newIndex[r], day[r])
  BY <1>0 DEF RetentionInv, Read
<1>4. UpTo(newIndex[r], today)
  <2>1. day[r] <= today /\ day[r] \in Days
    BY <1>0 DEF RetentionInv, Timely
  <2> QED
    BY <1>0, <1>3, <2>1 DEF UpTo, Listed
<1>5. Timely'
  <2>1. \A q \in Runs : pc'[q] # "idle" => pc[q] # "idle"
    BY <1>0, <1>1
  <2>2. \A q \in Runs : Active(q)' => UpTo(index', day[q])
    BY <1>1, <1>2, <1>3
  <2>3. UpTo(index', today')
    BY <1>1, <1>4
  <2> QED
    BY <1>1, <2>1, <2>2, <2>3 DEF RetentionInv, Timely, UpTo, Listed
<1>6. ASSUME NEW q \in Runs PROVE Read(q)'
  <2>1. pc'[q] \notin {"snapshot", "delete"}
    BY <1>1, <1>2 DEF Active
  <2> QED
    BY <2>1 DEF Read
<1>7. LastPut'
  <2> SUFFICES ASSUME NEW q \in Runs, IsLast(q)'
               PROVE  Thin(index', day[q]) /\ Ends(index', payload[q], day[q])
    BY <1>1 DEF LastPut, Thin, Ends, IsLatest, Listed
  <2>1. q = r
    <3>1. CASE q < r
      BY <1>1, <3>1 DEF IsLast, BeforeIndex
    <3>2. CASE r < q
      <4>1. pc[q] # "idle"
        BY <1>1, <3>2 DEF IsLast
      <4> QED
        BY <1>0, <3>2, <4>1 DEF RetentionInv, InOrder
    <3> QED
      BY <3>1, <3>2, PublishAssumption
  <2> QED
    BY <1>1, <1>3, <2>1
<1> QED
  BY <1>5, <1>6, <1>7

LEMMA RetentionInductive ==
    ASSUME OverlappingRuns = {}, TypeInv, RetentionInv, [Next]_vars
    PROVE  RetentionInv'
<1>0. InOrder'
  BY InOrderInductive DEF RetentionInv
<1>1. ASSUME NEW r \in Runs, Start(r) PROVE RetentionInv'
  BY <1>0, <1>1, StartKeepsInv DEF RetentionInv
<1>2. ASSUME NEW r \in Runs, ReadIndex(r) PROVE RetentionInv'
  BY <1>0, <1>2, ReadIndexKeepsInv DEF RetentionInv
<1>3. ASSUME NEW r \in Runs, PutIndex(r) PROVE RetentionInv'
  BY <1>0, <1>3, PutIndexKeepsInv DEF RetentionInv
<1>4. ASSUME NEW r \in Runs, Bystanding(r) PROVE RetentionInv'
  BY <1>0, <1>4, BystandingKeepsInv DEF RetentionInv
<1>5. CASE NextDay
  <2>1. /\ today' = today + 1 /\ today \in Days /\ day \in [Runs -> Days]
        /\ index' = index /\ newIndex' = newIndex /\ pc' = pc /\ day' = day
        /\ payload' = payload
    BY <1>5 DEF NextDay, bucket, locals, TypeInv, TypeOK
  <2>2. UpTo(index, today + 1)
    BY <2>1 DEF RetentionInv, Timely, UpTo, Listed
  <2>3. \A r \in Runs : day[r] <= today + 1
    BY <2>1 DEF RetentionInv, Timely
  <2>4. Timely'
    BY <2>1, <2>2, <2>3 DEF RetentionInv, Timely, Active, UpTo, Listed
  <2>5. (\A r \in Runs : Read(r)') /\ LastPut'
    BY <2>1 DEF RetentionInv, Read, LastPut, IsLast
  <2> QED
    BY <1>0, <2>4, <2>5 DEF RetentionInv
<1>6. CASE UNCHANGED vars
  BY <1>0, <1>6 DEF vars, bucket, locals, RetentionInv, Timely, Read, LastPut,
     IsLast, Active
<1> QED
  BY <1>1, <1>2, <1>3, <1>4, <1>5, <1>6 DEF Next, Step, Bystanding

LEMMA InitRetention == Init => RetentionInv
<1> SUFFICES ASSUME Init PROVE RetentionInv
  OBVIOUS
<1>1. \A r \in Runs : pc[r] = "idle" /\ ~Active(r) /\ day[r] = 0
  BY DEF Init, Active
<1>2. Listed(index) = {} /\ today = 0
  BY DEF Init, EmptyIndex, Listed
<1>3. InOrder
  BY <1>1 DEF InOrder
<1>4. Timely
  BY <1>1, <1>2 DEF Timely, UpTo
<1>5. (\A r \in Runs : Read(r)) /\ LastPut
  BY <1>1 DEF Read, LastPut, IsLast
<1> QED
  BY <1>3, <1>4, <1>5 DEF RetentionInv

LEMMA InitTypes == Init => TypeInv
  BY PublishAssumption DEF Init, TypeInv, TypeOK, Counted, Active, PC, EmptyIndex

LEMMA RetentionHolds ==
    ASSUME OverlappingRuns = {}
    PROVE  Spec => [](TypeInv /\ RetentionInv)
<1>1. TypeInv /\ RetentionInv /\ [Next]_vars => (TypeInv /\ RetentionInv)'
  BY TypeInvInductive, RetentionInductive
<1> QED
  BY <1>1, InitTypes, InitRetention, PTL DEF Spec

(* "A kept date never moves once chosen": whatever runs die, a date leaves *)
(* the index only for an older one of its week or month, which stays.      *)
THEOREM OldestIsKept ==
    ASSUME OverlappingRuns = {}
    PROVE  Spec => PruneKeepsOlder
<1>1. TypeInv /\ RetentionInv /\ [Next]_vars =>
        [\A d \in Days : index[d] # None /\ index'[d] = None =>
            \E e \in Days :
                /\ e < d
                /\ index[e] # None
                /\ index'[e] # None
                /\ (WeekOf[e] = WeekOf[d]) \/ (MonthOf[e] = MonthOf[d])]_vars
  <2> SUFFICES ASSUME TypeInv, RetentionInv, Next,
                      NEW d \in Days, index[d] # None, index'[d] = None
               PROVE  \E e \in Days :
                        /\ e < d /\ index[e] # None /\ index'[e] # None
                        /\ (WeekOf[e] = WeekOf[d]) \/ (MonthOf[e] = MonthOf[d])
    OBVIOUS
  <2>1. PICK r \in Runs : PutIndex(r)
    BY DEF Next, NextDay, Start, Step, PutDocument, PublishPages, ReadIndex,
       PutSnapshot, DeleteSnapshot, PutManifest, Fail, bucket
  <2>2. KeepsOlder(index, newIndex[r]) /\ index' = newIndex[r]
    BY <2>1 DEF PutIndex, RetentionInv, Read
  <2> QED
    BY <2>2 DEF KeepsOlder
<1> QED
  BY <1>1, RetentionHolds, PTL DEF Spec, PruneKeepsOlder

(* Retention bites on the objects: when the last run is over and none has  *)
(* died, of each week or month outside the daily window one snapshot is    *)
(* stored.                                                                 *)
THEOREM SnapshotsAreThinned ==
    ASSUME OverlappingRuns = {}
    PROVE  Spec => []Thinned
<1>1. TypeInv /\ RetentionInv /\ Accounted => Thinned
  <2> SUFFICES ASSUME TypeInv, RetentionInv, Accounted, NEW r \in Runs,
                      Settled(r), \A q \in Runs : pc[q] # "failed",
                      NEW d \in Listed(snapshots), NEW e \in Listed(snapshots),
                      d < e, e < day[r] - DailyDays
               PROVE  Period(d, day[r]) # Period(e, day[r])
    BY DEF Thinned
  <2>1. \A x \in Days : snapshots[x] = index[x]
    BY DEF Accounted, DamageIsLocal, Settled, Active
  <2>2. d \in Listed(index) /\ e \in Listed(index)
    BY <2>1 DEF Listed
  <2>3. IsLast(r)
    BY DEF Settled, IsLast, BeforeIndex
  <2> QED
    BY <2>2, <2>3 DEF RetentionInv, LastPut, Thin
<1> QED
  BY <1>1, RetentionHolds, AccountedHolds, PTL

(* A run with the answers of the completed run before it writes a snapshot *)
(* only if retention left that one none in its daily window.               *)
THEOREM QuietRunsAreCheap ==
    ASSUME OverlappingRuns = {}
    PROVE  Spec => []QuietRunWritesNothing
<1>1. TypeInv /\ RetentionInv => QuietRunWritesNothing
  <2> SUFFICES ASSUME TypeInv, RetentionInv, NEW r \in Runs \ {1},
                      pc[r] = "snapshot", pc[r - 1] = "done",
                      payload[r] = payload[r - 1]
               PROVE  \A d \in Listed(index) : d < day[r - 1] - DailyDays
    BY DEF QuietRunWritesNothing
  <2>1. r - 1 \in Runs /\ Active(r)
    BY PublishAssumption DEF Active
  <2>2. \A q \in Runs : q > r => pc[q] = "idle"
    BY <2>1 DEF RetentionInv, InOrder
  <2>3. \A q \in Runs : q > r - 1 => q = r \/ q > r
    BY PublishAssumption
  <2>4. IsLast(r - 1)
    BY <2>1, <2>2, <2>3 DEF IsLast, BeforeIndex
  <2>5. Ends(index, payload[r - 1], day[r - 1])
    BY <2>1, <2>4 DEF RetentionInv, LastPut
  <2>6. ~\E d \in Days : IsLatest(index, d) /\ index[d] = payload[r]
    BY DEF RetentionInv, Read
  <2> QED
    BY <2>5, <2>6 DEF Ends
<1> QED
  BY <1>1, RetentionHolds, PTL
=============================================================================
