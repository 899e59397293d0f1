------------------------------ MODULE Publish ------------------------------
(***************************************************************************)
(* The `published_artifacts` asset: how one run writes the five public     *)
(* documents, the dated snapshot, the snapshot index and the manifest to   *)
(* the bucket, one store call at a time.                                   *)
(*                                                                         *)
(* A step is one call on the object store, because that is the grain at    *)
(* which a run can die and at which two runs interleave: every put and     *)
(* delete is atomic by itself and nothing spans two of them.  What a run   *)
(* has read or computed lives in the per-run variables below the bucket's, *)
(* and is gone when the run fails.                                         *)
(*                                                                         *)
(* Data kept: a document's content is the number of the run that wrote it  *)
(* (every document carries generated_at, so two runs never write the same  *)
(* bytes); a snapshot's content is its payload, what artifacts.py hashes.  *)
(* The page fragments that publish() writes between the documents and the  *)
(* snapshot are under other keys and are the subject of Pages.             *)
(***************************************************************************)
EXTENDS Integers, FiniteSets

CONSTANTS
    Payloads,       \* what status_entries() may serialise to
    None,           \* no snapshot object, no index entry
    MaxRuns,        \* bound: how many runs of the asset are considered
    MaxDay,         \* bound: the last day of the calendar
    DailyDays,      \* settings.snapshot_daily_days
    WeeklyDays,     \* settings.snapshot_weekly_days
    WeekOf,         \* the ISO week of a day
    MonthOf,        \* the calendar month of a day
    OverlappingRuns,\* the runs that may start while another is still going
    FailingRuns     \* the runs that may die half way

Runs == 1 .. MaxRuns
Days == 0 .. MaxDay

ASSUME PublishAssumption ==
    /\ None \notin Payloads
    /\ Payloads # {}
    /\ MaxRuns \in Nat
    /\ MaxDay \in Nat
    /\ DailyDays \in Nat /\ WeeklyDays \in Nat
    /\ WeekOf \in [Days -> Nat] /\ MonthOf \in [Days -> Nat]
    /\ OverlappingRuns \subseteq Runs
    /\ FailingRuns \subseteq Runs

VARIABLES
    today,          \* the calendar
    docs,           \* docs[k]: the run whose document k is up, 0 when none is
    snapshots,      \* snapshots[d]: the payload stored under day d's key
    index,          \* snapshots/index.json: the hash it lists for each day
    manifest,       \* manifest.json
    pc,             \* how far each run is
    day,            \* generated_at.date() of each run
    payload,        \* the run's snapshot_payload
    put,            \* how many documents the run has put
    newIndex,       \* the index the run is about to write
    dropped,        \* the days retention makes the run delete
    ahead           \* history, not in the code: the days whose object the run
                    \* has put or deleted without having put the index

bucket == <<docs, snapshots, index, manifest>>
locals == <<pc, day, payload, put, newIndex, dropped, ahead>>
vars == <<today, bucket, locals>>

(* sources.json, feeds.json, status.json, examples.json, summary.json      *)
NumDocs == 5
Documents == 1 .. NumDocs

Index == [Days -> Payloads \cup {None}]
EmptyIndex == [d \in Days |-> None]
Listed(idx) == {d \in Days : idx[d] # None}

(* Faulty variant: the dedupe looks at the head of the list.               *)
IsLatestOfReversed(idx, d) ==
    d \in Listed(idx) /\ \A e \in Listed(idx) : d <= e

(* The index is sorted by date before it is put and holds one entry per    *)
(* date, so its last element is the one with the latest date.              *)
IsLatest(idx, d) == d \in Listed(idx) /\ \A e \in Listed(idx) : e <= d

-----------------------------------------------------------------------------
(* Retention: all of the last DailyDays, then the oldest of each week out  *)
(* to WeeklyDays, then the oldest of each month.                           *)

Period(d, now) ==
    IF d >= now - WeeklyDays THEN <<"week", WeekOf[d]>>
                             ELSE <<"month", MonthOf[d]>>

(* Faulty variant: the newest of a period is kept.                         *)
SnapshotsToDeleteKeepsNewest(idx, now) ==
    {d \in Listed(idx) :
        /\ d < now - DailyDays
        /\ \E e \in Listed(idx) :
            /\ e > d /\ e < now - DailyDays
            /\ Period(e, now) = Period(d, now)}

SnapshotsToDelete(idx, now) ==
    {d \in Listed(idx) :
        /\ d < now - DailyDays
        /\ \E e \in Listed(idx) : e < d /\ Period(e, now) = Period(d, now)}

Without(idx, gone) == [d \in Days |-> IF d \in gone THEN None ELSE idx[d]]

-----------------------------------------------------------------------------
PC == {"idle", "documents", "pages", "readindex", "snapshot", "delete",
       "manifest", "done", "failed"}
Active(r) == pc[r] \notin {"idle", "done", "failed"}

Init ==
    /\ today = 0
    /\ docs = [k \in Documents |-> 0]
    /\ snapshots = EmptyIndex
    /\ index = EmptyIndex
    /\ manifest = [run |-> 0, docs |-> [k \in Documents |-> 0],
                   index |-> EmptyIndex]
    /\ pc = [r \in Runs |-> "idle"]
    /\ day = [r \in Runs |-> 0]
    /\ payload = [r \in Runs |-> None]
    /\ put = [r \in Runs |-> 0]
    /\ newIndex = [r \in Runs |-> EmptyIndex]
    /\ dropped = [r \in Runs |-> {}]
    /\ ahead = [r \in Runs |-> {}]

(* generated_at is taken, and the five documents are rendered, before the  *)
(* first put.  Runs are numbered in the order they start; nothing keeps    *)
(* one that is re-executed by hand from overlapping the daily one.         *)
Start(r) ==
    /\ pc[r] = "idle"
    /\ \A q \in Runs : q < r => pc[q] # "idle"
    /\ r \in OverlappingRuns \/ \A q \in Runs : ~Active(q)
    /\ pc' = [pc EXCEPT ![r] = "documents"]
    /\ day' = [day EXCEPT ![r] = today]
    /\ \E p \in Payloads : payload' = [payload EXCEPT ![r] = p]
    /\ UNCHANGED <<today, bucket, put, newIndex, dropped, ahead>>

(* Faulty variant: the last document is taken for the last but one.        *)
PutDocumentOffByOne(r) ==
    /\ pc[r] = "documents"
    /\ docs' = [docs EXCEPT ![put[r] + 1] = r]
    /\ put' = [put EXCEPT ![r] = @ + 1]
    /\ pc' = [pc EXCEPT ![r] = IF put[r] = NumDocs THEN "pages" ELSE @]
    /\ UNCHANGED <<today, snapshots, index, manifest, day, payload, newIndex,
                   dropped, ahead>>

(* Faulty variant: a document that is there already is left alone.         *)
PutDocumentOnce(r) ==
    /\ pc[r] = "documents"
    /\ docs' = [docs EXCEPT ![put[r] + 1] = IF @ = 0 THEN r ELSE @]
    /\ put' = [put EXCEPT ![r] = @ + 1]
    /\ pc' = [pc EXCEPT ![r] = IF put[r] + 1 = NumDocs THEN "pages" ELSE @]
    /\ UNCHANGED <<today, snapshots, index, manifest, day, payload, newIndex,
                   dropped, ahead>>

PutDocument(r) ==
    /\ pc[r] = "documents"
    /\ docs' = [docs EXCEPT ![put[r] + 1] = r]
    /\ put' = [put EXCEPT ![r] = @ + 1]
    /\ pc' = [pc EXCEPT ![r] = IF put[r] + 1 = NumDocs THEN "pages" ELSE @]
    /\ UNCHANGED <<today, snapshots, index, manifest, day, payload, newIndex,
                   dropped, ahead>>

(* publish_pages writes under pages/ and sitemap.xml only.                 *)
PublishPages(r) ==
    /\ pc[r] = "pages"
    /\ pc' = [pc EXCEPT ![r] = "readindex"]
    /\ UNCHANGED <<today, bucket, day, payload, put, newIndex, dropped, ahead>>

(* Read the index, decide whether today's answers differ from its last     *)
(* entry, and work out what retention drops from the result.               *)
ReadIndex(r) ==
    LET unchanged == \E d \in Days : IsLatest(index, d) /\ index[d] = payload[r]
        appended  == IF unchanged THEN index
                                  ELSE [index EXCEPT ![day[r]] = payload[r]]
        drop      == SnapshotsToDelete(appended, day[r])
    IN  /\ pc[r] = "readindex"
        /\ newIndex' = [newIndex EXCEPT ![r] = Without(appended, drop)]
        /\ dropped' = [dropped EXCEPT ![r] = drop]
        /\ pc' = [pc EXCEPT ![r] = IF unchanged THEN "delete" ELSE "snapshot"]
        /\ UNCHANGED <<today, bucket, day, payload, put, ahead>>

(* Faulty variant: the key is that of the day on which the put happens.    *)
PutSnapshotLate(r) ==
    /\ pc[r] = "snapshot"
    /\ snapshots' = [snapshots EXCEPT ![today] = payload[r]]
    /\ ahead' = [ahead EXCEPT ![r] = {day[r]}]
    /\ pc' = [pc EXCEPT ![r] = "delete"]
    /\ UNCHANGED <<today, docs, index, manifest, day, payload, put, newIndex,
                   dropped>>

PutSnapshot(r) ==
    /\ pc[r] = "snapshot"
    /\ snapshots' = [snapshots EXCEPT ![day[r]] = payload[r]]
    /\ ahead' = [ahead EXCEPT ![r] = {day[r]}]
    /\ pc' = [pc EXCEPT ![r] = "delete"]
    /\ UNCHANGED <<today, docs, index, manifest, day, payload, put, newIndex,
                   dropped>>

(* Faulty variant: the entry goes, the object stays.                       *)
DeleteSnapshotFromIndexOnly(r) ==
    /\ pc[r] = "delete"
    /\ dropped[r] # {}
    /\ dropped' = [dropped EXCEPT ![r] = {}]
    /\ UNCHANGED <<today, bucket, pc, day, payload, put, newIndex, ahead>>

(* Oldest first: snapshots_to_delete walks the index by date.              *)
DeleteSnapshot(r) ==
    /\ pc[r] = "delete"
    /\ \E d \in dropped[r] :
        /\ \A e \in dropped[r] : d <= e
        /\ snapshots' = [snapshots EXCEPT ![d] = None]
        /\ dropped' = [dropped EXCEPT ![r] = @ \ {d}]
        /\ ahead' = [ahead EXCEPT ![r] = @ \cup {d}]
    /\ UNCHANGED <<today, docs, index, manifest, pc, day, payload, put,
                   newIndex>>

PutIndex(r) ==
    /\ pc[r] = "delete"
    /\ dropped[r] = {}
    /\ index' = newIndex[r]
    /\ ahead' = [ahead EXCEPT ![r] = {}]
    /\ pc' = [pc EXCEPT ![r] = "manifest"]
    /\ UNCHANGED <<today, docs, snapshots, manifest, day, payload, put,
                   newIndex, dropped>>

(* Faulty variant: the manifest does not wait for the index.               *)
PutManifestEarly(r) ==
    /\ pc[r] \in {"delete", "manifest"}
    /\ manifest' = [run |-> r, docs |-> [k \in Documents |-> r],
                    index |-> newIndex[r]]
    /\ pc' = [pc EXCEPT ![r] = "done"]
    /\ UNCHANGED <<today, docs, snapshots, index, day, payload, put, newIndex,
                   dropped, ahead>>

(* The hashes are of the bodies this run built, not of what is in the      *)
(* bucket by now.                                                          *)
PutManifest(r) ==
    /\ pc[r] = "manifest"
    /\ manifest' = [run |-> r, docs |-> [k \in Documents |-> r],
                    index |-> newIndex[r]]
    /\ pc' = [pc EXCEPT ![r] = "done"]
    /\ UNCHANGED <<today, docs, snapshots, index, day, payload, put, newIndex,
                   dropped, ahead>>

(* A store call raises, or the process dies: the asset fails and what it   *)
(* has already written stays.                                              *)
Fail(r) ==
    /\ r \in FailingRuns
    /\ Active(r)
    /\ pc' = [pc EXCEPT ![r] = "failed"]
    /\ UNCHANGED <<today, bucket, day, payload, put, newIndex, dropped, ahead>>

NextDay ==
    /\ today < MaxDay
    /\ today' = today + 1
    /\ UNCHANGED <<bucket, locals>>

Step(r) == \/ PutDocument(r) \/ PublishPages(r) \/ ReadIndex(r)
           \/ PutSnapshot(r) \/ DeleteSnapshot(r) \/ PutIndex(r)
           \/ PutManifest(r)

Next == NextDay \/ \E r \in Runs : Start(r) \/ Step(r) \/ Fail(r)

Spec == Init /\ [][Next]_vars

(* The daily schedule starts the next run, and a run that has not failed   *)
(* keeps going: it only ever waits for the store, whose client times out.  *)
Fairness == \A r \in Runs : WF_vars(Start(r)) /\ WF_vars(Step(r))
FairSpec == Spec /\ Fairness

-----------------------------------------------------------------------------
(* Properties                                                              *)

TypeOK ==
    /\ today \in Days
    /\ docs \in [Documents -> 0 .. MaxRuns]
    /\ snapshots \in Index
    /\ index \in Index
    /\ manifest \in [run: 0 .. MaxRuns, docs: [Documents -> 0 .. MaxRuns],
                     index: Index]
    /\ pc \in [Runs -> PC]
    /\ day \in [Runs -> Days]
    /\ payload \in [Runs -> Payloads \cup {None}]
    /\ put \in [Runs -> 0 .. NumDocs]
    /\ newIndex \in [Runs -> Index]
    /\ dropped \in [Runs -> SUBSET Days]
    /\ ahead \in [Runs -> SUBSET Days]

(* The last run to start has finished, and nothing else is going on.       *)
Settled(r) ==
    /\ pc[r] = "done"
    /\ \A q \in Runs : ~Active(q) /\ (q > r => pc[q] = "idle")

ManifestMatchesBucket == docs = manifest.docs /\ index = manifest.index

(* published_artifacts.py:8 - "manifest.json is written last, on purpose:  *)
(* it ... must never advertise a hash for a file that is not up yet".  At  *)
(* the moment a manifest goes up, every file it lists is in the bucket     *)
(* with the hash it lists, whatever earlier runs died in the middle of.    *)
ManifestAdvertisesWhatIsUp ==
    [][manifest' # manifest =>
        docs = manifest'.docs /\ index = manifest'.index]_vars

(* The stored snapshots and the index that names them differ, if at all,   *)
(* only at a day whose object a run, still going or dead, has itself put   *)
(* or deleted without having put the index after it.  A run that dies      *)
(* before its snapshot phase damages nothing, one that dies in it no other *)
(* day than those it had already touched, and what later runs do on top of *)
(* such damage does not spread it.                                         *)
DamageIsLocal ==
    \A d \in Days :
        snapshots[d] # index[d] => \E r \in Runs : d \in ahead[r]

(* settings.py:40 - one volume holds every snapshot, so retention has to   *)
(* bite on the objects and not only on the list of them: once a run is     *)
(* over, and if none died, two stored snapshots older than the daily       *)
(* window are never of the same retention period.                          *)
Thinned ==
    \A r \in Runs : Settled(r) /\ (\A q \in Runs : pc[q] # "failed") =>
        \A d, e \in Listed(snapshots) :
            d < e /\ e < day[r] - DailyDays
                => Period(d, day[r]) # Period(e, day[r])

(* artifacts.py:322 - "The kept one in a period is always the oldest, so a *)
(* kept date never moves once chosen".  A date leaves the index only in    *)
(* favour of an older date of its own week or month that stays.            *)
PruneKeepsOlder ==
    [][\A d \in Days : index[d] # None /\ index'[d] = None =>
        \E e \in Days :
            /\ e < d
            /\ index[e] # None
            /\ index'[e] # None
            /\ (WeekOf[e] = WeekOf[d]) \/ (MonthOf[e] = MonthOf[d])]_vars

(* published_artifacts.py:152 - "A snapshot is written only when the day's *)
(* answers differ from the last snapshot's, so a quiet week costs one file *)
(* rather than seven".  A run whose answers are those of the completed run *)
(* before it writes one only if retention has taken every snapshot in the  *)
(* daily window of that run and the last one before it: the code does      *)
(* delete the very snapshot it compares with when answers have been quiet  *)
(* for longer than that.                                                   *)
QuietRunWritesNothing ==
    \A r \in Runs \ {1} :
        /\ pc[r] = "snapshot" /\ pc[r - 1] = "done"
        /\ payload[r] = payload[r - 1]
        => \A d \in Listed(index) : d < day[r - 1] - DailyDays

(* tests/test_published_artifacts.py:121 - once a run is over, the objects *)
(* under the snapshot prefix are those its index lists.                    *)
SnapshotsAreTheListedOnes ==
    \A r \in Runs : Settled(r) => Listed(snapshots) = Listed(index)

(* A run that dies, or two that overlap, leave a manifest that does not    *)
(* match the files beside it, and nothing but a later run repairs that.    *)
(* One that runs alone and gets through does, for good.                    *)
Recovers == <>[]ManifestMatchesBucket

=============================================================================
