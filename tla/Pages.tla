------------------------------- MODULE Pages -------------------------------
(***************************************************************************)
(* publish_pages: the page fragments of each feed, the index of their      *)
(* hashes and the sitemap, written one store call at a time.               *)
(*                                                                         *)
(* A fragment pair is identified by what it shows: the feed's facts (its   *)
(* text, and since when it is down, if it is) and whether the head carries *)
(* a noindex.  The last depends on the day of the run and not on the feed. *)
(* A fragment in the bucket also carries the day it was put on, which the  *)
(* code does not store and the properties need.                            *)
(***************************************************************************)
EXTENDS Integers

CONSTANTS
    Feeds,
    Texts,          \* what a page can say beside up or down
    Nameless,       \* the texts of feeds whose name is blank
    None,           \* no fragment, no entry, not down
    NoindexAfter,   \* pages.NOINDEX_DOWN_AFTER, in days
    MaxRuns,        \* bound: how many runs are considered
    MaxDay,         \* bound: the last day of the calendar
    FailingRuns     \* the runs that may die half way

Runs == 1 .. MaxRuns
Days == 0 .. MaxDay

ASSUME PagesAssumption ==
    /\ None \notin Feeds /\ None \notin Days
    /\ Nameless \subseteq Texts
    /\ NoindexAfter \in Nat
    /\ MaxRuns \in Nat /\ MaxDay \in Nat
    /\ FailingRuns \subseteq Runs

VARIABLES
    today,
    head, body,     \* the fragments in the bucket
    index,          \* pages/index.json
    sitemap,        \* sitemap.xml: the lastmod of each feed it lists
    pc,             \* how far each run is
    day,            \* the date of its generated_at
    previous,       \* the index it read
    next,           \* the index it is going to write
    todo,           \* the feeds whose fragments it still has to put
    gone,           \* the feeds whose fragments it still has to delete
    half            \* the feed whose head it has put and whose body it has not

bucket == <<head, body, index, sitemap>>
locals == <<pc, day, previous, next, todo, gone, half>>
vars == <<today, bucket, locals>>

-----------------------------------------------------------------------------
Facts == [text: Texts, downSince: Days \cup {None}]

(* Named, and not down for longer than NoindexAfter.                       *)
Indexable(facts, now) ==
    /\ facts.text \notin Nameless
    /\ facts.downSince = None \/ now - facts.downSince <= NoindexAfter

(* Faulty variant: the hash is taken over the body alone, where nothing    *)
(* tells whether the head carries a noindex.                               *)
DigestOfBody(facts, now) == [facts |-> facts, indexable |-> TRUE]

Digest(facts, now) == [facts |-> facts, indexable |-> Indexable(facts, now)]

Digests == [facts: Facts, indexable: BOOLEAN]
Entry == [sha: Digests, indexed: BOOLEAN, lastmod: Days]
Index == [Feeds -> Entry \cup {None}]
Page == [shows: Digests, put: Days]
Fragments == [Feeds -> Page \cup {None}]

ASSUME NoneAssumption == None \notin Entry /\ None \notin Page

(* Faulty variant: lastmod is the day of the run, changed or not.          *)
EntryAlwaysNew(old, facts, now) ==
    [sha |-> Digest(facts, now), indexed |-> Indexable(facts, now),
     lastmod |-> now]

(* Faulty variant: a page that is new gets no lastmod.                     *)
EntryWithoutLastmod(old, facts, now) ==
    [sha |-> Digest(facts, now), indexed |-> Indexable(facts, now),
     lastmod |-> IF old # None THEN old.lastmod ELSE None]

(* The entry of a feed, given its old one: an unchanged page keeps its     *)
(* lastmod.                                                                *)
EntryOf(old, facts, now) ==
    LET sha == Digest(facts, now)
    IN  [sha |-> sha,
         indexed |-> Indexable(facts, now),
         lastmod |-> IF old # None /\ old.sha = sha THEN old.lastmod ELSE now]

(* Faulty variant: every page is written on every run.                     *)
ChangedAll(old, new) == {f \in Feeds : new[f] # None}

Changed(old, new) ==
    {f \in Feeds : new[f] # None /\ (old[f] = None \/ old[f].sha # new[f].sha)}
Vanished(old, new) == {f \in Feeds : old[f] # None /\ new[f] = None}

-----------------------------------------------------------------------------
PC == {"idle", "fragments", "sitemap", "done", "failed"}
Active(r) == pc[r] \in {"fragments", "sitemap"}

NoEntries == [f \in Feeds |-> None]

Init ==
    /\ today = 0
    /\ head = NoEntries /\ body = NoEntries
    /\ index = NoEntries /\ sitemap = NoEntries
    /\ pc = [r \in Runs |-> "idle"]
    /\ day = [r \in Runs |-> 0]
    /\ previous = [r \in Runs |-> NoEntries]
    /\ next = [r \in Runs |-> NoEntries]
    /\ todo = [r \in Runs |-> {}]
    /\ gone = [r \in Runs |-> {}]
    /\ half = [r \in Runs |-> None]

(* What the build_feeds of this run came up with is any set of feeds with  *)
(* any facts, except that nothing is down since a day to come.             *)
Start(r) ==
    /\ pc[r] = "idle"
    /\ \A q \in Runs : ~Active(q) /\ (q < r => pc[q] # "idle")
    /\ \E feeds \in SUBSET Feeds : \E facts \in [feeds -> Facts] :
        /\ \A f \in feeds : facts[f].downSince \in (0 .. today) \cup {None}
        /\ LET new == [f \in Feeds |->
                        IF f \in feeds THEN EntryOf(index[f], facts[f], today)
                                       ELSE None]
           IN  /\ next' = [next EXCEPT ![r] = new]
               /\ todo' = [todo EXCEPT ![r] = Changed(index, new)]
               /\ gone' = [gone EXCEPT ![r] = Vanished(index, new)]
    /\ previous' = [previous EXCEPT ![r] = index]
    /\ day' = [day EXCEPT ![r] = today]
    /\ pc' = [pc EXCEPT ![r] = "fragments"]
    /\ UNCHANGED <<today, bucket, half>>

Fragment(r, f) ==
    [shows |-> [facts |-> next[r][f].sha.facts,
                indexable |-> next[r][f].indexed],
     put |-> day[r]]

PutHead(r) ==
    /\ pc[r] = "fragments"
    /\ half[r] = None
    /\ \E f \in todo[r] : /\ head' = [head EXCEPT ![f] = Fragment(r, f)]
                          /\ half' = [half EXCEPT ![r] = f]
    /\ UNCHANGED <<today, body, index, sitemap, pc, day, previous, next, todo,
                   gone>>

PutBody(r) ==
    /\ pc[r] = "fragments"
    /\ half[r] # None
    /\ body' = [body EXCEPT ![half[r]] = Fragment(r, half[r])]
    /\ todo' = [todo EXCEPT ![r] = @ \ {half[r]}]
    /\ half' = [half EXCEPT ![r] = None]
    /\ UNCHANGED <<today, head, index, sitemap, pc, day, previous, next, gone>>

(* Faulty variant: only the head is deleted.                               *)
DeletePrefixHeadOnly(r) ==
    /\ pc[r] = "fragments" /\ todo[r] = {}
    /\ \E f \in gone[r] : /\ head' = [head EXCEPT ![f] = None]
                          /\ gone' = [gone EXCEPT ![r] = @ \ {f}]
    /\ UNCHANGED <<today, body, index, sitemap, pc, day, previous, next, todo,
                   half>>

DeletePrefix(r) ==
    /\ pc[r] = "fragments" /\ todo[r] = {}
    /\ \E f \in gone[r] : /\ head' = [head EXCEPT ![f] = None]
                          /\ body' = [body EXCEPT ![f] = None]
                          /\ gone' = [gone EXCEPT ![r] = @ \ {f}]
    /\ UNCHANGED <<today, index, sitemap, pc, day, previous, next, todo, half>>

(* Faulty variant: the index goes up before the fragments are finished.    *)
PutIndexEarly(r) ==
    /\ pc[r] = "fragments"
    /\ index' = next[r]
    /\ pc' = [pc EXCEPT ![r] = "sitemap"]
    /\ UNCHANGED <<today, head, body, sitemap, day, previous, next, todo,
                   gone, half>>

PutIndex(r) ==
    /\ pc[r] = "fragments" /\ todo[r] = {} /\ gone[r] = {}
    /\ index' = next[r]
    /\ pc' = [pc EXCEPT ![r] = "sitemap"]
    /\ UNCHANGED <<today, head, body, sitemap, day, previous, next, todo,
                   gone, half>>

PutSitemap(r) ==
    /\ pc[r] = "sitemap"
    /\ sitemap' = [f \in Feeds |->
                    IF next[r][f] # None /\ next[r][f].indexed
                    THEN next[r][f].lastmod ELSE None]
    /\ pc' = [pc EXCEPT ![r] = "done"]
    /\ UNCHANGED <<today, head, body, index, day, previous, next, todo, gone,
                   half>>

Fail(r) ==
    /\ r \in FailingRuns
    /\ Active(r)
    /\ pc' = [pc EXCEPT ![r] = "failed"]
    /\ UNCHANGED <<today, bucket, day, previous, next, todo, gone, half>>

NextDay ==
    /\ today < MaxDay
    /\ today' = today + 1
    /\ UNCHANGED <<bucket, locals>>

Step(r) == PutHead(r) \/ PutBody(r) \/ DeletePrefix(r) \/ PutIndex(r)
        \/ PutSitemap(r)

Next == NextDay \/ \E r \in Runs : Start(r) \/ Step(r) \/ Fail(r)

Spec == Init /\ [][Next]_vars

-----------------------------------------------------------------------------
(* Properties                                                              *)

TypeOK ==
    /\ today \in Days
    /\ head \in Fragments /\ body \in Fragments
    /\ index \in Index
    /\ sitemap \in [Feeds -> Days \cup {None}]
    /\ pc \in [Runs -> PC] /\ day \in [Runs -> Days]
    /\ previous \in [Runs -> Index] /\ next \in [Runs -> Index]
    /\ todo \in [Runs -> SUBSET Feeds] /\ gone \in [Runs -> SUBSET Feeds]
    /\ half \in [Runs -> Feeds \cup {None}]

Quiet == \A r \in Runs : ~Active(r)
NobodyDied == \A r \in Runs : pc[r] # "failed"

(* The pair of fragments is the one the index has the hash of, or there is *)
(* neither pair nor entry.                                                 *)
Agrees(f) ==
    IF index[f] = None
    THEN head[f] = None /\ body[f] = None
    ELSE /\ head[f] # None /\ body[f] # None
         /\ head[f].shows = index[f].sha /\ body[f].shows = index[f].sha

(* published_artifacts.py:57 - "Write changed feed fragments, drop         *)
(* vanished ones": between runs, if none died, the pages are those the     *)
(* index lists, and lastmod is the day the page was last written on.       *)
PagesMatchIndex ==
    Quiet /\ NobodyDied => \A f \in Feeds :
        /\ Agrees(f)
        /\ index[f] # None => head[f].put = index[f].lastmod
                           /\ body[f].put = index[f].lastmod

(* The sitemap is rewritten from each run's own view of what is worth      *)
(* indexing, a page only when its hash changes.  Between runs they agree   *)
(* all the same: a page is listed exactly when it is up without a noindex. *)
SitemapMatchesRobots ==
    Quiet /\ NobodyDied => \A f \in Feeds :
        sitemap[f] # None <=> head[f] # None /\ head[f].shows.indexable

(* A run that dies may leave pages that are not what the index says, but   *)
(* only those of feeds it was writing or deleting.                         *)
StaleOnlyAfterDeath ==
    \A f \in Feeds : ~Agrees(f) =>
        \E r \in Runs :
            /\ pc[r] \in {"fragments", "failed"}
            /\ f \in Changed(previous[r], next[r])
                     \cup Vanished(previous[r], next[r])

(* The same promise, for a run that completes after one that died: of      *)
(* every feed it was given it leaves the page it rendered.  (A head that a *)
(* dead run put of a feed that no index ever had is another matter: the    *)
(* list of what has vanished is taken from the index, and it stays.)       *)
CompletedRunLeavesItsPages ==
    \A r \in Runs :
        /\ pc[r] = "done"
        /\ \A q \in Runs : q > r => pc[q] = "idle"
        => \A f \in Feeds : next[r][f] # None => Agrees(f)

=============================================================================
