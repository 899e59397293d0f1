# A TLA+ model of geometry-car

geometry-car is a daily Dagster job. It reads three catalogs of GTFS feeds,
requests every URL they list, keeps what it learnt in Postgres and writes public
artifacts to an object store. This directory holds TLA+ modules of the parts of
it that keep state or run concurrently, the TLC configurations that check them,
and proofs for TLAPS. Paths below are relative to the repository; `assets/`,
`artifacts.py` and so on are under `src/geometry_car/`.

## The system

| component | state | operations | talks to |
|---|---|---|---|
| ingest (`assets/mobility_database.py`, `transitland_atlas.py`, `curated_examples.py`) | none | fetch and map to rows | catalog APIs → `sources` |
| row model, URLs (`catalog.py`, `urls.py`) | none | `make_rows`, `normalize_url`, `host_of`, `rt_sibling_key` | used everywhere |
| catalog sources (`assets/sources.py`) | none | `merge`, `cross_link` | → checker, history, feeds, publisher |
| endpoint checker (`assets/endpoint_checks.py`) | host locks, last request per host, semaphore | `run_checks`, `_check_one` | feed hosts → history, feeds |
| check history (`assets/check_history.py`, `history/models.py`) | `check_run`, `source`, `endpoint`, `endpoint_state`, `source_endpoint` | `record` | Postgres → publisher |
| logical feeds (`assets/feeds.py`) | `feed`, `feed_member` | `group`, `assign_ids`, `persist` | Postgres → publisher |
| retention (`assets/history_retention.py`) | the same tables | `prune` | Postgres |
| publisher (`assets/published_artifacts.py`, `artifacts.py`) | five documents, snapshots, their index, manifest | `publish` | object store |
| page publisher (`publish_pages`, `pages.py`) | fragments, pages index, sitemap | `publish_pages` | object store |
| CORS, heartbeat (`assets/bucket_cors.py`, `heartbeat.py`) | bucket configuration | one call each | object store, Gatus |
| migrations (`alembic/`) | the schema | `upgrade`, `downgrade` | Postgres |
| job (`definitions.py`) | Dagster's own | daily schedule, re-execution by hand | all assets |

One run executes the assets in dependency order: sources, checks, history,
feeds, then publication and retention. Values pass between assets through
Dagster; only Postgres and the bucket survive a run. There is no retry: a failed
asset stays failed until somebody re-executes it or the next day comes.

What is hard about it:

- **Nothing spans two store calls.** `publish` makes about a dozen plus one or
  two per changed page; a run can die between any two, and a run re-executed by
  hand can overlap the daily one. (Publish, Pages)
- **Caches of what is in the bucket.** The snapshot index and the pages index
  decide what is written next, and each is written after what it describes.
- **Thousands of coroutines** share host locks, a pause per host and a global
  semaphore, and any request may raise. (EndpointChecks)
- **History is compressed**: a row per change, never per check, and retention
  deletes rows that later runs compute from. (History)
- **Ids are carried over** by set overlap across days on which sources come,
  go, merge and split. (FeedIds)

## The modules

| module | models |
|---|---|
| `Publish` | `publish()`: one action per store call, per run |
| `Pages` | `publish_pages()`: the same for the fragments, pages index and sitemap |
| `MobilityDatabase` | the asset of that name: token, offset paging over two lists, the halving of a window that fails |
| `TransitlandAtlas` | the asset of that name: the corpus read locally or by coroutines, operators resolved in two passes |
| `Rows` | `make_rows`, `merge`, `cross_link`, the choice of what to check, `fold`, the evidence of `group`, `build_feed` |
| `Ingest` | composes the three: a run from the catalogs to the logical feeds, one action per asset after the two above |
| `PoliteChecks` | abstract: what the checker promises of its traffic |
| `EndpointChecks` | `run_checks`, `_Politeness`, `_check_one`: one action per stretch between awaits; implements `PoliteChecks` |
| `History` | `record()` and `prune()` on sources, endpoints, transitions and links |
| `FeedIds` | `group()`, `assign_ids`, `_mint`, `persist()` and `prune()` on sources, feeds and members |
| `Migration` | revision `b4e81d2f6a07`: `upgrade()` and `downgrade()` of the check history, with runs of `record()` between |
| `PublishProofs`, `PagesProofs`, `EndpointChecksProofs`, `HistoryProofs`, `FeedIdsProofs`, `IngestProofs`, `MigrationProofs` | theorems about the modules they extend |
| `Inductions` | lemmas on the greatest and the least number of a set, on recursive functions and on folds over finite sets |
| `MC…` | values of the constants for TLC |

A definition whose comment begins "Faulty variant" is not used by the
specification. It is what the definition after it would be with a plausible bug,
and shows that a property can fail.

### Publish

`docs`, `snapshots`, `index` and `manifest` are the bucket; the other variables
are what a run has in memory, and `today` the calendar. A document is
represented by the number of the run that wrote it, since each carries
`generated_at`; a snapshot by its payload, which is what its hash covers.
`Start` takes the time and renders; `PutDocument` is one turn of the loop over
the documents; `ReadIndex` is the read of `snapshots/index.json` with the dedupe
and the retention computed from it; `PutSnapshot`, `DeleteSnapshot`, `PutIndex`
and `PutManifest` are the calls that follow, in that order. `Fail` may strike an
active run before any of them. `publish_pages` writes under other keys, so here
it is one step. `ahead`, which is not in the code, says of each run which days'
objects it has put or deleted without having put the index since: only there may
objects and index differ. `SnapshotsToDelete` is the loop of
`snapshots_to_delete` stated as a set: outside the daily window, with an older
entry in the same period.

### Pages

The digest of a page is taken from what it shows: the facts of the feed and
whether the head carries a noindex. The second depends on the day, so a page can
change with no change of the feed. In `head` and `body` a fragment also has the
day it was put, which `lastmod` is compared with. A feed whose name is blank has
a page, but is never indexable (`Nameless`). `Start` reads the pages index
and works out what has changed and what has vanished; a put of a head and the
put of its body are separate steps. Runs do not overlap in this module.

### EndpointChecks

One coroutine per target: `TakeLock`, `Wait`, `AcquireSlot` (HEAD goes out in
the same stretch), then perhaps `HeadRejected` (the ranged GET, at once), and
one of `Answer`, `Raise` or `Unreadable`. `Release` is the `finally` clause with
the end of the `async with`. `Unreadable` is an answer whose headers raise while
they are read: those lines come after the `try`, so the exception passes through
`gather` and fails the run, and `Cancel` is what `asyncio.run` then does to each
of the other coroutines, wherever it waits. `since` is `_last`; time is in ticks
and no counter exceeds the delay, beyond which nothing depends on it.

A target's host is the one its URL names. The redirects that the client follows
are inside a request, whatever host they lead to; neither module knows of them,
and `PoliteChecks` promises nothing about them. What it does promise is that
targets of one host are requested one at a time, each only after the host has
been let alone for the delay since the last of them, and never more than `Cap`.

### History

One action per transaction. A URL has its endpoint row, its set of transitions
and `log`, which is not in the code: every answer it ever gave since it was last
forgotten. The tables are compared with the log. `published` is what `record()`
returns for each source. `Nameless` are the feeds with a blank name, which
`indexable()` refuses. Roles are left out, and a check is up, down or skipped.
`prune()` follows a `record()` of the same day, because it is downstream of it;
either may be executed again.

### FeedIds

`catalog` is the last run's rows: the sources present and the links between
them, in the order in which `group()` meets their evidence. What the evidence is
(a URL, a reference, the two halves of one feed) is left open. `Group` is the
union-find with its path compression, and `GroupsAreLinked` compares what comes
out with what the links connect. `feeds` is the feed table with its members,
`groups` and `ids` what the feeds asset found. `AssignIds` is `assign_ids` as a
function of the members that `load_existing` read (`Existing`), with its two
loops as folds, the first over the candidates sorted as in the code. `Mint`
finds nothing when every attempt's hash is taken; the asset then fails, so that
`Load` asks for a `Complete` assignment.
`Hash` is an arbitrary function, collisions included. `home` and `was`, not in
the code, remember the last group and feed of each source and feed.

The feeds asset is two transactions: `Load`, from which the ids follow, and
`Persist`. A run started by hand while another is at work is `Overtake`, which
records after it; the other becomes `late` and may load (`LateLoad`), persist
(`LatePersist`) and prune whenever it likes, or never. What it persists may be
of sources that have gone: it then fails, or, where the code deletes none of
their memberships, leaves them in two feeds, and `Owners` is the choice among
them that an unordered select makes.

### MobilityDatabase, TransitlandAtlas, Rows and Ingest

In `MobilityDatabase` a step is one request with what the client does of its
answer. The recursion of `fetch_window` is `windows`, the stack of what it has
still to fetch of a page; `EndOfWindow` and `EndOfPage` are the returns through
it and the loop of `iter_feeds`. The server is external: between two requests it
may add or remove a record (`Insert`, `Withdraw`), and it answers 5xx for every
window with a bad record in it, or for all while it is down. `stayed`, `gaps`
and `additions`, which are not in the code, say what a perfect reader would have
got. Any other error is `Raise`.

In `TransitlandAtlas` each remote file is a coroutine; `Take` is its turn at the
semaphore and `Finish` the end of its request, with a document or without.
`ReadLocal` is a checkout. `OperatorOf` is `build_operator_index` with
`resolve`, stated by positions in the corpus and not by two dictionaries.

`Rows` has no state. A URL is a pair, what the catalog wrote and what
`normalize_url` makes of it: two that are the same may be spelled differently,
and one that is not absolute has no second half. Feeds are numbered in the order
of their prefixed ids. A group is the closure of the evidence that `FeedIds`
shows the union-find to compute, and `FeedIds` starts from any links at all, so
that the two meet there.

`Ingest` holds what each asset returned. The catalogs share nothing and talk to
different servers, so one after the other stands for any interleaving. A process
that ends takes its variables with it: `Exit` sets them back, which keeps the
states few. `SampleTargets` is the round over the hosts stated as a set: no host
gives a URL while another that has one left is behind it. What a URL answers is
arbitrary, and `Fail` ends a run whose checks fail (see EndpointChecks).

### Migration

The older program's history is what any answers leave, its oldest transitions
possibly pruned. `Upgrade` picks among the freshest sources of a URL in any
order, since the select orders nothing; `Record` is `record()` on any answers:
it gives the sources the URLs that the catalog now has for them, makes a row for
a URL that is listed but not checked, and leaves alone the source that is no
longer listed. `left`, which is not in the code, keeps the tables as the last
migration found them. `status` and `endpoint` are the columns that move, `None`
where a column or a row does not exist. The older program is not in the
repository, so nothing runs between a downgrade and the next upgrade.

## What the runs show

| run | properties | distinct states |
|---|---|---|
| `publish_serial` | types; `ManifestAdvertisesWhatIsUp`; `DamageIsLocal`; `Thinned`; `PruneKeepsOlder`; `QuietRunWritesNothing` | 854 000 |
| `publish_recovery` | `Recovers` | 235 000 |
| `pages_serial` | types; `PagesMatchIndex`; `SitemapMatchesRobots`; `StaleOnlyAfterDeath` | 7 265 000 |
| `endpoint_checks` | types; `SlotsAreRequests`; `EveryTargetAnswered`; `ImplementsPoliteChecks` | 49 000 |
| `history` | types; `StateIsThatOfTheLog`; `RowsAreTheChanges`; `StatusIsTrue`; `LinksArePresent` | 545 000 |
| `feed_ids` | types; `GroupsAreLinked`; `OneFeedPerSource`; `IdsFollowMembers`; `RerunKeepsIds`; `UndisturbedGroupReturns` | 2 157 000 |
| `ingest` | types; `ReadsTheList`; `LostFileCostsItsOwn`; `LinksAgree`; `EveryUrlIsDecided`; `FeedsAgreeWithRows`; `RunEnds` | 30 000 |
| `migration` | types; `HistoryIsCoherent`; `StreakIsDated`; `ForthAndBack`; `BackAndForth` | 165 000 |

Deadlock is checked for the endpoint checker, and for the migration, which can
always be undone. The other models stop when the bound on runs and days is
reached, and `Ingest` when its run is done.

What the ingest can lose has a measure in `ReadsTheList`: a list read by offset
while it is edited misses a record for each one withdrawn before it, and reads
one twice for each one added, no more; halving costs nothing but the bad ones.
`LostFileCostsItsOwn` has two exceptions written into it, which the code has
too: a feed is credited to another operator or to none if the file of its
operator is lost, or that of the entry of the feed which names the operator;
a feed id may be in several files, and the row is not always made of the entry
that names one.

Four runs look for a counterexample to something the repository says, and find
one:

| run | what is said | what happens |
|---|---|---|
| `publish_orphan` | the objects under `snapshots/` are those the index lists (`tests/test_published_artifacts.py:121`) | a run dies after the snapshot and before the index; nothing lists that object again, so retention never deletes it |
| `pages_stale` | changed fragments are written (`published_artifacts.py:57`) | a run dies after putting or deleting a feed's fragments and before the pages index, the feed goes back to what the index has of it, and the next run sees the hash it knows: the dead run's page stays up, or the deleted one stays away |
| `history_dead_feed` | a long dead feed is out of the index (`pages.py:42`) | once retention has deleted the transition, `since` is null and `indexable` says yes |
| `feed_ids_return` | ids are sticky, a group that returns gets its old id (`feeds.py:18`, `history/models.py:188`) | feed {1, 2}; 2 is alone for a while; 1 returns unlinked, wins the tie for the id, and the feed that never went away gets a new one |

`CompletedRunLeavesItsPages`, which `pages_stale` refutes, speaks of the feeds
that the completed run has. The fragments a dead run left of a feed that is in
no index and does not come back stay up as well: `removed`
(`published_artifacts.py:92`) is computed from the index. `StaleOnlyAfterDeath`
counts both among what a dead run may leave.

The last is not only about returns. `persist` leaves absent members in a present
feed, so the feed that stayed and the source that comes back both overlap it by
one, and the order of the groups decides.

Five more disagreements were met and have no run of their own:

- "A quiet week … costs one snapshot" (`published_artifacts.py:152`): retention
  may delete the snapshot the dedupe would compare with; the index falls back to
  older answers, and an unchanged day writes a file. `QuietRunWritesNothing`
  says what does hold: it costs none while the newest snapshot is still there.
- "A source belongs to one feed at a time" (`feeds.py:265`): a run that persists
  after another, whose catalog no longer has one of its sources, clears the
  memberships of the sources that are present *now* and not of that one, which
  is then in two feeds. `OneFeedPerSource` says when that is over: once the
  source is back and a run has persisted.
- "One request at a time per host, with a pause between two"
  (`endpoint_checks.py:5`): the lock and the pause are those of the host that
  the URL names. A redirect (line 264) enters any host, whoever holds its lock
  and however short its rest, and leaves no mark on it; the GET after a rejected
  HEAD follows at once. `PoliteChecks` is stated about targets and the hosts of
  their URLs, which is what does hold.
- "One unusable URL is a failed check, never a failed run"
  (`endpoint_checks.py:145`): the headers are read after the `try` (lines 160 to
  176). A `Last-Modified` whose year does not fit a C integer raises
  `OverflowError`, and a `Content-Range` or `Content-Length` of digits that
  `int` refuses `ValueError`; neither is caught, and the run fails. `EveryTargetAnswered` says that
  exception in its own words: every coroutine ends, and with a result unless the
  run fails.
- "One malformed file must not cost the whole corpus"
  (`transitland_atlas.py:146`): a file that is no UTF-8 raises
  `UnicodeDecodeError`, which is not among the exceptions caught there, and ends
  the asset. It is part of `Raise`.

### Bounds

- *Publish*: four runs over seven days, weeks of three days and months of four so
  that a week straddles two months; a daily window of one day and a weekly one
  of three, so a snapshot passes through all three regimes. Two payloads suffice
  for "same" and "different". For recovery, three runs of which the second may
  overlap either neighbour and the first two may die: the smallest case with a
  dead run, an overlap and a clean run after them.
- *Pages*: two feeds (interchangeable, so symmetry is used; all its properties
  are safety), texts with a name and without, three runs over two days, a
  noindex window of none, so that a feed down since the first day loses its page
  in the index on the second. A page can gain a noindex, lose it, vanish and
  return.
- *EndpointChecks*: three hosts, two slots, one host with two URLs, a delay of
  two ticks. Some coroutine can wait for each of lock, pause and slot, and be
  cancelled there.
- *History*: three recorded runs over six days with retention windows of two and
  one; two sources share a URL and each may be absent. A URL can be forgotten
  and relisted, and a transition can outlive or not outlive the window.
- *FeedIds*: three sources; four runs over three days with a window of one, so a
  group can form, part and return inside the window and past it. The second run
  finds any sources linked pairwise in every way and order; the third the same
  in one order; the first and the last have fewer
  catalogs. Any run may be overtaken by the next, once. Four runs are what it
  takes for a source that an overtaken run left in two feeds to return. The hash
  collides at the first attempt for two pairs of groups.
- *Ingest*: pages of three, so that a half is uneven, and of one; four records
  and one, the second of which is bad, and two edits, wherever in the list and
  whenever; one outage, which may be without end. Three files on two slots, with
  a feed in two of them, of which the second names its operator, and operators
  declared apart from their feeds. URLs that
  are shared by two or three catalogs, relative, open in one row and keyed in
  another, keyed in all. A limit of two URLs, and none.
- *Migration*: two sources over two URLs, which they may share, exchange, lose
  or not have; two runs before the first upgrade, two after it, and migrations
  up and down between any two.

### Fairness

`publish_recovery` assumes that the next run is started (the daily schedule) and
that a run which has not failed goes on: it only waits for the store's client,
which times out. `endpoint_checks` assumes that the event loop resumes every
coroutine that can go on, that time passes, and that a request ends, which
`httpx.Timeout` enforces. Weak fairness of `Check(t)` is enough for the lock and
the slots, whose order of waking is left open: each target takes them once, so
whoever still waits finds them free in the end. That an answer can be read is
not assumed: a step of `Check(t)` may be the one that fails the run, or one that
is cancelled for it.
`ingest` assumes that a request ends within its client's timeout and that an
asset starts when those before it are done. Neither the end of an outage nor an
exception is assumed: the run ends all the same.

## What is proved

`PublishProofs`, for any payloads, calendar, windows and number of runs:

- `TypeCorrect`: `Spec => []TypeOK`, whatever overlaps or dies.
- `ManifestIsSafe`: if runs do not overlap, `ManifestAdvertisesWhatIsUp`. The
  property speaks of one step; the invariant behind it says how far the active
  run is. `Counted`: a run among its documents has put fewer than five of them
  and one past them exactly five. `Serial`: at most one run is active. `Written`:
  the first `put[r]` documents are those of the active run, and once it is past
  the index, the index is the one it computed.
- `DamageStaysLocal`: if runs do not overlap, `[]DamageIsLocal`: where objects
  and index differ, some run has put or deleted that day's object and not put
  the index since. The invariant `Accounted` adds what an active run has before
  it: objects it has touched are as its new index has them, and where that
  differs from the index in the bucket, it has touched the object or is to put
  or delete it (`Pending`).
- If runs do not overlap, whatever dies: `OldestIsKept` (`PruneKeepsOlder`),
  `SnapshotsAreThinned` (`Thinned`) and `QuietRunsAreCheap`
  (`QuietRunWritesNothing`). The first two facts hold of one
  reading of the index: what is dropped has an older day of its period, and the
  least day of a period is not dropped (`OldestStays`). That they hold of the
  index in the bucket is the invariant `RetentionInv`: the index is the one that
  the last run to put it computed, from an index no later than its day (`Timely`,
  `Read`, `LastPut`).

`EndpointChecksProofs`, for any finite set of targets, any hosts, cap and delay:

- `TypeCorrect`, in particular that the semaphore never exceeds its cap.
- `NoSlotLeaks`: `[]SlotsAreRequests`, by counting the requests in flight.
- `TrafficIsPolite`: `Spec => ImplementsPoliteChecks`. `TakeLock` and the steps
  up to the request stutter, `AcquireSlot` is `Begin`, whatever lets go of a
  request is `Finish`, being cancelled before it is `GiveUp`. The invariant is
  that whoever is past `TakeLock` and not over holds its lock (`Locking`), so
  that a pause once slept stays slept (`Rested`).

`PagesProofs`, for any feeds, days and runs, any of which may die:

- `TypeCorrect`; `DamageIsAccountedFor` (`StaleOnlyAfterDeath`);
  `PagesAreIndexed` (`PagesMatchIndex`) and `SitemapIsTrue`
  (`SitemapMatchesRobots`). None of the properties is inductive, for they speak
  of the quiet between runs. The invariant `BucketInv` has `InHand`: what a run
  no longer has to write shows its new entry, what it no longer has to delete is
  gone, and past the index the index is its own; `Accounted`: a feed's fragments
  show its entry, or a run that is writing or has died was to touch them; and
  `Mapped` for the sitemap. From `Accounted` the three follow.

`HistoryProofs`, for any sources, URLs, catalogs, windows, runs and days:

- `TypeCorrect`. Its invariant ties a URL's row to its log (`Logged`): the row
  is dated as the last entry, so that `prune()` forgets both or neither.
- `StateIsTrue` (`StateIsThatOfTheLog`), inductive with the types. The lemma is
  `StreakGrows`: a check later than all others continues the streak of its own
  answer and ends that of another.
- `RowsAreTrue` (`RowsAreTheChanges`), which needs the former: a check is a
  change of the log exactly if it differs from the state that was kept
  (`ChangesGrow`), since that state is the answer of the last check.
- `LinksAreTrue` (`LinksArePresent`), with one more fact: a source that the last
  record published is present, and a prune takes only those that are not.
- `StatusIsReported` (`StatusIsTrue`). The invariant is `StatusInv`. `InTime`: a
  log has one entry a run, dated in their order, so that the last change of a
  URL's answer begins its streak (`LastChange`). `Horizon`: the last prune took
  the rows before some day, of all URLs alike; a URL's newest row is then the
  first day of its streak, or it has none and that day is beyond retention
  (`SinceIs`). `RecordedToday`: what the day's record listed is dated today, so
  that the prune after it forgets none of it, even with windows of no days.
  With time a row stays true, since dates only move away from the window
  (`RowStaysTrue`).

`FeedIdsProofs`, for any finite set of sources, any catalogs, links in any
order, any hash, retention window, runs and days:

- `GroupsLinked` (`GroupsAreLinked`), about the algorithm. The parents are a
  forest that only goes down (`Forests`), so that `Root` is defined and
  `ForestInduction` holds; `find` leaves every root as it is, compressed paths
  included (`FindKeepsRoots`), and `union` joins exactly the trees of its link
  (`UnionJoins`). Along the links, joined sources have one root, and a set that
  no link leaves keeps its roots (`LinksDecideRoots`): the groups connect.
- `IdsFollowTheMembers` (`IdsFollowMembers`). `IdsFollow` says of any existing
  feeds and groups what `assign_ids` gives. After each claim, a candidate that
  came before is either claimed or has lost its group or its feed to one that
  came before it (`ClaimsFollow`); what is minted after them is nobody's.
- `TypeCorrect` and `OneFeed` (`OneFeedPerSource`), inductive together: the ids
  of a run are distinct (`CompleteIds`), and `persist()` leaves a present source
  only where its own group is (`PersistIs`).
- `RerunKeeps` (`RerunKeepsIds`). `CalmInv`: while only one run has persisted at
  a time, the ids of the groups are those that `AssignIds` would give them from
  the feeds as they are now. It holds after `Load` because it was so assigned,
  and after `Persist` and `Prune` because every member then counts for the feed
  of its group (`SavedKeeps`).
- `Returns` (`UndisturbedGroupReturns`). `HomeInv`: a source saved within the
  window is still a member of that feed and of no other, neither its row nor the
  feed having been seen before that day.

`IngestProofs`, for any catalogs, page sizes, edits, outages and answers, and
whatever files of the corpus cannot be read:

- `ReadsList` (`ReadsTheList`). `PagesInv`: the windows still to be fetched tile
  the rest of the page (`Tiled`), so that the rows so far, and what the list has
  from there on, are together what the client will have. `Accounted` counts what
  is missing from that and what is in it twice: fetching moves records from one
  part to the other, an insertion adds at most one that is there twice, and a
  withdrawal or a record given up on takes at most one.
- `TypeCorrect` (`TypeOK`), in particular that no two rows of the sources have
  one id, although three catalogs make them. `RunInv` has for each catalog that
  its rows are numbered from its own entries, one row of an id; a merge of such
  sets loses none (`MergeIs`).
- `LinksAreMutual` (`LinksAgree`). `CrossLink` changes links and places only, so
  that two sources match exactly as their rows did. That they end in one feed
  is `GroupsHold`: joining evidence piece by piece, whatever the order, leaves
  the rows of each piece together.
- `UrlsAreDecided` (`EveryUrlIsDecided`): no text of a relative URL is a key
  that another URL has, so that no skip overwrites an answer; and a sample that
  leaves a target out is as large as the limit.
- `FeedsAreTrue` (`FeedsAgreeWithRows`). A finite set under a total order has
  its places, each taken once (`PlacesOfOrder`); the order of the names and that
  of the URLs of a role are such orders. So the list of a role has one URL of
  each form, the best first, and its states are those of the rows' URLs,
  although a URL that is not listed itself is so in another spelling
  (`StatesAre`).
- `LossStaysLocal` (`LostFileCostsItsOwn`). `CorpusInv`: the documents are those
  of the files that were read, in the order of the paths, in whatever order they
  came. Each of their entries has a place in a file (`AllIsTraced`), so that
  they embed into the whole corpus, order kept, and leave out only what is in
  lost files (`ReadIsEmbedded`). The first entry that has a row, the first
  operator to claim a feed, the first entry to name one and the last document
  for it are therefore the same in both, or lost.

The attempt to prove the last found it false as it stood: with one exception,
for the operator's own file, it held of the small corpus that TLC had. A feed
listed in two files, of which only the second names the operator, is the
counterexample; it is now in the corpus that TLC has, and the second exception
in the property.

`MigrationProofs`, for any sources and URLs and any sequence of runs, upgrades
and downgrades:

- `TypeCorrect`.
- `HistoryStaysCoherent` (`HistoryIsCoherent`) and `StreaksStayDated`
  (`StreakIsDated`: a count of failures fits between the last transition that is
  kept and the last check), inductive together (`RowsAreSound`). That the older
  program's history is coherent to begin with is a fact about the changes of any
  sequence of answers (`ChangesAlternate`, `LastChangeIsCurrent`).
- `NothingLostDown` (`ForthAndBack`) and `NothingLostUp` (`BackAndForth`), from
  the invariant `Carried`: until the next run, what was moved is still what
  `left` has.

`Inductions` has what these need of `Max`, `Min`, recursive functions and folds.
The library's induction theorems take an operator, which no prover here can
instantiate, so the lemmas speak of *sets* where those have predicates and of
*functions* where they have steps: a set of numbers that is not empty has a
least (`LeastExists`); a function that follows its recursion exists
(`RecursionExists`); a set of subsets that holds the empty one and grows by one
element holds them all (`SubsetInduction`); a fold over a finite set is a
function on its subsets (`FoldExists`). A proof about a loop then names the set
of the values for which its claim holds, and shows it to be all of them.

The assumptions beside those on the constants' sets are the `NoneAssumption`s,
that the value for "no row" is no row, in `Migration` that the first upgrade
is within `MaxRuns`, and those of `Ingest` on what the catalogs list:

- `ListingAssumption`: a list has a record once, and finitely many of them may
  be added to it. Records are told apart by their ids.
- `CorpusAssumption`: the files are numbered in the order of their paths.
- `NumbersAssumption`: no two catalogs have a number in common, as no two have a
  prefix (`catalog.py`), and an example's slug is its own
  (`curated_examples.py`).
- `EntriesAssumption`: the catalogs are finite.
- `UrlsAssumption`: what is no absolute URL is not what one normalizes to, since
  that begins with a scheme and a host and would be absolute itself. The code
  has one exception that the model leaves out: the host of an IPv6 literal loses
  its brackets in the normalized form.

Only model-checked: liveness (`Recovers`, `EveryTargetAnswered`, `RunEnds`),
which is out of the prover's reach. Every safety property of a passing run is
also a theorem.

## What is not modelled

The text of things: URL normalisation and sibling keys are taken as functions,
names, licences, sizes, latencies and the rendering of documents and pages are
left out. CORS, the heartbeat, the session and the settings keep no state or
make one call. The schema's DDL (the migrations create tables before any of
this), except for the revision that moves data.

Overlapping runs are modelled for the documents, the snapshots and the feed ids.
Two `record()` transactions at once may both write a transition
(`check_history.py:203`): it needs two runs started by hand, and is listed as a
hazard without a property. So are redirects across hosts, the GET that follows a
HEAD without a pause, and the snapshot hash, which covers latencies and failure
counts (`artifacts.py:300`).

Some things are coarser than the code. Dates are days, so whether a row just at
the edge of a retention window goes with an execution early or late in the same
day is rounded. A check that is executed again on its day counts as another
check, in the tables and in the log that they are compared with: that
`consecutive_failures` counts one day twice is therefore listed as a hazard and
not caught. In `Migration` only the state, the failures, the last check and the
transitions travel: the facts of the last response (`content_type`, `etag`,
`final_url`), which `upgrade()` sets back, are left out, so that `BackAndForth`
says nothing of them.

## Plan

Done: the publisher, the pages, the checker, the history, the ids, the
ingest and the data migration, with proofs for all of them. What is left, in
this order:

1. Overlap where it is missing: `Pages` with two runs, `History` with two
   `record()`.
2. A daily run that composes `History` and `FeedIds` over one source table with
   one `prune()`, with publication after them, so that what is published on a
   day is related to what was checked on it.
