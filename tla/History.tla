------------------------------ MODULE History ------------------------------
(***************************************************************************)
(* The check history: what record() and prune() keep in Postgres about the *)
(* sources of the catalogs and the URLs they list, and the status of each  *)
(* source that a run reads back from it and publishes.                     *)
(*                                                                         *)
(* A step is one transaction.  The two of a run are separate assets, so    *)
(* either can be executed again from the UI and the second can be missing; *)
(* a day without a record is one on which the asset, or one before it,     *)
(* failed.  Nothing is kept per check: a URL has its current state, its    *)
(* failure count, and one row per change of state.  The variable log keeps *)
(* everything, and is what the tables are compared with.                   *)
(*                                                                         *)
(* A role is not modelled: a source's links are the set of its URLs.  The  *)
(* feed tables, which prune() also goes over, are those of assets/feeds.py *)
(* and refer to no URL.                                                    *)
(***************************************************************************)
EXTENDS Integers, FiniteSetsExt

CONSTANTS
    Sources,
    Urls,
    Catalogs,       \* what the catalogs may list: the URLs of each source,
                    \* none for a source that no catalog has
    Nameless,       \* the sets of sources whose feed has a blank name
    None,           \* no row, no date
    StateRetention, \* settings.state_retention_days
    AbsentRetention,\* settings.source_absent_retention_days
    NoindexAfter,   \* pages.NOINDEX_DOWN_AFTER, in days
    MaxRuns,        \* bound: how many runs are recorded
    MaxDay          \* bound: the last day of the calendar

Runs == 1 .. MaxRuns
Days == 0 .. MaxDay

ASSUME HistoryAssumption ==
    /\ None \notin Int
    /\ IsFiniteSet(Sources) /\ IsFiniteSet(Urls)
    /\ Catalogs \subseteq [Sources -> SUBSET Urls]
    /\ StateRetention \in Nat /\ AbsentRetention \in Nat
    /\ NoindexAfter \in Nat
    /\ MaxRuns \in Nat /\ MaxDay \in Nat

ASSUME NamelessAssumption == Nameless \subseteq SUBSET Sources

VARIABLES
    today,
    runs,           \* check_run: the id of the last one
    sources,        \* source: present and last_seen_in_catalog
    endpoints,      \* endpoint: state, consecutive_failures and last_seen
    rows,           \* endpoint_state: the transitions of each URL
    links,          \* source_endpoint
    published,      \* the statuses the last record() returned
    recorded,       \* record() has been executed today
    log             \* history, not in the code: every answer of each URL,
                    \* "skipped" included, since it was last forgotten

tables == <<runs, sources, endpoints, rows, links>>
vars == <<today, tables, published, recorded, log>>

Answers == {"up", "down"}

Source == [present: BOOLEAN, lastSeen: Days]
Endpoint == [state: Answers \cup {"unknown"}, failures: 0 .. MaxRuns,
             lastSeen: Days]

ASSUME NoneAssumption == None \notin Source /\ None \notin Endpoint

-----------------------------------------------------------------------------
(* The status of a source, from the histories of those of its URLs that    *)
(* were checked.  A set of URLs is passed with their endpoints and rows.   *)

Since(transitions) ==
    IF transitions = {} THEN None ELSE Max({row.at : row \in transitions})

Dated(urls, rws) == {Since(rws[u]) : u \in urls} \ {None}

Latest(days) == IF days = {} THEN None ELSE Max(days)
Earliest(days) == IF days = {} THEN None ELSE Min(days)

(* fold(): up when every checked URL is, unknown when none was checked.    *)
RowState(checked, eps) ==
    IF checked = {} THEN "unknown"
    ELSE IF \A u \in checked : eps[u].state = "up" THEN "up" ELSE "down"

(* Faulty variant: an up row has been up since its first URL came up, and  *)
(* a down row down since its last one went down.                           *)
RowHistorySwapped(checked, eps, rws) ==
    LET state == RowState(checked, eps)
        worst == {u \in checked : eps[u].state = state}
    IN  [state |-> state,
         since |-> IF state = "up" THEN Earliest(Dated(worst, rws))
                                   ELSE Latest(Dated(worst, rws)),
         failures |-> IF state = "down"
                      THEN Max({eps[u].failures : u \in worst}) ELSE 0]

(* Up since the last of its URLs came up, down since the earliest of those *)
(* still failing went down.                                                *)
RowHistory(checked, eps, rws) ==
    LET state == RowState(checked, eps)
        worst == {u \in checked : eps[u].state = state}
    IN  [state |-> state,
         since |-> IF state = "up" THEN Latest(Dated(worst, rws))
                                   ELSE Earliest(Dated(worst, rws)),
         failures |-> IF state = "down"
                      THEN Max({eps[u].failures : u \in worst}) ELSE 0]

-----------------------------------------------------------------------------
Init ==
    /\ today = 0
    /\ runs = 0
    /\ sources = [s \in Sources |-> None]
    /\ endpoints = [u \in Urls |-> None]
    /\ rows = [u \in Urls |-> {}]
    /\ links = {}
    /\ published = [s \in Sources |-> None]
    /\ recorded = FALSE
    /\ log = [u \in Urls |-> {}]

(* Faulty variant: the state is left to the column's default, which is not *)
(* there before the row is inserted.                                       *)
NewEndpointUnset == [state |-> None, failures |-> 0, lastSeen |-> today]

NewEndpoint == [state |-> "unknown", failures |-> 0, lastSeen |-> today]
EndpointOf(u) == IF endpoints[u] = None THEN NewEndpoint ELSE endpoints[u]

(* Faulty variant: a URL that answers again keeps its failures.            *)
ApplyCheckKeepsFailures(endpoint, answer) ==
    [endpoint EXCEPT !.state = answer,
                     !.failures = IF answer = "down" THEN @ + 1 ELSE @]

ApplyCheck(endpoint, answer) ==
    [endpoint EXCEPT !.state = answer,
                     !.failures = IF answer = "down" THEN @ + 1 ELSE 0]

(* Faulty variant: a row per check.                                        *)
ChangedAlways(u, answer) == TRUE

Changed(u, answer) == answer # EndpointOf(u).state

(* Faulty variant: the links of the sources that are gone are left.        *)
LinksAdded(catalog) ==
    links \cup {l \in Sources \X Urls : l[2] \in catalog[l[1]]}

Links(catalog) == {l \in Sources \X Urls : l[2] \in catalog[l[1]]}

(* One run's transaction: the sources of the day and their URLs, the       *)
(* answers of those that were checked, a transition where one changed, and *)
(* the links, rewritten whole.                                             *)
Record(catalog, answers) ==
    LET listed  == DOMAIN answers
        checked == {u \in listed : answers[u] # "skipped"}
        eps == [u \in Urls |->
                 IF u \in checked THEN [ApplyCheck(EndpointOf(u), answers[u])
                                            EXCEPT !.lastSeen = today]
                 ELSE IF u \in listed
                 THEN [EndpointOf(u) EXCEPT !.lastSeen = today]
                 ELSE endpoints[u]]
        rws == [u \in Urls |->
                 IF u \in checked /\ Changed(u, answers[u])
                 THEN rows[u] \cup {[run |-> runs + 1, state |-> answers[u],
                                     at |-> today]}
                 ELSE rows[u]]
    IN  /\ runs < MaxRuns
        /\ runs' = runs + 1
        /\ sources' = [s \in Sources |->
                IF catalog[s] # {} THEN [present |-> TRUE, lastSeen |-> today]
                ELSE IF sources[s] = None THEN None
                ELSE [sources[s] EXCEPT !.present = FALSE]]
        /\ endpoints' = eps
        /\ rows' = rws
        /\ links' = Links(catalog)
        /\ published' = [s \in Sources |->
                IF catalog[s] = {} THEN None
                ELSE RowHistory(catalog[s] \cap checked, eps, rws)]
        /\ recorded' = TRUE
        /\ log' = [u \in Urls |->
                IF u \in listed
                THEN log[u] \cup {[run |-> runs + 1, answer |-> answers[u],
                                   at |-> today]}
                ELSE log[u]]
        /\ UNCHANGED today

(* Faulty variant of the two windows: a day short.                         *)
ExpiredEarly(day, window) == day <= today - window

Expired(day, window) == day < today - window

(* Deleting a source or an endpoint deletes its links, and an endpoint its *)
(* transitions, by the foreign keys' cascade.                              *)
Prune ==
    LET lostSources == {s \in Sources :
            /\ sources[s] # None
            /\ ~sources[s].present
            /\ Expired(sources[s].lastSeen, AbsentRetention)}
        lostUrls == {u \in Urls :
            /\ endpoints[u] # None
            /\ Expired(endpoints[u].lastSeen, AbsentRetention)}
    IN  /\ recorded
        /\ sources' = [s \in Sources |->
                        IF s \in lostSources THEN None ELSE sources[s]]
        /\ endpoints' = [u \in Urls |->
                        IF u \in lostUrls THEN None ELSE endpoints[u]]
        /\ rows' = [u \in Urls |->
                IF u \in lostUrls THEN {}
                ELSE {row \in rows[u] : ~Expired(row.at, StateRetention)}]
        /\ links' = {l \in links : l[1] \notin lostSources
                                   /\ l[2] \notin lostUrls}
        /\ log' = [u \in Urls |->
                IF \A entry \in log[u] : entry.at < today - AbsentRetention
                THEN {} ELSE log[u]]
        /\ UNCHANGED <<today, runs, published, recorded>>

NextDay ==
    /\ today < MaxDay
    /\ today' = today + 1
    /\ recorded' = FALSE
    /\ UNCHANGED <<tables, published, log>>

Listed(catalog) == UNION {catalog[s] : s \in Sources}

Next ==
    \/ NextDay
    \/ Prune
    \/ \E catalog \in Catalogs :
        \E answers \in [Listed(catalog) -> Answers \cup {"skipped"}] :
            Record(catalog, answers)

Spec == Init /\ [][Next]_vars

-----------------------------------------------------------------------------
(* What the log says                                                       *)

Checks(u) == {entry \in log[u] : entry.answer # "skipped"}

(* The checks that differ from the one before them.                        *)
Changes(u) ==
    {e \in Checks(u) : \A d \in Checks(u) :
        d.run < e.run /\ (\A c \in Checks(u) : c.run < e.run => c.run <= d.run)
            => d.answer # e.answer}

(* The checks since the answer has been what it is.                        *)
Streak(u) ==
    {e \in Checks(u) : \A d \in Checks(u) :
        d.run > e.run => d.answer = e.answer}

TrueSince(u) == Min({e.at : e \in Streak(u)})

(* The URLs of a source that the last record checked.                      *)
CheckedOf(s) ==
    {u \in Urls : /\ <<s, u>> \in links
                  /\ \E e \in Checks(u) : e.run = runs}

-----------------------------------------------------------------------------
(* Properties                                                              *)

TypeOK ==
    /\ today \in Days /\ runs \in 0 .. MaxRuns
    /\ sources \in [Sources -> Source \cup {None}]
    /\ endpoints \in [Urls -> Endpoint \cup {None}]
    /\ \A u \in Urls : rows[u] \subseteq [run: Runs, state: Answers, at: Days]
    /\ links \subseteq Sources \X Urls
    /\ published \in [Sources -> [state: Answers \cup {"unknown"},
                                  since: Days \cup {None},
                                  failures: 0 .. MaxRuns] \cup {None}]
    /\ recorded \in BOOLEAN
    /\ \A u \in Urls : log[u] \subseteq
            [run: Runs, answer: Answers \cup {"skipped"}, at: Days]

(* history/models.py:5 - "a check writes a row only when the answer        *)
(* changes ... and the current answer lives on endpoint itself".  From     *)
(* what is kept, the present state and the failures of a URL can be told   *)
(* as if every check had been kept, also after it was unlisted for a       *)
(* while, skipped, or checked twice on a day.                              *)
StateIsThatOfTheLog ==
    \A u \in Urls :
        /\ endpoints[u] = None <=> log[u] = {}
        /\ endpoints[u] # None /\ Checks(u) = {} =>
            endpoints[u].state = "unknown" /\ endpoints[u].failures = 0
        /\ Checks(u) # {} =>
            /\ \A e \in Streak(u) : endpoints[u].state = e.answer
            /\ endpoints[u].failures =
                IF endpoints[u].state = "down" THEN Cardinality(Streak(u))
                                               ELSE 0

(* history/models.py:149 - "One row per *state change* of a URL, never one *)
(* per check": the rows are the changes of the log, and what is missing is *)
(* what retention was to delete.                                           *)
RowsAreTheChanges ==
    \A u \in Urls :
        LET changes == {[run |-> e.run, state |-> e.answer, at |-> e.at] :
                            e \in Changes(u)}
        IN  /\ rows[u] \subseteq changes
            /\ \A row \in changes \ rows[u] : row.at < today - StateRetention

(* check_history.py:132 - "An up row has been up since its last URL came   *)
(* up.  A down row has been down since its earliest still-failing URL went *)
(* down, and has failed as many runs running as its longest-failing URL".  *)
(* Of a source that still lists what it listed at the last record, that is *)
(* what was published; a date is later than the true one, or missing, only *)
(* if the true one is beyond the retention of the transitions.             *)
StatusIsTrue ==
    \A s \in Sources : published[s] # None /\ CheckedOf(s) # {} =>
        LET urls == {u \in CheckedOf(s) :
                        endpoints[u].state = published[s].state}
            days == {TrueSince(u) : u \in urls}
            since == IF published[s].state = "up" THEN Max(days) ELSE Min(days)
        IN  /\ published[s].state = "up" <=> urls = CheckedOf(s)
                        /\ \A u \in urls : endpoints[u].state = "up"
            /\ published[s].since # since =>
                /\ since < today - StateRetention
                /\ published[s].since = None \/ published[s].since > since
            /\ published[s].failures =
                IF published[s].state = "up" THEN 0
                ELSE Max({Cardinality(Streak(u)) : u \in urls})

(* check_history.py:266 - "an absent source's links are no longer          *)
(* anything's claim": after a record, the links are those of the sources   *)
(* that are present, and of every link both ends have a row.               *)
LinksArePresent ==
    /\ \A l \in links : /\ endpoints[l[2]] # None
                        /\ sources[l[1]] # None /\ sources[l[1]].present
    /\ \A s \in Sources : published[s] # None => sources[s] # None

(* The sources of the model share their URLs, so that group() makes one    *)
(* feed of those that a run sees.  Its state and since, and whether its    *)
(* page is worth indexing.                                                 *)
Members == {s \in Sources : published[s] # None}

FeedState ==
    IF \E s \in Members : published[s].state = "down" THEN "down"
    ELSE IF \E s \in Members : published[s].state = "up" THEN "up"
    ELSE "unknown"

FeedSince ==
    LET days == {published[s].since :
                    s \in {m \in Members : published[m].state = FeedState}}
                \ {None}
    IN  IF FeedState = "up" THEN Latest(days) ELSE Earliest(days)

Indexable ==
    /\ Members \notin Nameless
    /\ ~(/\ FeedState = "down"
         /\ FeedSince # None
         /\ today - FeedSince > NoindexAfter)

(* pages.py:42 - "A feed down this long is kept reachable but out of the   *)
(* index".  A feed that a run finds down, and that has been down for       *)
(* longer than NoindexAfter, is not indexable.                             *)
DeadFeedIsNotIndexed ==
    recorded /\ FeedState = "down"
             /\ (\E s \in Members : \E u \in CheckedOf(s) :
                    /\ endpoints[u].state = "down"
                    /\ today - TrueSince(u) > NoindexAfter)
        => ~Indexable
=============================================================================
