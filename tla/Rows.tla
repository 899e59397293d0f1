-------------------------------- MODULE Rows --------------------------------
(***************************************************************************)
(* From the entries of the catalogs to rows, and from rows and the answers *)
(* of their URLs to logical feeds: make_rows, merge and cross_link, the    *)
(* choice of what to check, fold, the evidence of group and build_feed.    *)
(*                                                                         *)
(* A URL is what a catalog wrote and what normalize_url makes of it, None  *)
(* when it is not absolute.  Feeds are numbered in the order of their      *)
(* prefixed ids ("curated:", then "md:", then "tl:"), which is also the    *)
(* order of NAME_PRIORITY, and rows in the order of their source ids.      *)
(* Names, licences, sizes and latencies are left out.                      *)
(***************************************************************************)
EXTENDS Integers, SequencesExt

CONSTANTS
    None,
    Sibling         \* rt_sibling_key, of a normalized URL

StaticRoles == {"scheduled"}
RtRoles == {"vehicles", "trip_updates", "alerts"}
Kinds == {"static", "rt"}
RolesOf(kind) == IF kind = "static" THEN StaticRoles ELSE RtRoles

NormalizeUrl(url) == url.key
ResultKey(url) == IF url.key = None THEN url.text ELSE url.key

-----------------------------------------------------------------------------
(* catalog.py                                                              *)

SourceId(feed, kind) == 2 * feed + (IF kind = "static" THEN 1 ELSE 0)

(* A catalog's entry gives a row for each kind it has a URL of.            *)
MakeRows(entry) ==
    {[id |-> SourceId(entry.feed, kind), catalog |-> entry.catalog,
      feed |-> entry.feed, kind |-> kind,
      urls |-> [role \in DOMAIN entry.urls \cap RolesOf(kind) |->
                    entry.urls[role]],
      auth |-> entry.auth, place |-> entry.place, references |-> entry.references,
      links |-> {}] :
        kind \in {k \in Kinds : DOMAIN entry.urls \cap RolesOf(k) # {}}}

Urls(row) == {row.urls[role] : role \in DOMAIN row.urls}

-----------------------------------------------------------------------------
(* sources.py                                                              *)

Ids(rows) == {r.id : r \in rows}

(* The first catalog listed wins a collision.                              *)
Merge(groups) ==
    FoldLeft(LAMBDA rows, group : rows \cup {r \in group : r.id \notin Ids(rows)},
             {}, groups)

(* Faulty variant: the URLs are compared as they were written.             *)
NormalizedUrlsRaw(row) == {u.text : u \in Urls(row)}

NormalizedUrls(row) == {NormalizeUrl(u) : u \in Urls(row)} \ {None}

Matches(row, rows) ==
    {other \in rows :
        /\ other.catalog # row.catalog
        /\ other.kind = row.kind
        /\ NormalizedUrls(other) \cap NormalizedUrls(row) # {}}

Earliest(rows) == CHOOSE r \in rows : \A s \in rows : r.id <= s.id

(* A row that has no place takes that of a match that has one: the first   *)
(* by one of its URLs, which it goes through in the order of a set.        *)
PlaceOf(row, matches) ==
    LET placed == {m \in matches : m.place # None}
        By(k) == {m \in placed : k \in NormalizedUrls(m)}
        key == CHOOSE k \in NormalizedUrls(row) : By(k) # {}
    IN  IF row.place = None /\ placed # {} THEN Earliest(By(key)).place
        ELSE row.place

CrossLink(rows) ==
    {[r EXCEPT !.links = Ids(Matches(r, rows)),
               !.place = PlaceOf(r, Matches(r, rows))] : r \in rows}

-----------------------------------------------------------------------------
(* endpoint_checks.py: what is checked.  A URL that some row lists without *)
(* a key is requested.                                                     *)

Targets(rows) == UNION {NormalizedUrls(r) : r \in {r \in rows : ~r.auth}}

Skipped(class) == [ok |-> FALSE, skipped |-> TRUE, class |-> class, modified |-> 0]

(* Faulty variant: one row that needs a key is enough for a URL to be      *)
(* skipped, and the skip replaces the answer.                              *)
SkipsOfAny(rows) ==
    LET needsAuth == UNION {NormalizedUrls(r) : r \in {r \in rows : r.auth}}
        relative == {u.text : u \in {u \in UNION {Urls(r) : r \in rows} :
                                        NormalizeUrl(u) = None}}
    IN  [k \in needsAuth \cup relative |->
            Skipped(IF k \in relative THEN "relative" ELSE "auth_required")]

Skips(rows) ==
    LET needsAuth == UNION {NormalizedUrls(r) : r \in {r \in rows : r.auth}}
        relative == {u.text : u \in {u \in UNION {Urls(r) : r \in rows} :
                                        NormalizeUrl(u) = None}}
    IN  [k \in (needsAuth \ Targets(rows)) \cup relative |->
            Skipped(IF k \in relative THEN "relative" ELSE "auth_required")]

-----------------------------------------------------------------------------
(* check_history.py: a row's state is that of its worst endpoint.          *)

Fold(row, results) ==
    LET checks == {results[k] : k \in {k \in {ResultKey(u) : u \in Urls(row)} :
                    k \in DOMAIN results /\ ~results[k].skipped}}
    IN  IF checks = {} THEN "unknown"
        ELSE IF \A c \in checks : c.ok THEN "up" ELSE "down"

-----------------------------------------------------------------------------
(* feeds.py                                                                *)

(* The evidence that joins rows, as the sets of rows that share a piece.   *)
Evidence(rows) ==
    LET Sharing(Key(_)) ==
            {Ids({r \in rows : k \in Key(r)}) : k \in UNION {Key(r) : r \in rows}}
        FeedOf(r) == {<<r.catalog, r.feed>>}
        SiblingsOf(r) ==
            {Sibling[k] : k \in {NormalizeUrl(r.urls[role]) :
                role \in DOMAIN r.urls \cap RtRoles} \ {None}} \ {None}
        ReferencesOf(r) ==
            {{r.id, SourceId(f, "static")} :
                f \in {f \in r.references : SourceId(f, "static") \in Ids(rows)}}
    IN  Sharing(FeedOf) \cup Sharing(NormalizedUrls) \cup Sharing(SiblingsOf)
        \cup UNION {ReferencesOf(r) : r \in rows}

(* Each piece of evidence makes one group of those it meets.  That the     *)
(* union-find of the code comes to this is what FeedIds shows.             *)
GroupsOf(rows) ==
    LET Join(e, parts) == {UNION {p \in parts : p \cap e # {}}}
                            \cup {p \in parts : p \cap e = {}}
    IN  {{r \in rows : r.id \in g} :
            g \in FoldSet(Join, {{i} : i \in Ids(rows)}, Evidence(rows))}

UrlState(url, results) ==
    LET k == ResultKey(url)
    IN  IF k \notin DOMAIN results THEN "unknown"
        ELSE IF results[k].skipped THEN "unknown"
        ELSE IF results[k].ok THEN "up" ELSE "down"

Modified(url, results) ==
    IF ResultKey(url) \in DOMAIN results THEN results[ResultKey(url)].modified ELSE 0

AnyUp(states) ==
    IF "up" \in states THEN "up" ELSE IF "down" \in states THEN "down" ELSE "unknown"

AllUp(states) ==
    IF states \ {"unknown"} = {} THEN "unknown"
    ELSE IF "down" \in states THEN "down" ELSE "up"

(* By catalog, schedules first.                                            *)
NameBefore(r, s) ==
    LET Priority == [curated |-> 0, mobilitydatabase |-> 1, transitland |-> 2]
        Order(x) == <<Priority[x.catalog], IF x.kind = "static" THEN 0 ELSE 1, x.id>>
        a == Order(r)  b == Order(s)
    IN  \/ a[1] < b[1]
        \/ a[1] = b[1] /\ a[2] < b[2]
        \/ a[1] = b[1] /\ a[2] = b[2] /\ a[3] < b[3]

StateOrder == [up |-> 0, unknown |-> 1, down |-> 2]

(* Faulty variant: the most recent schedule first, whether it is there.    *)
RankedBeforeByDate(x, y, results) ==
    LET m == Modified(x.url, results)  n == Modified(y.url, results)
    IN  m > n \/ (m = n /\ NameBefore(x.row, y.row))

(* Up, then unchecked, then down; within each the most recently modified,  *)
(* and for ties the order of the names.                                    *)
RankedBefore(x, y, results) ==
    LET a == StateOrder[UrlState(x.url, results)]
        b == StateOrder[UrlState(y.url, results)]
        m == Modified(x.url, results)  n == Modified(y.url, results)
    IN  \/ a < b
        \/ a = b /\ m > n
        \/ a = b /\ m = n /\ NameBefore(x.row, y.row)

(* The URLs of a role, one per normalized form, as the first row has it.   *)
Listings(members, role) ==
    LET all == {[url |-> r.urls[role], row |-> r] :
                    r \in {r \in members : role \in DOMAIN r.urls}}
    IN  {x \in all : \A y \in all :
            ResultKey(y.url) = ResultKey(x.url) => ~NameBefore(y.row, x.row)}

(* A listing comes after as many as are ranked before it.                  *)
Ranked(listings, results) ==
    [i \in 1 .. Cardinality(listings) |->
        CHOOSE x \in listings :
            Cardinality({y \in listings : RankedBefore(y, x, results)}) = i - 1]

BuildFeed(members, results) ==
    LET roles == UNION {DOMAIN r.urls : r \in members}
        ranked == [role \in roles |-> Ranked(Listings(members, role), results)]
        states == [role \in roles |->
                    {UrlState(ranked[role][i].url, results) : i \in DOMAIN ranked[role]}]
        AuthOnly(url) == /\ ResultKey(url) \in DOMAIN results
                         /\ results[ResultKey(url)].class = "auth_required"
    IN  [members |-> Ids(members),
         urls |-> [role \in roles |->
                    [i \in DOMAIN ranked[role] |-> ranked[role][i].url]],
         roleState |-> [role \in roles |-> AnyUp(states[role])],
         state |-> AllUp(UNION {states[role] : role \in roles}),
         authRoles |-> {role \in roles :
            \A i \in DOMAIN ranked[role] : AuthOnly(ranked[role][i].url)}]
=============================================================================
