------------------------------- MODULE Ingest -------------------------------
(***************************************************************************)
(* A run from the catalogs to the logical feeds: the Mobility Database and *)
(* the Transitland Atlas are read, their rows are merged with the curated  *)
(* ones and linked, the URLs are checked, and feeds are built.             *)
(*                                                                         *)
(* The two catalogs talk to different servers and share no variable, so    *)
(* that one after the other stands for any interleaving.  An asset whose   *)
(* process ends leaves what it returns: its variables go back to Init.     *)
(***************************************************************************)
EXTENDS Rows

CONSTANTS
    PageSize, Listing, Spare, Bad, MaxEdits, MaxOutages,
    Corpus, Concurrency,
    MobilityEntry,  \* what the Mobility Database has of each record
    Curated,        \* the entries of the packaged examples
    HostOf,
    Answers,        \* how the URL of a normalized form may answer
    Limits          \* EndpointChecksConfig.limit: 0 checks all

VARIABLES
    stage,
    pc, path, windows, offset, page, skipped, fetched, list, down, outages,
    stayed, gaps, additions,
    phase, state, arrived, docs,
    mobility,       \* what the two catalog assets returned,
    transitland,
    sources,        \* sources,
    results,        \* endpoint_checks
    feeds           \* and feeds

MD == INSTANCE MobilityDatabase
TA == INSTANCE TransitlandAtlas

mobilityVars == <<pc, path, windows, offset, page, skipped, fetched, list, down,
                  outages, stayed, gaps, additions>>
transitlandVars == <<phase, state, arrived, docs>>
returned == <<mobility, transitland, sources, results, feeds>>
vars == <<stage, mobilityVars, transitlandVars, returned>>

ASSUME IngestAssumption ==
    /\ \A p \in MD!Paths : PageSize[p] \in Nat \ {0}
    /\ Concurrency \in Nat \ {0}
    /\ Limits \subseteq Nat
    /\ \A k \in DOMAIN Answers : Answers[k] \subseteq [ok: BOOLEAN, modified: Nat]

(* The API lists a record once, and has so many of them.                   *)
ASSUME ListingAssumption ==
    /\ DOMAIN MobilityEntry \subseteq Nat
    /\ Listing \in [MD!Paths -> Seq(DOMAIN MobilityEntry)]
    /\ \A p \in MD!Paths :
        /\ IsInjective(Listing[p])
        /\ IsFiniteSet(Spare[p]) /\ Spare[p] \subseteq DOMAIN MobilityEntry
    /\ MaxOutages \in Nat

CorpusFeeds == UNION {Range(Corpus[f].feeds) : f \in DOMAIN Corpus}
CorpusOperators == UNION {Range(Corpus[f].operators) : f \in DOMAIN Corpus}

(* The files of the corpus are numbered in the order of their paths.       *)
ASSUME CorpusAssumption ==
    /\ Len(Corpus) \in Nat /\ DOMAIN Corpus = 1 .. Len(Corpus)
    /\ \A f \in DOMAIN Corpus :
        /\ Corpus[f].feeds \in Seq(CorpusFeeds)
        /\ Corpus[f].operators \in Seq(CorpusOperators)

(* A feed has a number of its own, since the prefixes of the catalogs      *)
(* differ, and the slugs of the examples.                                  *)
ASSUME NumbersAssumption ==
    LET listed == {e.id : e \in CorpusFeeds}
        curated == {e.feed : e \in Curated}
    IN  /\ listed \cup curated \subseteq Nat
        /\ listed \cap curated = {}
        /\ (listed \cup curated) \cap DOMAIN MobilityEntry = {}
        /\ \A d, e \in Curated : d.feed = e.feed => d = e

(* The catalogs are finite, and an example is of no other catalog.         *)
ASSUME EntriesAssumption ==
    /\ IsFiniteSet(Curated)
    /\ \A e \in Curated : e.catalog = "curated" /\ IsFiniteSet(e.references)
    /\ \A r \in DOMAIN MobilityEntry : IsFiniteSet(MobilityEntry[r].references)

CatalogUrls ==
    {MobilityEntry[r].url :
        r \in {r \in DOMAIN MobilityEntry : MobilityEntry[r].url # None}}
    \cup UNION {Range(e.urls) : e \in Curated \cup CorpusFeeds}

(* What is no absolute URL is not what one normalizes to, either, and any  *)
(* other may be asked for an answer.                                       *)
ASSUME UrlsAssumption ==
    /\ \A u, v \in CatalogUrls : u.key = None /\ v.key # None => u.text # v.key
    /\ \A u \in CatalogUrls : u.key # None => u.key \in DOMAIN Answers

Init ==
    /\ stage = "mobility"
    /\ MD!Init /\ TA!Init
    /\ mobility = {} /\ transitland = {} /\ sources = {}
    /\ results = [k \in {} |-> None]
    /\ feeds = {}

-----------------------------------------------------------------------------
(* build_static_sources and build_realtime_sources: one endpoint, one URL, *)
(* under every role it declares, or as vehicle positions if it declares    *)
(* none.  A record without a URL is left out.                              *)
MobilityRows(records) ==
    LET Roles(r) ==
            CASE MobilityEntry[r].entities = None -> StaticRoles
              [] MobilityEntry[r].entities = {} -> {"vehicles"}
              [] OTHER -> MobilityEntry[r].entities
        Entry(r) ==
            [feed |-> r, catalog |-> "mobilitydatabase",
             urls |-> [role \in Roles(r) |-> MobilityEntry[r].url],
             auth |-> MobilityEntry[r].auth, place |-> MobilityEntry[r].place,
             references |-> MobilityEntry[r].references]
    IN  UNION {MakeRows(Entry(r)) :
                r \in {r \in records : MobilityEntry[r].url # None}}

(* build_sources: a feed id may be in several files, and each of its rows  *)
(* is of the first file that has it.                                       *)
TransitlandRows(documents) ==
    LET listed == TA!All(documents, "feeds")
        Entry(f) == [feed |-> f.id, catalog |-> "transitland",
                     urls |-> f.urls, auth |-> FALSE, place |-> None,
                     references |-> {}]
    IN  Merge([i \in DOMAIN listed |->
                IF TA!Usable(listed[i]) THEN MakeRows(Entry(listed[i])) ELSE {}])

CuratedRows == UNION {MakeRows(e) : e \in Curated}

-----------------------------------------------------------------------------
MobilityStep ==
    /\ stage = "mobility"
    /\ MD!Request \/ MD!Raise \/ MD!Server
    /\ UNCHANGED <<stage, transitlandVars, returned>>

MobilityDatabase ==
    /\ stage = "mobility"
    /\ stage' = "transitland"
    /\ mobility' = MobilityRows(UNION {ToSet(fetched[p]) : p \in MD!Paths})
    /\ MD!Exit
    /\ UNCHANGED <<transitlandVars, transitland, sources, results, feeds>>

TransitlandStep ==
    /\ stage = "transitland"
    /\ TA!Next
    /\ UNCHANGED <<stage, mobilityVars, returned>>

TransitlandAtlas ==
    /\ stage = "transitland"
    /\ stage' = "sources"
    /\ transitland' = TransitlandRows(docs)
    /\ TA!Exit
    /\ UNCHANGED <<mobilityVars, mobility, sources, results, feeds>>

(* The assets downstream of one that failed do not run.  The checks fail   *)
(* when a response has headers that cannot be read (EndpointChecks).       *)
Fail ==
    /\ \/ stage = "mobility" /\ pc = "failed"
       \/ stage = "transitland" /\ phase = "failed"
       \/ stage = "checks"
    /\ stage' = "failed"
    /\ UNCHANGED <<mobilityVars, transitlandVars, returned>>

Sources ==
    /\ stage = "sources"
    /\ stage' = "checks"
    /\ sources' = CrossLink(Merge(<<transitland, mobility, CuratedRows>>))
    /\ UNCHANGED <<mobilityVars, transitlandVars, mobility, transitland, results, feeds>>

(* A host's second URL only after the first of every other.                *)
SampleTargets(targets, limit) ==
    LET Of(h, S) == {k \in S : HostOf[k] = h}
        hosts == {HostOf[k] : k \in targets}
        size == Min({limit, Cardinality(targets)})
    IN  {S \in kSubset(size, targets) : \A h, g \in hosts :
            Cardinality(Of(h, S)) > Cardinality(Of(g, S)) + 1
                => Of(g, targets) \subseteq S}

EndpointChecks ==
    /\ stage = "checks"
    /\ stage' = "feeds"
    /\ \E limit \in Limits :
        \E picked \in IF limit = 0 THEN {Targets(sources)}
                                   ELSE SampleTargets(Targets(sources), limit) :
        \E answer \in {f \in [picked -> UNION {Answers[k] : k \in picked}] :
                        \A k \in picked : f[k] \in Answers[k]} :
            results' = [k \in DOMAIN Skips(sources) \cup picked |->
                IF k \in DOMAIN Skips(sources) THEN Skips(sources)[k]
                ELSE [ok |-> answer[k].ok, skipped |-> FALSE,
                      class |-> "", modified |-> answer[k].modified]]
    /\ UNCHANGED <<mobilityVars, transitlandVars, mobility, transitland, sources, feeds>>

Feeds ==
    /\ stage = "feeds"
    /\ stage' = "done"
    /\ feeds' = {BuildFeed(g, results) : g \in GroupsOf(sources)}
    /\ UNCHANGED <<mobilityVars, transitlandVars, mobility, transitland, sources, results>>

Next == \/ MobilityStep \/ MobilityDatabase \/ TransitlandStep
        \/ TransitlandAtlas \/ Fail \/ Sources \/ EndpointChecks \/ Feeds

(* A request ends, in an answer or in an exception, within the timeout of  *)
(* its client, and each asset starts when those before it are done.  An    *)
(* outage need not end.                                                    *)
Progress ==
    \/ /\ stage = "mobility" /\ MD!Request
       /\ UNCHANGED <<stage, transitlandVars, returned>>
    \/ /\ stage = "transitland" /\ TA!Step
       /\ UNCHANGED <<stage, mobilityVars, returned>>
    \/ MobilityDatabase \/ TransitlandAtlas \/ Fail
    \/ Sources \/ EndpointChecks \/ Feeds

Spec == Init /\ [][Next]_vars /\ WF_vars(Progress)

-----------------------------------------------------------------------------
(* Properties                                                              *)

TypeOK ==
    /\ stage \in {"mobility", "transitland", "sources", "checks", "feeds", "done",
                  "failed"}
    /\ MD!TypeOK
    /\ TA!TypeOK
    /\ \A r, s \in sources : r.id = s.id => r = s

(* mobility_database.py:13 - "A failing page is split in half until the    *)
(* bad records are isolated, and those are skipped": no other is.  A       *)
(* record that was listed all along is missing only if one before it was   *)
(* withdrawn meanwhile or the server went down on it, one for each, and    *)
(* one is read twice only if another was added before it.                  *)
ReadsTheList ==
    [][\A p \in MD!Paths : MD!Finished(p) =>
        LET rows == fetched'[p]
        IN  /\ Cardinality((stayed \ Bad) \ ToSet(rows)) <= gaps
            /\ Len(rows) - Cardinality(ToSet(rows)) <= additions]_vars

(* Whatever the servers do, the run ends: an outage that never does is     *)
(* told from a list that goes on, and no file keeps its place at the       *)
(* semaphore.                                                              *)
RunEnds == <>(stage \in {"done", "failed"})

WholeCorpus == [f \in TA!Files |-> [file |-> f, dmfr |-> Corpus[f]]]

(* The feeds of a file that a row can be made of.                          *)
HasFeed(f, r) == \E i \in DOMAIN Corpus[f].feeds :
    LET entry == Corpus[f].feeds[i]
    IN  /\ entry.id = r.feed /\ TA!Usable(entry)
        /\ DOMAIN entry.urls \cap RolesOf(r.kind) # {}

HomeOf(r) == CHOOSE f \in TA!Files :
                HasFeed(f, r) /\ \A g \in TA!Files : g < f => ~HasFeed(g, r)

HasOperator(f, op) ==
    \E i \in DOMAIN Corpus[f].operators : Corpus[f].operators[i] = op

DeclaresOperator(f, id, op) == \E i \in DOMAIN Corpus[f].feeds :
    Corpus[f].feeds[i].id = id /\ Corpus[f].feeds[i].operator = op.id

(* transitland_atlas.py:146 - "One malformed file must not cost the whole  *)
(* corpus".  A row whose file was read is there, with the URLs and the     *)
(* operator it has when nothing is lost, unless the file is lost that has  *)
(* the operator, or the entry of the feed that names it; and only where    *)
(* its file is lost may another file's row stand in.                       *)
LostFileCostsItsOwn ==
    [][stage = "transitland" /\ stage' = "sources" =>
        /\ \A r \in TransitlandRows(WholeCorpus) : state[HomeOf(r)] = "read" =>
            LET op == TA!OperatorOf(WholeCorpus, r.feed)
            IN  /\ r \in transitland'
                /\ \/ TA!OperatorOf(docs, r.feed) = op
                   \/ \E f \in TA!Files :
                        /\ HasOperator(f, op) \/ DeclaresOperator(f, r.feed, op)
                        /\ state[f] = "lost"
        /\ \A r \in transitland' : \E f \in TA!Files :
                HasFeed(f, r) /\ state[f] = "read"]_vars

Linked == stage \in {"checks", "feeds", "done"}

(* sources.py:6 - "both rows stay, and a row carries same_endpoint_as: the *)
(* ids in other catalogs whose normalized download URL is the same".  The  *)
(* two rows name each other, they end in one feed, and a row linked to one *)
(* that its catalog has placed is placed itself.                           *)
LinksAgree ==
    Linked => \A r, s \in sources :
        /\ s.id \in r.links <=>
            /\ r.catalog # s.catalog /\ r.kind = s.kind
            /\ \E u \in Urls(r), v \in Urls(s) : u.key # None /\ u.key = v.key
        /\ s.id \in r.links /\ stage = "done" =>
            \E f \in feeds : {r.id, s.id} \subseteq f.members
        /\ s.id \in r.links /\ r.place = None => \A m \in mobility :
            m.id = s.id => m.place = None

Checked == stage \in {"feeds", "done"}

(* endpoint_checks.py:216 - "A URL that only ever appears on a feed        *)
(* needing an API key we do not hold is skipped rather than checked into a *)
(* guaranteed 401", and one that any row lists openly is requested.  Every *)
(* URL of every row has its answer or its reason in the results, unless a  *)
(* trial run's limit is used up.                                           *)
EveryUrlIsDecided ==
    Checked => \A r \in sources : \A u \in Urls(r) :
        LET k == ResultKey(u)
            open == \E s \in sources : ~s.auth /\ \E v \in Urls(s) : v.key = k
        IN  IF u.key = None
            THEN k \in DOMAIN results /\ results[k].class = "relative"
            ELSE IF ~open
            THEN k \in DOMAIN results /\ results[k].class = "auth_required"
            ELSE IF k \in DOMAIN results THEN ~results[k].skipped
            ELSE Cardinality({j \in DOMAIN results : ~results[j].skipped}) \in Limits \ {0}

(* feeds.py:57 - "answering URLs ahead of the rest, schedules then by      *)
(* Last-Modified" - and :61 - "up only when every checkable URL answers".  *)
(* What a feed says agrees with what check_history says of its members:    *)
(* it is down when one of them is, and up when one is and none is down.    *)
(* The first URL of a role answers if any does, none that answers is       *)
(* newer, and every URL of every member is there once.                     *)
FeedsAgreeWithRows ==
    stage = "done" => \A f \in feeds :
        LET members == {r \in sources : r.id \in f.members}
            states == {Fold(r, results) : r \in members}
        IN  /\ f.state = "down" <=> "down" \in states
            /\ f.state = "up" <=> "up" \in states /\ "down" \notin states
            /\ \A role \in DOMAIN f.urls :
                LET urls == f.urls[role]
                IN  /\ f.roleState[role] = "up" <=> UrlState(urls[1], results) = "up"
                    /\ \A i \in DOMAIN urls :
                        UrlState(urls[i], results) = "up" =>
                            /\ UrlState(urls[1], results) = "up"
                            /\ Modified(urls[i], results) <= Modified(urls[1], results)
                    /\ role \in f.authRoles =>
                        \A r \in members : role \in DOMAIN r.urls => r.auth
            /\ \A r \in members : \A role \in DOMAIN r.urls :
                Cardinality({i \in DOMAIN f.urls[role] :
                    ResultKey(f.urls[role][i]) = ResultKey(r.urls[role])}) = 1
=============================================================================
