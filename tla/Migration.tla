----------------------------- MODULE Migration -----------------------------
(***************************************************************************)
(* The data migration b4e81d2f6a07: the check history moves from the       *)
(* catalog row to the URL that is checked, and back.                       *)
(*                                                                         *)
(* upgrade() and downgrade() are a transaction each; between them the runs *)
(* of the newer program write the URL's tables.  The history there is      *)
(* before the first upgrade is what runs of the older one left: any        *)
(* answers of each source, whose oldest transitions retention may have     *)
(* taken.  A date is the number of the run of that day.  Columns that only *)
(* travel along (check_run_id, status code, error class) are left out, and *)
(* so are the indexes and the feed tables, which are made and dropped      *)
(* empty.                                                                  *)
(***************************************************************************)
EXTENDS Integers, FiniteSetsExt

CONSTANTS
    Sources,
    Urls,           \* the normalized URLs
    None,           \* no URL to compare, no date, no row
    Before,         \* how many runs the older program did
    MaxRuns         \* bound: the last run of the newer one

ASSUME MigrationAssumption ==
    /\ IsFiniteSet(Sources) /\ IsFiniteSet(Urls)
    /\ None \notin Urls /\ None \notin Int
    /\ Before \in Nat /\ MaxRuns \in Nat /\ Before <= MaxRuns

VARIABLES
    schema,         \* the revision: "source" or "endpoint"
    run,            \* the last run there was
    url,            \* source: normalize_url(download_url)
    status,         \* source: state, consecutive_failures, last_checked
    sourceState,    \* source_state: the transitions of each source
    endpoint,       \* endpoint: the same columns, for a URL
    endpointState,  \* endpoint_state
    left            \* history, not in the code: the tables as the last
                    \* migration found them, and the run before it

vars == <<schema, run, url, status, sourceState, endpoint, endpointState,
          left>>

Answers == {"up", "down"}
Unknown == [state |-> "unknown", failures |-> 0, checked |-> None]

Status == [state: Answers \cup {"unknown"}, failures: 0 .. MaxRuns,
           checked: (1 .. MaxRuns) \cup {None}]
Transition == [state: Answers, at: 1 .. MaxRuns]

ASSUME NoneAssumption == None \notin Status

(* The checks that differ from the one before, and what follows the last.  *)
Checks(past) == {r \in DOMAIN past : past[r] \in Answers}
Changes(past) ==
    {r \in Checks(past) : \A q \in Checks(past) :
        q < r /\ (\A p \in Checks(past) : p < r => p <= q)
            => past[q] # past[r]}

StatusAfter(past) ==
    LET last == Max(Checks(past))
    IN  IF Checks(past) = {} THEN Unknown
        ELSE [state |-> past[last], checked |-> last,
              failures |-> IF past[last] = "up" THEN 0
                           ELSE Cardinality({r \in Checks(past) :
                                                r >= Max(Changes(past))})]

Init ==
    /\ schema = "source"
    /\ run = Before
    /\ url \in [Sources -> Urls \cup {None}]
    /\ \E past \in [Sources -> [1 .. Before -> Answers \cup {"unchecked"}]],
          pruned \in {0, 1} :
        /\ status = [s \in Sources |-> StatusAfter(past[s])]
        /\ sourceState = [s \in Sources |->
                {[state |-> past[s][r], at |-> r] :
                    r \in {q \in Changes(past[s]) : q > pruned}}]
    /\ endpoint = [u \in Urls |-> None]
    /\ endpointState = [u \in Urls |-> {}]
    /\ left = None

-----------------------------------------------------------------------------
(* upgrade                                                                 *)

Sharing(u) == {s \in Sources : url[s] = u}

(* _aware: a source that was never checked is older than any that was.     *)
Aware(date) == IF date = None THEN 0 ELSE date

(* The source checked most recently; among several, the select's order.    *)
Freshest(u) ==
    {s \in Sharing(u) : \A t \in Sharing(u) :
        Aware(status[t].checked) <= Aware(status[s].checked)}

(* Faulty variant: the transitions of all the sources that share the URL.  *)
HistoryOfAll(u, s) == UNION {sourceState[t] : t \in Sharing(u)}

(* Faulty variant: the transitions of one of them, not of the one chosen.  *)
HistoryOfAny(u, s) == sourceState[CHOOSE t \in Sharing(u) : TRUE]

HistoryOf(u, s) == sourceState[s]

Upgrade ==
    /\ schema = "source"
    /\ schema' = "endpoint"
    /\ \E chosen \in [{u \in Urls : Sharing(u) # {}} -> Sources] :
        /\ \A u \in DOMAIN chosen : chosen[u] \in Freshest(u)
        /\ endpoint' = [u \in Urls |->
                IF u \in DOMAIN chosen THEN status[chosen[u]] ELSE None]
        /\ endpointState' = [u \in Urls |->
                IF u \in DOMAIN chosen THEN HistoryOf(u, chosen[u]) ELSE {}]
    /\ status' = [s \in Sources |-> None]
    /\ sourceState' = [s \in Sources |-> {}]
    /\ left' = [run |-> run, status |-> status, states |-> sourceState]
    /\ UNCHANGED <<run, url>>

-----------------------------------------------------------------------------
(* A run of the newer program: record().  Sources move to other URLs,      *)
(* which are listed then, a URL that is listed for the first time gets a   *)
(* row, checked or not, and the checked ones get their answers.            *)
Known(u) == IF endpoint[u] = None THEN Unknown ELSE endpoint[u]

Record(now, listed, answers) ==
    /\ schema = "endpoint"
    /\ run < MaxRuns
    /\ \A s \in Sources : now[s] \in listed \cup {url[s], None}
    /\ run' = run + 1
    /\ url' = now
    /\ endpoint' = [u \in Urls |->
            IF u \in DOMAIN answers
            THEN [state |-> answers[u], checked |-> run + 1,
                  failures |-> IF answers[u] = "up" THEN 0
                               ELSE Known(u).failures + 1]
            ELSE IF u \in listed THEN Known(u) ELSE endpoint[u]]
    /\ endpointState' = [u \in Urls |->
            IF u \in DOMAIN answers /\ answers[u] # Known(u).state
            THEN endpointState[u] \cup {[state |-> answers[u], at |-> run + 1]}
            ELSE endpointState[u]]
    /\ UNCHANGED <<schema, status, sourceState, left>>

-----------------------------------------------------------------------------
(* Faulty variant: a URL whose transitions are all pruned is passed over.  *)
RestoredWithHistory(s) == url[s] # None /\ endpointState[url[s]] # {}

Restored(s) == url[s] # None /\ endpoint[url[s]] # None

(* Faulty variant: the columns come back without their server_default.     *)
AddedColumnsNull == [Unknown EXCEPT !.failures = None]

AddedColumns == Unknown

(* downgrade: every source of a URL gets what there is of it.              *)
Downgrade ==
    /\ schema = "endpoint"
    /\ schema' = "source"
    /\ status' = [s \in Sources |->
            IF Restored(s) THEN endpoint[url[s]] ELSE AddedColumns]
    /\ sourceState' = [s \in Sources |->
            IF Restored(s) THEN endpointState[url[s]] ELSE {}]
    /\ endpoint' = [u \in Urls |-> None]
    /\ endpointState' = [u \in Urls |-> {}]
    /\ left' = [run |-> run, status |-> endpoint, states |-> endpointState]
    /\ UNCHANGED <<run, url>>

Next == \/ Upgrade \/ Downgrade
        \/ \E now \in [Sources -> Urls \cup {None}], listed \in SUBSET Urls :
            \E checked \in SUBSET listed : \E answers \in [checked -> Answers] :
                Record(now, listed, answers)

Spec == Init /\ [][Next]_vars

-----------------------------------------------------------------------------
(* Properties                                                              *)

TypeOK ==
    /\ schema \in {"source", "endpoint"}
    /\ run \in Before .. MaxRuns
    /\ url \in [Sources -> Urls \cup {None}]
    /\ status \in [Sources -> IF schema = "source" THEN Status ELSE {None}]
    /\ endpoint \in [Urls -> IF schema = "source" THEN {None}
                             ELSE Status \cup {None}]
    /\ \A s \in Sources : sourceState[s] \subseteq Transition
    /\ \A u \in Urls : endpointState[u] \subseteq Transition

(* history/models.py:149 - "One row per *state change* of a URL".  That    *)
(* holds of the history that a migration hands over, with the runs before  *)
(* and after it: the transitions of a URL, or of a source, alternate, and  *)
(* the last of them is to the state it is in, as of a check that was made. *)
Coherent(stat, states) ==
    /\ \A c, d \in states : c.at = d.at => c = d
    /\ \A c, d \in states :
        /\ c.at < d.at
        /\ ~\E e \in states : c.at < e.at /\ e.at < d.at
        => c.state # d.state
    /\ \A c \in states :
        /\ stat # None /\ stat.checked # None /\ c.at <= stat.checked
        /\ (\A d \in states : d.at <= c.at) => c.state = stat.state

HistoryIsCoherent ==
    /\ \A s \in Sources : Coherent(status[s], sourceState[s])
    /\ \A u \in Urls : Coherent(endpoint[u], endpointState[u])

(* b4e81d2f6a07:7 - "the one checked most recently brings its history and  *)
(* the others' is dropped".  The count and the transitions must come from  *)
(* one source: whoever has not failed has no failures, and a URL has not   *)
(* failed more often than there were runs since it went down.              *)
Dated(stat, states) ==
    stat # None =>
        /\ stat.state = "down" <=> stat.failures > 0
        /\ \A c \in states : (\A d \in states : d.at <= c.at) =>
            stat.failures <= stat.checked - c.at + 1

StreakIsDated ==
    /\ \A s \in Sources : Dated(status[s], sourceState[s])
    /\ \A u \in Urls : Dated(endpoint[u], endpointState[u])

(* b4e81d2f6a07:3 - "History moves from the catalog row to the normalized  *)
(* URL": and back, with no run in between.  A source that shares its URL   *)
(* with no other has its state, failures, last check and transitions, down *)
(* to a history that is pruned away.                                       *)
ForthAndBack ==
    [][schema = "endpoint" /\ schema' = "source" /\ left.run = run =>
        \A s \in Sources :
            url[s] # None /\ Sharing(url[s]) = {s} =>
                /\ status'[s] = left.status[s]
                /\ sourceState'[s] = left.states[s]]_vars

(* b4e81d2f6a07:256 - "sources sharing a URL all get its one history": so  *)
(* back and forth again, a URL that is some source's has its state,        *)
(* failures, last check and transitions, whichever of its sources is       *)
(* picked.  (The upgrade does reset the facts of the last response.)       *)
BackAndForth ==
    [][schema = "source" /\ schema' = "endpoint" /\ left # None =>
        \A u \in Urls : Sharing(u) # {} /\ left.status[u] # None =>
            /\ endpoint'[u] = left.status[u]
            /\ endpointState'[u] = left.states[u]]_vars
=============================================================================
