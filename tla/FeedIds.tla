------------------------------ MODULE FeedIds ------------------------------
(***************************************************************************)
(* Sticky feed ids: how group() joins the sources of a day's catalogs, how *)
(* the groups get the ids of the feeds already in the database, what       *)
(* persist() writes back, and what retention later takes away.             *)
(*                                                                         *)
(* A step is one transaction: the source rows that record() leaves, the    *)
(* two of the feeds asset (load_existing, from which group and assign_ids  *)
(* go on, and persist), and prune().  A day on which a later one is        *)
(* missing is a run that failed before it; each asset may be executed      *)
(* again.  A run may also be overtaken by another one, recorded after it,  *)
(* and write the ids it worked out from what has changed since.            *)
(*                                                                         *)
(* A catalog is the sources present in it and the links group() finds      *)
(* between them: each the sources that have one piece of evidence (a URL,  *)
(* a reference...) in common.  Any may appear on any day.  Source ids are  *)
(* numbers, for their order counts; a member's role is left out.           *)
(***************************************************************************)
EXTENDS Integers, SequencesExt

CONSTANTS
    Sources,
    Catalogs,       \* what each run may find: sources, and links in the
                    \* order in which their evidence was met
    Attempts,
    Hash,           \* Hash[<<members, attempt>>]: the id _mint derives from
                    \* them
    None,
    AbsentRetention,\* settings.source_absent_retention_days
    MaxRuns,        \* bound: how many runs are considered
    MaxDay          \* bound: the last day of the calendar

Runs == 1 .. MaxRuns
Days == 0 .. MaxDay
Groups == (SUBSET Sources) \ {{}}
Ids == {Hash[x] : x \in Groups \X Attempts}

ASSUME FeedIdsAssumption ==
    /\ Sources \subseteq Nat
    /\ IsFiniteSet(Sources)
    /\ \A r \in Runs : \A c \in Catalogs[r] :
        /\ c.present \subseteq Sources
        /\ c.links \in Seq((SUBSET c.present) \ {{}})
    /\ Attempts \subseteq Nat /\ 0 \in Attempts
    /\ Hash \in [Groups \X Attempts -> Nat]
    /\ None \notin Nat
    /\ AbsentRetention \in Nat
    /\ MaxRuns \in Nat /\ MaxDay \in Nat

VARIABLES
    today,
    phase,          \* how far the day's last run is
    runs,           \* how many runs there have been
    sources,        \* source: present and last_seen_in_catalog
    catalog,        \* what the sources asset of the run returned
    feeds,          \* feed, with its feed_members, by id
    groups,         \* the groups its feeds asset found
    ids,            \* the ids it gave them
    late,           \* a run that was overtaken: how far it is, its groups
                    \* and, once it has loaded, their ids; what it has
                    \* persisted is forgotten when the last run persists
    overtaker,      \* the run that overtook another; bound: there is one,
                    \* and 0 until then
    home,           \* history, not in the code: the last feed of a source,
                    \* with its group and the day
    was             \* history, not in the code: the last group of a feed

Row == [present: BOOLEAN, lastSeen: Days]
Home == [feed: Ids, group: Groups, day: Days]

(* No row is None.                                                         *)
ASSUME NoneAssumption == None \notin Row /\ None \notin Home

vars == <<today, phase, runs, sources, catalog, feeds, groups, ids, late,
          overtaker, home, was>>

NoFeeds == [f \in {} |-> None]
NoRun == [phase |-> "none", groups |-> {}, ids |-> NoFeeds]

Init ==
    /\ today = 0
    /\ phase = "none"
    /\ runs = 0
    /\ sources = [s \in Sources |-> None]
    /\ catalog = [present |-> {}, links |-> <<>>]
    /\ feeds = NoFeeds
    /\ groups = {}
    /\ ids = NoFeeds
    /\ late = NoRun
    /\ overtaker = 0
    /\ home = [s \in Sources |-> None]
    /\ was = NoFeeds

-----------------------------------------------------------------------------
(* group: a union-find over the links                                      *)

Root(parent, s) ==
    LET root[t \in DOMAIN parent] == IF parent[t] = t THEN t ELSE root[parent[t]]
    IN  root[s]

(* find(), which leaves every source on the way below the root.            *)
Find(parent, s) ==
    LET path[t \in DOMAIN parent] ==
            {t} \cup IF parent[t] = t THEN {} ELSE path[parent[t]]
    IN  [t \in DOMAIN parent |->
            IF t \in path[s] THEN Root(parent, s) ELSE parent[t]]

(* Faulty variant: the sources are moved, and what is below them is not.   *)
UnionOfItems(parent, link) ==
    [s \in DOMAIN parent |->
        IF s \in link THEN Min({Root(parent, t) : t \in link}) ELSE parent[s]]

(* The lowest root becomes the root of them all.                           *)
Union(parent, link) ==
    LET roots == {Root(parent, s) : s \in link}
        found == FoldSet(LAMBDA s, p : Find(p, s), parent, link)
    IN  [s \in DOMAIN parent |->
            IF s \in roots THEN Min(roots) ELSE found[s]]

Group(present, links) ==
    LET parent == FoldLeft(Union, [s \in present |-> s], links)
    IN  {{s \in present : Root(parent, s) = r} :
            r \in {Root(parent, s) : s \in present}}

-----------------------------------------------------------------------------
(* assign_ids                                                              *)

First(g) == CHOOSE s \in g : \A t \in g : s <= t

(* What load_existing reads: the members of each feed.                     *)
Existing == [f \in DOMAIN feeds |-> feeds[f].members]

(* The feed that each member counts for.  A source is in one feed at a     *)
(* time, unless a run that was overtaken has put it in another: then it is *)
(* the one that the select, which orders nothing, gives last.              *)
FeedsOf(existing, s) == {f \in DOMAIN existing : s \in existing[f]}
Owners(existing) ==
    LET owned == {s \in Sources : FeedsOf(existing, s) # {}}
    IN  {o \in [owned -> DOMAIN existing] :
            \A s \in owned : o[s] \in FeedsOf(existing, s)}

Overlap(owner, g, f) ==
    Cardinality({s \in g \cap DOMAIN owner : owner[s] = f})

(* Faulty variant: one shared member is not enough.                        *)
CandidatesOffByOne(owner, found) ==
    {c \in found \X Range(owner) : Overlap(owner, c[1], c[2]) > 1}

Candidates(owner, found) ==
    {c \in found \X Range(owner) : Overlap(owner, c[1], c[2]) > 0}

(* Faulty variant: the smallest overlap first.                             *)
BeforeSmallest(owner, c, d) ==
    LET n == Overlap(owner, c[1], c[2])  m == Overlap(owner, d[1], d[2])
    IN  \/ n < m
        \/ n = m /\ c[2] < d[2]
        \/ n = m /\ c[2] = d[2] /\ First(c[1]) < First(d[1])

(* The largest overlap first, then the lower id, then the earlier group.   *)
Before(owner, c, d) ==
    LET n == Overlap(owner, c[1], c[2])  m == Overlap(owner, d[1], d[2])
    IN  \/ n > m
        \/ n = m /\ c[2] < d[2]
        \/ n = m /\ c[2] = d[2] /\ First(c[1]) < First(d[1])

(* Faulty variant: an id can be claimed by two groups.                     *)
ClaimTwice(assigned, c) ==
    IF assigned[c[1]] = None THEN [assigned EXCEPT ![c[1]] = c[2]] ELSE assigned

Claim(assigned, c) ==
    IF assigned[c[1]] = None /\ \A g \in DOMAIN assigned : assigned[g] # c[2]
    THEN [assigned EXCEPT ![c[1]] = c[2]] ELSE assigned

(* Faulty variant: the first hash, whoever has it.                         *)
MintFirst(members, taken) == Hash[<<members, 0>>]

(* The first attempt whose hash is not taken; None is the error it raises  *)
(* when all are.                                                           *)
Mint(members, taken) ==
    LET free == {n \in Attempts : Hash[<<members, n>>] \notin taken}
    IN  IF free = {} THEN None ELSE Hash[<<members, First(free)>>]

MintFor(existing, assigned, g) ==
    [assigned EXCEPT ![g] = Mint(g, DOMAIN existing \cup Range(assigned))]

(* A loop over the sorted members of S: what comes last is done last.      *)
InOrder(Op(_, _), base, S, Precedes(_, _)) ==
    MapThenFoldSet(LAMBDA x, done : Op(done, x), base, LAMBDA x : x,
                   LAMBDA T : CHOOSE x \in T : \A y \in T \ {x} : Precedes(y, x),
                   S)

Claimed(owner, found) ==
    InOrder(Claim, [g \in found |-> None], Candidates(owner, found),
            LAMBDA c, d : Before(owner, c, d))

AssignIds(existing, owner, found) ==
    LET claimed == Claimed(owner, found)
        left == {g \in found : claimed[g] = None}
    IN  InOrder(LAMBDA assigned, g : MintFor(existing, assigned, g),
                claimed, left, LAMBDA g, h : First(g) < First(h))

-----------------------------------------------------------------------------
(* Faulty variant: only a row that is there already is dated.              *)
UndatedRow(s, c) ==
    IF s \in c.present
    THEN [present |-> TRUE, lastSeen |-> IF sources[s] = None THEN None ELSE today]
    ELSE IF sources[s] = None THEN None
    ELSE [sources[s] EXCEPT !.present = FALSE]

RowAfter(s, c) ==
    IF s \in c.present THEN [present |-> TRUE, lastSeen |-> today]
    ELSE IF sources[s] = None THEN None
    ELSE [sources[s] EXCEPT !.present = FALSE]

(* What record() does to the source table, in a run of its own.            *)
NewRun(c) ==
    /\ runs' = runs + 1
    /\ catalog' = c
    /\ sources' = [s \in Sources |-> RowAfter(s, c)]
    /\ phase' = "recorded"
    /\ UNCHANGED <<today, feeds, groups, ids, home, was>>

(* The run before is done, or has failed.                                  *)
Record(c) == NewRun(c) /\ UNCHANGED <<late, overtaker>>

(* The run before goes on.                                                 *)
Overtake(c) ==
    /\ phase \in {"recorded", "loaded"} /\ overtaker = 0
    /\ NewRun(c)
    /\ late' = [phase |-> phase,
                groups |-> Group(catalog.present, catalog.links),
                ids |-> IF phase = "loaded" THEN ids ELSE NoFeeds]
    /\ overtaker' = runs'

Present == {s \in Sources : sources[s] # None /\ sources[s].present}

(* Every group got an id: the asset did not fail for want of one.          *)
Complete(assigned) == \A g \in DOMAIN assigned : assigned[g] # None

(* The first half of the feeds asset.                                      *)
Load ==
    LET found == Group(catalog.present, catalog.links)
    IN  /\ phase \in {"recorded", "loaded", "persisted"}
        /\ groups' = found
        /\ \E owner \in Owners(Existing) :
                ids' = AssignIds(Existing, owner, found)
        /\ Complete(ids')
        /\ phase' = "loaded"
        /\ UNCHANGED <<today, runs, sources, catalog, feeds, late, overtaker,
                       home, was>>

LateLoad ==
    /\ late.phase = "recorded"
    /\ \E owner \in Owners(Existing) :
        late' = [late EXCEPT !.phase = "loaded",
                             !.ids = AssignIds(Existing, owner, late.groups)]
    /\ Complete(late'.ids)
    /\ UNCHANGED <<today, phase, runs, sources, catalog, feeds, groups, ids,
                   overtaker, home, was>>

(* Faulty variants: the memberships of every source are cleared, or of     *)
(* none.                                                                   *)
RemainingOfNone(f) == {}
RemainingOfAll(f) == feeds[f].members

(* The members whose rows are not deleted: those absent from the catalogs. *)
Remaining(f) == feeds[f].members \ Present

(* The second half.  A feed no group maps to is kept, marked absent.  A    *)
(* source without a row fails the transaction.  So does a membership that  *)
(* is still there, for one and the same role: either is possible.          *)
Save(found, assigned) ==
    LET current == {assigned[g] : g \in found}
        groupOf(f) == CHOOSE g \in found : assigned[g] = f
    IN  /\ \A s \in UNION found : sources[s] # None
        /\ feeds' = [f \in DOMAIN feeds \cup current |->
            LET rest == IF f \in DOMAIN feeds THEN Remaining(f) ELSE {}
            IN  IF f \in current
                THEN [members |-> rest \cup groupOf(f),
                      present |-> TRUE, lastSeen |-> today]
                ELSE [feeds[f] EXCEPT !.members = rest, !.present = FALSE]]
        /\ home' = [s \in Sources |->
                IF s \in UNION found
                THEN LET g == CHOOSE h \in found : s \in h
                     IN  [feed |-> assigned[g], group |-> g, day |-> today]
                ELSE home[s]]
        /\ was' = [f \in DOMAIN feeds \cup current |->
                IF f \in current THEN groupOf(f) ELSE was[f]]
        /\ UNCHANGED <<today, runs, sources, catalog, groups, ids, overtaker>>

Persist ==
    /\ phase = "loaded"
    /\ Save(groups, ids)
    /\ phase' = "persisted"
    /\ late' = IF late.phase = "persisted" THEN NoRun ELSE late

LatePersist ==
    /\ late.phase = "loaded"
    /\ Save(late.groups, late.ids)
    /\ late' = [NoRun EXCEPT !.phase = "persisted"]
    /\ UNCHANGED phase

(* Faulty variant: the window of a feed ends a day before.                 *)
ExpiredEarly(row) == ~row.present /\ row.lastSeen <= today - AbsentRetention

Expired(row) == ~row.present /\ row.lastSeen < today - AbsentRetention

(* prune(): deleting a source deletes its memberships by cascade.          *)
Prune ==
    LET lost == {s \in Sources : sources[s] # None /\ Expired(sources[s])}
        kept == {f \in DOMAIN feeds : ~Expired(feeds[f])}
    IN  /\ "persisted" \in {phase, late.phase}
        /\ sources' = [s \in Sources |->
                        IF s \in lost THEN None ELSE sources[s]]
        /\ feeds' = [f \in kept |->
                        [feeds[f] EXCEPT !.members = @ \ lost]]
        /\ was' = [f \in kept |-> was[f]]
        /\ UNCHANGED <<today, phase, runs, catalog, groups, ids, late,
                       overtaker, home>>

NextDay ==
    /\ today < MaxDay
    /\ today' = today + 1
    /\ phase' = "none"
    /\ UNCHANGED <<runs, sources, catalog, feeds, groups, ids, late,
                   overtaker, home, was>>

Next == \/ NextDay \/ Load \/ Persist \/ LateLoad \/ LatePersist \/ Prune
        \/ /\ runs < MaxRuns
           /\ \E c \in Catalogs[runs + 1] : Record(c) \/ Overtake(c)

Spec == Init /\ [][Next]_vars

-----------------------------------------------------------------------------
(* Properties                                                              *)

TypeOK ==
    /\ today \in Days /\ runs \in 0 .. MaxRuns
    /\ phase \in {"none", "recorded", "loaded", "persisted"}
    /\ sources \in [Sources -> Row \cup {None}]
    /\ DOMAIN feeds \subseteq Ids /\ DOMAIN was = DOMAIN feeds
    /\ \A f \in DOMAIN feeds :
        feeds[f] \in [members: SUBSET Sources, present: BOOLEAN,
                      lastSeen: Days]
    /\ catalog.present \subseteq Sources
    /\ groups \subseteq Groups
    /\ ids \in [groups -> Ids]
    /\ late.groups \subseteq Groups
    /\ late.ids \in [IF late.phase = "loaded" THEN late.groups ELSE {} -> Ids]
    /\ overtaker \in 0 .. MaxRuns /\ (late # NoRun => overtaker > 0)
    /\ home \in [Sources -> Home \cup {None}]

(* feeds.py:5 - "Rows join a feed through a union-find over four kinds of  *)
(* evidence, and nothing else".  Every source of the catalog is in one     *)
(* group, linked sources are in the same, and no group can be parted       *)
(* without cutting a link, in whichever order the links came.              *)
GroupsAreLinked ==
    phase \in {"loaded", "persisted"} =>
        /\ UNION groups = catalog.present
        /\ \A g, h \in groups : g # h => g \cap h = {}
        /\ \A i \in DOMAIN catalog.links :
                \E g \in groups : catalog.links[i] \subseteq g
        /\ \A g \in groups : \A part \in (SUBSET g) \ {{}, g} :
                \E i \in DOMAIN catalog.links :
                    /\ catalog.links[i] \cap part # {}
                    /\ catalog.links[i] \cap (g \ part) # {}

(* feeds.py:265 - "A source belongs to one feed at a time", "an absent     *)
(* feed keeps only members no present feed has", and two groups of a run   *)
(* never share an id: each id of the run leads to its own group.  After a  *)
(* run was overtaken it holds again, of the sources that are present, once *)
(* a run has persisted after it, whatever that loaded and whichever ids    *)
(* the other took in between.                                              *)
OneFeedPerSource ==
    /\ overtaker = 0 => \A e, f \in DOMAIN feeds :
        e # f => feeds[e].members \cap feeds[f].members = {}
    /\ phase = "persisted" /\ late.phase # "persisted" => \A g \in groups :
        /\ feeds[ids[g]].present
        /\ feeds[ids[g]].members \cap Present = g
        /\ \A s \in g : FeedsOf(Existing, s) = {ids[g]}

Loading == phase' = "loaded" /\ (phase # "loaded" \/ ids' # ids)

(* feeds.py:18 - "each group takes the id of the existing feed it shares   *)
(* the most members with, and a new id is minted only for a group that     *)
(* shares none".  A group does without the id of a feed it shares members  *)
(* with only for one it shares as many with, or when the id goes to a      *)
(* group that shares as many; and a group that shares none gets an id that *)
(* is nobody's, not even an absent feed's.  A member of two feeds counts   *)
(* for one of them.                                                        *)
IdsFollowMembers ==
    [][Loading => \E owner \in Owners(Existing) : \A g \in groups' :
        /\ \A f \in DOMAIN feeds : Overlap(owner, g, f) > 0 =>
            \/ ids'[g] = f
            \/ /\ ids'[g] \in DOMAIN feeds
               /\ Overlap(owner, g, ids'[g]) >= Overlap(owner, g, f)
            \/ \E h \in groups' :
                ids'[h] = f /\ Overlap(owner, h, f) >= Overlap(owner, g, f)
        /\ ids'[g] \in DOMAIN feeds => Overlap(owner, g, ids'[g]) > 0]_vars

(* feeds.py:131 - "so a rerun on the same input assigns the same ids": the *)
(* ids change only when the groups have, although the feeds of the         *)
(* database are not those that the ids were first assigned from.  And a    *)
(* run that finds, while it is overtaken, what the other one finds moves   *)
(* no source, although neither knew of the other's ids.                    *)
RerunKeepsIds ==
    [][/\ Loading /\ overtaker = 0 => ids' = ids \/ groups' # groups
       /\ late.phase = "loaded" /\ late'.phase = "persisted"
            /\ phase = "persisted" /\ runs = overtaker
            /\ late.groups = groups
                => Existing' = Existing]_vars

(* feeds.py:20 - "A feed that loses its group keeps its row, and its       *)
(* remaining members, for the retention window, so a group that comes back *)
(* gets its old id".  It does, for as long as that, if no member has been  *)
(* in another group since and nobody else comes from the same feed.        *)
UndisturbedGroupReturns ==
    [][Loading /\ overtaker = 0 => \A g \in groups' : \A f \in Ids :
        /\ \A s \in g : /\ home[s] # None
                        /\ home[s].feed = f /\ home[s].group = g
                        /\ today - home[s].day <= AbsentRetention
        /\ \A s \in (UNION groups') \ g : home[s] = None \/ home[s].feed # f
        => ids'[g] = f]_vars

(* history/models.py:188 - "Kept, with its members, for the retention      *)
(* window so a group that returns gets its old id back".  A group that is  *)
(* what a feed still kept last was gets the id of such a feed, whatever    *)
(* its members and those of the other groups have gone through since.      *)
GroupReturns ==
    [][Loading /\ overtaker = 0 => \A g \in groups' :
        (\E f \in DOMAIN feeds : was[f] = g) =>
            ids'[g] \in {f \in DOMAIN feeds : was[f] = g}]_vars
=============================================================================
