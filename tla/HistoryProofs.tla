--------------------------- MODULE HistoryProofs ---------------------------
(***************************************************************************)
(* What holds of History for any sources, URLs and catalogs, any retention *)
(* windows and any number of runs and days.                                *)
(***************************************************************************)
EXTENDS History, Inductions

USE HistoryAssumption, NoneAssumption DEF Runs, Days

Row == [run: Runs, state: Answers, at: Days]
LogEntry == [run: Runs, answer: Answers \cup {"skipped"}, at: Days]
PublishedStatus == [state: Answers \cup {"unknown"}, since: Days \cup {None},
                    failures: 0 .. MaxRuns]

-----------------------------------------------------------------------------
(* The status of a source                                                  *)

LEMMA LatestIsADay ==
    ASSUME NEW D \in SUBSET Days
    PROVE  Latest(D) \in Days \cup {None} /\ Earliest(D) \in Days \cup {None}
<1>1. CASE D = {}
  BY <1>1 DEF Latest, Earliest
<1>2. CASE D # {}
  <2>1. Max(D) \in D /\ Min(D) \in D
    BY <1>2, ExtremaAreMembers
  <2> QED
    BY <1>2, <2>1 DEF Latest, Earliest
<1> QED
  BY <1>1, <1>2

LEMMA SinceIsADay ==
    ASSUME NEW transitions \in SUBSET Row
    PROVE  Since(transitions) \in Days \cup {None}
<1> DEFINE D == {row.at : row \in transitions}
<1>1. CASE transitions = {}
  BY <1>1 DEF Since
<1>2. CASE transitions # {}
  <2>1. D \in SUBSET Days /\ D # {}
    BY <1>2 DEF Row
  <2>2. Max(D) \in D
    BY <2>1, ExtremaAreMembers
  <2>3. Since(transitions) = Max(D)
    BY <1>2 DEF Since
  <2> HIDE DEF D
  <2> QED
    BY <2>1, <2>2, <2>3
<1> QED
  BY <1>1, <1>2

LEMMA RowHistoryType ==
    ASSUME NEW checked, NEW eps, NEW rws,
           \A u \in checked : eps[u] \in Endpoint /\ eps[u].state \in Answers,
           \A u \in checked : rws[u] \in SUBSET Row
    PROVE  RowHistory(checked, eps, rws) \in PublishedStatus
<1> DEFINE state == RowState(checked, eps)
           worst == {u \in checked : eps[u].state = state}
           days == Dated(worst, rws)
           failures == {eps[u].failures : u \in worst}
<1>1. state \in Answers \cup {"unknown"}
  BY DEF RowState, Answers
<1>2. days \in SUBSET Days
  <2>1. \A u \in worst : Since(rws[u]) \in Days \cup {None}
    BY SinceIsADay
  <2> QED
    BY <2>1 DEF Dated
<1>3. Latest(days) \in Days \cup {None} /\ Earliest(days) \in Days \cup {None}
  BY <1>2, LatestIsADay
<1>4. state = "down" => Max(failures) \in 0 .. MaxRuns
  <2> SUFFICES ASSUME state = "down" PROVE Max(failures) \in 0 .. MaxRuns
    OBVIOUS
  <2>1. \E u \in checked : eps[u].state = "down"
    BY DEF RowState, Answers
  <2>2. failures # {} /\ failures \in SUBSET (0 .. MaxRuns)
    BY <2>1 DEF Endpoint
  <2>3. Max(failures) \in failures
    BY <2>2, ExtremaAreMembers
  <2> HIDE DEF failures
  <2> QED
    BY <2>2, <2>3
<1>5. RowHistory(checked, eps, rws) =
        [state |-> state,
         since |-> IF state = "up" THEN Latest(days) ELSE Earliest(days),
         failures |-> IF state = "down" THEN Max(failures) ELSE 0]
  BY DEF RowHistory
<1> HIDE DEF state, worst, days, failures
<1> QED
  BY <1>1, <1>3, <1>4, <1>5 DEF PublishedStatus

-----------------------------------------------------------------------------
(* Types, with what ties a URL's row to its log: the row is there when the *)
(* log is, it is dated as the log's last entry, and it has failed no more  *)
(* often than there were runs.                                             *)

Logged(u) ==
    /\ IsFiniteSet(log[u])
    /\ \A e \in log[u] : e.run <= runs /\ e.at <= today
    /\ endpoints[u] = None => log[u] = {} /\ rows[u] = {}
    /\ endpoints[u] # None =>
        /\ endpoints[u].failures <= runs
        /\ \E e \in log[u] : e.at = endpoints[u].lastSeen
        /\ \A e \in log[u] : e.at <= endpoints[u].lastSeen

TypeInv == TypeOK /\ \A u \in Urls : Logged(u)

(* What a record() does to one URL: nothing, or it lists it unchecked, or  *)
(* with an answer.                                                         *)
Unlisted(u) ==
    endpoints'[u] = endpoints[u] /\ rows'[u] = rows[u] /\ log'[u] = log[u]

Skipped(u) ==
    /\ endpoints'[u] \in Endpoint
    /\ endpoints'[u].state = EndpointOf(u).state
    /\ endpoints'[u].failures = EndpointOf(u).failures
    /\ endpoints'[u].lastSeen = today
    /\ rows'[u] = rows[u]
    /\ log'[u] = log[u] \cup
                    {[run |-> runs + 1, answer |-> "skipped", at |-> today]}

CheckedAs(u, a) ==
    /\ endpoints'[u] \in Endpoint
    /\ endpoints'[u].state = a /\ endpoints'[u].lastSeen = today
    /\ endpoints'[u].failures =
            IF a = "down" THEN EndpointOf(u).failures + 1 ELSE 0
    /\ rows'[u] = IF Changed(u, a)
                  THEN rows[u] \cup {[run |-> runs + 1, state |-> a, at |-> today]}
                  ELSE rows[u]
    /\ log'[u] = log[u] \cup {[run |-> runs + 1, answer |-> a, at |-> today]}

LEMMA ApplyCheckIs ==
    ASSUME NEW ep \in Endpoint, NEW a \in Answers, NEW day \in Days,
           ep.failures < MaxRuns
    PROVE  LET e == [ApplyCheck(ep, a) EXCEPT !.lastSeen = day]
           IN  /\ e \in Endpoint
               /\ e.state = a /\ e.lastSeen = day
               /\ e.failures = IF a = "down" THEN ep.failures + 1 ELSE 0
<1> DEFINE f == IF a = "down" THEN ep.failures + 1 ELSE 0
           e1 == [ep EXCEPT !.state = a, !.failures = f]
           e2 == [e1 EXCEPT !.lastSeen = day]
<1>1. f \in 0 .. MaxRuns
  BY DEF Endpoint
<1>2. ApplyCheck(ep, a) = e1
  BY DEF ApplyCheck
<1> HIDE DEF f
<1>3. e1 \in Endpoint /\ e1.state = a /\ e1.failures = f
  BY <1>1 DEF Endpoint
<1> HIDE DEF e1
<1>4. e2 \in Endpoint /\ e2.state = a /\ e2.failures = f /\ e2.lastSeen = day
  BY <1>3 DEF Endpoint
<1> HIDE DEF e2
<1> QED
  BY <1>2, <1>4 DEF e2, f

LEMMA EndpointOfType ==
    ASSUME TypeInv, NEW u \in Urls
    PROVE  EndpointOf(u) \in Endpoint /\ EndpointOf(u).failures <= runs
<1>1. NewEndpoint \in Endpoint /\ NewEndpoint.failures <= runs
  BY DEF TypeInv, TypeOK, NewEndpoint, Endpoint
<1> QED
  BY <1>1 DEF TypeInv, TypeOK, EndpointOf, Logged

Answered == Answers \cup {"skipped"}

LEMMA RecordOfUrl ==
    ASSUME TypeInv, NEW catalog \in Catalogs,
           NEW answers \in [Listed(catalog) -> Answered],
           Record(catalog, answers), NEW u \in Urls
    PROVE  /\ u \notin Listed(catalog) => Unlisted(u)
           /\ u \in Listed(catalog) /\ answers[u] = "skipped" => Skipped(u)
           /\ u \in Listed(catalog) /\ answers[u] # "skipped" =>
                CheckedAs(u, answers[u])
<1> DEFINE listed == DOMAIN answers
           checked == {v \in listed : answers[v] # "skipped"}
<1>1. /\ listed = Listed(catalog)
      /\ endpoints' = [v \in Urls |->
                 IF v \in checked THEN [ApplyCheck(EndpointOf(v), answers[v])
                                            EXCEPT !.lastSeen = today]
                 ELSE IF v \in listed
                 THEN [EndpointOf(v) EXCEPT !.lastSeen = today]
                 ELSE endpoints[v]]
      /\ rows' = [v \in Urls |->
                 IF v \in checked /\ Changed(v, answers[v])
                 THEN rows[v] \cup {[run |-> runs + 1, state |-> answers[v],
                                     at |-> today]}
                 ELSE rows[v]]
      /\ log' = [v \in Urls |->
                IF v \in listed
                THEN log[v] \cup {[run |-> runs + 1, answer |-> answers[v],
                                   at |-> today]}
                ELSE log[v]]
  BY DEF Record
<1>2. /\ EndpointOf(u) \in Endpoint /\ EndpointOf(u).failures < MaxRuns
      /\ today \in Days
  <2>1. runs < MaxRuns /\ runs \in Nat /\ today \in Days
    BY DEF Record, TypeInv, TypeOK
  <2> QED
    BY <2>1, EndpointOfType DEF Endpoint
<1> DEFINE e == [EndpointOf(u) EXCEPT !.lastSeen = today]
<1>3. /\ e \in Endpoint
      /\ e.state = EndpointOf(u).state /\ e.lastSeen = today
      /\ e.failures = EndpointOf(u).failures
  BY <1>2 DEF Endpoint
<1>4. CASE u \notin listed
  BY <1>1, <1>4 DEF Unlisted
<1>5. CASE u \in listed /\ answers[u] = "skipped"
  <2>1. u \notin checked
    BY <1>5
  <2>2. /\ endpoints'[u] = e
        /\ rows'[u] = rows[u]
        /\ log'[u] = log[u] \cup
                {[run |-> runs + 1, answer |-> "skipped", at |-> today]}
    BY <1>1, <1>5, <2>1
  <2> HIDE DEF e
  <2> QED
    BY <1>1, <1>3, <1>5, <2>2 DEF Skipped
<1>6. CASE u \in listed /\ answers[u] # "skipped"
  <2>1. u \in checked
    BY <1>6
  <2> HIDE DEF checked
  <2>2. answers[u] \in Answers
    BY <1>1, <1>6 DEF Answered
  <2>3. endpoints'[u] = [ApplyCheck(EndpointOf(u), answers[u])
                                            EXCEPT !.lastSeen = today]
    BY <1>1, <2>1
  <2>4. /\ endpoints'[u] \in Endpoint
        /\ endpoints'[u].state = answers[u] /\ endpoints'[u].lastSeen = today
        /\ endpoints'[u].failures =
            IF answers[u] = "down" THEN EndpointOf(u).failures + 1 ELSE 0
    BY <1>2, <2>2, <2>3, ApplyCheckIs
  <2> QED
    BY <1>1, <1>6, <2>1, <2>4 DEF CheckedAs
<1> QED
  BY <1>1, <1>4, <1>5, <1>6

LEMMA PruneOfUrl ==
    ASSUME TypeInv, Prune, NEW u \in Urls
    PROVE  \/ endpoints'[u] = None /\ rows'[u] = {} /\ log'[u] = {}
           \/ /\ endpoints[u] # None /\ endpoints'[u] = endpoints[u]
              /\ rows'[u] = {row \in rows[u] : ~Expired(row.at, StateRetention)}
              /\ log'[u] = log[u]
<1> DEFINE lost == /\ endpoints[u] # None
                   /\ Expired(endpoints[u].lastSeen, AbsentRetention)
           old == \A entry \in log[u] : entry.at < today - AbsentRetention
<1>1. /\ endpoints'[u] = IF lost THEN None ELSE endpoints[u]
      /\ rows'[u] = IF lost THEN {}
                ELSE {row \in rows[u] : ~Expired(row.at, StateRetention)}
      /\ log'[u] = IF old THEN {} ELSE log[u]
  BY DEF Prune
<1>2. CASE endpoints[u] = None
  <2>1. log[u] = {} /\ rows[u] = {}
    BY <1>2 DEF TypeInv, Logged
  <2> QED
    BY <1>1, <1>2, <2>1
<1>3. CASE endpoints[u] # None
  <2>1. endpoints[u] \in Endpoint /\ today \in Int /\ endpoints[u].lastSeen \in Int
    BY <1>3 DEF TypeInv, TypeOK, Endpoint
  <2>2. \A entry \in log[u] : entry.at \in Int
    BY DEF TypeInv, TypeOK
  <2>3. lost <=> old
    BY <1>3, <2>1, <2>2 DEF TypeInv, Logged, Expired
  <2> QED
    BY <1>1, <1>3, <2>3
<1> QED
  BY <1>2, <1>3

LEMMA RecordKeepsLogged ==
    ASSUME TypeInv, NEW catalog \in Catalogs,
           NEW answers \in [Listed(catalog) -> Answered],
           Record(catalog, answers), NEW u \in Urls
    PROVE  /\ endpoints'[u] \in Endpoint \cup {None}
           /\ rows'[u] \subseteq Row
           /\ log'[u] \subseteq LogEntry
           /\ Logged(u)'
<1>1. /\ runs \in Nat /\ runs < MaxRuns /\ runs' = runs + 1
      /\ today \in Days /\ today' = today
  BY DEF Record, TypeInv, TypeOK
<1>2. /\ endpoints[u] \in Endpoint \cup {None} /\ rows[u] \subseteq Row
      /\ log[u] \subseteq LogEntry /\ Logged(u)
  BY DEF TypeInv, TypeOK, Row, LogEntry
<1>3. EndpointOf(u).failures <= runs /\ EndpointOf(u).failures \in Nat
  BY EndpointOfType DEF Endpoint
<1>4. CASE Unlisted(u)
  <2>1. endpoints[u] # None => endpoints[u].failures \in Nat
    BY <1>2 DEF Endpoint
  <2>2. \A e \in log[u] : e.run \in Nat
    BY <1>2 DEF LogEntry
  <2> QED
    BY <1>1, <1>2, <1>4, <2>1, <2>2 DEF Unlisted, Logged
<1>5. ASSUME NEW a \in Answered, endpoints'[u] \in Endpoint,
             endpoints'[u].lastSeen = today, endpoints'[u].failures <= runs + 1,
             rows'[u] \subseteq Row,
             log'[u] = log[u] \cup
                    {[run |-> runs + 1, answer |-> a, at |-> today]}
      PROVE  log'[u] \subseteq LogEntry /\ Logged(u)'
  <2> DEFINE n == [run |-> runs + 1, answer |-> a, at |-> today]
  <2>1. n \in LogEntry /\ n.run = runs + 1 /\ n.at = today
    BY <1>1 DEF LogEntry, Answered
  <2> HIDE DEF n
  <2>2. log'[u] = log[u] \cup {n}
    BY <1>5 DEF n
  <2>3. IsFiniteSet(log'[u])
    <3>1. IsFiniteSet(log[u])
      BY <1>2 DEF Logged
    <3>2. IsFiniteSet(log[u] \cup {n})
      BY <3>1, FS_AddElement
    <3> QED
      BY <2>2, <3>2
  <2>4. \A e \in log'[u] : e.run <= runs + 1 /\ e.at <= today
    <3>1. \A e \in log[u] : e.run \in Nat /\ e.run <= runs /\ e.at <= today
      BY <1>2 DEF LogEntry, Logged
    <3> QED
      BY <1>1, <2>1, <2>2, <3>1
  <2> QED
    BY <1>1, <1>2, <1>5, <2>1, <2>2, <2>3, <2>4 DEF Logged
<1>6. CASE Skipped(u)
  BY <1>1, <1>2, <1>3, <1>5, <1>6 DEF Skipped, Answered
<1>7. ASSUME NEW a \in Answers, CheckedAs(u, a)
      PROVE  /\ endpoints'[u] \in Endpoint /\ rows'[u] \subseteq Row
             /\ log'[u] \subseteq LogEntry /\ Logged(u)'
  <2>1. rows'[u] \subseteq Row
    BY <1>1, <1>2, <1>7 DEF CheckedAs, Row
  <2>2. endpoints'[u].failures <= runs + 1
    BY <1>1, <1>3, <1>7 DEF CheckedAs
  <2> QED
    BY <1>5, <1>7, <2>1, <2>2 DEF CheckedAs, Answered
<1>8. u \in Listed(catalog) => answers[u] \in Answered
  OBVIOUS
<1>9. Unlisted(u) \/ Skipped(u) \/ \E a \in Answers : CheckedAs(u, a)
  BY <1>8, RecordOfUrl DEF Answered
<1> QED
  BY <1>1, <1>2, <1>4, <1>5, <1>6, <1>7, <1>9 DEF Unlisted, Skipped, Answered

LEMMA RecordKeepsTypes ==
    ASSUME TypeInv, NEW catalog \in Catalogs,
           NEW answers \in [Listed(catalog) -> Answered],
           Record(catalog, answers)
    PROVE  TypeInv'
<1> DEFINE listed == DOMAIN answers
           checked == {u \in listed : answers[u] # "skipped"}
<1>1. /\ runs \in Nat /\ runs < MaxRuns /\ runs' = runs + 1
      /\ today \in Days /\ today' = today
  BY DEF Record, TypeInv, TypeOK
<1>2. sources' \in [Sources -> Source \cup {None}]
  <2>1. \A s \in Sources : sources[s] # None =>
            [sources[s] EXCEPT !.present = FALSE] \in Source
    BY DEF TypeInv, TypeOK, Source
  <2>2. [present |-> TRUE, lastSeen |-> today] \in Source
    BY <1>1 DEF Source
  <2> QED
    BY <2>1, <2>2 DEF Record
<1>3. \A u \in Urls : /\ endpoints'[u] \in Endpoint \cup {None}
                      /\ rows'[u] \subseteq Row /\ log'[u] \subseteq LogEntry
                      /\ Logged(u)'
  BY RecordKeepsLogged
<1>4. endpoints' \in [Urls -> Endpoint \cup {None}]
  <2>1. endpoints' = [u \in Urls |-> endpoints'[u]]
    BY DEF Record
  <2> QED
    BY <1>3, <2>1
<1>5. links' \subseteq Sources \X Urls
  BY DEF Record, Links
<1>6. published' \in [Sources -> PublishedStatus \cup {None}]
  <2>1. published' = [s \in Sources |->
                IF catalog[s] = {} THEN None
                ELSE RowHistory(catalog[s] \cap checked, endpoints', rows')]
    BY DEF Record
  <2>2. ASSUME NEW s \in Sources
        PROVE  RowHistory(catalog[s] \cap checked, endpoints', rows')
                    \in PublishedStatus
    <3>1. ASSUME NEW u \in checked
          PROVE  /\ endpoints'[u] \in Endpoint
                 /\ endpoints'[u].state \in Answers
                 /\ rows'[u] \in SUBSET Row
      <4>1. u \in Listed(catalog) /\ answers[u] \in Answers
        BY DEF Answered
      <4>2. u \in Urls
        BY <4>1 DEF Listed
      <4>3. CheckedAs(u, answers[u])
        BY <4>1, <4>2, RecordOfUrl
      <4> QED
        BY <1>3, <4>1, <4>2, <4>3 DEF CheckedAs
    <3> HIDE DEF checked
    <3> QED
      BY <3>1, RowHistoryType
  <2> HIDE DEF checked
  <2> QED
    BY <2>1, <2>2
<1>7. recorded' \in BOOLEAN
  BY DEF Record
<1> QED
  BY <1>1, <1>2, <1>3, <1>4, <1>5, <1>6, <1>7
     DEF TypeInv, TypeOK, Row, LogEntry, PublishedStatus

LEMMA PruneKeepsTypes == ASSUME TypeInv, Prune PROVE TypeInv'
<1>1. /\ today' = today /\ runs' = runs /\ published' = published
      /\ recorded' = recorded
  BY DEF Prune
<1>2. sources' \in [Sources -> Source \cup {None}]
  BY DEF Prune, TypeInv, TypeOK
<1>3. links' \subseteq Sources \X Urls
  BY DEF Prune, TypeInv, TypeOK
<1>4. ASSUME NEW u \in Urls
      PROVE  /\ endpoints'[u] \in Endpoint \cup {None}
             /\ rows'[u] \subseteq Row /\ log'[u] \subseteq LogEntry
             /\ Logged(u)'
  <2>1. CASE endpoints'[u] = None /\ rows'[u] = {} /\ log'[u] = {}
    <3>1. IsFiniteSet(log'[u])
      BY <2>1, FS_EmptySet
    <3> QED
      BY <2>1, <3>1 DEF Logged
  <2>2. CASE /\ endpoints[u] # None /\ endpoints'[u] = endpoints[u]
             /\ rows'[u] = {row \in rows[u] : ~Expired(row.at, StateRetention)}
             /\ log'[u] = log[u]
    BY <1>1, <2>2 DEF TypeInv, TypeOK, Logged, Row, LogEntry
  <2> QED
    BY <2>1, <2>2, PruneOfUrl
<1>5. endpoints' \in [Urls -> Endpoint \cup {None}]
  <2>1. endpoints' = [u \in Urls |-> endpoints'[u]]
    BY DEF Prune
  <2> QED
    BY <1>4, <2>1
<1> QED
  BY <1>1, <1>2, <1>3, <1>4, <1>5 DEF TypeInv, TypeOK, Row, LogEntry

LEMMA NextDayKeepsTypes == ASSUME TypeInv, NextDay PROVE TypeInv'
<1>1. /\ today' = today + 1 /\ today' \in Days /\ today \in Days
      /\ runs' = runs /\ sources' = sources /\ endpoints' = endpoints
      /\ rows' = rows /\ links' = links /\ log' = log
      /\ published' = published /\ recorded' \in BOOLEAN
  <2>1. today \in Days /\ today < MaxDay /\ today' = today + 1
    BY DEF NextDay, TypeInv, TypeOK
  <2>2. today + 1 \in Days
    BY <2>1
  <2> QED
    BY <2>1, <2>2 DEF NextDay, tables
<1>2. ASSUME NEW u \in Urls PROVE Logged(u)'
  <2>1. Logged(u) /\ \A e \in log[u] : e.at \in Days
    BY DEF TypeInv, TypeOK
  <2>2. \A e \in log'[u] : e.run <= runs' /\ e.at <= today'
    BY <1>1, <2>1 DEF Logged
  <2> QED
    BY <1>1, <2>1, <2>2 DEF Logged
<1> QED
  BY <1>1, <1>2 DEF TypeInv, TypeOK

LEMMA InitTypes == Init => TypeInv
<1> SUFFICES ASSUME Init PROVE TypeInv
  OBVIOUS
<1>1. \A u \in Urls : Logged(u)
  BY FS_EmptySet DEF Init, Logged
<1>2. today \in Days /\ runs \in 0 .. MaxRuns
  BY DEF Init
<1>5. recorded \in BOOLEAN
  BY DEF Init
<1>3. /\ sources \in [Sources -> Source \cup {None}]
      /\ endpoints \in [Urls -> Endpoint \cup {None}]
      /\ published \in [Sources -> PublishedStatus \cup {None}]
  BY DEF Init
<1>4. /\ links \subseteq Sources \X Urls
      /\ \A u \in Urls : rows[u] \subseteq Row /\ log[u] \subseteq LogEntry
  BY DEF Init
<1> QED
  BY <1>1, <1>2, <1>3, <1>4, <1>5
     DEF TypeInv, TypeOK, Row, LogEntry, PublishedStatus

LEMMA TypesKept == TypeInv /\ [Next]_vars => TypeInv'
<1> SUFFICES ASSUME TypeInv, [Next]_vars PROVE TypeInv'
  OBVIOUS
<1>1. CASE NextDay
  BY <1>1, NextDayKeepsTypes
<1>2. CASE Prune
  BY <1>2, PruneKeepsTypes
<1>3. ASSUME NEW catalog \in Catalogs,
             NEW answers \in [Listed(catalog) -> Answered],
             Record(catalog, answers)
      PROVE  TypeInv'
  BY <1>3, RecordKeepsTypes
<1>4. CASE UNCHANGED vars
  BY <1>4 DEF vars, tables, TypeInv, TypeOK, Logged
<1> QED
  BY <1>1, <1>2, <1>3, <1>4 DEF Next, Answered

(* Every column and every log entry has the type of the tables, in every   *)
(* reachable state.                                                        *)
THEOREM TypeCorrect == Spec => []TypeOK
<1>1. TypeInv => TypeOK
  BY DEF TypeInv
<1> QED
  BY <1>1, InitTypes, TypesKept, PTL DEF Spec

-----------------------------------------------------------------------------
(* The state of a URL is the answer of its last checks                     *)

(* One more check, later than all others: it continues the streak of its   *)
(* answer and ends that of another.                                        *)
LEMMA StreakGrows ==
    ASSUME NEW u \in Urls, NEW a \in Answers, NEW n,
           n.run = runs + 1, n.answer = a, runs \in Nat,
           log[u] \subseteq LogEntry, \A e \in log[u] : e.run <= runs,
           log'[u] = log[u] \cup {n}
    PROVE  /\ n \notin log[u]
           /\ Checks(u)' = Checks(u) \cup {n}
           /\ Streak(u)' = {e \in Streak(u) : e.answer = a} \cup {n}
<1>1. \A e \in log[u] : e.run \in Nat /\ e.run < runs + 1
  BY DEF LogEntry
<1>2. n \notin log[u]
  BY <1>1
<1>3. a # "skipped"
  BY DEF Answers
<1>4. Checks(u)' = Checks(u) \cup {n}
  BY <1>3 DEF Checks
<1>5. \A e \in Checks(u) : e.run \in Nat /\ e.run < n.run
  BY <1>1 DEF Checks
<1>6. ASSUME NEW e \in Checks(u)
      PROVE  e \in Streak(u)' <=> e \in Streak(u) /\ e.answer = a
  BY <1>4, <1>5, <1>6 DEF Streak
<1>7. n \in Streak(u)'
  <2>1. \A d \in Checks(u)' : ~(d.run > n.run)
    BY <1>4, <1>5
  <2> QED
    BY <1>4, <2>1 DEF Streak
<1>8. Streak(u) \subseteq Checks(u) /\ Streak(u)' \subseteq Checks(u)'
  BY DEF Streak
<1> QED
  BY <1>2, <1>4, <1>6, <1>7, <1>8

(* What is told of a URL is the truth about its log.                       *)
Told(u) ==
    /\ endpoints[u] = None <=> log[u] = {}
    /\ endpoints[u] # None /\ Checks(u) = {} =>
        endpoints[u].state = "unknown" /\ endpoints[u].failures = 0
    /\ Checks(u) # {} =>
        /\ \A e \in Streak(u) : endpoints[u].state = e.answer
        /\ endpoints[u].failures =
            IF endpoints[u].state = "down" THEN Cardinality(Streak(u)) ELSE 0

LEMMA SameLogSameChecks ==
    ASSUME NEW u, log'[u] = log[u]
    PROVE  /\ Checks(u)' = Checks(u) /\ Streak(u)' = Streak(u)
           /\ Changes(u)' = Changes(u)
<1>1. Checks(u)' = Checks(u)
  BY DEF Checks
<1> QED
  BY <1>1 DEF Streak, Changes

(* The state that a check is compared with, and what it tells of the log.  *)
LEMMA StateBefore ==
    ASSUME NEW u \in Urls, Told(u)
    PROVE  /\ Checks(u) = {} => EndpointOf(u).state = "unknown"
                                /\ EndpointOf(u).failures = 0
           /\ \A e \in Streak(u) : EndpointOf(u).state = e.answer
           /\ EndpointOf(u).failures =
                IF EndpointOf(u).state = "down" THEN Cardinality(Streak(u))
                ELSE 0
<1>1. Streak(u) \subseteq Checks(u) /\ Checks(u) \subseteq log[u]
  BY DEF Streak, Checks
<1>2. CASE endpoints[u] = None
  <2>1. Checks(u) = {} /\ Streak(u) = {}
    BY <1>1, <1>2 DEF Told
  <2> QED
    BY <1>2, <2>1 DEF EndpointOf, NewEndpoint
<1>3. CASE endpoints[u] # None
  BY <1>1, <1>3 DEF Told, EndpointOf
<1> QED
  BY <1>2, <1>3

LEMMA RecordTells ==
    ASSUME TypeInv, NEW catalog \in Catalogs,
           NEW answers \in [Listed(catalog) -> Answered],
           Record(catalog, answers), NEW u \in Urls, Told(u)
    PROVE  Told(u)'
<1>1. /\ runs \in Nat /\ log[u] \subseteq LogEntry /\ IsFiniteSet(log[u])
      /\ \A e \in log[u] : e.run <= runs
  BY DEF TypeInv, TypeOK, LogEntry, Logged
<1>2. CASE Unlisted(u)
  BY <1>2, SameLogSameChecks DEF Unlisted, Told
<1>3. CASE Skipped(u)
  <2>1. Checks(u)' = Checks(u)
    BY <1>3 DEF Checks, Skipped
  <2>2. Streak(u)' = Streak(u)
    BY <2>1 DEF Streak
  <2>3. endpoints'[u] # None /\ log'[u] # {}
    BY <1>3 DEF Skipped
  <2> QED
    BY <1>3, <2>1, <2>2, <2>3, StateBefore DEF Skipped, Told
<1>4. ASSUME NEW a \in Answers, CheckedAs(u, a) PROVE Told(u)'
  <2> DEFINE n == [run |-> runs + 1, answer |-> a, at |-> today]
  <2>1. n.run = runs + 1 /\ n.answer = a /\ log'[u] = log[u] \cup {n}
    BY <1>4 DEF CheckedAs
  <2> HIDE DEF n
  <2>2. /\ n \notin log[u]
        /\ Checks(u)' = Checks(u) \cup {n}
        /\ Streak(u)' = {e \in Streak(u) : e.answer = a} \cup {n}
    BY <1>1, <2>1, StreakGrows
  <2>3. endpoints'[u] # None /\ log'[u] # {} /\ endpoints'[u].state = a
    BY <1>4, <2>1 DEF CheckedAs
  <2>4. \A e \in Streak(u)' : e.answer = a
    BY <2>1, <2>2
  <2>5. Streak(u) \subseteq log[u] /\ IsFiniteSet(Streak(u))
    <3>1. Streak(u) \subseteq log[u]
      BY DEF Streak, Checks
    <3> QED
      BY <1>1, <3>1, FS_Subset
  <2>6. a = "down" =>
            EndpointOf(u).failures + 1 = Cardinality(Streak(u)')
    <3> SUFFICES ASSUME a = "down"
                 PROVE  EndpointOf(u).failures + 1 = Cardinality(Streak(u)')
      OBVIOUS
    <3>1. CASE EndpointOf(u).state = "down"
      <4>1. Streak(u)' = Streak(u) \cup {n} /\ n \notin Streak(u)
        BY <2>2, <2>5, <3>1, StateBefore
      <4>2. Cardinality(Streak(u) \cup {n}) = Cardinality(Streak(u)) + 1
        BY <2>5, <4>1, FS_AddElement
      <4> QED
        BY <3>1, <4>1, <4>2, StateBefore
    <3>2. CASE EndpointOf(u).state # "down"
      <4>1. Streak(u)' = {n}
        BY <2>2, <3>2, StateBefore
      <4>2. Cardinality({n}) = 1
        BY FS_Singleton
      <4> QED
        BY <3>2, <4>1, <4>2, StateBefore
    <3> QED
      BY <3>1, <3>2
  <2>7. endpoints'[u].failures =
            IF a = "down" THEN Cardinality(Streak(u)') ELSE 0
    BY <1>4, <2>6 DEF CheckedAs
  <2> QED
    BY <2>2, <2>3, <2>4, <2>7 DEF Told
<1>5. u \in Listed(catalog) => answers[u] \in Answered
  OBVIOUS
<1>6. Unlisted(u) \/ Skipped(u) \/ \E a \in Answers : CheckedAs(u, a)
  BY <1>5, RecordOfUrl DEF Answered
<1> QED
  BY <1>2, <1>3, <1>4, <1>6

LEMMA PruneTells ==
    ASSUME TypeInv, Prune, NEW u \in Urls, Told(u)
    PROVE  Told(u)'
<1>1. CASE endpoints'[u] = None /\ log'[u] = {}
  <2>1. Checks(u)' = {}
    BY <1>1 DEF Checks
  <2> QED
    BY <1>1, <2>1 DEF Told
<1>2. CASE endpoints'[u] = endpoints[u] /\ log'[u] = log[u]
  BY <1>2, SameLogSameChecks DEF Told
<1> QED
  BY <1>1, <1>2, PruneOfUrl

ToldInv == \A u \in Urls : Told(u)

LEMMA ToldKept == TypeInv /\ ToldInv /\ [Next]_vars => ToldInv'
<1> SUFFICES ASSUME TypeInv, ToldInv, [Next]_vars, NEW u \in Urls
             PROVE  Told(u)'
  BY DEF ToldInv
<1>1. Told(u)
  BY DEF ToldInv
<1>2. CASE NextDay \/ UNCHANGED vars
  <2>1. endpoints' = endpoints /\ log' = log
    BY <1>2 DEF NextDay, vars, tables
  <2> QED
    BY <1>1, <2>1, SameLogSameChecks DEF Told
<1>3. CASE Prune
  BY <1>1, <1>3, PruneTells
<1>4. ASSUME NEW catalog \in Catalogs,
             NEW answers \in [Listed(catalog) -> Answered],
             Record(catalog, answers)
      PROVE  Told(u)'
  BY <1>1, <1>4, RecordTells
<1> QED
  BY <1>2, <1>3, <1>4 DEF Next, Answered

LEMMA InitTold == Init => ToldInv
<1> SUFFICES ASSUME Init, NEW u \in Urls PROVE Told(u)
  BY DEF ToldInv
<1>1. endpoints[u] = None /\ log[u] = {} /\ Checks(u) = {}
  BY DEF Init, Checks
<1> QED
  BY <1>1 DEF Told

(* The state and the failures that endpoint keeps of a URL are those of    *)
(* the whole log of its checks: those since the answer last changed.       *)
THEOREM StateIsTrue == Spec => []StateIsThatOfTheLog
<1>1. ToldInv => StateIsThatOfTheLog
  BY DEF ToldInv, Told, StateIsThatOfTheLog
<1> QED
  BY <1>1, InitTypes, TypesKept, InitTold, ToldKept, PTL DEF Spec

-----------------------------------------------------------------------------
(* The transitions are the changes of the log                              *)

RowOf(e) == [run |-> e.run, state |-> e.answer, at |-> e.at]

(* A check later than all others is a change if its answer is not the      *)
(* state that was kept, and takes nothing from the changes before it.      *)
LEMMA ChangesGrow ==
    ASSUME NEW u \in Urls, NEW a \in Answers, NEW n, Told(u),
           n.run = runs + 1, n.answer = a, runs \in Nat, runs < MaxRuns,
           log[u] \subseteq LogEntry, \A e \in log[u] : e.run <= runs,
           log'[u] = log[u] \cup {n}
    PROVE  Changes(u)' = IF Changed(u, a) THEN Changes(u) \cup {n}
                                          ELSE Changes(u)
<1>1. /\ n \notin log[u]
      /\ Checks(u)' = Checks(u) \cup {n}
  BY StreakGrows
<1>2. \A e \in Checks(u) : e.run \in 0 .. runs /\ e.run < n.run
  BY DEF Checks, LogEntry
<1>3. ASSUME NEW e \in Checks(u)
      PROVE  e \in Changes(u)' <=> e \in Changes(u)
  BY <1>1, <1>2, <1>3 DEF Changes
<1>4. CASE Changed(u, a)
  <2>1. ASSUME NEW d \in Checks(u)',
               d.run < n.run,
               \A c \in Checks(u)' : c.run < n.run => c.run <= d.run
        PROVE  d.answer # n.answer
    <3>1. d \in Checks(u)
      BY <1>1, <2>1
    <3>2. \A c \in Checks(u) : ~(c.run > d.run)
      BY <1>1, <1>2, <2>1, <3>1
    <3>3. d \in Streak(u)
      BY <3>1, <3>2 DEF Streak
    <3> QED
      BY <1>4, <3>3, StateBefore DEF Changed
  <2>2. n \in Changes(u)'
    BY <1>1, <2>1 DEF Changes
  <2> QED
    BY <1>1, <1>3, <1>4, <2>2 DEF Changes
<1>5. CASE ~Changed(u, a)
  <2> DEFINE T == {e.run : e \in Checks(u)}
  <2>1. EndpointOf(u).state = a /\ Checks(u) # {}
    BY <1>5, StateBefore DEF Changed, Answers
  <2>2. T \in SUBSET (0 .. runs) /\ T # {}
    BY <1>2, <2>1
  <2>3. PICK r \in T : \A y \in T : y <= r
    BY <2>2, GreatestExists
  <2>4. PICK d \in Checks(u) : d.run = r
    OBVIOUS
  <2>5. \A c \in Checks(u) : c.run <= d.run
    BY <2>3, <2>4
  <2>6. d \in Streak(u)
    BY <1>2, <2>5 DEF Streak
  <2>7. d.answer = a
    BY <2>1, <2>6, StateBefore
  <2>8. \A c \in Checks(u)' : c.run < n.run => c.run <= d.run
    BY <1>1, <2>5
  <2>9. n \notin Changes(u)'
    BY <1>1, <1>2, <2>7, <2>8 DEF Changes
  <2> QED
    BY <1>1, <1>3, <1>5, <2>9 DEF Changes
<1> QED
  BY <1>4, <1>5

(* The rows of a URL are changes of its log, and those that are missing    *)
(* are beyond retention.                                                   *)
Noted(u) ==
    /\ rows[u] \subseteq {RowOf(e) : e \in Changes(u)}
    /\ \A e \in Changes(u) : RowOf(e) \notin rows[u] =>
            e.at < today - StateRetention

LEMMA RecordNotes ==
    ASSUME TypeInv, NEW catalog \in Catalogs,
           NEW answers \in [Listed(catalog) -> Answered],
           Record(catalog, answers), NEW u \in Urls, Told(u), Noted(u)
    PROVE  Noted(u)'
<1>1. /\ runs \in Nat /\ log[u] \subseteq LogEntry
      /\ \A e \in log[u] : e.run <= runs
  BY DEF TypeInv, TypeOK, LogEntry, Logged
<1>2. today' = today /\ runs < MaxRuns
  BY DEF Record
<1>3. CASE Unlisted(u)
  <2>1. Changes(u)' = Changes(u) /\ rows'[u] = rows[u]
    BY <1>3, SameLogSameChecks DEF Unlisted
  <2> QED
    BY <1>2, <2>1 DEF Noted
<1>4. CASE Skipped(u)
  <2>1. Checks(u)' = Checks(u) /\ rows'[u] = rows[u]
    BY <1>4 DEF Checks, Skipped
  <2>2. Changes(u)' = Changes(u)
    BY <2>1 DEF Changes
  <2> QED
    BY <1>2, <2>1, <2>2 DEF Noted
<1>5. ASSUME NEW a \in Answers, CheckedAs(u, a) PROVE Noted(u)'
  <2> DEFINE n == [run |-> runs + 1, answer |-> a, at |-> today]
  <2>1. n.run = runs + 1 /\ n.answer = a /\ log'[u] = log[u] \cup {n}
    BY <1>5 DEF CheckedAs
  <2>2. RowOf(n) = [run |-> runs + 1, state |-> a, at |-> today]
    BY DEF RowOf
  <2> HIDE DEF n
  <2>3. Changes(u)' = IF Changed(u, a) THEN Changes(u) \cup {n}
                                       ELSE Changes(u)
    BY <1>1, <1>2, <2>1, ChangesGrow
  <2>4. rows'[u] = IF Changed(u, a) THEN rows[u] \cup {RowOf(n)} ELSE rows[u]
    BY <1>5, <2>2 DEF CheckedAs
  <2> QED
    BY <1>2, <2>3, <2>4 DEF Noted
<1>6. u \in Listed(catalog) => answers[u] \in Answered
  OBVIOUS
<1>7. Unlisted(u) \/ Skipped(u) \/ \E a \in Answers : CheckedAs(u, a)
  BY <1>6, RecordOfUrl DEF Answered
<1> QED
  BY <1>3, <1>4, <1>5, <1>7

LEMMA PruneNotes ==
    ASSUME TypeInv, Prune, NEW u \in Urls, Noted(u)
    PROVE  Noted(u)'
<1>1. today' = today
  BY DEF Prune
<1>2. CASE rows'[u] = {} /\ log'[u] = {}
  <2>1. Changes(u)' = {}
    BY <1>2 DEF Changes, Checks
  <2> QED
    BY <1>2, <2>1 DEF Noted
<1>3. CASE /\ rows'[u] = {row \in rows[u] : ~Expired(row.at, StateRetention)}
           /\ log'[u] = log[u]
  <2>1. Changes(u)' = Changes(u)
    BY <1>3, SameLogSameChecks
  <2>2. \A e \in Changes(u) : RowOf(e).at = e.at
    BY DEF RowOf
  <2> QED
    BY <1>1, <1>3, <2>1, <2>2 DEF Noted, Expired
<1> QED
  BY <1>2, <1>3, PruneOfUrl

NotedInv == \A u \in Urls : Noted(u)

LEMMA NotedKept ==
    TypeInv /\ ToldInv /\ NotedInv /\ [Next]_vars => NotedInv'
<1> SUFFICES ASSUME TypeInv, ToldInv, NotedInv, [Next]_vars, NEW u \in Urls
             PROVE  Noted(u)'
  BY DEF NotedInv
<1>1. Told(u) /\ Noted(u)
  BY DEF ToldInv, NotedInv
<1>2. CASE NextDay
  <2>1. today' = today + 1 /\ rows' = rows /\ Changes(u)' = Changes(u)
    BY <1>2, SameLogSameChecks DEF NextDay, tables
  <2>2. today \in Int /\ \A e \in Changes(u) : e.at \in Int
    BY DEF TypeInv, TypeOK, Changes, Checks
  <2> QED
    BY <1>1, <2>1, <2>2 DEF Noted
<1>3. CASE UNCHANGED vars
  <2>1. today' = today /\ rows' = rows /\ Changes(u)' = Changes(u)
    BY <1>3, SameLogSameChecks DEF vars, tables
  <2> QED
    BY <1>1, <2>1 DEF Noted
<1>4. CASE Prune
  BY <1>1, <1>4, PruneNotes
<1>5. ASSUME NEW catalog \in Catalogs,
             NEW answers \in [Listed(catalog) -> Answered],
             Record(catalog, answers)
      PROVE  Noted(u)'
  BY <1>1, <1>5, RecordNotes
<1> QED
  BY <1>2, <1>3, <1>4, <1>5 DEF Next, Answered

LEMMA InitNoted == Init => NotedInv
<1> SUFFICES ASSUME Init, NEW u \in Urls PROVE Noted(u)
  BY DEF NotedInv
<1>1. rows[u] = {} /\ Changes(u) = {}
  BY DEF Init, Changes, Checks
<1> QED
  BY <1>1 DEF Noted

(* One row per change of state of a URL, of all that retention has not     *)
(* expired, and no row that is not a change.                               *)
THEOREM RowsAreTrue == Spec => []RowsAreTheChanges
<1>1. NotedInv => RowsAreTheChanges
  <2> SUFFICES ASSUME NotedInv, NEW u \in Urls
               PROVE  LET changes == {[run |-> e.run, state |-> e.answer,
                                       at |-> e.at] : e \in Changes(u)}
                      IN  /\ rows[u] \subseteq changes
                          /\ \A row \in changes \ rows[u] :
                                row.at < today - StateRetention
    BY DEF RowsAreTheChanges
  <2> DEFINE changes == {RowOf(e) : e \in Changes(u)}
  <2>1. rows[u] \subseteq changes
    BY DEF NotedInv, Noted
  <2>2. ASSUME NEW row \in changes \ rows[u]
        PROVE  row.at < today - StateRetention
    <3>1. PICK e \in Changes(u) : row = RowOf(e)
      BY <2>2
    <3>2. row.at = e.at
      BY <3>1 DEF RowOf
    <3> QED
      BY <2>2, <3>1, <3>2 DEF NotedInv, Noted
  <2> QED
    BY <2>1, <2>2 DEF RowOf
<1> QED
  BY <1>1, InitTypes, TypesKept, InitTold, ToldKept, InitNoted, NotedKept,
     PTL DEF Spec

-----------------------------------------------------------------------------
(* Links                                                                   *)

(* With the links, the sources that the last record published are present: *)
(* a prune may only take a source that is not.                             *)
Linked ==
    /\ LinksArePresent
    /\ \A s \in Sources : published[s] # None =>
            sources[s] # None /\ sources[s].present

LEMMA RecordLinks ==
    ASSUME TypeInv, NEW catalog \in Catalogs,
           NEW answers \in [Listed(catalog) -> Answered],
           Record(catalog, answers)
    PROVE  Linked'
<1>1. ASSUME NEW s \in Sources, catalog[s] # {}
      PROVE  sources'[s] # None /\ sources'[s].present
  <2>1. sources'[s] = [present |-> TRUE, lastSeen |-> today]
    BY <1>1 DEF Record
  <2>2. sources'[s] \in Source
    BY <2>1 DEF Source, TypeInv, TypeOK
  <2>3. sources'[s].present
    BY <2>1
  <2> QED
    BY <2>2, <2>3
<1>2. ASSUME NEW l \in links'
      PROVE  /\ endpoints'[l[2]] # None
             /\ sources'[l[1]] # None /\ sources'[l[1]].present
  <2>1. l \in Sources \X Urls /\ l[2] \in catalog[l[1]]
    BY DEF Record, Links
  <2>2. l[1] \in Sources /\ l[2] \in Urls /\ l[2] \in Listed(catalog)
    BY <2>1 DEF Listed
  <2>3. Skipped(l[2]) \/ CheckedAs(l[2], answers[l[2]])
    BY <2>2, RecordOfUrl
  <2> QED
    BY <1>1, <2>1, <2>2, <2>3 DEF Skipped, CheckedAs
<1>3. ASSUME NEW s \in Sources, published'[s] # None
      PROVE  sources'[s] # None /\ sources'[s].present
  <2>1. catalog[s] # {}
    BY <1>3 DEF Record
  <2> QED
    BY <1>1, <2>1
<1> QED
  BY <1>2, <1>3 DEF Linked, LinksArePresent

LEMMA PruneLinks == ASSUME TypeInv, Prune, Linked PROVE Linked'
<1>1. ASSUME NEW s \in Sources, sources[s] # None, sources[s].present
      PROVE  sources'[s] = sources[s]
  BY <1>1 DEF Prune
<1>2. ASSUME NEW l \in links'
      PROVE  /\ endpoints'[l[2]] # None
             /\ sources'[l[1]] # None /\ sources'[l[1]].present
  <2>1. /\ l \in links /\ l[1] \in Sources /\ l[2] \in Urls
        /\ endpoints'[l[2]] = endpoints[l[2]]
    BY DEF Prune, TypeInv, TypeOK
  <2>2. /\ endpoints[l[2]] # None
        /\ sources[l[1]] # None /\ sources[l[1]].present
    BY <2>1 DEF Linked, LinksArePresent
  <2> QED
    BY <1>1, <2>1, <2>2
<1>3. published' = published
  BY DEF Prune
<1> QED
  BY <1>1, <1>2, <1>3 DEF Linked, LinksArePresent

LEMMA LinkedKept == TypeInv /\ Linked /\ [Next]_vars => Linked'
<1> SUFFICES ASSUME TypeInv, Linked, [Next]_vars PROVE Linked'
  OBVIOUS
<1>1. CASE NextDay \/ UNCHANGED vars
  BY <1>1 DEF NextDay, vars, tables, Linked, LinksArePresent
<1>2. CASE Prune
  BY <1>2, PruneLinks
<1>3. ASSUME NEW catalog \in Catalogs,
             NEW answers \in [Listed(catalog) -> Answered],
             Record(catalog, answers)
      PROVE  Linked'
  BY <1>3, RecordLinks
<1> QED
  BY <1>1, <1>2, <1>3 DEF Next, Answered

(* A link never refers to a row that is gone, nor to a source that the     *)
(* catalogs no longer have, also between a prune and the next record.      *)
THEOREM LinksAreTrue == Spec => []LinksArePresent
<1>1. Init => Linked
  BY DEF Init, Linked, LinksArePresent
<1>2. Linked => LinksArePresent
  BY DEF Linked
<1> QED
  BY <1>1, <1>2, InitTypes, TypesKept, LinkedKept, PTL DEF Spec

-----------------------------------------------------------------------------
(* The last change of some checks begins their streak                      *)

ChangesOf(C) ==
    {e \in C : \A d \in C :
        d.run < e.run /\ (\A c \in C : c.run < e.run => c.run <= d.run)
            => d.answer # e.answer}
StreakOf(C) == {e \in C : \A d \in C : d.run > e.run => d.answer = e.answer}

(* One entry a run, dated in the order of the runs.                        *)
InTime(L) ==
    /\ \A d, e \in L : d.run = e.run => d = e
    /\ \A d, e \in L : d.run <= e.run => d.at <= e.at

LEMMA LastChange ==
    ASSUME NEW C \in SUBSET LogEntry, C # {}, InTime(C)
    PROVE  \E f \in ChangesOf(C) : /\ f \in StreakOf(C)
                                   /\ \A e \in ChangesOf(C) : e.at <= f.at
                                   /\ \A e \in StreakOf(C) : f.at <= e.at
<1> DEFINE T == {e.run : e \in C}
           S == {e.run : e \in StreakOf(C)}
<1>1. \A e \in C : e.run \in 0 .. MaxRuns
  BY DEF LogEntry
<1>2. StreakOf(C) # {}
  <2>1. T \in SUBSET (0 .. MaxRuns) /\ T # {}
    BY <1>1
  <2>2. PICK r \in T : \A y \in T : y <= r
    BY <2>1, GreatestExists
  <2>3. PICK l \in C : l.run = r
    OBVIOUS
  <2>4. \A d \in C : ~(d.run > l.run)
    <3>1. \A d \in C : d.run \in T
      OBVIOUS
    <3> HIDE DEF T
    <3>2. \A d \in C : d.run <= l.run
      BY <2>2, <2>3, <3>1
    <3> QED
      BY <1>1, <3>2
  <2> QED
    BY <2>4 DEF StreakOf
<1>3. StreakOf(C) \subseteq C /\ ChangesOf(C) \subseteq C
  BY DEF StreakOf, ChangesOf
<1>4. S \in SUBSET Nat /\ S # {}
  BY <1>1, <1>2, <1>3
<1>5. PICK x \in S : \A y \in S : x <= y
  BY <1>4, LeastExists
<1>6. PICK f \in StreakOf(C) : f.run = x
  OBVIOUS
<1>7. \A e \in StreakOf(C) : f.run <= e.run
  BY <1>5, <1>6
<1>8. f \in ChangesOf(C)
  <2> SUFFICES ASSUME NEW d \in C, d.run < f.run,
                      \A c \in C : c.run < f.run => c.run <= d.run,
                      d.answer = f.answer
               PROVE  FALSE
    BY <1>3 DEF ChangesOf
  <2>1. ASSUME NEW c \in C, c.run > d.run PROVE c.answer = d.answer
    <3>1. c.run = f.run \/ c.run > f.run
      BY <1>1, <1>3, <2>1
    <3> QED
      BY <1>3, <3>1 DEF StreakOf, InTime
  <2>2. d \in StreakOf(C)
    BY <2>1 DEF StreakOf
  <2> QED
    BY <1>1, <1>3, <1>7, <2>2
<1>9. ASSUME NEW e \in ChangesOf(C) PROVE e.run <= f.run
  <2> SUFFICES ASSUME e.run > f.run PROVE FALSE
    BY <1>1, <1>3
  <2> DEFINE P == {r \in T : r < e.run}
  <2>1. P \in SUBSET (0 .. MaxRuns) /\ f.run \in P
    BY <1>1, <1>3
  <2>2. PICK r \in P : \A y \in P : y <= r
    BY <2>1, GreatestExists
  <2>3. PICK d \in C : d.run = r /\ r < e.run
    OBVIOUS
  <2>4. d.answer # e.answer
    BY <1>3, <2>2, <2>3 DEF ChangesOf
  <2>5. d.run = f.run \/ d.run > f.run
    BY <1>1, <1>3, <2>1, <2>2, <2>3
  <2>6. d.answer = f.answer /\ e.answer = f.answer
    BY <1>3, <2>5 DEF StreakOf, InTime
  <2> QED
    BY <2>4, <2>6
<1> QED
  BY <1>3, <1>7, <1>8, <1>9 DEF InTime

(* What the rows that are left say of a URL's last change: its day, or     *)
(* nothing if that is before the horizon of the last prune.                *)
LEMMA SinceIs ==
    ASSUME NEW C \in SUBSET LogEntry, C # {}, InTime(C), NEW h \in Int,
           NEW R, R = {RowOf(e) : e \in {c \in ChangesOf(C) : c.at >= h}}
    PROVE  /\ Min({e.at : e \in StreakOf(C)}) \in Days
           /\ Since(R) = IF Min({e.at : e \in StreakOf(C)}) >= h
                         THEN Min({e.at : e \in StreakOf(C)}) ELSE None
<1> DEFINE t == Min({e.at : e \in StreakOf(C)})
<1>1. PICK f \in ChangesOf(C) : /\ f \in StreakOf(C)
                                /\ \A e \in ChangesOf(C) : e.at <= f.at
                                /\ \A e \in StreakOf(C) : f.at <= e.at
  BY LastChange
<1>2. \A e \in C : e.at \in Days
  BY DEF LogEntry
<1>3. StreakOf(C) \subseteq C /\ ChangesOf(C) \subseteq C
  BY DEF StreakOf, ChangesOf
<1>4. t = f.at
  <2> DEFINE A == {e.at : e \in StreakOf(C)}
  <2>1. A \in SUBSET Int /\ f.at \in A /\ \A y \in A : f.at <= y
    BY <1>1, <1>2, <1>3
  <2> QED
    BY <2>1, MinIs
<1> HIDE DEF t
<1>5. t \in Days
  BY <1>1, <1>2, <1>3, <1>4
<1>6. CASE t >= h
  <2> DEFINE A == {row.at : row \in R}
  <2>1. \A e \in C : RowOf(e).at = e.at
    BY DEF RowOf
  <2>2. RowOf(f) \in R
    BY <1>1, <1>4, <1>6
  <2>3. A \in SUBSET Int
    BY <1>2, <1>3, <2>1
  <2>4. f.at \in A
    BY <1>1, <1>3, <2>1, <2>2
  <2>5. \A y \in A : y <= f.at
    BY <1>1, <1>3, <2>1
  <2>6. Max(A) = f.at
    BY <2>3, <2>4, <2>5, MaxIs
  <2>7. Since(R) = Max(A)
    BY <2>2 DEF Since
  <2> QED
    BY <1>4, <1>5, <1>6, <2>6, <2>7 DEF t
<1>7. CASE ~(t >= h)
  <2>1. \A e \in ChangesOf(C) : ~(e.at >= h)
    BY <1>1, <1>2, <1>3, <1>4, <1>5, <1>7
  <2>2. R = {}
    BY <2>1
  <2> QED
    BY <1>5, <1>7, <2>2 DEF Since, t
<1> QED
  BY <1>6, <1>7

-----------------------------------------------------------------------------
(* The status of a source that is recorded                                 *)

LEMMA DatedSince ==
    ASSUME NEW D \in SUBSET Days, D # {}, NEW h \in Int,
           NEW E \in SUBSET D, \A d \in D : d \in E <=> d >= h
    PROVE  /\ Max(D) \in Days /\ Min(D) \in Days
           /\ Latest(E) # Max(D) => Max(D) < h /\ Latest(E) = None
           /\ Earliest(E) # Min(D) =>
                Min(D) < h /\ (Earliest(E) = None \/ Earliest(E) > Min(D))
<1>1. /\ Max(D) \in D /\ \A y \in D : y <= Max(D)
      /\ Min(D) \in D /\ \A y \in D : Min(D) <= y
  BY ExtremaAreMembers
<1>2. \A y \in D : y \in Int /\ y \in Days
  OBVIOUS
<1>3. CASE E = {}
  <2>1. Latest(E) = None /\ Earliest(E) = None
    BY <1>3 DEF Latest, Earliest
  <2>2. Max(D) < h /\ Min(D) < h
    <3>1. ~(Max(D) >= h) /\ ~(Min(D) >= h)
      BY <1>1, <1>3
    <3>2. Max(D) \in Int /\ Min(D) \in Int
      BY <1>1, <1>2
    <3> QED
      BY <3>1, <3>2
  <2> QED
    BY <1>1, <1>2, <2>1, <2>2
<1>4. CASE E # {}
  <2>1. Latest(E) = Max(E) /\ Earliest(E) = Min(E)
    BY <1>4 DEF Latest, Earliest
  <2>2. E \in SUBSET Days /\ E \in SUBSET Int
    BY <1>2
  <2>3. /\ Max(E) \in E /\ \A y \in E : y <= Max(E)
        /\ Min(E) \in E /\ \A y \in E : Min(E) <= y
    BY <1>4, <2>2, ExtremaAreMembers
  <2>4. Max(D) \in E
    <3>1. PICK y \in E : y >= h
      BY <1>4
    <3>2. y <= Max(D) /\ y \in Int /\ Max(D) \in Int
      BY <1>1, <1>2
    <3>3. Max(D) >= h
      BY <3>1, <3>2
    <3> QED
      BY <1>1, <3>3
  <2>5. Max(E) = Max(D)
    BY <1>1, <2>2, <2>4, MaxIs
  <2>6. Min(D) \in E => Min(E) = Min(D)
    BY <1>1, <2>2, MinIs
  <2>7. Min(D) \notin E => Min(D) < h /\ Min(E) > Min(D)
    <3> SUFFICES ASSUME Min(D) \notin E PROVE Min(D) < h /\ Min(E) > Min(D)
      OBVIOUS
    <3>1. Min(D) \in Int /\ Min(E) \in Int /\ Min(E) \in D
      BY <1>1, <1>2, <2>3
    <3>2. ~(Min(D) >= h) /\ Min(E) >= h
      BY <1>1, <2>3, <3>1
    <3> QED
      BY <3>1, <3>2
  <2> QED
    BY <1>1, <1>2, <2>1, <2>5, <2>6, <2>7
<1> QED
  BY <1>3, <1>4

(* StatusIsTrue of one source, of which K were checked: t is since when    *)
(* and n for how many runs each URL has answered as it does.  It speaks of *)
(* some URL.                                                               *)
TrueRow(pub, K, eps, t, n, now) ==
    LET urls == {u \in K : eps[u].state = pub.state}
        days == {t[u] : u \in urls}
        since == IF pub.state = "up" THEN Max(days) ELSE Min(days)
    IN  /\ urls # {}
        /\ pub.state = "up" <=> urls = K /\ \A u \in urls : eps[u].state = "up"
        /\ pub.since # since =>
            /\ since < now - StateRetention
            /\ pub.since = None \/ pub.since > since
        /\ pub.failures = IF pub.state = "up" THEN 0
                          ELSE Max({n[u] : u \in urls})

LEMMA RecordedRow ==
    ASSUME NEW K, K # {}, NEW eps, NEW rws, NEW t, NEW n, NEW h \in Int,
           NEW now \in Days, h <= now - StateRetention,
           \A u \in K :
            /\ eps[u].state \in Answers
            /\ eps[u].failures = IF eps[u].state = "down" THEN n[u] ELSE 0
            /\ t[u] \in Days
            /\ Since(rws[u]) = IF t[u] >= h THEN t[u] ELSE None
    PROVE  TrueRow(RowHistory(K, eps, rws), K, eps, t, n, now)
<1> DEFINE pub == RowHistory(K, eps, rws)
           urls == {u \in K : eps[u].state = pub.state}
           days == {t[u] : u \in urls}
           E == {d \in days : d >= h}
<1>1. pub = [state |-> RowState(K, eps),
         since |-> IF RowState(K, eps) = "up"
                   THEN Latest(Dated({u \in K :
                            eps[u].state = RowState(K, eps)}, rws))
                   ELSE Earliest(Dated({u \in K :
                            eps[u].state = RowState(K, eps)}, rws)),
         failures |-> IF RowState(K, eps) = "down"
                      THEN Max({eps[u].failures : u \in {v \in K :
                            eps[v].state = RowState(K, eps)}}) ELSE 0]
  BY DEF RowHistory
<1>2. /\ pub.state = RowState(K, eps)
      /\ pub.since = IF pub.state = "up" THEN Latest(Dated(urls, rws))
                                         ELSE Earliest(Dated(urls, rws))
      /\ pub.failures = IF pub.state = "down"
                        THEN Max({eps[u].failures : u \in urls}) ELSE 0
  BY <1>1
<1> HIDE DEF pub
<1>3. /\ pub.state \in {"up", "down"} /\ urls # {}
      /\ pub.state = "up" <=> urls = K /\ \A u \in urls : eps[u].state = "up"
  <2>1. CASE \A u \in K : eps[u].state = "up"
    BY <1>2, <2>1 DEF RowState
  <2>2. CASE \E u \in K : eps[u].state # "up"
    <3>1. pub.state = "down"
      BY <1>2, <2>2 DEF RowState
    <3>2. PICK u \in K : eps[u].state = "down"
      BY <2>2 DEF Answers
    <3> QED
      BY <3>1, <3>2
  <2> QED
    BY <2>1, <2>2
<1>4. Dated(urls, rws) = E
  <2>1. \A u \in urls : Since(rws[u]) = IF t[u] >= h THEN t[u] ELSE None
    OBVIOUS
  <2>2. \A u \in urls : t[u] \in Int
    OBVIOUS
  <2> HIDE DEF urls
  <2> QED
    BY <2>1, <2>2 DEF Dated
<1>5. days \in SUBSET Days /\ days # {}
  BY <1>3
<1>10. E \in SUBSET days /\ \A d \in days : d \in E <=> d >= h
  OBVIOUS
<1>6. /\ Max(days) \in Days /\ Min(days) \in Days
      /\ Latest(E) # Max(days) => Max(days) < h /\ Latest(E) = None
      /\ Earliest(E) # Min(days) =>
            Min(days) < h /\ (Earliest(E) = None \/ Earliest(E) > Min(days))
  <2> HIDE DEF days, E
  <2> QED
    BY <1>5, <1>10, DatedSince
<1>7. pub.state = "down" =>
        {eps[u].failures : u \in urls} = {n[u] : u \in urls}
  <2>1. pub.state = "down" => \A u \in urls : eps[u].failures = n[u]
    OBVIOUS
  <2> HIDE DEF urls
  <2> QED
    BY <2>1
<1>8. ASSUME NEW since, since = IF pub.state = "up" THEN Max(days) ELSE Min(days),
             pub.since # since
      PROVE  /\ since < now - StateRetention
             /\ pub.since = None \/ pub.since > since
  <2> HIDE DEF days, E, urls
  <2>1. now - StateRetention \in Int
    OBVIOUS
  <2>2. CASE pub.state = "up"
    BY <1>2, <1>4, <1>6, <1>8, <2>1, <2>2
  <2>3. CASE pub.state # "up"
    BY <1>2, <1>4, <1>6, <1>8, <2>1, <2>3
  <2> QED
    BY <2>2, <2>3
<1>9. pub.failures = IF pub.state = "up" THEN 0 ELSE Max({n[u] : u \in urls})
  <2> HIDE DEF urls
  <2> QED
    BY <1>2, <1>3, <1>7
<1> QED
  BY <1>3, <1>8, <1>9 DEF TrueRow, pub

(* With time, dates only move further from the windows.                    *)
LEMMA RowStaysTrue ==
    ASSUME NEW pub, NEW K, NEW eps, NEW t, NEW n, NEW now \in Days,
           NEW eps2, NEW t2, NEW n2, NEW now2 \in Days, now <= now2,
           \A u \in K : /\ eps2[u] = eps[u] /\ t2[u] = t[u] /\ n2[u] = n[u]
                        /\ t[u] \in Days,
           K # {}, TrueRow(pub, K, eps, t, n, now)
    PROVE  TrueRow(pub, K, eps2, t2, n2, now2)
<1> DEFINE urls == {u \in K : eps[u].state = pub.state}
           urls2 == {u \in K : eps2[u].state = pub.state}
           days == {t[u] : u \in urls}
           since == IF pub.state = "up" THEN Max(days) ELSE Min(days)
<1>1. urls2 = urls /\ \A u \in urls : eps2[u].state = eps[u].state
  OBVIOUS
<1>2. days = {t2[u] : u \in urls} /\ {n[u] : u \in urls} = {n2[u] : u \in urls}
  OBVIOUS
<1>3. /\ pub.state = "up" <=> urls = K /\ \A u \in urls : eps[u].state = "up"
      /\ pub.since # since =>
            /\ since < now - StateRetention
            /\ pub.since = None \/ pub.since > since
      /\ pub.failures = IF pub.state = "up" THEN 0
                        ELSE Max({n[u] : u \in urls})
  BY DEF TrueRow
<1>4. urls # {}
  BY DEF TrueRow
<1>5. days \in SUBSET Days /\ days # {}
  BY <1>4
<1>6. since \in Days
  <2> HIDE DEF days
  <2> QED
    BY <1>5, ExtremaAreMembers
<1>7. since < now - StateRetention => since < now2 - StateRetention
  <2> HIDE DEF since
  <2> QED
    BY <1>6
<1>8. TrueRow(pub, K, eps2, t2, n2, now2) =
        /\ urls # {}
        /\ pub.state = "up" <=> urls = K /\ \A u \in urls : eps2[u].state = "up"
        /\ pub.since # since =>
            /\ since < now2 - StateRetention
            /\ pub.since = None \/ pub.since > since
        /\ pub.failures = IF pub.state = "up" THEN 0
                          ELSE Max({n[u] : u \in urls})
  <2>1. TrueRow(pub, K, eps2, t2, n2, now2) =
        /\ urls2 # {}
        /\ pub.state = "up" <=> urls2 = K
                    /\ \A u \in urls2 : eps2[u].state = "up"
        /\ pub.since # (IF pub.state = "up" THEN Max({t2[u] : u \in urls2})
                                            ELSE Min({t2[u] : u \in urls2})) =>
            /\ (IF pub.state = "up" THEN Max({t2[u] : u \in urls2})
                        ELSE Min({t2[u] : u \in urls2})) < now2 - StateRetention
            /\ pub.since = None \/ pub.since >
                 (IF pub.state = "up" THEN Max({t2[u] : u \in urls2})
                                      ELSE Min({t2[u] : u \in urls2}))
        /\ pub.failures = IF pub.state = "up" THEN 0
                          ELSE Max({n2[u] : u \in urls2})
    BY DEF TrueRow
  <2>2. urls2 = urls
    BY <1>1
  <2> HIDE DEF urls, urls2
  <2> QED
    BY <1>2, <2>1, <2>2
<1>9. \A u \in urls : eps2[u].state = eps[u].state
  BY <1>1
<1> HIDE DEF urls, days, since
<1> QED
  BY <1>3, <1>4, <1>7, <1>8, <1>9

-----------------------------------------------------------------------------
(* Over a run's life                                                       *)

(* The last prune has taken the rows before some day, of all URLs alike.   *)
KeptFrom(h) ==
    \A u \in Urls : rows[u] = {RowOf(e) : e \in {c \in Changes(u) : c.at >= h}}
Horizon == \E h \in Int : h <= today - StateRetention /\ KeptFrom(h)

(* A run recorded today is dated today, so that a prune forgets nothing of *)
(* what it has listed.                                                     *)
RecordedToday ==
    recorded => \A u \in Urls : \A e \in log[u] : e.run = runs => e.at = today

SinceOf == [u \in Urls |-> TrueSince(u)]
Lasting == [u \in Urls |-> Cardinality(Streak(u))]

Reported(s) ==
    published[s] # None /\ CheckedOf(s) # {} =>
        TrueRow(published[s], CheckedOf(s), endpoints, SinceOf, Lasting, today)

StatusInv ==
    /\ \A u \in Urls : InTime(log[u])
    /\ RecordedToday
    /\ Horizon
    /\ \A s \in Sources : Reported(s)

AllInv == TypeInv /\ ToldInv /\ Linked /\ StatusInv

LEMMA InTermsOfChecks ==
    ASSUME NEW u
    PROVE  /\ Changes(u) = ChangesOf(Checks(u))
           /\ Streak(u) = StreakOf(Checks(u))
           /\ Changes(u)' = ChangesOf(Checks(u)')
           /\ Streak(u)' = StreakOf(Checks(u)')
  BY DEF Changes, ChangesOf, Streak, StreakOf

(* What a record() does to the log of a URL.                               *)
LEMMA RecordOfLog ==
    ASSUME TypeInv, NEW catalog \in Catalogs,
           NEW answers \in [Listed(catalog) -> Answered],
           Record(catalog, answers), NEW u \in Urls
    PROVE  \/ log'[u] = log[u] /\ u \notin Listed(catalog)
           \/ \E n \in LogEntry :
                /\ n.run = runs' /\ n.at = today
                /\ u \in Listed(catalog) /\ n.answer = answers[u]
                /\ log'[u] = log[u] \cup {n}
<1>1. runs \in Nat /\ runs < MaxRuns /\ runs' = runs + 1 /\ today \in Days
  BY DEF TypeInv, TypeOK, Record
<1>2. CASE u \notin Listed(catalog)
  BY <1>2, RecordOfUrl DEF Unlisted
<1>3. CASE u \in Listed(catalog)
  <2> DEFINE n == [run |-> runs + 1, answer |-> answers[u], at |-> today]
  <2>1. answers[u] \in Answered
    BY <1>3
  <2>2. n \in LogEntry /\ n.run = runs' /\ n.at = today /\ n.answer = answers[u]
    BY <1>1, <2>1 DEF LogEntry, Answered
  <2>3. log'[u] = log[u] \cup {n}
    <3>1. CASE answers[u] = "skipped"
      BY <1>3, <3>1, RecordOfUrl DEF Skipped
    <3>2. CASE answers[u] # "skipped"
      <4>1. CheckedAs(u, answers[u])
        BY <1>3, <3>2, RecordOfUrl
      <4> QED
        BY <4>1 DEF CheckedAs
    <3> QED
      BY <3>1, <3>2
  <2> HIDE DEF n
  <2> QED
    BY <1>3, <2>2, <2>3
<1> QED
  BY <1>2, <1>3

LEMMA RecordInTime ==
    ASSUME AllInv, NEW catalog \in Catalogs,
           NEW answers \in [Listed(catalog) -> Answered],
           Record(catalog, answers)
    PROVE  (\A u \in Urls : InTime(log'[u])) /\ RecordedToday'
<1>1. runs \in Nat /\ runs' = runs + 1 /\ today' = today /\ today \in Days
  BY DEF AllInv, TypeInv, TypeOK, Record
<1>2. ASSUME NEW u \in Urls
      PROVE  /\ InTime(log'[u])
             /\ \A e \in log'[u] : e.run = runs' => e.at = today
  <2>1. /\ InTime(log[u])
        /\ \A e \in log[u] : /\ e.run \in Nat /\ e.run <= runs
                             /\ e.at \in Nat /\ e.at <= today
    BY DEF AllInv, StatusInv, TypeInv, TypeOK, Logged
  <2>2. CASE log'[u] = log[u]
    BY <1>1, <2>1, <2>2
  <2>3. ASSUME NEW n \in LogEntry, n.run = runs', n.at = today,
               log'[u] = log[u] \cup {n}
        PROVE  /\ InTime(log'[u])
               /\ \A e \in log'[u] : e.run = runs' => e.at = today
    <3>1. \A e \in log[u] : ~(e.run = n.run) /\ ~(n.run <= e.run)
      BY <1>1, <2>1, <2>3
    <3>2. \A d, e \in log'[u] : d.run = e.run => d = e
      BY <2>1, <2>3, <3>1 DEF InTime
    <3>3. \A d, e \in log'[u] : d.run <= e.run => d.at <= e.at
      BY <1>1, <2>1, <2>3, <3>1 DEF InTime
    <3>4. \A e \in log'[u] : e.run = runs' => e.at = today
      BY <2>3, <3>1
    <3> QED
      BY <3>2, <3>3, <3>4 DEF InTime
  <2> QED
    BY <2>2, <2>3, RecordOfLog DEF AllInv
<1> QED
  BY <1>1, <1>2 DEF RecordedToday

LEMMA RecordKeepsHorizon ==
    ASSUME AllInv, NEW catalog \in Catalogs,
           NEW answers \in [Listed(catalog) -> Answered],
           Record(catalog, answers),
           NEW h \in Int, h <= today - StateRetention, KeptFrom(h)
    PROVE  KeptFrom(h)'
<1>1. /\ runs \in Nat /\ runs < MaxRuns /\ runs' = runs + 1
      /\ today \in Days /\ today >= h
  BY DEF AllInv, TypeInv, TypeOK, Record
<1> SUFFICES ASSUME NEW u \in Urls
             PROVE  rows'[u] = {RowOf(e) : e \in {c \in Changes(u)' : c.at >= h}}
  BY DEF KeptFrom
<1>2. rows[u] = {RowOf(e) : e \in {c \in Changes(u) : c.at >= h}}
  BY DEF KeptFrom
<1>3. CASE Unlisted(u)
  <2>1. Changes(u)' = Changes(u) /\ rows'[u] = rows[u]
    BY <1>3, SameLogSameChecks DEF Unlisted
  <2> QED
    BY <1>2, <2>1
<1>4. CASE Skipped(u)
  <2>1. Checks(u)' = Checks(u) /\ rows'[u] = rows[u]
    BY <1>4 DEF Checks, Skipped
  <2>2. Changes(u)' = Changes(u)
    BY <2>1, InTermsOfChecks
  <2> QED
    BY <1>2, <2>1, <2>2
<1>5. ASSUME NEW a \in Answers, CheckedAs(u, a)
      PROVE  rows'[u] = {RowOf(e) : e \in {c \in Changes(u)' : c.at >= h}}
  <2> DEFINE n == [run |-> runs + 1, answer |-> a, at |-> today]
  <2>1. /\ n.run = runs + 1 /\ n.answer = a /\ n.at = today
        /\ log'[u] = log[u] \cup {n}
    BY <1>5 DEF CheckedAs
  <2>2. RowOf(n) = [run |-> runs + 1, state |-> a, at |-> today]
    BY DEF RowOf
  <2> HIDE DEF n
  <2>3. /\ Told(u) /\ log[u] \subseteq LogEntry
        /\ \A e \in log[u] : e.run <= runs
    BY DEF AllInv, ToldInv, TypeInv, TypeOK, LogEntry, Logged
  <2>4. Changes(u)' = IF Changed(u, a) THEN Changes(u) \cup {n}
                                       ELSE Changes(u)
    BY <1>1, <2>1, <2>3, ChangesGrow
  <2>5. rows'[u] = IF Changed(u, a) THEN rows[u] \cup {RowOf(n)} ELSE rows[u]
    BY <1>5, <2>2 DEF CheckedAs
  <2>6. CASE Changed(u, a)
    <3>1. {c \in Changes(u)' : c.at >= h} =
                {c \in Changes(u) : c.at >= h} \cup {n}
      BY <1>1, <2>1, <2>4, <2>6
    <3> QED
      BY <1>2, <2>5, <2>6, <3>1
  <2>7. CASE ~Changed(u, a)
    BY <1>2, <2>4, <2>5, <2>7
  <2> QED
    BY <2>6, <2>7
<1>6. u \in Listed(catalog) => answers[u] \in Answered
  OBVIOUS
<1>7. Unlisted(u) \/ Skipped(u) \/ \E a \in Answers : CheckedAs(u, a)
  BY <1>6, RecordOfUrl DEF Answered, AllInv
<1> QED
  BY <1>3, <1>4, <1>5, <1>7

(* What is kept of a URL that has been checked, once more at a time.       *)
LEMMA CheckedUrl ==
    ASSUME AllInv, NEW catalog \in Catalogs,
           NEW answers \in [Listed(catalog) -> Answered],
           Record(catalog, answers),
           NEW h \in Int, h <= today - StateRetention, KeptFrom(h),
           NEW u \in Listed(catalog), answers[u] # "skipped"
    PROVE  /\ u \in Urls
           /\ endpoints'[u].state \in Answers
           /\ endpoints'[u].failures =
                IF endpoints'[u].state = "down" THEN Lasting'[u] ELSE 0
           /\ SinceOf'[u] \in Days
           /\ Since(rows'[u]) = IF SinceOf'[u] >= h THEN SinceOf'[u] ELSE None
           /\ \E e \in Checks(u)' : e.run = runs'
<1>1. u \in Urls /\ answers[u] \in Answers
  BY DEF Listed, Answered
<1>2. CheckedAs(u, answers[u])
  BY <1>1, RecordOfUrl DEF AllInv
<1>3. PICK n \in LogEntry : /\ n.run = runs' /\ n.answer = answers[u]
                            /\ log'[u] = log[u] \cup {n}
  BY <1>1, RecordOfLog DEF AllInv
<1>4. n \in Checks(u)'
  BY <1>1, <1>3 DEF Checks, Answers
<1>5. Told(u)'
  BY <1>1, RecordTells DEF AllInv, ToldInv
<1>6. Checks(u)' \in SUBSET LogEntry /\ InTime(Checks(u)')
  <2>1. log'[u] \subseteq LogEntry
    BY <1>1, RecordKeepsLogged DEF AllInv
  <2>2. InTime(log'[u])
    BY <1>1, RecordInTime
  <2> QED
    BY <2>1, <2>2 DEF Checks, InTime
<1>7. rows'[u] = {RowOf(e) : e \in {c \in ChangesOf(Checks(u)') : c.at >= h}}
  <2>1. KeptFrom(h)'
    BY RecordKeepsHorizon
  <2> QED
    BY <1>1, <2>1, InTermsOfChecks DEF KeptFrom
<1>8. SinceOf'[u] = Min({e.at : e \in StreakOf(Checks(u)')})
  <2>1. SinceOf'[u] = TrueSince(u)'
    BY <1>1 DEF SinceOf
  <2>2. Streak(u)' = StreakOf(Checks(u)')
    BY InTermsOfChecks
  <2> QED
    BY <2>1, <2>2 DEF TrueSince
<1>9. /\ SinceOf'[u] \in Days
      /\ Since(rows'[u]) = IF SinceOf'[u] >= h THEN SinceOf'[u] ELSE None
  <2>1. Checks(u)' # {}
    BY <1>4
  <2> QED
    BY <1>6, <1>7, <1>8, <2>1, SinceIs
<1>10. endpoints'[u].failures =
            IF endpoints'[u].state = "down" THEN Lasting'[u] ELSE 0
  <2>1. Lasting'[u] = Cardinality(Streak(u)')
    BY <1>1 DEF Lasting
  <2> QED
    BY <1>4, <1>5, <2>1 DEF Told
<1> QED
  BY <1>1, <1>2, <1>3, <1>4, <1>9, <1>10 DEF CheckedAs

LEMMA RecordReports ==
    ASSUME AllInv, NEW catalog \in Catalogs,
           NEW answers \in [Listed(catalog) -> Answered],
           Record(catalog, answers), NEW s \in Sources
    PROVE  Reported(s)'
<1> DEFINE checked == {u \in DOMAIN answers : answers[u] # "skipped"}
           K == catalog[s] \cap checked
<1>1. PICK h \in Int : h <= today - StateRetention /\ KeptFrom(h)
  BY DEF AllInv, StatusInv, Horizon
<1>2. /\ published'[s] = IF catalog[s] = {} THEN None
                         ELSE RowHistory(K, endpoints', rows')
      /\ links' = Links(catalog) /\ today' = today /\ today \in Days
      /\ runs \in Nat /\ runs' = runs + 1
  BY DEF Record, AllInv, TypeInv, TypeOK
<1>3. \A u \in K : u \in Listed(catalog) /\ answers[u] # "skipped"
  OBVIOUS
<1>4. CheckedOf(s)' = K
  <2>1. ASSUME NEW u \in Urls
        PROVE  u \in CheckedOf(s)' <=> u \in K
    <3>1. <<s, u>> \in links' <=> u \in catalog[s]
      BY <1>2 DEF Links
    <3>2. u \in checked => \E e \in Checks(u)' : e.run = runs'
      BY <1>1, CheckedUrl
    <3>3. ASSUME NEW e \in Checks(u)', e.run = runs' PROVE u \in checked
      <4>1. e \in log'[u] /\ e.answer # "skipped"
        BY DEF Checks
      <4>2. e \notin log[u]
        BY <1>2, <3>3 DEF AllInv, TypeInv, TypeOK, Logged
      <4>3. PICK n \in LogEntry : /\ u \in Listed(catalog)
                                  /\ n.answer = answers[u]
                                  /\ log'[u] = log[u] \cup {n}
        BY <4>1, <4>2, RecordOfLog DEF AllInv
      <4> QED
        BY <4>1, <4>2, <4>3
    <3> QED
      BY <3>1, <3>2, <3>3 DEF CheckedOf
  <2>2. CheckedOf(s)' \subseteq Urls
    BY DEF CheckedOf
  <2>3. K \subseteq Urls
    BY DEF Listed
  <2> QED
    BY <2>1, <2>2, <2>3
<1> SUFFICES ASSUME published'[s] # None, K # {}
             PROVE  TrueRow(published'[s], K, endpoints', SinceOf', Lasting',
                            today)
  BY <1>2, <1>4 DEF Reported
<1>5. published'[s] = RowHistory(K, endpoints', rows')
  BY <1>2
<1>6. \A u \in K :
        /\ endpoints'[u].state \in Answers
        /\ endpoints'[u].failures =
            IF endpoints'[u].state = "down" THEN Lasting'[u] ELSE 0
        /\ SinceOf'[u] \in Days
        /\ Since(rows'[u]) = IF SinceOf'[u] >= h THEN SinceOf'[u] ELSE None
  BY <1>1, <1>3, CheckedUrl
<1> HIDE DEF K
<1> QED
  BY <1>1, <1>2, <1>5, <1>6, RecordedRow

(* Since when a URL that the last run checked has answered as it does.     *)
LEMMA SinceIsAnotherDay ==
    ASSUME AllInv, NEW u \in Urls, Checks(u) # {}
    PROVE  SinceOf[u] \in Days
<1>1. PICK h \in Int : KeptFrom(h)
  BY DEF AllInv, StatusInv, Horizon
<1>2. Checks(u) \in SUBSET LogEntry /\ InTime(Checks(u))
  <2>1. log[u] \subseteq LogEntry /\ InTime(log[u])
    BY DEF AllInv, StatusInv, TypeInv, TypeOK, LogEntry
  <2> QED
    BY <2>1 DEF Checks, InTime
<1>3. rows[u] = {RowOf(e) : e \in {c \in ChangesOf(Checks(u)) : c.at >= h}}
  BY <1>1, InTermsOfChecks DEF KeptFrom
<1>4. Min({e.at : e \in StreakOf(Checks(u))}) \in Days
  BY <1>2, <1>3, SinceIs
<1> QED
  BY <1>4, InTermsOfChecks DEF SinceOf, TrueSince

LEMMA PruneKeepsHorizon == ASSUME AllInv, Prune PROVE Horizon'
<1>1. PICK h \in Int : h <= today - StateRetention /\ KeptFrom(h)
  BY DEF AllInv, StatusInv, Horizon
<1> DEFINE k == today - StateRetention
<1>2. k \in Int /\ today' = today
  BY DEF AllInv, TypeInv, TypeOK, Prune
<1>3. ASSUME NEW u \in Urls
      PROVE  rows'[u] = {RowOf(e) : e \in {c \in Changes(u)' : c.at >= k}}
  <2>1. \A e \in Changes(u) : RowOf(e).at = e.at /\ e.at \in Int
    BY DEF RowOf, Changes, Checks, AllInv, TypeInv, TypeOK
  <2>2. CASE rows'[u] = {} /\ log'[u] = {}
    <3>1. Changes(u)' = {}
      BY <2>2 DEF Changes, Checks
    <3> QED
      BY <2>2, <3>1
  <2>3. CASE /\ log'[u] = log[u]
             /\ rows'[u] = {row \in rows[u] : ~Expired(row.at, StateRetention)}
    <3>1. Changes(u)' = Changes(u)
      BY <2>3, SameLogSameChecks
    <3>2. rows[u] = {RowOf(e) : e \in {c \in Changes(u) : c.at >= h}}
      BY <1>1 DEF KeptFrom
    <3>3. rows'[u] = {row \in rows[u] : ~(row.at < k)}
      BY <2>3 DEF Expired
    <3>4. \A e \in Changes(u) : /\ ~(e.at < k) <=> e.at >= k
                                /\ e.at >= k => e.at >= h
      BY <1>1, <1>2, <2>1
    <3> HIDE DEF k
    <3> QED
      BY <2>1, <3>1, <3>2, <3>3, <3>4
  <2> QED
    BY <2>2, <2>3, PruneOfUrl DEF AllInv
<1> QED
  BY <1>2, <1>3 DEF Horizon, KeptFrom

(* A prune after the day's record forgets nothing of what it checked.      *)
LEMMA PruneReports ==
    ASSUME AllInv, Prune, NEW s \in Sources
    PROVE  Reported(s)'
<1>1. /\ published' = published /\ runs' = runs /\ recorded
      /\ today' = today /\ today \in Days
  BY DEF Prune, AllInv, TypeInv, TypeOK
<1>2. \A u \in Urls : /\ log'[u] \subseteq log[u]
                      /\ Checks(u)' \subseteq Checks(u)
  <2>1. \A u \in Urls : log'[u] \subseteq log[u]
    BY PruneOfUrl DEF AllInv
  <2> QED
    BY <2>1 DEF Checks
<1>3. links' \subseteq links
  BY DEF Prune
<1>4. CheckedOf(s)' \subseteq CheckedOf(s)
  BY <1>1, <1>2, <1>3 DEF CheckedOf
<1> SUFFICES ASSUME published[s] # None, CheckedOf(s) # {}
             PROVE  /\ CheckedOf(s)' = CheckedOf(s)
                    /\ TrueRow(published[s], CheckedOf(s), endpoints',
                               SinceOf', Lasting', today)
  BY <1>1, <1>4 DEF Reported
<1>5. ASSUME NEW u \in CheckedOf(s)
      PROVE  /\ u \in Urls /\ Checks(u) # {}
             /\ endpoints[u] # None /\ endpoints'[u] = endpoints[u]
             /\ log'[u] = log[u]
  <2>1. PICK e \in Checks(u) : u \in Urls /\ e.run = runs
    BY DEF CheckedOf
  <2>2. e \in log[u] /\ e.at = today
    BY <1>1, <2>1 DEF Checks, AllInv, StatusInv, RecordedToday
  <2>3. ~(e.at < today - AbsentRetention)
    BY <1>1, <2>2
  <2>4. log'[u] = log[u]
    BY <2>1, <2>2, <2>3 DEF Prune
  <2> QED
    BY <2>1, <2>2, <2>4, PruneOfUrl DEF AllInv
<1>6. CheckedOf(s) \subseteq CheckedOf(s)'
  <2> SUFFICES ASSUME NEW u \in CheckedOf(s) PROVE u \in CheckedOf(s)'
    OBVIOUS
  <2>1. sources[s] # None /\ sources[s].present
    BY DEF AllInv, Linked
  <2>2. ~(endpoints[u] # None
            /\ Expired(endpoints[u].lastSeen, AbsentRetention))
    BY <1>5 DEF Prune
  <2>3. <<s, u>> \in links
    BY DEF CheckedOf
  <2>4. <<s, u>> \in links'
    BY <2>1, <2>2, <2>3 DEF Prune
  <2>5. Checks(u)' = Checks(u)
    BY <1>5, SameLogSameChecks
  <2> QED
    BY <1>1, <2>4, <2>5 DEF CheckedOf
<1>7. \A u \in CheckedOf(s) :
        /\ endpoints'[u] = endpoints[u] /\ SinceOf'[u] = SinceOf[u]
        /\ Lasting'[u] = Lasting[u] /\ SinceOf[u] \in Days
  <2> SUFFICES ASSUME NEW u \in CheckedOf(s)
               PROVE  /\ endpoints'[u] = endpoints[u]
                      /\ SinceOf'[u] = SinceOf[u]
                      /\ Lasting'[u] = Lasting[u] /\ SinceOf[u] \in Days
    OBVIOUS
  <2>1. Streak(u)' = Streak(u)
    BY <1>5, SameLogSameChecks
  <2>2. /\ SinceOf[u] = TrueSince(u) /\ SinceOf'[u] = TrueSince(u)'
        /\ Lasting[u] = Cardinality(Streak(u))
        /\ Lasting'[u] = Cardinality(Streak(u)')
    BY <1>5 DEF SinceOf, Lasting
  <2>3. TrueSince(u)' = TrueSince(u)
    BY <2>1 DEF TrueSince
  <2> QED
    BY <1>5, <2>1, <2>2, <2>3, SinceIsAnotherDay
<1>8. TrueRow(published[s], CheckedOf(s), endpoints, SinceOf, Lasting, today)
  BY DEF AllInv, StatusInv, Reported
<1>9. TrueRow(published[s], CheckedOf(s), endpoints', SinceOf', Lasting', today)
  <2>1. today <= today
    BY <1>1
  <2> HIDE DEF SinceOf, Lasting
  <2> QED
    BY <1>1, <1>7, <1>8, <2>1, RowStaysTrue
<1> QED
  BY <1>4, <1>6, <1>9

LEMMA PruneKeepsStatus == ASSUME AllInv, Prune PROVE StatusInv'
<1>1. \A u \in Urls : log'[u] = {} \/ log'[u] = log[u]
  BY PruneOfUrl DEF AllInv
<1>2. \A u \in Urls : InTime(log'[u])
  <2>1. \A u \in Urls : InTime(log[u])
    BY DEF AllInv, StatusInv
  <2> QED
    BY <1>1, <2>1 DEF InTime
<1>3. RecordedToday'
  BY <1>1 DEF AllInv, StatusInv, RecordedToday, Prune
<1> QED
  BY <1>2, <1>3, PruneKeepsHorizon, PruneReports DEF StatusInv

(* Nothing but the day changes, overnight.                                 *)
LEMMA NightKeepsStatus ==
    ASSUME AllInv, NextDay \/ UNCHANGED vars PROVE StatusInv'
<1>1. /\ today' \in Days /\ today \in Days /\ today <= today'
      /\ log' = log /\ rows' = rows /\ endpoints' = endpoints
      /\ links' = links /\ runs' = runs /\ published' = published
  BY DEF AllInv, TypeInv, TypeOK, NextDay, vars, tables
<1>2. \A u \in Urls : InTime(log'[u])
  BY <1>1 DEF AllInv, StatusInv
<1>3. RecordedToday'
  BY <1>1 DEF AllInv, StatusInv, RecordedToday, NextDay, vars
<1>4. \A u \in Urls : /\ Checks(u)' = Checks(u)
                      /\ Changes(u)' = Changes(u) /\ Streak(u)' = Streak(u)
  BY <1>1, SameLogSameChecks
<1>5. Horizon'
  <2>1. PICK h \in Int : h <= today - StateRetention /\ KeptFrom(h)
    BY DEF AllInv, StatusInv, Horizon
  <2>2. h <= today' - StateRetention
    <3>1. today \in Int /\ today' \in Int /\ today <= today'
      BY <1>1
    <3>2. h <= today - StateRetention
      BY <2>1
    <3>3. \A a, b \in Int : a <= b /\ h <= a - StateRetention
                              => h <= b - StateRetention
      OBVIOUS
    <3> QED
      BY <3>1, <3>2, <3>3, Zenon
  <2>3. KeptFrom(h)'
    BY <1>1, <1>4, <2>1 DEF KeptFrom
  <2> QED
    BY <2>2, <2>3 DEF Horizon
<1>6. SinceOf' = SinceOf /\ Lasting' = Lasting
  BY <1>4 DEF SinceOf, Lasting, TrueSince
<1>7. ASSUME NEW s \in Sources PROVE Reported(s)'
  <2>1. CheckedOf(s)' = CheckedOf(s)
    BY <1>1, <1>4 DEF CheckedOf
  <2> SUFFICES ASSUME published[s] # None, CheckedOf(s) # {}
               PROVE  TrueRow(published[s], CheckedOf(s), endpoints, SinceOf,
                              Lasting, today')
    BY <1>1, <1>6, <2>1 DEF Reported
  <2>2. TrueRow(published[s], CheckedOf(s), endpoints, SinceOf, Lasting, today)
    BY DEF AllInv, StatusInv, Reported
  <2>3. \A u \in CheckedOf(s) : SinceOf[u] \in Days
    BY SinceIsAnotherDay DEF CheckedOf
  <2> QED
    BY <1>1, <2>2, <2>3, RowStaysTrue
<1> QED
  BY <1>2, <1>3, <1>5, <1>7 DEF StatusInv

LEMMA StatusKept ==
    TypeInv /\ ToldInv /\ Linked /\ StatusInv /\ [Next]_vars => StatusInv'
<1> SUFFICES ASSUME AllInv, [Next]_vars PROVE StatusInv'
  BY DEF AllInv
<1>1. CASE NextDay \/ UNCHANGED vars
  BY <1>1, NightKeepsStatus
<1>2. CASE Prune
  BY <1>2, PruneKeepsStatus
<1>3. ASSUME NEW catalog \in Catalogs,
             NEW answers \in [Listed(catalog) -> Answered],
             Record(catalog, answers)
      PROVE  StatusInv'
  <2>1. Horizon'
    <3>1. PICK h \in Int : h <= today - StateRetention /\ KeptFrom(h)
      BY DEF AllInv, StatusInv, Horizon
    <3>2. KeptFrom(h)' /\ today' = today
      BY <1>3, <3>1, RecordKeepsHorizon DEF Record
    <3> QED
      BY <3>1, <3>2 DEF Horizon
  <2> QED
    BY <1>3, <2>1, RecordInTime, RecordReports DEF StatusInv
<1> QED
  BY <1>1, <1>2, <1>3 DEF Next, Answered

LEMMA InitStatus == Init => Linked /\ StatusInv
<1> SUFFICES ASSUME Init PROVE Linked /\ StatusInv
  OBVIOUS
<1>1. Linked
  BY DEF Init, Linked, LinksArePresent
<1>2. (\A u \in Urls : InTime(log[u])) /\ RecordedToday
  BY DEF Init, InTime, RecordedToday
<1>3. Horizon
  <2> DEFINE h == 0 - StateRetention
  <2>1. h \in Int /\ h <= today - StateRetention
    BY DEF Init
  <2>2. \A u \in Urls : Changes(u) = {} /\ rows[u] = {}
    BY DEF Init, Changes, Checks
  <2> HIDE DEF h
  <2>3. KeptFrom(h)
    BY <2>2 DEF KeptFrom
  <2> QED
    BY <2>1, <2>3 DEF Horizon
<1>4. \A s \in Sources : Reported(s)
  BY DEF Init, Reported
<1> QED
  BY <1>1, <1>2, <1>3, <1>4 DEF StatusInv

(* Of a source that was checked by the last run, the state that the run    *)
(* published, the day since when and the number of failures are those of   *)
(* the whole log, except for a day beyond the retention of the transitions.*)
(* It holds as well after a prune, and on the days after, without a run.   *)
THEOREM StatusIsReported == Spec => []StatusIsTrue
<1>1. StatusInv => StatusIsTrue
  <2> SUFFICES ASSUME StatusInv, NEW s \in Sources,
                      published[s] # None, CheckedOf(s) # {}
               PROVE
        LET urls == {u \in CheckedOf(s) :
                        endpoints[u].state = published[s].state}
            days == {TrueSince(u) : u \in urls}
            since == IF published[s].state = "up" THEN Max(days) ELSE Min(days)
        IN  /\ published[s].state = "up" <=> urls = CheckedOf(s)
                        /\ \A u \in urls : endpoints[u].state = "up"
            /\ published[s].since # since =>
                /\ since < today - StateRetention
                /\ published[s].since = None \/ published[s].since > since
            /\ published[s].failures =
                IF published[s].state = "up" THEN 0
                ELSE Max({Cardinality(Streak(u)) : u \in urls})
    BY DEF StatusIsTrue
  <2> DEFINE urls == {u \in CheckedOf(s) :
                        endpoints[u].state = published[s].state}
  <2>1. TrueRow(published[s], CheckedOf(s), endpoints, SinceOf, Lasting, today)
    BY DEF StatusInv, Reported
  <2>2. urls \subseteq Urls
    BY DEF CheckedOf
  <2>3. /\ {SinceOf[u] : u \in urls} = {TrueSince(u) : u \in urls}
        /\ {Lasting[u] : u \in urls} = {Cardinality(Streak(u)) : u \in urls}
    <3>1. \A u \in urls : /\ SinceOf[u] = TrueSince(u)
                          /\ Lasting[u] = Cardinality(Streak(u))
      BY <2>2 DEF SinceOf, Lasting
    <3> HIDE DEF urls
    <3> QED
      BY <3>1
  <2> QED
    BY <2>1, <2>3 DEF TrueRow
<1> QED
  BY <1>1, InitTypes, TypesKept, InitTold, ToldKept, LinkedKept, InitStatus,
     StatusKept, PTL DEF Spec
=============================================================================
