-------------------------- MODULE MigrationProofs --------------------------
(***************************************************************************)
(* What holds of Migration for any sources, URLs and number of runs.       *)
(***************************************************************************)
EXTENDS Migration, Inductions

USE MigrationAssumption

-----------------------------------------------------------------------------
(* The changes of a run of checks                                          *)

Pasts == [1 .. Before -> Answers \cup {"unchecked"}]

(* Where two checks differ, there is a change from the first of them on.   *)
LEMMA ChangeBetween ==
    ASSUME NEW past \in Pasts, NEW c \in Checks(past), NEW d \in Checks(past),
           c < d, past[c] # past[d]
    PROVE  \E e \in Changes(past) : c < e /\ e <= d
<1> DEFINE T == {q \in Checks(past) : c < q /\ q <= d /\ past[q] # past[c]}
<1>1. Checks(past) \in SUBSET (1 .. Before)
  BY DEF Checks, Pasts
<1>2. T \in SUBSET Nat /\ d \in T
  BY <1>1
<1>3. PICK e \in T : \A q \in T : e <= q
  BY <1>2, LeastExists
<1>4. ASSUME NEW q \in Checks(past), q < e,
             \A p \in Checks(past) : p < e => p <= q
      PROVE  past[q] # past[e]
  <2>1. c <= q /\ q \in Int /\ e \in Int /\ c \in Int /\ d \in Int
    BY <1>1, <1>4
  <2>2. q \notin T
    BY <1>3, <1>4, <2>1
  <2>3. past[q] = past[c]
    BY <1>4, <2>1, <2>2
  <2> QED
    BY <2>3
<1>5. e \in Changes(past)
  BY <1>4 DEF Changes
<1> QED
  BY <1>5

LEMMA ChangesAlternate ==
    ASSUME NEW past \in Pasts, NEW c \in Changes(past), NEW d \in Changes(past),
           c < d, \A e \in Changes(past) : ~(c < e /\ e < d)
    PROVE  past[c] # past[d]
<1> SUFFICES ASSUME past[c] = past[d] PROVE FALSE
  OBVIOUS
<1> DEFINE T == {q \in Checks(past) : q < d}
<1>1. Checks(past) \in SUBSET (1 .. Before) /\ c \in Checks(past)
      /\ d \in Checks(past)
  BY DEF Checks, Pasts, Changes
<1>2. T \in SUBSET (0 .. Before) /\ c \in T
  BY <1>1
<1>3. PICK p \in T : \A q \in T : q <= p
  BY <1>2, GreatestExists
<1>4. past[p] # past[d]
  BY <1>3 DEF Changes
<1>5. c < p /\ p < d /\ p \in Checks(past) /\ p \in Int /\ d \in Int
  BY <1>1, <1>2, <1>3, <1>4
<1>6. PICK e \in Changes(past) : c < e /\ e <= p
  BY <1>1, <1>4, <1>5, ChangeBetween
<1>7. e \in Int
  BY <1>1 DEF Changes
<1> QED
  BY <1>5, <1>6, <1>7

LEMMA LastChangeIsCurrent ==
    ASSUME NEW past \in Pasts, NEW c \in Changes(past),
           \A e \in Changes(past) : e <= c
    PROVE  /\ Max(Checks(past)) \in Checks(past)
           /\ c <= Max(Checks(past))
           /\ past[c] = past[Max(Checks(past))]
<1>1. Checks(past) \in SUBSET (1 .. Before) /\ c \in Checks(past)
  BY DEF Checks, Pasts, Changes
<1>2. Checks(past) \in SUBSET (0 .. Before) /\ Checks(past) # {}
  BY <1>1
<1>3. PICK m \in Checks(past) : \A y \in Checks(past) : y <= m
  BY <1>2, GreatestExists
<1>4. Max(Checks(past)) = m
  BY <1>1, <1>3, MaxIs
<1>5. c \in Int /\ m \in Int /\ c <= m
  BY <1>1, <1>3
<1>6. past[c] # past[m] => \E e \in Changes(past) : c < e /\ e <= m
  BY <1>1, <1>5, ChangeBetween
<1>7. past[c] = past[m]
  BY <1>1, <1>5, <1>6 DEF Changes
<1> QED
  BY <1>4, <1>5, <1>7

-----------------------------------------------------------------------------
(* Types, with what bounds the counters: nothing is dated later than the   *)
(* last run, and nothing has failed more often than there were runs.       *)

Bounded(stat) == stat.failures <= run /\ Aware(stat.checked) <= run

TypeInv ==
    /\ TypeOK
    /\ \A s \in Sources : status[s] # None => Bounded(status[s])
    /\ \A u \in Urls : endpoint[u] # None => Bounded(endpoint[u])
    /\ \A s \in Sources : \A c \in sourceState[s] : c.at <= run
    /\ \A u \in Urls : \A c \in endpointState[u] : c.at <= run
    /\ \A s \in Sources : status[s] = None => sourceState[s] = {}
    /\ \A u \in Urls : endpoint[u] = None => endpointState[u] = {}

LEMMA StatusAfterType ==
    ASSUME NEW past \in Pasts
    PROVE  /\ StatusAfter(past) \in Status
           /\ StatusAfter(past).failures <= Before
           /\ Aware(StatusAfter(past).checked) <= Before
<1> DEFINE last == Max(Checks(past))
           failing == {r \in Checks(past) : r >= Max(Changes(past))}
<1>1. Checks(past) \in SUBSET (1 .. Before)
  BY DEF Checks, Pasts
<1>2. CASE Checks(past) = {}
  <2>1. StatusAfter(past) = Unknown
    BY <1>2 DEF StatusAfter
  <2> QED
    BY <2>1 DEF Unknown, Status, Aware
<1>3. CASE Checks(past) # {}
  <2>1. Checks(past) \in SUBSET (0 .. Before)
    BY <1>1
  <2>2. PICK m \in Checks(past) : \A y \in Checks(past) : y <= m
    BY <1>3, <2>1, GreatestExists
  <2>3. last = m
    BY <1>1, <2>2, MaxIs
  <2>4. last \in 1 .. Before /\ past[last] \in Answers
    BY <1>1, <2>2, <2>3 DEF Checks
  <2>5. IsFiniteSet(1 .. Before) /\ Cardinality(1 .. Before) <= Before
    BY FS_Interval
  <2>6. failing \in SUBSET (1 .. Before)
    BY <1>1
  <2>7. /\ IsFiniteSet(failing)
        /\ Cardinality(failing) <= Cardinality(1 .. Before)
    BY <2>5, <2>6, FS_Subset
  <2>8. Cardinality(failing) \in Nat /\ Cardinality(1 .. Before) \in Nat
    BY <2>5, <2>7, FS_CardinalityType
  <2>9. Cardinality(failing) \in 0 .. Before
    BY <2>5, <2>7, <2>8
  <2>10. StatusAfter(past) =
            [state |-> past[last], checked |-> last,
             failures |-> IF past[last] = "up" THEN 0 ELSE Cardinality(failing)]
    BY <1>3 DEF StatusAfter
  <2> HIDE DEF last, failing
  <2>11. Aware(last) = last
    BY <2>4 DEF Aware
  <2> QED
    BY <2>4, <2>9, <2>10, <2>11 DEF Status
<1> QED
  BY <1>2, <1>3

LEMMA InitIsTyped == Init => TypeInv
<1> SUFFICES ASSUME Init PROVE TypeInv
  OBVIOUS
<1>1. PICK past \in [Sources -> Pasts], pruned \in {0, 1} :
        /\ status = [s \in Sources |-> StatusAfter(past[s])]
        /\ sourceState = [s \in Sources |->
                {[state |-> past[s][r], at |-> r] :
                    r \in {q \in Changes(past[s]) : q > pruned}}]
  BY DEF Init, Pasts
<1>2. \A s \in Sources :
        /\ status[s] \in Status /\ status[s] # None /\ Bounded(status[s])
  BY <1>1, StatusAfterType, NoneAssumption DEF Init, Bounded
<1>3. ASSUME NEW s \in Sources
      PROVE  sourceState[s] \subseteq Transition
             /\ \A c \in sourceState[s] : c.at <= run
  <2>1. \A r \in Changes(past[s]) : r \in 1 .. Before /\ past[s][r] \in Answers
    BY DEF Changes, Checks, Pasts
  <2>2. \A r \in Changes(past[s]) : r \in 1 .. MaxRuns
    BY <2>1
  <2>3. sourceState[s] = {[state |-> past[s][r], at |-> r] :
                    r \in {q \in Changes(past[s]) : q > pruned}}
    BY <1>1
  <2>4. sourceState[s] \subseteq Transition
    BY <2>1, <2>2, <2>3 DEF Transition
  <2>5. \A c \in sourceState[s] : c.at <= Before
    BY <2>1, <2>3
  <2> QED
    BY <2>4, <2>5 DEF Init
<1>4. status \in [Sources -> Status]
  BY <1>1, <1>2
<1> QED
  BY <1>2, <1>3, <1>4 DEF Init, TypeInv, TypeOK

(* What a run makes of a URL that it checked, and of one that it did not.   *)
Answered(u, answer) ==
    [state |-> answer, checked |-> run + 1,
     failures |-> IF answer = "up" THEN 0 ELSE Known(u).failures + 1]

MovesOn(u, answer) ==
    /\ endpoint'[u] = Answered(u, answer)
    /\ endpointState'[u] =
            IF answer # Known(u).state
            THEN endpointState[u] \cup {[state |-> answer, at |-> run + 1]}
            ELSE endpointState[u]

StaysPut(u) ==
    /\ endpoint'[u] = endpoint[u] \/ endpoint'[u] = Known(u)
    /\ endpointState'[u] = endpointState[u]

LEMMA RecordSteps ==
    ASSUME NEW now, NEW listed, NEW answers, Record(now, listed, answers),
           NEW u \in Urls
    PROVE  /\ u \in DOMAIN answers => MovesOn(u, answers[u])
           /\ u \notin DOMAIN answers => StaysPut(u)
  BY DEF Record, Answered, MovesOn, StaysPut

LEMMA KnownType ==
    ASSUME TypeInv, schema = "endpoint", NEW u \in Urls
    PROVE  /\ Known(u) \in Status /\ Known(u).failures <= run
           /\ Aware(Known(u).checked) <= run
<1>1. run \in Nat
  BY DEF TypeInv, TypeOK
<1>2. /\ Unknown \in Status /\ Unknown.failures <= run
      /\ Aware(Unknown.checked) <= run
  BY <1>1 DEF Unknown, Status, Aware
<1>3. endpoint[u] # None =>
        /\ endpoint[u] \in Status /\ endpoint[u].failures <= run
        /\ Aware(endpoint[u].checked) <= run
  BY DEF TypeInv, TypeOK, Bounded
<1> QED
  BY <1>2, <1>3 DEF Known

LEMMA AnsweredType ==
    ASSUME TypeInv, schema = "endpoint", run < MaxRuns, NEW u \in Urls,
           NEW answer \in Answers
    PROVE  /\ Answered(u, answer) \in Status
           /\ Answered(u, answer).failures <= run + 1
           /\ Aware(Answered(u, answer).checked) <= run + 1
<1> USE NoneAssumption
<1>1. /\ Known(u).failures \in Nat /\ Known(u).failures <= run
      /\ run \in Nat /\ MaxRuns \in Nat /\ run + 1 \in 1 .. MaxRuns
  BY KnownType DEF TypeInv, TypeOK, Status
<1> DEFINE n == IF answer = "up" THEN 0 ELSE Known(u).failures + 1
<1>2. n \in 0 .. MaxRuns /\ n <= run + 1
  BY <1>1
<1>3. Answered(u, answer) =
            [state |-> answer, checked |-> run + 1, failures |-> n]
  BY DEF Answered
<1> HIDE DEF n
<1>4. /\ Answered(u, answer).failures = n
      /\ Answered(u, answer).checked = run + 1
  BY <1>3
<1>5. Aware(run + 1) = run + 1
  BY <1>1 DEF Aware
<1>6. Answered(u, answer) \in Status
  BY <1>1, <1>2, <1>3 DEF Status
<1> QED
  BY <1>1, <1>2, <1>4, <1>5, <1>6

LEMMA TypeInvInductive == TypeInv /\ [Next]_vars => TypeInv'
<1> SUFFICES ASSUME TypeInv, [Next]_vars PROVE TypeInv'
  OBVIOUS
<1> USE NoneAssumption
<1>0. /\ TypeOK /\ run \in Before .. MaxRuns
      /\ url \in [Sources -> Urls \cup {None}]
      /\ schema = "source" => status \in [Sources -> Status]
      /\ schema = "endpoint" => endpoint \in [Urls -> Status \cup {None}]
  BY DEF TypeInv, TypeOK
<1>1. CASE Upgrade
  <2>1. PICK chosen \in [{u \in Urls : Sharing(u) # {}} -> Sources] :
        /\ \A u \in DOMAIN chosen : chosen[u] \in Freshest(u)
        /\ endpoint' = [u \in Urls |->
                IF u \in DOMAIN chosen THEN status[chosen[u]] ELSE None]
        /\ endpointState' = [u \in Urls |->
                IF u \in DOMAIN chosen THEN HistoryOf(u, chosen[u]) ELSE {}]
    BY <1>1 DEF Upgrade
  <2>2. /\ schema = "source" /\ schema' = "endpoint"
        /\ status' = [s \in Sources |-> None]
        /\ sourceState' = [s \in Sources |-> {}]
        /\ run' = run /\ url' = url
    BY <1>1 DEF Upgrade
  <2>3. ASSUME NEW u \in Urls
        PROVE  \/ \E s \in Sources : /\ endpoint'[u] = status[s]
                                     /\ endpointState'[u] = sourceState[s]
               \/ endpoint'[u] = None /\ endpointState'[u] = {}
    BY <2>1 DEF HistoryOf
  <2>4. ASSUME NEW u \in Urls
        PROVE  /\ endpoint'[u] \in Status \cup {None}
               /\ endpoint'[u] # None => Bounded(endpoint[u])'
               /\ endpointState'[u] \subseteq Transition
               /\ \A c \in endpointState'[u] : c.at <= run'
               /\ endpoint'[u] = None => endpointState'[u] = {}
    <3>1. CASE endpoint'[u] = None /\ endpointState'[u] = {}
      BY <3>1
    <3>2. ASSUME NEW s \in Sources, endpoint'[u] = status[s],
                 endpointState'[u] = sourceState[s]
          PROVE  /\ endpoint'[u] \in Status
                 /\ Bounded(endpoint[u])'
                 /\ endpointState'[u] \subseteq Transition
                 /\ \A c \in endpointState'[u] : c.at <= run'
      BY <1>0, <2>2, <3>2 DEF TypeInv, TypeOK, Bounded, Aware
    <3> QED
      BY <2>3, <3>1, <3>2
  <2>5. endpoint' \in [Urls -> Status \cup {None}]
    BY <2>1, <2>4
  <2> QED
    BY <1>0, <2>2, <2>4, <2>5 DEF TypeInv, TypeOK
<1>2. CASE Downgrade
  <2>1. /\ schema = "endpoint" /\ schema' = "source"
        /\ endpoint' = [u \in Urls |-> None]
        /\ endpointState' = [u \in Urls |-> {}]
        /\ run' = run /\ url' = url
        /\ status' = [s \in Sources |->
                IF Restored(s) THEN endpoint[url[s]] ELSE Unknown]
        /\ sourceState' = [s \in Sources |->
                IF Restored(s) THEN endpointState[url[s]] ELSE {}]
    BY <1>2 DEF Downgrade, AddedColumns
  <2>2. Unknown \in Status /\ Unknown.failures <= run /\ Aware(Unknown.checked) <= run
    BY <1>0 DEF Unknown, Status, Aware
  <2>3. ASSUME NEW s \in Sources
        PROVE  /\ status'[s] \in Status
               /\ Bounded(status[s])'
               /\ sourceState'[s] \subseteq Transition
               /\ \A c \in sourceState'[s] : c.at <= run'
    <3>1. CASE Restored(s)
      <4>1. url[s] \in Urls /\ endpoint[url[s]] # None
        BY <1>0, <3>1 DEF Restored
      <4>2. status'[s] = endpoint[url[s]]
            /\ sourceState'[s] = endpointState[url[s]]
        BY <2>1, <3>1
      <4> QED
        BY <1>0, <2>1, <4>1, <4>2 DEF TypeInv, TypeOK, Bounded, Aware
    <3>2. CASE ~Restored(s)
      BY <2>1, <2>2, <3>2 DEF Bounded, Aware
    <3> QED
      BY <3>1, <3>2
  <2>4. status' \in [Sources -> Status]
    BY <2>1, <2>3
  <2> QED
    BY <1>0, <2>1, <2>3, <2>4 DEF TypeInv, TypeOK
<1>3. ASSUME NEW now \in [Sources -> Urls \cup {None}], NEW listed \in SUBSET Urls,
             NEW checked \in SUBSET listed, NEW answers \in [checked -> Answers],
             Record(now, listed, answers)
      PROVE  TypeInv'
  <2>1. /\ schema = "endpoint" /\ run < MaxRuns /\ run' = run + 1
        /\ url' \in [Sources -> Urls \cup {None}]
        /\ UNCHANGED <<schema, status, sourceState>>
        /\ endpoint' = [u \in Urls |-> endpoint'[u]]
    BY <1>3 DEF Record
  <2>2. run \in Nat /\ MaxRuns \in Nat /\ run + 1 \in 1 .. MaxRuns
    BY <1>0, <2>1
  <2>3. ASSUME NEW u \in Urls
        PROVE  /\ endpoint'[u] \in Status \cup {None}
               /\ endpoint'[u] # None => Bounded(endpoint[u])'
               /\ endpointState'[u] \subseteq Transition
               /\ \A c \in endpointState'[u] : c.at <= run'
               /\ endpoint'[u] = None => endpointState'[u] = {}
    <3>1. \A c \in endpointState[u] : c \in Transition /\ c.at <= run + 1
      BY <2>2 DEF TypeInv, TypeOK, Transition
    <3>2. CASE u \in checked
      <4>1. /\ endpoint'[u] = Answered(u, answers[u])
            /\ endpointState'[u] =
                    IF answers[u] # Known(u).state
                    THEN endpointState[u] \cup
                            {[state |-> answers[u], at |-> run + 1]}
                    ELSE endpointState[u]
        <5>1. u \in DOMAIN answers
          BY <3>2
        <5>2. MovesOn(u, answers[u])
          BY <1>3, <5>1, RecordSteps
        <5> QED
          BY <5>2 DEF MovesOn
      <4>2. /\ Answered(u, answers[u]) \in Status
            /\ Answered(u, answers[u]).failures <= run + 1
            /\ Aware(Answered(u, answers[u]).checked) <= run + 1
        BY <2>1, <3>2, AnsweredType
      <4>3. [state |-> answers[u], at |-> run + 1] \in Transition
        BY <2>2, <3>2 DEF Transition
      <4>4. /\ endpointState'[u] \subseteq Transition
            /\ \A c \in endpointState'[u] : c.at <= run'
        BY <2>1, <2>2, <3>1, <4>1, <4>3
      <4> QED
        BY <2>1, <4>1, <4>2, <4>4, NoneAssumption DEF Bounded
    <3>3. CASE u \notin checked
      <4>1. /\ endpoint'[u] = endpoint[u] \/ endpoint'[u] = Known(u)
            /\ endpointState'[u] = endpointState[u]
        <5>1. u \notin DOMAIN answers
          BY <3>3
        <5>2. StaysPut(u)
          BY <1>3, <5>1, RecordSteps
        <5> QED
          BY <5>2 DEF StaysPut
      <4>2. /\ Known(u) \in Status /\ Known(u).failures <= run
            /\ Aware(Known(u).checked) <= run
        BY <2>1, KnownType
      <4>3. endpoint[u] \in {None, Known(u)}
        BY DEF Known
      <4>4. endpoint'[u] = None => endpoint[u] = None
        BY <4>1, <4>2, NoneAssumption
      <4>5. endpoint'[u] # None => Bounded(endpoint[u])'
        <5>1. Known(u).failures \in Int /\ Aware(Known(u).checked) \in Int
          BY <4>2 DEF Status, Aware
        <5>2. Known(u).failures <= run + 1 /\ Aware(Known(u).checked) <= run + 1
          BY <2>2, <4>2, <5>1
        <5>3. endpoint'[u] # None => endpoint'[u] = Known(u)
          BY <4>1, <4>3
        <5> QED
          BY <2>1, <5>2, <5>3 DEF Bounded
      <4> QED
        BY <2>1, <3>1, <4>1, <4>2, <4>3, <4>4, <4>5 DEF TypeInv
    <3> QED
      BY <3>2, <3>3
  <2>4. \A s \in Sources : status'[s] = None /\ sourceState'[s] = {}
    BY <2>1 DEF TypeInv, TypeOK
  <2>5. endpoint' \in [Urls -> Status \cup {None}]
    BY <2>1, <2>3
  <2>6. TypeOK'
    BY <1>0, <2>1, <2>2, <2>3, <2>5 DEF TypeOK
  <2> QED
    BY <2>3, <2>4, <2>6 DEF TypeInv
<1>4. CASE UNCHANGED vars
  BY <1>4 DEF vars, TypeInv, TypeOK, Bounded
<1> QED
  BY <1>1, <1>2, <1>3, <1>4 DEF Next

(* Every column stays in its domain whichever way the schema was migrated, *)
(* and is there exactly when its table or column is.                       *)
THEOREM TypeCorrect == Spec => []TypeOK
<1>1. TypeInv => TypeOK
  BY DEF TypeInv
<1> QED
  BY <1>1, InitIsTyped, TypeInvInductive, PTL DEF Spec

-----------------------------------------------------------------------------
(* The transitions that a migration hands over                             *)

LEMMA StartsCoherent ==
    ASSUME NEW past \in Pasts, NEW pruned \in {0, 1}
    PROVE  Coherent(StatusAfter(past),
                    {[state |-> past[r], at |-> r] :
                        r \in {q \in Changes(past) : q > pruned}})
<1> DEFINE kept == {q \in Changes(past) : q > pruned}
           states == {[state |-> past[r], at |-> r] : r \in kept}
           stat == StatusAfter(past)
           last == Max(Checks(past))
<1>1. kept \subseteq Changes(past) /\ Changes(past) \subseteq Checks(past)
      /\ Checks(past) \in SUBSET (1 .. Before)
  BY DEF Changes, Checks, Pasts
<1>2. \A r \in Changes(past) : r \in Int
  BY <1>1
<1>3. \A c \in states : c.at \in kept /\ c.state = past[c.at]
                        /\ c = [state |-> past[c.at], at |-> c.at]
  OBVIOUS
<1>4. ASSUME NEW r \in kept PROVE \E c \in states : c.at = r
  <2>1. [state |-> past[r], at |-> r] \in states
    OBVIOUS
  <2> QED
    BY <2>1
<1> HIDE DEF states
<1>5. ASSUME NEW c \in states, NEW d \in states, c.at < d.at,
             ~\E e \in states : c.at < e.at /\ e.at < d.at
      PROVE  c.state # d.state
  <2>1. \A e \in Changes(past) : ~(c.at < e /\ e < d.at)
    <3> SUFFICES ASSUME NEW e \in Changes(past), c.at < e, e < d.at PROVE FALSE
      OBVIOUS
    <3>1. c.at \in Int /\ c.at > pruned /\ e \in Int /\ pruned \in Int
      BY <1>1, <1>2, <1>3
    <3>2. e \in kept
      BY <3>1
    <3> QED
      BY <1>4, <1>5, <3>2
  <2>2. c.at \in Changes(past) /\ d.at \in Changes(past)
    BY <1>1, <1>3
  <2>3. past[c.at] # past[d.at]
    BY <1>5, <2>1, <2>2, ChangesAlternate
  <2> QED
    BY <1>3, <2>3
<1>6. ASSUME NEW c \in states
      PROVE  /\ stat # None /\ stat.checked # None /\ c.at <= stat.checked
             /\ (\A d \in states : d.at <= c.at) => c.state = stat.state
  <2>1. c.at \in Checks(past) /\ Checks(past) # {} /\ c.at \in Int
    BY <1>1, <1>3
  <2>2. stat.checked = last /\ stat.state = past[last]
    BY <2>1 DEF StatusAfter
  <2>3. stat # None
    BY StatusAfterType, NoneAssumption
  <2>4. PICK m \in Checks(past) : \A y \in Checks(past) : y <= m
    <3>1. Checks(past) \in SUBSET (0 .. Before)
      BY <1>1
    <3> QED
      BY <2>1, <3>1, GreatestExists
  <2>5. last = m /\ m \in Int
    BY <1>1, <2>4, MaxIs
  <2>6. c.at <= last /\ last \in Int
    BY <2>1, <2>4, <2>5
  <2>7. ASSUME \A d \in states : d.at <= c.at PROVE c.state = stat.state
    <3>1. ASSUME NEW e \in Changes(past) PROVE e <= c.at
      <4>1. CASE e \in kept
        BY <1>4, <2>7, <4>1
      <4>2. CASE e \notin kept
        <5>1. ~(e > pruned) /\ c.at > pruned
          BY <1>3, <4>2
        <5>2. e \in Int /\ pruned \in Int
          BY <1>2
        <5> QED
          BY <2>1, <5>1, <5>2
      <4> QED
        BY <4>1, <4>2
    <3>2. past[c.at] = past[last]
      BY <1>1, <1>3, <3>1, LastChangeIsCurrent
    <3> QED
      BY <1>3, <2>2, <3>2
  <2> QED
    BY <2>2, <2>3, <2>6, <2>7
<1>7. \A c, d \in states : c.at = d.at => c = d
  BY <1>3
<1>8. Coherent(stat, states)
  <2> HIDE DEF stat
  <2> QED
    BY <1>5, <1>6, <1>7 DEF Coherent
<1> QED
  BY <1>8 DEF states

(* What a migration hands over is sound: the transitions are coherent, and *)
(* the count of failures fits them.                                        *)
Sound(stat, states) == Coherent(stat, states) /\ Dated(stat, states)

RowsAreSound ==
    /\ \A s \in Sources : Sound(status[s], sourceState[s])
    /\ \A u \in Urls : Sound(endpoint[u], endpointState[u])

LEMMA StartsDated ==
    ASSUME NEW past \in Pasts, NEW pruned \in {0, 1}
    PROVE  Dated(StatusAfter(past),
                 {[state |-> past[r], at |-> r] :
                     r \in {q \in Changes(past) : q > pruned}})
<1> DEFINE kept == {q \in Changes(past) : q > pruned}
           states == {[state |-> past[r], at |-> r] : r \in kept}
           stat == StatusAfter(past)
           last == Max(Checks(past))
           turn == Max(Changes(past))
           failing == {r \in Checks(past) : r >= turn}
<1>1. kept \subseteq Changes(past) /\ Changes(past) \subseteq Checks(past)
      /\ Checks(past) \in SUBSET (1 .. Before)
  BY DEF Changes, Checks, Pasts
<1>2. CASE Checks(past) = {}
  <2>1. stat = Unknown /\ states = {}
    BY <1>1, <1>2 DEF StatusAfter
  <2> QED
    BY <2>1 DEF Unknown, Dated
<1>3. CASE Checks(past) # {}
  <2>1. last \in Checks(past) /\ last \in Int /\ \A y \in Checks(past) : y <= last
    <3>1. Checks(past) \in SUBSET (0 .. Before)
      BY <1>1
    <3>2. PICK m \in Checks(past) : \A y \in Checks(past) : y <= m
      BY <1>3, <3>1, GreatestExists
    <3>3. last = m
      BY <1>1, <3>2, MaxIs
    <3> QED
      BY <1>1, <3>2, <3>3
  <2>2. Changes(past) # {}
    <3>1. Checks(past) \in SUBSET Nat
      BY <1>1
    <3>2. PICK f \in Checks(past) : \A y \in Checks(past) : f <= y
      BY <1>3, <3>1, LeastExists
    <3>3. ~\E q \in Checks(past) : q < f
      BY <3>1, <3>2
    <3>4. f \in Changes(past)
      BY <3>3 DEF Changes
    <3> QED
      BY <3>4
  <2>3. turn \in Changes(past) /\ turn \in Int
        /\ \A y \in Changes(past) : y <= turn
    <3>1. Changes(past) \in SUBSET (0 .. Before)
      BY <1>1
    <3>2. PICK m \in Changes(past) : \A y \in Changes(past) : y <= m
      BY <2>2, <3>1, GreatestExists
    <3>3. Changes(past) \in SUBSET Int /\ m \in Int
      BY <1>1, <3>1
    <3>4. turn = m
      BY <3>2, <3>3, MaxIs
    <3> QED
      BY <3>2, <3>3, <3>4
  <2>4. turn <= last
    BY <1>1, <2>1, <2>3
  <2> HIDE DEF last, turn
  <2>5. /\ IsFiniteSet(turn .. last)
        /\ Cardinality(turn .. last) = last - turn + 1
    BY <2>1, <2>3, <2>4, FS_Interval
  <2>6. failing \in SUBSET (turn .. last)
    BY <1>1, <2>1, <2>3
  <2>7. /\ IsFiniteSet(failing) /\ Cardinality(failing) \in Nat
        /\ Cardinality(failing) <= Cardinality(turn .. last)
    BY <2>5, <2>6, FS_Subset, FS_CardinalityType
  <2>8. Cardinality(failing) # 0
    <3>1. last \in failing
      BY <2>1, <2>3, <2>4
    <3> QED
      BY <2>7, <3>1, FS_EmptySet
  <2> DEFINE size == Cardinality(failing)
             failures == IF past[last] = "up" THEN 0 ELSE size
  <2>9. size \in Nat /\ size > 0 /\ size <= last - turn + 1
    BY <2>1, <2>3, <2>5, <2>7, <2>8
  <2>10. stat = [state |-> past[last], checked |-> last, failures |-> failures]
    BY <1>3 DEF StatusAfter, last, turn
  <2>11. past[last] \in {"up", "down"}
    BY <2>1 DEF Checks, Answers
  <2> HIDE DEF size, failing
  <2>12. /\ stat.state = past[last] /\ stat.checked = last
         /\ stat.failures = failures
    BY <2>10
  <2>13. stat.state = "down" <=> stat.failures > 0
    BY <2>9, <2>11, <2>12
  <2>14. ASSUME NEW c \in states, \A d \in states : d.at <= c.at
         PROVE  stat.failures <= stat.checked - c.at + 1
    <3>1. c.at \in kept
      OBVIOUS
    <3>2. c.at \in Int /\ c.at > pruned /\ pruned \in Int /\ c.at <= turn
      BY <1>1, <2>3, <3>1
    <3>3. turn \in kept
      BY <2>3, <3>2
    <3>4. [state |-> past[turn], at |-> turn] \in states
      BY <3>3
    <3>5. turn <= c.at
      BY <2>14, <3>4
    <3>6. c.at = turn
      BY <2>3, <3>2, <3>5
    <3>7. failures <= last - turn + 1
      BY <2>1, <2>3, <2>4, <2>9
    <3> QED
      BY <2>12, <3>6, <3>7
  <2> HIDE DEF stat, states
  <2>15. Dated(stat, states)
    BY <2>13, <2>14 DEF Dated
  <2> QED
    BY <2>15 DEF stat, states, kept
<1> QED
  BY <1>2, <1>3

LEMMA NothingIsSound == Sound(None, {}) /\ Sound(Unknown, {})
<1>1. Unknown.state = "unknown" /\ Unknown.failures = 0
  BY DEF Unknown
<1> QED
  BY <1>1 DEF Sound, Coherent, Dated

(* A run adds a transition, later than the others and to another state     *)
(* than the last of them, or there is none to add.                         *)
LEMMA RecordKeepsCoherent ==
    ASSUME NEW n \in Nat, NEW stat \in Status, NEW states \in SUBSET Transition,
           Coherent(stat, states), \A c \in states : c.at <= n,
           NEW answer \in Answers, NEW new \in Status,
           new.state = answer, new.checked = n + 1
    PROVE  Coherent(new, IF answer # stat.state
                         THEN states \cup {[state |-> answer, at |-> n + 1]}
                         ELSE states)
<1> USE NoneAssumption
<1>1. \A c \in states : c.at \in Int /\ c.at < n + 1
  BY DEF Transition
<1>2. n + 1 # None /\ new # None
  OBVIOUS
<1>3. CASE answer = stat.state
  <2>1. \A c \in states : c.at <= new.checked /\ new.checked # None
    BY <1>1, <1>2
  <2> QED
    BY <1>2, <1>3, <2>1 DEF Coherent
<1>4. CASE answer # stat.state
  <2> DEFINE added == [state |-> answer, at |-> n + 1]
             all == states \cup {added}
  <2>1. added.at = n + 1 /\ added.state = answer /\ added \in all
    OBVIOUS
  <2>2. \A c \in all : c \in states \/ c = added
    OBVIOUS
  <2>3. states \subseteq all
    OBVIOUS
  <2> HIDE DEF added, all
  <2>4. \A c, d \in all : c.at = d.at => c = d
    BY <1>1, <2>1, <2>2 DEF Coherent
  <2>5. ASSUME NEW c \in all, NEW d \in all, c.at < d.at,
               ~\E e \in all : c.at < e.at /\ e.at < d.at
        PROVE  c.state # d.state
    <3>1. c \in states
      BY <1>1, <2>1, <2>2, <2>5
    <3>2. CASE d \in states
      BY <2>3, <2>5, <3>1, <3>2 DEF Coherent
    <3>3. CASE d = added
      <4>1. \A e \in states : e.at <= c.at
        BY <1>1, <2>1, <2>3, <2>5, <3>1, <3>3
      <4>2. c.state = stat.state
        BY <3>1, <4>1 DEF Coherent
      <4> QED
        BY <1>4, <2>1, <3>3, <4>2
    <3> QED
      BY <2>2, <3>2, <3>3
  <2>6. ASSUME NEW c \in all
        PROVE  /\ new # None /\ new.checked # None /\ c.at <= new.checked
               /\ (\A d \in all : d.at <= c.at) => c.state = new.state
    <3>1. CASE c \in states
      <4>1. c.at \in Int /\ c.at < n + 1
        BY <1>1, <3>1
      <4>2. ~(added.at <= c.at)
        BY <2>1, <4>1
      <4> QED
        BY <1>2, <2>1, <4>1, <4>2
    <3>2. CASE c = added
      BY <1>2, <2>1, <3>2
    <3> QED
      BY <2>2, <3>1, <3>2
  <2>7. Coherent(new, all)
    BY <2>4, <2>5, <2>6 DEF Coherent
  <2> QED
    BY <1>4, <2>7 DEF all, added
<1> QED
  BY <1>3, <1>4

(* Its count of failures begins with a transition, or goes on.             *)
LEMMA RecordKeepsDated ==
    ASSUME NEW n \in Nat, NEW stat \in Status, NEW states \in SUBSET Transition,
           Coherent(stat, states), Dated(stat, states),
           \A c \in states : c.at <= n, Aware(stat.checked) <= n,
           NEW answer \in Answers, NEW new \in Status,
           new.state = answer, new.checked = n + 1,
           new.failures = IF answer = "up" THEN 0 ELSE stat.failures + 1
    PROVE  Dated(new, IF answer # stat.state
                      THEN states \cup {[state |-> answer, at |-> n + 1]}
                      ELSE states)
<1> USE NoneAssumption
<1>1. stat # None /\ stat.failures \in Nat
  BY DEF Status
<1>2. stat.state = "down" <=> stat.failures > 0
  BY <1>1 DEF Dated
<1>3. answer = "up" \/ answer = "down"
  BY DEF Answers
<1>4. new.state = "down" <=> new.failures > 0
  BY <1>1, <1>3
<1>5. CASE answer = stat.state
  <2>1. ASSUME NEW c \in states, \A d \in states : d.at <= c.at
        PROVE  new.failures <= new.checked - c.at + 1
    <3>1. c.at \in Int /\ c.at <= n
      BY DEF Transition
    <3>2. stat.failures <= stat.checked - c.at + 1
      BY <1>1, <2>1 DEF Dated
    <3>3. stat.checked # None
      BY DEF Coherent
    <3>4. stat.checked \in Int /\ stat.checked <= n
      BY <3>3 DEF Status, Aware
    <3>5. stat.failures + 1 <= (n + 1) - c.at + 1
      BY <1>1, <3>1, <3>2, <3>4
    <3>6. 0 <= (n + 1) - c.at + 1
      BY <3>1
    <3> QED
      BY <1>3, <3>5, <3>6
  <2> QED
    BY <1>4, <1>5, <2>1 DEF Dated
<1>6. CASE answer # stat.state
  <2> DEFINE added == [state |-> answer, at |-> n + 1]
             all == states \cup {added}
  <2>1. \A c \in states : c.at \in Int /\ c.at <= n
    BY DEF Transition
  <2>2. new.failures <= 1
    BY <1>1, <1>2, <1>3, <1>6
  <2>3. ASSUME NEW c \in all, \A d \in all : d.at <= c.at
        PROVE  new.failures <= new.checked - c.at + 1
    <3>1. added.at = n + 1 /\ added \in all
      OBVIOUS
    <3>2. n + 1 <= c.at
      BY <2>3, <3>1
    <3>3. c \notin states
      BY <2>1, <3>2
    <3>4. c.at = n + 1
      BY <3>1, <3>3
    <3>5. (n + 1) - c.at + 1 = 1
      BY <3>4
    <3> QED
      BY <2>2, <3>5
  <2> HIDE DEF all
  <2>4. Dated(new, all)
    BY <1>4, <2>3 DEF Dated
  <2> QED
    BY <1>6, <2>4 DEF all
<1> QED
  BY <1>5, <1>6

LEMMA SoundInductive ==
    ASSUME TypeInv, RowsAreSound, [Next]_vars
    PROVE  RowsAreSound'
<1> USE NothingIsSound
<1>0. /\ run \in Nat
      /\ url \in [Sources -> Urls \cup {None}]
      /\ \A u \in Urls : endpointState[u] \in SUBSET Transition
  BY DEF TypeInv, TypeOK
<1>1. CASE Upgrade
  <2>1. PICK chosen \in [{u \in Urls : Sharing(u) # {}} -> Sources] :
        /\ endpoint' = [u \in Urls |->
                IF u \in DOMAIN chosen THEN status[chosen[u]] ELSE None]
        /\ endpointState' = [u \in Urls |->
                IF u \in DOMAIN chosen THEN HistoryOf(u, chosen[u]) ELSE {}]
    BY <1>1 DEF Upgrade
  <2>2. \A s \in Sources : status'[s] = None /\ sourceState'[s] = {}
    BY <1>1 DEF Upgrade
  <2>3. ASSUME NEW u \in Urls
        PROVE  Sound(endpoint'[u], endpointState'[u])
    <3>1. CASE u \in DOMAIN chosen
      BY <2>1, <3>1 DEF HistoryOf, RowsAreSound
    <3>2. CASE u \notin DOMAIN chosen
      BY <2>1, <3>2
    <3> QED
      BY <3>1, <3>2
  <2> QED
    BY <2>2, <2>3 DEF RowsAreSound
<1>2. CASE Downgrade
  <2>1. /\ \A u \in Urls : endpoint'[u] = None /\ endpointState'[u] = {}
        /\ status' = [s \in Sources |->
                IF Restored(s) THEN endpoint[url[s]] ELSE Unknown]
        /\ sourceState' = [s \in Sources |->
                IF Restored(s) THEN endpointState[url[s]] ELSE {}]
    BY <1>2 DEF Downgrade, AddedColumns
  <2>2. ASSUME NEW s \in Sources
        PROVE  Sound(status'[s], sourceState'[s])
    <3>1. CASE Restored(s)
      <4>1. url[s] \in Urls
        BY <1>0, <3>1 DEF Restored
      <4> QED
        BY <2>1, <3>1, <4>1 DEF RowsAreSound
    <3>2. CASE ~Restored(s)
      BY <2>1, <3>2
    <3> QED
      BY <3>1, <3>2
  <2>3. \A u \in Urls : Sound(endpoint'[u], endpointState'[u])
    BY <2>1
  <2> QED
    BY <2>2, <2>3 DEF RowsAreSound
<1>3. ASSUME NEW now \in [Sources -> Urls \cup {None}], NEW listed \in SUBSET Urls,
             NEW checked \in SUBSET listed, NEW answers \in [checked -> Answers],
             Record(now, listed, answers)
      PROVE  RowsAreSound'
  <2>1. schema = "endpoint" /\ run < MaxRuns /\ UNCHANGED <<status, sourceState>>
    BY <1>3 DEF Record
  <2>2. ASSUME NEW u \in Urls
        PROVE  Sound(Known(u), endpointState[u])
    <3>1. endpoint[u] = None => endpointState[u] = {}
      BY DEF TypeInv
    <3> QED
      BY <3>1 DEF Known, RowsAreSound
  <2>3. ASSUME NEW u \in Urls
        PROVE  Sound(endpoint'[u], endpointState'[u])
    <3>1. CASE u \in checked
      <4> DEFINE stat == Known(u)
                 states == endpointState[u]
                 answer == answers[u]
                 new == Answered(u, answer)
      <4>1. /\ endpoint'[u] = new
            /\ endpointState'[u] =
                    IF answer # stat.state
                    THEN states \cup {[state |-> answer, at |-> run + 1]}
                    ELSE states
        <5>1. u \in DOMAIN answers
          BY <3>1
        <5>2. MovesOn(u, answers[u])
          BY <1>3, <5>1, RecordSteps
        <5> QED
          BY <5>2 DEF MovesOn
      <4>2. /\ stat \in Status /\ Aware(stat.checked) <= run
            /\ Coherent(stat, states) /\ Dated(stat, states)
        BY <2>1, <2>2, KnownType DEF Sound
      <4>3. answer \in Answers
        BY <3>1
      <4>4. new \in Status
        BY <2>1, <4>3, AnsweredType
      <4>5. /\ new.state = answer /\ new.checked = run + 1
            /\ new.failures = IF answer = "up" THEN 0 ELSE stat.failures + 1
        BY DEF Answered
      <4>6. states \in SUBSET Transition /\ \A c \in states : c.at <= run
        BY <1>0 DEF TypeInv
      <4> HIDE DEF stat, states, answer, new
      <4>7. Coherent(new, IF answer # stat.state
                          THEN states \cup {[state |-> answer, at |-> run + 1]}
                          ELSE states)
        BY <1>0, <4>2, <4>3, <4>4, <4>5, <4>6, RecordKeepsCoherent
      <4>8. Dated(new, IF answer # stat.state
                       THEN states \cup {[state |-> answer, at |-> run + 1]}
                       ELSE states)
        BY <1>0, <4>2, <4>3, <4>4, <4>5, <4>6, RecordKeepsDated
      <4> QED
        BY <4>1, <4>7, <4>8 DEF Sound
    <3>2. CASE u \notin checked
      <4>1. /\ endpoint'[u] = endpoint[u] \/ endpoint'[u] = Known(u)
            /\ endpointState'[u] = endpointState[u]
        <5>1. u \notin DOMAIN answers
          BY <3>2
        <5>2. StaysPut(u)
          BY <1>3, <5>1, RecordSteps
        <5> QED
          BY <5>2 DEF StaysPut
      <4>2. Sound(endpoint[u], endpointState[u])
        BY DEF RowsAreSound
      <4> QED
        BY <2>2, <4>1, <4>2
    <3> QED
      BY <3>1, <3>2
  <2> QED
    BY <2>1, <2>3 DEF RowsAreSound
<1>4. CASE UNCHANGED vars
  BY <1>4 DEF vars, RowsAreSound
<1> QED
  BY <1>1, <1>2, <1>3, <1>4 DEF Next

LEMMA SoundHolds == Spec => []RowsAreSound
<1>1. Init => RowsAreSound
  <2> SUFFICES ASSUME Init PROVE RowsAreSound
    OBVIOUS
  <2>1. PICK past \in [Sources -> Pasts], pruned \in {0, 1} :
        /\ status = [s \in Sources |-> StatusAfter(past[s])]
        /\ sourceState = [s \in Sources |->
                {[state |-> past[s][r], at |-> r] :
                    r \in {q \in Changes(past[s]) : q > pruned}}]
    BY DEF Init, Pasts
  <2>2. \A s \in Sources : Sound(status[s], sourceState[s])
    BY <2>1, StartsCoherent, StartsDated DEF Sound
  <2>3. \A u \in Urls : Sound(endpoint[u], endpointState[u])
    BY NothingIsSound DEF Init
  <2> QED
    BY <2>2, <2>3 DEF RowsAreSound
<1> QED
  BY <1>1, InitIsTyped, TypeInvInductive, SoundInductive, PTL DEF Spec

(* "One row per state change of a URL", through any migrations: the        *)
(* transitions of a source, or of a URL, alternate and end in its state,   *)
(* whichever source's history a URL took over and whatever was pruned.     *)
THEOREM HistoryStaysCoherent == Spec => []HistoryIsCoherent
<1>1. RowsAreSound => HistoryIsCoherent
  BY DEF RowsAreSound, Sound, HistoryIsCoherent
<1> QED
  BY <1>1, SoundHolds, PTL

(* The count of failures and the transitions stay those of one source:     *)
(* nothing is down without a failure or up with one, and nothing has       *)
(* failed more often than there were runs since it went down.              *)
THEOREM StreaksStayDated == Spec => []StreakIsDated
<1>1. RowsAreSound => StreakIsDated
  BY DEF RowsAreSound, Sound, StreakIsDated
<1> QED
  BY <1>1, SoundHolds, PTL

-----------------------------------------------------------------------------
(* What a migration leaves                                                 *)

(* After an upgrade, until the next run: each URL has what one of its      *)
(* sources had.  After a downgrade: each source has what its URL had, if   *)
(* there was any.                                                          *)
Carried ==
    /\ schema = "endpoint" =>
        /\ left.run \in Int /\ left.run <= run
        /\ left.run = run => \A u \in Urls : Sharing(u) # {} =>
            \E s \in Sharing(u) : /\ endpoint[u] = left.status[s]
                                  /\ endpointState[u] = left.states[s]
                                  /\ endpoint[u] # None
    /\ schema = "source" /\ left # None =>
        \A s \in Sources : url[s] # None /\ left.status[url[s]] # None =>
            /\ status[s] = left.status[url[s]]
            /\ sourceState[s] = left.states[url[s]]

LEMMA UpgradeCarries ==
    ASSUME TypeInv, Upgrade, NEW u \in Urls
    PROVE  /\ Sharing(u) # {} =>
                \E s \in Freshest(u) : /\ endpoint'[u] = status[s]
                                       /\ endpointState'[u] = sourceState[s]
                                       /\ endpoint'[u] # None
           /\ Sharing(u) = {} => endpoint'[u] = None
<1>1. PICK chosen \in [{v \in Urls : Sharing(v) # {}} -> Sources] :
        /\ \A v \in DOMAIN chosen : chosen[v] \in Freshest(v)
        /\ endpoint' = [v \in Urls |->
                IF v \in DOMAIN chosen THEN status[chosen[v]] ELSE None]
        /\ endpointState' = [v \in Urls |->
                IF v \in DOMAIN chosen THEN HistoryOf(v, chosen[v]) ELSE {}]
  BY DEF Upgrade
<1>2. \A s \in Sources : status[s] # None
  BY NoneAssumption DEF TypeInv, TypeOK, Upgrade
<1>3. ASSUME Sharing(u) # {}
      PROVE  \E s \in Freshest(u) : /\ endpoint'[u] = status[s]
                                    /\ endpointState'[u] = sourceState[s]
                                    /\ endpoint'[u] # None
  <2>1. u \in DOMAIN chosen /\ chosen[u] \in Sources
    BY <1>3
  <2> QED
    BY <1>1, <1>2, <2>1 DEF HistoryOf
<1> QED
  BY <1>1, <1>3

LEMMA DowngradeCarries ==
    ASSUME TypeInv, Downgrade, NEW s \in Sources, url[s] # None,
           endpoint[url[s]] # None
    PROVE  url[s] \in Urls /\ status'[s] = endpoint[url[s]]
           /\ sourceState'[s] = endpointState[url[s]]
  BY DEF TypeInv, TypeOK, Downgrade, Restored

LEMMA CarriedInductive ==
    ASSUME TypeInv, Carried, [Next]_vars
    PROVE  Carried'
<1>0. run \in Int
  BY DEF TypeInv, TypeOK
<1>1. CASE Upgrade
  <2>1. /\ schema' = "endpoint" /\ run' = run /\ url' = url
        /\ left' = [run |-> run, status |-> status, states |-> sourceState]
    BY <1>1 DEF Upgrade
  <2>2. left'.run = run /\ left'.status = status /\ left'.states = sourceState
    BY <2>1
  <2>3. ASSUME NEW u \in Urls, Sharing(u)' # {}
        PROVE  \E s \in Sharing(u)' : /\ endpoint'[u] = left'.status[s]
                                      /\ endpointState'[u] = left'.states[s]
                                      /\ endpoint'[u] # None
    <3>1. Sharing(u)' = Sharing(u)
      BY <2>1 DEF Sharing
    <3> QED
      BY <1>1, <2>2, <2>3, <3>1, UpgradeCarries DEF Freshest
  <2> QED
    BY <1>0, <2>1, <2>2, <2>3 DEF Carried
<1>2. CASE Downgrade
  <2>1. /\ schema' = "source" /\ url' = url
        /\ left' = [run |-> run, status |-> endpoint, states |-> endpointState]
    BY <1>2 DEF Downgrade
  <2>2. left'.status = endpoint /\ left'.states = endpointState
    BY <2>1
  <2>3. \A s \in Sources : url'[s] # None /\ left'.status[url'[s]] # None =>
            /\ status'[s] = left'.status[url'[s]]
            /\ sourceState'[s] = left'.states[url'[s]]
    BY <1>2, <2>1, <2>2, DowngradeCarries
  <2> QED
    BY <2>1, <2>3 DEF Carried
<1>3. ASSUME NEW now \in [Sources -> Urls \cup {None}], NEW listed \in SUBSET Urls,
             NEW checked \in SUBSET listed, NEW answers \in [checked -> Answers],
             Record(now, listed, answers)
      PROVE  Carried'
  <2>1. /\ schema = "endpoint" /\ schema' = "endpoint" /\ run' = run + 1
        /\ left' = left
    BY <1>3 DEF Record
  <2> QED
    BY <1>0, <2>1 DEF Carried
<1>4. CASE UNCHANGED vars
  BY <1>4 DEF vars, Carried, Sharing
<1> QED
  BY <1>1, <1>2, <1>3, <1>4 DEF Next

LEMMA CarriedHolds == Spec => [](TypeInv /\ Carried)
<1>1. Init => Carried
  BY DEF Init, Carried
<1> QED
  BY <1>1, InitIsTyped, TypeInvInductive, CarriedInductive, PTL DEF Spec

(* Up and down again with no run in between is as if nothing had happened, *)
(* for every source that shares its URL with no other.                     *)
THEOREM NothingLostDown == Spec => ForthAndBack
<1>1. TypeInv /\ Carried /\ [Next]_vars =>
        [schema = "endpoint" /\ schema' = "source" /\ left.run = run =>
            \A s \in Sources :
                url[s] # None /\ Sharing(url[s]) = {s} =>
                    /\ status'[s] = left.status[s]
                    /\ sourceState'[s] = left.states[s]]_vars
  <2> SUFFICES ASSUME TypeInv, Carried, Next,
                      schema = "endpoint", schema' = "source", left.run = run,
                      NEW s \in Sources, url[s] # None, Sharing(url[s]) = {s}
               PROVE  /\ status'[s] = left.status[s]
                      /\ sourceState'[s] = left.states[s]
    OBVIOUS
  <2>1. Downgrade
    BY DEF Next, Upgrade, Record
  <2>2. url[s] \in Urls
    BY DEF TypeInv, TypeOK
  <2>3. /\ endpoint[url[s]] = left.status[s]
        /\ endpointState[url[s]] = left.states[s]
        /\ endpoint[url[s]] # None
    BY <2>2 DEF Carried
  <2> QED
    BY <2>1, <2>3, DowngradeCarries
<1> QED
  BY <1>1, CarriedHolds, PTL DEF Spec, ForthAndBack

(* And so is down and up again, for every URL that a source has, whichever *)
(* of the sources that share it is taken for the freshest.                 *)
THEOREM NothingLostUp == Spec => BackAndForth
<1>1. TypeInv /\ Carried /\ [Next]_vars =>
        [schema = "source" /\ schema' = "endpoint" /\ left # None =>
            \A u \in Urls : Sharing(u) # {} /\ left.status[u] # None =>
                /\ endpoint'[u] = left.status[u]
                /\ endpointState'[u] = left.states[u]]_vars
  <2> SUFFICES ASSUME TypeInv, Carried, Next,
                      schema = "source", schema' = "endpoint", left # None,
                      NEW u \in Urls, Sharing(u) # {}, left.status[u] # None
               PROVE  /\ endpoint'[u] = left.status[u]
                      /\ endpointState'[u] = left.states[u]
    OBVIOUS
  <2>1. Upgrade
    BY DEF Next, Downgrade, Record
  <2>2. PICK s \in Freshest(u) : /\ endpoint'[u] = status[s]
                                 /\ endpointState'[u] = sourceState[s]
    BY <2>1, UpgradeCarries
  <2>3. s \in Sources /\ url[s] = u /\ url[s] # None
    BY DEF Freshest, Sharing
  <2> QED
    BY <2>2, <2>3 DEF Carried
<1> QED
  BY <1>1, CarriedHolds, PTL DEF Spec, BackAndForth
=============================================================================
