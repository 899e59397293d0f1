------------------------------ MODULE MCIngest ------------------------------
(***************************************************************************)
(* A small world.  The Mobility Database lists four schedules, the second  *)
(* of which makes its server fail, in a window of three; one more may be   *)
(* added, and one realtime feed refers to the first schedule.  The atlas   *)
(* has three files.  Two hold feed 21, the second of which names the       *)
(* operator that it and the third file describe; 22 and 24 are claimed by  *)
(* operators, 22 by one of the first file.  The catalogs share the URLs a  *)
(* and v, and spell them differently; b is listed with a key by one and    *)
(* openly by another, k only with a key.                                   *)
(***************************************************************************)
EXTENDS Ingest

Url(key, text) == [key |-> key, text |-> text]

MCPageSize == <<3, 1>>
MCListing == <<<<11, 12, 13, 14>>, <<16>>>>
MCSpare == <<{15}, {}>>
MCBad == {12}

Schedule(url, auth, place) ==
    [url |-> url, entities |-> None, auth |-> auth, place |-> place,
     references |-> {}]
MCMobilityEntry ==
    (11 :> Schedule(Url("a", "http://A"), FALSE, 11)) @@
    (12 :> Schedule(Url("x", "http://x"), FALSE, 12)) @@
    (13 :> Schedule(Url("b", "http://b"), TRUE, 13)) @@
    (14 :> Schedule(Url("k", "http://k"), TRUE, None)) @@
    (15 :> Schedule(None, FALSE, None)) @@
    (16 :> [url |-> Url("v", "http://V"), entities |-> {"vehicles", "alerts"},
            auth |-> FALSE, place |-> None, references |-> {11, 12}])

Operator(id, associated) == [id |-> id, associated |-> associated]
MCCorpus ==
    <<[feeds |-> <<[id |-> 21, spec |-> "gtfs", operator |-> None,
                    urls |-> [scheduled |-> Url("c", "http://c"),
                              trip_updates |-> Url("t", "http://t")]]>>,
       operators |-> <<Operator("o1", {22})>>],
      [feeds |-> <<[id |-> 22, spec |-> "gtfs", operator |-> None,
                    urls |-> [scheduled |-> Url("b", "http://B")]],
                   [id |-> 21, spec |-> "gtfs", operator |-> "o3",
                    urls |-> [scheduled |-> Url("a", "http://a")]]>>,
       operators |-> <<Operator("o3", {})>>],
      [feeds |-> <<[id |-> 23, spec |-> "gbfs", operator |-> None,
                    urls |-> [scheduled |-> Url("g", "http://g")]],
                   [id |-> 24, spec |-> "gtfs-rt", operator |-> None,
                    urls |-> [vehicles |-> Url("v", "http://v")]]>>,
       operators |-> <<Operator("o3", {22, 24})>>]>>

MCCurated ==
    {[feed |-> 1, catalog |-> "curated", auth |-> FALSE, place |-> None,
      references |-> {},
      urls |-> [scheduled |-> Url("a", "http://a#zip"),
                vehicles |-> Url(None, "/vehicles.pb")]]}

Keys == {"a", "b", "c", "g", "k", "t", "v", "x"}
MCHostOf == [k \in Keys |-> IF k \in {"t", "v"} THEN "realtime" ELSE k]
MCSibling == [k \in Keys |-> IF k \in {"t", "v"} THEN "realtime" ELSE None]

Up(modified) == [ok |-> TRUE, modified |-> modified]
Down(modified) == [ok |-> FALSE, modified |-> modified]
MCAnswers == [k \in Keys |->
    CASE k = "a" -> {Up(1), Down(0)}
      [] k = "c" -> {Up(2), Down(2)}
      [] k = "b" -> {Up(0), Down(0)}
      [] k = "v" -> {Up(0), Down(0)}
      [] OTHER   -> {Up(0)}]
=============================================================================
