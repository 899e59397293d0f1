-------------------------- MODULE TransitlandAtlas --------------------------
(***************************************************************************)
(* The transitland_atlas asset: read the DMFR corpus, from a checkout or   *)
(* file by file from GitHub, then make rows of it in two passes.           *)
(*                                                                         *)
(* Remotely each file is a coroutine of its own, at most Concurrency of    *)
(* them on the wire.  A file that cannot be had is an empty document; what *)
(* is not a network or JSON error (bytes that are no text) ends the asset. *)
(***************************************************************************)
EXTENDS Integers, Sequences, FiniteSets

CONSTANTS
    Corpus,         \* the DMFR documents, in the order of their paths
    Concurrency,
    None

Files == DOMAIN Corpus
EmptyDocument == [feeds |-> <<>>, operators |-> <<>>]

VARIABLES
    phase,
    state,          \* state[f]: how far the coroutine of a file is
    arrived,        \* the files in the order they were done with
    docs            \* what the documents turned out to be

vars == <<phase, state, arrived, docs>>

Init ==
    /\ phase = "start"
    /\ state = [f \in Files |-> "waiting"]
    /\ arrived = <<>>
    /\ docs = <<>>

(* read_local goes through the sorted paths and leaves out what it cannot  *)
(* read.                                                                   *)
ReadInOrder(lost) ==
    LET read[f \in 0 .. Len(Corpus)] ==
            IF f = 0 THEN <<>>
            ELSE IF f \in lost THEN read[f - 1]
            ELSE Append(read[f - 1], [file |-> f, dmfr |-> Corpus[f]])
    IN  read[Len(Corpus)]

ReadLocal ==
    /\ phase = "start"
    /\ phase' = "done"
    /\ \E lost \in SUBSET Files :
        /\ state' = [f \in Files |-> IF f \in lost THEN "lost" ELSE "read"]
        /\ docs' = ReadInOrder(lost)
    /\ UNCHANGED arrived

ReadTree ==
    /\ phase = "start"
    /\ phase' = "fetching"
    /\ UNCHANGED <<state, arrived, docs>>

OnTheWire == {f \in Files : state[f] = "on the wire"}

(* A semaphore wakes its waiters in the order they came.                   *)
Take(f) ==
    /\ phase = "fetching"
    /\ state[f] = "waiting"
    /\ \A g \in Files : g < f => state[g] # "waiting"
    /\ Cardinality(OnTheWire) < Concurrency
    /\ state' = [state EXCEPT ![f] = "on the wire"]
    /\ UNCHANGED <<phase, arrived, docs>>

Finish(f, outcome) ==
    /\ phase = "fetching"
    /\ state[f] = "on the wire"
    /\ state' = [state EXCEPT ![f] = outcome]
    /\ arrived' = Append(arrived, f)
    /\ UNCHANGED <<phase, docs>>

Document(f) ==
    [file |-> f, dmfr |-> IF state[f] = "read" THEN Corpus[f] ELSE EmptyDocument]

(* Faulty variant: the documents are taken as they come.                   *)
GatheredAsTheyCome == [i \in DOMAIN arrived |-> Document(arrived[i])]

(* gather returns the documents in the order of the paths.                 *)
Gathered == [f \in Files |-> Document(f)]

Gather ==
    /\ phase = "fetching"
    /\ Len(arrived) = Cardinality(Files)
    /\ docs' = Gathered
    /\ phase' = "done"
    /\ UNCHANGED <<state, arrived>>

Raise ==
    /\ phase \in {"start", "fetching"}
    /\ phase' = "failed"
    /\ UNCHANGED <<state, arrived, docs>>

(* The asset returns its rows, and its process is gone.                    *)
Exit ==
    /\ phase = "done"
    /\ phase' = "start"
    /\ state' = [f \in Files |-> "waiting"]
    /\ arrived' = <<>> /\ docs' = <<>>

Fetch(f) == Take(f) \/ Finish(f, "read") \/ Finish(f, "lost")
Step == ReadLocal \/ ReadTree \/ Gather \/ \E f \in Files : Fetch(f)
Next == Step \/ Raise

-----------------------------------------------------------------------------
(* build_operator_index: the link runs from an operator to its feeds, more *)
(* often than not from a different file.                                   *)

(* All elements of one kind of the documents, in their order.              *)
All(documents, kind) ==
    LET of[i \in 0 .. Len(documents)] ==
            IF i = 0 THEN <<>> ELSE of[i - 1] \o documents[i].dmfr[kind]
    IN  of[Len(documents)]

(* The first operator to claim a feed has it; a feed nobody claims may     *)
(* declare its own, and of several documents for that operator the last    *)
(* counts.                                                                 *)
OperatorOf(documents, id) ==
    LET ops    == All(documents, "operators")
        claims == {i \in DOMAIN ops : id \in ops[i].associated}
        feeds  == All(documents, "feeds")
        named  == {n \in (DOMAIN feeds) \X (DOMAIN ops) :
                    /\ feeds[n[1]].id = id
                    /\ feeds[n[1]].operator # None
                    /\ feeds[n[1]].operator = ops[n[2]].id}
        first  == {n \in named : \A m \in named : n[1] <= m[1]}
    IN  IF claims # {}
        THEN ops[CHOOSE i \in claims : \A j \in claims : i <= j]
        ELSE IF named # {}
        THEN ops[(CHOOSE n \in first : \A m \in first : m[2] <= n[2])[2]]
        ELSE None

UsableSpecs == {"gtfs", "gtfs-rt"}

(* Whether build_sources makes rows of a feed.                             *)
Usable(feed) == feed.spec \in UsableSpecs

-----------------------------------------------------------------------------
TypeOK ==
    /\ phase \in {"start", "fetching", "done", "failed"}
    /\ state \in [Files -> {"waiting", "on the wire", "read", "lost"}]
    /\ Cardinality(OnTheWire) <= Concurrency
    /\ {arrived[i] : i \in DOMAIN arrived} \subseteq Files
    /\ Len(arrived) <= Cardinality(Files)
=============================================================================
