---------------------------- MODULE PoliteChecks ----------------------------
(***************************************************************************)
(* What the endpoint checker promises about its traffic, whatever locks,   *)
(* semaphores and sleeps it uses: every target is requested at most once,  *)
(* never more than Cap targets at a time, never two of one host, and never *)
(* one before its host has been left alone for Delay by the one before.    *)
(* A target's host is the one its URL names.  A target may be given up     *)
(* without a request.                                                      *)
(***************************************************************************)
EXTENDS Integers, FiniteSets

CONSTANTS Targets, Hosts, HostOf, Cap, Delay

VARIABLES
    inflight,       \* the targets that are being requested
    ended,          \* the targets that will not be requested any more
    rested          \* rested[h]: ticks since a target of h was last let go
                    \* of, at most Delay

vars == <<inflight, ended, rested>>

Init == inflight = {} /\ ended = {} /\ rested = [h \in Hosts |-> Delay]

Begin(t) ==
    /\ t \notin inflight \cup ended
    /\ \A u \in inflight : HostOf[u] # HostOf[t]
    /\ Cardinality(inflight) < Cap
    /\ rested[HostOf[t]] >= Delay
    /\ inflight' = inflight \cup {t}
    /\ UNCHANGED <<ended, rested>>

Finish(t) ==
    /\ t \in inflight
    /\ inflight' = inflight \ {t}
    /\ ended' = ended \cup {t}
    /\ rested' = [rested EXCEPT ![HostOf[t]] = 0]

GiveUp(t) ==
    /\ t \notin inflight
    /\ ended' = ended \cup {t}
    /\ UNCHANGED <<inflight, rested>>

Tick ==
    /\ rested' = [h \in Hosts |-> IF rested[h] < Delay THEN rested[h] + 1
                                  ELSE rested[h]]
    /\ UNCHANGED <<inflight, ended>>

Next == Tick \/ \E t \in Targets : Begin(t) \/ Finish(t) \/ GiveUp(t)

Spec == Init /\ [][Next]_vars
=============================================================================
