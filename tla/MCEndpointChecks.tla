-------------------------- MODULE MCEndpointChecks --------------------------
(***************************************************************************)
(* Three hosts for two slots, one of the hosts with two URLs: a coroutine  *)
(* may have to wait for the lock, for the pause, and for a slot.           *)
(***************************************************************************)
EXTENDS EndpointChecks

CONSTANTS a1, a2, b1, c1, ha, hb, hc

MCTargets == {a1, a2, b1, c1}
MCHosts == {ha, hb, hc}
MCHostOf == [t \in Targets |-> IF t \in {a1, a2} THEN ha
                               ELSE IF t = b1 THEN hb ELSE hc]
=============================================================================
