------------------------ MODULE EndpointChecksProofs ------------------------
(***************************************************************************)
(* What holds of EndpointChecks for every set of URLs and hosts, every     *)
(* number of slots and every delay, whichever requests fail and whether or *)
(* not the run does.                                                       *)
(***************************************************************************)
EXTENDS EndpointChecks, FiniteSetTheorems, TLAPS

USE DEF PC, Over

-----------------------------------------------------------------------------
(* The invariant: whoever is past the lock of its host holds it, and a     *)
(* coroutine that has slept has slept enough, because nobody else of its   *)
(* host can have stamped it since.                                         *)

Holding(t) == pc[t] \in {"locked", "paced", "head", "get"}
Locking == \A t \in Targets : Holding(t) => lock[HostOf[t]] = t
Rested == \A t \in Targets : pc[t] = "paced" => since[HostOf[t]] >= Delay

Inv == TypeOK /\ SlotsAreRequests /\ Locking /\ Rested

(* The three kinds of step: one takes a slot, one gives it back, the       *)
(* others touch no slot.                                                   *)
Letting(t) == Answer(t) \/ Raise(t) \/ Unreadable(t)
                        \/ (RunFails /\ CancelSending(t) /\ UNCHANGED result)
Quitting(t) == RunFails /\ (CancelQueued(t) \/ CancelLocked(t))
                        /\ UNCHANGED result
Moving(t) == TakeLock(t) \/ Wait(t) \/ HeadRejected(t)

LEMMA Steps ==
    ASSUME NEW t \in Targets
    PROVE  Check(t) <=> Moving(t) \/ AcquireSlot(t) \/ Letting(t) \/ Quitting(t)
  BY DEF Check, Moving, Letting, Quitting, Cancel

LEMMA LettingReleases ==
    ASSUME TypeOK, NEW t \in Targets, Letting(t)
    PROVE  /\ Sending(t)
           /\ \E end \in Over : Release(t, end)
           /\ result' \in [Targets -> {"none", "up", "http_error", "exception"}]
<1>1. result \in [Targets -> {"none", "up", "http_error", "exception"}]
  BY DEF TypeOK
<1> QED
  BY <1>1 DEF Letting, Answer, Raise, Unreadable, CancelSending

LEMMA InFlightFinite ==
    /\ IsFiniteSet(InFlight)
    /\ Cardinality(InFlight) \in Nat
  BY CheckAssumption, FS_Subset, FS_CardinalityType DEF InFlight

LEMMA InFlightFiniteNext ==
    /\ IsFiniteSet(InFlight')
    /\ Cardinality(InFlight') \in Nat
  BY CheckAssumption, FS_Subset, FS_CardinalityType DEF InFlight

LEMMA OneMore ==
    ASSUME TypeOK, NEW t \in Targets, AcquireSlot(t)
    PROVE  /\ t \notin InFlight
           /\ InFlight' = InFlight \cup {t}
           /\ Cardinality(InFlight') = Cardinality(InFlight) + 1
           /\ Ended' = Ended
<1>1. t \notin InFlight /\ InFlight' = InFlight \cup {t} /\ Ended' = Ended
  BY DEF AcquireSlot, InFlight, Ended, Sending, TypeOK
<1> QED
  BY <1>1, InFlightFinite, FS_AddElement

LEMMA OneLess ==
    ASSUME TypeOK, NEW t \in Targets, Letting(t)
    PROVE  /\ t \in InFlight
           /\ InFlight' = InFlight \ {t}
           /\ Cardinality(InFlight') = Cardinality(InFlight) - 1
           /\ Ended' = Ended \cup {t}
<1>1. /\ t \in InFlight /\ InFlight' = InFlight \ {t}
      /\ Ended' = Ended \cup {t}
  BY LettingReleases DEF Release, InFlight, Ended, Sending, TypeOK
<1> QED
  BY <1>1, InFlightFinite, FS_RemoveElement

LEMMA OthersQuit ==
    ASSUME TypeOK, NEW t \in Targets, Quitting(t)
    PROVE  /\ t \notin InFlight
           /\ InFlight' = InFlight
           /\ Ended' = Ended \cup {t}
           /\ UNCHANGED <<slots, since>>
<1>1. CASE CancelQueued(t)
  BY <1>1 DEF CancelQueued, InFlight, Ended, Sending, TypeOK
<1>2. CASE CancelLocked(t)
  BY <1>2 DEF CancelLocked, InFlight, Ended, Sending, TypeOK
<1> QED
  BY <1>1, <1>2 DEF Quitting

LEMMA NoMoreNoLess ==
    ASSUME TypeOK, NEW t \in Targets, Moving(t)
    PROVE  InFlight' = InFlight /\ Ended' = Ended /\ UNCHANGED <<slots, since>>
  BY DEF Moving, TakeLock, Wait, HeadRejected, InFlight, Ended, Sending, TypeOK

LEMMA Aging == ASSUME NEW f \in [Hosts -> 0 .. Delay]
               PROVE  [h \in Hosts |-> Older(f[h])] \in [Hosts -> 0 .. Delay]
  BY CheckAssumption DEF Older

LEMMA InvInductive == Inv /\ [Next]_vars => Inv'
<1> SUFFICES ASSUME Inv, [Next]_vars PROVE Inv'
  OBVIOUS
<1> USE CheckAssumption DEF Inv
<1>0. /\ pc \in [Targets -> PC] /\ lock \in [Hosts -> Targets \cup {Nobody}]
      /\ slots \in 0 .. Cap /\ since \in [Hosts -> 0 .. Delay]
      /\ result \in [Targets -> {"none", "up", "http_error", "exception"}]
      /\ Locking /\ TypeOK /\ Rested
  BY DEF TypeOK
<1>1. ASSUME NEW t \in Targets, TakeLock(t) PROVE Inv'
  <2>1. TypeOK'
    BY <1>0, <1>1 DEF TakeLock, TypeOK
  <2>2. Locking'
    BY <1>0, <1>1 DEF TakeLock, Locking, Holding
  <2>3. Rested'
    BY <1>0, <1>1 DEF TakeLock, Rested
  <2> QED
    BY <1>0, <1>1, <2>1, <2>2, <2>3, NoMoreNoLess DEF SlotsAreRequests, Moving
<1>2. ASSUME NEW t \in Targets, Wait(t) PROVE Inv'
  <2>1. TypeOK'
    BY <1>0, <1>2 DEF Wait, TypeOK
  <2>2. Locking'
    BY <1>0, <1>2 DEF Wait, Locking, Holding
  <2>3. Rested'
    BY <1>0, <1>2 DEF Wait, Rested
  <2> QED
    BY <1>0, <1>2, <2>1, <2>2, <2>3, NoMoreNoLess DEF SlotsAreRequests, Moving
<1>3. ASSUME NEW t \in Targets, HeadRejected(t) PROVE Inv'
  <2>1. TypeOK'
    BY <1>0, <1>3 DEF HeadRejected, TypeOK
  <2>2. Locking'
    BY <1>0, <1>3 DEF HeadRejected, Locking, Holding
  <2>3. Rested'
    BY <1>0, <1>3 DEF HeadRejected, Rested
  <2> QED
    BY <1>0, <1>3, <2>1, <2>2, <2>3, NoMoreNoLess DEF SlotsAreRequests, Moving
<1>4. ASSUME NEW t \in Targets, AcquireSlot(t) PROVE Inv'
  <2>1. TypeOK'
    BY <1>0, <1>4 DEF AcquireSlot, TypeOK
  <2>2. Locking'
    BY <1>0, <1>4 DEF AcquireSlot, Locking, Holding
  <2>3. Rested'
    BY <1>0, <1>4 DEF AcquireSlot, Rested
  <2>4. SlotsAreRequests'
    <3>1. slots' = slots - 1 /\ slots \in Int
      BY <1>0, <1>4 DEF AcquireSlot
    <3>2. Cardinality(InFlight') = Cardinality(InFlight) + 1
      BY <1>0, <1>4, OneMore
    <3>3. slots + Cardinality(InFlight) = Cap /\ Cardinality(InFlight) \in Nat
      BY InFlightFinite DEF SlotsAreRequests
    <3>4. slots' + Cardinality(InFlight') = Cap
      BY <3>1, <3>2, <3>3
    <3> QED
      BY <3>4 DEF SlotsAreRequests
  <2> QED
    BY <2>1, <2>2, <2>3, <2>4
<1>5. ASSUME NEW t \in Targets, Letting(t) PROVE Inv'
  <2>1. PICK end \in Over : Release(t, end)
    BY <1>0, <1>5, LettingReleases
  <2>2. /\ Sending(t)
        /\ result' \in [Targets -> {"none", "up", "http_error", "exception"}]
    BY <1>0, <1>5, LettingReleases
  <2>3. SlotsAreRequests'
    <3>1. slots' = slots + 1 /\ slots \in Int
      BY <1>0, <2>1 DEF Release
    <3>2. Cardinality(InFlight') = Cardinality(InFlight) - 1
      BY <1>0, <1>5, OneLess
    <3>3. slots + Cardinality(InFlight) = Cap /\ Cardinality(InFlight) \in Nat
      BY InFlightFinite DEF SlotsAreRequests
    <3>4. slots' + Cardinality(InFlight') = Cap
      BY <3>1, <3>2, <3>3
    <3> QED
      BY <3>4 DEF SlotsAreRequests
  <2>4. slots' \in 0 .. Cap
    BY <1>0, <2>1, <2>3, InFlightFiniteNext DEF Release, SlotsAreRequests
  <2>5. TypeOK'
    <3>1. pc' \in [Targets -> PC]
      BY <1>0, <2>1 DEF Release
    <3>2. lock' \in [Hosts -> Targets \cup {Nobody}]
      BY <1>0, <2>1 DEF Release
    <3>3. since' \in [Hosts -> 0 .. Delay]
      BY <1>0, <2>1 DEF Release
    <3> QED
      BY <2>2, <2>4, <3>1, <3>2, <3>3 DEF TypeOK
  <2>6. Locking'
    BY <1>0, <2>1, <2>2 DEF Release, Sending, Locking, Holding
  (* No other coroutine of t's host can be past its sleep: t has the lock. *)
  <2>7. Rested'
    <3> SUFFICES ASSUME NEW u \in Targets, pc'[u] = "paced"
                 PROVE  since'[HostOf[u]] >= Delay
      BY DEF Rested
    <3>1. u # t /\ pc[u] = "paced"
      BY <1>0, <2>1 DEF Release
    <3>2. HostOf[u] # HostOf[t]
      BY <1>0, <2>2, <3>1 DEF Locking, Holding, Sending
    <3>3. since'[HostOf[u]] = since[HostOf[u]]
      BY <1>0, <2>1, <3>2 DEF Release
    <3> QED
      BY <1>0, <3>1, <3>3 DEF Rested
  <2> QED
    BY <2>3, <2>5, <2>6, <2>7
<1>6. ASSUME NEW t \in Targets, Quitting(t) PROVE Inv'
  <2>1. SlotsAreRequests'
    BY <1>0, <1>6, OthersQuit DEF SlotsAreRequests
  <2>2. CASE CancelQueued(t)
    <3>1. TypeOK' /\ Locking' /\ Rested'
      BY <1>0, <1>6, <2>2
      DEF CancelQueued, Quitting, TypeOK, Locking, Holding, Rested
    <3> QED
      BY <2>1, <3>1
  <2>3. CASE CancelLocked(t)
    <3>1. TypeOK'
      BY <1>0, <1>6, <2>3 DEF CancelLocked, Quitting, TypeOK
    <3>2. Locking'
      BY <1>0, <2>3 DEF CancelLocked, Locking, Holding
    <3>3. Rested'
      BY <1>0, <2>3 DEF CancelLocked, Rested
    <3> QED
      BY <2>1, <3>1, <3>2, <3>3
  <2> QED
    BY <1>6, <2>2, <2>3 DEF Quitting
<1>7. CASE Tick
  <2>1. TypeOK'
    BY <1>0, <1>7, Aging DEF Tick, TypeOK
  <2>2. Rested'
    <3> SUFFICES ASSUME NEW t \in Targets, pc[t] = "paced"
                 PROVE  since'[HostOf[t]] >= Delay
      BY <1>7 DEF Rested, Tick
    <3>1. HostOf[t] \in Hosts /\ since[HostOf[t]] >= Delay
      BY <1>0 DEF Rested
    <3>2. since[HostOf[t]] \in 0 .. Delay
      BY <1>0, <3>1
    <3>3. since'[HostOf[t]] = since[HostOf[t]]
      BY <1>7, <3>1, <3>2 DEF Tick, Older
    <3> QED
      BY <3>1, <3>3
  <2> QED
    BY <1>0, <1>7, <2>1, <2>2 DEF Tick, SlotsAreRequests, InFlight, Sending,
       Locking, Holding
<1>8. CASE UNCHANGED vars
  BY <1>8 DEF vars, TypeOK, SlotsAreRequests, InFlight, Sending, Locking,
     Holding, Rested
<1>9. ASSUME NEW t \in Targets, Check(t) PROVE Inv'
  BY <1>1, <1>2, <1>3, <1>4, <1>5, <1>6, <1>9, Steps DEF Moving
<1> QED
  BY <1>7, <1>8, <1>9 DEF Next

LEMMA InvHolds == Spec => []Inv
<1>1. Init => Inv
  <2> SUFFICES ASSUME Init PROVE Inv
    OBVIOUS
  <2>1. TypeOK /\ Locking /\ Rested
    BY CheckAssumption DEF Init, TypeOK, Locking, Holding, Rested
  <2>2. InFlight = {}
    BY DEF Init, InFlight, Sending
  <2> QED
    BY <2>1, <2>2, FS_EmptySet, CheckAssumption
    DEF Inv, SlotsAreRequests, Init
<1> QED
  BY <1>1, InvInductive, PTL DEF Spec

(* Every variable stays in its domain: the semaphore never goes below zero *)
(* and is never released above the number of slots there are.              *)
THEOREM TypeCorrect == Spec => []TypeOK
  BY InvHolds, PTL DEF Inv

(* However requests end, the slots that are gone are the requests on the   *)
(* wire: a coroutine queued for its host holds none, and none leaks, not   *)
(* even when the run fails and the coroutines are cancelled.               *)
THEOREM NoSlotLeaks == Spec => []SlotsAreRequests
  BY InvHolds, PTL DEF Inv

(* With its locks, slots and sleeps the checker implements PoliteChecks:   *)
(* never two URLs of one host at a time, never more than Cap, each once,   *)
(* and none before its host has been left alone for Delay by the last.     *)
THEOREM TrafficIsPolite == Spec => ImplementsPoliteChecks
<1>1. Init => Promise!Init
  BY DEF Init, Promise!Init, InFlight, Ended, Sending
<1>2. Inv /\ [Next]_vars => [Promise!Next]_(Promise!vars)
  <2> SUFFICES ASSUME Inv, [Next]_vars
               PROVE  [Promise!Next]_(Promise!vars)
    OBVIOUS
  <2> USE DEF Inv
  <2>1. ASSUME NEW t \in Targets, AcquireSlot(t) PROVE Promise!Next
    <3>1. t \notin InFlight \cup Ended
      BY <2>1 DEF AcquireSlot, InFlight, Ended, Sending
    <3>2. \A u \in InFlight : HostOf[u] # HostOf[t]
      BY <2>1 DEF AcquireSlot, InFlight, Sending, Locking, Holding
    <3>3. Cardinality(InFlight) < Cap
      <4>1. slots > 0 /\ slots \in Int
        BY <2>1 DEF AcquireSlot, TypeOK
      <4>2. slots + Cardinality(InFlight) = Cap
        BY DEF SlotsAreRequests
      <4> QED
        BY <4>1, <4>2, InFlightFinite
    <3>4. InFlight' = InFlight \cup {t} /\ Ended' = Ended
      BY <2>1, OneMore
    <3>5. since[HostOf[t]] >= Delay /\ since' = since
      BY <2>1 DEF AcquireSlot, Rested
    <3> QED
      (* The instance has a Cardinality of its own, with the same body.    *)
      <4>0. Promise!Cardinality(InFlight) = Cardinality(InFlight)
        BY DEF Promise!Cardinality, Cardinality
      <4>1. Promise!Begin(t)
        BY <3>1, <3>2, <3>3, <3>4, <3>5, <4>0 DEF Promise!Begin
      <4> QED
        BY <4>1 DEF Promise!Next
  <2>2. ASSUME NEW t \in Targets, Letting(t) PROVE Promise!Next
    <3>1. t \in InFlight /\ InFlight' = InFlight \ {t} /\ Ended' = Ended \cup {t}
      BY <2>2, OneLess
    <3>2. since' = [since EXCEPT ![HostOf[t]] = 0]
      BY <2>2, LettingReleases DEF Release
    <3>3. Promise!Finish(t)
      BY <3>1, <3>2 DEF Promise!Finish
    <3> QED
      BY <3>3 DEF Promise!Next
  <2>3. ASSUME NEW t \in Targets, Quitting(t) PROVE Promise!Next
    BY <2>3, OthersQuit DEF Promise!Next, Promise!GiveUp
  <2>4. ASSUME NEW t \in Targets, Moving(t) PROVE UNCHANGED Promise!vars
    BY <2>4, NoMoreNoLess DEF Promise!vars
  <2>5. CASE Tick
    <3>1. InFlight' = InFlight /\ Ended' = Ended
      BY <2>5 DEF Tick, InFlight, Ended, Sending
    <3>2. Promise!Tick
      BY <2>5, <3>1 DEF Tick, Older, Promise!Tick
    <3> QED
      BY <3>2 DEF Promise!Next
  <2>6. CASE UNCHANGED vars
    BY <2>6 DEF vars, Promise!vars, InFlight, Ended, Sending
  <2> QED
    BY <2>1, <2>2, <2>3, <2>4, <2>5, <2>6, Steps DEF Next
<1> QED
  BY <1>1, <1>2, InvHolds, PTL DEF Spec, ImplementsPoliteChecks, Promise!Spec
=============================================================================
