--------------------------- MODULE EndpointChecks ---------------------------
(***************************************************************************)
(* The reachability checker: run_checks starts one coroutine per distinct  *)
(* URL, all at once, and each goes through _check_one: take the lock of    *)
(* the URL's host, sleep until the host has been left alone long enough,   *)
(* take one of the global slots, send HEAD and perhaps a ranged GET, give  *)
(* everything back, read the headers of the response.                      *)
(*                                                                         *)
(* A step is what a coroutine does between two awaits.  Time is counted in *)
(* ticks, and only as far as anything depends on it: since[h] stops        *)
(* counting at Delay.  A request ends when the server has answered or the  *)
(* client's timeout has raised; which of them is the server's choice.  The *)
(* redirects that the client follows by itself, to whatever host they      *)
(* name, are part of a request: nothing here knows of them.                *)
(***************************************************************************)
EXTENDS Integers, FiniteSets

CONSTANTS
    Targets,        \* the distinct URLs to request
    Hosts,
    HostOf,         \* host_of(url)
    Nobody,         \* no holder of a lock
    Cap,            \* settings.check_concurrency
    Delay           \* settings.check_per_host_delay_seconds, in ticks

ASSUME CheckAssumption ==
    /\ IsFiniteSet(Targets)
    /\ HostOf \in [Targets -> Hosts]
    /\ Nobody \notin Targets
    /\ Cap \in Nat \ {0}
    /\ Delay \in Nat

VARIABLES
    pc,             \* where each coroutine is
    lock,           \* lock[h]: the target that holds the host's lock
    slots,          \* what is left of the semaphore
    since,          \* since[h]: ticks since done(h), at most Delay
    result          \* the CheckResult, as ok, http error or exception

vars == <<pc, lock, slots, since, result>>

(* A coroutine ends with its result, with an exception that fails the run, *)
(* or because the run has failed.                                          *)
Over == {"done", "failed", "cancelled"}
PC == {"queued", "locked", "paced", "head", "get"} \cup Over

Sending(t) == pc[t] \in {"head", "get"}
InFlight == {t \in Targets : Sending(t)}
Ended == {t \in Targets : pc[t] \in Over}

Init ==
    /\ pc = [t \in Targets |-> "queued"]
    /\ lock = [h \in Hosts |-> Nobody]
    /\ slots = Cap
    /\ since = [h \in Hosts |-> Delay]
    /\ result = [t \in Targets |-> "none"]

(* Faulty variant: a lock per URL.                                         *)
TakeLockOfUrl(t) ==
    /\ pc[t] = "queued"
    /\ lock' = [lock EXCEPT ![HostOf[t]] = t]
    /\ pc' = [pc EXCEPT ![t] = "locked"]
    /\ UNCHANGED <<slots, since, result>>

TakeLock(t) ==
    /\ pc[t] = "queued"
    /\ lock[HostOf[t]] = Nobody
    /\ lock' = [lock EXCEPT ![HostOf[t]] = t]
    /\ pc' = [pc EXCEPT ![t] = "locked"]
    /\ UNCHANGED <<slots, since, result>>

(* The sleep ends once Delay has passed since the last done(host).         *)
Wait(t) ==
    /\ pc[t] = "locked"
    /\ since[HostOf[t]] >= Delay
    /\ pc' = [pc EXCEPT ![t] = "paced"]
    /\ UNCHANGED <<lock, slots, since, result>>

(* The slot is taken last, and HEAD goes out with it.                      *)
AcquireSlot(t) ==
    /\ pc[t] = "paced"
    /\ slots > 0
    /\ slots' = slots - 1
    /\ pc' = [pc EXCEPT ![t] = "head"]
    /\ UNCHANGED <<lock, since, result>>

(* A status in HEAD_REJECTED: the same URL again, with a ranged GET, at    *)
(* once, under the same lock and slot.                                     *)
HeadRejected(t) ==
    /\ pc[t] = "head"
    /\ pc' = [pc EXCEPT ![t] = "get"]
    /\ UNCHANGED <<lock, slots, since, result>>

(* Faulty variants: released in the except clause and again in finally;    *)
(* released where only a request that came back gets to, so that one cut   *)
(* off keeps its slot; the host not stamped.                               *)
ReleaseTwice(t, end) ==
    /\ slots' = slots + 2
    /\ since' = [since EXCEPT ![HostOf[t]] = 0]
    /\ lock' = [lock EXCEPT ![HostOf[t]] = Nobody]
    /\ pc' = [pc EXCEPT ![t] = end]

ReleaseUnlessCancelled(t, end) ==
    /\ slots' = IF end = "cancelled" THEN slots ELSE slots + 1
    /\ since' = [since EXCEPT ![HostOf[t]] = 0]
    /\ lock' = [lock EXCEPT ![HostOf[t]] = Nobody]
    /\ pc' = [pc EXCEPT ![t] = end]

(* The finally clause and the end of the async with, on every way out.     *)
Release(t, end) ==
    /\ slots' = slots + 1
    /\ since' = [since EXCEPT ![HostOf[t]] = 0]
    /\ lock' = [lock EXCEPT ![HostOf[t]] = Nobody]
    /\ pc' = [pc EXCEPT ![t] = end]

(* Any status to a GET, or one outside HEAD_REJECTED to a HEAD.            *)
Answer(t) ==
    /\ Sending(t)
    /\ \E verdict \in {"up", "http_error"} :
            result' = [result EXCEPT ![t] = verdict]
    /\ Release(t, "done")

(* Faulty variants of Raise: the clean-up is not in a finally clause, and  *)
(* leaves out the slot, or done(host).                                     *)
RaiseLeaksSlot(t) ==
    /\ Sending(t)
    /\ result' = [result EXCEPT ![t] = "exception"]
    /\ since' = [since EXCEPT ![HostOf[t]] = 0]
    /\ lock' = [lock EXCEPT ![HostOf[t]] = Nobody]
    /\ pc' = [pc EXCEPT ![t] = "done"]
    /\ UNCHANGED slots

RaiseWithoutDone(t) ==
    /\ Sending(t)
    /\ result' = [result EXCEPT ![t] = "exception"]
    /\ slots' = slots + 1
    /\ lock' = [lock EXCEPT ![HostOf[t]] = Nobody]
    /\ pc' = [pc EXCEPT ![t] = "done"]
    /\ UNCHANGED since

(* The timeout, a refused connection, a loop of redirects...: any          *)
(* exception of the request is a result too.                               *)
Raise(t) ==
    /\ Sending(t)
    /\ result' = [result EXCEPT ![t] = "exception"]
    /\ Release(t, "done")

(* The server has answered, and a header of its answer cannot be read: the *)
(* lines that read them come after the try, so the exception leaves        *)
(* _check_one and, through gather, run_checks.                             *)
Unreadable(t) ==
    /\ Sending(t)
    /\ Release(t, "failed")
    /\ UNCHANGED result

(* The run has failed, and asyncio.run cancels every coroutine that is not *)
(* over, wherever it waits.  Others may go on before their turn comes.     *)
RunFails == \E t \in Targets : pc[t] = "failed"

CancelQueued(t) ==
    /\ pc[t] = "queued"
    /\ pc' = [pc EXCEPT ![t] = "cancelled"]
    /\ UNCHANGED <<lock, slots, since>>

CancelLocked(t) ==
    /\ pc[t] \in {"locked", "paced"}
    /\ lock' = [lock EXCEPT ![HostOf[t]] = Nobody]
    /\ pc' = [pc EXCEPT ![t] = "cancelled"]
    /\ UNCHANGED <<slots, since>>

CancelSending(t) == Sending(t) /\ Release(t, "cancelled")

Cancel(t) ==
    /\ RunFails
    /\ CancelQueued(t) \/ CancelLocked(t) \/ CancelSending(t)
    /\ UNCHANGED result

Older(n) == IF n < Delay THEN n + 1 ELSE n

Tick ==
    /\ since' = [h \in Hosts |-> Older(since[h])]
    /\ UNCHANGED <<pc, lock, slots, result>>

Check(t) ==
    \/ TakeLock(t) \/ Wait(t) \/ AcquireSlot(t) \/ HeadRejected(t)
    \/ Answer(t) \/ Raise(t) \/ Unreadable(t) \/ Cancel(t)

Next == Tick \/ \E t \in Targets : Check(t)

Spec == Init /\ [][Next]_vars

(* The event loop runs every coroutine that can go on, every request ends  *)
(* (httpx.Timeout bounds it) and time passes.                              *)
Fairness == WF_vars(Tick) /\ \A t \in Targets : WF_vars(Check(t))
FairSpec == Spec /\ Fairness

-----------------------------------------------------------------------------
(* Properties                                                              *)

TypeOK ==
    /\ pc \in [Targets -> PC]
    /\ lock \in [Hosts -> Targets \cup {Nobody}]
    /\ slots \in 0 .. Cap
    /\ since \in [Hosts -> 0 .. Delay]
    /\ result \in [Targets -> {"none", "up", "http_error", "exception"}]

(* endpoint_checks.py:131 - "a task queued behind a busy host must not     *)
(* hold one of the global slots while it waits", and none leaks: the slots *)
(* that are gone are exactly the requests on the wire.                     *)
SlotsAreRequests == slots + Cardinality(InFlight) = Cap

(* Whatever the servers do, every coroutine comes to its end, and with a   *)
(* result unless the run fails.  endpoint_checks.py:145 says "One unusable *)
(* URL is a failed check, never a failed run": that is so of an exception  *)
(* of the request, not of one raised while its headers are read.           *)
EveryTargetAnswered ==
    <>(/\ Ended = Targets
       /\ RunFails \/ \A t \in Targets : result[t] # "none")

(* The traffic is what PoliteChecks promises.                              *)
Promise == INSTANCE PoliteChecks
            WITH inflight <- InFlight, ended <- Ended, rested <- since
ImplementsPoliteChecks == Promise!Spec
=============================================================================
