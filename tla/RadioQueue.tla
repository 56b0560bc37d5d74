------------------------------ MODULE RadioQueue ------------------------------
(***************************************************************************)
(* The radio queue of the coordinator: PriorityLock (api.py) and           *)
(* _async_radio_request (coordinator.py), which every command, status      *)
(* query and ReCom request goes through.                                   *)
(*                                                                         *)
(* One asyncio loop runs everything, so a step is the code between two     *)
(* awaits.  A request is one call of _async_radio_request; it can wait at  *)
(* two places: for the lock (stage "queued") and for the gateway's answer  *)
(* (stage "sending").  task.cancel() only marks the task or its future;    *)
(* the coroutine sees the CancelledError when the loop resumes it, and     *)
(* other requests may run in between.                                      *)
(***************************************************************************)
EXTENDS Integers

CONSTANTS Requests,      \* the calls of _async_radio_request
          Devices,
          DeviceOf,      \* the device each request addresses
          Priority,      \* PRIORITY_COMMAND < PRIORITY_QUERY < PRIORITY_BACKGROUND
          Owned,         \* the calls made by a task of the coordinator itself
          Droppable,     \* status checks, whose before_send may find them superseded
          MaxOutages,    \* bound: how often the gateway becomes unavailable
          MaxRemovals    \* bound: how often one device is removed

ASSUME RequestsAssumption ==
    /\ DeviceOf \in [Requests -> Devices]
    /\ Priority \in [Requests -> Nat]
    /\ Owned \subseteq Requests
    /\ Droppable \subseteq Requests

ASSUME BoundsAssumption == MaxOutages \in Nat /\ MaxRemovals \in Nat

VARIABLES
    locked,             \* PriorityLock._locked
    waiters,            \* PriorityLock._waiters: the requests with an entry in the heap
    ticket,             \* the entry's counter value
    counter,            \* PriorityLock._counter
    future,             \* the state of the future a queued request awaits
    stage,              \* where the coroutine is
    interrupted,        \* CancelledError is to be thrown at the next resumption
    seen,               \* the generations captured on entry
    gatewayAvailable,   \* _gateway_available
    unloaded,           \* _unloaded
    outageGeneration,   \* _outage_generation
    deviceGeneration,   \* _device_generations
    outcome,            \* how the call ended
    disturbed           \* history: queued, and its gateway or device went away meanwhile

lockVars    == <<locked, waiters, ticket, counter, future>>
gatewayVars == <<gatewayAvailable, unloaded, outageGeneration, deviceGeneration>>
callVars    == <<stage, interrupted, seen, outcome>>
vars        == <<lockVars, gatewayVars, callVars, disturbed>>

Stages   == {"new", "queued", "sending", "done"}
Futures  == {"none", "pending", "handed", "cancelled"}
\* "failed": rejected, timed out or connection lost, which end alike here.
Answers  == {"ok", "failed"}
Outcomes == Answers \cup {"none", "request_cancelled", "gateway_unavailable", "superseded",
                          "CancelledError", "ValueError"}
NoGeneration == [outage |-> 0, device |-> 0]
Generation == [outage : Nat, device : Nat]

TypeOK ==
    /\ locked \in BOOLEAN
    /\ waiters \subseteq Requests
    /\ ticket \in [Requests -> Nat]
    /\ counter \in Nat
    /\ future \in [Requests -> Futures]
    /\ stage \in [Requests -> Stages]
    /\ interrupted \subseteq Requests
    /\ seen \in [Requests -> Generation]
    /\ gatewayAvailable \in BOOLEAN
    /\ unloaded \in BOOLEAN
    /\ outageGeneration \in Nat
    /\ deviceGeneration \in [Devices -> Nat]
    /\ outcome \in [Requests -> Outcomes]
    /\ disturbed \subseteq Requests

Init ==
    /\ locked = FALSE
    /\ waiters = {}
    /\ ticket = [r \in Requests |-> 0]
    /\ counter = 0
    /\ future = [r \in Requests |-> "none"]
    /\ stage = [r \in Requests |-> "new"]
    /\ interrupted = {}
    /\ seen = [r \in Requests |-> NoGeneration]
    /\ gatewayAvailable = TRUE
    /\ unloaded = FALSE
    /\ outageGeneration = 0
    /\ deviceGeneration = [d \in Devices |-> 0]
    /\ outcome = [r \in Requests |-> "none"]
    /\ disturbed = {}

-------------------------------------------------------------------------------
(* PriorityLock                                                            *)

\* Variation: entries ordered by arrival alone.
BeforeByArrival(r, s) == ticket[r] < ticket[s]

\* The order of the heap: (priority, counter).
Before(r, s) == \/ Priority[r] < Priority[s]
                \/ Priority[r] = Priority[s] /\ ticket[r] < ticket[s]

Pending(r) == r \in waiters /\ future[r] = "pending"

Queued  == {r \in Requests : stage[r] = "queued"}

\* The request owns the slot: its PUT or GET is out, or release() chose it.
Owns(r) == \/ stage[r] = "sending"
           \/ stage[r] = "queued" /\ future[r] = "handed"

FastPath == ~locked /\ waiters = {}

\* Variation: release() pops one entry and frees the lock if that one is done.
ReleaseFirstOnly ==
    \/ /\ waiters = {}
       /\ locked' = FALSE
       /\ UNCHANGED <<waiters, future>>
    \/ \E next \in waiters :
          /\ \A r \in waiters \ {next} : Before(next, r)
          /\ waiters' = waiters \ {next}
          /\ future' = IF Pending(next) THEN [future EXCEPT ![next] = "handed"] ELSE future
          /\ locked' = Pending(next)

\* release(): pop entries until one has a future that is not done.  The
\* entries of cancelled waiters in front of it leave the heap with it.
Release ==
    \/ /\ \A r \in waiters : future[r] # "pending"
       /\ locked' = FALSE
       /\ waiters' = {}
       /\ UNCHANGED future
    \/ \E next \in waiters :
          /\ Pending(next)
          /\ \A r \in waiters \ {next} : Pending(r) => Before(next, r)
          /\ waiters' = {r \in waiters : Before(next, r)}
          /\ future' = [future EXCEPT ![next] = "handed"]
          /\ UNCHANGED locked

-------------------------------------------------------------------------------
(* _async_radio_request                                                    *)

\* _check_request_valid against a captured generation.
RequestCancelled(r, g) == unloaded \/ g.device # deviceGeneration[DeviceOf[r]]

\* Variation: only the present availability counts, not an outage in between.
UnreachableNow(g) == ~gatewayAvailable

Unreachable(g) == ~gatewayAvailable \/ g.outage # outageGeneration
Valid(r, g) == ~RequestCancelled(r, g) /\ ~Unreachable(g)
Refusal(r, g) == IF RequestCancelled(r, g) THEN "request_cancelled"
                                           ELSE "gateway_unavailable"

CurrentGeneration(r) == [outage |-> outageGeneration,
                         device |-> deviceGeneration[DeviceOf[r]]]

\* The call returns or raises; its locals are gone.
End(r, how) == /\ stage' = [stage EXCEPT ![r] = "done"]
               /\ outcome' = [outcome EXCEPT ![r] = how]
               /\ interrupted' = interrupted \ {r}
               /\ seen' = [seen EXCEPT ![r] = NoGeneration]

\* before_send() and the start of the HTTP request.
Send(r) == /\ stage' = [stage EXCEPT ![r] = "sending"]
           /\ UNCHANGED <<outcome, interrupted>>

\* The call up to its first suspension.
Refuse(r) ==
    /\ stage[r] = "new"
    /\ ~Valid(r, CurrentGeneration(r))
    /\ End(r, Refusal(r, CurrentGeneration(r)))
    /\ UNCHANGED <<lockVars, gatewayVars, disturbed>>

\* The slot is free: acquire() returns without suspending.
SendAtOnce(r) ==
    /\ stage[r] = "new"
    /\ Valid(r, CurrentGeneration(r))
    /\ FastPath
    /\ \/ /\ locked' = TRUE
          /\ seen' = [seen EXCEPT ![r] = CurrentGeneration(r)]
          /\ Send(r)
       \/ /\ r \in Droppable
          /\ UNCHANGED locked     \* taken and given back within the step
          /\ End(r, "superseded")
    /\ UNCHANGED <<waiters, ticket, counter, future, gatewayVars, disturbed>>

Enqueue(r) ==
    /\ stage[r] = "new"
    /\ Valid(r, CurrentGeneration(r))
    /\ ~FastPath
    /\ seen' = [seen EXCEPT ![r] = CurrentGeneration(r)]
    /\ stage' = [stage EXCEPT ![r] = "queued"]
    /\ waiters' = waiters \cup {r}
    /\ ticket' = [ticket EXCEPT ![r] = counter]
    /\ counter' = counter + 1
    /\ future' = [future EXCEPT ![r] = "pending"]
    /\ UNCHANGED <<locked, interrupted, outcome, gatewayVars, disturbed>>

\* The loop resumes a waiter that release() chose.
WakeOwner(r) ==
    /\ stage[r] = "queued" /\ future[r] = "handed" /\ r \notin interrupted
    /\ \/ /\ Valid(r, seen[r])
          /\ Send(r)
          /\ UNCHANGED <<locked, waiters, future, seen>>
       \/ /\ Valid(r, seen[r])
          /\ r \in Droppable
          /\ Release
          /\ End(r, "superseded")
       \/ /\ ~Valid(r, seen[r])
          /\ Release
          /\ End(r, Refusal(r, seen[r]))
    /\ UNCHANGED <<ticket, counter, gatewayVars, disturbed>>

\* Variation: the cancelled owner forgets to hand the lock on.
WakeCancelledOwnerKeepsLock(r) ==
    /\ stage[r] = "queued" /\ future[r] = "handed" /\ r \in interrupted
    /\ End(r, "CancelledError")
    /\ UNCHANGED <<lockVars, gatewayVars, disturbed>>

\* acquire()'s except branch, chosen and cancelled before it ran.
WakeCancelledOwner(r) ==
    /\ stage[r] = "queued" /\ future[r] = "handed" /\ r \in interrupted
    /\ Release
    /\ End(r, "CancelledError")
    /\ UNCHANGED <<ticket, counter, gatewayVars, disturbed>>

\* acquire()'s except branch, cancelled while waiting.  list.remove raises
\* ValueError when release() has already popped the entry.
WakeCancelled(r) ==
    /\ stage[r] = "queued" /\ future[r] = "cancelled"
    /\ waiters' = waiters \ {r}
    /\ End(r, IF r \in waiters THEN "CancelledError" ELSE "ValueError")
    /\ UNCHANGED <<locked, ticket, counter, future, gatewayVars, disturbed>>

\* Variation: the generation is counted downwards.
GoUnavailableDownwards ==
    /\ gatewayAvailable' = FALSE
    /\ outageGeneration' = IF gatewayAvailable THEN outageGeneration - 1
                                               ELSE outageGeneration

\* _set_gateway_available(False).
GoUnavailable ==
    /\ gatewayAvailable' = FALSE
    /\ outageGeneration' = IF gatewayAvailable THEN outageGeneration + 1
                                               ELSE outageGeneration
OutageAllowed == gatewayAvailable => outageGeneration < MaxOutages

\* The gateway answers, or the request fails or times out.
Answer(r) ==
    /\ stage[r] = "sending" /\ r \notin interrupted
    /\ \E answer \in Answers :
          End(r, IF answer = "ok" /\ RequestCancelled(r, seen[r])
                 THEN "request_cancelled" ELSE answer)
    /\ Release
    /\ UNCHANGED <<ticket, counter, gatewayVars, disturbed>>

\* HTTP 401: _request_error also calls _handle_auth_failure.
AnswerUnauthorized(r) ==
    /\ stage[r] = "sending" /\ r \notin interrupted
    /\ OutageAllowed
    /\ GoUnavailable
    /\ disturbed' = disturbed \cup (IF gatewayAvailable THEN Queued ELSE {})
    /\ End(r, "failed")
    /\ Release
    /\ UNCHANGED <<ticket, counter, unloaded, deviceGeneration>>

\* CancelledError at the await of the request.
Abandon(r) ==
    /\ stage[r] = "sending" /\ r \in interrupted
    /\ Release
    /\ End(r, "CancelledError")
    /\ UNCHANGED <<ticket, counter, gatewayVars, disturbed>>

-------------------------------------------------------------------------------
(* What happens around the requests                                        *)

\* task.cancel() of the tasks that run the requests S.
CancelTasks(S) ==
    /\ future' = [r \in Requests |-> IF r \in S /\ stage[r] = "queued" /\ future[r] = "pending"
                                     THEN "cancelled" ELSE future[r]]
    /\ interrupted' = interrupted \cup {r \in S : Owns(r)}

\* A caller gives up: an action call is aborted, a script is stopped.
Cancel(r) ==
    /\ stage[r] \in {"queued", "sending"}
    /\ CancelTasks({r})
    /\ UNCHANGED <<locked, waiters, ticket, counter, stage, seen, outcome,
                   gatewayVars, disturbed>>

Outage ==
    /\ gatewayAvailable
    /\ OutageAllowed
    /\ GoUnavailable
    /\ disturbed' = disturbed \cup Queued
    /\ UNCHANGED <<lockVars, callVars, unloaded, deviceGeneration>>

\* _set_gateway_available(True).
Recover ==
    /\ ~gatewayAvailable /\ ~unloaded
    /\ gatewayAvailable' = TRUE
    /\ UNCHANGED <<lockVars, callVars, unloaded, outageGeneration, deviceGeneration, disturbed>>

\* async_forget_device.
Forget(d) ==
    /\ deviceGeneration[d] < MaxRemovals
    /\ deviceGeneration' = [deviceGeneration EXCEPT ![d] = @ + 1]
    /\ disturbed' = disturbed \cup {r \in Queued : DeviceOf[r] = d}
    /\ UNCHANGED <<lockVars, callVars, gatewayAvailable, unloaded, outageGeneration>>

\* async_unload, up to its gather.
Unload ==
    /\ ~unloaded
    /\ unloaded' = TRUE
    /\ GoUnavailable
    /\ CancelTasks(Owned)
    /\ disturbed' = disturbed \cup Queued
    /\ UNCHANGED <<locked, waiters, ticket, counter, stage, seen, outcome, deviceGeneration>>

-------------------------------------------------------------------------------
Start(r)  == Refuse(r) \/ SendAtOnce(r) \/ Enqueue(r)
Wake(r)   == WakeOwner(r) \/ WakeCancelledOwner(r) \/ WakeCancelled(r)
Finish(r) == Answer(r) \/ AnswerUnauthorized(r) \/ Abandon(r)

Environment == Outage \/ Recover \/ (\E d \in Devices : Forget(d)) \/ Unload

Next == \/ \E r \in Requests : Start(r) \/ Wake(r) \/ Finish(r) \/ Cancel(r)
        \/ Environment

\* The loop runs what is ready, and every HTTP request ends by its own timeout.
Fairness == \A r \in Requests : WF_vars(Wake(r)) /\ WF_vars(Finish(r))

Spec == Init /\ [][Next]_vars

FairSpec == Spec /\ Fairness

-------------------------------------------------------------------------------
(* Properties                                                              *)

\* The lock is held exactly while one request owns it: there is never a
\* second one on the radio, and no order of cancellations, answers and
\* hand-overs leaves the lock held by nobody, which would block every later
\* request (PriorityLock.acquire, its except branch, and release).
SlotOwnedOnce ==
    /\ locked <=> \E r \in Requests : Owns(r)
    /\ \A r, s \in Requests : Owns(r) /\ Owns(s) => r = s

\* Nothing is sent that waited through an outage, a removal of its device or
\* the unload, however short it was: the generations captured on entry must
\* still be the present ones (_check_request_valid after acquire).
SentUndisturbed ==
    [][\A r \in Requests : stage[r] # "sending" /\ stage'[r] = "sending"
                              => r \notin disturbed]_vars

\* The futures, the lazily cleaned heap and the two-step hand-over amount to
\* one slot that is passed by priority and order of arrival, and never free
\* while a live request waits.
Slot == INSTANCE RadioSlot
            WITH holder  <- {r \in Requests : Owns(r)},
                 line    <- {r \in Requests : stage[r] = "queued" /\ future[r] = "pending"},
                 arrival <- ticket

ImplementsRadioSlot == Slot!SlotSpec

\* Every request that waits or is on the radio ends: with an answer or an error.
EveryRequestEnds ==
    \A r \in Requests : stage[r] \in {"queued", "sending"} ~> stage[r] = "done"

\* What tests/test_api.py says of a cancelled waiter: it ends with CancelledError.
CancelledWaiterSeesCancelledError ==
    \A r \in Requests : outcome[r] # "ValueError"
===============================================================================
