--------------------------- MODULE RadioQueueProofs ---------------------------
(***************************************************************************)
(* Proofs about RadioQueue, for any number of requests, devices, outages   *)
(* and removals.                                                           *)
(***************************************************************************)
EXTENDS RadioQueue, TLAPS

-------------------------------------------------------------------------------
(* The inductive invariant                                                 *)

\* The heap holds queued requests only,
HeapOfQueued == \A r \in waiters : stage[r] = "queued" /\ future[r] \in {"pending", "cancelled"}

\* and every request that still waits;
HeapComplete == \A r \in Requests : stage[r] = "queued" /\ future[r] = "pending" => r \in waiters

FutureUnused == \A r \in Requests : stage[r] = "new" => future[r] = "none"

\* it is empty while the lock is free.
FreeMeansEmpty == ~locked => waiters = {}

SlotInv == SlotOwnedOnce /\ HeapOfQueued /\ HeapComplete /\ FutureUnused /\ FreeMeansEmpty

\* Counter values grow in the order of arrival.
TicketInv == \A r \in Requests : stage[r] = "queued" => ticket[r] < counter

\* A queued request remembers generations that are not ahead of the present
\* ones, and older than them once it has been disturbed.
GenerationInv ==
    \A r \in Requests :
        /\ stage[r] = "new" => r \notin disturbed
        /\ stage[r] = "queued" =>
              /\ seen[r].outage <= outageGeneration
              /\ seen[r].device <= deviceGeneration[DeviceOf[r]]
              /\ r \in disturbed => \/ unloaded
                                    \/ seen[r].outage < outageGeneration
                                    \/ seen[r].device < deviceGeneration[DeviceOf[r]]

-------------------------------------------------------------------------------
(* Type correctness                                                        *)

\* release() chooses a waiter and keeps the types of the lock's state.
LEMMA ReleaseType ==
    ASSUME TypeOK, Release
    PROVE  /\ locked' \in BOOLEAN
           /\ waiters' \subseteq Requests
           /\ future' \in [Requests -> Futures]
  BY DEF TypeOK, Release, Pending, Before, Futures

LEMMA EndType ==
    ASSUME TypeOK, NEW r \in Requests, NEW how \in Outcomes, End(r, how)
    PROVE  /\ stage' \in [Requests -> Stages]
           /\ outcome' \in [Requests -> Outcomes]
           /\ interrupted' \subseteq Requests
           /\ seen' \in [Requests -> Generation]
  BY DEF TypeOK, End, Stages, NoGeneration, Generation

LEMMA GenerationType ==
    ASSUME TypeOK, NEW r \in Requests
    PROVE  CurrentGeneration(r) \in Generation
  BY RequestsAssumption DEF TypeOK, CurrentGeneration, Generation

LEMMA CancelType ==
    ASSUME TypeOK, NEW S \in SUBSET Requests, CancelTasks(S)
    PROVE  /\ future' \in [Requests -> Futures]
           /\ interrupted' \subseteq Requests
  BY DEF TypeOK, CancelTasks, Futures

LEMMA UnavailableType ==
    ASSUME TypeOK, GoUnavailable
    PROVE  gatewayAvailable' \in BOOLEAN /\ outageGeneration' \in Nat
<1>1. outageGeneration \in Nat
  BY DEF TypeOK
<1>2. outageGeneration' \in {outageGeneration, outageGeneration + 1}
  BY Zenon DEF GoUnavailable
<1>3. outageGeneration' \in Nat
  BY <1>1, <1>2
<1>4. gatewayAvailable' \in BOOLEAN
  BY Zenon DEF GoUnavailable
<1>5. QED
  BY <1>3, <1>4

LEMMA StartType ==
    ASSUME TypeOK, NEW r \in Requests, Start(r)
    PROVE  TypeOK'
<1> USE DEF lockVars, gatewayVars
<1>1. CASE Refuse(r)
  <2>1. Refusal(r, CurrentGeneration(r)) \in Outcomes
    BY DEF Refusal, Outcomes
  <2>2. QED
    BY <1>1, <2>1, EndType DEF Refuse, TypeOK
<1>2. CASE SendAtOnce(r)
  <2>1. "superseded" \in Outcomes
    BY DEF Outcomes
  <2>2. QED
    BY <1>2, <2>1, EndType, GenerationType DEF SendAtOnce, Send, TypeOK, Stages
<1>3. CASE Enqueue(r)
  BY <1>3, GenerationType DEF Enqueue, TypeOK, Stages, Futures
<1>4. QED
  BY <1>1, <1>2, <1>3 DEF Start

LEMMA WakeType ==
    ASSUME TypeOK, NEW r \in Requests, Wake(r)
    PROVE  TypeOK'
<1> USE DEF lockVars, gatewayVars
<1>0. /\ {"superseded", "CancelledError", "ValueError"} \subseteq Outcomes
      /\ Refusal(r, seen[r]) \in Outcomes
  BY DEF Outcomes, Refusal
<1>1. CASE WakeOwner(r)
  BY <1>0, <1>1, EndType, ReleaseType DEF WakeOwner, Send, TypeOK, Stages
<1>2. CASE WakeCancelledOwner(r)
  BY <1>0, <1>2, EndType, ReleaseType DEF WakeCancelledOwner, TypeOK
<1>3. CASE WakeCancelled(r)
  <2>1. (IF r \in waiters THEN "CancelledError" ELSE "ValueError") \in Outcomes
    BY <1>0
  <2>2. QED
    BY <1>3, <2>1, EndType DEF WakeCancelled, TypeOK
<1>4. QED
  BY <1>1, <1>2, <1>3 DEF Wake

LEMMA FinishType ==
    ASSUME TypeOK, NEW r \in Requests, Finish(r)
    PROVE  TypeOK'
<1> USE DEF lockVars, gatewayVars
<1>1. CASE Answer(r)
  <2>1. PICK answer \in Answers :
            End(r, IF answer = "ok" /\ RequestCancelled(r, seen[r])
                   THEN "request_cancelled" ELSE answer)
    BY <1>1 DEF Answer
  <2>2. (IF answer = "ok" /\ RequestCancelled(r, seen[r])
         THEN "request_cancelled" ELSE answer) \in Outcomes
    BY DEF Outcomes
  <2>3. QED
    BY <1>1, <2>1, <2>2, EndType, ReleaseType DEF Answer, TypeOK
<1>2. CASE AnswerUnauthorized(r)
  <2>1. "failed" \in Outcomes
    BY DEF Outcomes, Answers
  <2>2. QED
    BY <1>2, <2>1, EndType, ReleaseType, UnavailableType
       DEF AnswerUnauthorized, Queued, TypeOK
<1>3. CASE Abandon(r)
  <2>1. "CancelledError" \in Outcomes
    BY DEF Outcomes
  <2>2. QED
    BY <1>3, <2>1, EndType, ReleaseType DEF Abandon, TypeOK
<1>4. QED
  BY <1>1, <1>2, <1>3 DEF Finish

LEMMA SurroundingType ==
    ASSUME TypeOK, (\E r \in Requests : Cancel(r)) \/ Environment
    PROVE  TypeOK'
<1> USE DEF lockVars, gatewayVars, callVars
<1>1. ASSUME NEW r \in Requests, Cancel(r) PROVE TypeOK'
  BY <1>1, CancelType DEF Cancel, TypeOK
<1>2. CASE Outage
  BY <1>2, UnavailableType DEF Outage, Queued, TypeOK
<1>3. CASE Recover
  BY <1>3 DEF Recover, TypeOK
<1>4. ASSUME NEW d \in Devices, Forget(d) PROVE TypeOK'
  BY <1>4 DEF Forget, Queued, TypeOK
<1>5. CASE Unload
  BY <1>5, UnavailableType, CancelType, RequestsAssumption DEF Unload, Queued, TypeOK
<1>6. QED
  BY <1>1, <1>2, <1>3, <1>4, <1>5 DEF Environment

\* Every variable keeps its type.
THEOREM TypeCorrect == Spec => []TypeOK
<1>1. Init => TypeOK
  <2> SUFFICES ASSUME Init PROVE TypeOK
    OBVIOUS
  <2>1. locked \in BOOLEAN /\ gatewayAvailable \in BOOLEAN /\ unloaded \in BOOLEAN
    BY DEF Init
  <2>2. NoGeneration \in Generation
    BY DEF NoGeneration, Generation
  <2>3. /\ stage \in [Requests -> Stages]
        /\ future \in [Requests -> Futures]
        /\ outcome \in [Requests -> Outcomes]
        /\ seen \in [Requests -> Generation]
    BY <2>2 DEF Init, Stages, Futures, Outcomes
  <2>4. /\ ticket \in [Requests -> Nat] /\ counter \in Nat
        /\ deviceGeneration \in [Devices -> Nat] /\ outageGeneration \in Nat
    BY DEF Init
  <2>5. waiters \subseteq Requests /\ interrupted \subseteq Requests /\ disturbed \subseteq Requests
    BY DEF Init
  <2>6. QED
    BY <2>1, <2>3, <2>4, <2>5 DEF TypeOK
<1>2. TypeOK /\ [Next]_vars => TypeOK'
  <2> SUFFICES ASSUME TypeOK, [Next]_vars PROVE TypeOK'
    OBVIOUS
  <2>1. CASE Next
    BY <2>1, StartType, WakeType, FinishType, SurroundingType DEF Next
  <2>2. CASE UNCHANGED vars
    BY <2>2 DEF vars, lockVars, gatewayVars, callVars, TypeOK
  <2>3. QED
    BY <2>1, <2>2
<1>3. QED
  BY <1>1, <1>2, PTL DEF Spec

-------------------------------------------------------------------------------
(* One owner, and a heap that holds who waits                              *)

\* When the owner r ends and releases, the slot has the new owner release()
\* chose, or is free and nobody waits.
LEMMA ReleaseKeepsSlotInv ==
    ASSUME TypeOK, SlotInv, NEW r \in Requests, Owns(r), Release,
           stage' = [stage EXCEPT ![r] = "done"]
    PROVE  SlotInv'
<1> USE DEF SlotInv, SlotOwnedOnce, HeapOfQueued, HeapComplete, FutureUnused,
            FreeMeansEmpty, Owns
<1>1. locked /\ r \notin waiters /\ \A s \in Requests : Owns(s) => s = r
  BY DEF TypeOK
<1>2. \A s \in Requests : s # r => stage'[s] = stage[s]
  BY DEF TypeOK
<1>3. stage'[r] = "done"
  BY DEF TypeOK
<1>4. CASE /\ \A s \in waiters : future[s] # "pending"
           /\ locked' = FALSE
           /\ waiters' = {}
           /\ UNCHANGED future
  <2>1. \A s \in Requests : ~Owns(s)'
    BY <1>1, <1>2, <1>3, <1>4
  <2>2. \A s \in Requests : stage'[s] = "queued" => future'[s] # "pending"
    BY <1>2, <1>3, <1>4
  <2>3. \A s \in Requests : stage'[s] = "new" => future'[s] = "none"
    BY <1>2, <1>3, <1>4
  <2>4. QED
    BY <1>4, <2>1, <2>2, <2>3
<1>5. ASSUME NEW next \in waiters,
             Pending(next),
             \A s \in waiters \ {next} : Pending(s) => Before(next, s),
             waiters' = {s \in waiters : Before(next, s)},
             future' = [future EXCEPT ![next] = "handed"],
             UNCHANGED locked
      PROVE  SlotInv'
  <2>1. next \in Requests /\ next # r /\ stage[next] = "queued" /\ ~Before(next, next)
    <3>1. next \in Requests /\ next # r /\ stage[next] = "queued"
      BY <1>1 DEF TypeOK
    <3>2. ticket[next] \in Nat /\ Priority[next] \in Nat
      BY <3>1, RequestsAssumption DEF TypeOK
    <3>3. QED
      BY <3>1, <3>2 DEF Before
  <2>2. \A s \in Requests : future'[s] = IF s = next THEN "handed" ELSE future[s]
    BY <1>5 DEF TypeOK
  <2>3. \A s \in Requests : Owns(s)' <=> s = next
    BY <1>1, <1>2, <1>3, <2>1, <2>2
  <2>4. SlotOwnedOnce'
    BY <1>1, <1>5, <2>1, <2>3
  <2>5. \A s \in waiters' : s # next /\ s # r /\ s \in Requests
    BY <1>1, <1>5, <2>1 DEF TypeOK
  <2>6. HeapOfQueued'
    BY <1>2, <1>5, <2>2, <2>5
  <2>7. HeapComplete'
    BY <1>2, <1>3, <1>5, <2>2 DEF Pending
  <2>8. FutureUnused'
    BY <1>2, <1>3, <2>1, <2>2
  <2>9. FreeMeansEmpty'
    BY <1>1, <1>5
  <2>10. QED
    BY <2>4, <2>6, <2>7, <2>8, <2>9
<1>6. QED
  BY <1>4, <1>5 DEF Release

\* What a cancelled task changes: pending futures become cancelled, owners are marked.
LEMMA CancelKeepsSlotInv ==
    ASSUME TypeOK, SlotInv, NEW S \in SUBSET Requests, CancelTasks(S),
           UNCHANGED <<locked, waiters, stage>>
    PROVE  SlotInv'
<1> USE DEF SlotInv, SlotOwnedOnce, HeapOfQueued, HeapComplete, FutureUnused,
            FreeMeansEmpty, Owns
<1>1. \A r \in Requests :
          \/ future'[r] = future[r]
          \/ stage[r] = "queued" /\ future[r] = "pending" /\ future'[r] = "cancelled"
  BY DEF CancelTasks
<1>2. \A r \in Requests : Owns(r)' <=> Owns(r)
  BY <1>1
<1>3. SlotOwnedOnce'
  BY <1>2
<1>4. HeapOfQueued'
  BY <1>1 DEF TypeOK
<1>5. HeapComplete' /\ FutureUnused' /\ FreeMeansEmpty'
  BY <1>1
<1>6. QED
  BY <1>3, <1>4, <1>5

LEMMA StartKeepsSlotInv ==
    ASSUME TypeOK, SlotInv, NEW r \in Requests, Start(r)
    PROVE  SlotInv'
<1> USE DEF SlotInv, SlotOwnedOnce, HeapOfQueued, HeapComplete, FutureUnused,
            FreeMeansEmpty, Owns
<1>0. stage[r] = "new" /\ r \notin waiters /\ ~Owns(r)
  BY DEF Start, Refuse, SendAtOnce, Enqueue, TypeOK
<1>1. ASSUME UNCHANGED <<locked, waiters, future>>, stage' = [stage EXCEPT ![r] = "done"]
      PROVE  SlotInv'
  BY <1>0, <1>1 DEF TypeOK
<1>2. ASSUME ~locked, waiters = {}, locked' = TRUE, UNCHANGED <<waiters, future>>,
             stage' = [stage EXCEPT ![r] = "sending"]
      PROVE  SlotInv'
  BY <1>0, <1>2 DEF TypeOK
<1>3. CASE Enqueue(r)
  <2>1. /\ \A s \in Requests : stage'[s] = IF s = r THEN "queued" ELSE stage[s]
        /\ \A s \in Requests : future'[s] = IF s = r THEN "pending" ELSE future[s]
        /\ waiters' = waiters \cup {r} /\ locked' = locked
    BY <1>3 DEF Enqueue, TypeOK
  <2>2. \A s \in Requests : Owns(s)' <=> Owns(s)
    BY <1>0, <2>1
  <2>3. SlotOwnedOnce'
    BY <2>1, <2>2
  <2>4. locked
    BY <1>3 DEF Enqueue, FastPath
  <2>5. HeapOfQueued'
    BY <1>0, <2>1 DEF TypeOK
  <2>6. HeapComplete' /\ FutureUnused'
    BY <2>1
  <2>7. FreeMeansEmpty'
    BY <2>1, <2>4
  <2>8. QED
    BY <2>3, <2>5, <2>6, <2>7
<1>4. QED
  BY <1>1, <1>2, <1>3 DEF Start, Refuse, SendAtOnce, FastPath, Send, End, lockVars

LEMMA WakeKeepsSlotInv ==
    ASSUME TypeOK, SlotInv, NEW r \in Requests, Wake(r)
    PROVE  SlotInv'
<1> USE DEF Owns
<1>1. ASSUME Owns(r), Release, stage' = [stage EXCEPT ![r] = "done"] PROVE SlotInv'
  BY <1>1, ReleaseKeepsSlotInv
<1>2. ASSUME stage[r] = "queued", future[r] = "handed", UNCHANGED <<locked, waiters, future>>,
             stage' = [stage EXCEPT ![r] = "sending"]
      PROVE  SlotInv'
  <2>1. \A s \in Requests : stage'[s] = IF s = r THEN "sending" ELSE stage[s]
    BY <1>2 DEF TypeOK
  <2>2. \A s \in Requests : Owns(s)' <=> Owns(s)
    BY <1>2, <2>1
  <2>3. r \notin waiters
    BY <1>2 DEF SlotInv, HeapOfQueued
  <2>4. QED
    BY <1>2, <2>1, <2>2, <2>3
       DEF TypeOK, SlotInv, SlotOwnedOnce, HeapOfQueued, HeapComplete, FutureUnused,
           FreeMeansEmpty
<1>3. CASE WakeCancelled(r)
  <2>1. /\ stage[r] = "queued" /\ future[r] = "cancelled"
        /\ waiters' = waiters \ {r} /\ UNCHANGED <<locked, future>>
        /\ \A s \in Requests : stage'[s] = IF s = r THEN "done" ELSE stage[s]
    BY <1>3 DEF WakeCancelled, End, TypeOK
  <2>2. \A s \in Requests : Owns(s)' <=> Owns(s)
    BY <2>1
  <2>3. QED
    BY <2>1, <2>2
       DEF TypeOK, SlotInv, SlotOwnedOnce, HeapOfQueued, HeapComplete, FutureUnused,
           FreeMeansEmpty
<1>4. QED
  BY <1>1, <1>2, <1>3 DEF Wake, WakeOwner, WakeCancelledOwner, Send, End

LEMMA FinishKeepsSlotInv ==
    ASSUME TypeOK, SlotInv, NEW r \in Requests, Finish(r)
    PROVE  SlotInv'
<1>1. Owns(r) /\ Release /\ stage' = [stage EXCEPT ![r] = "done"]
  BY DEF Finish, Answer, AnswerUnauthorized, Abandon, End, Owns
<1>2. QED
  BY <1>1, ReleaseKeepsSlotInv

LEMMA SlotInvUnchanged ==
    ASSUME SlotInv, UNCHANGED <<locked, waiters, future, stage>>
    PROVE  SlotInv'
  BY DEF SlotInv, SlotOwnedOnce, HeapOfQueued, HeapComplete, FutureUnused,
         FreeMeansEmpty, Owns

LEMMA SlotInvStep ==
    ASSUME TypeOK, SlotInv, [Next]_vars
    PROVE  SlotInv'
<1>1. ASSUME NEW r \in Requests, Cancel(r) PROVE SlotInv'
  BY <1>1, CancelKeepsSlotInv DEF Cancel
<1>2. CASE Unload
  BY <1>2, CancelKeepsSlotInv, RequestsAssumption DEF Unload
<1>3. CASE Outage \/ Recover \/ \E d \in Devices : Forget(d)
  BY <1>3, SlotInvUnchanged DEF Outage, Recover, Forget, lockVars, callVars
<1>4. CASE UNCHANGED vars
  BY <1>4, SlotInvUnchanged DEF vars, lockVars, callVars
<1>5. QED
  BY <1>1, <1>2, <1>3, <1>4, StartKeepsSlotInv, WakeKeepsSlotInv, FinishKeepsSlotInv
     DEF Next, Environment

\* The lock is held exactly while one request owns it.
THEOREM OneOwner == Spec => []SlotOwnedOnce
<1>1. Init => SlotInv
  BY DEF Init, SlotInv, SlotOwnedOnce, HeapOfQueued, HeapComplete, FutureUnused,
         FreeMeansEmpty, Owns
<1>2. TypeOK /\ SlotInv /\ [Next]_vars => SlotInv'
  BY SlotInvStep
<1>3. SlotInv => SlotOwnedOnce
  BY DEF SlotInv
<1>4. QED
  BY <1>1, <1>2, <1>3, TypeCorrect, PTL DEF Spec

-------------------------------------------------------------------------------
(* Requests that waited through an outage, a removal or the unload         *)

\* How a step can change what GenerationInv speaks of: a request enters the
\* queue with the present generations, or keeps the ones it has; generations
\* only grow; a newly disturbed request saw one of them grow, or the unload.
GenerationStep(r) ==
    /\ stage'[r] = "new" => stage[r] = "new"
    /\ stage'[r] = "queued" =>
          \/ stage[r] = "queued" /\ seen'[r] = seen[r]
          \/ stage[r] = "new" /\ seen'[r] = CurrentGeneration(r) /\ UNCHANGED gatewayVars
    /\ outageGeneration' >= outageGeneration
    /\ deviceGeneration'[DeviceOf[r]] >= deviceGeneration[DeviceOf[r]]
    /\ unloaded => unloaded'
    /\ r \in disturbed' =>
          \/ r \in disturbed
          \/ /\ stage[r] = "queued"
             /\ \/ unloaded'
                \/ outageGeneration' > outageGeneration
                \/ deviceGeneration'[DeviceOf[r]] > deviceGeneration[DeviceOf[r]]

LEMMA EndGenerationStep ==
    ASSUME TypeOK, NEW q \in Requests, NEW how, End(q, how), NEW r \in Requests
    PROVE  /\ stage'[r] = "new" => stage[r] = "new"
           /\ stage'[r] = "queued" => stage[r] = "queued" /\ seen'[r] = seen[r]
  BY DEF TypeOK, End

LEMMA SendGenerationStep ==
    ASSUME TypeOK, NEW q \in Requests, Send(q),
           NEW v, seen' = [seen EXCEPT ![q] = v] \/ UNCHANGED seen, NEW r \in Requests
    PROVE  /\ stage'[r] = "new" => stage[r] = "new"
           /\ stage'[r] = "queued" => stage[r] = "queued" /\ seen'[r] = seen[r]
  BY DEF TypeOK, Send

LEMMA EveryGenerationStep ==
    ASSUME TypeOK, [Next]_vars, NEW r \in Requests
    PROVE  GenerationStep(r)
<1> DEFINE d == DeviceOf[r]
           Calm == UNCHANGED <<gatewayVars, disturbed>>
           Keeps == /\ stage'[r] = "new" => stage[r] = "new"
                    /\ stage'[r] = "queued" => stage[r] = "queued" /\ seen'[r] = seen[r]
<1>0. outageGeneration \in Nat /\ d \in Devices /\ deviceGeneration[d] \in Nat
  BY RequestsAssumption DEF TypeOK
<1>1. Calm /\ Keeps => GenerationStep(r)
  BY <1>0 DEF GenerationStep, gatewayVars
<1>2. ASSUME NEW q \in Requests, Start(q) PROVE GenerationStep(r)
  <2>1. CASE Enqueue(q)
    <3>1. Calm /\ stage' = [stage EXCEPT ![q] = "queued"] /\ stage[q] = "new"
          /\ seen' = [seen EXCEPT ![q] = CurrentGeneration(q)]
      BY <2>1 DEF Enqueue
    <3>2. CASE r = q
      BY <1>0, <3>1, <3>2 DEF GenerationStep, TypeOK, gatewayVars
    <3>3. CASE r # q
      BY <1>1, <3>1, <3>3 DEF TypeOK
    <3>4. QED
      BY <3>2, <3>3
  <2>2. CASE Refuse(q) \/ SendAtOnce(q)
    <3>1. Calm
      BY <2>2 DEF Refuse, SendAtOnce
    <3>2. Keeps
      BY <2>2, EndGenerationStep, SendGenerationStep DEF Refuse, SendAtOnce
    <3>3. QED
      BY <1>1, <3>1, <3>2
  <2>3. QED
    BY <1>2, <2>1, <2>2 DEF Start
<1>3. ASSUME NEW q \in Requests, Wake(q) PROVE GenerationStep(r)
  <2>1. Calm
    BY <1>3 DEF Wake, WakeOwner, WakeCancelledOwner, WakeCancelled
  <2>2. Keeps
    BY <1>3, EndGenerationStep, SendGenerationStep
       DEF Wake, WakeOwner, WakeCancelledOwner, WakeCancelled
  <2>3. QED
    BY <1>1, <2>1, <2>2
<1>4. ASSUME NEW q \in Requests, Finish(q) PROVE GenerationStep(r)
  <2>1. Keeps
    BY <1>4, EndGenerationStep DEF Finish, Answer, AnswerUnauthorized, Abandon
  <2>2. CASE AnswerUnauthorized(q)
    <3>1. /\ UNCHANGED <<unloaded, deviceGeneration>>
          /\ IF gatewayAvailable
             THEN /\ outageGeneration' = outageGeneration + 1
                  /\ disturbed' = disturbed \cup Queued
             ELSE UNCHANGED <<outageGeneration, disturbed>>
      BY <2>2 DEF AnswerUnauthorized, GoUnavailable
    <3>2. r \in Queued => stage[r] = "queued"
      BY DEF Queued
    <3>3. QED
      BY <1>0, <2>1, <3>1, <3>2 DEF GenerationStep
  <2>3. CASE Answer(q) \/ Abandon(q)
    BY <1>1, <2>1, <2>3 DEF Answer, Abandon
  <2>4. QED
    BY <1>4, <2>2, <2>3 DEF Finish
<1>5. ASSUME NEW q \in Requests, Cancel(q) PROVE GenerationStep(r)
  BY <1>1, <1>5 DEF Cancel
<1>6. CASE Outage
  BY <1>0, <1>6 DEF Outage, GoUnavailable, GenerationStep, callVars, Queued
<1>7. CASE Recover
  BY <1>0, <1>7 DEF Recover, GenerationStep, callVars
<1>8. ASSUME NEW e \in Devices, Forget(e) PROVE GenerationStep(r)
  BY <1>0, <1>8 DEF Forget, GenerationStep, callVars, Queued, TypeOK
<1>9. CASE Unload
  BY <1>0, <1>9 DEF Unload, GoUnavailable, GenerationStep, Queued
<1>10. CASE UNCHANGED vars
  BY <1>1, <1>10 DEF vars, callVars
<1>11. QED
  BY <1>2, <1>3, <1>4, <1>5, <1>6, <1>7, <1>8, <1>9, <1>10 DEF Next, Environment

LEMMA GenerationInvStep ==
    ASSUME TypeOK, TypeOK', GenerationInv, [Next]_vars
    PROVE  GenerationInv'
<1> SUFFICES ASSUME NEW r \in Requests
             PROVE  /\ stage'[r] = "new" => r \notin disturbed'
                    /\ stage'[r] = "queued" =>
                         /\ seen'[r].outage <= outageGeneration'
                         /\ seen'[r].device <= deviceGeneration'[DeviceOf[r]]
                         /\ r \in disturbed' =>
                               \/ unloaded'
                               \/ seen'[r].outage < outageGeneration'
                               \/ seen'[r].device < deviceGeneration'[DeviceOf[r]]
  BY DEF GenerationInv
<1>1. GenerationStep(r)
  BY EveryGenerationStep
<1>2. /\ seen[r] \in Generation /\ seen'[r] \in Generation
      /\ outageGeneration \in Nat /\ outageGeneration' \in Nat
      /\ deviceGeneration[DeviceOf[r]] \in Nat /\ deviceGeneration'[DeviceOf[r]] \in Nat
  BY RequestsAssumption DEF TypeOK
<1>3. /\ seen[r].outage \in Nat /\ seen[r].device \in Nat
      /\ seen'[r].outage \in Nat /\ seen'[r].device \in Nat
  BY <1>2 DEF Generation
<1>4. stage'[r] = "new" => r \notin disturbed'
  BY <1>1 DEF GenerationInv, GenerationStep
<1>5. CASE stage[r] = "queued" /\ seen'[r] = seen[r]
  BY <1>1, <1>2, <1>3, <1>4, <1>5 DEF GenerationInv, GenerationStep
<1>6. CASE stage[r] = "new" /\ seen'[r] = CurrentGeneration(r) /\ UNCHANGED gatewayVars
  BY <1>1, <1>2, <1>3, <1>4, <1>6
     DEF GenerationInv, GenerationStep, CurrentGeneration, gatewayVars
<1>7. CASE stage'[r] # "queued"
  BY <1>4, <1>7
<1>8. QED
  BY <1>1, <1>5, <1>6, <1>7 DEF GenerationStep

\* Nothing is sent that waited through an outage, a removal of its device or
\* the unload.
THEOREM NothingDisturbedIsSent == Spec => SentUndisturbed
<1>1. Init => GenerationInv
  BY DEF Init, GenerationInv
<1>2. TypeOK /\ TypeOK' /\ GenerationInv /\ [Next]_vars => GenerationInv'
  BY GenerationInvStep
<1>3. TypeOK /\ GenerationInv /\ [Next]_vars
      => [\A r \in Requests : stage[r] # "sending" /\ stage'[r] = "sending"
                                 => r \notin disturbed]_vars
  <2> SUFFICES ASSUME TypeOK, GenerationInv, Next, NEW r \in Requests,
                      stage[r] # "sending", stage'[r] = "sending"
               PROVE  r \notin disturbed
    BY DEF vars, callVars
  <2>1. ASSUME NEW q \in Requests, SendAtOnce(q) PROVE r \notin disturbed
    <3>1. r = q /\ stage[q] = "new"
      BY <2>1 DEF SendAtOnce, Send, End, TypeOK
    <3>2. QED
      BY <3>1 DEF GenerationInv
  <2>2. ASSUME NEW q \in Requests, WakeOwner(q) PROVE r \notin disturbed
    <3>1. r = q /\ stage[r] = "queued" /\ Valid(r, seen[r])
      BY <2>2 DEF WakeOwner, Send, End, TypeOK
    <3>2. seen[r] \in Generation /\ outageGeneration \in Nat
          /\ deviceGeneration[DeviceOf[r]] \in Nat
      BY RequestsAssumption DEF TypeOK
    <3>3. /\ ~unloaded /\ seen[r].outage = outageGeneration
          /\ seen[r].device = deviceGeneration[DeviceOf[r]]
      BY <3>1 DEF Valid, RequestCancelled, Unreachable
    <3>4. QED
      BY <3>1, <3>2, <3>3 DEF GenerationInv
  <2>3. ASSUME NEW q \in Requests, NEW how, End(q, how) PROVE FALSE
    BY <2>3 DEF End, TypeOK
  <2>4. ASSUME UNCHANGED stage PROVE FALSE
    BY <2>4
  <2>5. ASSUME NEW q \in Requests, Enqueue(q) PROVE FALSE
    BY <2>5 DEF Enqueue, TypeOK
  <2>6. ASSUME NEW q \in Requests, Start(q) \/ Wake(q) PROVE r \notin disturbed
    BY <2>1, <2>2, <2>3, <2>5, <2>6
       DEF Start, Refuse, Wake, WakeCancelledOwner, WakeCancelled
  <2>7. ASSUME NEW q \in Requests, Finish(q) PROVE FALSE
    BY <2>3, <2>7 DEF Finish, Answer, AnswerUnauthorized, Abandon
  <2>8. ASSUME Environment \/ \E q \in Requests : Cancel(q) PROVE FALSE
    BY <2>4, <2>8 DEF Environment, Outage, Recover, Forget, Unload, Cancel, callVars
  <2>9. QED
    BY <2>6, <2>7, <2>8 DEF Next
<1>4. QED
  BY <1>1, <1>2, <1>3, TypeCorrect, PTL DEF Spec, SentUndisturbed

-------------------------------------------------------------------------------
(* The queue implements RadioSlot                                          *)

Holder == {r \in Requests : Owns(r)}
Line   == {r \in Requests : stage[r] = "queued" /\ future[r] = "pending"}

\* Counter values grow in the order of arrival.
LEMMA TicketInvStep ==
    ASSUME TypeOK, TicketInv, [Next]_vars
    PROVE  TicketInv'
<1>1. ASSUME NEW q \in Requests, Enqueue(q) PROVE TicketInv'
  BY <1>1 DEF Enqueue, TicketInv, TypeOK
<1>2. ASSUME UNCHANGED <<ticket, counter>>,
             \A r \in Requests : stage'[r] = "queued" => stage[r] = "queued"
      PROVE  TicketInv'
  BY <1>2 DEF TicketInv
<1>3. ASSUME NEW q \in Requests, NEW how, End(q, how) \/ Send(q)
      PROVE  \A r \in Requests : stage'[r] = "queued" => stage[r] = "queued"
  BY <1>3 DEF End, Send, TypeOK
<1>4. ASSUME NEW q \in Requests, Start(q) PROVE TicketInv'
  BY <1>1, <1>2, <1>3, <1>4 DEF Start, Refuse, SendAtOnce, lockVars
<1>5. ASSUME NEW q \in Requests, Wake(q) PROVE TicketInv'
  BY <1>2, <1>3, <1>5 DEF Wake, WakeOwner, WakeCancelledOwner, WakeCancelled
<1>6. ASSUME NEW q \in Requests, Finish(q) PROVE TicketInv'
  BY <1>2, <1>3, <1>6 DEF Finish, Answer, AnswerUnauthorized, Abandon
<1>7. ASSUME Environment \/ \E q \in Requests : Cancel(q) PROVE TicketInv'
  BY <1>2, <1>7 DEF Environment, Outage, Recover, Forget, Unload, Cancel, lockVars, callVars
<1>8. CASE UNCHANGED vars
  BY <1>2, <1>8 DEF vars, lockVars, callVars
<1>9. QED
  BY <1>4, <1>5, <1>6, <1>7, <1>8 DEF Next

\* An owner that ends passes the slot on.
LEMMA ReleaseIsPass ==
    ASSUME TypeOK, SlotInv, NEW r \in Requests, Owns(r), Release, UNCHANGED ticket,
           stage' = [stage EXCEPT ![r] = "done"]
    PROVE  Slot!Pass
<1> USE DEF SlotInv, SlotOwnedOnce, HeapOfQueued, HeapComplete, Owns
<1>1. Holder = {r} /\ r \notin waiters
  BY DEF Holder
<1>2. \A s \in Requests : stage'[s] = IF s = r THEN "done" ELSE stage[s]
  BY DEF TypeOK
<1>3. Line = {s \in waiters : future[s] = "pending"}
  BY DEF Line, TypeOK
<1>4. ASSUME \A s \in waiters : future[s] # "pending", UNCHANGED future
      PROVE  Line = {} /\ Holder' = {} /\ Line' = {}
  <2>1. Line = {}
    BY <1>3, <1>4
  <2>2. \A s \in Requests : ~Owns(s)'
    BY <1>1, <1>2, <1>4
  <2>3. Line' = {}
    BY <1>2, <1>4 DEF Line
  <2>4. QED
    BY <2>1, <2>2, <2>3 DEF Holder
<1>5. ASSUME NEW next \in waiters,
             Pending(next),
             \A s \in waiters \ {next} : Pending(s) => Before(next, s),
             future' = [future EXCEPT ![next] = "handed"]
      PROVE  /\ next \in Line
             /\ \A s \in Line \ {next} : Before(next, s)
             /\ Holder' = {next}
             /\ Line' = Line \ {next}
  <2>1. next \in Line
    BY <1>3, <1>5 DEF Pending
  <2>2. \A s \in Line \ {next} : Before(next, s)
    BY <1>3, <1>5 DEF Pending
  <2>3. \A s \in Requests : future'[s] = IF s = next THEN "handed" ELSE future[s]
    BY <1>5 DEF TypeOK
  <2>4. Holder' = {next}
    BY <1>1, <1>2, <2>1, <2>3 DEF Holder, Line
  <2>5. Line' = Line \ {next}
    <3>1. r \notin Line
      BY <1>1, <1>3
    <3>2. QED
      BY <1>2, <2>3, <3>1 DEF Line
  <2>6. QED
    BY <2>1, <2>2, <2>4, <2>5
<1>6. Holder # {}
  BY <1>1
<1>7. QED
  BY <1>4, <1>5, <1>6 DEF Release, Slot!Pass, Slot!Ahead, Before, Holder, Line

\* A step that leaves owners, pending futures and counter values alone.
LEMMA SlotStutter ==
    ASSUME UNCHANGED ticket, Holder' = Holder, Line' = Line
    PROVE  UNCHANGED Slot!slotVars
  BY DEF Slot!slotVars, Holder, Line

LEMMA StartRefines ==
    ASSUME TypeOK, SlotInv, TicketInv, NEW r \in Requests, Start(r)
    PROVE  [Slot!SlotNext]_(Slot!slotVars)
<1> USE DEF SlotInv, Owns
<1>0. stage[r] = "new" /\ future[r] = "none"
  BY DEF Start, Refuse, SendAtOnce, Enqueue, FutureUnused
<1>1. ASSUME NEW how, End(r, how), UNCHANGED <<future, ticket>>
      PROVE  UNCHANGED Slot!slotVars
  <2>1. \A s \in Requests : stage'[s] = IF s = r THEN "done" ELSE stage[s]
    BY <1>1 DEF End, TypeOK
  <2>2. Holder' = Holder /\ Line' = Line
    BY <1>0, <1>1, <2>1 DEF Holder, Line
  <2>3. QED
    BY <1>1, <2>2, SlotStutter
<1>2. ASSUME FastPath, Send(r), UNCHANGED <<future, ticket>>
      PROVE  Slot!Take(r)
  <2>1. \A s \in Requests : stage'[s] = IF s = r THEN "sending" ELSE stage[s]
    BY <1>2 DEF Send, TypeOK
  <2>2. Holder = {} /\ Line = {}
    BY <1>2 DEF FastPath, SlotOwnedOnce, HeapComplete, Holder, Line
  <2>3. Holder' = {r} /\ Line' = {}
    BY <1>0, <1>2, <2>1, <2>2 DEF Holder, Line
  <2>4. QED
    BY <1>2, <2>2, <2>3 DEF Slot!Take, Holder, Line
<1>3. CASE Enqueue(r)
  <2>1. /\ \A s \in Requests : stage'[s] = IF s = r THEN "queued" ELSE stage[s]
        /\ \A s \in Requests : future'[s] = IF s = r THEN "pending" ELSE future[s]
        /\ ticket' = [ticket EXCEPT ![r] = counter] /\ ticket'[r] = counter
    BY <1>3 DEF Enqueue, TypeOK
  <2>2. locked
    BY <1>3 DEF Enqueue, FastPath, FreeMeansEmpty
  <2>3. Holder # {} /\ r \notin Line
    BY <1>0, <2>2 DEF SlotOwnedOnce, Holder, Line
  <2>4. Holder' = Holder /\ Line' = Line \cup {r}
    BY <1>0, <2>1 DEF Holder, Line
  <2>5. counter \in Nat /\ \A s \in Line : ticket[s] < counter
    BY DEF TypeOK, TicketInv, Line
  <2>6. Slot!Join(r)
    BY <2>1, <2>3, <2>4, <2>5 DEF Slot!Join, Holder, Line
  <2>7. QED
    BY <2>6 DEF Slot!SlotNext
<1>4. QED
  BY <1>1, <1>2, <1>3 DEF Start, Refuse, SendAtOnce, lockVars, Slot!SlotNext

LEMMA WakeRefines ==
    ASSUME TypeOK, SlotInv, NEW r \in Requests, Wake(r)
    PROVE  [Slot!SlotNext]_(Slot!slotVars)
<1> USE DEF Owns
<1>1. ASSUME NEW how, End(r, how), Owns(r), Release, UNCHANGED ticket
      PROVE  Slot!Pass
  BY <1>1, ReleaseIsPass DEF End
<1>2. ASSUME stage[r] = "queued", future[r] = "handed", Send(r), UNCHANGED <<future, ticket>>
      PROVE  UNCHANGED Slot!slotVars
  <2>1. \A s \in Requests : stage'[s] = IF s = r THEN "sending" ELSE stage[s]
    BY <1>2 DEF Send, TypeOK
  <2>2. Holder' = Holder /\ Line' = Line
    BY <1>2, <2>1 DEF Holder, Line
  <2>3. QED
    BY <1>2, <2>2, SlotStutter
<1>3. CASE WakeCancelled(r)
  <2>1. /\ stage[r] = "queued" /\ future[r] = "cancelled" /\ UNCHANGED <<future, ticket>>
        /\ \A s \in Requests : stage'[s] = IF s = r THEN "done" ELSE stage[s]
    BY <1>3 DEF WakeCancelled, End, TypeOK
  <2>2. Holder' = Holder /\ Line' = Line
    BY <2>1 DEF Holder, Line
  <2>3. QED
    BY <2>1, <2>2, SlotStutter
<1>4. QED
  BY <1>1, <1>2, <1>3 DEF Wake, WakeOwner, WakeCancelledOwner, Slot!SlotNext

LEMMA FinishRefines ==
    ASSUME TypeOK, SlotInv, NEW r \in Requests, Finish(r)
    PROVE  Slot!SlotNext
<1>1. /\ Owns(r) /\ Release /\ UNCHANGED ticket
      /\ stage' = [stage EXCEPT ![r] = "done"]
  BY DEF Finish, Answer, AnswerUnauthorized, Abandon, End, Owns
<1>2. QED
  BY <1>1, ReleaseIsPass DEF Slot!SlotNext

LEMMA CancelRefines ==
    ASSUME TypeOK, NEW S \in SUBSET Requests, CancelTasks(S), UNCHANGED <<stage, ticket>>
    PROVE  [Slot!SlotNext]_(Slot!slotVars)
<1>1. PICK T \in SUBSET Requests : T = S \cap Line
  OBVIOUS
<1>2. \A r \in Requests : future'[r] = IF r \in T THEN "cancelled" ELSE future[r]
  BY <1>1 DEF CancelTasks, Line
<1>3. Holder' = Holder
  BY <1>1, <1>2 DEF Holder, Owns, Line
<1>4. Line' = Line \ T /\ T \subseteq Line
  BY <1>1, <1>2 DEF Line
<1>5. CASE T = {}
  BY <1>3, <1>4, <1>5, SlotStutter
<1>6. CASE T # {}
  <2>1. Slot!Leave(T)
    BY <1>3, <1>4, <1>6 DEF Slot!Leave, Holder, Line
  <2>2. QED
    BY <2>1 DEF Slot!SlotNext
<1>7. QED
  BY <1>5, <1>6

\* The lock's futures, heap and hand-over implement the single slot.
THEOREM Refinement == Spec => ImplementsRadioSlot
<1>1. Init => TicketInv /\ SlotInv
  BY DEF Init, TicketInv, SlotInv, SlotOwnedOnce, HeapOfQueued, HeapComplete, FutureUnused,
         FreeMeansEmpty, Owns
<1>2. Init => Slot!SlotInit
  BY DEF Init, Slot!SlotInit, Owns
<1>3. TypeOK /\ SlotInv /\ TicketInv /\ [Next]_vars => [Slot!SlotNext]_(Slot!slotVars)
  <2> SUFFICES ASSUME TypeOK, SlotInv, TicketInv, [Next]_vars
               PROVE  [Slot!SlotNext]_(Slot!slotVars)
    OBVIOUS
  <2>1. ASSUME NEW r \in Requests, Cancel(r) PROVE [Slot!SlotNext]_(Slot!slotVars)
    BY <2>1, CancelRefines DEF Cancel
  <2>2. CASE Unload
    BY <2>2, CancelRefines, RequestsAssumption DEF Unload
  <2>3. CASE Outage \/ Recover \/ (\E d \in Devices : Forget(d)) \/ UNCHANGED vars
    <3>1. UNCHANGED <<stage, future, ticket>>
      BY <2>3 DEF Outage, Recover, Forget, vars, lockVars, callVars
    <3>2. QED
      BY <3>1, SlotStutter DEF Holder, Line, Owns
  <2>4. QED
    BY <2>1, <2>2, <2>3, StartRefines, WakeRefines, FinishRefines DEF Next, Environment
<1>4. TypeOK /\ SlotInv /\ TicketInv /\ [Next]_vars => SlotInv' /\ TicketInv'
  BY SlotInvStep, TicketInvStep
<1>5. QED
  BY <1>1, <1>2, <1>3, <1>4, TypeCorrect, PTL DEF Spec, ImplementsRadioSlot, Slot!SlotSpec
===============================================================================
