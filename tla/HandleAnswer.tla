----------------------------- MODULE HandleAnswer -----------------------------
(***************************************************************************)
(* The lock entity of a sleeping door handle (lock.py): quickly repeated   *)
(* lock and unlock requests settle, and only the last one is sent as the   *)
(* answer the gateway stores for the handle.                               *)
(*                                                                         *)
(* Every request settles equally long, so they settle in their order, and  *)
(* equal requests get the radio in their order (RadioQueue).  An answer is *)
(* "allowed" or "notAllowed".                                              *)
(***************************************************************************)
EXTENDS Integers

CONSTANT MaxRequests   \* bound: requests of one behaviour

Answers  == {"allowed", "notAllowed"}
Requests == 1..MaxRequests

ASSUME RequestsAssumption == MaxRequests \in Nat \ {0}

VARIABLES
    requests,       \* _requests
    desired,        \* _desired: "none" or the answer
    answerStage,    \* where each call of _async_answer is
    answerOf,       \* the answer each of them was called with
    current,        \* the calls since whose snapshot state_revision did not move
    stored,         \* the answer the gateway keeps for the handle
    toFetch,        \* an outbound telegram with it is still to come
    unlockAllowed,  \* channel.unlock_allowed, "none" without one
    cutShort        \* history: the last request was cancelled while it settled

HandleVars == <<requests, desired, answerStage, answerOf, current, stored, toFetch,
                unlockAllowed, cutShort>>

HandleTypeOK ==
    /\ requests \in 0..MaxRequests
    /\ desired \in Answers \cup {"none"}
    /\ answerStage \in [Requests -> {"new", "settling", "queued", "sending", "accepted", "over"}]
    /\ answerOf \in [Requests -> Answers]
    /\ current \subseteq Requests
    /\ stored \in Answers
    /\ toFetch \in BOOLEAN
    /\ unlockAllowed \in Answers \cup {"none"}
    /\ cutShort \in BOOLEAN

HandleInit ==
    /\ requests = 0
    /\ desired = "none"
    /\ answerStage = [r \in Requests |-> "new"]
    /\ answerOf = [r \in Requests |-> "notAllowed"]
    /\ current = {}
    /\ stored \in Answers
    /\ toFetch = FALSE
    /\ unlockAllowed \in {"none", stored}
    /\ cutShort = FALSE

AnswerUnderway(r) == answerStage[r] \in {"settling", "queued", "sending"}
EarlierThan(r)    == {s \in Requests : s < r}
AnswerOnAir       == \E r \in Requests : answerStage[r] = "sending"

\* _async_answer until the sleep.
Ask(answer) ==
    LET r == requests + 1 IN
    /\ requests < MaxRequests
    /\ requests' = r
    /\ desired' = answer
    /\ answerStage' = [answerStage EXCEPT ![r] = "settling"]
    /\ answerOf' = [answerOf EXCEPT ![r] = answer]
    /\ cutShort' = FALSE
    /\ UNCHANGED <<current, stored, toFetch, unlockAllowed>>

\* request != self._requests.
Replaced(r) == r # requests

\* The sleep is over: the request was replaced, or it takes its snapshot and
\* waits for the radio.
Settled(r) ==
    /\ answerStage[r] = "settling"
    /\ \A s \in EarlierThan(r) : answerStage[s] # "settling"
    /\ IF Replaced(r)
       THEN answerStage' = [answerStage EXCEPT ![r] = "over"] /\ UNCHANGED current
       ELSE answerStage' = [answerStage EXCEPT ![r] = "queued"] /\ current' = current \cup {r}
    /\ UNCHANGED <<requests, desired, answerOf, stored, toFetch, unlockAllowed, cutShort>>

\* Variation: the radio goes to any request that waits for it.
SendAnyAnswer(r) ==
    /\ answerStage[r] = "queued" /\ ~AnswerOnAir
    /\ answerStage' = [answerStage EXCEPT ![r] = "sending"]
    /\ UNCHANGED <<requests, desired, answerOf, current, stored, toFetch, unlockAllowed, cutShort>>

\* async_set_handle_unlock gets the radio, after the requests before it.
SendAnswer(r) ==
    /\ answerStage[r] = "queued" /\ ~AnswerOnAir
    /\ \A s \in EarlierThan(r) : answerStage[s] # "queued"
    /\ answerStage' = [answerStage EXCEPT ![r] = "sending"]
    /\ UNCHANGED <<requests, desired, answerOf, current, stored, toFetch, unlockAllowed, cutShort>>

\* The finally block: only the last request clears what is desired.
DesiredAfter(r) == IF r = requests THEN "none" ELSE desired

\* 200, 201 and 202: the gateway keeps the answer; the estimate.
AnswerAccepted(r) ==
    /\ answerStage[r] = "sending"
    /\ answerStage' = [answerStage EXCEPT ![r] = "accepted"]
    /\ desired' = DesiredAfter(r)
    /\ stored' = answerOf[r]
    /\ toFetch' = TRUE
    /\ unlockAllowed' = IF r \in current THEN answerOf[r] ELSE unlockAllowed
    /\ current' = current \ {r}
    /\ UNCHANGED <<requests, answerOf, cutShort>>

\* The request fails or its caller is cancelled; once it was sent, the gateway
\* may have taken the answer all the same.
AnswerFails(r) ==
    /\ answerStage[r] \in {"queued", "sending"}
    /\ answerStage' = [answerStage EXCEPT ![r] = "over"]
    /\ desired' = DesiredAfter(r)
    /\ \/ UNCHANGED <<stored, toFetch>>
       \/ answerStage[r] = "sending" /\ stored' = answerOf[r] /\ toFetch' = TRUE
    /\ current' = current \ {r}
    /\ UNCHANGED <<requests, answerOf, unlockAllowed, cutShort>>

\* The caller is cancelled during the sleep, which no finally block guards.
CancelledWhileSettling(r) ==
    /\ answerStage[r] = "settling"
    /\ answerStage' = [answerStage EXCEPT ![r] = "over"]
    /\ cutShort' = (cutShort \/ r = requests)
    /\ UNCHANGED <<requests, desired, answerOf, current, stored, toFetch, unlockAllowed>>

\* The handle reports (its button, its bolt).
HandleReports ==
    /\ current # {}
    /\ current' = {}
    /\ UNCHANGED <<requests, desired, answerStage, answerOf, stored, toFetch, unlockAllowed, cutShort>>

OwnUnderWay == \E r \in Requests : answerStage[r] \in {"queued", "sending"}

\* _is_own_echo: the same answer as one that was accepted a moment ago (or longer
\* ago, and then it is none).
MayBeEcho(answer) == \E r \in Requests : answerStage[r] = "accepted" /\ answerOf[r] = answer

\* The handle wakes up and fetches an answer, perhaps an outdated one first: an
\* outbound telegram, ignored while a request of ours for the handle is under way,
\* and dropped as its echo.
HandleFetches(answer) ==
    /\ toFetch
    /\ toFetch' = (answer # stored)
    /\ \/ (OwnUnderWay \/ MayBeEcho(answer)) /\ UNCHANGED <<unlockAllowed, current>>
       \/ ~OwnUnderWay /\ unlockAllowed' = answer /\ current' = {}
    /\ UNCHANGED <<requests, desired, answerStage, answerOf, stored, cutShort>>

HandleNext ==
    \/ \E answer \in Answers : Ask(answer) \/ HandleFetches(answer)
    \/ \E r \in Requests : \/ Settled(r) \/ SendAnswer(r) \/ AnswerAccepted(r) \/ AnswerFails(r)
                           \/ CancelledWhileSettling(r)
    \/ HandleReports

HandleSpec == HandleInit /\ [][HandleNext]_HandleVars

--------------------------------------------------------------------------------
(* Properties                                                               *)

\* The last request wins, on the gateway and on the screen: when it was accepted,
\* the gateway keeps its answer, although earlier ones may still be on their way
\* when it is made; and the entity shows "locking" or "unlocking" exactly while
\* it is under way, however earlier ones end.  Only a caller that is cancelled
\* during the sleep leaves that behind (_async_answer).
LastAnswerWins ==
    /\ requests > 0 /\ answerStage[requests] = "accepted" => stored = answerOf[requests]
    /\ desired = IF requests > 0 /\ (AnswerUnderway(requests) \/ cutShort)
                 THEN answerOf[requests] ELSE "none"
================================================================================
