----------------------------- MODULE GatewayProofs -----------------------------
(***************************************************************************)
(* The components between the gateway and the entry, and all of them       *)
(* together (MCGateway): the client logs in once at a time and the gateway *)
(* acts at most once on a radio request, the documents of the stream are   *)
(* those that were sent, and what is stored was verified.  For any calls,  *)
(* tokens, documents, chunks, limits, hosts and changes.                   *)
(***************************************************************************)
EXTENDS MCGateway, SequenceTheorems, Iteration

--------------------------------------------------------------------------------
(* The calls of the client                                                  *)

\* What of the type invariant the arguments need.
CallTypes ==
    /\ webui \in BOOLEAN
    /\ token \in Nat /\ issued \in Nat
    /\ httpStage \in [HttpCalls -> Stages]
    /\ carries \in [HttpCalls -> Nat]
    /\ reply \in [HttpCalls -> Statuses \cup {"none", "begun"}]
    /\ taken \in [HttpCalls -> Nat]
    /\ outcome \in [HttpCalls -> Outcomes]

--------------------------------------------------------------------------------
(* The login                                                                *)

\* Only WebUI 2026 has tokens; who logs in holds the lock and finds no token; and
\* what is sent has a token where there are tokens.
LoginInv ==
    /\ ~webui => token = 0
    /\ \A c \in HttpCalls :
          /\ httpStage[c] \in {"lock", "login"} => webui
          /\ httpStage[c] = "login" => locked /\ token = 0
          /\ httpStage[c] = "sending" => (webui <=> carries[c] # 0)
    /\ \A c, d \in HttpCalls : httpStage[c] = "login" /\ httpStage[d] = "login" => c = d

\* The lock's waiters are the calls that wait for it, each once.
QueueInv ==
    /\ lockQueue \in Seq(HttpCalls)
    /\ \A i \in 1..Len(lockQueue) : httpStage[lockQueue[i]] = "lock"
    /\ \A i, j \in 1..Len(lockQueue) : lockQueue[i] = lockQueue[j] => i = j
    /\ \A c \in HttpCalls : httpStage[c] = "lock" => \E i \in 1..Len(lockQueue) : lockQueue[i] = c

\* The gateway has not acted on what was not sent, not answered or rejected.
TakenInv ==
    \A c \in RadioCalls :
        /\ taken[c] <= 1
        /\ httpStage[c] \in {"new", "lock", "login"} => taken[c] = 0 /\ outcome[c] = "none"
        /\ httpStage[c] = "sending" =>
              outcome[c] = "none" /\ reply[c] # "begun"
              /\ (reply[c] \notin {"ok", "error"} => taken[c] = 0)
        /\ httpStage[c] # "open"
        /\ outcome[c] \in {"unreachable", "expired", "auth"} => taken[c] = 0 \/ reply[c] = "begun"

ClientInv == CallTypes /\ LoginInv /\ TakenInv /\ QueueInv

LEMMA ClientInvInit == ClientInit => ClientInv
<1> SUFFICES ASSUME ClientInit PROVE ClientInv
  OBVIOUS
<1> USE DEF ClientInit
<1>1. CallTypes
  BY DEF CallTypes, Stages, Outcomes
<1>2. LoginInv
  BY DEF LoginInv
<1>3. QueueInv
  BY DEF QueueInv
<1>4. TakenInv
  BY DEF TakenInv, HttpCalls
<1> QED
  BY <1>1, <1>2, <1>3, <1>4 DEF ClientInv

--------------------------------------------------------------------------------
(* The three ways a call goes on                                            *)

\* It ends.  Only a call at the login gives up a lock that is held.
LEMMA EndKeeps ==
    ASSUME CallTypes, LoginInv, TakenInv,
           NEW c \in HttpCalls, NEW result \in Outcomes \ {"none"}, EndsAs(c, result),
           c \in RadioCalls /\ result \in {"unreachable", "expired", "auth"} => taken[c] = 0,
           locked /\ ~locked' => httpStage[c] = "login",
           token' \in {token, 0}, UNCHANGED <<webui, issued>>
    PROVE  (CallTypes /\ LoginInv /\ TakenInv)'
<1> USE DEF EndsAs
<1>1. CallTypes'
  BY DEF CallTypes, Stages, Statuses
<1>2. LoginInv'
  BY DEF CallTypes, LoginInv
<1>3. TakenInv'
  BY DEF CallTypes, TakenInv, HttpCalls
<1> QED
  BY <1>1, <1>2, <1>3

\* It is sent, with the token there is or with the one its own login brought.
LEMMA DispatchKeeps ==
    ASSUME CallTypes, LoginInv, TakenInv,
           NEW c \in HttpCalls, NEW with \in Nat, Dispatch(c, with),
           webui <=> with # 0,
           httpStage[c] \in {"new", "lock", "login"} \/ c \notin RadioCalls,
           locked /\ ~locked' => httpStage[c] = "login",
           token' = token \/ (webui /\ httpStage[c] = "login" /\ token' \in Nat),
           issued' \in Nat, UNCHANGED webui
    PROVE  (CallTypes /\ LoginInv /\ TakenInv)'
<1> USE DEF Dispatch
<1>1. CallTypes'
  BY DEF CallTypes, Stages, Statuses
<1>2. LoginInv'
  BY DEF CallTypes, LoginInv
<1>3. TakenInv'
  BY DEF CallTypes, TakenInv, HttpCalls
<1> QED
  BY <1>1, <1>2, <1>3

\* It logs in, or waits for the lock.
LEMMA WaitKeeps ==
    ASSUME CallTypes, LoginInv, TakenInv,
           NEW c \in HttpCalls, NEW stage \in {"lock", "login"},
           httpStage' = [httpStage EXCEPT ![c] = stage], webui,
           httpStage[c] \in {"new", "lock"} \/ c \notin RadioCalls,
           stage = "login" => ~locked /\ locked' /\ token = 0,
           stage = "lock" => locked' = locked,
           UNCHANGED <<webui, token, issued, carries, reply, taken, outcome>>
    PROVE  (CallTypes /\ LoginInv /\ TakenInv)'
<1>1. CallTypes'
  BY DEF CallTypes, Stages
<1>2. LoginInv'
  BY DEF CallTypes, LoginInv
<1>3. TakenInv'
  BY DEF CallTypes, TakenInv, HttpCalls
<1> QED
  BY <1>1, <1>2, <1>3

LEMMA PostKeeps ==
    ASSUME CallTypes, LoginInv, TakenInv,
           NEW c \in HttpCalls, PostLogin(c), webui, token = 0, ~locked,
           httpStage[c] \in {"new", "lock"} \/ c \notin RadioCalls,
           UNCHANGED <<webui, token, issued>>
    PROVE  (CallTypes /\ LoginInv /\ TakenInv)'
<1>1. CASE pinned
  BY <1>1, WaitKeeps DEF PostLogin
<1>2. CASE ~pinned
  <2>1. c \in RadioCalls => taken[c] = 0
    BY DEF TakenInv
  <2> QED
    BY <1>2, <2>1, EndKeeps DEF PostLogin, Outcomes
<1> QED
  BY <1>1, <1>2

--------------------------------------------------------------------------------
(* The lock's waiters                                                       *)

LEMMA QueueSame ==
    ASSUME QueueInv, lockQueue' = lockQueue,
           \A c \in HttpCalls : httpStage'[c] = "lock" <=> httpStage[c] = "lock"
    PROVE  QueueInv'
  BY DEF QueueInv

\* A call elsewhere moves elsewhere.
LEMMA QueueUntouched ==
    ASSUME CallTypes, QueueInv, NEW c \in HttpCalls, NEW stage \in Stages \ {"lock"},
           httpStage[c] # "lock", lockQueue' = lockQueue,
           httpStage' = [httpStage EXCEPT ![c] = stage]
    PROVE  QueueInv'
  BY QueueSame DEF CallTypes

LEMMA QueueGrows ==
    ASSUME CallTypes, QueueInv, NEW c \in HttpCalls, httpStage[c] # "lock",
           lockQueue' = Append(lockQueue, c), httpStage' = [httpStage EXCEPT ![c] = "lock"]
    PROVE  QueueInv'
<1>1. PICK n \in Nat : Len(lockQueue) = n
  BY DEF QueueInv
<1>2. /\ lockQueue' \in Seq(HttpCalls) /\ Len(lockQueue') = n + 1
      /\ \A i \in 1..n : lockQueue'[i] = lockQueue[i]
      /\ lockQueue'[n + 1] = c
  BY <1>1 DEF QueueInv
<1>3. \A i \in 1..n : lockQueue[i] # c /\ lockQueue[i] \in HttpCalls
  BY <1>1 DEF QueueInv
<1>4. \A i \in 1..(n + 1) : httpStage'[lockQueue'[i]] = "lock"
  BY <1>1, <1>2, <1>3 DEF QueueInv, CallTypes
<1>5. \A i, j \in 1..(n + 1) : lockQueue'[i] = lockQueue'[j] => i = j
  BY <1>1, <1>2, <1>3 DEF QueueInv
<1>6. ASSUME NEW d \in HttpCalls, httpStage'[d] = "lock"
      PROVE  \E i \in 1..(n + 1) : lockQueue'[i] = d
  BY <1>1, <1>2, <1>6 DEF QueueInv, CallTypes
<1> QED
  BY <1>2, <1>4, <1>5, <1>6 DEF QueueInv

LEMMA QueueHead ==
    ASSUME CallTypes, QueueInv, lockQueue # <<>>, NEW stage \in Stages \ {"lock"},
           lockQueue' = Tail(lockQueue),
           httpStage' = [httpStage EXCEPT ![Head(lockQueue)] = stage]
    PROVE  QueueInv'
<1> USE DEF QueueInv, CallTypes
<1>1. Len(lockQueue) > 0 /\ Head(lockQueue) = lockQueue[1] /\ lockQueue[1] \in HttpCalls
  OBVIOUS
<1>2. /\ lockQueue' \in Seq(HttpCalls) /\ Len(lockQueue') = Len(lockQueue) - 1
      /\ \A i \in 1..(Len(lockQueue) - 1) : lockQueue'[i] = lockQueue[i + 1]
  BY <1>1
<1>3. \A i \in 1..Len(lockQueue') :
        lockQueue'[i] # Head(lockQueue) /\ httpStage'[lockQueue'[i]] = "lock"
  BY <1>1, <1>2
<1>4. \A i, j \in 1..Len(lockQueue') : lockQueue'[i] = lockQueue'[j] => i = j
  BY <1>2
<1>5. ASSUME NEW c \in HttpCalls, httpStage'[c] = "lock"
      PROVE  \E i \in 1..Len(lockQueue') : lockQueue'[i] = c
  <2>1. PICK i \in 1..Len(lockQueue) : lockQueue[i] = c
    BY <1>1, <1>5
  <2>2. i # 1
    BY <1>1, <1>5, <2>1
  <2>3. i - 1 \in 1..Len(lockQueue') /\ lockQueue'[i - 1] = c
    BY <1>2, <2>1, <2>2
  <2> QED
    BY <2>3
<1> QED
  BY <1>2, <1>3, <1>4, <1>5

LEMMA QueueLeft ==
    ASSUME CallTypes, QueueInv, NEW c \in HttpCalls, httpStage[c] = "lock",
           NEW stage \in Stages \ {"lock"},
           lockQueue' = Without(lockQueue, c), httpStage' = [httpStage EXCEPT ![c] = stage]
    PROVE  QueueInv'
<1> DEFINE k == CHOOSE i \in 1..Len(lockQueue) : lockQueue[i] = c
<1>1. k \in 1..Len(lockQueue) /\ lockQueue[k] = c
  BY DEF QueueInv
<1>2. lockQueue' = [j \in 1..(Len(lockQueue) - 1) |-> lockQueue[IF j < k THEN j ELSE j + 1]]
  BY DEF Without
<1> HIDE DEF k
<1>3. PICK n \in Nat : Len(lockQueue) = n + 1
  <2>1. Len(lockQueue) \in Nat /\ Len(lockQueue) > 0
    BY <1>1 DEF QueueInv
  <2> QED
    BY <2>1
<1>4. \A j \in 1..n : (IF j < k THEN j ELSE j + 1) \in 1..(n + 1) \ {k}
  BY <1>1, <1>3
<1>5. lockQueue' = [j \in 1..n |-> lockQueue[IF j < k THEN j ELSE j + 1]]
  BY <1>2, <1>3
<1>6. \A j \in 1..n : lockQueue[IF j < k THEN j ELSE j + 1] \in HttpCalls
  BY <1>3, <1>4 DEF QueueInv
<1>7. lockQueue' \in Seq(HttpCalls) /\ Len(lockQueue') = n
  BY <1>5, <1>6
<1>8. /\ \A j \in 1..n : j < k => lockQueue'[j] = lockQueue[j]
      /\ \A j \in 1..n : ~(j < k) => lockQueue'[j] = lockQueue[j + 1]
  BY <1>5
<1>9. \A i \in 1..(n + 1) : httpStage[lockQueue[i]] = "lock" /\ (lockQueue[i] = c => i = k)
  BY <1>1, <1>3 DEF QueueInv
<1>10. ASSUME NEW j \in 1..n PROVE httpStage'[lockQueue'[j]] = "lock"
  <2>1. PICK i \in 1..(n + 1) : i # k /\ lockQueue'[j] = lockQueue[i]
    BY <1>1, <1>3, <1>8
  <2>2. lockQueue[i] # c /\ httpStage[lockQueue[i]] = "lock" /\ lockQueue[i] \in HttpCalls
    BY <1>3, <1>9, <2>1 DEF QueueInv
  <2> QED
    BY <2>1, <2>2 DEF CallTypes
<1>11. ASSUME NEW i \in 1..n, NEW j \in 1..n, lockQueue'[i] = lockQueue'[j] PROVE i = j
  <2>1. \A x, y \in 1..(n + 1) : lockQueue[x] = lockQueue[y] => x = y
    BY <1>3 DEF QueueInv
  <2> QED
    BY <1>1, <1>3, <1>8, <1>11, <2>1
<1>12. ASSUME NEW d \in HttpCalls, httpStage'[d] = "lock"
       PROVE  \E j \in 1..n : lockQueue'[j] = d
  <2>1. d # c /\ httpStage[d] = "lock"
    BY <1>12 DEF CallTypes
  <2>2. PICK i \in 1..(n + 1) : lockQueue[i] = d
    BY <1>3, <2>1 DEF QueueInv
  <2>3. i # k
    BY <1>1, <2>1, <2>2
  <2>4. CASE i < k
    BY <1>1, <1>3, <1>8, <2>2, <2>4
  <2>5. CASE i > k
    <3>1. i - 1 \in 1..n /\ ~(i - 1 < k) /\ (i - 1) + 1 = i
      BY <1>1, <1>3, <2>2, <2>5
    <3>2. lockQueue'[i - 1] = d
      BY <1>8, <2>2, <3>1
    <3> QED
      BY <3>1, <3>2
  <2> QED
    BY <1>1, <1>3, <2>3, <2>4, <2>5
<1> QED
  BY <1>7, <1>10, <1>11, <1>12 DEF QueueInv

--------------------------------------------------------------------------------
(* The steps                                                                *)

LEMMA AuthenticateKeeps ==
    ASSUME ClientInv, NEW c \in HttpCalls, Authenticate(c),
           httpStage[c] = "new" \/ (httpStage[c] = "sending" /\ c \notin RadioCalls),
           UNCHANGED <<webui, token, issued>>
    PROVE  ClientInv'
<1> USE DEF ClientInv
<1>1. CASE ~webui \/ token # 0
  <2>1. Dispatch(c, token) /\ UNCHANGED <<locked, lockQueue>>
    BY <1>1 DEF Authenticate
  <2>2. token \in Nat /\ (webui <=> token # 0)
    BY <1>1 DEF CallTypes, LoginInv
  <2>3. (CallTypes /\ LoginInv /\ TakenInv)'
    BY <2>1, <2>2, DispatchKeeps DEF CallTypes
  <2>4. QueueInv'
    BY <2>1, QueueUntouched DEF Dispatch, Stages
  <2> QED
    BY <2>3, <2>4
<1>2. CASE ~(~webui \/ token # 0) /\ (locked \/ lockQueue # <<>>)
  <2>1. /\ httpStage' = [httpStage EXCEPT ![c] = "lock"]
        /\ lockQueue' = Append(lockQueue, c)
        /\ UNCHANGED <<locked, carries, resent, reply, taken, outcome>>
    BY <1>2 DEF Authenticate
  <2>2. (CallTypes /\ LoginInv /\ TakenInv)'
    BY <1>2, <2>1, WaitKeeps
  <2>3. QueueInv'
    BY <2>1, QueueGrows
  <2> QED
    BY <2>2, <2>3
<1>3. CASE ~(~webui \/ token # 0) /\ ~(locked \/ lockQueue # <<>>)
  <2>1. PostLogin(c) /\ lockQueue' = lockQueue
    BY <1>3 DEF Authenticate
  <2>2. (CallTypes /\ LoginInv /\ TakenInv)'
    BY <1>3, <2>1, PostKeeps
  <2>3. QueueInv'
    BY <2>1, QueueUntouched DEF PostLogin, EndsAs, Stages
  <2> QED
    BY <2>2, <2>3
<1> QED
  BY <1>1, <1>2, <1>3

LEMMA LockTakenKeeps == ASSUME ClientInv, LockTaken PROVE ClientInv'
<1> USE DEF ClientInv
<1> DEFINE c == Head(lockQueue)
<1>1. /\ ~locked /\ lockQueue # <<>> /\ lockQueue' = Tail(lockQueue) /\ UnderLock(c)
      /\ UNCHANGED <<webui, token, issued>>
  BY DEF LockTaken
<1>2. c \in HttpCalls /\ httpStage[c] = "lock"
  BY <1>1 DEF QueueInv
<1>3. webui
  BY <1>2 DEF LoginInv
<1>4. CASE token = 0
  <2>1. PostLogin(c)
    BY <1>1, <1>4 DEF UnderLock
  <2>2. (CallTypes /\ LoginInv /\ TakenInv)'
    BY <1>1, <1>2, <1>3, <1>4, <2>1, PostKeeps
  <2>3. QueueInv'
    BY <1>1, <2>1, QueueHead DEF PostLogin, EndsAs, Stages
  <2> QED
    BY <2>2, <2>3
<1>5. CASE token # 0
  <2>1. Dispatch(c, token) /\ locked' = FALSE
    BY <1>1, <1>5 DEF UnderLock
  <2>2. (CallTypes /\ LoginInv /\ TakenInv)'
    BY <1>1, <1>2, <1>3, <1>5, <2>1, DispatchKeeps DEF CallTypes
  <2>3. QueueInv'
    BY <1>1, <2>1, QueueHead DEF Dispatch, Stages
  <2> QED
    BY <2>2, <2>3
<1> QED
  BY <1>4, <1>5

LEMMA LoginStepKeeps == ASSUME ClientInv, NEW c \in HttpCalls, LoginStep(c) PROVE ClientInv'
<1> USE DEF ClientInv
<1>1. CASE StartCall(c)
  BY <1>1, AuthenticateKeeps DEF StartCall
<1>2. CASE LoggedIn(c)
  <2>1. /\ httpStage[c] = "login" /\ issued' = issued + 1 /\ token' = issued + 1 /\ locked' = FALSE
        /\ Dispatch(c, issued + 1) /\ UNCHANGED <<webui, lockQueue>>
    BY <1>2 DEF LoggedIn
  <2>2. webui /\ issued + 1 \in Nat /\ issued + 1 # 0
    BY <2>1 DEF LoginInv, CallTypes
  <2>3. (CallTypes /\ LoginInv /\ TakenInv)'
    BY <2>1, <2>2, DispatchKeeps
  <2>4. QueueInv'
    BY <2>1, QueueUntouched DEF Dispatch, Stages
  <2> QED
    BY <2>3, <2>4
<1>3. CASE LoginFails(c)
  <2>1. PICK result \in {"auth", "unknown", "unreachable", "answered"} : EndsAs(c, result)
    BY <1>3 DEF LoginFails
  <2>2. httpStage[c] = "login" /\ UNCHANGED <<webui, token, issued, lockQueue>>
    BY <1>3 DEF LoginFails
  <2>3. c \in RadioCalls => taken[c] = 0
    BY <2>2 DEF TakenInv
  <2>4. (CallTypes /\ LoginInv /\ TakenInv)'
    BY <2>1, <2>2, <2>3, EndKeeps DEF Outcomes
  <2>5. QueueInv'
    BY <2>1, <2>2, QueueUntouched DEF EndsAs, Stages
  <2> QED
    BY <2>4, <2>5
<1>4. CASE LeavesLock(c)
  <2>1. /\ httpStage[c] = "lock" /\ EndsAs(c, "unknown") /\ lockQueue' = Without(lockQueue, c)
        /\ UNCHANGED <<webui, token, issued, locked>>
    BY <1>4 DEF LeavesLock
  <2>2. (CallTypes /\ LoginInv /\ TakenInv)'
    BY <2>1, EndKeeps DEF Outcomes
  <2>3. QueueInv'
    BY <2>1, QueueLeft DEF EndsAs, Stages
  <2> QED
    BY <2>2, <2>3
<1> QED
  BY <1>1, <1>2, <1>3, <1>4 DEF LoginStep

\* A call that was sent or is an open stream ends.
LEMMA SentEnds ==
    ASSUME ClientInv, NEW c \in HttpCalls, httpStage[c] \in {"sending", "open"},
           NEW result \in Outcomes \ {"none"}, EndsAs(c, result),
           c \in RadioCalls /\ result \in {"unreachable", "expired", "auth"} => taken[c] = 0,
           token' \in {token, 0}, UNCHANGED <<webui, issued, locked, lockQueue>>
    PROVE  ClientInv'
<1> USE DEF ClientInv
<1>1. (CallTypes /\ LoginInv /\ TakenInv)'
  BY EndKeeps
<1>2. QueueInv'
  BY QueueUntouched DEF EndsAs, Stages
<1> QED
  BY <1>1, <1>2

LEMMA OutcomeRange ==
    ASSUME NEW status
    PROVE  /\ OutcomeOf(status) \in {"expired", "auth", "answered"}
           /\ OutcomeOf(status) # "answered" => status \in {"401", "403"}
  BY DEF OutcomeOf

\* The steps that leave the token and the lock alone, and what is read of them.
LEMMA RequestStepKeeps == ASSUME ClientInv, NEW c \in HttpCalls, RequestStep(c) PROVE ClientInv'
<1> USE DEF ClientInv
<1>1. CASE GatewayTakes(c)
  <2>1. PICK status \in Statuses :
          /\ httpStage[c] = "sending" /\ reply[c] = "none"
          /\ reply' = [reply EXCEPT ![c] = status]
          /\ taken' = [taken EXCEPT ![c] = IF c \in RadioCalls /\ status \in {"ok", "error"}
                                           THEN @ + 1 ELSE @]
          /\ UNCHANGED <<webui, token, issued, locked, lockQueue, httpStage, carries, outcome>>
    BY <1>1 DEF GatewayTakes, loginVars
  <2>2. CallTypes'
    BY <2>1 DEF CallTypes
  <2>3. LoginInv'
    BY <2>1 DEF LoginInv
  <2>4. QueueInv'
    BY <2>1, QueueSame
  <2>5. TakenInv'
    BY <2>1 DEF CallTypes, TakenInv, HttpCalls, Statuses
  <2> QED
    BY <2>2, <2>3, <2>4, <2>5
<1>2. CASE AnswerRead(c)
  <2>1. /\ httpStage[c] = "sending" /\ EndsAs(c, OutcomeOf(reply[c])) /\ token' \in {token, 0}
        /\ UNCHANGED <<webui, issued, locked, lockQueue>>
    BY <1>2 DEF AnswerRead
  <2>2. c \in RadioCalls /\ OutcomeOf(reply[c]) # "answered" => taken[c] = 0
    BY <2>1, OutcomeRange DEF TakenInv
  <2> QED
    BY <2>1, <2>2, OutcomeRange, SentEnds DEF Outcomes
<1>3. CASE AnswerUnreadable(c)
  BY <1>3, SentEnds DEF AnswerUnreadable, loginVars, Outcomes
<1>4. CASE BodyBreaks(c)
  <2>1. /\ httpStage[c] = "sending" /\ httpStage' = [httpStage EXCEPT ![c] = "done"]
        /\ outcome' = [outcome EXCEPT ![c] = "unreachable"]
        /\ reply' = [reply EXCEPT ![c] = "begun"]
        /\ UNCHANGED <<webui, token, issued, locked, lockQueue, carries, taken>>
    BY <1>4 DEF BodyBreaks, loginVars
  <2>2. CallTypes'
    BY <2>1 DEF CallTypes, Stages, Outcomes
  <2>3. LoginInv'
    BY <2>1 DEF CallTypes, LoginInv
  <2>4. QueueInv'
    BY <2>1, QueueUntouched DEF Stages
  <2>5. TakenInv'
    BY <2>1 DEF CallTypes, TakenInv, HttpCalls
  <2> QED
    BY <2>2, <2>3, <2>4, <2>5
<1>5. CASE ConnectFails(c)
  <2>1. c \in RadioCalls => taken[c] = 0
    BY <1>5 DEF ConnectFails, TakenInv
  <2> QED
    BY <1>5, <2>1, SentEnds DEF ConnectFails, loginVars, Outcomes
<1>6. CASE ConnectionBreaks(c)
  <2>1. httpStage[c] = "sending" /\ UNCHANGED <<webui, token, issued, locked, lockQueue>>
    BY <1>6 DEF ConnectionBreaks, loginVars
  <2>2. CASE SentAgain(c)
    <3>1. /\ c \notin RadioCalls /\ reply' = [reply EXCEPT ![c] = "none"]
          /\ UNCHANGED <<httpStage, carries, taken, outcome>>
      BY <1>6, <2>2 DEF ConnectionBreaks, SentAgain
    <3>2. CallTypes'
      BY <2>1, <3>1 DEF CallTypes
    <3>3. LoginInv' /\ QueueInv'
      BY <2>1, <3>1 DEF LoginInv, QueueInv
    <3>4. TakenInv'
      BY <2>1, <3>1 DEF CallTypes, TakenInv, HttpCalls
    <3> QED
      BY <3>2, <3>3, <3>4
  <2>3. CASE ~SentAgain(c)
    BY <1>6, <2>1, <2>3, SentEnds DEF ConnectionBreaks, BrokenAs, Outcomes
  <2> QED
    BY <2>2, <2>3
<1>7. CASE GivenUp(c)
  BY <1>7, SentEnds DEF GivenUp, loginVars, Outcomes
<1> QED
  BY <1>1, <1>2, <1>3, <1>4, <1>5, <1>6, <1>7 DEF RequestStep

LEMMA StreamsAreNoRadio == ASSUME NEW c \in StreamCalls PROVE c \in HttpCalls /\ c \notin RadioCalls
  BY ClientAssumption DEF HttpCalls

LEMMA StreamStepKeeps == ASSUME ClientInv, NEW c \in HttpCalls, StreamStep(c) PROVE ClientInv'
<1> USE DEF ClientInv
<1>1. CASE StreamFails(c)
  <2>1. /\ c \in StreamCalls /\ httpStage[c] = "sending" /\ EndsAs(c, OutcomeOf(reply[c]))
        /\ token' \in {token, 0} /\ UNCHANGED <<webui, issued, locked, lockQueue>>
    BY <1>1 DEF StreamFails
  <2> QED
    BY <2>1, StreamsAreNoRadio, OutcomeRange, SentEnds DEF Outcomes
<1>2. CASE StreamRefused(c)
  BY <1>2, StreamsAreNoRadio, AuthenticateKeeps DEF StreamRefused
<1>3. CASE StreamAccepted(c)
  <2>1. /\ c \in StreamCalls /\ httpStage[c] = "sending"
        /\ httpStage' = [httpStage EXCEPT ![c] = "open"]
        /\ UNCHANGED <<webui, token, issued, locked, lockQueue, carries, reply, taken, outcome>>
    BY <1>3 DEF StreamAccepted, loginVars
  <2>2. CallTypes'
    BY <2>1 DEF CallTypes, Stages
  <2>3. LoginInv'
    BY <2>1 DEF CallTypes, LoginInv
  <2>4. QueueInv'
    BY <2>1, QueueUntouched DEF Stages
  <2>5. TakenInv'
    BY <2>1, StreamsAreNoRadio DEF CallTypes, TakenInv, HttpCalls
  <2> QED
    BY <2>2, <2>3, <2>4, <2>5
<1>4. CASE StreamDelivers(c)
  <2>1. UNCHANGED <<webui, token, issued, locked, lockQueue, httpStage,
                    carries, reply, taken, outcome>>
    BY <1>4 DEF StreamDelivers, loginVars, callVars
  <2> QED
    BY <2>1 DEF CallTypes, LoginInv, QueueInv, TakenInv
<1>5. CASE StreamEnds(c)
  <2>1. c \notin RadioCalls
    BY <1>5 DEF StreamEnds, TakenInv
  <2> QED
    BY <1>5, <2>1, SentEnds DEF StreamEnds, loginVars, Outcomes
<1> QED
  BY <1>1, <1>2, <1>3, <1>4, <1>5 DEF StreamStep

LEMMA RestartKeeps == ASSUME ClientInv, GatewayRestarted PROVE ClientInv'
<1> USE DEF ClientInv
<1> DEFINE ended == {c \in StreamCalls : httpStage[c] \in {"sending", "open"}}
<1>1. /\ httpStage' = [c \in HttpCalls |-> IF c \in ended THEN "done" ELSE httpStage[c]]
      /\ outcome' = [c \in HttpCalls |-> IF c \in ended THEN "unknown" ELSE outcome[c]]
      /\ carries' = [c \in HttpCalls |-> IF c \in ended THEN 0 ELSE carries[c]]
      /\ reply' = [c \in HttpCalls |-> IF c \in ended THEN "none" ELSE reply[c]]
      /\ UNCHANGED <<webui, token, issued, locked, lockQueue, taken>>
  BY DEF GatewayRestarted, loginVars
<1>2. CallTypes'
  BY <1>1 DEF CallTypes, Stages, Outcomes
<1>3. LoginInv'
  BY <1>1 DEF CallTypes, LoginInv
<1>4. QueueInv'
  <2>1. \A c \in HttpCalls : httpStage'[c] = "lock" <=> httpStage[c] = "lock"
    BY <1>1
  <2> QED
    BY <1>1, <2>1, QueueSame
<1>5. TakenInv'
  <2>1. \A c \in RadioCalls : /\ httpStage'[c] = httpStage[c] /\ outcome'[c] = outcome[c]
                              /\ reply'[c] = reply[c]
    BY <1>1, StreamsAreNoRadio DEF HttpCalls
  <2> QED
    BY <1>1, <2>1 DEF TakenInv
<1> QED
  BY <1>2, <1>3, <1>4, <1>5

LEMMA ClientStep == ClientInv /\ [ClientNext]_ClientVars => ClientInv'
<1> SUFFICES ASSUME ClientInv, [ClientNext]_ClientVars PROVE ClientInv'
  OBVIOUS
<1>1. ASSUME NEW c \in HttpCalls, LoginStep(c) \/ RequestStep(c) \/ StreamStep(c) PROVE ClientInv'
  BY <1>1, LoginStepKeeps, RequestStepKeeps, StreamStepKeeps
<1>2. CASE LockTaken
  BY <1>2, LockTakenKeeps
<1>3. CASE GatewayRestarted
  BY <1>3, RestartKeeps
<1>4. CASE TokensExpire \/ UNCHANGED ClientVars
  <2>1. UNCHANGED <<webui, token, issued, locked, lockQueue, httpStage,
                    carries, reply, taken, outcome>>
    BY <1>4 DEF TokensExpire, ClientVars, loginVars, callVars
  <2> QED
    BY <2>1 DEF ClientInv, CallTypes, LoginInv, QueueInv, TakenInv
<1> QED
  BY <1>1, <1>2, <1>3, <1>4 DEF ClientNext

--------------------------------------------------------------------------------
\* Calls log in one at a time and only without a token, and none is sent without
\* the token it needs (_async_auth_headers).
THEOREM OneAtATime == ClientSpec => []OneLogin
<1>1. ClientInv => OneLogin
  <2> SUFFICES ASSUME ClientInv PROVE OneLogin
    OBVIOUS
  <2>1. \A c \in HttpCalls : httpStage[c] = "login" =>
            locked /\ token = 0 /\ \A d \in HttpCalls \ {c} : httpStage[d] # "login"
    BY DEF ClientInv, LoginInv
  <2>2. ASSUME NEW c \in HttpCalls, httpStage[c] = "sending" PROVE (carries[c] # 0) = webui
    <3>1. webui \in BOOLEAN /\ (webui <=> carries[c] # 0)
      BY <2>2 DEF ClientInv, LoginInv, CallTypes
    <3> QED
      BY <3>1, Zenon
  <2> QED
    BY <2>1, <2>2 DEF OneLogin
<1> QED
  BY <1>1, ClientInvInit, ClientStep, PTL DEF ClientSpec

\* The gateway acts at most once on a radio request, and not on one that is
\* reported as not sent (_send_once).
THEOREM TakenOnce == ClientSpec => []RadioTakenOnce
<1>1. ClientInv => RadioTakenOnce
  BY DEF ClientInv, TakenInv, RadioTakenOnce
<1> QED
  BY <1>1, ClientInvInit, ClientStep, PTL DEF ClientSpec

--------------------------------------------------------------------------------
(* The types of the client                                                  *)

\* The rest of the type invariant: tokens are numbers of logins.
TokenTypes ==
    /\ pinned \in BOOLEAN /\ locked \in BOOLEAN /\ lineRejected \in BOOLEAN
    /\ issued \in 0..MaxTokens
    /\ token \in 0..issued
    /\ acceptedTokens \subseteq 1..issued
    /\ carries \in [HttpCalls -> 0..issued]
    /\ resent \in [HttpCalls -> BOOLEAN]
    /\ fallback \subseteq StreamCalls

LEMMA TokenTypesInit == ClientInit => TokenTypes
<1> SUFFICES ASSUME ClientInit PROVE TokenTypes
  OBVIOUS
<1>1. pinned \in BOOLEAN
  BY DEF ClientInit
<1>2. issued \in 0..MaxTokens /\ token \in 0..issued
  BY ClientAssumption DEF ClientInit
<1>3. carries \in [HttpCalls -> 0..issued]
  BY DEF ClientInit
<1> QED
  BY <1>1, <1>2, <1>3 DEF ClientInit, TokenTypes

\* The three ways a call goes on carry a token that was issued.
LEMMA EndTyped ==
    ASSUME TokenTypes, NEW c \in HttpCalls, NEW result, EndsAs(c, result)
    PROVE  carries' \in [HttpCalls -> 0..issued] /\ resent' \in [HttpCalls -> BOOLEAN]
<1>1. issued \in Nat
  BY ClientAssumption DEF TokenTypes
<1> QED
  BY <1>1 DEF TokenTypes, EndsAs

LEMMA DispatchTyped ==
    ASSUME TokenTypes, NEW c \in HttpCalls, NEW n \in Nat, issued <= n, NEW with \in 0..n, Dispatch(c, with)
    PROVE  carries' \in [HttpCalls -> 0..n] /\ resent' \in [HttpCalls -> BOOLEAN]
<1>1. issued \in Nat
  BY ClientAssumption DEF TokenTypes
<1>2. 0..issued \subseteq 0..n
  BY <1>1
<1>3. carries \in [HttpCalls -> 0..n]
  BY <1>2 DEF TokenTypes
<1> QED
  BY <1>3 DEF TokenTypes, Dispatch

LEMMA PostTyped ==
    ASSUME TokenTypes, NEW c \in HttpCalls, PostLogin(c)
    PROVE  carries' \in [HttpCalls -> 0..issued] /\ resent' \in [HttpCalls -> BOOLEAN] /\ locked' \in BOOLEAN
<1>1. CASE pinned
  BY <1>1 DEF PostLogin, TokenTypes
<1>2. CASE ~pinned
  BY <1>2, EndTyped DEF PostLogin
<1> QED
  BY <1>1, <1>2

LEMMA AuthenticateTyped ==
    ASSUME TokenTypes, NEW c \in HttpCalls, Authenticate(c)
    PROVE  carries' \in [HttpCalls -> 0..issued] /\ resent' \in [HttpCalls -> BOOLEAN] /\ locked' \in BOOLEAN
<1>1. issued \in Nat /\ token \in 0..issued /\ locked \in BOOLEAN
  BY ClientAssumption DEF TokenTypes
<1>2. CASE ~webui \/ token # 0
  BY <1>1, <1>2, DispatchTyped DEF Authenticate
<1>3. CASE ~(~webui \/ token # 0) /\ (locked \/ lockQueue # <<>>)
  BY <1>3 DEF Authenticate, TokenTypes
<1>4. CASE ~(~webui \/ token # 0) /\ ~(locked \/ lockQueue # <<>>)
  BY <1>4, PostTyped DEF Authenticate
<1> QED
  BY <1>2, <1>3, <1>4

\* What a step must show that issues no token.
LEMMA NoTokenIssued ==
    ASSUME TokenTypes, UNCHANGED <<pinned, issued>>, token' \in {0, token},
           acceptedTokens' \in {{}, acceptedTokens},
           carries' \in [HttpCalls -> 0..issued], resent' \in [HttpCalls -> BOOLEAN],
           locked' \in BOOLEAN, lineRejected' \in BOOLEAN, fallback' \subseteq StreamCalls
    PROVE  TokenTypes'
<1>1. issued \in Nat /\ token \in 0..issued /\ acceptedTokens \subseteq 1..issued /\ issued' = issued
  BY ClientAssumption DEF TokenTypes
<1>2. token' \in 0..issued'
  BY <1>1
<1>3. acceptedTokens' \subseteq 1..issued'
  BY <1>1
<1>4. carries' \in [HttpCalls -> 0..issued']
  BY <1>1
<1> QED
  BY <1>1, <1>2, <1>3, <1>4 DEF TokenTypes

LEMMA LoginTyped == ASSUME ClientInv, TokenTypes, NEW c \in HttpCalls, LoginStep(c) PROVE TokenTypes'
<1>1. CASE StartCall(c)
  BY <1>1, AuthenticateTyped, NoTokenIssued DEF StartCall, framingVars, TokenTypes
<1>2. CASE LoggedIn(c)
  <2>1. issued \in Nat /\ issued + 1 \in 0..MaxTokens /\ issued + 1 \in 0..(issued + 1)
        /\ issued <= issued + 1 /\ issued + 1 \in Nat
    BY <1>2, ClientAssumption DEF LoggedIn, TokenTypes
  <2>2. /\ issued' = issued + 1 /\ token' = issued + 1
        /\ acceptedTokens' = acceptedTokens \cup {issued + 1}
        /\ locked' = FALSE /\ UNCHANGED <<pinned, framingVars>> /\ Dispatch(c, issued + 1)
    BY <1>2 DEF LoggedIn
  <2>3. carries' \in [HttpCalls -> 0..(issued + 1)] /\ resent' \in [HttpCalls -> BOOLEAN]
    BY <2>1, <2>2, DispatchTyped
  <2>4. acceptedTokens' \subseteq 1..issued'
    BY <2>1, <2>2 DEF TokenTypes
  <2> QED
    BY <2>1, <2>2, <2>3, <2>4 DEF TokenTypes, framingVars
<1>3. CASE LoginFails(c)
  BY <1>3, EndTyped, NoTokenIssued DEF LoginFails, ReleasesLock, framingVars, TokenTypes
<1>4. CASE LeavesLock(c)
  BY <1>4, EndTyped, NoTokenIssued DEF LeavesLock, framingVars, TokenTypes
<1> QED
  BY <1>1, <1>2, <1>3, <1>4 DEF LoginStep

LEMMA RequestTyped == ASSUME ClientInv, TokenTypes, NEW c \in HttpCalls, RequestStep(c) PROVE TokenTypes'
<1>1. /\ UNCHANGED <<pinned, issued, acceptedTokens, locked, framingVars>> /\ token' \in {0, token}
  BY DEF RequestStep, GatewayTakes, AnswerRead, AnswerUnreadable, BodyBreaks, ConnectFails,
         ConnectionBreaks, GivenUp, loginVars, framingVars
<1>2. carries' \in [HttpCalls -> 0..issued] /\ resent' \in [HttpCalls -> BOOLEAN]
  <2>1. ASSUME NEW result, EndsAs(c, result)
        PROVE  carries' \in [HttpCalls -> 0..issued] /\ resent' \in [HttpCalls -> BOOLEAN]
    BY <2>1, EndTyped
  <2>2. CASE GatewayTakes(c) \/ BodyBreaks(c)
    BY <2>2 DEF GatewayTakes, BodyBreaks, TokenTypes
  <2>3. CASE ConnectionBreaks(c)
    <3>1. CASE SentAgain(c)
      BY <2>3, <3>1 DEF ConnectionBreaks, TokenTypes
    <3>2. CASE ~SentAgain(c)
      BY <2>1, <2>3, <3>2 DEF ConnectionBreaks
    <3> QED
      BY <3>1, <3>2
  <2>4. CASE AnswerRead(c) \/ AnswerUnreadable(c) \/ ConnectFails(c) \/ GivenUp(c)
    BY <2>1, <2>4 DEF AnswerRead, AnswerUnreadable, ConnectFails, GivenUp
  <2> QED
    BY <2>2, <2>3, <2>4 DEF RequestStep
<1> QED
  BY <1>1, <1>2, NoTokenIssued DEF TokenTypes, framingVars

LEMMA StreamTyped == ASSUME ClientInv, TokenTypes, NEW c \in HttpCalls, StreamStep(c) PROVE TokenTypes'
<1>1. CASE StreamFails(c)
  BY <1>1, EndTyped, NoTokenIssued DEF StreamFails, framingVars, TokenTypes
<1>2. CASE StreamRefused(c)
  BY <1>2, AuthenticateTyped, NoTokenIssued DEF StreamRefused, TokenTypes
<1>3. CASE StreamAccepted(c) \/ StreamDelivers(c)
  BY <1>3, NoTokenIssued DEF StreamAccepted, StreamDelivers, loginVars, callVars, framingVars, TokenTypes
<1>4. CASE StreamEnds(c)
  BY <1>4, EndTyped, NoTokenIssued DEF StreamEnds, loginVars, framingVars, TokenTypes
<1> QED
  BY <1>1, <1>2, <1>3, <1>4 DEF StreamStep

LEMMA TokenTypesStep == ClientInv /\ TokenTypes /\ [ClientNext]_ClientVars => TokenTypes'
<1> SUFFICES ASSUME ClientInv, TokenTypes, [ClientNext]_ClientVars PROVE TokenTypes'
  OBVIOUS
<1>1. CASE LockTaken
  <2> DEFINE c == Head(lockQueue)
  <2>1. c \in HttpCalls
    BY <1>1 DEF LockTaken, ClientInv, QueueInv
  <2>2. UnderLock(c) /\ UNCHANGED <<pinned, token, issued, acceptedTokens, framingVars>>
    BY <1>1 DEF LockTaken
  <2> HIDE DEF c
  <2>3. /\ carries' \in [HttpCalls -> 0..issued] /\ resent' \in [HttpCalls -> BOOLEAN] /\ locked' \in BOOLEAN
    <3>1. issued \in Nat /\ token \in 0..issued
      BY ClientAssumption DEF TokenTypes
    <3>2. CASE token = 0
      BY <2>1, <2>2, <3>2, PostTyped DEF UnderLock
    <3>3. CASE token # 0
      <4>1. Dispatch(c, token) /\ locked' = FALSE
        BY <2>2, <3>3 DEF UnderLock
      <4>2. issued <= issued
        BY <3>1
      <4>3. carries' \in [HttpCalls -> 0..issued] /\ resent' \in [HttpCalls -> BOOLEAN]
        BY <2>1, <3>1, <4>1, <4>2, DispatchTyped
      <4>4. locked' \in BOOLEAN
        BY <4>1
      <4> QED
        BY <4>3, <4>4
    <3> QED
      BY <3>2, <3>3
  <2> QED
    BY <2>2, <2>3, NoTokenIssued DEF framingVars, TokenTypes
<1>2. CASE TokensExpire
  BY <1>2, NoTokenIssued DEF TokensExpire, callVars, framingVars, TokenTypes
<1>3. CASE GatewayRestarted
  <2>1. issued \in Nat
    BY ClientAssumption DEF TokenTypes
  <2>2. carries' \in [HttpCalls -> 0..issued] /\ resent' \in [HttpCalls -> BOOLEAN]
    <3> DEFINE ended == {c \in StreamCalls : httpStage[c] \in {"sending", "open"}}
    <3>1. /\ carries' = [c \in HttpCalls |-> IF c \in ended THEN 0 ELSE carries[c]]
          /\ resent' = [c \in HttpCalls |-> IF c \in ended THEN FALSE ELSE resent[c]]
      BY <1>3 DEF GatewayRestarted
    <3>2. carries \in [HttpCalls -> 0..issued] /\ resent \in [HttpCalls -> BOOLEAN] /\ 0 \in 0..issued
      BY <2>1 DEF TokenTypes
    <3> HIDE DEF ended
    <3>3. \A c \in HttpCalls : resent[c] \in BOOLEAN /\ carries[c] \in 0..issued
      BY <3>2
    <3>4. \A c \in HttpCalls : (IF c \in ended THEN FALSE ELSE resent[c]) \in BOOLEAN
      BY <3>3
    <3> QED
      BY <3>1, <3>2, <3>3, <3>4
  <2> QED
    BY <1>3, <2>2, NoTokenIssued DEF GatewayRestarted, loginVars, TokenTypes
<1>4. CASE UNCHANGED ClientVars
  BY <1>4, NoTokenIssued DEF ClientVars, loginVars, callVars, framingVars, TokenTypes
<1> QED
  BY <1>1, <1>2, <1>3, <1>4, LoginTyped, RequestTyped, StreamTyped DEF ClientNext

LEMMA ClientTyped == ClientInv /\ TokenTypes => ClientTypeOK
  BY DEF ClientInv, CallTypes, QueueInv, TokenTypes, ClientTypeOK

\* For any set of calls, the variables of the client have their types: no token is
\* kept, carried or accepted that the gateway has not issued.
THEOREM ClientTyping == ClientSpec => []ClientTypeOK
  BY ClientInvInit, ClientStep, TokenTypesInit, TokenTypesStep, ClientTyped, PTL DEF ClientSpec

--------------------------------------------------------------------------------
(* The forms, the discovery and the search                                  *)

\* The types of the gateway and the hosts, of what is stored and of the forms.
WorldTypes ==
    /\ at \in Networks
    /\ gateway \in [{"home", "other"} -> Gateways]
    /\ changes \in 0..MaxChanges
    /\ gateway["home"].certificate <= changes + 1

EntryTypes ==
    /\ entry \in Entries
    /\ verified \subseteq Connections
    /\ confirmed \subseteq Certificates
    /\ guessed \subseteq Hosts

FormTypes ==
    /\ form.stage \in {"closed", "shown", "detecting", "review", "reading"}
    /\ form.stage # "closed" => form.kind \in Kinds /\ form.trusted \in Certificates \cup {0}
    /\ form.stage \in {"detecting", "review"} => form.input \in Inputs
    /\ form.stage = "detecting" => form.known \in Entries
    /\ form.stage = "review" => form.certificate \in Certificates
    /\ form.stage = "reading" => form.connection \in Connections

\* What an announcement has asked is the entry it found, with the new address.
DiscoveryInv ==
    /\ discovery.stage \in {"idle", "asking", "answered"}
    /\ discovery.stage # "idle" =>
          /\ discovery.known \in Entries
          /\ \E h \in Hosts : discovery.connection =
                IF Connected(discovery.known) THEN [discovery.known EXCEPT !.host = h] ELSE DefaultAt(h)
    /\ discovery.stage = "answered" /\ discovery.found = "home" => discovery.connection \in verified

\* The search keeps the hosts that answered as Home, and a guess.
SearchInv ==
    /\ search.stage \in {"idle", "asking", "answered"}
    /\ search.stage = "answered" =>
          \A h \in search.located : h \in Hosts /\ (DefaultAt(h) \in verified \/ h \in guessed)

\* Whatever may become the certificate of the entry was confirmed.
ConfirmedInv ==
    /\ Connected(entry) => entry.certificate \in confirmed \cup {0}
    /\ form.stage # "closed" => form.trusted \in confirmed \cup {0}
    /\ form.stage = "detecting" /\ Connected(form.known) => form.known.certificate \in confirmed \cup {0}
    /\ form.stage = "reading" => form.connection.certificate \in confirmed \cup {0}
    /\ discovery.stage # "idle" => discovery.connection.certificate \in confirmed \cup {0}

FlowInv ==
    /\ WorldTypes /\ EntryTypes /\ FormTypes /\ DiscoveryInv /\ SearchInv
    /\ ConfirmedInv

\* Connections, entries and their parts.
LEMMA ConnectionTyped ==
    ASSUME NEW input \in Inputs, NEW generation \in Generations,
           NEW certificate \in Certificates \cup {0}
    PROVE  /\ Connection(input, generation, certificate) \in Connections
           /\ Connection(input, generation, certificate).certificate = certificate
  BY DEF Connection, Connections, Inputs, Ports, Generations

LEMMA DefaultTyped ==
    ASSUME NEW h \in Hosts
    PROVE  /\ DefaultAt(h) \in Connections /\ DefaultAt(h).certificate = 0
           /\ DefaultAt(h).generation = "legacy"
  BY DEF DefaultAt, Connection, Connections, Ports, Passwords, Generations

LEMMA MovedTyped ==
    ASSUME NEW e \in Connections, NEW h \in Hosts
    PROVE  /\ [e EXCEPT !.host = h] \in Connections
           /\ [e EXCEPT !.host = h].certificate = e.certificate
           /\ [e EXCEPT !.host = h].generation = e.generation
  BY DEF Connections

LEMMA EntryTyped ==
    ASSUME NEW e \in Entries
    PROVE  Connected(e) => e \in Connections
  BY DEF Entries, Connected

LEMMA NoneIsEntry ==
    NoConnection \in Entries /\ NoEntry \in Entries /\ ~Connected(NoConnection) /\ ~Connected(NoEntry)
  BY DEF Entries, Connected

LEMMA StoredOverTyped ==
    ASSUME NEW e \in Entries, NEW c \in Connections
    PROVE  /\ StoredOver(e, c) \in Connections
           /\ StoredOver(e, c).certificate \in
                 {c.certificate} \cup (IF Connected(e) THEN {e.certificate} ELSE {})
           /\ StoredOver(e, c) \in {c, [c EXCEPT !.generation = e.generation, !.certificate = e.certificate]}
           /\ ~Connected(e) => StoredOver(e, c) = c
           /\ Connected(e) /\ (\E h \in Hosts : c = [e EXCEPT !.host = h]) => StoredOver(e, c) = c
<1>1. CASE Connected(e) /\ c.generation = "legacy"
  <2>1. e \in Connections
    BY <1>1, EntryTyped
  <2>2. StoredOver(e, c) = [c EXCEPT !.generation = e.generation, !.certificate = e.certificate]
    BY <1>1 DEF StoredOver
  <2>3. /\ StoredOver(e, c) \in Connections /\ StoredOver(e, c).certificate = e.certificate
    BY <2>1, <2>2 DEF Connections
  <2>4. ASSUME NEW h \in Hosts, c = [e EXCEPT !.host = h] PROVE StoredOver(e, c) = c
    <3>1. c.generation = e.generation /\ c.certificate = e.certificate
      BY <2>1, <2>4 DEF Connections
    <3> QED
      BY <2>2, <3>1 DEF Connections
  <2> QED
    BY <1>1, <2>2, <2>3, <2>4
<1>2. CASE ~(Connected(e) /\ c.generation = "legacy")
  BY <1>2 DEF StoredOver
<1> QED
  BY <1>1, <1>2

LEMMA FlowStarts == FlowInit => FlowInv
<1> SUFFICES ASSUME FlowInit PROVE FlowInv
  OBVIOUS
<1> USE DEF FlowInit
<1>1. WorldTypes
  <2>1. 0 \in 0..MaxChanges /\ 1 <= 0 + 1
    BY FlowAssumption
  <2> QED
    BY <2>1 DEF WorldTypes
<1>2. EntryTypes /\ ~Connected(entry)
  BY NoneIsEntry DEF EntryTypes
<1>3. form.stage = "closed" /\ discovery.stage = "idle" /\ search.stage = "idle"
  BY DEF Closed, Quiet
<1> QED
  BY <1>1, <1>2, <1>3 DEF FlowInv, FormTypes, DiscoveryInv, SearchInv, ConfirmedInv

\* What the parts of the invariant say does not change when their variables do not.
\* More connections may be verified, more hosts guessed, more certificates confirmed.
LEMMA WorldRests ==
    ASSUME FlowInv, UNCHANGED worldVars PROVE WorldTypes'
  BY DEF FlowInv, worldVars, WorldTypes

LEMMA SearchRests ==
    ASSUME FlowInv, UNCHANGED search, verified \subseteq verified', guessed \subseteq guessed'
    PROVE  SearchInv'
  BY DEF FlowInv, SearchInv, DefaultAt, Connection

LEMMA DiscoveryRests ==
    ASSUME FlowInv, UNCHANGED discovery, verified \subseteq verified' PROVE DiscoveryInv'
  BY DEF FlowInv, DiscoveryInv, Connected, DefaultAt, Connection

LEMMA FormRests ==
    ASSUME FlowInv, UNCHANGED form PROVE FormTypes'
  BY DEF FlowInv, FormTypes

LEMMA WorldKeeps == ASSUME FlowInv, WorldChanges PROVE FlowInv'
<1>1. UNCHANGED <<entry, form, discovery, search, verified, confirmed, guessed>>
  BY DEF WorldChanges
<1>2. changes \in 0..MaxChanges /\ changes' = changes + 1 /\ changes' \in 0..MaxChanges
  BY FlowAssumption DEF WorldChanges, FlowInv, WorldTypes
<1>3. at \in Networks /\ gateway \in [{"home", "other"} -> Gateways]
  BY DEF FlowInv, WorldTypes
<1>4. at' \in Networks
  BY <1>3 DEF WorldChanges
<1>5. /\ gateway' \in [{"home", "other"} -> Gateways]
      /\ gateway'["home"].certificate <= changes' + 1
  <2>1. gateway["home"].certificate \in Nat /\ gateway["home"].certificate <= changes + 1
    BY <1>3 DEF FlowInv, WorldTypes, Gateways, Certificates
  <2>2. gateway["home"].certificate + 1 \in Certificates
    BY <1>2, <2>1, FlowAssumption DEF Certificates
  <2>3. \/ gateway' = gateway
        \/ \E g \in Generations : gateway' = [gateway EXCEPT !["home"].generation = g]
        \/ gateway' = [gateway EXCEPT !["home"].certificate = @ + 1]
        \/ \E p \in Passwords : gateway' = [gateway EXCEPT !["home"].password = p]
    BY DEF WorldChanges
  <2>4. gateway' \in [{"home", "other"} -> Gateways]
    BY <1>3, <2>2, <2>3 DEF Gateways
  <2>5. gateway'["home"].certificate \in {gateway["home"].certificate, gateway["home"].certificate + 1}
    BY <1>3, <2>3 DEF Gateways
  <2> QED
    BY <1>2, <2>1, <2>4, <2>5
<1>6. WorldTypes'
  BY <1>2, <1>4, <1>5 DEF WorldTypes
<1>7. FormTypes' /\ DiscoveryInv' /\ SearchInv'
  BY <1>1, FormRests, DiscoveryRests, SearchRests
<1> QED
  BY <1>1, <1>6, <1>7 DEF FlowInv, EntryTypes, ConfirmedInv, Connected

\* A step of the flow with the forms that leaves entry and histories alone.
LEMMA OnlyFormMoves ==
    ASSUME FlowInv, UNCHANGED <<worldVars, entry, discovery, search, verified, confirmed, guessed>>,
           FormTypes',
           form'.stage # "closed" => form'.trusted \in confirmed \cup {0},
           form'.stage = "detecting" /\ Connected(form'.known)
               => form'.known.certificate \in confirmed \cup {0},
           form'.stage = "reading" => form'.connection.certificate \in confirmed \cup {0}
    PROVE  FlowInv'
<1>1. WorldTypes' /\ SearchInv' /\ DiscoveryInv'
  BY WorldRests, SearchRests, DiscoveryRests
<1>2. EntryTypes'
  BY DEF FlowInv, EntryTypes
<1>3. ConfirmedInv'
  BY DEF FlowInv, ConfirmedInv, Connected
<1> QED
  BY <1>1, <1>2, <1>3 DEF FlowInv

LEMMA OpenFormKeeps == ASSUME FlowInv, NEW kind \in Kinds, OpenForm(kind) PROVE FlowInv'
<1>1. /\ form'.stage = "shown" /\ form'.kind = kind /\ form'.trusted = 0
  BY DEF OpenForm, ShowForm
<1>2. FormTypes'
  BY <1>1 DEF FormTypes
<1> QED
  BY <1>1, <1>2, OnlyFormMoves DEF OpenForm

\* The entry a form is told of: of the right kind, its certificate confirmed.
LEMMA KnownTyped ==
    ASSUME FlowInv, NEW k, NEW h
    PROVE  /\ Known(k, h) \in Entries
           /\ Connected(Known(k, h)) => Known(k, h).certificate \in confirmed \cup {0}
  BY NoneIsEntry DEF Known, FlowInv, EntryTypes, ConfirmedInv

LEMMA SubmitKeeps == ASSUME FlowInv, NEW input \in Inputs, Submit(input) PROVE FlowInv'
<1> DEFINE k == Known(form.kind, input.host)
<1>1. k \in Entries /\ (Connected(k) => k.certificate \in confirmed \cup {0})
  BY KnownTyped
<1>2. form' = [stage |-> "detecting", kind |-> form.kind, input |-> input, trusted |-> form.trusted,
               known |-> k]
  BY DEF Submit, Submitted
<1>3. /\ form.kind \in Kinds /\ form.trusted \in Certificates \cup {0}
      /\ form.trusted \in confirmed \cup {0}
  BY DEF Submit, FlowInv, FormTypes, ConfirmedInv
<1> HIDE DEF k
<1>4. /\ form'.stage = "detecting" /\ form'.kind = form.kind /\ form'.input = input
      /\ form'.trusted = form.trusted /\ form'.known = k
  BY <1>2
<1>5. FormTypes'
  BY <1>1, <1>3, <1>4 DEF FormTypes
<1> QED
  BY <1>1, <1>3, <1>4, <1>5, OnlyFormMoves DEF Submit

LEMMA DetectedTyped ==
    ASSUME FlowInv, NEW h \in Hosts PROVE Detected(h) \in Certificates \cup {0}
<1>1. at[h] # "nothing" => gateway[at[h]] \in Gateways
  BY DEF FlowInv, WorldTypes, Networks
<1> QED
  BY <1>1 DEF Gateways, Detected

LEMMA DetectKeeps == ASSUME FlowInv, Detect PROVE FlowInv'
<1> DEFINE certificate == Detected(form.input.host)
           web == Connection(form.input, "webui", certificate)
           legacy == Connection(form.input, "legacy", 0)
           reading(c) == [stage |-> "reading", kind |-> form.kind, trusted |-> form.trusted,
                          connection |-> c]
           review == [stage |-> "review", kind |-> form.kind, trusted |-> form.trusted,
                      input |-> form.input, certificate |-> certificate]
<1>1. /\ form.stage = "detecting" /\ form.kind \in Kinds /\ form.input \in Inputs
      /\ form.trusted \in Certificates \cup {0} /\ form.trusted \in confirmed \cup {0}
      /\ form.known \in Entries
      /\ Connected(form.known) => form.known.certificate \in confirmed \cup {0}
  BY DEF Detect, FlowInv, FormTypes, ConfirmedInv
<1>2. certificate \in Certificates \cup {0}
  BY <1>1, DetectedTyped DEF Inputs
<1>3. UNCHANGED <<worldVars, entry, discovery, search, verified, confirmed, guessed>>
  BY DEF Detect
<1>4. \/ certificate # 0 /\ Trusts(form, certificate) /\ form' = reading(web)
      \/ certificate # 0 /\ form' = review
      \/ form' = ShowForm(form.kind, form.trusted)
      \/ form' = reading(legacy)
  BY DEF Detect
<1>5. /\ web \in Connections /\ web.certificate = certificate
      /\ legacy \in Connections /\ legacy.certificate = 0
  BY <1>1, <1>2, ConnectionTyped DEF Generations
<1> HIDE DEF web, legacy, certificate
<1>6. CASE certificate # 0 /\ Trusts(form, certificate) /\ form' = reading(web)
  <2>1. certificate \in confirmed \cup {0}
    BY <1>1, <1>6 DEF Trusts
  <2>2. /\ form'.stage = "reading" /\ form'.kind = form.kind /\ form'.trusted = form.trusted
        /\ form'.connection = web
    BY <1>6
  <2>3. FormTypes'
    BY <1>1, <1>5, <2>2 DEF FormTypes
  <2> QED
    BY <1>1, <1>3, <1>5, <2>1, <2>2, <2>3, OnlyFormMoves
<1>7. CASE certificate # 0 /\ form' = review
  <2>1. /\ form'.stage = "review" /\ form'.kind = form.kind /\ form'.trusted = form.trusted
        /\ form'.input = form.input /\ form'.certificate = certificate
    BY <1>7
  <2>2. FormTypes'
    BY <1>1, <1>2, <1>7, <2>1 DEF FormTypes
  <2> QED
    BY <1>1, <1>3, <2>1, <2>2, OnlyFormMoves
<1>8. CASE form' = ShowForm(form.kind, form.trusted)
  <2>1. form'.stage = "shown" /\ form'.kind = form.kind /\ form'.trusted = form.trusted
    BY <1>8 DEF ShowForm
  <2>2. FormTypes'
    BY <1>1, <2>1 DEF FormTypes
  <2> QED
    BY <1>1, <1>3, <2>1, <2>2, OnlyFormMoves
<1>9. CASE form' = reading(legacy)
  <2>1. /\ form'.stage = "reading" /\ form'.kind = form.kind /\ form'.trusted = form.trusted
        /\ form'.connection = legacy
    BY <1>9
  <2>2. FormTypes'
    BY <1>1, <1>5, <2>1 DEF FormTypes
  <2> QED
    BY <1>1, <1>3, <1>5, <2>1, <2>2, OnlyFormMoves
<1> QED
  BY <1>4, <1>6, <1>7, <1>8, <1>9

LEMMA ConfirmKeeps == ASSUME FlowInv, ConfirmCertificate PROVE FlowInv'
<1> DEFINE k == Known(form.kind, form.input.host)
<1>1. k \in Entries /\ (Connected(k) => k.certificate \in confirmed \cup {0})
  BY KnownTyped
<1>2. form' = [stage |-> "detecting", kind |-> form.kind, input |-> form.input,
               trusted |-> form.certificate, known |-> k]
  BY DEF ConfirmCertificate, Submitted
<1>3. /\ form.kind \in Kinds /\ form.input \in Inputs /\ form.certificate \in Certificates
  BY DEF ConfirmCertificate, FlowInv, FormTypes
<1> HIDE DEF k
<1>4. /\ form'.stage = "detecting" /\ form'.kind = form.kind /\ form'.input = form.input
      /\ form'.trusted = form.certificate /\ form'.known = k
  BY <1>2
<1>5. /\ UNCHANGED <<worldVars, entry, discovery, search, verified, guessed>>
      /\ confirmed' = confirmed \cup {form.certificate}
  BY DEF ConfirmCertificate
<1>6. FormTypes'
  BY <1>1, <1>3, <1>4 DEF FormTypes
<1>7. WorldTypes' /\ SearchInv' /\ DiscoveryInv'
  BY <1>5, WorldRests, SearchRests, DiscoveryRests
<1>8. EntryTypes'
  BY <1>3, <1>5 DEF FlowInv, EntryTypes
<1>9. ConfirmedInv'
  BY <1>1, <1>4, <1>5 DEF FlowInv, ConfirmedInv, Connected
<1> QED
  BY <1>6, <1>7, <1>8, <1>9 DEF FlowInv

LEMMA ValidatedKeeps == ASSUME FlowInv, Validated PROVE FlowInv'
<1> DEFINE c == form.connection
<1>1. /\ form.stage = "reading" /\ form.kind \in Kinds /\ c \in Connections
      /\ c.certificate \in confirmed \cup {0}
      /\ form.trusted \in Certificates \cup {0} /\ form.trusted \in confirmed \cup {0}
  BY DEF Validated, FlowInv, FormTypes, ConfirmedInv
<1>2. /\ UNCHANGED <<worldVars, discovery, search, confirmed, guessed>>
      /\ verified' \subseteq Connections /\ verified \subseteq verified'
  BY <1>1 DEF Validated, Verify, FlowInv, EntryTypes
<1>3. \/ entry' = c /\ c \in verified' /\ form' = Closed
      \/ entry' = entry /\ form' \in {Closed, ShowForm(form.kind, form.trusted)}
  BY DEF Validated, Verify, StoredBy
<1>4. WorldTypes' /\ SearchInv' /\ DiscoveryInv'
  BY <1>2, WorldRests, SearchRests, DiscoveryRests
<1>5. /\ FormTypes'
      /\ form'.stage \in {"closed", "shown"} /\ (form'.stage # "closed" => form'.trusted = form.trusted)
  BY <1>1, <1>3 DEF FormTypes, ShowForm, Closed
<1>6. EntryTypes'
  BY <1>1, <1>2, <1>3 DEF FlowInv, EntryTypes, Entries
<1>7. ConfirmedInv'
  BY <1>1, <1>2, <1>3, <1>5 DEF FlowInv, ConfirmedInv, Connected
<1> QED
  BY <1>4, <1>5, <1>6, <1>7 DEF FlowInv

LEMMA CloseFormKeeps == ASSUME FlowInv, CloseForm PROVE FlowInv'
<1>1. form'.stage = "closed"
  BY DEF CloseForm, Closed
<1>2. FormTypes'
  BY <1>1 DEF FormTypes
<1> QED
  BY <1>1, <1>2, OnlyFormMoves DEF CloseForm

\* A step of the flow of an announcement, or of the search, that leaves the forms alone.
LEMMA AnnouncedKeeps == ASSUME FlowInv, NEW h \in Hosts, Announced(h) PROVE FlowInv'
<1> DEFINE c == IF Connected(entry) THEN [entry EXCEPT !.host = h] ELSE DefaultAt(h)
<1>1. discovery' = [stage |-> "asking", known |-> entry, connection |-> c]
  BY DEF Announced
<1>2. UNCHANGED <<worldVars, entry, form, search, verified, confirmed, guessed>>
  BY DEF Announced
<1>3. entry \in Entries /\ c.certificate \in confirmed \cup {0}
  BY EntryTyped, MovedTyped, DefaultTyped DEF FlowInv, EntryTypes, ConfirmedInv
<1>4. discovery'.stage = "asking" /\ discovery'.known = entry /\ discovery'.connection = c
  BY <1>1
<1>5. DiscoveryInv'
  <2>1. \E g \in Hosts : c = IF Connected(entry) THEN [entry EXCEPT !.host = g] ELSE DefaultAt(g)
    OBVIOUS
  <2> HIDE DEF c
  <2> QED
    BY <1>3, <1>4, <2>1 DEF DiscoveryInv, Connected, DefaultAt, Connection
<1> HIDE DEF c
<1>6. WorldTypes' /\ SearchInv' /\ FormTypes'
  BY <1>2, WorldRests, SearchRests, FormRests
<1>7. EntryTypes'
  BY <1>2 DEF FlowInv, EntryTypes
<1>8. ConfirmedInv'
  BY <1>2, <1>3, <1>4 DEF FlowInv, ConfirmedInv, Connected
<1> QED
  BY <1>5, <1>6, <1>7, <1>8 DEF FlowInv

\* What an announcement asks is a connection.
LEMMA AskedTyped ==
    ASSUME FlowInv, discovery.stage # "idle" PROVE discovery.connection \in Connections
  BY EntryTyped, MovedTyped, DefaultTyped DEF FlowInv, DiscoveryInv

LEMMA AnsweredKeeps == ASSUME FlowInv, DiscoveryAnswered PROVE FlowInv'
<1> DEFINE c == discovery.connection
<1>1. /\ discovery.stage = "asking" /\ c \in Connections /\ discovery.known \in Entries
      /\ \E h \in Hosts : c = IF Connected(discovery.known) THEN [discovery.known EXCEPT !.host = h]
                              ELSE DefaultAt(h)
      /\ c.certificate \in confirmed \cup {0}
  BY AskedTyped DEF DiscoveryAnswered, FlowInv, DiscoveryInv, ConfirmedInv
<1>2. /\ discovery'.stage = "answered" /\ discovery'.known = discovery.known
      /\ discovery'.connection = c /\ (discovery'.found = "home" => c \in verified')
      /\ verified \subseteq verified' /\ verified' \subseteq Connections
  BY <1>1 DEF DiscoveryAnswered, Verify, FlowInv, EntryTypes
<1>3. UNCHANGED <<worldVars, entry, form, search, confirmed, guessed>>
  BY DEF DiscoveryAnswered
<1> HIDE DEF c
<1>4. DiscoveryInv'
  BY <1>1, <1>2 DEF DiscoveryInv, Connected, DefaultAt, Connection
<1>5. WorldTypes' /\ SearchInv' /\ FormTypes'
  BY <1>2, <1>3, WorldRests, SearchRests, FormRests
<1>6. EntryTypes'
  BY <1>2, <1>3 DEF FlowInv, EntryTypes
<1>7. ConfirmedInv'
  BY <1>1, <1>2, <1>3 DEF FlowInv, ConfirmedInv, Connected
<1> QED
  BY <1>4, <1>5, <1>6, <1>7 DEF FlowInv

\* What an adopted answer stores.
LEMMA Adopted ==
    ASSUME FlowInv, AdoptAddress, entry' # entry
    PROVE  LET c == discovery.connection
           IN  /\ discovery.stage = "answered" /\ c \in verified
               /\ entry' \in Connections /\ entry'.certificate \in confirmed \cup {0}
               /\ entry = discovery.known => entry' = c
               /\ entry' \in {c, [c EXCEPT !.generation = entry.generation,
                                          !.certificate = entry.certificate]}
<1> DEFINE c == discovery.connection
<1>1. /\ discovery.stage = "answered" /\ c \in Connections /\ discovery.known \in Entries
      /\ \E h \in Hosts : c = IF Connected(discovery.known) THEN [discovery.known EXCEPT !.host = h]
                              ELSE DefaultAt(h)
      /\ c.certificate \in confirmed \cup {0}
      /\ discovery.found = "home" => c \in verified
  BY AskedTyped DEF AdoptAddress, FlowInv, DiscoveryInv, ConfirmedInv
<1>2. entry' = StoredOver(entry, c) /\ discovery.found = "home"
  BY DEF AdoptAddress, Adopts
<1>3. /\ entry \in Entries
      /\ Connected(entry) => entry.certificate \in confirmed \cup {0}
  BY DEF FlowInv, EntryTypes, ConfirmedInv
<1> HIDE DEF c
<1>4. /\ entry' \in Connections
      /\ entry'.certificate \in {c.certificate} \cup (IF Connected(entry) THEN {entry.certificate} ELSE {})
      /\ entry' \in {c, [c EXCEPT !.generation = entry.generation, !.certificate = entry.certificate]}
      /\ ~Connected(entry) => entry' = c
      /\ Connected(entry) /\ (\E h \in Hosts : c = [entry EXCEPT !.host = h]) => entry' = c
  <2>1. entry \in Entries /\ c \in Connections
    BY <1>1, <1>3
  <2>2. /\ StoredOver(entry, c) \in Connections
        /\ StoredOver(entry, c).certificate \in
              {c.certificate} \cup (IF Connected(entry) THEN {entry.certificate} ELSE {})
        /\ StoredOver(entry, c) \in
              {c, [c EXCEPT !.generation = entry.generation, !.certificate = entry.certificate]}
        /\ ~Connected(entry) => StoredOver(entry, c) = c
        /\ Connected(entry) /\ (\E h \in Hosts : c = [entry EXCEPT !.host = h]) => StoredOver(entry, c) = c
    BY <2>1, StoredOverTyped
  <2> QED
    BY <1>2, <2>2
<1>5. entry = discovery.known => entry' = c
  BY <1>1, <1>4
<1>6. entry'.certificate \in confirmed \cup {0}
  BY <1>1, <1>3, <1>4
<1> QED
  BY <1>1, <1>2, <1>4, <1>5, <1>6 DEF c

LEMMA AdoptKeeps == ASSUME FlowInv, AdoptAddress PROVE FlowInv'
<1>1. UNCHANGED <<worldVars, form, search, verified, confirmed, guessed>> /\ discovery' = Quiet
  BY DEF AdoptAddress
<1>2. WorldTypes' /\ SearchInv' /\ FormTypes'
  BY <1>1, WorldRests, SearchRests, FormRests
<1>3. discovery'.stage = "idle" /\ DiscoveryInv'
  BY <1>1 DEF Quiet, DiscoveryInv
<1>4. \/ entry' = entry
      \/ entry' \in Connections /\ entry'.certificate \in confirmed \cup {0}
  BY Adopted
<1>5. EntryTypes'
  BY <1>1, <1>4 DEF FlowInv, EntryTypes, Entries
<1>6. ConfirmedInv'
  BY <1>1, <1>3, <1>4 DEF FlowInv, ConfirmedInv, Connected
<1> QED
  BY <1>2, <1>3, <1>5, <1>6 DEF FlowInv

\* A step that moves the search alone.
LEMMA SearchStartsKeeps == ASSUME FlowInv, SearchStarts PROVE FlowInv'
<1>1. UNCHANGED <<worldVars, entry, form, discovery, verified, confirmed, guessed>>
  BY DEF SearchStarts
<1>2. SearchInv'
  BY DEF SearchStarts, SearchInv
<1>3. WorldTypes' /\ DiscoveryInv' /\ FormTypes'
  BY <1>1, WorldRests, DiscoveryRests, FormRests
<1>4. EntryTypes' /\ ConfirmedInv'
  BY <1>1 DEF FlowInv, EntryTypes, ConfirmedInv, Connected
<1> QED
  BY <1>2, <1>3, <1>4 DEF FlowInv

LEMMA SearchAnsweredKeeps == ASSUME FlowInv, SearchAnswered PROVE FlowInv'
<1>1. UNCHANGED <<worldVars, entry, form, discovery, confirmed>>
  BY DEF SearchAnswered
<1>2. PICK announced \in SUBSET Hosts :
         /\ search' = [stage |-> "answered", located |-> Located(announced)]
         /\ verified' = verified \cup {DefaultAt(h) : h \in Confirming(announced)}
         /\ guessed' = guessed \cup Rejecting(announced)
  BY DEF SearchAnswered
<1>3. Confirming(announced) \subseteq Hosts /\ Rejecting(announced) \subseteq Hosts
  BY DEF Confirming, Rejecting
<1>4. /\ verified \subseteq verified' /\ verified' \subseteq Connections
      /\ guessed \subseteq guessed' /\ guessed' \subseteq Hosts
  BY <1>2, <1>3, DefaultTyped DEF FlowInv, EntryTypes
<1>5. SearchInv'
  <2>1. search'.stage = "answered" /\ search'.located = Confirming(announced) \cup Rejecting(announced)
    BY <1>2 DEF Located
  <2>2. ASSUME NEW h \in search'.located PROVE h \in Hosts /\ (DefaultAt(h) \in verified' \/ h \in guessed')
    BY <1>2, <1>3, <2>1, <2>2
  <2> QED
    BY <2>1, <2>2 DEF SearchInv, DefaultAt, Connection
<1>6. WorldTypes' /\ DiscoveryInv' /\ FormTypes'
  BY <1>1, <1>4, WorldRests, DiscoveryRests, FormRests
<1>7. EntryTypes' /\ ConfirmedInv'
  BY <1>1, <1>4 DEF FlowInv, EntryTypes, ConfirmedInv, Connected
<1> QED
  BY <1>5, <1>6, <1>7 DEF FlowInv

\* What the search stores.
LEMMA SearchStores ==
    ASSUME FlowInv, SearchEnds, entry' # entry
    PROVE  /\ search.stage = "answered"
           /\ entry' \in Connections /\ entry'.certificate \in confirmed \cup {0}
           /\ \E h \in Hosts :
                 /\ DefaultAt(h) \in verified \/ h \in guessed
                 /\ entry = NoConnection => entry' = DefaultAt(h)
                 /\ entry' \in {DefaultAt(h), [DefaultAt(h) EXCEPT !.generation = entry.generation,
                                                                !.certificate = entry.certificate]}
<1>1. search.stage = "answered"
  BY DEF SearchEnds
<1>2. PICK h \in Hosts : entry' = StoredOver(entry, DefaultAt(h)) /\ (DefaultAt(h) \in verified \/ h \in guessed)
  BY <1>1 DEF SearchEnds, FlowInv, SearchInv
<1>3. /\ entry \in Entries
      /\ Connected(entry) => entry.certificate \in confirmed \cup {0}
  BY DEF FlowInv, EntryTypes, ConfirmedInv
<1>4. DefaultAt(h) \in Connections /\ DefaultAt(h).certificate = 0
  BY DefaultTyped
<1> DEFINE c == DefaultAt(h)
<1> HIDE DEF c
<1>5. /\ entry' \in Connections
      /\ entry'.certificate \in {c.certificate} \cup (IF Connected(entry) THEN {entry.certificate} ELSE {})
      /\ entry' \in {c, [c EXCEPT !.generation = entry.generation, !.certificate = entry.certificate]}
      /\ ~Connected(entry) => entry' = c
  BY <1>2, <1>3, <1>4, StoredOverTyped DEF c
<1>6. entry'.certificate \in confirmed \cup {0}
  BY <1>3, <1>4, <1>5 DEF c
<1>7. entry = NoConnection => entry' = c
  BY <1>5, NoneIsEntry
<1> QED
  BY <1>1, <1>2, <1>5, <1>6, <1>7 DEF c

LEMMA SearchEndsKeeps == ASSUME FlowInv, SearchEnds PROVE FlowInv'
<1>1. UNCHANGED <<worldVars, form, discovery, verified, confirmed, guessed>> /\ search' = Quiet
  BY DEF SearchEnds
<1>2. SearchInv'
  BY <1>1 DEF SearchInv, Quiet
<1>3. WorldTypes' /\ DiscoveryInv' /\ FormTypes'
  BY <1>1, WorldRests, DiscoveryRests, FormRests
<1>4. \/ entry' = entry
      \/ entry' \in Connections /\ entry'.certificate \in confirmed \cup {0}
  BY SearchStores
<1>5. EntryTypes'
  BY <1>1, <1>4 DEF FlowInv, EntryTypes, Entries
<1>6. ConfirmedInv'
  BY <1>1, <1>4 DEF FlowInv, ConfirmedInv, Connected
<1> QED
  BY <1>2, <1>3, <1>5, <1>6 DEF FlowInv

LEMMA FlowStep == FlowInv /\ [FlowNext]_FlowVars => FlowInv'
<1> SUFFICES ASSUME FlowInv, [FlowNext]_FlowVars PROVE FlowInv'
  OBVIOUS
<1>1. CASE WorldChanges
  BY <1>1, WorldKeeps
<1>2. CASE FormStep
  BY <1>2, OpenFormKeeps, SubmitKeeps, DetectKeeps, ConfirmKeeps, ValidatedKeeps, CloseFormKeeps
     DEF FormStep
<1>3. CASE \E h \in Hosts : Announced(h)
  BY <1>3, AnnouncedKeeps
<1>4. CASE DiscoveryAnswered \/ AdoptAddress
  BY <1>4, AnsweredKeeps, AdoptKeeps
<1>5. CASE SearchStarts \/ SearchAnswered \/ SearchEnds
  BY <1>5, SearchStartsKeeps, SearchAnsweredKeeps, SearchEndsKeeps
<1>6. CASE UNCHANGED FlowVars
  BY <1>6 DEF FlowVars, FlowInv, WorldTypes, EntryTypes, FormTypes, DiscoveryInv, SearchInv, ConfirmedInv,
              Connected, DefaultAt, Connection
<1> QED
  BY <1>1, <1>2, <1>3, <1>4, <1>5, <1>6 DEF FlowNext

LEMMA FlowHolds == FlowSpec => []FlowInv
  BY FlowStarts, FlowStep, PTL DEF FlowSpec

\* The type invariant is part of FlowInv.
LEMMA FlowTyped == FlowInv => FlowTypeOK
  BY DEF FlowInv, WorldTypes, EntryTypes, FormTypes, DiscoveryInv, SearchInv, FlowTypeOK

\* For any hosts and number of changes of the gateway, the variables of the flows
\* have their types.
THEOREM FlowTypes == FlowSpec => []FlowTypeOK
  BY FlowHolds, FlowTyped, PTL

\* What one step may store.
LEMMA StepStores ==
    ASSUME FlowInv, [FlowNext]_FlowVars, entry' # entry
    PROVE  \/ entry' \in verified'
           \/ entry = NoConnection /\ \E h \in guessed : entry' = DefaultAt(h)
           \/ /\ Crosses
              /\ \E c \in verified \cup {DefaultAt(h) : h \in guessed} :
                    entry' \in {c, [c EXCEPT !.generation = entry.generation,
                                             !.certificate = entry.certificate]}
<1>1. Validated \/ AdoptAddress \/ SearchEnds
  BY DEF FlowNext, FlowVars, WorldChanges, FormStep, OpenForm, Submit, Detect, ConfirmCertificate, CloseForm,
         Announced, DiscoveryAnswered, SearchStarts, SearchAnswered
<1>2. CASE Validated
  BY <1>2 DEF Validated, Verify, StoredBy
<1>3. CASE AdoptAddress
  <2>1. verified' = verified
    BY <1>3 DEF AdoptAddress
  <2> QED
    BY <1>3, <2>1, Adopted DEF Crosses
<1>4. CASE SearchEnds
  <2>1. verified' = verified /\ search.stage = "answered"
    BY <1>4 DEF SearchEnds
  <2>2. PICK h \in Hosts :
           /\ DefaultAt(h) \in verified \/ h \in guessed
           /\ entry = NoConnection => entry' = DefaultAt(h)
           /\ entry' \in {DefaultAt(h), [DefaultAt(h) EXCEPT !.generation = entry.generation,
                                                          !.certificate = entry.certificate]}
    BY <1>4, SearchStores
  <2> DEFINE c == DefaultAt(h)
  <2>3. c \in verified \cup {DefaultAt(g) : g \in guessed}
    BY <2>2
  <2>4. CASE entry = NoConnection
    BY <2>1, <2>2, <2>4
  <2>5. CASE entry # NoConnection
    BY <2>1, <2>2, <2>3, <2>5 DEF Crosses
  <2> QED
    BY <2>4, <2>5
<1> QED
  BY <1>1, <1>2, <1>3, <1>4

\* For any hosts and number of changes of the gateways, what becomes the connection
\* of an entry is a connection to which its gateway answered as a whole, or, for an
\* entry without one, the default credentials at the only address announced, where
\* some gateway rejected them; and when an answer crosses another flow's update, it
\* may be a guess or a mix of such an address with the generation and certificate of
\* the entry, but nothing else (_async_step_connection, async_step_user,
\* _async_adopt_address, _async_locate_legacy_gateway).
THEOREM StoredFromAnswers == FlowSpec => StoredAsAnswered
<1>1. FlowInv /\ [FlowNext]_FlowVars =>
         [Connected(entry') =>
             \/ entry' \in verified'
             \/ entry = NoConnection /\ \E h \in guessed : entry' = DefaultAt(h)
             \/ /\ Crosses
                /\ \E c \in verified \cup {DefaultAt(h) : h \in guessed} :
                      entry' \in {c, [c EXCEPT !.generation = entry.generation,
                                               !.certificate = entry.certificate]}]_entry
  BY StepStores
<1> QED
  BY <1>1, FlowHolds, PTL DEF FlowSpec, StoredAsAnswered

\* For any hosts and number of changes of the gateway, a certificate is stored,
\* or used to read the gateway, only after the user confirmed that very certificate
\* (_async_validate_webui_2026).
THEOREM CertificatesConfirmed == FlowSpec => []OnlyConfirmedCertificates
<1>1. FlowInv => OnlyConfirmedCertificates
  BY DEF FlowInv, ConfirmedInv, OnlyConfirmedCertificates
<1> QED
  BY <1>1, FlowHolds, PTL

--------------------------------------------------------------------------------
(* The documents of the stream                                              *)

\* The parts of a place, and what a byte makes of them.
LEMMA PlaceFields ==
    ASSUME NEW place \in Places
    PROVE  /\ place.depth \in Int /\ place.string \in BOOLEAN /\ place.escape \in BOOLEAN
           /\ place = [depth |-> place.depth, string |-> place.string, escape |-> place.escape]
  BY DEF Places

LEMMA WithinString ==
    ASSUME NEW place \in Places, NEW byte \in Bytes, byte # "lead", place.string
    PROVE  LET after == PlaceAfter(place, byte)
           IN  /\ after \in Places
               /\ after.depth = place.depth
               /\ after.string = (place.escape \/ byte # "quote")
               /\ after.escape = (~place.escape /\ byte = "backslash")
<1>1. PlaceAfter(place, byte)
          = [place EXCEPT !.string = place.escape \/ byte # "quote",
                          !.escape = ~place.escape /\ byte = "backslash"]
  BY DEF PlaceAfter
<1> DEFINE s == place.escape \/ byte # "quote"
           e == ~place.escape /\ byte = "backslash"
<1>2. s \in BOOLEAN /\ e \in BOOLEAN
  OBVIOUS
<1>3. PlaceAfter(place, byte) = [place EXCEPT !.string = s, !.escape = e]
  BY <1>1
<1> HIDE DEF s, e
<1>4. PlaceAfter(place, byte) = [depth |-> place.depth, string |-> s, escape |-> e]
  BY <1>3, PlaceFields DEF Places
<1>5. LET after == PlaceAfter(place, byte)
      IN  after \in Places /\ after.depth = place.depth /\ after.string = s /\ after.escape = e
  BY <1>2, <1>4, PlaceFields DEF Places
<1> QED
  BY <1>5 DEF s, e

LEMMA OutsideString ==
    ASSUME NEW place \in Places, NEW byte \in Bytes, byte # "lead", ~place.string
    PROVE  LET after == PlaceAfter(place, byte)
           IN  /\ after \in Places
               /\ after.depth = place.depth + Nesting(byte)
               /\ after.string = (byte = "quote")
               /\ after.escape = place.escape
<1>1. PlaceAfter(place, byte) = [place EXCEPT !.string = (byte = "quote"), !.depth = @ + Nesting(byte)]
  BY DEF PlaceAfter
<1> DEFINE s == byte = "quote"
           n == place.depth + Nesting(byte)
<1>2. s \in BOOLEAN
  OBVIOUS
<1>3. n \in Int
  <2>1. Nesting(byte) \in Int
    BY DEF Nesting
  <2> QED
    BY <2>1, PlaceFields
<1>4. PlaceAfter(place, byte) = [place EXCEPT !.string = s, !.depth = n]
  BY <1>1
<1> HIDE DEF s, n
<1>5. PlaceAfter(place, byte) = [depth |-> n, string |-> s, escape |-> place.escape]
  BY <1>4, PlaceFields DEF Places
<1>6. LET after == PlaceAfter(place, byte)
      IN  after \in Places /\ after.depth = n /\ after.string = s /\ after.escape = place.escape
  BY <1>2, <1>3, <1>5, PlaceFields DEF Places
<1> QED
  BY <1>6 DEF s, n

LEMMA PlaceAfterTyped ==
    ASSUME NEW place \in Places, NEW byte \in Bytes
    PROVE  PlaceAfter(place, byte) \in Places
<1>1. CASE byte = "lead"
  BY <1>1 DEF PlaceAfter
<1>2. CASE byte # "lead" /\ place.string
  BY <1>2, WithinString
<1>3. CASE byte # "lead" /\ ~place.string
  BY <1>3, OutsideString
<1> QED
  BY <1>1, <1>2, <1>3

\* The places of a document follow one from the other.
LEMMA PlacesRun ==
    ASSUME NEW d \in Seq(Bytes)
    PROVE  /\ PlacesOf(d)[0] = Between
           /\ \A n \in 1..Len(d) : PlacesOf(d)[n] = PlaceAfter(PlacesOf(d)[n-1], d[n])
<1> DEFINE N == Len(d)
           S == Places
           base == Between
           step == [n \in 1..N |-> [x \in S |-> PlaceAfter(x, d[n])]]
           body(f) == [n \in 0..N |-> IF n = 0 THEN Between ELSE PlaceAfter(f[n - 1], d[n])]
           places == CHOOSE f : f = body(f)
<1>1. N \in Nat
  OBVIOUS
<1>0. \A n \in 1..N : d[n] \in Bytes
  OBVIOUS
<1>2. base \in S
  BY DEF Between, Places
<1>3. step \in [1..N -> [S -> S]]
  <2>1. \A n \in 1..N : \A x \in S : PlaceAfter(x, d[n]) \in S
    BY <1>0, PlaceAfterTyped
  <2> HIDE DEF S
  <2> QED
    BY <2>1
<1>4. \E f \in [0..N -> S] : f[0] = base /\ \A n \in 1..N : f[n] = step[n][f[n-1]]
  <2> HIDE DEF S, base, step, N
  <2> QED
    BY <1>1, <1>2, <1>3, Iterates
<1> HIDE DEF S, base, step
<1>5. PICK f \in [0..N -> S] : f[0] = base /\ \A n \in 1..N : f[n] = step[n][f[n-1]]
  BY <1>4
<1>6. ASSUME NEW n \in 1..N PROVE f[n] = PlaceAfter(f[n-1], d[n])
  <2>1. f[n-1] \in S
    BY <1>1, <1>5
  <2>2. step[n][f[n-1]] = PlaceAfter(f[n-1], d[n])
    BY <2>1 DEF step
  <2> QED
    BY <1>5, <2>2
<1> HIDE DEF N
<1>7. f = body(f)
  BY <1>1, <1>5, <1>6 DEF base
<1>8. places = body(places)
  BY <1>7
<1>9. PlacesOf(d) = places
  BY DEF PlacesOf, N
<1> HIDE DEF places
<1>10. places[0] = Between /\ \A n \in 1..N : places[n] = PlaceAfter(places[n-1], d[n])
  BY <1>1, <1>8
<1> QED
  BY <1>9, <1>10 DEF N

\* The characters that the first n bytes make: one step.
More(x, byte) == IF Decoded(byte) THEN Append(x, byte) ELSE x

\* So do its characters.
LEMMA CharactersRun ==
    ASSUME NEW d \in Seq(Bytes)
    PROVE  /\ CharactersOf(d)[0] = <<>>
           /\ \A n \in 1..Len(d) : CharactersOf(d)[n] = More(CharactersOf(d)[n-1], d[n])
<1> DEFINE N == Len(d)
           S == Seq(Bytes)
           base == <<>>
           step == [n \in 1..N |-> [x \in S |-> More(x, d[n])]]
           body(f) == [n \in 0..N |-> IF n = 0 THEN <<>>
                                      ELSE IF Decoded(d[n]) THEN Append(f[n - 1], d[n]) ELSE f[n - 1]]
           characters == CHOOSE f : f = body(f)
<1>1. N \in Nat
  OBVIOUS
<1>0. \A n \in 1..N : d[n] \in Bytes
  OBVIOUS
<1>2. base \in S
  OBVIOUS
<1>3. step \in [1..N -> [S -> S]]
  <2>1. \A n \in 1..N : \A x \in S : More(x, d[n]) \in S
    BY <1>0 DEF More
  <2> HIDE DEF S
  <2> QED
    BY <2>1
<1>4. \E f \in [0..N -> S] : f[0] = base /\ \A n \in 1..N : f[n] = step[n][f[n-1]]
  <2> HIDE DEF S, base, step, N
  <2> QED
    BY <1>1, <1>2, <1>3, Iterates
<1> HIDE DEF S, base, step
<1>5. PICK f \in [0..N -> S] : f[0] = base /\ \A n \in 1..N : f[n] = step[n][f[n-1]]
  BY <1>4
<1>6. ASSUME NEW n \in 1..N PROVE f[n] = More(f[n-1], d[n])
  <2>1. f[n-1] \in S
    BY <1>1, <1>5
  <2>2. step[n][f[n-1]] = More(f[n-1], d[n])
    BY <2>1 DEF step
  <2> QED
    BY <1>5, <2>2
<1> HIDE DEF N
<1>7. f = body(f)
  BY <1>1, <1>5, <1>6 DEF base, More
<1>8. characters = body(characters)
  BY <1>7
<1>9. CharactersOf(d) = characters
  BY DEF CharactersOf, N
<1> HIDE DEF characters
<1>10. /\ characters[0] = <<>>
       /\ \A n \in 1..N : characters[n] = More(characters[n-1], d[n])
  <2>1. characters[0] = <<>>
    BY <1>1, <1>8
  <2>2. ASSUME NEW n \in 1..N PROVE characters[n] = More(characters[n-1], d[n])
    <3>1. n \in 0..N /\ n # 0
      BY <1>1
    <3> QED
      BY <1>8, <3>1 DEF More
  <2> QED
    BY <2>1, <2>2
<1> QED
  BY <1>9, <1>10 DEF N

\* What a prefix of a document has in characters, and in how far they grow.
LEMMA CharactersTyped ==
    ASSUME NEW d \in Seq(Bytes), NEW n \in 0..Len(d)
    PROVE  CharactersOf(d)[n] \in Seq(Bytes)
<1> DEFINE C == CharactersOf(d)
           Good == {i \in Nat : i <= Len(d) => C[i] \in Seq(Bytes)}
<1>1. Len(d) \in Nat /\ \A i \in 1..Len(d) : d[i] \in Bytes
  OBVIOUS
<1>2. 0 \in Good
  <2>1. C[0] = <<>>
    BY CharactersRun
  <2>2. <<>> \in Seq(Bytes)
    OBVIOUS
  <2> HIDE DEF C
  <2> QED
    BY <2>1, <2>2
<1>3. ASSUME NEW i \in Nat, i \in Good PROVE i + 1 \in Good
  <2>1. SUFFICES ASSUME i + 1 <= Len(d) PROVE C[i + 1] \in Seq(Bytes)
    OBVIOUS
  <2>2. C[i] \in Seq(Bytes) /\ i + 1 \in 1..Len(d) /\ (i + 1) - 1 = i
    BY <1>1, <1>3, <2>1
  <2>3. C[i + 1] = More(C[i], d[i + 1])
    BY <2>2, CharactersRun
  <2> HIDE DEF C
  <2> QED
    BY <1>1, <2>2, <2>3 DEF More
<1>4. Good \in SUBSET Nat
  OBVIOUS
<1>5. n \in Nat /\ n <= Len(d)
  BY <1>1
<1>6. n \in Good
  <2> HIDE DEF Good
  <2> QED
    BY <1>2, <1>3, <1>4, <1>5, Induction
<1> QED
  BY <1>5, <1>6

LEMMA CharactersGrow ==
    ASSUME NEW d \in Seq(Bytes), NEW m \in 0..Len(d)
    PROVE  Len(CharactersOf(d)[m]) <= Len(Characters(d))
<1> DEFINE C == CharactersOf(d)
           Good == {i \in Nat : m <= i /\ i <= Len(d) => Len(C[m]) <= Len(C[i])}
<1>1. Len(d) \in Nat /\ \A i \in 1..Len(d) : d[i] \in Bytes
  OBVIOUS
<1>2. \A i \in 0..Len(d) : C[i] \in Seq(Bytes) /\ Len(C[i]) \in Nat
  <2>1. \A i \in 0..Len(d) : C[i] \in Seq(Bytes)
    BY CharactersTyped
  <2> HIDE DEF C
  <2> QED
    BY <2>1
<1>3. 0 \in Good
  <2>1. ASSUME m <= 0 PROVE m = 0
    BY <1>1, <2>1
  <2>2. 0 \in 0..Len(d)
    BY <1>1
  <2>3. Len(C[0]) <= Len(C[0])
    BY <1>2, <2>2
  <2> HIDE DEF C
  <2> QED
    BY <2>1, <2>3
<1>4. ASSUME NEW i \in Nat, i \in Good PROVE i + 1 \in Good
  <2>1. SUFFICES ASSUME m <= i + 1, i + 1 <= Len(d) PROVE Len(C[m]) <= Len(C[i + 1])
    OBVIOUS
  <2>2. m \in Int /\ i + 1 \in 1..Len(d) /\ (i + 1) - 1 = i /\ i \in 0..Len(d) /\ i + 1 \in 0..Len(d)
    BY <1>1, <2>1
  <2>3. C[i + 1] = More(C[i], d[i + 1])
    BY <2>2, CharactersRun
  <2>4. Len(C[i]) <= Len(C[i + 1])
    <3> HIDE DEF C
    <3>1. C[i] \in Seq(Bytes) /\ d[i + 1] \in Bytes
      BY <1>1, <1>2, <2>2
    <3>2. More(C[i], d[i + 1]) = C[i] \/ Len(More(C[i], d[i + 1])) = Len(C[i]) + 1
      BY <3>1 DEF More
    <3> QED
      BY <1>2, <2>2, <2>3, <3>2
  <2>5. CASE m <= i
    <3>1. Len(C[m]) <= Len(C[i])
      BY <1>4, <2>2, <2>5
    <3> HIDE DEF C
    <3> QED
      BY <1>2, <2>2, <2>4, <3>1
  <2>6. CASE m = i + 1
    <3> HIDE DEF C
    <3> QED
      BY <1>2, <2>2, <2>6
  <2> QED
    BY <2>1, <2>2, <2>5, <2>6
<1>5. Good \in SUBSET Nat
  OBVIOUS
<1>6. Len(d) \in Good
  <2> HIDE DEF Good
  <2> QED
    BY <1>1, <1>3, <1>4, <1>5, Induction
<1>7. m <= Len(d)
  BY <1>1
<1> QED
  BY <1>1, <1>6, <1>7 DEF Characters

\* What the proofs use of a document.
LEMMA DocumentFacts ==
    ASSUME NEW d \in Documents
    PROVE  /\ d \in Seq(Bytes) /\ Len(d) \in Nat /\ Len(d) > 1
           /\ d[1] \in Opening /\ \A n \in 1..Len(d) : d[n] \in Bytes
           /\ PlacesOf(d)[0] = Between /\ PlacesOf(d)[Len(d)] = Between
           /\ \A n \in 1..(Len(d) - 1) : PlacesOf(d)[n].depth > 0
<1>1. WellFormed(d)
  BY SplitterAssumption
<1>2. /\ d \in Seq(Bytes) /\ d # <<>> /\ d[1] \in Opening
      /\ PlacesOf(d)[Len(d)] = Between
      /\ \A n \in 1..(Len(d) - 1) : PlacesOf(d)[n].depth > 0
  BY <1>1 DEF WellFormed
<1>3. Len(d) \in Nat /\ Len(d) > 0
  BY <1>2
<1>4. PlacesOf(d)[0] = Between /\ \A n \in 1..Len(d) : PlacesOf(d)[n] = PlaceAfter(PlacesOf(d)[n-1], d[n])
  BY <1>2, PlacesRun
<1>5. Len(d) # 1
  <2>1. SUFFICES ASSUME Len(d) = 1 PROVE FALSE
    OBVIOUS
  <2>2. PlacesOf(d)[1] = PlaceAfter(Between, d[1])
    BY <1>3, <1>4, <2>1
  <2>3. d[1] = "{" \/ d[1] = "["
    BY <1>2 DEF Opening
  <2>4. PlaceAfter(Between, d[1]).depth = 1
    <3>1. Nesting(d[1]) = 1
      BY <1>2 DEF Nesting
    <3>2. Between \in Places /\ ~Between.string /\ Between.depth = 0
      BY DEF Between, Places
    <3>3. d[1] \in Bytes /\ d[1] # "lead"
      BY <1>2, <2>3 DEF Bytes
    <3>4. PlaceAfter(Between, d[1]).depth = Between.depth + Nesting(d[1])
      BY <3>2, <3>3, OutsideString
    <3> QED
      BY <3>1, <3>2, <3>4
  <2> QED
    BY <1>2, <2>1, <2>2, <2>4 DEF Between
<1>6. \A n \in 1..Len(d) : d[n] \in Bytes
  BY <1>2
<1>7. Len(d) > 1
  <2>1. \A n \in Nat : n > 0 /\ n # 1 => n > 1
    OBVIOUS
  <2> QED
    BY <1>3, <1>5, <2>1, Zenon
<1>8. PlacesOf(d)[0] = Between
  BY <1>4
<1> QED
  BY <1>2, <1>3, <1>6, <1>7, <1>8, Zenon

--------------------------------------------------------------------------------
\* A byte of the stream: white space may precede a document.
ByteAt(d, n) == IF n = 0 THEN "space" ELSE d[n]

\* Between two documents, or before the first byte of one.
Rests == sent = <<>> \/ Len(coming) \notin 1..(Len(Last(sent)) - 1)

\* What has not arrived ends with the last document.
StreamInv ==
    /\ sent = <<>> => coming = <<>>
    /\ sent # <<>> => /\ Len(coming) <= Len(Last(sent)) + 1
                      /\ \A i \in 1..Len(coming) :
                            coming[i] = ByteAt(Last(sent), Len(Last(sent)) - Len(coming) + i)

\* The scanner is where the grammar is, and has kept what it has seen of the document.
ScannerAtRest == depth = 0 /\ ~inString /\ ~escape /\ ~decoder /\ parts = <<>> /\ scanned = <<>>
ScannerWithin(d, n) ==
    /\ depth = PlacesOf(d)[n].depth /\ inString = PlacesOf(d)[n].string
    /\ escape = PlacesOf(d)[n].escape /\ parts \o scanned = CharactersOf(d)[n]
ScannerInv ==
    ~splitFailed => /\ Rests => ScannerAtRest
                    /\ ~Rests => ScannerWithin(Last(sent), Len(Last(sent)) - Len(coming))

\* What was found is what was sent.
Found == split \o ready
FoundInv ==
    /\ Len(Found) <= Len(sent)
    /\ \A i \in 1..Len(Found) : Found[i] = Characters(sent[i]) /\ Len(Found[i]) <= MaxSize
    /\ ~splitFailed => Len(Found) = Len(sent) - (IF coming = <<>> THEN 0 ELSE 1)

\* How the stream ends.
EndInv ==
    /\ splitFailed => finished \/ (sent # <<>> /\ Len(Characters(Last(sent))) > MaxSize)
    /\ finished => /\ scanned = <<>> /\ ready = <<>>
                   /\ splitFailed => ~Rests
                   /\ ~splitFailed => Rests

\* The types of what the stream and the splitter keep.
SplitTypes ==
    /\ sent \in Seq(Documents) /\ coming \in Seq(Bytes)
    /\ decoder \in BOOLEAN /\ inString \in BOOLEAN /\ escape \in BOOLEAN /\ depth \in Nat
    /\ parts \in Seq(Bytes) /\ scanned \in Seq(Bytes) /\ Len(parts) <= MaxSize
    /\ split \in Seq(Seq(Bytes)) /\ ready \in Seq(Seq(Bytes))
    /\ finished \in BOOLEAN /\ splitFailed \in BOOLEAN

\* The inductive invariant: what the scanner knows and keeps is what the grammar
\* says of the bytes that have arrived.
SplitInv == SplitTypes /\ StreamInv /\ ScannerInv /\ FoundInv /\ EndInv

\* SplitInv holds at first, and every step keeps it.
LEMMA SplitStarts == SplitterInit => SplitInv
<1> SUFFICES ASSUME SplitterInit PROVE SplitInv
  OBVIOUS
<1> USE DEF SplitterInit
<1>1. SplitTypes
  <2>1. 0 <= MaxSize /\ Len(<<>>) = 0
    BY SplitterAssumption
  <2>2. /\ <<>> \in Seq(Documents) /\ <<>> \in Seq(Bytes) /\ <<>> \in Seq(Seq(Bytes))
    OBVIOUS
  <2> QED
    BY <2>1, <2>2 DEF SplitTypes
<1>2. Rests
  BY DEF Rests
<1>3. Found = <<>>
  BY DEF Found
<1>4. StreamInv /\ EndInv
  BY DEF StreamInv, EndInv
<1>5. ScannerInv
  BY <1>2 DEF ScannerInv, ScannerAtRest
<1>6. FoundInv
  BY <1>3 DEF FoundInv
<1> QED
  BY <1>1, <1>4, <1>5, <1>6 DEF SplitInv

\* The document that arrives.
LEMMA LastSent ==
    ASSUME SplitTypes, sent # <<>>
    PROVE  Last(sent) \in Documents /\ Len(Last(sent)) \in Nat /\ Len(sent) \in Nat /\ Len(sent) > 0
           /\ Last(sent) = sent[Len(sent)]
<1>1. sent \in Seq(Documents)
  BY DEF SplitTypes
<1>2. Len(sent) \in Nat /\ Len(sent) > 0
  BY <1>1
<1>3. Last(sent) = sent[Len(sent)]
  BY DEF Last
<1>4. Last(sent) \in Documents
  BY <1>1, <1>2, <1>3
<1> QED
  BY <1>2, <1>3, <1>4, DocumentFacts

LEMMA ComingTyped == SplitTypes => Len(coming) \in Nat /\ (coming = <<>> <=> Len(coming) = 0)
  BY DEF SplitTypes

\* A document is sent when the one before has arrived.
LEMMA SendsKeeps == ASSUME SplitInv, GatewaySends PROVE SplitInv'
<1>1. PICK d \in Documents, gap \in {<<>>, <<"space">>} : sent' = Append(sent, d) /\ coming' = gap \o d
  BY DEF GatewaySends
<1>2. /\ coming = <<>> /\ ~finished /\ ~splitFailed
      /\ UNCHANGED <<decoder, parts, depth, inString, escape, scanned, ready, split, finished, splitFailed>>
  BY DEF GatewaySends
<1>3. SplitTypes /\ StreamInv /\ ScannerInv /\ FoundInv /\ EndInv
  BY DEF SplitInv
<1>4. d \in Seq(Bytes) /\ Len(d) \in Nat /\ Len(d) > 1
  BY DocumentFacts
<1>5. /\ sent' \in Seq(Documents) /\ sent' # <<>> /\ Len(sent') = Len(sent) + 1 /\ Len(sent) \in Nat
      /\ sent'[Len(sent) + 1] = d /\ \A i \in 1..Len(sent) : sent'[i] = sent[i]
  <2>1. sent \in Seq(Documents)
    BY <1>3 DEF SplitTypes
  <2>2. /\ Append(sent, d) \in Seq(Documents) /\ Append(sent, d) # <<>>
        /\ Len(Append(sent, d)) = Len(sent) + 1
        /\ \A i \in 1..Len(sent) : Append(sent, d)[i] = sent[i]
        /\ Append(sent, d)[Len(sent) + 1] = d
    BY <2>1, AppendProperties
  <2>3. Len(sent) \in Nat
    BY <2>1
  <2> QED
    BY <1>1, <2>2, <2>3
<1>6. Last(sent') = d
  BY <1>5 DEF Last
<1>7. coming' \in Seq(Bytes) /\ coming' # <<>> /\ Len(coming') \in {Len(d), Len(d) + 1}
      /\ \A i \in 1..Len(coming') : coming'[i] = ByteAt(d, Len(d) - Len(coming') + i)
  <2>1. CASE gap = <<>>
    <3>1. coming' = d
      BY <1>1, <1>4, <2>1, ConcatEmptySeq
    <3>2. ASSUME NEW i \in 1..Len(d) PROVE ByteAt(d, Len(d) - Len(d) + i) = d[i]
      <4>1. Len(d) - Len(d) + i = i /\ i # 0
        BY <1>4
      <4> QED
        BY <4>1 DEF ByteAt
    <3>3. d # <<>>
      BY <1>4
    <3> QED
      BY <1>4, <3>1, <3>2, <3>3
  <2>2. CASE gap = <<"space">>
    <3> DEFINE g == <<"space">>
    <3>1. g \in Seq(Bytes) /\ Len(g) = 1 /\ g[1] = "space"
      BY DEF Bytes
    <3>2. coming' = g \o d
      BY <1>1, <2>2
    <3> HIDE DEF g
    <3>3. /\ coming' \in Seq(Bytes) /\ Len(coming') = 1 + Len(d)
          /\ \A i \in 1..(1 + Len(d)) : coming'[i] = IF i <= 1 THEN g[i] ELSE d[i - 1]
      <4>1. /\ g \o d \in Seq(Bytes) /\ Len(g \o d) = Len(g) + Len(d)
            /\ \A i \in 1..(Len(g) + Len(d)) : (g \o d)[i] = IF i <= Len(g) THEN g[i] ELSE d[i - Len(g)]
        BY <1>4, <3>1, ConcatProperties
      <4> QED
        BY <3>1, <3>2, <4>1
    <3>4. ASSUME NEW i \in 1..Len(coming') PROVE coming'[i] = ByteAt(d, Len(d) - Len(coming') + i)
      <4>1. Len(d) - Len(coming') + i = i - 1 /\ i \in 1..(1 + Len(d))
        BY <1>4, <3>3
      <4>2. CASE i = 1
        <5>1. coming'[1] = "space"
          BY <3>1, <3>3, <4>1, <4>2
        <5>2. i - 1 = 0
          BY <4>2
        <5> QED
          BY <4>1, <4>2, <5>1, <5>2 DEF ByteAt
      <4>3. CASE i # 1
        <5>1. i - 1 # 0 /\ ~(i <= 1)
          BY <4>1, <4>3
        <5>2. coming'[i] = d[i - 1]
          BY <3>3, <4>1, <5>1
        <5> QED
          BY <4>1, <5>1, <5>2 DEF ByteAt
      <4> QED
        BY <4>2, <4>3
    <3>5. coming' # <<>>
      BY <1>4, <3>3
    <3> QED
      BY <1>4, <3>3, <3>4, <3>5
  <2> QED
    BY <2>1, <2>2
<1>8. SplitTypes'
  BY <1>2, <1>3, <1>5, <1>7 DEF SplitTypes
<1>9. Rests /\ Rests'
  <2>1. Len(coming) = 0
    BY <1>2
  <2>2. Rests
    <3>1. CASE sent = <<>>
      BY <3>1 DEF Rests
    <3>2. CASE sent # <<>>
      <4>1. Len(Last(sent)) \in Nat
        BY <1>3, <3>2, LastSent
      <4> QED
        BY <2>1, <4>1 DEF Rests
    <3> QED
      BY <3>1, <3>2
  <2>3. Len(coming') \notin 1..(Len(d) - 1)
    BY <1>4, <1>7
  <2> QED
    BY <1>6, <2>2, <2>3 DEF Rests
<1>10. StreamInv'
  <2>1. Len(coming') <= Len(d) + 1
    BY <1>4, <1>7
  <2> QED
    BY <1>5, <1>6, <1>7, <2>1 DEF StreamInv
<1>11. ScannerInv'
  BY <1>2, <1>3, <1>9 DEF ScannerInv, ScannerAtRest
<1>12. FoundInv'
  <2>1. Found' = Found
    BY <1>2 DEF Found
  <2>2. Len(Found) = Len(sent)
    BY <1>2, <1>3, <1>5 DEF FoundInv
  <2>3. Len(Found) <= Len(sent') /\ Len(Found) = Len(sent') - 1
    BY <1>5, <2>2
  <2>4. \A i \in 1..Len(Found) : Found[i] = Characters(sent[i]) /\ Len(Found[i]) <= MaxSize
    BY <1>3 DEF FoundInv
  <2>5. \A i \in 1..Len(Found) : sent'[i] = sent[i]
    BY <1>5, <2>2
  <2> QED
    BY <1>7, <2>1, <2>3, <2>4, <2>5 DEF FoundInv
<1>13. EndInv'
  BY <1>2 DEF EndInv
<1> QED
  BY <1>8, <1>10, <1>11, <1>12, <1>13 DEF SplitInv

\* The next byte: the n-th byte of d was the last one.
Arrives(d, n) ==
    /\ sent # <<>> /\ d = Last(sent)
    /\ n = Len(d) - Len(coming) /\ n \in -1..(Len(d) - 1)
    /\ Head(coming) = ByteAt(d, n + 1)

LEMMA Arrival == ASSUME SplitInv, Feed PROVE \E d \in Documents, n \in Int : Arrives(d, n)
<1>1. SplitTypes /\ StreamInv /\ coming # <<>> /\ coming \in Seq(Bytes)
  BY DEF SplitInv, Feed, SplitTypes
<1>2. sent # <<>>
  BY <1>1 DEF StreamInv
<1>3. Last(sent) \in Documents /\ Len(Last(sent)) \in Nat
  BY <1>1, <1>2, LastSent
<1> DEFINE d == Last(sent)
           n == Len(d) - Len(coming)
<1>4. Len(coming) \in Nat /\ Len(coming) > 0
  BY <1>1
<1>5. Len(coming) <= Len(d) + 1 /\ \A i \in 1..Len(coming) : coming[i] = ByteAt(d, Len(d) - Len(coming) + i)
  BY <1>1, <1>2 DEF StreamInv
<1>6. n \in Int /\ n \in -1..(Len(d) - 1)
  BY <1>3, <1>4, <1>5
<1>7. Head(coming) = coming[1] /\ coming[1] = ByteAt(d, n + 1)
  <2>1. Head(coming) = coming[1]
    BY <1>1
  <2>2. 1 \in 1..Len(coming)
    BY <1>4
  <2> QED
    BY <1>5, <2>1, <2>2
<1>8. Arrives(d, n)
  BY <1>2, <1>6, <1>7 DEF Arrives
<1> QED
  BY <1>3, <1>6, <1>8

LEMMA StreamShrinks ==
    ASSUME SplitInv, Feed, NEW d \in Documents, NEW n \in Int, Arrives(d, n)
    PROVE  /\ sent' # <<>> /\ Last(sent') = d
           /\ coming' \in Seq(Bytes) /\ Len(coming') = Len(d) - (n + 1)
           /\ coming' = <<>> <=> n + 1 = Len(d)
           /\ Head(coming) \in Bytes
           /\ StreamInv'
           /\ Rests <=> n \in {-1, 0}
           /\ Rests' <=> n + 1 \in {0, Len(d)}
<1>1. /\ sent # <<>> /\ d = Last(sent) /\ n = Len(d) - Len(coming) /\ n \in -1..(Len(d) - 1)
  BY DEF Arrives
<1>2. coming' = Tail(coming) /\ sent' = sent /\ coming # <<>>
  BY DEF Feed
<1>3. coming \in Seq(Bytes) /\ StreamInv
  BY DEF SplitInv, SplitTypes
<1>4. Len(d) \in Nat /\ Len(d) > 1
  BY DocumentFacts
<1>5. Len(coming) \in Nat /\ Len(coming) > 0
  BY <1>2, <1>3
<1>6. /\ Head(coming) \in Bytes /\ Tail(coming) \in Seq(Bytes) /\ Len(Tail(coming)) = Len(coming) - 1
      /\ \A i \in 1..Len(Tail(coming)) : Tail(coming)[i] = coming[i + 1]
  BY <1>2, <1>3, HeadTailProperties
<1>7. coming' \in Seq(Bytes) /\ Len(coming') = Len(d) - (n + 1)
  <2>1. Len(coming) - 1 = Len(d) - (n + 1)
    BY <1>1, <1>4, <1>5
  <2> QED
    BY <1>2, <1>6, <2>1
<1>8. coming' = <<>> <=> n + 1 = Len(d)
  <2>1. coming' = <<>> <=> Len(coming') = 0
    BY <1>7
  <2>2. Len(d) - (n + 1) = 0 <=> n + 1 = Len(d)
    BY <1>4
  <2> QED
    BY <1>7, <2>1, <2>2
<1>9. StreamInv'
  <2>1. Len(coming') <= Len(d) + 1
    BY <1>1, <1>4, <1>7
  <2>2. ASSUME NEW i \in 1..Len(coming') PROVE coming'[i] = ByteAt(d, Len(d) - Len(coming') + i)
    <3>1. i + 1 \in 1..Len(coming) /\ Len(coming') = Len(coming) - 1
      BY <1>2, <1>5, <1>6
    <3>2. coming'[i] = coming[i + 1]
      BY <1>2, <1>6
    <3>3. coming[i + 1] = ByteAt(d, Len(d) - Len(coming) + (i + 1))
      BY <1>1, <1>3, <3>1 DEF StreamInv
    <3>4. Len(d) - Len(coming) + (i + 1) = Len(d) - Len(coming') + i
      BY <1>4, <1>5, <3>1
    <3> QED
      BY <3>2, <3>3, <3>4
  <2> QED
    BY <1>1, <1>2, <2>1, <2>2 DEF StreamInv
<1>10. Rests <=> n \in {-1, 0}
  <2>1. Len(coming) \notin 1..(Len(d) - 1) <=> n \in {-1, 0}
    BY <1>1, <1>4, <1>5
  <2> QED
    BY <1>1, <2>1 DEF Rests
<1>11. Rests' <=> n + 1 \in {0, Len(d)}
  <2>1. Len(d) - (n + 1) \notin 1..(Len(d) - 1) <=> n + 1 \in {0, Len(d)}
    BY <1>1, <1>4
  <2> QED
    BY <1>1, <1>2, <1>7, <2>1 DEF Rests
<1> QED
  BY <1>1, <1>2, <1>6, <1>7, <1>8, <1>9, <1>10, <1>11

\* A byte after which the scanner is at rest, and one within a document.
LEMMA FeedWithin ==
    ASSUME SplitInv, Feed, NEW d \in Documents, NEW n \in Int, Arrives(d, n), n + 1 # Len(d),
           UNCHANGED <<parts, ready, splitFailed>>,
           inString' \in BOOLEAN, escape' \in BOOLEAN, depth' \in Nat, scanned' \in Seq(Bytes),
           n + 1 = 0 => ScannerAtRest', n + 1 # 0 => ScannerWithin(d, n + 1)'
    PROVE  SplitInv'
<1>1. SplitTypes /\ StreamInv /\ ScannerInv /\ FoundInv /\ EndInv
  BY DEF SplitInv
<1>2. /\ coming # <<>> /\ ~finished /\ ~splitFailed /\ decoder' = ~Decoded(Head(coming))
      /\ UNCHANGED <<sent, split, finished>>
  BY DEF Feed
<1>3. /\ sent' # <<>> /\ Last(sent') = d
      /\ coming' \in Seq(Bytes) /\ Len(coming') = Len(d) - (n + 1) /\ coming' # <<>>
      /\ StreamInv' /\ (Rests' <=> n + 1 = 0)
  BY StreamShrinks
<1>4. SplitTypes'
  <2>1. decoder' \in BOOLEAN
    BY <1>2
  <2> QED
    BY <1>1, <1>2, <1>3, <2>1 DEF SplitTypes
<1>5. ScannerInv'
  <2>1. Len(d) \in Nat
    BY DocumentFacts
  <2>2. Len(d) - Len(coming') = n + 1
    BY <1>3, <2>1
  <2>3. CASE n + 1 = 0
    BY <1>3, <2>3 DEF ScannerInv
  <2>4. CASE n + 1 # 0
    <3>1. ScannerWithin(d, n + 1)' /\ ~Rests'
      BY <1>3, <2>4
    <3>2. ScannerWithin(Last(sent), Len(Last(sent)) - Len(coming))' <=> ScannerWithin(d, n + 1)'
      BY <1>3, <2>2 DEF ScannerWithin
    <3> QED
      BY <3>1, <3>2 DEF ScannerInv
  <2> QED
    BY <2>3, <2>4
<1>6. FoundInv'
  <2>1. Found' = Found
    BY <1>2 DEF Found
  <2>2. Len(Found) = Len(sent) - 1
    BY <1>1, <1>2 DEF FoundInv
  <2> QED
    BY <1>1, <1>2, <1>3, <2>1, <2>2 DEF FoundInv
<1>7. EndInv'
  BY <1>2 DEF EndInv
<1> QED
  BY <1>3, <1>4, <1>5, <1>6, <1>7 DEF SplitInv

\* White space before a document.
LEMMA SpaceKeeps ==
    ASSUME SplitInv, Feed, NEW d \in Documents, NEW n \in Int, Arrives(d, n), n = -1
    PROVE  SplitInv'
<1>1. Head(coming) = "space"
  BY DEF Arrives, ByteAt
<1>2. ScannerAtRest
  <2>1. Rests
    BY StreamShrinks
  <2> QED
    BY <2>1 DEF SplitInv, ScannerInv, Feed
<1>3. Decoded(Head(coming))
  BY <1>1 DEF Decoded
<1>4. UNCHANGED <<parts, depth, inString, escape, scanned, ready, splitFailed>> /\ ~decoder'
  <2>1. Scan("space") /\ ~decoder'
    BY <1>1, <1>3 DEF Feed
  <2>2. Outside("space")
    BY <1>2, <2>1 DEF Scan, ScannerAtRest
  <2> QED
    BY <2>1, <2>2 DEF Outside, Opening
<1>5. ScannerAtRest'
  BY <1>2, <1>4 DEF ScannerAtRest
<1>6. n + 1 = 0 /\ n + 1 # Len(d)
  BY DocumentFacts
<1>7. inString' \in BOOLEAN /\ escape' \in BOOLEAN /\ depth' \in Nat /\ scanned' \in Seq(Bytes)
  BY <1>4 DEF SplitInv, SplitTypes
<1> QED
  BY <1>4, <1>5, <1>6, <1>7, FeedWithin

\* The bracket that opens a document.
LEMMA FirstKeeps ==
    ASSUME SplitInv, Feed, NEW d \in Documents, NEW n \in Int, Arrives(d, n), n = 0
    PROVE  SplitInv'
<1>1. d \in Seq(Bytes) /\ Len(d) \in Nat /\ Len(d) > 1 /\ d[1] \in Opening /\ d[1] \in Bytes
      /\ PlacesOf(d)[0] = Between
  <2>1. d \in Seq(Bytes) /\ Len(d) \in Nat /\ Len(d) > 1 /\ d[1] \in Opening /\ PlacesOf(d)[0] = Between
    BY DocumentFacts
  <2>2. d[1] \in Bytes
    BY <2>1 DEF Bytes
  <2> QED
    BY <2>1, <2>2
<1>2. Head(coming) = d[1] /\ d[1] # "lead" /\ d[1] # "quote" /\ d[1] # "space"
  <2>1. Head(coming) = d[1]
    BY DEF Arrives, ByteAt
  <2> QED
    BY <1>1, <2>1 DEF Opening
<1>3. ScannerAtRest
  <2>1. Rests
    BY StreamShrinks
  <2> QED
    BY <2>1 DEF SplitInv, ScannerInv, Feed
<1>4. Outside(d[1])
  <2>1. Scan(d[1])
    BY <1>2 DEF Feed, Decoded
  <2> QED
    BY <1>3, <2>1 DEF Scan, ScannerAtRest
<1>5. depth' = 1 /\ scanned' = <<d[1]>> /\ UNCHANGED <<parts, inString, escape, ready, splitFailed>>
  BY <1>1, <1>2, <1>4 DEF Outside
<1>6. PlacesOf(d)[1].depth = 1 /\ ~PlacesOf(d)[1].string /\ ~PlacesOf(d)[1].escape
      /\ PlacesOf(d)[1] \in Places
  <2>1. PlacesOf(d)[1] = PlaceAfter(Between, d[1])
    <3>1. 1 \in 1..Len(d) /\ 1 - 1 = 0
      BY <1>1
    <3> QED
      BY <1>1, <3>1, PlacesRun
  <2>2. Between \in Places /\ ~Between.string /\ Between.depth = 0 /\ ~Between.escape
    BY DEF Between, Places
  <2>3. Nesting(d[1]) = 1
    BY <1>1 DEF Nesting
  <2>4. /\ PlaceAfter(Between, d[1]) \in Places
        /\ PlaceAfter(Between, d[1]).depth = Between.depth + Nesting(d[1])
        /\ PlaceAfter(Between, d[1]).string = (d[1] = "quote")
        /\ PlaceAfter(Between, d[1]).escape = Between.escape
    BY <1>1, <1>2, <2>2, OutsideString
  <2>5. PlacesOf(d)[1].depth = 1
    BY <2>1, <2>2, <2>3, <2>4
  <2>6. ~PlacesOf(d)[1].string
    BY <1>2, <2>1, <2>4, Zenon
  <2>7. ~PlacesOf(d)[1].escape
    BY <2>1, <2>2, <2>4, Zenon
  <2> QED
    BY <2>1, <2>4, <2>5, <2>6, <2>7
<1>7. CharactersOf(d)[1] = <<d[1]>>
  <2>1. 1 \in 1..Len(d) /\ 1 - 1 = 0
    BY <1>1
  <2>2. CharactersOf(d)[1] = More(<<>>, d[1])
    BY <1>1, <2>1, CharactersRun
  <2>3. More(<<>>, d[1]) = Append(<<>>, d[1])
    BY <1>2 DEF More, Decoded
  <2>4. Append(<<>>, d[1]) = <<d[1]>>
    OBVIOUS
  <2> QED
    BY <2>2, <2>3, <2>4
<1>8. scanned' \in Seq(Bytes) /\ parts' \o scanned' = scanned'
  <2>1. <<d[1]>> \in Seq(Bytes)
    BY <1>1
  <2>2. parts' = <<>>
    BY <1>3, <1>5 DEF ScannerAtRest
  <2>3. <<>> \o scanned' = scanned'
    BY <1>5, <2>1, ConcatEmptySeq
  <2> QED
    BY <1>5, <2>1, <2>2, <2>3
<1>9. ~inString' /\ ~escape' /\ inString' \in BOOLEAN /\ escape' \in BOOLEAN
  <2>1. inString \in BOOLEAN /\ escape \in BOOLEAN
    BY DEF SplitInv, SplitTypes
  <2> QED
    BY <1>3, <1>5, <2>1 DEF ScannerAtRest
<1>10. ScannerWithin(d, 1)'
  <2>1. PlacesOf(d)[1].string \in BOOLEAN /\ PlacesOf(d)[1].escape \in BOOLEAN
    BY <1>6, PlaceFields
  <2>2. inString' = PlacesOf(d)[1].string /\ escape' = PlacesOf(d)[1].escape
    BY <1>6, <1>9, <2>1
  <2>3. depth' = PlacesOf(d)[1].depth
    BY <1>5, <1>6
  <2>4. parts' \o scanned' = CharactersOf(d)[1]
    BY <1>5, <1>7, <1>8
  <2> QED
    BY <2>2, <2>3, <2>4 DEF ScannerWithin
<1>11. n + 1 = 1 /\ n + 1 # Len(d) /\ depth' \in Nat
  <2>1. \A m \in Nat : m > 1 => m # 1
    OBVIOUS
  <2>2. Len(d) # 1
    BY <1>1, <2>1
  <2>3. n + 1 = 1
    OBVIOUS
  <2> QED
    BY <1>5, <2>2, <2>3
<1>12. n + 1 # 0 /\ ScannerWithin(d, n + 1)'
  BY <1>10, <1>11
<1> QED
  BY <1>5, <1>8, <1>9, <1>11, <1>12, FeedWithin

\* What holds before a byte within a document.
Within(d, n, next) ==
    /\ n \in 1..(Len(d) - 1) /\ n + 1 \in 1..Len(d)
    /\ Head(coming) = d[n + 1] /\ d[n + 1] \in Bytes
    /\ PlacesOf(d)[n] \in Places /\ next \in Places
    /\ PlacesOf(d)[n].depth > 0 /\ next = PlacesOf(d)[n + 1]
    /\ next = PlaceAfter(PlacesOf(d)[n], d[n + 1])
    /\ n + 1 = Len(d) <=> next.depth = 0
    /\ CharactersOf(d)[n] \in Seq(Bytes)
    /\ CharactersOf(d)[n + 1] = More(CharactersOf(d)[n], d[n + 1])

LEMMA PlacesTyped ==
    ASSUME NEW d \in Seq(Bytes), NEW n \in 0..Len(d)
    PROVE  PlacesOf(d)[n] \in Places
<1> DEFINE C == PlacesOf(d)
           Good == {i \in Nat : i <= Len(d) => C[i] \in Places}
<1>1. Len(d) \in Nat /\ \A i \in 1..Len(d) : d[i] \in Bytes
  OBVIOUS
<1>2. 0 \in Good
  <2>1. C[0] = Between
    BY PlacesRun
  <2>2. Between \in Places
    BY DEF Between, Places
  <2> HIDE DEF C
  <2> QED
    BY <2>1, <2>2
<1>3. ASSUME NEW i \in Nat, i \in Good PROVE i + 1 \in Good
  <2>1. SUFFICES ASSUME i + 1 <= Len(d) PROVE C[i + 1] \in Places
    OBVIOUS
  <2>2. C[i] \in Places /\ i + 1 \in 1..Len(d) /\ (i + 1) - 1 = i
    BY <1>1, <1>3, <2>1
  <2>3. C[i + 1] = PlaceAfter(C[i], d[i + 1])
    BY <2>2, PlacesRun
  <2> HIDE DEF C
  <2> QED
    BY <1>1, <2>2, <2>3, PlaceAfterTyped
<1>4. Good \in SUBSET Nat
  OBVIOUS
<1>5. n \in Nat /\ n <= Len(d)
  BY <1>1
<1>6. n \in Good
  <2> HIDE DEF Good
  <2> QED
    BY <1>2, <1>3, <1>4, <1>5, Induction
<1> QED
  BY <1>5, <1>6

LEMMA WithinDocument ==
    ASSUME NEW d \in Documents, NEW n \in Int, Arrives(d, n), n \notin {-1, 0}
    PROVE  Within(d, n, PlacesOf(d)[n + 1])
<1>1. d \in Seq(Bytes) /\ Len(d) \in Nat /\ Len(d) > 1
  BY DocumentFacts
<1>2. n \in 1..(Len(d) - 1) /\ n + 1 \in 1..Len(d) /\ n + 1 # 0 /\ (n + 1) - 1 = n
      /\ n \in 0..Len(d) /\ n + 1 \in 0..Len(d)
  BY <1>1 DEF Arrives
<1>3. Head(coming) = d[n + 1] /\ d[n + 1] \in Bytes
  BY <1>1, <1>2 DEF Arrives, ByteAt
<1>4. PlacesOf(d)[n] \in Places /\ PlacesOf(d)[n + 1] \in Places /\ CharactersOf(d)[n] \in Seq(Bytes)
  BY <1>1, <1>2, PlacesTyped, CharactersTyped
<1>5. PlacesOf(d)[n + 1] = PlaceAfter(PlacesOf(d)[n], d[n + 1])
      /\ CharactersOf(d)[n + 1] = More(CharactersOf(d)[n], d[n + 1])
  BY <1>1, <1>2, PlacesRun, CharactersRun
<1>6. PlacesOf(d)[n].depth > 0
  BY <1>2, DocumentFacts
<1>7. n + 1 = Len(d) <=> PlacesOf(d)[n + 1].depth = 0
  <2>1. ASSUME n + 1 = Len(d) PROVE PlacesOf(d)[n + 1].depth = 0
    <3>1. PlacesOf(d)[Len(d)] = Between
      BY DocumentFacts
    <3> QED
      BY <2>1, <3>1 DEF Between
  <2>2. ASSUME n + 1 # Len(d) PROVE PlacesOf(d)[n + 1].depth # 0
    <3>1. n + 1 \in 1..(Len(d) - 1)
      BY <1>1, <1>2, <2>2
    <3>2. PlacesOf(d)[n + 1].depth > 0
      BY <3>1, DocumentFacts
    <3>3. PlacesOf(d)[n + 1].depth \in Int
      BY <1>4, PlaceFields
    <3> QED
      BY <3>2, <3>3
  <2> QED
    BY <2>1, <2>2
<1> QED
  BY <1>2, <1>3, <1>4, <1>5, <1>6, <1>7 DEF Within

LEMMA Longer ==
    ASSUME NEW S, NEW a \in Seq(S), NEW b \in Seq(S), NEW x \in S
    PROVE  a \o Append(b, x) = Append(a \o b, x) /\ Append(b, x) \in Seq(S)
           /\ a \o Append(b, x) \in Seq(S) /\ a \o b \in Seq(S)
<1>1. Append(b, x) \in Seq(S) /\ a \o b \in Seq(S)
  BY AppendProperties, ConcatProperties
<1>2. <<x>> \in Seq(S)
  OBVIOUS
<1>3. Append(b, x) = b \o <<x>> /\ Append(a \o b, x) = (a \o b) \o <<x>>
  BY <1>1, AppendIsConcat
<1>4. (a \o b) \o <<x>> = a \o (b \o <<x>>)
  BY <1>2, ConcatAssociative
<1>5. a \o Append(b, x) \in Seq(S)
  BY <1>1, ConcatProperties
<1> QED
  BY <1>1, <1>3, <1>4, <1>5

LEMMA ScannerTells ==
    ASSUME SplitInv, Feed, NEW d \in Documents, NEW n \in Int, Arrives(d, n), n \notin {-1, 0}
    PROVE  /\ depth = PlacesOf(d)[n].depth /\ inString = PlacesOf(d)[n].string
           /\ escape = PlacesOf(d)[n].escape /\ parts \o scanned = CharactersOf(d)[n]
           /\ depth \in Nat /\ depth > 0
           /\ parts \in Seq(Bytes) /\ scanned \in Seq(Bytes)
<1>1. ~Rests
  BY StreamShrinks
<1>2. ~splitFailed
  BY DEF Feed
<1>3. ScannerWithin(d, n)
  BY <1>1, <1>2 DEF SplitInv, ScannerInv, Arrives
<1>4. PlacesOf(d)[n].depth > 0
  BY WithinDocument DEF Within
<1> QED
  BY <1>3, <1>4 DEF ScannerWithin, SplitInv, SplitTypes

\* The scanner follows the grammar while the document goes on.
LEMMA FollowKeeps ==
    ASSUME SplitInv, Feed, NEW d \in Documents, NEW n \in Int, Arrives(d, n), n \notin {-1, 0},
           UNCHANGED <<parts, ready, splitFailed>>, scanned' \in Seq(Bytes),
           parts \o scanned' = CharactersOf(d)[n + 1],
           depth' = PlacesOf(d)[n + 1].depth, depth' # 0, depth' \in Nat,
           inString' = PlacesOf(d)[n + 1].string, escape' = PlacesOf(d)[n + 1].escape
    PROVE  SplitInv'
<1>1. Within(d, n, PlacesOf(d)[n + 1])
  BY WithinDocument
<1>2. n + 1 # Len(d) /\ n + 1 # 0
  BY <1>1 DEF Within
<1>3. inString' \in BOOLEAN /\ escape' \in BOOLEAN
  <2>1. PlacesOf(d)[n + 1] \in Places
    BY <1>1 DEF Within
  <2> QED
    BY <2>1, PlaceFields
<1>4. ScannerWithin(d, n + 1)'
  <2>1. parts' \o scanned' = CharactersOf(d)[n + 1]
    OBVIOUS
  <2> QED
    BY <2>1 DEF ScannerWithin
<1> QED
  BY <1>2, <1>3, <1>4, FeedWithin

\* The first byte of a character tells nothing yet.
LEMMA LeadKeeps ==
    ASSUME SplitInv, Feed, NEW d \in Documents, NEW n \in Int, Arrives(d, n), n \notin {-1, 0},
           d[n + 1] = "lead"
    PROVE  SplitInv'
<1> DEFINE next == PlacesOf(d)[n + 1]
<1>1. Within(d, n, next)
  BY WithinDocument
<1>2. Head(coming) = "lead" /\ next = PlacesOf(d)[n] /\ CharactersOf(d)[n + 1] = CharactersOf(d)[n]
  BY <1>1 DEF Within, PlaceAfter, More, Decoded
<1>3. UNCHANGED <<parts, depth, inString, escape, scanned, ready, splitFailed>>
  BY <1>2 DEF Feed, Decoded
<1>4. /\ depth = PlacesOf(d)[n].depth /\ inString = PlacesOf(d)[n].string
      /\ escape = PlacesOf(d)[n].escape /\ parts \o scanned = CharactersOf(d)[n]
      /\ depth \in Nat /\ depth > 0 /\ parts \in Seq(Bytes) /\ scanned \in Seq(Bytes)
  BY ScannerTells
<1>5. depth' # 0 /\ depth' \in Nat
  BY <1>3, <1>4
<1>6. /\ depth' = next.depth /\ inString' = next.string /\ escape' = next.escape
      /\ parts \o scanned' = CharactersOf(d)[n + 1] /\ scanned' \in Seq(Bytes)
  BY <1>2, <1>3, <1>4
<1> QED
  BY <1>3, <1>5, <1>6, FollowKeeps

\* A character of a string.
LEMMA StringKeeps ==
    ASSUME SplitInv, Feed, NEW d \in Documents, NEW n \in Int, Arrives(d, n), n \notin {-1, 0},
           d[n + 1] # "lead", inString
    PROVE  SplitInv'
<1> DEFINE next == PlacesOf(d)[n + 1]
           place == PlacesOf(d)[n]
           char == d[n + 1]
<1>1. Within(d, n, next)
  BY WithinDocument
<1>2. /\ depth = place.depth /\ inString = place.string
      /\ escape = place.escape /\ parts \o scanned = CharactersOf(d)[n]
      /\ depth \in Nat /\ depth > 0 /\ parts \in Seq(Bytes) /\ scanned \in Seq(Bytes)
  BY ScannerTells
<1>3. Head(coming) = char /\ char \in Bytes /\ place \in Places /\ next = PlaceAfter(place, char)
  BY <1>1 DEF Within
<1>4. InString(char)
  <2>1. Scan(char)
    BY <1>3 DEF Feed, Decoded
  <2>2. depth # 0
    BY <1>2
  <2> QED
    BY <1>2, <2>1, <2>2 DEF Scan
<1>5. /\ next.depth = place.depth
      /\ next.string = (place.escape \/ char # "quote")
      /\ next.escape = (~place.escape /\ char = "backslash")
  <2>1. place \in Places /\ char \in Bytes /\ char # "lead" /\ place.string
    BY <1>2, <1>3
  <2> HIDE DEF place, char
  <2>2. /\ PlaceAfter(place, char).depth = place.depth
        /\ PlaceAfter(place, char).string = (place.escape \/ char # "quote")
        /\ PlaceAfter(place, char).escape = (~place.escape /\ char = "backslash")
    BY <2>1, WithinString
  <2> QED
    BY <1>3, <2>2
<1>6. /\ escape' = (~escape /\ char = "backslash") /\ inString' = (escape \/ char # "quote")
      /\ scanned' = Append(scanned, char) /\ UNCHANGED <<parts, depth, ready, splitFailed>>
  BY <1>4 DEF InString, EscapesNext
<1>7. inString' = next.string /\ escape' = next.escape
  BY <1>2, <1>5, <1>6
<1>8. depth' = next.depth /\ depth' # 0 /\ depth' \in Nat
  BY <1>2, <1>5, <1>6
<1>9. scanned' \in Seq(Bytes) /\ parts \o scanned' = CharactersOf(d)[n + 1]
  <2>1. CharactersOf(d)[n + 1] = Append(CharactersOf(d)[n], char)
    BY <1>1 DEF Within, More, Decoded
  <2>2. parts \o Append(scanned, char) = Append(parts \o scanned, char) /\ Append(scanned, char) \in Seq(Bytes)
    <3>1. parts \in Seq(Bytes) /\ scanned \in Seq(Bytes) /\ char \in Bytes
      BY <1>2, <1>3
    <3> HIDE DEF char
    <3> QED
      BY <3>1, Longer
  <2> QED
    BY <1>2, <1>6, <2>1, <2>2
<1> QED
  BY <1>6, <1>7, <1>8, <1>9, FollowKeeps

\* A character between the strings of a document, but for its last bracket.
LEMMA InsideKeeps ==
    ASSUME SplitInv, Feed, NEW d \in Documents, NEW n \in Int, Arrives(d, n), n \notin {-1, 0},
           d[n + 1] # "lead", ~inString, ~(depth = 1 /\ d[n + 1] \in Closing)
    PROVE  SplitInv'
<1> DEFINE next == PlacesOf(d)[n + 1]
           place == PlacesOf(d)[n]
           char == d[n + 1]
<1>1. Within(d, n, next)
  BY WithinDocument
<1>2. /\ depth = place.depth /\ inString = place.string
      /\ escape = place.escape /\ parts \o scanned = CharactersOf(d)[n]
      /\ depth \in Nat /\ depth > 0 /\ parts \in Seq(Bytes) /\ scanned \in Seq(Bytes)
  BY ScannerTells
<1>3. Head(coming) = char /\ char \in Bytes /\ place \in Places /\ next = PlaceAfter(place, char)
  BY <1>1 DEF Within
<1>4. Inside(char)
  <2>1. Scan(char)
    BY <1>3 DEF Feed, Decoded
  <2>2. depth # 0
    BY <1>2
  <2> QED
    BY <1>2, <2>1, <2>2 DEF Scan
<1>5. /\ next.depth = place.depth + Nesting(char)
      /\ next.string = (char = "quote") /\ next.escape = place.escape
  BY <1>2, <1>3, OutsideString
<1>6. /\ depth' = depth + Nesting(char) /\ inString' = (char = "quote") /\ escape' = escape
      /\ scanned' = Append(scanned, char) /\ UNCHANGED <<parts, ready, splitFailed>>
  BY <1>4 DEF Inside, Nesting
<1>7. inString' = next.string /\ escape' = next.escape
  BY <1>2, <1>5, <1>6
<1>8. depth' = next.depth /\ depth' # 0 /\ depth' \in Nat
  <2>1. CASE char \in Closing
    <3>1. Nesting(char) = -1 /\ depth # 1
      BY <2>1 DEF Nesting, Opening, Closing
    <3> QED
      BY <1>2, <1>5, <1>6, <3>1
  <2>2. CASE char \notin Closing
    <3>1. Nesting(char) \in {0, 1}
      BY <2>2 DEF Nesting
    <3> QED
      BY <1>2, <1>5, <1>6, <3>1
  <2> QED
    BY <2>1, <2>2
<1>9. scanned' \in Seq(Bytes) /\ parts \o scanned' = CharactersOf(d)[n + 1]
  <2>1. CharactersOf(d)[n + 1] = Append(CharactersOf(d)[n], char)
    BY <1>1 DEF Within, More, Decoded
  <2>2. parts \o Append(scanned, char) = Append(parts \o scanned, char) /\ Append(scanned, char) \in Seq(Bytes)
    <3>1. parts \in Seq(Bytes) /\ scanned \in Seq(Bytes) /\ char \in Bytes
      BY <1>2, <1>3
    <3> HIDE DEF char
    <3> QED
      BY <3>1, Longer
  <2> QED
    BY <1>2, <1>6, <2>1, <2>2
<1> QED
  BY <1>6, <1>7, <1>8, <1>9, FollowKeeps

\* A failure takes with it what the chunk completed before.
LEMMA FailureFound ==
    ASSUME SplitInv, ready' = <<>>, splitFailed', UNCHANGED <<sent, split>>
    PROVE  FoundInv'
<1> DEFINE S == Seq(Bytes)
<1>1. split \in Seq(S) /\ ready \in Seq(S) /\ sent \in Seq(Documents)
  BY DEF SplitInv, SplitTypes
<1>2. /\ Len(split) <= Len(Found) /\ Len(Found) \in Nat /\ Len(split) \in Nat /\ Len(sent) \in Nat
      /\ \A i \in 1..Len(split) : Found[i] = split[i] /\ i \in 1..Len(Found)
  <2> HIDE DEF S
  <2>1. /\ Len(Found) = Len(split) + Len(ready)
        /\ \A i \in 1..(Len(split) + Len(ready)) :
              Found[i] = IF i <= Len(split) THEN split[i] ELSE ready[i - Len(split)]
    BY <1>1, ConcatProperties DEF Found
  <2>2. Len(split) \in Nat /\ Len(ready) \in Nat /\ Len(sent) \in Nat
    BY <1>1
  <2> QED
    BY <2>1, <2>2
<1>3. Found' = split
  <2> HIDE DEF S
  <2>1. split \o <<>> = split
    BY <1>1, ConcatEmptySeq
  <2> QED
    BY <2>1 DEF Found
<1>4. FoundInv
  BY DEF SplitInv
<1> HIDE DEF S
<1>5. Len(split) <= Len(sent)
  BY <1>2, <1>4 DEF FoundInv
<1>6. \A i \in 1..Len(split) : split[i] = Characters(sent[i]) /\ Len(split[i]) <= MaxSize
  BY <1>2, <1>4 DEF FoundInv
<1> QED
  BY <1>3, <1>5, <1>6 DEF FoundInv

\* The last bracket completes the document, or it is too large.
LEMMA LastKeeps ==
    ASSUME SplitInv, Feed, NEW d \in Documents, NEW n \in Int, Arrives(d, n), n \notin {-1, 0},
           ~inString, depth = 1, d[n + 1] \in Closing
    PROVE  SplitInv'
<1> DEFINE next == PlacesOf(d)[n + 1]
           place == PlacesOf(d)[n]
           char == d[n + 1]
           document == parts \o Append(scanned, char)
<1>1. Within(d, n, next)
  BY WithinDocument
<1>2. /\ depth = place.depth /\ inString = place.string
      /\ escape = place.escape /\ parts \o scanned = CharactersOf(d)[n]
      /\ depth \in Nat /\ depth > 0 /\ parts \in Seq(Bytes) /\ scanned \in Seq(Bytes)
  BY ScannerTells
<1>3. Head(coming) = char /\ char \in Bytes /\ place \in Places /\ next = PlaceAfter(place, char)
      /\ char # "lead"
  BY <1>1 DEF Within, Closing
<1>4. Completes(char)
  <2>1. Scan(char)
    BY <1>3 DEF Feed, Decoded
  <2> QED
    BY <2>1 DEF Scan
<1>5. n + 1 = Len(d) /\ next = Between
  <2>1. Nesting(char) = -1
    BY DEF Nesting, Opening, Closing
  <2>2. next.depth = place.depth + Nesting(char)
    BY <1>2, <1>3, OutsideString
  <2>3. next.depth = 0
    BY <1>2, <2>1, <2>2
  <2>4. n + 1 = Len(d)
    BY <1>1, <2>3 DEF Within
  <2>5. PlacesOf(d)[Len(d)] = Between
    BY DocumentFacts
  <2> QED
    BY <2>4, <2>5
<1>6. document = Characters(d) /\ document \in Seq(Bytes)
  <2>1. CharactersOf(d)[n + 1] = Append(CharactersOf(d)[n], char)
    BY <1>1, <1>3 DEF Within, More, Decoded
  <2>2. parts \o Append(scanned, char) = Append(parts \o scanned, char)
        /\ parts \o Append(scanned, char) \in Seq(Bytes)
    <3>1. parts \in Seq(Bytes) /\ scanned \in Seq(Bytes) /\ char \in Bytes
      BY <1>2, <1>3
    <3> HIDE DEF char
    <3> QED
      BY <3>1, Longer
  <2> QED
    BY <1>2, <1>5, <2>1, <2>2 DEF Characters
<1>7. ~escape
  <2>1. next.escape = place.escape
    BY <1>2, <1>3, OutsideString
  <2>2. ~next.escape
    BY <1>5 DEF Between
  <2> QED
    BY <1>2, <2>1, <2>2
<1>8. /\ coming # <<>> /\ ~finished /\ ~splitFailed /\ ~decoder' /\ decoder' \in BOOLEAN
      /\ UNCHANGED <<sent, split, finished>>
  BY <1>3 DEF Feed, Decoded
<1>9. /\ sent' # <<>> /\ Last(sent') = d /\ coming' \in Seq(Bytes) /\ coming' = <<>>
      /\ StreamInv' /\ Rests'
  BY <1>5, StreamShrinks
<1>10. SplitTypes /\ FoundInv
  BY DEF SplitInv
<1>11. CASE Len(document) > MaxSize
  <2>1. splitFailed' = TRUE /\ ready' = <<>> /\ UNCHANGED <<parts, depth, inString, escape, scanned>>
    BY <1>4, <1>11 DEF Completes, Fails
  <2>2. <<>> \in Seq(Seq(Bytes))
    OBVIOUS
  <2>3. SplitTypes'
    BY <1>8, <1>9, <1>10, <2>1, <2>2 DEF SplitTypes
  <2>4. ScannerInv'
    BY <2>1 DEF ScannerInv
  <2>5. FoundInv'
    BY <1>8, <2>1, FailureFound
  <2>6. EndInv'
    <3>1. Len(Characters(Last(sent')))  > MaxSize
      BY <1>6, <1>9, <1>11
    <3> QED
      BY <1>8, <1>9, <2>1, <3>1 DEF EndInv
  <2> QED
    BY <1>9, <2>3, <2>4, <2>5, <2>6 DEF SplitInv
<1>12. CASE ~(Len(document) > MaxSize)
  <2>1. /\ ready' = Append(ready, document) /\ parts' = <<>> /\ scanned' = <<>> /\ depth' = 0
        /\ UNCHANGED <<inString, escape, splitFailed>>
    BY <1>4, <1>12 DEF Completes
  <2>2. split \in Seq(Seq(Bytes)) /\ ready \in Seq(Seq(Bytes)) /\ sent \in Seq(Documents)
    BY <1>10 DEF SplitTypes
  <2>3. Found' = Append(Found, document) /\ Found \in Seq(Seq(Bytes)) /\ ready' \in Seq(Seq(Bytes))
    <3> DEFINE S == Seq(Bytes)
    <3>1. split \in Seq(S) /\ ready \in Seq(S) /\ document \in S
      BY <1>6, <2>2
    <3> HIDE DEF S, document
    <3>2. split \o Append(ready, document) = Append(split \o ready, document)
          /\ split \o ready \in Seq(S) /\ Append(ready, document) \in Seq(S)
      BY <3>1, Longer
    <3>3. Found' = Append(Found, document) /\ Found \in Seq(S) /\ ready' \in Seq(S)
      BY <1>8, <2>1, <3>2 DEF Found
    <3> QED
      BY <3>3 DEF S
  <2>4. SplitTypes'
    <3>1. <<>> \in Seq(Bytes) /\ Len(<<>>) <= MaxSize
      BY SplitterAssumption
    <3> QED
      BY <1>8, <1>9, <1>10, <2>1, <2>3, <3>1 DEF SplitTypes
  <2>5. ScannerInv'
    <3>1. inString' = inString /\ ~inString'
      BY <2>1
    <3>2. escape' = escape /\ ~escape'
      BY <1>7, <2>1
    <3> QED
      BY <1>8, <1>9, <2>1, <3>1, <3>2 DEF ScannerInv, ScannerAtRest
  <2>6. FoundInv'
    <3> DEFINE S == Seq(Bytes)
               k == Len(sent)
    <3>1. k \in Nat /\ Len(Found) = k - 1
      BY <1>8, <1>10, <2>2 DEF FoundInv
    <3>2. \A i \in 1..Len(Found) : Found[i] = Characters(sent[i]) /\ Len(Found[i]) <= MaxSize
      BY <1>10 DEF FoundInv
    <3>3. sent[k] = d
      BY <1>8, <1>9 DEF Last
    <3>4. Len(document) <= MaxSize
      <4>1. Len(document) \in Nat /\ MaxSize \in Nat
        BY <1>6, SplitterAssumption
      <4> HIDE DEF document
      <4> QED
        BY <1>12, <4>1
    <3>5. Found \in Seq(S) /\ document \in S
      BY <1>6, <2>3
    <3>6. document = Characters(d)
      BY <1>6
    <3> HIDE DEF S, document, k
    <3>7. /\ Len(Append(Found, document)) = Len(Found) + 1
          /\ \A i \in 1..Len(Found) : Append(Found, document)[i] = Found[i]
          /\ Append(Found, document)[Len(Found) + 1] = document
      BY <3>5, AppendProperties
    <3>8. Len(Found') = k
      BY <2>3, <3>1, <3>7 DEF document
    <3>9. ASSUME NEW i \in 1..k PROVE Found'[i] = Characters(sent[i]) /\ Len(Found'[i]) <= MaxSize
      <4>0. Found' = Append(Found, document)
        BY <2>3 DEF document
      <4>1. CASE i = k
        <5>1. Found'[i] = document
          BY <3>1, <3>7, <4>0, <4>1
        <5> QED
          BY <3>3, <3>4, <3>6, <4>1, <5>1
      <4>2. CASE i # k
        <5>1. i \in 1..Len(Found)
          BY <3>1, <4>2
        <5>2. Found'[i] = Found[i]
          BY <3>7, <4>0, <5>1
        <5> QED
          BY <3>2, <5>1, <5>2
      <4> QED
        BY <4>1, <4>2
    <3>10. sent' = sent /\ Len(sent') = k
      BY <1>8 DEF k
    <3>11. k <= k /\ k - 0 = k
      BY <3>1
    <3> QED
      BY <1>9, <3>8, <3>9, <3>10, <3>11 DEF FoundInv
  <2>7. EndInv'
    <3>1. ~splitFailed' /\ ~finished'
      BY <1>8, <2>1
    <3> QED
      BY <3>1 DEF EndInv
  <2> QED
    BY <1>9, <2>4, <2>5, <2>6, <2>7 DEF SplitInv
<1> QED
  BY <1>11, <1>12

LEMMA FeedKeeps == ASSUME SplitInv, Feed PROVE SplitInv'
<1>1. PICK d \in Documents, n \in Int : Arrives(d, n)
  BY Arrival
<1>2. CASE n = -1
  BY <1>1, <1>2, SpaceKeeps
<1>3. CASE n = 0
  BY <1>1, <1>3, FirstKeeps
<1>4. CASE n \notin {-1, 0}
  <2>1. CASE d[n + 1] = "lead"
    BY <1>1, <1>4, <2>1, LeadKeeps
  <2>2. CASE d[n + 1] # "lead" /\ inString
    BY <1>1, <1>4, <2>2, StringKeeps
  <2>3. CASE d[n + 1] # "lead" /\ ~inString /\ ~(depth = 1 /\ d[n + 1] \in Closing)
    BY <1>1, <1>4, <2>3, InsideKeeps
  <2>4. CASE ~inString /\ depth = 1 /\ d[n + 1] \in Closing
    BY <1>1, <1>4, <2>4, LastKeeps
  <2> QED
    BY <2>1, <2>2, <2>3, <2>4
<1> QED
  BY <1>2, <1>3, <1>4

\* The end of a chunk keeps the part of an unfinished document.
LEMMA ChunkEndsKeeps == ASSUME SplitInv, ChunkEnds PROVE SplitInv'
<1> DEFINE d == Last(sent)
           n == Len(d) - Len(coming)
<1>1. SplitTypes /\ StreamInv /\ ScannerInv /\ FoundInv /\ EndInv
  BY DEF SplitInv
<1>2. /\ ~splitFailed /\ (scanned # <<>> \/ ready # <<>>)
      /\ UNCHANGED <<sent, coming, decoder, depth, inString, escape, finished>>
  BY DEF ChunkEnds
<1>3. ~finished
  BY <1>1, <1>2 DEF EndInv
<1>4. parts \in Seq(Bytes) /\ scanned \in Seq(Bytes) /\ depth \in Nat
      /\ Len(parts) \in Nat /\ Len(scanned) \in Nat /\ MaxSize \in Nat /\ Len(parts) <= MaxSize
  <2>1. parts \in Seq(Bytes) /\ scanned \in Seq(Bytes) /\ depth \in Nat /\ Len(parts) <= MaxSize
    BY <1>1 DEF SplitTypes
  <2> QED
    BY <2>1, SplitterAssumption
<1>5. StreamInv' /\ (Rests' <=> Rests)
  BY <1>1, <1>2 DEF StreamInv, Rests
<1>6. Kept \in Seq(Bytes) /\ Len(Kept) = Len(parts) + Len(scanned)
  BY <1>4, ConcatProperties DEF Kept
<1>7. CASE OutgrowsLimit
  <2>1. splitFailed' = TRUE /\ ready' = <<>> /\ UNCHANGED <<parts, scanned, split>>
    BY <1>7 DEF ChunkEnds
  <2>2. SplitTypes'
    <3>1. <<>> \in Seq(Seq(Bytes))
      OBVIOUS
    <3> QED
      BY <1>1, <1>2, <2>1, <3>1 DEF SplitTypes
  <2>3. ~Rests
    <3>1. depth # 0
      BY <1>4, <1>7 DEF OutgrowsLimit
    <3> QED
      BY <1>1, <1>2, <3>1 DEF ScannerInv, ScannerAtRest
  <2>4. sent # <<>> /\ Len(Characters(d)) > MaxSize
    <3>1. sent # <<>> /\ Len(coming) \in 1..(Len(d) - 1)
      BY <2>3 DEF Rests
    <3>2. d \in Documents
      BY <1>1, <3>1, LastSent
    <3>3. d \in Seq(Bytes) /\ Len(d) \in Nat
      BY <3>2, DocumentFacts
    <3>4. n \in 0..Len(d)
      BY <3>1, <3>3
    <3>5. Kept = CharactersOf(d)[n]
      BY <1>1, <1>2, <2>3 DEF ScannerInv, ScannerWithin, Kept
    <3>6. Len(CharactersOf(d)[n]) <= Len(Characters(d)) /\ Characters(d) \in Seq(Bytes)
      <4>1. Len(d) \in 0..Len(d)
        BY <3>3
      <4> HIDE DEF d, n
      <4> QED
        BY <3>3, <3>4, <4>1, CharactersGrow, CharactersTyped DEF Characters
    <3>7. Len(Kept) > MaxSize /\ Len(Kept) \in Nat
      BY <1>4, <1>6, <1>7 DEF OutgrowsLimit
    <3>8. Len(Characters(d)) \in Nat
      BY <3>6
    <3> HIDE DEF d, n
    <3>9. Len(Kept) <= Len(Characters(d))
      BY <3>5, <3>6
    <3>10. Len(Characters(d)) > MaxSize
      BY <1>4, <3>7, <3>8, <3>9
    <3> QED
      BY <3>1, <3>10
  <2>5. EndInv'
    BY <1>2, <1>3, <2>4 DEF EndInv
  <2>6. ScannerInv'
    BY <2>1 DEF ScannerInv
  <2>7. FoundInv'
    BY <1>2, <2>1, FailureFound
  <2> QED
    BY <1>5, <2>2, <2>5, <2>6, <2>7 DEF SplitInv
<1>8. CASE ~OutgrowsLimit
  <2>1. /\ split' = split \o ready /\ ready' = <<>> /\ parts' = Kept /\ scanned' = <<>>
        /\ splitFailed' = splitFailed
    BY <1>8 DEF ChunkEnds
  <2>2. Kept \o <<>> = Kept
    BY <1>6, ConcatEmptySeq
  <2>3. split \in Seq(Seq(Bytes)) /\ ready \in Seq(Seq(Bytes))
    BY <1>1 DEF SplitTypes
  <2>4. split \o ready \in Seq(Seq(Bytes)) /\ (split \o ready) \o <<>> = split \o ready
    <3> DEFINE S == Seq(Bytes)
    <3>1. split \in Seq(S) /\ ready \in Seq(S)
      BY <2>3
    <3> HIDE DEF S
    <3>2. split \o ready \in Seq(S) /\ (split \o ready) \o <<>> = split \o ready
      BY <3>1, ConcatProperties, ConcatEmptySeq
    <3> QED
      BY <3>2 DEF S
  <2>5. Found' = Found
    BY <2>1, <2>4 DEF Found
  <2>6. FoundInv'
    BY <1>1, <1>2, <2>1, <2>5 DEF FoundInv
  <2>7. ScannerInv'
    <3>1. CASE Rests
      <4>1. ScannerAtRest
        BY <1>1, <1>2, <3>1 DEF ScannerInv
      <4>2. Kept = <<>>
        <5>1. parts = <<>> /\ scanned = <<>>
          BY <4>1 DEF ScannerAtRest
        <5>2. <<>> \o <<>> = <<>>
          BY <1>4, <5>1, ConcatEmptySeq
        <5> QED
          BY <5>1, <5>2 DEF Kept
      <4> QED
        BY <1>2, <1>5, <2>1, <3>1, <4>1, <4>2 DEF ScannerInv, ScannerAtRest
    <3>2. CASE ~Rests
      <4>1. ScannerWithin(Last(sent), Len(Last(sent)) - Len(coming))
        BY <1>1, <1>2, <3>2 DEF ScannerInv
      <4>2. parts' \o scanned' = parts \o scanned
        BY <2>1, <2>2 DEF Kept
      <4>3. ScannerWithin(Last(sent), Len(Last(sent)) - Len(coming))'
        BY <1>2, <4>1, <4>2 DEF ScannerWithin
      <4> QED
        BY <1>5, <3>2, <4>3 DEF ScannerInv
    <3> QED
      BY <3>1, <3>2
  <2>8. Len(Kept) <= MaxSize
    <3>1. CASE depth > 0
      BY <1>4, <1>6, <1>8, <3>1 DEF OutgrowsLimit
    <3>2. CASE ~(depth > 0)
      <4>1. CASE Rests
        <5>1. scanned = <<>>
          BY <1>1, <1>2, <4>1 DEF ScannerInv, ScannerAtRest
        <5>2. Len(scanned) = 0
          BY <5>1
        <5> QED
          BY <1>4, <1>6, <5>2
      <4>2. CASE ~Rests
        <5>1. depth = PlacesOf(d)[n].depth
          BY <1>1, <1>2, <4>2 DEF ScannerInv, ScannerWithin
        <5>2. sent # <<>> /\ Len(coming) \in 1..(Len(d) - 1)
          BY <4>2 DEF Rests
        <5>3. d \in Documents
          BY <1>1, <5>2, LastSent
        <5>4. Len(d) \in Nat
          BY <5>3, DocumentFacts
        <5>5. n \in 1..(Len(d) - 1)
          BY <5>2, <5>4
        <5> HIDE DEF d, n
        <5> QED
          BY <3>2, <5>1, <5>3, <5>5, DocumentFacts
      <4> QED
        BY <4>1, <4>2
    <3> QED
      BY <3>1, <3>2
  <2>9. SplitTypes'
    <3>1. <<>> \in Seq(Seq(Bytes)) /\ <<>> \in Seq(Bytes)
      OBVIOUS
    <3> QED
      BY <1>1, <1>2, <1>6, <2>1, <2>4, <2>8, <3>1 DEF SplitTypes
  <2>10. EndInv'
    BY <1>2, <1>3, <2>1 DEF EndInv
  <2> QED
    BY <1>5, <2>6, <2>7, <2>9, <2>10 DEF SplitInv
<1> QED
  BY <1>7, <1>8

\* The end of the stream cuts a document off, or none.
LEMMA FinishKeeps == ASSUME SplitInv, StreamFinishes PROVE SplitInv'
<1>1. SplitTypes /\ StreamInv /\ ScannerInv /\ FoundInv /\ EndInv
  BY DEF SplitInv
<1>2. /\ scanned = <<>> /\ ready = <<>> /\ ~splitFailed /\ finished' = TRUE /\ splitFailed' = CutOff
      /\ UNCHANGED <<sent, coming, decoder, parts, depth, inString, escape, scanned, ready, split>>
  BY DEF StreamFinishes
<1>3. Rests' <=> Rests
  BY <1>2 DEF Rests
<1>4. CutOff <=> ~Rests
  <2>1. CASE Rests
    <3>1. depth = 0 /\ ~decoder
      BY <1>1, <1>2, <2>1 DEF ScannerInv, ScannerAtRest
    <3> QED
      BY <2>1, <3>1 DEF CutOff
  <2>2. CASE ~Rests
    <3> DEFINE d == Last(sent)
               n == Len(d) - Len(coming)
    <3>1. depth = PlacesOf(d)[n].depth
      BY <1>1, <1>2, <2>2 DEF ScannerInv, ScannerWithin
    <3>2. sent # <<>> /\ Len(coming) \in 1..(Len(d) - 1)
      BY <2>2 DEF Rests
    <3>3. d \in Documents
      BY <1>1, <3>2, LastSent
    <3>4. Len(d) \in Nat
      BY <3>3, DocumentFacts
    <3>5. n \in 1..(Len(d) - 1)
      BY <3>2, <3>4
    <3> HIDE DEF d, n
    <3>6. depth > 0
      BY <3>1, <3>3, <3>5, DocumentFacts
    <3> QED
      BY <2>2, <3>6 DEF CutOff
  <2> QED
    BY <2>1, <2>2
<1>5. CutOff \in BOOLEAN
  BY DEF CutOff
<1>6. SplitTypes'
  BY <1>1, <1>2, <1>5 DEF SplitTypes
<1>7. StreamInv'
  BY <1>1, <1>2 DEF StreamInv
<1>8. splitFailed' <=> ~Rests
  BY <1>2, <1>4
<1>9. ScannerInv'
  <2>1. CASE Rests
    <3>1. ScannerAtRest'
      BY <1>1, <1>2, <2>1 DEF ScannerInv, ScannerAtRest
    <3> QED
      BY <1>3, <2>1, <3>1 DEF ScannerInv
  <2>2. CASE ~Rests
    BY <1>8, <2>2 DEF ScannerInv
  <2> QED
    BY <2>1, <2>2
<1>10. FoundInv'
  <2>1. Found' = Found
    BY <1>2 DEF Found
  <2> QED
    BY <1>1, <1>2, <2>1 DEF FoundInv
<1>11. EndInv'
  <2>1. finished' /\ scanned' = <<>> /\ ready' = <<>>
    BY <1>2
  <2>2. splitFailed' => ~Rests'
    BY <1>3, <1>8
  <2>3. ~splitFailed' => Rests'
    BY <1>3, <1>8
  <2> QED
    BY <2>1, <2>2, <2>3 DEF EndInv
<1> QED
  BY <1>6, <1>7, <1>9, <1>10, <1>11 DEF SplitInv

LEMMA SplitStutters == ASSUME SplitInv, UNCHANGED SplitterVars PROVE SplitInv'
<1>1. UNCHANGED <<sent, coming, decoder, parts, depth, inString, escape, scanned, ready, split,
                  finished, splitFailed>>
  BY DEF SplitterVars
<1>2. SplitTypes' /\ StreamInv' /\ EndInv'
  BY <1>1 DEF SplitInv, SplitTypes, StreamInv, EndInv, Rests
<1>3. ScannerInv'
  BY <1>1 DEF SplitInv, ScannerInv, Rests, ScannerAtRest, ScannerWithin
<1>4. FoundInv'
  BY <1>1 DEF SplitInv, FoundInv, Found
<1> QED
  BY <1>2, <1>3, <1>4 DEF SplitInv

LEMMA SplitStep == SplitInv /\ [SplitterNext]_SplitterVars => SplitInv'
  BY SendsKeeps, FeedKeeps, ChunkEndsKeeps, FinishKeeps, SplitStutters DEF SplitterNext

LEMMA SplitTyped == SplitInv => SplitterTypeOK
  BY DEF SplitInv, SplitTypes, SplitterTypeOK

LEMMA SplitAsSent == SplitInv => SplitsAsSent
<1> SUFFICES ASSUME SplitInv PROVE SplitsAsSent
  OBVIOUS
<1>1. SplitTypes /\ FoundInv /\ EndInv
  BY DEF SplitInv
<1>2. coming = <<>> /\ ~splitFailed => Len(Found) = Len(sent)
  <2>1. Len(sent) \in Nat
    BY <1>1 DEF SplitTypes
  <2> QED
    BY <1>1, <2>1 DEF FoundInv
<1>3. splitFailed => finished \/ Len(Characters(Last(sent))) > MaxSize
  BY <1>1 DEF EndInv
<1>4. ASSUME finished, Len(sent) > 0 PROVE splitFailed = (Len(coming) \in 1..(Len(Last(sent)) - 1))
  <2>1. sent # <<>>
    BY <1>1, <1>4 DEF SplitTypes
  <2>2. Rests <=> Len(coming) \notin 1..(Len(Last(sent)) - 1)
    BY <2>1 DEF Rests
  <2>3. splitFailed \in BOOLEAN /\ (splitFailed <=> ~Rests)
    BY <1>1, <1>4 DEF EndInv, SplitTypes
  <2> QED
    BY <2>2, <2>3
<1>5. /\ Len(Found) <= Len(sent)
      /\ \A i \in 1..Len(Found) : Found[i] = Characters(sent[i]) /\ Len(Found[i]) <= MaxSize
  BY <1>1 DEF FoundInv
<1> QED
  BY <1>2, <1>3, <1>4, <1>5 DEF SplitsAsSent, Found

\* For any documents of objects and arrays, the variables of the splitter have their
\* types, and what it keeps of a document stays within the limit.
THEOREM SplitterTypes == SplitterSpec => []SplitterTypeOK
  BY SplitStarts, SplitStep, SplitTyped, PTL DEF SplitterSpec

\* For any documents of objects and arrays, any chunks and any limit, the splitter
\* returns the documents of the gateway, each once, whole and in order; it fails only
\* for one that is too large or that the end of the stream cuts off (feed, finish).
THEOREM SplitWhole == SplitterSpec => []SplitsAsSent
  BY SplitStarts, SplitStep, SplitAsSent, PTL DEF SplitterSpec

--------------------------------------------------------------------------------
(* DocumentSplitter implements DocumentDelivery                             *)

Texts == {Characters(d) : d \in Documents}

\* What the gateway has given is a sequence of what its documents say.
LEMMA GivenTyped ==
    ASSUME SplitTypes
    PROVE  /\ Given \in Seq(Texts) /\ Len(Given) = Len(sent) /\ Len(sent) \in Nat
           /\ \A i \in 1..Len(sent) : Given[i] = Characters(sent[i]) /\ sent[i] \in Documents
<1>1. sent \in Seq(Documents) /\ Len(sent) \in Nat /\ DOMAIN sent = 1..Len(sent)
  BY DEF SplitTypes
<1>2. \A i \in 1..Len(sent) : sent[i] \in Documents
  BY <1>1
<1>3. Given \in [1..Len(sent) -> Texts]
  BY <1>1, <1>2 DEF Given, Texts
<1>4. Given \in Seq(Texts) /\ Len(Given) = Len(sent)
  BY <1>1, <1>3
<1> QED
  BY <1>1, <1>2, <1>4 DEF Given

\* What was returned is the first part of what was found.
LEMMA ReturnedFirst ==
    ASSUME SplitTypes
    PROVE  /\ Found \in Seq(Seq(Bytes)) /\ Len(split) \in Nat /\ Len(ready) \in Nat
           /\ Len(Found) = Len(split) + Len(ready)
           /\ ready = <<>> => Found = split
           /\ ready # <<>> => Len(ready) > 0
<1> DEFINE S == Seq(Bytes)
<1>1. split \in Seq(S) /\ ready \in Seq(S)
  BY DEF SplitTypes
<1> HIDE DEF S
<1>2. Found \in Seq(S) /\ Len(Found) = Len(split) + Len(ready)
  BY <1>1, ConcatProperties DEF Found
<1>3. ready = <<>> => Found = split
  BY <1>1, ConcatEmptySeq DEF Found
<1>4. Len(split) \in Nat /\ Len(ready) \in Nat /\ (ready # <<>> => Len(ready) > 0)
  BY <1>1
<1> QED
  BY <1>2, <1>3, <1>4 DEF S

LEMMA DeliveryStarts == SplitterInit => Delivery!DeliveryInit
<1> SUFFICES ASSUME SplitterInit PROVE Delivery!DeliveryInit
  OBVIOUS
<1>1. sent = <<>> /\ split = <<>> /\ splitFailed = FALSE /\ finished = FALSE
  BY DEF SplitterInit
<1>2. Given = <<>>
  BY <1>1 DEF Given
<1> QED
  BY <1>1, <1>2 DEF Delivery!DeliveryInit

LEMMA SendsGives == ASSUME SplitInv, GatewaySends PROVE Delivery!Give
<1>1. PICK d \in Documents : sent' = Append(sent, d)
  BY DEF GatewaySends
<1>2. ~finished /\ ~splitFailed /\ UNCHANGED <<split, finished, splitFailed>>
  BY DEF GatewaySends
<1>3. sent \in Seq(Documents) /\ sent' \in Seq(Documents) /\ Len(sent) \in Nat
      /\ Len(sent') = Len(sent) + 1 /\ DOMAIN sent' = 1..(Len(sent) + 1) /\ DOMAIN sent = 1..Len(sent)
      /\ \A i \in 1..(Len(sent) + 1) : sent'[i] = IF i <= Len(sent) THEN sent[i] ELSE d
  <2>1. sent \in Seq(Documents)
    BY DEF SplitInv, SplitTypes
  <2> QED
    BY <1>1, <2>1
<1> DEFINE t == Characters(d)
<1>4. Given' = [i \in 1..(Len(sent) + 1) |-> Characters(sent'[i])]
  BY <1>3 DEF Given
<1>5. Given = [i \in 1..Len(sent) |-> Characters(sent[i])]
  BY <1>3 DEF Given
<1>6. Given \in Seq(Texts) /\ Len(Given) = Len(sent)
  BY GivenTyped DEF SplitInv
<1>7. \A i \in 1..(Len(sent) + 1) : Characters(sent'[i]) = IF i <= Len(sent) THEN Given[i] ELSE t
  BY <1>3, <1>5
<1>8. Given' = [i \in 1..(Len(Given) + 1) |-> IF i <= Len(Given) THEN Given[i] ELSE t]
  BY <1>4, <1>6, <1>7
<1>9. t \in Texts
  BY DEF Texts
<1> HIDE DEF t
<1>10. Given' = Append(Given, t)
  <2>1. ASSUME NEW s \in Seq(Texts), NEW x \in Texts
        PROVE  Append(s, x) = [i \in 1..(Len(s) + 1) |-> IF i <= Len(s) THEN s[i] ELSE x]
    <3> DEFINE q == Append(s, x)
    <3> HIDE DEF Texts
    <3>1. /\ q \in Seq(Texts) /\ Len(s) \in Nat /\ Len(q) = Len(s) + 1 /\ q[Len(s) + 1] = x
          /\ \A i \in 1..Len(s) : q[i] = s[i]
      BY AppendProperties
    <3> HIDE DEF q
    <3>2. q = [i \in 1..Len(q) |-> q[i]]
      BY <3>1
    <3>3. \A i \in 1..(Len(s) + 1) : q[i] = IF i <= Len(s) THEN s[i] ELSE x
      BY <3>1
    <3>4. q = [i \in 1..(Len(s) + 1) |-> IF i <= Len(s) THEN s[i] ELSE x]
      BY <3>1, <3>2, <3>3
    <3> QED
      BY <3>4 DEF q
  <2> QED
    BY <1>6, <1>8, <1>9, <2>1
<1> QED
  BY <1>2, <1>9, <1>10 DEF Delivery!Give, Texts, t

\* The splitter fails while it owes the last document.
LEMMA FailureOwes ==
    ASSUME SplitInv, SplitInv', UNCHANGED <<sent, split>>, ~finished, ~splitFailed, splitFailed',
           finished' => ready = <<>> /\ UNCHANGED coming
    PROVE  Delivery!Break
<1>1. SplitTypes /\ FoundInv /\ EndInv' /\ ~finished /\ ~splitFailed /\ splitFailed'
  BY DEF SplitInv
<1>2. Len(Given) = Len(sent) /\ Len(sent) \in Nat
  BY <1>1, GivenTyped
<1>3. Len(Found) = Len(split) + Len(ready) /\ Len(split) \in Nat /\ Len(ready) \in Nat
  BY <1>1, ReturnedFirst
<1>4. Len(Found) <= Len(sent)
  BY <1>1 DEF FoundInv
<1>5. Len(split) # Len(sent)
  <2>1. CASE finished'
    <3>1. ~Rests' /\ ready = <<>> /\ UNCHANGED coming
      BY <1>1, <2>1 DEF EndInv
    <3>2. ~Rests
      BY <3>1 DEF Rests
    <3>3. sent # <<>> /\ Len(coming) \in 1..(Len(Last(sent)) - 1)
      BY <3>2 DEF Rests
    <3>4. coming # <<>>
      BY <1>1, <3>3, ComingTyped
    <3>5. Len(Found) = Len(sent) - 1
      BY <1>1, <3>4 DEF FoundInv
    <3> QED
      BY <1>2, <1>3, <3>5
  <2>2. CASE ~finished'
    <3>1. sent # <<>> /\ Len(Characters(Last(sent))) > MaxSize
      BY <1>1, <2>2 DEF EndInv
    <3>2. SUFFICES ASSUME Len(split) = Len(sent) PROVE FALSE
      OBVIOUS
    <3>3. Last(sent) = sent[Len(sent)] /\ Len(sent) > 0 /\ Last(sent) \in Documents
      BY <1>1, <3>1, LastSent
    <3>4. Len(sent) \in 1..Len(Found)
      BY <1>2, <1>3, <1>4, <3>2, <3>3
    <3>5. Found[Len(sent)] = Characters(sent[Len(sent)]) /\ Len(Found[Len(sent)]) <= MaxSize
      BY <1>1, <3>4 DEF FoundInv
    <3>6. Len(Characters(Last(sent))) <= MaxSize
      BY <3>3, <3>5
    <3>7. Len(Characters(Last(sent))) \in Nat /\ MaxSize \in Nat
      BY <3>3, CharactersTyped, SplitterAssumption
    <3> QED
      BY <3>1, <3>6, <3>7
  <2> QED
    BY <2>1, <2>2
<1>6. Len(split) < Len(Given)
  BY <1>2, <1>3, <1>4, <1>5
<1>7. Given' = Given
  BY DEF Given
<1> QED
  BY <1>1, <1>6, <1>7 DEF Delivery!Break

LEMMA FeedDelivers ==
    ASSUME SplitInv, SplitInv', Feed
    PROVE  Delivery!Break \/ UNCHANGED Delivery!deliveryVars
<1>1. UNCHANGED <<sent, split, finished>> /\ ~finished /\ ~splitFailed
  BY DEF Feed
<1>2. CASE splitFailed'
  BY <1>1, <1>2, FailureOwes
<1>3. CASE ~splitFailed'
  <2>1. Given' = Given
    BY <1>1 DEF Given
  <2> QED
    BY <1>1, <1>3, <2>1 DEF Delivery!deliveryVars
<1> QED
  BY <1>2, <1>3

LEMMA ChunkDelivers ==
    ASSUME SplitInv, SplitInv', ChunkEnds
    PROVE  Delivery!Break \/ Delivery!Return \/ UNCHANGED Delivery!deliveryVars
<1>1. UNCHANGED <<sent, finished>> /\ ~splitFailed /\ (scanned # <<>> \/ ready # <<>>)
  BY DEF ChunkEnds
<1>2. ~finished
  BY <1>1 DEF SplitInv, EndInv
<1>3. Given' = Given
  BY <1>1 DEF Given
<1>4. CASE OutgrowsLimit
  <2>1. splitFailed' = TRUE /\ UNCHANGED split
    BY <1>4 DEF ChunkEnds
  <2> QED
    BY <1>1, <1>2, <2>1, FailureOwes
<1>5. CASE ~OutgrowsLimit
  <2>1. split' = Found /\ UNCHANGED splitFailed
    BY <1>5 DEF ChunkEnds, Found
  <2>2. SplitTypes /\ FoundInv
    BY DEF SplitInv
  <2>3. CASE ready = <<>>
    <3>1. split' = split
      BY <2>1, <2>2, <2>3, ReturnedFirst
    <3> QED
      BY <1>1, <1>3, <2>1, <3>1 DEF Delivery!deliveryVars
  <2>4. CASE ready # <<>>
    <3> DEFINE S == Seq(Bytes)
               n == Len(Found)
    <3>1. /\ Len(split) \in Nat /\ n = Len(split) + Len(ready) /\ Len(ready) \in Nat /\ Len(ready) > 0
          /\ Found \in Seq(S)
      BY <2>2, <2>4, ReturnedFirst
    <3>2. Given \in Seq(Texts) /\ Len(Given) = Len(sent) /\ Len(sent) \in Nat
          /\ \A i \in 1..Len(sent) : Given[i] = Characters(sent[i]) /\ sent[i] \in Documents
      BY <2>2, GivenTyped
    <3>3. /\ n <= Len(sent) /\ (n = Len(sent) - 1 \/ n = Len(sent))
          /\ \A i \in 1..n : Found[i] = Characters(sent[i])
      <4>1. n <= Len(sent) /\ \A i \in 1..n : Found[i] = Characters(sent[i])
        BY <2>2 DEF FoundInv
      <4>2. n = Len(sent) - (IF coming = <<>> THEN 0 ELSE 1)
        BY <1>1, <2>2 DEF FoundInv
      <4> HIDE DEF n
      <4> QED
        BY <4>1, <4>2, <3>2
    <3>4. n \in Nat /\ n > Len(split) /\ n \in {Len(Given) - 1, Len(Given)} /\ n \in 0..Len(Given)
      <4> HIDE DEF n
      <4> QED
        BY <3>1, <3>2, <3>3
    <3>5. \A i \in 1..n : Found[i] = Given[i]
      <4>1. n \in Nat /\ \A i \in 1..n : i \in 1..Len(sent)
        BY <3>1, <3>2, <3>3
      <4> QED
        BY <4>1, <3>2, <3>3
    <3>6. Found = SubSeq(Given, 1, n)
      <4>1. Found = [i \in 1..n |-> Given[i]]
        BY <3>1, <3>5
      <4>2. SubSeq(Given, 1, n) = [i \in 1..n |-> Given[i]]
        <5> HIDE DEF n
        <5> QED
          BY <3>2, <3>4
      <4> QED
        BY <4>1, <4>2
    <3> HIDE DEF n
    <3> QED
      BY <1>1, <1>2, <1>3, <2>1, <3>4, <3>6 DEF Delivery!Return
  <2> QED
    BY <2>3, <2>4
<1> QED
  BY <1>4, <1>5

LEMMA FinishDelivers ==
    ASSUME SplitInv, SplitInv', StreamFinishes
    PROVE  Delivery!Break \/ Delivery!End
<1>1. /\ UNCHANGED <<sent, split, coming>> /\ ~finished /\ ~splitFailed /\ ready = <<>>
      /\ finished' = TRUE
  BY DEF StreamFinishes
<1>2. CASE splitFailed'
  BY <1>1, <1>2, FailureOwes
<1>3. CASE ~splitFailed'
  <2>1. SplitTypes /\ FoundInv
    BY DEF SplitInv
  <2>2. Len(Found) = Len(sent) - (IF coming = <<>> THEN 0 ELSE 1)
    BY <1>1, <2>1 DEF FoundInv
  <2>3. Found = split /\ Len(split) \in Nat
    BY <1>1, <2>1, ReturnedFirst
  <2>4. Len(Given) = Len(sent) /\ Len(sent) \in Nat
    BY <2>1, GivenTyped
  <2>5. Len(Given) <= Len(split) + 1
    BY <2>2, <2>3, <2>4
  <2>6. Given' = Given
    BY <1>1 DEF Given
  <2> QED
    BY <1>1, <1>3, <2>5, <2>6 DEF Delivery!End
<1> QED
  BY <1>2, <1>3

\* For any documents, chunks and limit, the splitter implements DocumentDelivery: the
\* documents are returned in order and for good, all that are complete at the end of
\* a chunk, and nothing after an error (feed, finish).
THEOREM SplitterDelivers == SplitterSpec => DeliversAsPromised
<1>1. SplitInv /\ SplitInv' /\ [SplitterNext]_SplitterVars
      => [Delivery!DeliveryNext]_(Delivery!deliveryVars)
  <2> SUFFICES ASSUME SplitInv, SplitInv', [SplitterNext]_SplitterVars
               PROVE  [Delivery!DeliveryNext]_(Delivery!deliveryVars)
    OBVIOUS
  <2>1. CASE UNCHANGED SplitterVars
    <3>1. UNCHANGED <<sent, split, finished, splitFailed>>
      BY <2>1 DEF SplitterVars
    <3>2. Given' = Given
      BY <3>1 DEF Given
    <3> QED
      BY <3>1, <3>2 DEF Delivery!deliveryVars
  <2>2. CASE SplitterNext
    BY <2>2, SendsGives, FeedDelivers, ChunkDelivers, FinishDelivers
    DEF SplitterNext, Delivery!DeliveryNext
  <2> QED
    BY <2>1, <2>2
<1> QED
  BY <1>1, SplitStarts, SplitStep, DeliveryStarts, PTL
  DEF SplitterSpec, DeliversAsPromised, Delivery!DeliverySpec

--------------------------------------------------------------------------------
(* All components                                                           *)

\* The component that runs is one of them, for good.
LEMMA ComponentStays == GatewaySpec => [](component \in Components)
<1>1. GatewayInit => component \in Components
  BY DEF GatewayInit
<1>2. component \in Components /\ [GatewayNext]_GatewayVars => (component \in Components)'
  BY DEF GatewayNext, GatewayVars, ClientSteps, SplitterSteps, FlowSteps
<1> QED
  BY <1>1, <1>2, PTL DEF GatewaySpec

\* A step of the whole is a step of one component, and the others rest.
LEMMA GatewayStep ==
    [GatewayNext]_GatewayVars =>
        [ClientNext]_ClientVars /\ [SplitterNext]_SplitterVars /\ [FlowNext]_FlowVars
  BY DEF GatewayNext, GatewayVars, ClientSteps, SplitterSteps, FlowSteps

\* The run of all components is a run of each: what is proved of a component holds
\* in it.
LEMMA GatewayImplements == GatewaySpec => ClientSpec /\ SplitterSpec /\ FlowSpec
<1>1. GatewayInit => ClientInit /\ SplitterInit /\ FlowInit
  BY DEF GatewayInit
<1> QED
  BY <1>1, GatewayStep, PTL DEF GatewaySpec, ClientSpec, SplitterSpec, FlowSpec

\* The variables of the component that runs have their types, for any constants:
\* the types of all three components at once.
THEOREM GatewayTyped == GatewaySpec => []GatewayTypesOK
<1>1. component \in Components /\ ClientTypeOK /\ SplitterTypeOK /\ FlowTypeOK => GatewayTypesOK
  BY DEF GatewayTypesOK, Components
<1> QED
  BY <1>1, ComponentStays, GatewayImplements, ClientTyping, SplitterTypes, FlowTypes, PTL

\* Whatever the constants are, the run of all components keeps every safety property
\* of each: one login at a time, no radio request acted on twice, documents whole and
\* in order, no connection stored but as a gateway answered, and no certificate but
\* a confirmed one.
THEOREM GatewayKeeps ==
    GatewaySpec => /\ [](/\ OneLogin /\ RadioTakenOnce /\ SplitsAsSent
                         /\ OnlyConfirmedCertificates)
                   /\ StoredAsAnswered
                   /\ DeliversAsPromised
  BY GatewayImplements, OneAtATime, TakenOnce, SplitWhole, SplitterDelivers, StoredFromAnswers,
     CertificatesConfirmed, PTL
================================================================================
