----------------------------- MODULE GatewayClient -----------------------------
(***************************************************************************)
(* The HTTP client of one gateway (api.py, OpusGatewayClient): login and   *)
(* token of a WebUI 2026 gateway, requests that are sent once or resent by *)
(* aiohttp, what a failed request says of the gateway, and the framing of  *)
(* the event stream.                                                       *)
(*                                                                         *)
(* A token is the number of its login, 0 is none.  Bodies are abstracted   *)
(* to whether they are a readable success; the documents of a stream are   *)
(* DocumentSplitter's part.                                                *)
(***************************************************************************)
EXTENDS Integers, Sequences

CONSTANTS RadioCalls,   \* commands and radio reads: sent with _send_once
          ReadCalls,    \* other GETs
          StreamCalls,  \* openings of the event stream
          MaxTokens     \* bound: logins that succeed

HttpCalls == RadioCalls \cup ReadCalls \cup StreamCalls

ASSUME ClientAssumption ==
    /\ RadioCalls \cap (ReadCalls \cup StreamCalls) = {}
    /\ ReadCalls \cap StreamCalls = {}
    /\ MaxTokens \in Nat \ {0}

VARIABLES
    webui,        \* generation = GENERATION_WEBUI_2026
    pinned,       \* _pin is set
    token,        \* _token
    issued,       \* the gateway: tokens issued so far
    acceptedTokens, \* the gateway: those it accepts
    locked,       \* _login_lock
    lockQueue,    \* its waiters
    httpStage,    \* where each call is
    carries,      \* the token in its headers
    resent,       \* aiohttp sent it again
    reply,        \* the gateway's answer to the current attempt; "begun" broke off
    taken,        \* how often the gateway acted on it (radio calls)
    outcome,      \* how it ended for the caller
    fallback,     \* streams that were refused line framing and ask for plain
    lineRejected  \* _line_framing_rejected

loginVars   == <<token, issued, acceptedTokens, locked, lockQueue>>
callVars    == <<httpStage, carries, resent, reply, taken, outcome>>
framingVars == <<fallback, lineRejected>>
ClientVars  == <<webui, pinned, loginVars, callVars, framingVars>>

Stages   == {"new", "lock", "login", "sending", "open", "done"}
Statuses == {"ok", "error", "401", "403", "429"}
\* How a call ends: with an answer, good or bad; its token, its credentials or the
\* certificate rejected (OpusTokenExpiredError, OpusAuthError, OpusCertificateError);
\* the gateway unreachable (OpusConnectionError); or it is unknown whether the
\* gateway acted (OpusTimeoutError, a cancelled caller).
Outcomes == {"none", "answered", "expired", "auth", "unreachable", "unknown"}

ClientTypeOK ==
    /\ webui \in BOOLEAN /\ pinned \in BOOLEAN
    /\ issued \in 0..MaxTokens
    /\ token \in 0..issued
    /\ acceptedTokens \subseteq 1..issued
    /\ locked \in BOOLEAN
    /\ lockQueue \in Seq(HttpCalls)
    /\ httpStage \in [HttpCalls -> Stages]
    /\ carries \in [HttpCalls -> 0..issued]
    /\ resent \in [HttpCalls -> BOOLEAN]
    /\ reply \in [HttpCalls -> Statuses \cup {"none", "begun"}]
    /\ taken \in [HttpCalls -> Nat]
    /\ outcome \in [HttpCalls -> Outcomes]
    /\ fallback \subseteq StreamCalls
    /\ lineRejected \in BOOLEAN

ClientInit ==
    /\ webui \in BOOLEAN /\ pinned \in {webui, FALSE}
    /\ token = 0 /\ issued = 0 /\ acceptedTokens = {}
    /\ locked = FALSE /\ lockQueue = <<>>
    /\ httpStage = [c \in HttpCalls |-> "new"]
    /\ carries = [c \in HttpCalls |-> 0]
    /\ resent = [c \in HttpCalls |-> FALSE]
    /\ reply = [c \in HttpCalls |-> "none"]
    /\ taken = [c \in HttpCalls |-> 0]
    /\ outcome = [c \in HttpCalls |-> "none"]
    /\ fallback = {} /\ lineRejected = FALSE

--------------------------------------------------------------------------------
(* Logging in                                                               *)

EndsAs(c, result) ==
    /\ httpStage' = [httpStage EXCEPT ![c] = "done"]
    /\ outcome' = [outcome EXCEPT ![c] = result]
    /\ carries' = [carries EXCEPT ![c] = 0]
    /\ resent' = [resent EXCEPT ![c] = FALSE]
    /\ reply' = [reply EXCEPT ![c] = "none"]
    /\ UNCHANGED taken

\* session.request with the headers of this moment.
Dispatch(c, with) ==
    /\ httpStage' = [httpStage EXCEPT ![c] = "sending"]
    /\ carries' = [carries EXCEPT ![c] = with]
    /\ resent' = [resent EXCEPT ![c] = FALSE]
    /\ reply' = [reply EXCEPT ![c] = "none"]
    /\ UNCHANGED <<taken, outcome>>

\* _async_login posts; without a certificate to trust it raises at once.
PostLogin(c) ==
    IF pinned
    THEN /\ httpStage' = [httpStage EXCEPT ![c] = "login"]
         /\ locked' = TRUE
         /\ UNCHANGED <<carries, resent, reply, taken, outcome>>
    ELSE EndsAs(c, "auth") /\ locked' = FALSE

\* Variation: the lock's new owner logs in without looking at the token again.
LoginInTurn(c) == PostLogin(c)

\* The second look at the token, under the lock.
UnderLock(c) == IF token = 0 THEN PostLogin(c) ELSE Dispatch(c, token) /\ locked' = FALSE

\* _async_auth_headers until the first wait.
Authenticate(c) ==
    IF ~webui \/ token # 0 THEN Dispatch(c, token) /\ UNCHANGED <<locked, lockQueue>>
    ELSE IF locked \/ lockQueue # <<>>
         THEN /\ httpStage' = [httpStage EXCEPT ![c] = "lock"]
              /\ lockQueue' = Append(lockQueue, c)
              /\ UNCHANGED <<locked, carries, resent, reply, taken, outcome>>
         ELSE PostLogin(c) /\ UNCHANGED lockQueue

\* _async_request and async_stream.
StartCall(c) ==
    /\ httpStage[c] = "new"
    /\ Authenticate(c)
    /\ UNCHANGED <<webui, pinned, token, issued, acceptedTokens, framingVars>>

\* The lock is free and its first waiter runs.
LockTaken ==
    /\ ~locked /\ lockQueue # <<>>
    /\ lockQueue' = Tail(lockQueue)
    /\ UnderLock(Head(lockQueue))
    /\ UNCHANGED <<webui, pinned, token, issued, acceptedTokens, framingVars>>

LoggedIn(c) ==
    /\ httpStage[c] = "login" /\ issued < MaxTokens
    /\ issued' = issued + 1
    /\ token' = issued + 1
    /\ acceptedTokens' = acceptedTokens \cup {issued + 1}
    /\ locked' = FALSE
    /\ Dispatch(c, issued + 1)
    /\ UNCHANGED <<webui, pinned, lockQueue, framingVars>>

\* Variation: a login that fails keeps the lock.
KeepsLock == UNCHANGED locked

\* async with: the lock is released however the login ends.
ReleasesLock == locked' = FALSE

\* Rejected credentials, no or another answer, another certificate, cancelled.
LoginFails(c) ==
    /\ httpStage[c] = "login"
    /\ \E result \in {"auth", "unknown", "unreachable", "answered"} : EndsAs(c, result)
    /\ ReleasesLock
    /\ UNCHANGED <<webui, pinned, token, issued, acceptedTokens, lockQueue, framingVars>>

\* The waiters without one of them.
Without(queue, c) ==
    LET i == CHOOSE i \in 1..Len(queue) : queue[i] = c
    IN  [j \in 1..(Len(queue) - 1) |-> queue[IF j < i THEN j ELSE j + 1]]

\* A caller is cancelled while it waits for the lock.
LeavesLock(c) ==
    /\ httpStage[c] = "lock"
    /\ EndsAs(c, "unknown")
    /\ lockQueue' = Without(lockQueue, c)
    /\ UNCHANGED <<webui, pinned, token, issued, acceptedTokens, locked, framingVars>>

\* The gateway forgets its tokens: they expire, it restarts.
TokensExpire ==
    /\ acceptedTokens # {}
    /\ acceptedTokens' = {}
    /\ UNCHANGED <<webui, pinned, token, issued, locked, lockQueue, callVars, framingVars>>

--------------------------------------------------------------------------------
(* Requests                                                                 *)

\* The gateway meets the request and acts on it, or refuses it unread.
GatewayTakes(c) ==
    /\ httpStage[c] = "sending" /\ reply[c] = "none"
    /\ \E status \in Statuses :
          /\ webui => (status = "401") = (carries[c] \notin acceptedTokens)
          /\ reply' = [reply EXCEPT ![c] = status]
          /\ taken' = [taken EXCEPT ![c] = IF c \in RadioCalls /\ status \in {"ok", "error"} THEN @ + 1 ELSE @]
    /\ UNCHANGED <<webui, pinned, loginVars, httpStage, carries, resent, outcome, framingVars>>

\* _check_auth and what _async_request makes of the answer.
OutcomeOf(status) ==
    CASE status = "401" /\ webui -> "expired"
      [] status \in {"401", "403"} /\ ~(status = "401" /\ webui) -> "auth"
      [] OTHER -> "answered"

AnswerRead(c) ==
    /\ c \notin StreamCalls
    /\ httpStage[c] = "sending" /\ reply[c] # "none"
    /\ EndsAs(c, OutcomeOf(reply[c]))
    /\ token' = IF OutcomeOf(reply[c]) = "expired" THEN 0 ELSE token
    /\ UNCHANGED <<webui, pinned, issued, acceptedTokens, locked, lockQueue, framingVars>>

\* Whatever is no 401 or 403 has a body that is read.
HasBody(c) == reply[c] \in Statuses \ {"401", "403"}

\* The body is too large or unreadable.
AnswerUnreadable(c) ==
    /\ c \notin StreamCalls
    /\ httpStage[c] = "sending" /\ HasBody(c)
    /\ EndsAs(c, "answered")
    /\ UNCHANGED <<webui, pinned, loginVars, framingVars>>

\* The connection breaks within the body: aiohttp does not send again then.
BodyBreaks(c) ==
    /\ c \notin StreamCalls
    /\ httpStage[c] = "sending" /\ HasBody(c)
    /\ httpStage' = [httpStage EXCEPT ![c] = "done"]
    /\ outcome' = [outcome EXCEPT ![c] = "unreachable"]
    /\ reply' = [reply EXCEPT ![c] = "begun"]
    /\ UNCHANGED <<webui, pinned, loginVars, carries, resent, taken, framingVars>>

\* No connection at all, or to another certificate: nothing was sent.
ConnectFails(c) ==
    /\ httpStage[c] = "sending" /\ reply[c] = "none"
    /\ EndsAs(c, "unreachable") \/ (webui /\ EndsAs(c, "auth"))
    /\ UNCHANGED <<webui, pinned, loginVars, framingVars>>

\* Variation: radio requests are left to aiohttp.
SentAgainAlways(c) == ~resent[c]

\* aiohttp sends once more when the connection breaks before the answer, unless
\* _send_once is in the way.
SentAgain(c) == ~resent[c] /\ c \notin RadioCalls

\* _NotRepeated: whether the gateway acted on the request is unknown.
BrokenAs(c) == IF c \in RadioCalls THEN "unknown" ELSE "unreachable"

ConnectionBreaks(c) ==
    /\ httpStage[c] = "sending"
    /\ IF SentAgain(c)
       THEN /\ resent' = [resent EXCEPT ![c] = TRUE]
            /\ reply' = [reply EXCEPT ![c] = "none"]
            /\ UNCHANGED <<httpStage, carries, taken, outcome>>
       ELSE EndsAs(c, BrokenAs(c))
    /\ UNCHANGED <<webui, pinned, loginVars, framingVars>>

\* Its timeout, or its caller is cancelled.
GivenUp(c) ==
    /\ httpStage[c] \in {"sending", "open"}
    /\ EndsAs(c, "unknown")
    /\ UNCHANGED <<webui, pinned, loginVars, framingVars>>

--------------------------------------------------------------------------------
(* The event stream                                                         *)

AsksForLine(c) == ~lineRejected /\ c \notin fallback

\* _LineFramingRefused: any status but 200, 401, 403 and 429.
Refused(c) == AsksForLine(c) /\ reply[c] = "error"

\* 401, 403, 429, and any failure of a plain stream.
StreamFails(c) ==
    /\ c \in StreamCalls /\ httpStage[c] = "sending"
    /\ reply[c] \in Statuses \ {"ok"} /\ ~Refused(c)
    /\ EndsAs(c, OutcomeOf(reply[c]))
    /\ token' = IF OutcomeOf(reply[c]) = "expired" THEN 0 ELSE token
    /\ UNCHANGED <<webui, pinned, issued, acceptedTokens, locked, lockQueue, framingVars>>

\* The same attempt goes on with a plain request, authenticated anew; that line
\* framing was refused is remembered only when the plain stream delivers.
StreamRefused(c) ==
    /\ c \in StreamCalls /\ httpStage[c] = "sending" /\ Refused(c)
    /\ fallback' = fallback \cup {c}
    /\ Authenticate(c)
    /\ UNCHANGED <<webui, pinned, token, issued, acceptedTokens, lineRejected>>

StreamAccepted(c) ==
    /\ c \in StreamCalls /\ httpStage[c] = "sending" /\ reply[c] = "ok"
    /\ httpStage' = [httpStage EXCEPT ![c] = "open"]
    /\ UNCHANGED <<webui, pinned, loginVars, carries, resent, reply, taken, outcome, framingVars>>

StreamDelivers(c) ==
    /\ httpStage[c] = "open"
    /\ lineRejected' = (lineRejected \/ c \in fallback)
    /\ UNCHANGED <<webui, pinned, loginVars, callVars, fallback>>

\* The gateway closes it, or a document is unreadable.
StreamEnds(c) ==
    /\ httpStage[c] = "open"
    /\ EndsAs(c, "answered") \/ EndsAs(c, "unreachable")
    /\ UNCHANGED <<webui, pinned, loginVars, framingVars>>

\* reset_stream_framing, with _restart_stream: the open stream is cancelled.
GatewayRestarted ==
    /\ lineRejected' = FALSE
    /\ LET ended == {c \in StreamCalls : httpStage[c] \in {"sending", "open"}}
       IN  /\ httpStage' = [c \in HttpCalls |-> IF c \in ended THEN "done" ELSE httpStage[c]]
           /\ outcome' = [c \in HttpCalls |-> IF c \in ended THEN "unknown" ELSE outcome[c]]
           /\ carries' = [c \in HttpCalls |-> IF c \in ended THEN 0 ELSE carries[c]]
           /\ resent' = [c \in HttpCalls |-> IF c \in ended THEN FALSE ELSE resent[c]]
           /\ reply' = [c \in HttpCalls |-> IF c \in ended THEN "none" ELSE reply[c]]
    /\ UNCHANGED <<webui, pinned, loginVars, taken, fallback>>

--------------------------------------------------------------------------------
LoginStep(c)   == StartCall(c) \/ LoggedIn(c) \/ LoginFails(c) \/ LeavesLock(c)
RequestStep(c) == \/ GatewayTakes(c) \/ AnswerRead(c) \/ AnswerUnreadable(c) \/ BodyBreaks(c)
                  \/ ConnectFails(c) \/ ConnectionBreaks(c) \/ GivenUp(c)
StreamStep(c)  == StreamFails(c) \/ StreamRefused(c) \/ StreamAccepted(c) \/ StreamDelivers(c) \/ StreamEnds(c)

ClientNext ==
    \/ \E c \in HttpCalls : LoginStep(c) \/ RequestStep(c) \/ StreamStep(c)
    \/ LockTaken \/ TokensExpire \/ GatewayRestarted

\* A login ends by its timeout, and the event loop runs the lock's next owner.
ClientFairness == WF_ClientVars(LockTaken) /\ \A c \in HttpCalls : WF_ClientVars(LoginFails(c))

ClientSpec     == ClientInit /\ [][ClientNext]_ClientVars
ClientFairSpec == ClientSpec /\ ClientFairness

--------------------------------------------------------------------------------
(* Properties                                                               *)

\* Calls that meet a missing or rejected token together log in once: a login is
\* under way only while there is no token, one at a time, and what is sent
\* carries a token the gateway issued, never "Bearer None" (_async_auth_headers).
OneLogin ==
    /\ \A c \in HttpCalls : httpStage[c] = "login" =>
          locked /\ token = 0 /\ \A d \in HttpCalls \ {c} : httpStage[d] # "login"
    /\ \A c \in HttpCalls : httpStage[c] = "sending" => (carries[c] # 0) = webui

\* The gateway acts at most once on a radio request, and not at all on one the
\* caller is told was unreachable or rejected before its answer began: a
\* connection that broke after the request was sent is a timeout
\* (_send_once, _async_request).
RadioTakenOnce ==
    \A c \in RadioCalls :
        /\ taken[c] <= 1
        /\ outcome[c] \in {"unreachable", "expired", "auth"}
             => taken[c] = 0 \/ reply[c] = "begun"

\* A call that waits for another one's login goes on in the end, whether that
\* login succeeds, fails or is cancelled (_async_auth_headers).
LoginLetsOthersGoOn ==
    \A c \in HttpCalls : httpStage[c] = "lock" ~> httpStage[c] # "lock"
================================================================================
