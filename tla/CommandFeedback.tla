---------------------------- MODULE CommandFeedback ----------------------------
(***************************************************************************)
(* Commands, feedback and delayed status checks of one channel:            *)
(* async_send_command, _handle_telegram, the reconciliation timers and     *)
(* _async_reconcile_status (coordinator.py), and the estimates an entity   *)
(* makes of an acknowledged command (enocean_device.py).                   *)
(*                                                                         *)
(* A step is the code between two awaits.  What the radio queue does is    *)
(* taken from RadioQueue: one request on the radio, commands before        *)
(* checks, and no request survives an outage in the queue.  A value is     *)
(* represented by where it comes from.  The revision counters are          *)
(* represented by what a call would find on comparing them: the fields     *)
(* reported since it was sent (heard), and whether the channel is as the   *)
(* entity saw it (fresh).  Cover travel is not part of this module.        *)
(***************************************************************************)
EXTENDS Integers, FiniteSets

CONSTANTS Fields,      \* the fields of the channel, e.g. position and angle
          Commands,    \* the calls of async_send_command by entities
          Foreign,     \* the commands other controllers send
          FieldsOf,    \* the fields each of them sets (command_fields_by_channel)
          Signature,   \* command_signature: equal for commands with the same effect
          MaxOutages   \* bound: how often the gateway becomes unavailable

Telegrams == Commands \cup Foreign

ASSUME CommandsAssumption ==
    /\ Commands \cap Foreign = {}
    /\ FieldsOf \in [Telegrams -> (SUBSET Fields) \ {{}}]
    /\ DOMAIN Signature = Telegrams
    /\ MaxOutages \in Nat

VARIABLES
    stage,             \* where each call of async_send_command is
    heard,             \* the fields whose _feedback_revisions moved since it was sent
    fresh,             \* the calls since whose start state_revision did not move
    registered,        \* the calls in _sent_commands that did not expire
    onAir,             \* outbound telegrams the stream may still deliver
    pending,           \* _pending_reconciliation_fields; {} without an entry
    timers,            \* how many of _pending_reconciliation_queries did not fire
    needed,            \* the channel is in _reconcile_needed
    check,             \* the task of _async_reconcile_status
    met,               \* a timer of this schedule started or met the check on the radio
    source,            \* where the shown value of each field comes from
    gatewayAvailable,  \* _gateway_available
    outages,
    owed,              \* history: fields that were promised a check and had none yet
    excused            \* history: fields whose checks an error or an outage dropped

callVars  == <<stage, heard, fresh, registered>>
timerVars == <<pending, timers, needed, met>>
factVars  == <<owed, excused>>
vars == <<callVars, onAir, timerVars, check, source, gatewayAvailable, outages, factVars>>

Delays  == 2   \* the length of OUTBOUND_STATE_RECONCILIATION_DELAYS
Assumed == {"estimate", "foreign"}

FlagTypes ==
    needed \in BOOLEAN /\ met \in BOOLEAN /\ gatewayAvailable \in BOOLEAN

ValueTypes ==
    /\ stage \in [Commands -> {"new", "queued", "cut", "sending", "done"}]
    /\ heard \in [Commands -> SUBSET Fields]
    /\ fresh \subseteq Commands
    /\ registered \subseteq Commands
    /\ onAir \subseteq Telegrams
    /\ pending \subseteq Fields
    /\ timers \in 0..Delays
    /\ check \in {"idle", "queued", "cut", "sending"}
    /\ source \in [Fields -> {"report"} \cup Assumed]
    /\ outages \in 0..MaxOutages
    /\ owed \subseteq Fields
    /\ excused \subseteq Fields

TypeOK == FlagTypes /\ ValueTypes

Init ==
    /\ stage = [c \in Commands |-> "new"]
    /\ heard = [c \in Commands |-> {}]
    /\ fresh = {}
    /\ registered = {}
    /\ onAir = Foreign
    /\ pending = {}
    /\ timers = 0
    /\ needed = FALSE
    /\ check = "idle"
    /\ met = FALSE
    /\ source = [f \in Fields |-> "report"]
    /\ gatewayAvailable = TRUE
    /\ outages = 0
    /\ owed = {}
    /\ excused = {}

--------------------------------------------------------------------------------
(* The delayed checks                                                       *)

\* Variation: a new schedule forgets the fields of the previous one.
ScheduleAnew(fields) ==
    /\ pending' = fields
    /\ timers' = Delays
    /\ needed' = FALSE
    /\ met' = FALSE
    /\ owed' = IF gatewayAvailable THEN owed \cup fields ELSE owed
    /\ excused' = excused \ fields

\* Variation: the timers of the previous schedule are not cancelled.
ScheduleMore(fields) ==
    /\ pending' = pending \cup fields
    /\ timers' = timers + Delays
    /\ needed' = FALSE
    /\ met' = FALSE
    /\ owed' = IF gatewayAvailable THEN owed \cup fields ELSE owed
    /\ excused' = excused \ fields

\* _schedule_reconciliation_queries: earlier fields stay, earlier timers and a
\* check that still waits for the radio do not.
Schedule(fields) ==
    /\ pending' = pending \cup fields
    /\ timers' = Delays
    /\ needed' = FALSE
    /\ met' = FALSE
    /\ owed' = IF gatewayAvailable THEN owed \cup fields ELSE owed
    /\ excused' = excused \ fields

\* _cancel_reconciliation_queries, after an error or an outage.
DropChecks ==
    /\ pending' = {}
    /\ timers' = 0
    /\ needed' = FALSE
    /\ owed' = {}
    /\ excused' = excused \cup pending
    /\ UNCHANGED met

--------------------------------------------------------------------------------
(* The radio, as RadioQueue provides it                                     *)

Underway(c)    == stage[c] \in {"queued", "cut", "sending"}
RadioFree      == check # "sending" /\ \A c \in Commands : stage[c] # "sending"
CommandsQueued == \E c \in Commands : stage[c] \in {"queued", "cut"}

\* No request of this device uses the radio or waits for it.  Those of others
\* may still do: a request that finds the radio idle may have to wait.
RadioIdle == RadioFree /\ ~CommandsQueued /\ check = "idle"

\* _command_waiters: the checks are calls of async_send_command, too.
Waiters == check # "idle" \/ \E c \in Commands : Underway(c)

--------------------------------------------------------------------------------
(* async_send_command, called by an entity                                  *)

\* snapshot_feedback and the start of the PUT.
Transmit(c) ==
    /\ stage' = [stage EXCEPT ![c] = "sending"]
    /\ heard' = [heard EXCEPT ![c] = {}]
    /\ onAir' = onAir \cup {c}

\* The end of the call: its echo is expected, even if nothing was sent.
Leave(c) ==
    /\ stage' = [stage EXCEPT ![c] = "done"]
    /\ registered' = registered \cup {c}
    /\ fresh' = fresh \ {c}

\* The entity takes its snapshot and calls; the call waits, goes out at once,
\* or fails because the gateway is unavailable.
Call(c) ==
    /\ stage[c] = "new"
    /\ \/ /\ gatewayAvailable
          /\ fresh' = fresh \cup {c}
          /\ \/ RadioIdle /\ Transmit(c)
             \/ stage' = [stage EXCEPT ![c] = "queued"] /\ UNCHANGED <<heard, onAir>>
          /\ UNCHANGED registered
       \/ /\ ~gatewayAvailable
          /\ Leave(c)
          /\ UNCHANGED <<heard, onAir>>
    /\ UNCHANGED <<timerVars, check, source, gatewayAvailable, outages, factVars>>

\* The queue gives it the radio; a call that waited through an outage fails.
Served(c) ==
    /\ RadioFree
    /\ \/ /\ stage[c] = "queued"
          /\ Transmit(c)
          /\ UNCHANGED <<fresh, registered>>
       \/ /\ stage[c] = "cut"
          /\ Leave(c)
          /\ UNCHANGED <<heard, onAir>>
    /\ UNCHANGED <<timerVars, check, source, gatewayAvailable, outages, factVars>>

\* 200: checks for what was not reported meanwhile, then the entity's estimate
\* if nothing at all changed meanwhile.  An outage does not undo the answer.
Acknowledged(c) ==
    /\ stage[c] = "sending"
    /\ LET unconfirmed == FieldsOf[c] \ heard[c] IN
          IF unconfirmed # {} THEN Schedule(unconfirmed)
                              ELSE UNCHANGED <<timerVars, factVars>>
    /\ source' = [f \in Fields |-> IF c \in fresh /\ f \in FieldsOf[c]
                                   THEN "estimate" ELSE source[f]]
    /\ Leave(c)
    /\ UNCHANGED <<heard, onAir, check, gatewayAvailable, outages>>

\* 201 and 202 (deferred), no answer in time, connection lost: no estimate and
\* no checks.
NotDelivered(c) ==
    /\ stage[c] = "sending"
    /\ Leave(c)
    /\ UNCHANGED <<heard, onAir, timerVars, check, source, gatewayAvailable, outages, factVars>>

\* Any other status: last_command_error, and all checks of the device go.
Rejected(c) ==
    /\ stage[c] = "sending"
    /\ DropChecks
    /\ Leave(c)
    /\ UNCHANGED <<heard, onAir, check, source, gatewayAvailable, outages>>

--------------------------------------------------------------------------------
(* The status check                                                         *)

\* Variation: coalesced into a check that waits, without wanting it again.
TimerForgets ==
    /\ timers > 0
    /\ ~(met /\ check = "sending")
    /\ timers' = timers - 1
    /\ met' = (met \/ check = "sending")
    /\ IF gatewayAvailable /\ check = "idle"
       THEN check' = "queued" /\ needed' = TRUE
       ELSE UNCHANGED <<check, needed>>
    /\ UNCHANGED owed
    /\ UNCHANGED <<callVars, onAir, pending, source, gatewayAvailable, outages, excused>>

\* query_callback.  A check that exists is not doubled, even one that an outage
\* has cut off.  The timers of one schedule are further apart than a request
\* can last, so they do not both meet the same request.
Timer ==
    /\ timers > 0
    /\ ~(met /\ check = "sending")
    /\ timers' = timers - 1
    /\ \/ /\ gatewayAvailable /\ RadioIdle
          /\ check' = "sending"
          /\ needed' = FALSE
          /\ owed' = {}
       \/ /\ gatewayAvailable
          /\ check' = IF check = "idle" THEN "queued" ELSE check
          /\ needed' = TRUE
          /\ owed' = IF check = "cut" THEN {} ELSE owed
       \/ /\ ~gatewayAvailable
          /\ UNCHANGED <<check, needed, owed>>
    /\ met' = (met \/ "sending" \in {check, check'})
    /\ UNCHANGED <<callVars, onAir, pending, source, gatewayAvailable, outages, excused>>

\* No command waits any more: still_needed decides.
CheckServed ==
    /\ check \in {"queued", "cut"}
    /\ RadioFree /\ ~CommandsQueued
    /\ \/ /\ check = "queued" /\ needed
          /\ check' = "sending"
          /\ needed' = FALSE
          /\ owed' = {}
       \/ /\ check = "cut" \/ ~needed
          /\ check' = "idle"
          /\ UNCHANGED <<needed, owed>>
    /\ UNCHANGED <<callVars, onAir, pending, timers, met, source, gatewayAvailable,
                   outages, excused>>

\* The request ends; a status value comes as a report of its own.
CheckEnds ==
    /\ check = "sending"
    /\ check' = "idle"
    /\ \/ UNCHANGED <<timerVars, factVars>>
       \/ DropChecks      \* rejected
    /\ UNCHANGED <<callVars, onAir, source, gatewayAvailable, outages>>

--------------------------------------------------------------------------------
(* The event stream; every document makes the gateway available             *)

\* Variation: the reported channel keeps its state_revision.
ReportUnnoticed(fields) ==
    /\ heard' = [c \in Commands |-> IF stage[c] = "sending" THEN heard[c] \cup fields
                                                            ELSE heard[c]]
    /\ source' = [f \in Fields |-> IF f \in fields THEN "report" ELSE source[f]]
    /\ pending' = pending \ fields
    /\ IF pending \subseteq fields THEN timers' = 0 /\ needed' = FALSE
                                   ELSE UNCHANGED <<timers, needed>>
    /\ gatewayAvailable' = TRUE
    /\ owed' = owed \ fields
    /\ excused' = excused \ fields
    /\ UNCHANGED <<stage, fresh, registered, onAir, met, check, outages>>

\* Variation: the last confirmation stops the timers, not the waiting check.
ReportKeepsNeeded(fields) ==
    /\ heard' = [c \in Commands |-> IF stage[c] = "sending" THEN heard[c] \cup fields
                                                            ELSE heard[c]]
    /\ fresh' = {}
    /\ source' = [f \in Fields |-> IF f \in fields THEN "report" ELSE source[f]]
    /\ pending' = pending \ fields
    /\ timers' = IF pending \subseteq fields THEN 0 ELSE timers
    /\ gatewayAvailable' = TRUE
    /\ owed' = owed \ fields
    /\ excused' = excused \ fields
    /\ UNCHANGED <<stage, registered, onAir, needed, met, check, outages>>

\* The device reports valid values of some fields (_record_confirmed_feedback).
Report(fields) ==
    /\ heard' = [c \in Commands |-> IF stage[c] = "sending" THEN heard[c] \cup fields
                                                            ELSE heard[c]]
    /\ fresh' = {}
    /\ source' = [f \in Fields |-> IF f \in fields THEN "report" ELSE source[f]]
    /\ pending' = pending \ fields
    /\ IF pending \subseteq fields THEN timers' = 0 /\ needed' = FALSE
                                   ELSE UNCHANGED <<timers, needed>>
    /\ gatewayAvailable' = TRUE
    /\ owed' = owed \ fields
    /\ excused' = excused \ fields
    /\ UNCHANGED <<stage, registered, onAir, met, check, outages>>

\* A command telegram: ignored while a request of ours for the device is
\* under way, taken for the echo of a command of ours, or shown and checked.
Outbound(t) ==
    /\ t \in onAir
    /\ onAir' = onAir \ {t}
    /\ gatewayAvailable' = TRUE
    /\ LET echoes == {c \in registered : Signature[c] = Signature[t]} IN
          \/ /\ Waiters
             /\ UNCHANGED <<fresh, registered, timerVars, source, factVars>>
          \/ /\ ~Waiters
             /\ \E c \in echoes : registered' = registered \ {c}
             /\ UNCHANGED <<fresh, timerVars, source, factVars>>
          \/ /\ ~Waiters /\ echoes = {}
             /\ fresh' = {}
             /\ source' = [f \in Fields |-> IF f \in FieldsOf[t] THEN "foreign"
                                                                 ELSE source[f]]
             /\ Schedule(FieldsOf[t])
             /\ UNCHANGED registered
    /\ UNCHANGED <<stage, heard, check, outages>>

\* A new stream starts with the device list: shown, but no feedback.
DeviceList ==
    /\ source' = [f \in Fields |-> "report"]
    /\ fresh' = {}
    /\ gatewayAvailable' = TRUE
    /\ UNCHANGED <<stage, heard, registered, onAir, timerVars, check, outages, factVars>>

\* OWN_COMMAND_ECHO_SECONDS have passed.
EchoExpires(c) ==
    /\ c \in registered
    /\ registered' = registered \ {c}
    /\ UNCHANGED <<stage, heard, fresh, onAir, timerVars, check, source, gatewayAvailable,
                   outages, factVars>>

\* _set_gateway_available(False) with _cancel_background_work.
Outage ==
    /\ gatewayAvailable
    /\ outages < MaxOutages
    /\ gatewayAvailable' = FALSE
    /\ outages' = outages + 1
    /\ stage' = [c \in Commands |-> IF stage[c] = "queued" THEN "cut" ELSE stage[c]]
    /\ check' = IF check = "queued" THEN "cut" ELSE check
    /\ DropChecks
    /\ UNCHANGED <<heard, fresh, registered, onAir, source>>

--------------------------------------------------------------------------------
Answer(c) == Acknowledged(c) \/ NotDelivered(c) \/ Rejected(c)
Command   == \E c \in Commands : Call(c) \/ Served(c) \/ Answer(c) \/ EchoExpires(c)
Check     == Timer \/ CheckServed \/ CheckEnds
Stream    == \/ \E fields \in (SUBSET Fields) \ {{}} : Report(fields)
             \/ \E t \in Telegrams : Outbound(t)
             \/ DeviceList

Next == Command \/ Check \/ Stream \/ Outage

\* The loop runs what is ready, requests end by their timeout, timers elapse.
Fairness ==
    /\ \A c \in Commands : WF_vars(Served(c)) /\ WF_vars(Answer(c))
    /\ WF_vars(Timer) /\ WF_vars(CheckServed) /\ WF_vars(CheckEnds)

Spec == Init /\ [][Next]_vars

FairSpec == Spec /\ Fairness

--------------------------------------------------------------------------------
(* Properties                                                               *)

\* What is only assumed, after a command of ours or of another controller, is
\* still to be confirmed by a report, unless an error or an outage dropped the
\* checks: no later command, partial report or superseded check loses a field
\* (_schedule_reconciliation_queries, _record_confirmed_feedback).
AssumedIsPending ==
    \A f \in Fields : source[f] \in Assumed => f \in pending \cup excused

\* An acknowledgement never replaces a report that came after the command was
\* sent by the entity's estimate (channel_state_unchanged).
ReportBeatsEstimate ==
    [][\A c \in Commands : Acknowledged(c) /\ heard[c] # {}
                              => \A f \in Fields : source'[f] = source[f]]_vars

\* The radio is spent on a check only while a field is unconfirmed, however
\* long the check waited (still_needed).
ChecksAreNeeded ==
    [][check # "sending" /\ check' = "sending" => pending # {}]_vars

\* While the gateway is unavailable no check is wanted that would go out with
\* its return (query_callback, _cancel_background_work).
NothingNeededWhileAway == ~gatewayAvailable => ~needed

\* A field that was promised a check is checked or reported in the end, or the
\* promise ends with an error, an outage, or a check that an outage cut off
\* and that the timer found still waiting (query_callback, still_needed).
PromisedChecksAreMade == \A f \in Fields : f \in owed ~> f \notin owed

\* What the comment in _async_reconcile_status says of the flag: a timer that
\* fires during the request in flight starts a new check.
NeededIsServed == needed ~> ~needed

\* What docs/how-it-works.md says of other controllers' commands: each is shown
\* when the stream delivers it.
ForeignIsShown ==
    [][\A t \in Foreign : t \in onAir /\ t \notin onAir'
                             => \A f \in FieldsOf[t] : source'[f] = "foreign"]_vars
================================================================================
