------------------------------ MODULE CoverTravel ------------------------------
(***************************************************************************)
(* The travel of one blind between its end reports: the replaceable        *)
(* estimate of its movement and the checks that wait for the end of the    *)
(* travel (coordinator.py, CoverMovement; cover.py).                       *)
(*                                                                         *)
(* A position is 0 (open) to Bottom (closed); the configured travel time   *)
(* is Bottom ticks, so one tick moves the estimate by one position.  The   *)
(* revision counters are represented as in CommandFeedback (fresh, heard). *)
(* The radio carries one request at a time (RadioQueue); how a check waits *)
(* and is superseded there is CommandFeedback's, here it only waits.       *)
(* An outage and the return of the gateway are one step.                   *)
(***************************************************************************)
EXTENDS Integers

CONSTANTS CoverCalls,    \* the calls of async_send_command by the cover's entity
          CoverForeign,  \* the commands other controllers send to the blind
          CoverOrder,    \* what each says: [kind, target, via]
          CoverScenarios,\* bound: which of them a behaviour has
          Bottom,        \* the closed position
          Grace,         \* COVER_MOVEMENT_GRACE_SECONDS, in ticks
          NoCall         \* no telegram

CoverTelegrams == CoverCalls \cup CoverForeign
Unknown        == -1     \* no position was ever reported
NoVia          == -1     \* no reference run (repositioning)
Positions      == 0..Bottom
MaxTravel      == 2 * Bottom + Grace

ASSUME CoverAssumption ==
    /\ CoverCalls \cap CoverForeign = {}
    /\ Bottom \in Nat \ {0} /\ Grace \in Nat
    /\ NoCall \notin CoverTelegrams
    /\ CoverOrder \in [CoverTelegrams -> [kind : {"move", "stop", "tilt"},
                                          target : Positions,
                                          via : {NoVia, 0, Bottom}]]

VARIABLES
    timed,          \* vertical_movement_time is known and not 0
    position,       \* channel.position, as the entity shows it
    origin,         \* _position_origins: where it came from
    movement,       \* the entry of _cover_movements, or Still
    callStage,      \* where each call of async_send_command is
    started,        \* started_movements of the call on the radio: the movement's telegram
    undisturbed,    \* the calls since whose snapshot state_revision did not move
    reported,       \* the fields reported since the call on the radio was sent
    unconfirmed,    \* _pending_reconciliation_fields
    checks,         \* the timers of _pending_reconciliation_queries that did not fire
    due,            \* ticks until the first of them may fire
    wanted,         \* the channel is in _reconcile_needed
    query,          \* the status query of _async_reconcile_status
    unheard,        \* outbound telegrams the stream may still deliver
    bound           \* history: where the last acknowledged or foreign order sent the blind

checkVars == <<unconfirmed, checks, due, wanted>>
coverCallVars == <<callStage, started, undisturbed, reported>>
CoverVars == <<timed, position, origin, movement, coverCallVars, checkVars, query,
               unheard, bound>>

CoverFields == {"position", "angle"}
Still   == [by |-> NoCall, start |-> Unknown, target |-> 0, travel |-> 0, age |-> 0,
            accepted |-> TRUE, elapsed |-> FALSE]

Moving == movement # Still
EndsIn == movement.travel + Grace - movement.age   \* ends_at, seen from now

CoverTypeOK ==
    /\ timed \in BOOLEAN
    /\ position \in Positions \cup {Unknown}
    /\ origin \in {"list", "reported", "assumed", "estimated"}
    /\ movement \in [by : CoverTelegrams \cup {NoCall}, start : Positions \cup {Unknown},
                     target : Positions, travel : 0..(2 * Bottom), age : 0..MaxTravel,
                     accepted : BOOLEAN, elapsed : BOOLEAN]
    /\ callStage \in [CoverCalls -> {"new", "queued", "sending", "done"}]
    /\ started \in CoverTelegrams \cup {NoCall}
    /\ undisturbed \subseteq CoverCalls
    /\ reported \subseteq CoverFields
    /\ unconfirmed \subseteq CoverFields
    /\ checks \in 0..2
    /\ due \in 0..MaxTravel
    /\ wanted \in BOOLEAN
    /\ query \in {"idle", "queued", "sending"}
    /\ unheard \subseteq CoverTelegrams
    /\ bound \in Positions \cup {Unknown}

CoverInit ==
    /\ timed \in BOOLEAN
    /\ position \in {Unknown, 0}
    /\ origin = "list"
    /\ movement = Still
    /\ started = NoCall
    /\ undisturbed = {}
    /\ reported = {}
    /\ unconfirmed = {}
    /\ checks = 0
    /\ due = 0
    /\ wanted = FALSE
    /\ query = "idle"
    /\ \E telegrams \in CoverScenarios :
          /\ callStage = [c \in CoverCalls |-> IF c \in telegrams THEN "new" ELSE "done"]
          /\ unheard = CoverForeign \cap telegrams
    /\ bound = Unknown

CoverRadioFree == query # "sending" /\ \A c \in CoverCalls : callStage[c] # "sending"
CoverWaiters   == query # "idle" \/ \E c \in CoverCalls : callStage[c] \in {"queued", "sending"}

\* command_fields_by_channel: a stop expects the final position and angle.
FieldsOfOrder(t) == CASE CoverOrder[t].kind = "move" -> {"position"}
                      [] CoverOrder[t].kind = "stop" -> CoverFields
                      [] CoverOrder[t].kind = "tilt" -> {"angle"}

--------------------------------------------------------------------------------
(* Starting, replacing and clearing an estimate                             *)

Distance(a, b) == IF a > b THEN a - b ELSE b - a

\* Variation: a blind that should have arrived goes on.
EstimatedUncapped ==
    IF ~Moving THEN position
    ELSE IF movement.start = Unknown THEN Unknown
    ELSE movement.start
             + ((movement.target - movement.start) * movement.age) \div movement.travel

\* Where the blind is taken to be while it travels (_start_cover_movement).
Estimated ==
    IF ~Moving THEN position
    ELSE IF movement.start = Unknown THEN Unknown
    ELSE LET gone == IF movement.age < movement.travel THEN movement.age ELSE movement.travel
         IN  movement.start + ((movement.target - movement.start) * gone) \div movement.travel

\* The time to the target, over the end position of a reference run if any.
TravelTime(order) ==
    LET firstLeg(to) == IF Estimated = Unknown THEN Bottom ELSE Distance(Estimated, to)
    IN  IF order.via = NoVia THEN firstLeg(order.target)
        ELSE firstLeg(order.via) + Distance(order.via, order.target)

Repeats(t) == Moving /\ movement.target = CoverOrder[t].target
Departs(t) == ~Repeats(t) /\ timed /\ TravelTime(CoverOrder[t]) > 0
Moves(t)   == CoverOrder[t].kind = "move" /\ (Repeats(t) \/ Departs(t))

Departure(t, accepted) ==
    [by |-> t, start |-> Estimated, target |-> CoverOrder[t].target,
     travel |-> TravelTime(CoverOrder[t]), age |-> 0, accepted |-> accepted, elapsed |-> FALSE]

\* Variation: the movement of a command on the radio counts as accepted.
MovementBeforeAnswer(c) ==
    CASE CoverOrder[c].kind = "tilt" -> movement
      [] CoverOrder[c].kind = "stop" -> Still
      [] OTHER -> IF Repeats(c) THEN movement
                  ELSE IF Departs(c) THEN Departure(c, TRUE) ELSE Still

\* snapshot_feedback: a command of ours moves nothing for sure before its answer.
MovementOfCall(c) ==
    CASE CoverOrder[c].kind = "tilt" -> movement
      [] CoverOrder[c].kind = "stop" -> Still
      [] OTHER -> IF Repeats(c) THEN [movement EXCEPT !.accepted = FALSE]
                  ELSE IF Departs(c) THEN Departure(c, FALSE) ELSE Still

MovementOfForeign(t) ==
    CASE CoverOrder[t].kind = "tilt" -> movement
      [] CoverOrder[t].kind = "stop" -> Still
      [] OTHER -> IF Repeats(t) THEN movement
                  ELSE IF Departs(t) THEN Departure(t, TRUE) ELSE Still

\* _cancel_reconciliation_queries.
DropCoverChecks == unconfirmed' = {} /\ checks' = 0 /\ due' = 0 /\ wanted' = FALSE

\* A departure stops the timers but keeps the fields they were for.
SuspendChecks == checks' = 0 /\ due' = 0 /\ wanted' = FALSE /\ UNCHANGED unconfirmed

\* Variation: the checks do not wait for the end of the travel.
ScheduleNow(fields, travel) ==
    /\ unconfirmed' = unconfirmed \cup fields
    /\ checks' = 2
    /\ due' = 0
    /\ wanted' = FALSE

\* _schedule_reconciliation_queries, after the travel that is estimated.
ScheduleCover(fields, travel) ==
    /\ unconfirmed' = unconfirmed \cup fields
    /\ checks' = 2
    /\ due' = IF "position" \in unconfirmed \cup fields /\ travel # Still
              THEN travel.travel + Grace - travel.age ELSE 0
    /\ wanted' = FALSE

--------------------------------------------------------------------------------
(* Commands of the entity                                                   *)

\* The entity takes its snapshot and calls; a stop ends the estimate at once.
CoverCall(c) ==
    /\ callStage[c] = "new"
    /\ callStage' = [callStage EXCEPT ![c] = "queued"]
    /\ IF CoverOrder[c].kind = "stop"
       THEN movement' = Still /\ DropCoverChecks /\ UNCHANGED undisturbed
       ELSE undisturbed' = undisturbed \cup {c} /\ UNCHANGED <<movement, checkVars>>
    /\ UNCHANGED <<timed, position, origin, started, reported, query, unheard, bound>>

\* The call is cancelled or refused before it is sent.
CoverRefused(c) ==
    /\ callStage[c] = "queued"
    /\ callStage' = [callStage EXCEPT ![c] = "done"]
    /\ undisturbed' = undisturbed \ {c}
    /\ UNCHANGED <<timed, position, origin, movement, started, reported, checkVars, query, unheard, bound>>

\* snapshot_feedback and the start of the PUT.
CoverSend(c) ==
    /\ callStage[c] = "queued" /\ CoverRadioFree
    /\ callStage' = [callStage EXCEPT ![c] = "sending"]
    /\ reported' = {}
    /\ movement' = MovementOfCall(c)
    /\ started' = IF Moves(c) THEN movement'.by ELSE NoCall
    /\ undisturbed' = IF Moves(c) THEN {} ELSE undisturbed
    /\ CASE CoverOrder[c].kind = "stop" -> DropCoverChecks
         [] CoverOrder[c].kind = "move" /\ Departs(c) -> SuspendChecks
         [] OTHER -> UNCHANGED checkVars
    /\ unheard' = unheard \cup {c}
    /\ UNCHANGED <<timed, position, origin, query, bound>>

\* The movement the call on the radio started or joined is still the current one.
OwnMovement == started # NoCall /\ movement.by = started

Bind(t) == bound' = CASE CoverOrder[t].kind = "move" -> CoverOrder[t].target
                      [] CoverOrder[t].kind = "stop" -> Unknown
                      [] OTHER -> bound

\* 200: the run, the checks of what was not reported meanwhile, the movement,
\* and then the entity's estimate if the channel did not change.
CoverAcknowledged(c) ==
    /\ callStage[c] = "sending"
    /\ callStage' = [callStage EXCEPT ![c] = "done"]
    /\ Bind(c)
    /\ IF FieldsOfOrder(c) \subseteq reported THEN UNCHANGED checkVars
       ELSE ScheduleCover(FieldsOfOrder(c) \ reported, movement)
    /\ IF OwnMovement /\ movement.elapsed
       THEN /\ position' = movement.target
            /\ origin' = "assumed"
            /\ movement' = Still
            /\ undisturbed' = {}
       ELSE /\ movement' = IF OwnMovement THEN [movement EXCEPT !.accepted = TRUE]
                                          ELSE movement
            /\ undisturbed' = undisturbed \ {c}
            /\ IF c \in undisturbed /\ CoverOrder[c].kind = "move"
               THEN position' = CoverOrder[c].target /\ origin' = "estimated"
               ELSE UNCHANGED <<position, origin>>
    /\ started' = NoCall
    /\ reported' = {}
    /\ UNCHANGED <<timed, query, unheard>>

\* The call ends without a delivered command.
CoverEnds(c) ==
    /\ callStage[c] = "sending"
    /\ callStage' = [callStage EXCEPT ![c] = "done"]
    /\ undisturbed' = undisturbed \ {c}
    /\ started' = NoCall
    /\ reported' = {}
    /\ UNCHANGED <<timed, position, origin, query, unheard, bound>>

\* 201 and 202: the blind fetches the command later; no estimate, no checks.
CoverDeferred(c) ==
    /\ CoverEnds(c)
    /\ movement' = IF OwnMovement THEN Still ELSE movement
    /\ UNCHANGED checkVars

\* Variation: a failed command leaves its movement alone.
CoverFailsQuietly(c) == CoverEnds(c) /\ UNCHANGED <<movement, checkVars>>

\* No answer, no connection, or the caller is cancelled: its movement goes, and
\* the checks with it.
CoverFails(c) ==
    /\ CoverEnds(c)
    /\ IF OwnMovement THEN movement' = Still /\ DropCoverChecks
                      ELSE UNCHANGED <<movement, checkVars>>

\* Any other status: all checks go in any case.
CoverRejected(c) ==
    /\ CoverEnds(c)
    /\ movement' = IF OwnMovement THEN Still ELSE movement
    /\ DropCoverChecks

--------------------------------------------------------------------------------
(* The event stream                                                         *)

\* A report of the device (_record_confirmed_feedback, update_from_telegram).
CoverReport(fields, p) ==
    /\ IF "position" \in fields
       THEN /\ movement' = Still
            /\ position' = p
            /\ origin' = "reported"
       ELSE UNCHANGED <<movement, position, origin>>
    /\ reported' = IF \E c \in CoverCalls : callStage[c] = "sending"
                   THEN reported \cup fields ELSE reported
    /\ IF unconfirmed \subseteq fields THEN DropCoverChecks
       ELSE unconfirmed' = unconfirmed \ fields /\ UNCHANGED <<checks, due, wanted>>
    /\ undisturbed' = {}
    /\ UNCHANGED <<timed, callStage, started, query, unheard, bound>>

\* A command of another controller, or the echo of a command of ours that came
\* too late to be known: shown, timed and checked like a command.
CoverOutbound(t) ==
    /\ t \in unheard /\ ~CoverWaiters
    /\ unheard' = unheard \ {t}
    /\ Bind(t)
    /\ movement' = MovementOfForeign(t)
    /\ IF CoverOrder[t].kind = "move" /\ ~Moves(t)
       THEN position' = CoverOrder[t].target /\ origin' = "estimated"
       ELSE UNCHANGED <<position, origin>>
    /\ LET kept == IF CoverOrder[t].kind = "stop" THEN {} ELSE unconfirmed
       IN  /\ unconfirmed' = kept \cup FieldsOfOrder(t)
           /\ checks' = 2
           /\ due' = IF "position" \in unconfirmed' /\ movement' # Still
                     THEN movement'.travel + Grace - movement'.age ELSE 0
           /\ wanted' = FALSE
    /\ undisturbed' = {}
    /\ UNCHANGED <<timed, callStage, started, reported, query>>

\* Ignored: a request of ours is under way, or it is taken for an own echo.
CoverOutboundIgnored(t) ==
    /\ t \in unheard
    /\ CoverWaiters \/ \E c \in CoverCalls : callStage[c] = "done" /\ CoverOrder[c] = CoverOrder[t]
    /\ unheard' = unheard \ {t}
    /\ UNCHANGED <<timed, position, origin, movement, coverCallVars, checkVars, query,
                   bound>>

--------------------------------------------------------------------------------
(* Time                                                                     *)

CoverTick ==
    /\ (Moving /\ EndsIn > 0) \/ due > 0
    /\ movement' = IF Moving /\ EndsIn > 0 THEN [movement EXCEPT !.age = @ + 1] ELSE movement
    /\ due' = IF due > 0 THEN due - 1 ELSE 0
    /\ UNCHANGED <<timed, position, origin, coverCallVars, unconfirmed, checks, wanted, query, unheard, bound>>

\* finished, _finish_cover_movement: an unanswered command is not assumed to be
\* carried out.
CoverTravelled ==
    /\ Moving /\ EndsIn = 0 /\ ~movement.elapsed
    /\ IF movement.accepted
       THEN /\ position' = movement.target
            /\ origin' = "assumed"
            /\ movement' = Still
            /\ undisturbed' = {}
       ELSE /\ movement' = [movement EXCEPT !.elapsed = TRUE]
            /\ UNCHANGED <<position, origin, undisturbed>>
    /\ UNCHANGED <<timed, callStage, started, reported, checkVars, query, unheard, bound>>

\* query_callback.
CoverCheckDue ==
    /\ checks > 0 /\ due = 0
    /\ checks' = checks - 1
    /\ wanted' = TRUE
    /\ query' = IF query = "idle" THEN "queued" ELSE query
    /\ UNCHANGED <<timed, position, origin, movement, coverCallVars, unconfirmed, due,
                   unheard, bound>>

\* The check gets the radio, or finds that it is not needed any more.
CoverQuery ==
    /\ query = "queued" /\ CoverRadioFree
    /\ \A c \in CoverCalls : callStage[c] # "queued"
    /\ query' = IF wanted THEN "sending" ELSE "idle"
    /\ wanted' = FALSE
    /\ UNCHANGED <<timed, position, origin, movement, coverCallVars, unconfirmed, checks, due, unheard, bound>>

CoverQueryEnds ==
    /\ query = "sending"
    /\ query' = "idle"
    /\ UNCHANGED checkVars \/ DropCoverChecks      \* rejected
    /\ UNCHANGED <<timed, position, origin, movement, coverCallVars, unheard, bound>>

\* _cancel_background_work; what waited for the radio fails.
CoverOutage ==
    /\ movement' = Still
    /\ DropCoverChecks
    /\ callStage' = [c \in CoverCalls |-> IF callStage[c] = "queued" THEN "done" ELSE callStage[c]]
    /\ undisturbed' = {c \in undisturbed : callStage[c] = "sending"}
    /\ query' = IF query = "queued" THEN "idle" ELSE query
    /\ UNCHANGED <<timed, position, origin, started, reported, unheard, bound>>

--------------------------------------------------------------------------------
CoverAnswer(c) == CoverAcknowledged(c) \/ CoverDeferred(c) \/ CoverFails(c) \/ CoverRejected(c)
CoverCommand   == \E c \in CoverCalls : CoverCall(c) \/ CoverRefused(c) \/ CoverSend(c) \/ CoverAnswer(c)
CoverStream    == \/ \E fields \in (SUBSET CoverFields) \ {{}}, p \in Positions : CoverReport(fields, p)
                  \/ \E t \in unheard : CoverOutbound(t) \/ CoverOutboundIgnored(t)
CoverTimers    == CoverTick \/ CoverTravelled \/ CoverCheckDue \/ CoverQuery \/ CoverQueryEnds
CoverNext      == CoverCommand \/ CoverStream \/ CoverTimers \/ CoverOutage

\* Timers elapse, and every request ends by its timeout.
CoverFairness ==
    /\ WF_CoverVars(CoverTick) /\ WF_CoverVars(CoverTravelled)
    /\ \A c \in CoverCalls : WF_CoverVars(CoverAnswer(c))

CoverSpec     == CoverInit /\ [][CoverNext]_CoverVars
CoverFairSpec == CoverSpec /\ CoverFairness

--------------------------------------------------------------------------------
(* Properties                                                               *)

\* Only an acknowledged or foreign order that nothing known replaced is ever
\* assumed to be carried out when its time is over: never the target of a
\* command that is unanswered, failed or deferred, or of one that was stopped
\* or replaced (_finish_cover_movement, snapshot_feedback).
OnlyOrdersAreAssumed ==
    [][origin' = "assumed" /\ <<origin, position>>' # <<origin, position>>
         => position' = bound']_CoverVars

\* While the blind is estimated to travel to an unconfirmed position, no check
\* of it can be sent: it would be answered with a position on the way
\* (_schedule_reconciliation_queries, _start_cover_movement).
ChecksWaitForTravel ==
    Moving /\ "position" \in unconfirmed
        => ~wanted \/ EndsIn = 0

\* The blind is not shown opening or closing for ever: every estimate ends by
\* its time, its answer or a report (_finish_cover_movement, async_send_command).
TravelEnds == Moving ~> ~Moving
================================================================================
