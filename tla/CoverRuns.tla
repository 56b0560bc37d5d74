------------------------------- MODULE CoverRuns -------------------------------
(***************************************************************************)
(* How long the runs of one blind take, from the position command to the   *)
(* report at its target (coordinator.py, CoverRun), and the sensor that    *)
(* shows it (sensor.py, OpusGreenNetCoverRunSensor).  A command of Home    *)
(* Assistant is timed from its sending, but only once it is acknowledged;  *)
(* reports, stop commands, status queries and commands of others come in   *)
(* between.                                                                *)
(*                                                                         *)
(* A position is 0 to RunBottom.  Time is counted in ticks; what is older  *)
(* than RunTimeout is all the same.                                        *)
(***************************************************************************)
EXTENDS Integers

CONSTANTS RunBottom,   \* the closed position
          Tolerance,   \* COVER_RUN_TARGET_TOLERANCE
          RunTimeout,  \* COVER_RUN_TIMEOUT_SECONDS
          MaxOrders    \* bound: commands and queries of a behaviour

ASSUME RunsAssumption ==
    RunBottom \in Nat \ {0} /\ Tolerance \in Nat /\ RunTimeout \in Nat /\ MaxOrders \in Nat

VARIABLES
    shownAt,   \* channel.position
    onRadio,   \* the request of Home Assistant under way, or NoOrder
    run,       \* the entry of _cover_runs, or NoRun
    lastRun,   \* the entry of last_cover_runs, or NoResult
    restored,  \* what the sensor restored
    orders,    \* commands and queries so far
    since      \* history: the last order that was acknowledged or heard, its age,
               \* and whether a stop or a query came after it

RunVars == <<shownAt, onRadio, run, lastRun, restored, orders, since>>

RunPositions == 0..RunBottom
NotKnown     == -1
Ages         == 0..(RunTimeout + 1)
Vias         == {"direct", "firstUp", "firstDown"}

NoOrder  == [kind |-> "none", target |-> 0, via |-> "direct", age |-> 0]
NoRun    == [start |-> NotKnown, target |-> NotKnown, via |-> "direct", age |-> 0, queried |-> FALSE]
NoResult == [seconds |-> -1, target |-> NotKnown, direction |-> "none", full |-> FALSE]

\* A reference run ends at its end position.
OrdersOf(kind) ==
    [kind : {kind}, target : IF kind = "move" THEN RunPositions ELSE {0},
     via : IF kind = "move" THEN Vias ELSE {"direct"}, age : {0}]

RunTypeOK ==
    /\ shownAt \in RunPositions \cup {NotKnown}
    /\ onRadio = NoOrder \/ [onRadio EXCEPT !.age = 0] \in OrdersOf(onRadio.kind)
    /\ onRadio.age \in Ages
    /\ run \in [start : RunPositions \cup {NotKnown}, target : RunPositions \cup {NotKnown},
                via : Vias, age : Ages, queried : BOOLEAN]
    /\ {lastRun, restored} \subseteq
          [seconds : Ages \cup {-1}, target : RunPositions \cup {NotKnown},
           direction : {"none", "unknown", "up", "down", "reference_up", "reference_down"},
           full : BOOLEAN]
    /\ orders \in 0..MaxOrders
    /\ since \in [target : RunPositions \cup {NotKnown}, age : Ages, spoilt : BOOLEAN]

RunInit ==
    /\ shownAt \in {NotKnown, 0}
    /\ onRadio = NoOrder
    /\ run = NoRun
    /\ lastRun = NoResult /\ restored = NoResult
    /\ orders = 0
    /\ since = [target |-> NotKnown, age |-> 0, spoilt |-> TRUE]

--------------------------------------------------------------------------------
\* CoverRun.direction and full_travel.
Direction(r) ==
    CASE r.via = "firstUp"   -> "reference_up"
      [] r.via = "firstDown" -> "reference_down"
      [] r.via = "direct"    -> IF r.start = NotKnown THEN "unknown"
                                ELSE IF r.target < r.start THEN "up" ELSE "down"
FullTravel(r) == r.via = "direct" /\ {r.start, r.target} = {0, RunBottom}

Result(r) == [seconds |-> r.age, target |-> r.target, direction |-> Direction(r),
              full |-> FullTravel(r)]

\* What the sensor shows.
ShownRun == IF lastRun # NoResult THEN lastRun ELSE restored

\* Variation: the time starts with the acknowledgement.
StartedNow(order) ==
    CASE order.kind = "stop"  -> NoRun
      [] order.kind = "move"  -> [start |-> shownAt, target |-> order.target, via |-> order.via,
                                  age |-> 0, queried |-> FALSE]
      [] order.kind = "query" -> run

\* _start_cover_runs: a stop ends the timing, a new target replaces it.
Started(order) ==
    CASE order.kind = "stop"  -> NoRun
      [] order.kind = "move"  -> [start |-> shownAt, target |-> order.target, via |-> order.via,
                                  age |-> order.age, queried |-> FALSE]
      [] order.kind = "query" -> run

Follows(order) ==
    since' = CASE order.kind = "move" -> [target |-> order.target, age |-> order.age, spoilt |-> FALSE]
               [] order.kind = "stop" -> [since EXCEPT !.spoilt = TRUE]
               [] OTHER -> since

--------------------------------------------------------------------------------
\* snapshot_feedback: a query makes the run that is measured useless.
OrderSent(order) ==
    /\ onRadio = NoOrder /\ orders < MaxOrders
    /\ orders' = orders + 1
    /\ onRadio' = order
    /\ IF order.kind = "query" THEN since' = [since EXCEPT !.spoilt = TRUE] ELSE UNCHANGED since
    /\ run' = IF order.kind = "query" /\ run # NoRun THEN [run EXCEPT !.queried = TRUE] ELSE run
    /\ UNCHANGED <<shownAt, lastRun, restored>>

\* 200: the run, and after it the estimate of the entity or of the travel.
OrderAcknowledged ==
    /\ onRadio # NoOrder
    /\ onRadio' = NoOrder
    /\ run' = Started(onRadio)
    /\ shownAt' \in {shownAt} \cup (IF onRadio.kind = "move" THEN {onRadio.target} ELSE {})
    /\ Follows(onRadio)
    /\ UNCHANGED <<lastRun, restored, orders>>

\* Deferred, rejected, timed out, cancelled: no run is timed.
OrderLost ==
    /\ onRadio # NoOrder
    /\ onRadio' = NoOrder
    /\ UNCHANGED <<shownAt, run, lastRun, restored, orders, since>>

\* An outbound telegram that _handle_telegram does not ignore.
OrderHeard(order) ==
    /\ onRadio = NoOrder /\ orders < MaxOrders
    /\ orders' = orders + 1
    /\ run' = Started(order)
    /\ shownAt' \in {shownAt} \cup (IF order.kind = "move" THEN {order.target} ELSE {})
    /\ Follows(order)
    /\ UNCHANGED <<onRadio, lastRun, restored>>

Reaches(p) == p - run.target \in (-Tolerance)..Tolerance

\* _finish_cover_runs, and then the report is applied.
RunReported(p) ==
    /\ shownAt' = p
    /\ IF run = NoRun \/ (run.age <= RunTimeout /\ ~Reaches(p)) THEN UNCHANGED <<run, lastRun>>
       ELSE /\ run' = NoRun
            /\ lastRun' = IF run.age > RunTimeout \/ run.queried THEN lastRun ELSE Result(run)
    /\ UNCHANGED <<onRadio, restored, orders, since>>

Older(age) == IF age > RunTimeout THEN age ELSE age + 1

RunTick ==
    /\ run # NoRun \/ onRadio # NoOrder
    /\ run'     = IF run = NoRun THEN run ELSE [run EXCEPT !.age = Older(@)]
    /\ onRadio' = IF onRadio = NoOrder THEN onRadio ELSE [onRadio EXCEPT !.age = Older(@)]
    /\ since'   = [since EXCEPT !.age = IF since.spoilt THEN @ ELSE Older(@)]
    /\ UNCHANGED <<shownAt, lastRun, restored, orders>>

\* async_forget_device: the runs go, and the sensor with its device; the request
\* under way ends as cancelled.  The runs go first: when the device returns, the
\* sensor restores nothing, or again what it had restored.
RunsForgotten ==
    /\ run # NoRun \/ lastRun # NoResult
    /\ run' = NoRun /\ lastRun' = NoResult /\ restored' \in {NoResult, restored}
    /\ onRadio' = NoOrder /\ shownAt' = NotKnown
    /\ since' = [since EXCEPT !.spoilt = TRUE]
    /\ UNCHANGED orders

\* An orderly restart: the sensor restores what it showed, a run is lost.
RunsRestarted ==
    /\ shownAt' \in RunPositions \cup {NotKnown}
    /\ onRadio' = NoOrder /\ run' = NoRun /\ lastRun' = NoResult
    /\ restored' = ShownRun
    /\ since' = [since EXCEPT !.spoilt = TRUE]
    /\ UNCHANGED orders

RunsNext ==
    \/ \E kind \in {"move", "stop", "query"} : \E order \in OrdersOf(kind) :
          OrderSent(order) \/ (kind # "query" /\ OrderHeard(order))
    \/ OrderAcknowledged \/ OrderLost
    \/ \E p \in RunPositions : RunReported(p)
    \/ RunTick \/ RunsForgotten \/ RunsRestarted

RunsSpec == RunInit /\ [][RunsNext]_RunVars

--------------------------------------------------------------------------------
(* Properties                                                               *)

\* The sensor changes only with a run that was measured as a whole: from the
\* sending of the last position command, however late it was acknowledged, to
\* the report at its target, without a stop or a status query of ours in
\* between; or it falls back to what it had restored, when its device is removed
\* and returns; and it keeps its value over restarts ("a run ended by Stop, without
\* an end report or confirmed only by a status query records no time").
RunsAreMeasured ==
    [][ShownRun' # ShownRun /\ ShownRun' \notin {NoResult, restored} =>
          /\ ~since.spoilt
          /\ ShownRun'.seconds = since.age /\ since.age <= RunTimeout
          /\ ShownRun'.target = since.target
          /\ shownAt' - since.target \in (-Tolerance)..Tolerance]_RunVars
================================================================================
