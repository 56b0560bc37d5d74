------------------------------ MODULE CoverProofs ------------------------------
(***************************************************************************)
(* The position a blind is assumed to have and the checks that wait for it,*)
(* and the run times that are shown of it: for any commands, positions,    *)
(* travel times, tolerance and timeout.                                    *)
(***************************************************************************)
EXTENDS CoverTravel, CoverRuns, TLAPS

--------------------------------------------------------------------------------
(* The travel of a cover                                                    *)

\* A movement: whose telegram it is, from where to where, and for how long.
MovementTypes ==
    [by : CoverTelegrams \cup {NoCall}, start : Positions \cup {Unknown},
     target : Positions, travel : 0..(2 * Bottom), age : 0..MaxTravel,
     accepted : BOOLEAN, elapsed : BOOLEAN]

OrderKindOf == [kind : {"move", "stop", "tilt"}, target : Positions, via : {NoVia, 0, Bottom}]

\* A movement is somebody's, lasts at least one unit of time, and is given up when it
\* is over.
TravelInv ==
    movement # Still => /\ movement.by # NoCall
                        /\ movement.travel > 0
                        /\ movement.age <= movement.travel + Grace

\* The radio queue lets one command out at a time.
OneOnRadio ==
    \A c, d \in CoverCalls : callStage[c] = "sending" /\ callStage[d] = "sending" => c = d

\* The movement of a command that is being sent is the one it would make: no
\* other was started while it waited for its answer.
SendingInv ==
    \A c \in CoverCalls : callStage[c] = "sending" =>
        IF CoverOrder[c].kind = "tilt" THEN started = NoCall
        ELSE movement # Still => /\ CoverOrder[c].kind = "move"
                                 /\ started = movement.by
                                 /\ movement.target = CoverOrder[c].target

\* An acknowledged movement goes where the last order went.
BoundInv == movement # Still /\ movement.accepted => bound = movement.target

\* While a movement is expected to confirm the position, no check is due before
\* it is over.
WaitInv ==
    movement # Still /\ "position" \in unconfirmed =>
        /\ wanted => EndsIn = 0
        /\ checks > 0 => due >= EndsIn

\* The types of what the calls, the display and the checks keep.
CallTypes ==
    /\ callStage \in [CoverCalls -> {"new", "queued", "sending", "done"}]
    /\ started \in CoverTelegrams \cup {NoCall}
    /\ undisturbed \subseteq CoverCalls
    /\ reported \subseteq CoverFields
    /\ query \in {"idle", "queued", "sending"}
    /\ unheard \subseteq CoverTelegrams

ShownTypes ==
    /\ timed \in BOOLEAN
    /\ position \in Positions \cup {Unknown}
    /\ origin \in {"list", "reported", "assumed", "estimated"}
    /\ bound \in Positions \cup {Unknown}

CheckTypes ==
    /\ unconfirmed \subseteq CoverFields
    /\ checks \in 0..2
    /\ due \in 0..MaxTravel
    /\ wanted \in BOOLEAN

\* The inductive invariant: the steps of a movement need all of its parts.
CoverInv == /\ movement \in MovementTypes /\ CallTypes /\ ShownTypes /\ CheckTypes
            /\ TravelInv /\ OneOnRadio /\ SendingInv /\ BoundInv /\ WaitInv

LEMMA TypesInParts ==
    CoverTypeOK <=> movement \in MovementTypes /\ CallTypes /\ ShownTypes /\ CheckTypes
  BY DEF CoverTypeOK, MovementTypes, CallTypes, ShownTypes, CheckTypes

LEMMA NoTime == MaxTravel \in Nat /\ 0 \in 0..MaxTravel /\ 0 \in 0..2 /\ 2 \in 0..2 /\ 0 \in Positions
  BY CoverAssumption DEF MaxTravel, Positions

LEMMA OrderTyped ==
    ASSUME NEW t \in CoverTelegrams
    PROVE  /\ CoverOrder[t].kind \in {"move", "stop", "tilt"}
           /\ CoverOrder[t].target \in Positions
           /\ CoverOrder[t].via \in {NoVia, 0, Bottom}
  BY CoverAssumption

LEMMA StillTyped == Still \in MovementTypes
  BY CoverAssumption DEF Still, MovementTypes, Positions, Unknown, MaxTravel

LEMMA PartOfWay ==
    ASSUME NEW a \in Int, NEW b \in Int, NEW g \in Nat, NEW t \in Nat, g <= t, t > 0
    PROVE  LET p == a + ((b - a) * g) \div t
           IN  p \in Int /\ (a <= b => a <= p /\ p <= b) /\ (b <= a => b <= p /\ p <= a)
<1> DEFINE q == ((b - a) * g) \div t
<1>1. q \in Int /\ q * t <= (b - a) * g /\ (b - a) * g < q * t + t
  <2> DEFINE n == (b - a) * g
  <2>1. n \in Int
    OBVIOUS
  <2> HIDE DEF n
  <2>2. (n \div t) \in Int /\ (n \div t) * t <= n /\ n < (n \div t) * t + t
    BY <2>1
  <2> QED
    BY <2>2 DEF n
<1> HIDE DEF q
<1>2. CASE a <= b
  <2>1. 0 <= (b - a) * g /\ (b - a) * g <= (b - a) * t
    BY <1>2
  <2>2. 0 <= q
    BY <1>1, <2>1
  <2>3. q <= b - a
    BY <1>1, <2>1
  <2> QED
    BY <1>1, <1>2, <2>2, <2>3 DEF q
<1>3. CASE b <= a
  <2>1. (b - a) * g <= 0 /\ (b - a) * t <= (b - a) * g
    BY <1>3
  <2>2. q <= 0
    BY <1>1, <2>1
  <2>3. b - a <= q
    BY <1>1, <2>1
  <2> QED
    BY <1>1, <1>3, <2>2, <2>3 DEF q
<1> QED
  BY <1>2, <1>3

LEMMA DistanceTyped ==
    ASSUME NEW a \in Positions, NEW b \in Positions
    PROVE  Distance(a, b) \in 0..Bottom
  BY CoverAssumption DEF Distance, Positions

LEMMA EstimatedTyped ==
    ASSUME CoverTypeOK, TravelInv
    PROVE  Estimated \in Positions \cup {Unknown}
<1>1. CASE ~Moving
  BY <1>1 DEF Estimated, CoverTypeOK
<1>2. CASE Moving /\ movement.start = Unknown
  BY <1>2 DEF Estimated
<1>3. CASE Moving /\ movement.start # Unknown
  <2> DEFINE gone == IF movement.age < movement.travel THEN movement.age ELSE movement.travel
             arrived == movement.start + ((movement.target - movement.start) * gone) \div movement.travel
  <2>1. /\ movement.start \in 0..Bottom /\ movement.target \in 0..Bottom
        /\ movement.age \in Nat /\ movement.travel \in Nat /\ movement.travel > 0
    BY <1>3, CoverAssumption DEF CoverTypeOK, TravelInv, Positions, Moving, MaxTravel
  <2>2. gone \in Nat /\ gone <= movement.travel
    BY <2>1
  <2>3. Estimated = arrived
    BY <1>3 DEF Estimated
  <2> HIDE DEF gone
  <2>4. arrived \in 0..Bottom
    <3>1. movement.start \in Int /\ movement.target \in Int
      BY <2>1, CoverAssumption
    <3>2. /\ arrived \in Int
          /\ movement.start <= movement.target => movement.start <= arrived /\ arrived <= movement.target
          /\ movement.target <= movement.start => movement.target <= arrived /\ arrived <= movement.start
      BY <2>1, <2>2, <3>1, PartOfWay
    <3> HIDE DEF arrived
    <3> QED
      BY <2>1, <3>2, CoverAssumption
  <2> QED
    BY <2>3, <2>4 DEF Positions
<1> QED
  BY <1>1, <1>2, <1>3

LEMMA TravelTimeTyped ==
    ASSUME CoverTypeOK, TravelInv, NEW t \in CoverTelegrams
    PROVE  TravelTime(CoverOrder[t]) \in 0..(2 * Bottom)
<1>1. \A to \in Positions :
         (IF Estimated = Unknown THEN Bottom ELSE Distance(Estimated, to)) \in 0..Bottom
  BY EstimatedTyped, DistanceTyped, CoverAssumption
<1>2. {0, Bottom} \subseteq Positions
  BY CoverAssumption DEF Positions
<1>3. CASE CoverOrder[t].via = NoVia
  BY <1>1, <1>3, OrderTyped, CoverAssumption DEF TravelTime
<1>4. CASE CoverOrder[t].via # NoVia
  <2>1. CoverOrder[t].via \in Positions /\ CoverOrder[t].target \in Positions
    BY <1>2, <1>4, OrderTyped
  <2>2. Distance(CoverOrder[t].via, CoverOrder[t].target) \in 0..Bottom
    BY <2>1, DistanceTyped
  <2> QED
    BY <1>1, <1>4, <2>1, <2>2, CoverAssumption DEF TravelTime
<1> QED
  BY <1>3, <1>4

LEMMA DepartureTyped ==
    ASSUME CoverTypeOK, TravelInv, NEW t \in CoverTelegrams, NEW told \in BOOLEAN, Departs(t)
    PROVE  LET m == Departure(t, told)
           IN  /\ m \in MovementTypes /\ m # Still
               /\ m.by = t /\ m.target = CoverOrder[t].target /\ m.accepted = told
               /\ m.travel > 0 /\ m.age = 0
<1>1. TravelTime(CoverOrder[t]) \in 0..(2 * Bottom) /\ TravelTime(CoverOrder[t]) > 0
  BY TravelTimeTyped DEF Departs
<1>2. Departure(t, told) \in MovementTypes
  BY <1>1, EstimatedTyped, OrderTyped, CoverAssumption DEF Departure, MovementTypes, MaxTravel
<1>3. t # NoCall
  BY CoverAssumption
<1> QED
  BY <1>1, <1>2, <1>3 DEF Departure, Still

\* What the start of a command makes of the movement.
LEMMA CallMovement ==
    ASSUME CoverTypeOK, TravelInv, NEW c \in CoverCalls
    PROVE  LET m == MovementOfCall(c)
           IN  /\ m \in MovementTypes
               /\ m # Still => m.by # NoCall /\ m.travel > 0 /\ m.age <= m.travel + Grace
               /\ CoverOrder[c].kind = "tilt" => m = movement
               /\ CoverOrder[c].kind = "stop" => m = Still
               /\ CoverOrder[c].kind = "move" /\ m # Still =>
                     /\ Moves(c) /\ ~m.accepted /\ m.target = CoverOrder[c].target
                     /\ ~Departs(c) => /\ movement # Still
                                       /\ m.travel = movement.travel /\ m.age = movement.age
<1>1. c \in CoverTelegrams
  BY DEF CoverTelegrams
<1>2. movement \in MovementTypes
  BY DEF CoverTypeOK, MovementTypes
<1>3. CASE CoverOrder[c].kind \in {"tilt", "stop"}
  BY <1>2, <1>3, StillTyped DEF MovementOfCall, TravelInv
<1>4. CASE CoverOrder[c].kind = "move" /\ Repeats(c)
  <2>1. MovementOfCall(c) = [movement EXCEPT !.accepted = FALSE]
    BY <1>4 DEF MovementOfCall
  <2>2. movement # Still /\ movement.target = CoverOrder[c].target /\ Moves(c)
    BY <1>4 DEF Repeats, Moving, Moves
  <2> QED
    BY <1>2, <1>4, <2>1, <2>2 DEF TravelInv, MovementTypes
<1>5. CASE CoverOrder[c].kind = "move" /\ ~Repeats(c) /\ Departs(c)
  <2>1. MovementOfCall(c) = Departure(c, FALSE)
    BY <1>5 DEF MovementOfCall
  <2>2. Moves(c)
    BY <1>5 DEF Moves
  <2> DEFINE m == MovementOfCall(c)
  <2>3. /\ m \in MovementTypes /\ m # Still
        /\ m.by = c /\ m.target = CoverOrder[c].target /\ ~m.accepted
        /\ m.travel > 0 /\ m.age = 0
    BY <1>1, <1>5, <2>1, DepartureTyped
  <2> HIDE DEF m
  <2>4. m.by # NoCall /\ m.age <= m.travel + Grace
    BY <1>1, <2>3, CoverAssumption DEF MovementTypes
  <2> QED
    BY <1>5, <2>2, <2>3, <2>4 DEF m
<1>6. CASE CoverOrder[c].kind = "move" /\ ~Repeats(c) /\ ~Departs(c)
  BY <1>6, StillTyped DEF MovementOfCall
<1> QED
  BY <1>1, <1>3, <1>4, <1>5, <1>6, OrderTyped

LEMMA ForeignMovement ==
    ASSUME CoverTypeOK, TravelInv, NEW t \in CoverTelegrams
    PROVE  LET m == MovementOfForeign(t)
           IN  /\ m \in MovementTypes
               /\ m # Still => m.by # NoCall /\ m.travel > 0 /\ m.age <= m.travel + Grace
               /\ CoverOrder[t].kind = "tilt" => m = movement
               /\ CoverOrder[t].kind = "stop" => m = Still
               /\ CoverOrder[t].kind = "move" /\ m # Still => m.target = CoverOrder[t].target
<1>1. movement \in MovementTypes
  BY DEF CoverTypeOK, MovementTypes
<1>2. CASE CoverOrder[t].kind \in {"tilt", "stop"}
  BY <1>1, <1>2, StillTyped DEF MovementOfForeign, TravelInv
<1>3. CASE CoverOrder[t].kind = "move" /\ Repeats(t)
  BY <1>1, <1>3 DEF MovementOfForeign, Repeats, Moving, TravelInv
<1>4. CASE CoverOrder[t].kind = "move" /\ ~Repeats(t) /\ Departs(t)
  <2>1. MovementOfForeign(t) = Departure(t, TRUE)
    BY <1>4 DEF MovementOfForeign
  <2> DEFINE m == MovementOfForeign(t)
  <2>2. /\ m \in MovementTypes
        /\ m.by = t /\ m.target = CoverOrder[t].target
        /\ m.travel > 0 /\ m.age = 0
    BY <1>4, <2>1, DepartureTyped
  <2> HIDE DEF m
  <2>3. m.by # NoCall /\ m.age <= m.travel + Grace
    BY <2>2, CoverAssumption DEF MovementTypes
  <2> QED
    BY <1>4, <2>2, <2>3 DEF m
<1>5. CASE CoverOrder[t].kind = "move" /\ ~Repeats(t) /\ ~Departs(t)
  BY <1>5, StillTyped DEF MovementOfForeign
<1> QED
  BY <1>2, <1>3, <1>4, <1>5, OrderTyped

LEMMA CoverStarts == CoverInit => CoverInv
<1> SUFFICES ASSUME CoverInit PROVE CoverInv
  OBVIOUS
<1> USE DEF CoverInit
<1>1. PICK telegrams \in CoverScenarios :
         /\ callStage = [c \in CoverCalls |-> IF c \in telegrams THEN "new" ELSE "done"]
         /\ unheard = CoverForeign \cap telegrams
  OBVIOUS
<1>2. callStage \in [CoverCalls -> {"new", "queued", "sending", "done"}]
      /\ \A c \in CoverCalls : callStage[c] # "sending"
  BY <1>1
<1>3. movement \in MovementTypes
  BY StillTyped
<1>4. CallTypes
  BY <1>1, <1>2 DEF CallTypes, CoverTelegrams
<1>5. ShownTypes
  BY NoTime DEF ShownTypes
<1>6. CheckTypes
  BY NoTime DEF CheckTypes
<1> QED
  BY <1>2, <1>3, <1>4, <1>5, <1>6 DEF CoverInv, TravelInv, OneOnRadio, SendingInv, BoundInv, WaitInv

--------------------------------------------------------------------------------

LEMMA CallKeeps == ASSUME CoverInv, NEW c \in CoverCalls, CoverCall(c) PROVE CoverInv'
<1> USE DEF CoverInv
<1>1. /\ callStage' = [callStage EXCEPT ![c] = "queued"]
      /\ UNCHANGED <<timed, position, origin, started, reported, query, unheard, bound>>
  BY DEF CoverCall
<1>2. \/ /\ movement' = Still /\ unconfirmed' = {} /\ checks' = 0 /\ due' = 0 /\ wanted' = FALSE
         /\ UNCHANGED undisturbed
      \/ undisturbed' = undisturbed \cup {c} /\ UNCHANGED <<movement, checkVars>>
  BY DEF CoverCall, DropCoverChecks
<1>3. movement' \in MovementTypes /\ ShownTypes'
  BY <1>1, <1>2, StillTyped DEF ShownTypes
<1>4. CallTypes'
  BY <1>1, <1>2 DEF CallTypes
<1>5. CheckTypes'
  BY <1>2, NoTime DEF CheckTypes, checkVars
<1>6. TravelInv' /\ BoundInv' /\ WaitInv'
  BY <1>1, <1>2 DEF TravelInv, BoundInv, WaitInv, checkVars, EndsIn
<1>7. \A d \in CoverCalls : callStage'[d] = "sending" => callStage[d] = "sending"
  BY <1>1 DEF CallTypes
<1>8. OneOnRadio' /\ SendingInv'
  BY <1>1, <1>2, <1>7 DEF OneOnRadio, SendingInv
<1> QED
  BY <1>3, <1>4, <1>5, <1>6, <1>8

LEMMA RefusedKeeps == ASSUME CoverInv, NEW c \in CoverCalls, CoverRefused(c) PROVE CoverInv'
<1> USE DEF CoverInv
<1>1. /\ callStage' = [callStage EXCEPT ![c] = "done"]
      /\ undisturbed' = undisturbed \ {c}
      /\ UNCHANGED <<timed, position, origin, movement, started, reported, checkVars, query, unheard, bound>>
  BY DEF CoverRefused
<1>2. movement' \in MovementTypes /\ ShownTypes' /\ CheckTypes'
  BY <1>1 DEF ShownTypes, CheckTypes, checkVars
<1>3. CallTypes'
  BY <1>1 DEF CallTypes
<1>4. TravelInv' /\ BoundInv' /\ WaitInv'
  BY <1>1 DEF TravelInv, BoundInv, WaitInv, checkVars, EndsIn
<1>5. \A d \in CoverCalls : callStage'[d] = "sending" => callStage[d] = "sending"
  BY <1>1 DEF CallTypes
<1>6. OneOnRadio' /\ SendingInv'
  BY <1>1, <1>5 DEF OneOnRadio, SendingInv
<1> QED
  BY <1>2, <1>3, <1>4, <1>6

\* Without checks none can come too early.
LEMMA ChecksDropped ==
    ASSUME CheckTypes, unconfirmed' \subseteq unconfirmed, checks' = 0, due' = 0, wanted' = FALSE
    PROVE  CheckTypes' /\ WaitInv'
<1>1. unconfirmed' \subseteq CoverFields
  BY DEF CheckTypes
<1>2. checks' \in 0..2 /\ due' \in 0..MaxTravel
  BY NoTime
<1>3. wanted' \in BOOLEAN
  OBVIOUS
<1>4. CheckTypes'
  BY <1>1, <1>2, <1>3 DEF CheckTypes
<1>5. ~(checks' > 0) /\ ~wanted'
  OBVIOUS
<1>6. WaitInv'
  BY <1>5 DEF WaitInv
<1> QED
  BY <1>4, <1>6

LEMMA SendKeeps == ASSUME CoverInv, NEW c \in CoverCalls, CoverSend(c) PROVE CoverInv'
<1> USE DEF CoverInv
<1>1. /\ callStage' = [callStage EXCEPT ![c] = "sending"]
      /\ reported' = {}
      /\ movement' = MovementOfCall(c)
      /\ started' = IF Moves(c) THEN movement'.by ELSE NoCall
      /\ undisturbed' = IF Moves(c) THEN {} ELSE undisturbed
      /\ unheard' = unheard \cup {c}
      /\ UNCHANGED <<timed, position, origin, query, bound>>
      /\ \A d \in CoverCalls : callStage[d] # "sending"
  BY DEF CoverSend, CoverRadioFree
<1>2. CoverOrder[c].kind \in {"move", "stop", "tilt"} /\ c \in CoverTelegrams
  BY OrderTyped DEF CoverTelegrams
<1>3. /\ movement' \in MovementTypes
      /\ movement' # Still => /\ movement'.by # NoCall /\ movement'.travel > 0
                              /\ movement'.age <= movement'.travel + Grace
      /\ CoverOrder[c].kind = "tilt" => movement' = movement
      /\ CoverOrder[c].kind = "stop" => movement' = Still
      /\ CoverOrder[c].kind = "move" /\ movement' # Still =>
            /\ Moves(c) /\ ~movement'.accepted /\ movement'.target = CoverOrder[c].target
            /\ ~Departs(c) => /\ movement # Still
                              /\ movement'.travel = movement.travel /\ movement'.age = movement.age
  BY <1>1, CallMovement, TypesInParts
<1>4. ASSUME CoverOrder[c].kind = "stop" \/ (CoverOrder[c].kind = "move" /\ Departs(c))
      PROVE  CheckTypes' /\ WaitInv'
  <2>1. unconfirmed' \subseteq unconfirmed /\ checks' = 0 /\ due' = 0 /\ wanted' = FALSE
    BY <1>4 DEF CoverSend, DropCoverChecks, SuspendChecks
  <2> QED
    BY <2>1, ChecksDropped
<1>5. ASSUME ~(CoverOrder[c].kind = "stop" \/ (CoverOrder[c].kind = "move" /\ Departs(c)))
      PROVE  CheckTypes' /\ WaitInv'
  <2>1. UNCHANGED checkVars
    BY <1>5 DEF CoverSend
  <2>2. movement' # Still => /\ movement # Still
                             /\ movement'.travel = movement.travel /\ movement'.age = movement.age
    BY <1>2, <1>3, <1>5
  <2> QED
    BY <2>1, <2>2 DEF CheckTypes, WaitInv, checkVars, EndsIn
<1>6. CheckTypes' /\ WaitInv'
  BY <1>4, <1>5
<1>7. CallTypes'
  BY <1>1, <1>2, <1>3 DEF CallTypes, MovementTypes
<1>8. ShownTypes'
  BY <1>1 DEF ShownTypes
<1>9. TravelInv' /\ BoundInv'
  BY <1>1, <1>2, <1>3 DEF TravelInv, BoundInv
<1>10. \A d \in CoverCalls : callStage'[d] = "sending" => d = c
  BY <1>1 DEF CallTypes
<1>11. OneOnRadio' /\ SendingInv'
  <2>1. CoverOrder[c].kind = "tilt" => started' = NoCall
    BY <1>1 DEF Moves
  <2> QED
    BY <1>1, <1>2, <1>3, <1>10, <2>1 DEF OneOnRadio, SendingInv
<1> QED
  BY <1>3, <1>6, <1>7, <1>8, <1>9, <1>11

\* The call is over and nobody else is on the radio.
LEMMA EndOfCall ==
    ASSUME CoverInv, NEW c \in CoverCalls, callStage[c] = "sending",
           callStage' = [callStage EXCEPT ![c] = "done"]
    PROVE  \A d \in CoverCalls : callStage'[d] # "sending"
  BY DEF CoverInv, CallTypes, OneOnRadio

LEMMA AcknowledgedKeeps ==
    ASSUME CoverInv, NEW c \in CoverCalls, CoverAcknowledged(c) PROVE CoverInv'
<1> USE DEF CoverInv
<1>1. /\ callStage[c] = "sending" /\ callStage' = [callStage EXCEPT ![c] = "done"]
      /\ started' = NoCall /\ reported' = {} /\ UNCHANGED <<timed, query, unheard>>
      /\ undisturbed' \subseteq undisturbed
  BY DEF CoverAcknowledged
<1>2. \A d \in CoverCalls : callStage'[d] # "sending"
  BY <1>1, EndOfCall
<1>3. CoverOrder[c].kind \in {"move", "stop", "tilt"} /\ CoverOrder[c].target \in Positions
      /\ c \in CoverTelegrams
  BY OrderTyped DEF CoverTelegrams
<1>4. \/ movement' \in {Still, movement}
      \/ OwnMovement /\ movement' = [movement EXCEPT !.accepted = TRUE]
  BY DEF CoverAcknowledged
<1>5. movement' \in MovementTypes /\ TravelInv'
  <2>1. CASE movement' \in {Still, movement}
    BY <2>1, StillTyped DEF TravelInv
  <2>2. CASE movement' = [movement EXCEPT !.accepted = TRUE] /\ movement # Still
    BY <2>2 DEF MovementTypes, TravelInv
  <2>3. OwnMovement => movement # Still
    BY <1>1, <1>3 DEF OwnMovement, Still
  <2> QED
    BY <1>4, <2>1, <2>2, <2>3
<1>6. CallTypes'
  BY <1>1 DEF CallTypes
<1>7. bound' = CASE CoverOrder[c].kind = "move" -> CoverOrder[c].target
                 [] CoverOrder[c].kind = "stop" -> Unknown
                 [] OTHER -> bound
  BY DEF CoverAcknowledged, Bind
<1>8. ShownTypes'
  <2>1. /\ position' \in {position, movement.target, CoverOrder[c].target}
        /\ origin' \in {origin, "assumed", "estimated"}
    BY DEF CoverAcknowledged
  <2>2. movement.target \in Positions
    BY DEF MovementTypes
  <2> QED
    BY <1>1, <1>3, <1>7, <2>1, <2>2 DEF ShownTypes
<1>9. BoundInv'
  <2>1. CASE CoverOrder[c].kind = "tilt"
    <3>1. started = NoCall /\ bound' = bound
      BY <1>1, <1>7, <2>1 DEF SendingInv
    <3> QED
      BY <1>4, <3>1 DEF BoundInv, OwnMovement
  <2>2. CASE CoverOrder[c].kind # "tilt" /\ movement # Still
    <3>1. CoverOrder[c].kind = "move" /\ movement.target = CoverOrder[c].target
      BY <1>1, <2>2 DEF SendingInv
    <3>2. bound' = movement.target
      BY <1>7, <3>1
    <3>3. movement' = Still \/ movement'.target = movement.target
      BY <1>4 DEF MovementTypes
    <3> QED
      BY <3>2, <3>3 DEF BoundInv
  <2>3. CASE movement = Still
    <3>1. movement' = Still
      BY <1>4, <2>3 DEF OwnMovement, Still
    <3> QED
      BY <3>1 DEF BoundInv
  <2> QED
    BY <2>1, <2>2, <2>3
<1>10. movement' # Still => /\ movement # Still
                            /\ movement'.travel = movement.travel /\ movement'.age = movement.age
  BY <1>4 DEF MovementTypes, OwnMovement, Still
<1>11. CheckTypes' /\ WaitInv'
  <2>1. CASE UNCHANGED checkVars
    BY <1>10, <2>1 DEF CheckTypes, WaitInv, checkVars, EndsIn
  <2>2. CASE ScheduleCover(FieldsOfOrder(c) \ reported, movement)
    <3>1. EndsIn \in 0..MaxTravel \/ movement = Still
      BY CoverAssumption DEF EndsIn, TravelInv, MovementTypes, MaxTravel
    <3>2. /\ unconfirmed' \subseteq CoverFields /\ checks' = 2 /\ wanted' = FALSE
          /\ due' = IF "position" \in unconfirmed' /\ movement # Still THEN EndsIn ELSE 0
      BY <1>3, <2>2 DEF ScheduleCover, FieldsOfOrder, CoverFields, CheckTypes, EndsIn
    <3>3. CheckTypes'
      BY <3>1, <3>2, NoTime DEF CheckTypes
    <3>4. movement' # Still => EndsIn' = EndsIn
      BY <1>10 DEF EndsIn
    <3>5. movement # Still => EndsIn \in Int
      BY <3>1, NoTime
    <3> QED
      BY <1>10, <3>2, <3>3, <3>4, <3>5 DEF WaitInv
  <2> QED
    BY <2>1, <2>2 DEF CoverAcknowledged
<1>12. OneOnRadio' /\ SendingInv'
  BY <1>2 DEF OneOnRadio, SendingInv
<1> QED
  BY <1>5, <1>6, <1>8, <1>9, <1>11, <1>12

\* A call that ends without a delivered command.
LEMMA EndsKeeps ==
    ASSUME CoverInv, NEW c \in CoverCalls, CoverEnds(c), movement' \in {Still, movement},
           UNCHANGED checkVars \/ DropCoverChecks
    PROVE  CoverInv'
<1> USE DEF CoverInv
<1>1. /\ callStage[c] = "sending" /\ callStage' = [callStage EXCEPT ![c] = "done"]
      /\ undisturbed' = undisturbed \ {c} /\ started' = NoCall /\ reported' = {}
      /\ UNCHANGED <<timed, position, origin, query, unheard, bound>>
  BY DEF CoverEnds
<1>2. \A d \in CoverCalls : callStage'[d] # "sending"
  BY <1>1, EndOfCall
<1>3. movement' \in MovementTypes /\ TravelInv' /\ BoundInv'
  BY <1>1, StillTyped DEF TravelInv, BoundInv
<1>4. CallTypes' /\ ShownTypes'
  BY <1>1 DEF CallTypes, ShownTypes
<1>5. CheckTypes' /\ WaitInv'
  <2>1. CASE UNCHANGED checkVars
    BY <2>1 DEF CheckTypes, WaitInv, checkVars, EndsIn
  <2>2. CASE DropCoverChecks
    BY <2>2, ChecksDropped DEF DropCoverChecks
  <2> QED
    BY <2>1, <2>2
<1>6. OneOnRadio' /\ SendingInv'
  BY <1>2 DEF OneOnRadio, SendingInv
<1> QED
  BY <1>3, <1>4, <1>5, <1>6

LEMMA AnswerKeeps == ASSUME CoverInv, NEW c \in CoverCalls, CoverAnswer(c) PROVE CoverInv'
<1>1. CASE CoverAcknowledged(c)
  BY <1>1, AcknowledgedKeeps
<1>2. CASE CoverDeferred(c) \/ CoverFails(c) \/ CoverRejected(c)
  <2>1. /\ CoverEnds(c) /\ movement' \in {Still, movement}
        /\ UNCHANGED checkVars \/ DropCoverChecks
    BY <1>2 DEF CoverDeferred, CoverFails, CoverRejected, checkVars
  <2> QED
    BY <2>1, EndsKeeps
<1> QED
  BY <1>1, <1>2 DEF CoverAnswer

LEMMA ReportKeeps ==
    ASSUME CoverInv, NEW fields \in SUBSET CoverFields, NEW p \in Positions,
           CoverReport(fields, p)
    PROVE  CoverInv'
<1> USE DEF CoverInv
<1>1. /\ movement' \in {Still, movement} /\ position' \in {position, p}
      /\ origin' \in {origin, "reported"} /\ undisturbed' = {}
      /\ reported' \subseteq reported \cup fields
      /\ UNCHANGED <<timed, callStage, started, query, unheard, bound>>
  BY DEF CoverReport
<1>2. movement' \in MovementTypes /\ TravelInv' /\ BoundInv'
  BY <1>1, StillTyped DEF TravelInv, BoundInv
<1>3. CallTypes' /\ ShownTypes'
  BY <1>1 DEF CallTypes, ShownTypes
<1>4. CheckTypes' /\ WaitInv'
  <2>1. CASE unconfirmed \subseteq fields
    BY <2>1, ChecksDropped DEF CoverReport, DropCoverChecks
  <2>2. CASE ~(unconfirmed \subseteq fields)
    <3>1. unconfirmed' \subseteq unconfirmed /\ UNCHANGED <<checks, due, wanted>>
      BY <2>2 DEF CoverReport
    <3> QED
      BY <1>1, <3>1 DEF CheckTypes, WaitInv, EndsIn
  <2> QED
    BY <2>1, <2>2
<1>5. OneOnRadio' /\ SendingInv'
  BY <1>1 DEF OneOnRadio, SendingInv
<1> QED
  BY <1>2, <1>3, <1>4, <1>5

LEMMA OutboundKeeps ==
    ASSUME CoverInv, NEW t \in unheard, CoverOutbound(t)
    PROVE  CoverInv'
<1> USE DEF CoverInv
<1>1. /\ movement' = MovementOfForeign(t) /\ unheard' = unheard \ {t} /\ undisturbed' = {}
      /\ UNCHANGED <<timed, callStage, started, reported, query>>
      /\ \A c \in CoverCalls : callStage[c] # "sending"
      /\ position' \in {position, CoverOrder[t].target} /\ origin' \in {origin, "estimated"}
  BY DEF CoverOutbound, CoverWaiters
<1>2. t \in CoverTelegrams
  BY DEF CallTypes
<1>3. CoverOrder[t].kind \in {"move", "stop", "tilt"} /\ CoverOrder[t].target \in Positions
  BY <1>2, OrderTyped
<1>4. bound' = CASE CoverOrder[t].kind = "move" -> CoverOrder[t].target
                 [] CoverOrder[t].kind = "stop" -> Unknown
                 [] OTHER -> bound
  BY DEF CoverOutbound, Bind
<1>5. /\ movement' \in MovementTypes
      /\ movement' # Still => /\ movement'.by # NoCall /\ movement'.travel > 0
                              /\ movement'.age <= movement'.travel + Grace
      /\ CoverOrder[t].kind = "tilt" => movement' = movement
      /\ CoverOrder[t].kind = "stop" => movement' = Still
      /\ CoverOrder[t].kind = "move" /\ movement' # Still => movement'.target = CoverOrder[t].target
  BY <1>1, <1>2, ForeignMovement, TypesInParts
<1>6. TravelInv'
  BY <1>5 DEF TravelInv
<1>7. BoundInv'
  BY <1>3, <1>4, <1>5 DEF BoundInv
<1>8. CallTypes' /\ ShownTypes'
  BY <1>1, <1>3, <1>4 DEF CallTypes, ShownTypes
<1>9. CheckTypes' /\ WaitInv'
  <2>1. /\ unconfirmed' \subseteq CoverFields /\ checks' = 2 /\ wanted' = FALSE
        /\ due' = IF "position" \in unconfirmed' /\ movement' # Still THEN EndsIn' ELSE 0
    BY <1>3 DEF CoverOutbound, FieldsOfOrder, CoverFields, CheckTypes, EndsIn
  <2>2. movement' # Still => EndsIn' \in 0..MaxTravel
    BY <1>5, CoverAssumption DEF EndsIn, MovementTypes, MaxTravel
  <2>3. due' \in 0..MaxTravel
    BY <2>1, <2>2, NoTime
  <2>4. CheckTypes'
    BY <2>1, <2>3, NoTime DEF CheckTypes
  <2>5. movement' # Still => EndsIn' \in Int
    BY <2>2, NoTime
  <2> QED
    BY <2>1, <2>4, <2>5 DEF WaitInv
<1>10. OneOnRadio' /\ SendingInv'
  BY <1>1 DEF OneOnRadio, SendingInv
<1> QED
  BY <1>5, <1>6, <1>7, <1>8, <1>9, <1>10

LEMMA TickKeeps == ASSUME CoverInv, CoverTick PROVE CoverInv'
<1> USE DEF CoverInv
<1>1. /\ movement' = IF movement # Still /\ EndsIn > 0 THEN [movement EXCEPT !.age = @ + 1] ELSE movement
      /\ due' = IF due > 0 THEN due - 1 ELSE 0
      /\ UNCHANGED <<timed, position, origin, coverCallVars, unconfirmed, checks, wanted, query,
                     unheard, bound>>
  BY DEF CoverTick, Moving
<1>2. movement # Still => /\ movement.travel \in 0..(2 * Bottom) /\ movement.age \in Nat
                          /\ movement.travel + Grace <= MaxTravel
                          /\ EndsIn = movement.travel + Grace - movement.age /\ EndsIn >= 0
  BY CoverAssumption DEF MovementTypes, MaxTravel, TravelInv, EndsIn
<1>3. CASE movement # Still /\ EndsIn > 0
  <2>1. movement' = [movement EXCEPT !.age = @ + 1]
    BY <1>1, <1>3
  <2>2. movement.age + 1 \in 0..MaxTravel /\ movement.age + 1 <= movement.travel + Grace
    BY <1>2, <1>3, CoverAssumption, NoTime
  <2>3. /\ movement' \in MovementTypes /\ movement'.age = movement.age + 1
        /\ \A f \in {"by", "start", "target", "travel", "accepted", "elapsed"} :
              movement'[f] = movement[f]
    BY <2>1, <2>2 DEF MovementTypes
  <2>4. TravelInv' /\ BoundInv'
    BY <1>1, <1>3, <2>2, <2>3 DEF TravelInv, BoundInv
  <2>5. EndsIn' = EndsIn - 1
    BY <1>2, <1>3, <2>3, CoverAssumption DEF EndsIn
  <2>6. CheckTypes' /\ WaitInv'
    <3>1. due \in Nat /\ due' \in 0..MaxTravel
      BY <1>1, NoTime DEF CheckTypes
    <3>2. CheckTypes'
      BY <1>1, <3>1 DEF CheckTypes, coverCallVars
    <3>3. "position" \in unconfirmed /\ checks > 0 => due' >= EndsIn'
      <4>1. "position" \in unconfirmed /\ checks > 0 => due >= EndsIn
        BY <1>3 DEF WaitInv
      <4>2. EndsIn \in Int
        BY <1>2, <1>3, CoverAssumption
      <4>3. due' = IF due > 0 THEN due - 1 ELSE 0
        BY <1>1
      <4> QED
        BY <1>3, <2>5, <3>1, <4>1, <4>2, <4>3
    <3>4. "position" \in unconfirmed => ~wanted
      BY <1>2, <1>3 DEF WaitInv
    <3> QED
      BY <1>1, <3>2, <3>3, <3>4 DEF WaitInv
  <2>7. OneOnRadio' /\ SendingInv'
    BY <1>1, <1>3, <2>3 DEF OneOnRadio, SendingInv, coverCallVars
  <2> QED
    BY <1>1, <2>3, <2>4, <2>6, <2>7 DEF CallTypes, ShownTypes, coverCallVars
<1>4. CASE ~(movement # Still /\ EndsIn > 0)
  <2>1. movement' = movement
    BY <1>1, <1>4
  <2>2. due \in Nat /\ due' \in 0..MaxTravel
    BY <1>1, NoTime DEF CheckTypes
  <2>3. CheckTypes'
    BY <1>1, <2>2 DEF CheckTypes
  <2>4. EndsIn' = EndsIn /\ (movement # Still => EndsIn = 0)
    BY <1>2, <1>4, <2>1, CoverAssumption DEF EndsIn, MovementTypes
  <2>5. WaitInv'
    BY <1>1, <2>1, <2>2, <2>4 DEF WaitInv
  <2>6. OneOnRadio' /\ SendingInv'
    BY <1>1, <2>1 DEF OneOnRadio, SendingInv, coverCallVars
  <2> QED
    BY <1>1, <2>1, <2>3, <2>5, <2>6 DEF CallTypes, ShownTypes, TravelInv, BoundInv, coverCallVars
<1> QED
  BY <1>3, <1>4

LEMMA TravelledKeeps == ASSUME CoverInv, CoverTravelled PROVE CoverInv'
<1> USE DEF CoverInv
<1>1. /\ movement # Still /\ EndsIn = 0
      /\ UNCHANGED <<timed, callStage, started, reported, checkVars, query, unheard, bound>>
      /\ undisturbed' \subseteq undisturbed
      /\ movement' = Still \/ movement' = [movement EXCEPT !.elapsed = TRUE]
      /\ position' \in {position, movement.target} /\ origin' \in {origin, "assumed"}
  BY DEF CoverTravelled, Moving
<1>2. /\ movement' \in MovementTypes
      /\ movement' = Still \/ \A f \in {"by", "start", "target", "travel", "age", "accepted"} :
                                 movement'[f] = movement[f]
  BY <1>1, StillTyped DEF MovementTypes
<1>3. TravelInv' /\ BoundInv'
  BY <1>1, <1>2 DEF TravelInv, BoundInv
<1>4. movement.target \in Positions
  BY DEF MovementTypes
<1>5. CallTypes' /\ ShownTypes' /\ CheckTypes'
  BY <1>1, <1>4 DEF CallTypes, ShownTypes, CheckTypes, checkVars
<1>6. WaitInv'
  BY <1>1, <1>2 DEF WaitInv, checkVars, EndsIn
<1>7. OneOnRadio' /\ SendingInv'
  BY <1>1, <1>2 DEF OneOnRadio, SendingInv
<1> QED
  BY <1>2, <1>3, <1>5, <1>6, <1>7

LEMMA CheckDueKeeps == ASSUME CoverInv, CoverCheckDue PROVE CoverInv'
<1> USE DEF CoverInv
<1>1. /\ checks > 0 /\ due = 0 /\ checks' = checks - 1 /\ wanted' = TRUE
      /\ query' \in {query, "queued"}
      /\ UNCHANGED <<timed, position, origin, movement, coverCallVars, unconfirmed, due, unheard, bound>>
  BY DEF CoverCheckDue
<1>2. CheckTypes'
  BY <1>1 DEF CheckTypes
<1>3. movement # Still => EndsIn \in Nat
  BY CoverAssumption DEF EndsIn, TravelInv, MovementTypes, MaxTravel
<1>4. movement # Still /\ "position" \in unconfirmed => EndsIn = 0
  BY <1>1, <1>3 DEF WaitInv
<1>5. WaitInv'
  BY <1>1, <1>4 DEF WaitInv, EndsIn
<1> QED
  BY <1>1, <1>2, <1>5 DEF CallTypes, ShownTypes, TravelInv, BoundInv, OneOnRadio, SendingInv, coverCallVars

LEMMA QueryKeeps == ASSUME CoverInv, CoverQuery \/ CoverQueryEnds PROVE CoverInv'
<1> USE DEF CoverInv
<1>1. /\ query' \in {"idle", "queued", "sending"}
      /\ UNCHANGED <<timed, position, origin, movement, coverCallVars, unheard, bound>>
  BY DEF CoverQuery, CoverQueryEnds
<1>2. CASE UNCHANGED checkVars
  BY <1>1, <1>2 DEF CallTypes, ShownTypes, CheckTypes, TravelInv, BoundInv, WaitInv, OneOnRadio,
                    SendingInv, coverCallVars, checkVars, EndsIn
<1>3. CASE DropCoverChecks
  <2>1. CheckTypes' /\ WaitInv'
    BY <1>3, ChecksDropped DEF DropCoverChecks
  <2> QED
    BY <1>1, <2>1 DEF CallTypes, ShownTypes, TravelInv, BoundInv, OneOnRadio, SendingInv, coverCallVars
<1>4. CASE CoverQuery
  <2>1. wanted' = FALSE /\ UNCHANGED <<unconfirmed, checks, due>>
    BY <1>4 DEF CoverQuery
  <2>2. CheckTypes'
    BY <2>1 DEF CheckTypes
  <2>3. WaitInv'
    BY <1>1, <2>1 DEF WaitInv, EndsIn
  <2> QED
    BY <1>1, <2>2, <2>3 DEF CallTypes, ShownTypes, TravelInv, BoundInv, OneOnRadio, SendingInv, coverCallVars
<1> QED
  BY <1>2, <1>3, <1>4 DEF CoverQueryEnds

LEMMA OutageKeeps == ASSUME CoverInv, CoverOutage PROVE CoverInv'
<1> USE DEF CoverInv
<1>1. /\ movement' = Still
      /\ callStage' = [c \in CoverCalls |-> IF callStage[c] = "queued" THEN "done" ELSE callStage[c]]
      /\ undisturbed' \subseteq undisturbed /\ query' \in {query, "idle"}
      /\ UNCHANGED <<timed, position, origin, started, reported, unheard, bound>>
  BY DEF CoverOutage
<1>2. CheckTypes' /\ WaitInv'
  BY ChecksDropped DEF CoverOutage, DropCoverChecks
<1>3. CallTypes' /\ ShownTypes'
  BY <1>1 DEF CallTypes, ShownTypes
<1>4. \A c \in CoverCalls : callStage'[c] = "sending" => callStage[c] = "sending"
  BY <1>1
<1>5. OneOnRadio' /\ SendingInv'
  BY <1>1, <1>4 DEF OneOnRadio, SendingInv
<1> QED
  BY <1>1, <1>2, <1>3, <1>5, StillTyped DEF TravelInv, BoundInv

LEMMA CoverStep == CoverInv /\ [CoverNext]_CoverVars => CoverInv'
<1> SUFFICES ASSUME CoverInv, [CoverNext]_CoverVars PROVE CoverInv'
  OBVIOUS
<1>1. CASE CoverCommand
  BY <1>1, CallKeeps, RefusedKeeps, SendKeeps, AnswerKeeps DEF CoverCommand
<1>2. CASE CoverStream
  <2>1. ASSUME NEW fields \in (SUBSET CoverFields) \ {{}}, NEW p \in Positions, CoverReport(fields, p)
        PROVE  CoverInv'
    BY <2>1, ReportKeeps
  <2>2. ASSUME NEW t \in unheard, CoverOutbound(t) PROVE CoverInv'
    BY <2>2, OutboundKeeps
  <2>3. ASSUME NEW t \in unheard, CoverOutboundIgnored(t) PROVE CoverInv'
    BY <2>3 DEF CoverOutboundIgnored, CoverInv, CallTypes, ShownTypes, CheckTypes, TravelInv, BoundInv,
                WaitInv, OneOnRadio, SendingInv, coverCallVars, checkVars, EndsIn
  <2> QED
    BY <1>2, <2>1, <2>2, <2>3 DEF CoverStream
<1>3. CASE CoverTimers
  BY <1>3, TickKeeps, TravelledKeeps, CheckDueKeeps, QueryKeeps DEF CoverTimers
<1>4. CASE CoverOutage
  BY <1>4, OutageKeeps
<1>5. CASE UNCHANGED CoverVars
  BY <1>5 DEF CoverVars, CoverInv, CallTypes, ShownTypes, CheckTypes, TravelInv, BoundInv,
              WaitInv, OneOnRadio, SendingInv, coverCallVars, checkVars, EndsIn
<1> QED
  BY <1>1, <1>2, <1>3, <1>4, <1>5 DEF CoverNext

\* CoverInv holds of every behaviour of the component.
LEMMA CoverHolds == CoverSpec => []CoverInv
  BY CoverStarts, CoverStep, PTL DEF CoverSpec

\* For any positions, commands and grace, the variables of the travel estimate
\* have their types; an estimated position stays between the end positions
\* (CoverMovement, _start_cover_movement).
THEOREM CoverTypes == CoverSpec => []CoverTypeOK
  BY CoverHolds, TypesInParts, PTL DEF CoverInv

\* No status check of a position can be sent while the blind is still expected to
\* travel there, whatever is sent, reported, deferred or lost meanwhile
\* (_schedule_reconciliation_queries, _start_cover_movement).
THEOREM ChecksWait == CoverSpec => []ChecksWaitForTravel
<1>1. CoverInv => ChecksWaitForTravel
  BY DEF CoverInv, WaitInv, ChecksWaitForTravel, Moving
<1> QED
  BY <1>1, CoverHolds, PTL

\* What a step assumes to be carried out.
AssumedIsOrdered == origin' = "assumed" /\ <<origin, position>>' # <<origin, position>> => position' = bound'

LEMMA AssumedStep == CoverInv /\ [CoverNext]_CoverVars => AssumedIsOrdered
<1> SUFFICES ASSUME CoverInv, [CoverNext]_CoverVars, origin' = "assumed",
                    ~(UNCHANGED <<origin, position>>)
             PROVE  position' = bound'
  BY DEF AssumedIsOrdered
<1>1. CASE CoverTravelled
  <2>1. movement.accepted /\ movement # Still /\ position' = movement.target /\ bound' = bound
    BY <1>1 DEF CoverTravelled, Moving
  <2> QED
    BY <2>1 DEF CoverInv, BoundInv
<1>2. ASSUME NEW c \in CoverCalls, CoverAcknowledged(c) PROVE position' = bound'
  <2>1. OwnMovement /\ position' = movement.target /\ callStage[c] = "sending" /\ Bind(c)
    BY <1>2 DEF CoverAcknowledged
  <2>2. CoverOrder[c].kind = "move" /\ movement.target = CoverOrder[c].target
    <3>1. movement # Still /\ started # NoCall
      BY <2>1 DEF OwnMovement, Still
    <3> QED
      BY <2>1, <3>1 DEF CoverInv, SendingInv
  <2> QED
    BY <2>1, <2>2 DEF Bind
<1>3. CoverTravelled \/ \E c \in CoverCalls : CoverAcknowledged(c)
  BY DEF CoverNext, CoverVars, CoverCommand, CoverAnswer, CoverStream, CoverTimers, CoverCall, CoverRefused,
         CoverSend, CoverDeferred, CoverFails, CoverRejected, CoverEnds, CoverReport, CoverOutbound,
         CoverOutboundIgnored, CoverTick, CoverCheckDue, CoverQuery, CoverQueryEnds, CoverOutage
<1> QED
  BY <1>1, <1>2, <1>3

\* For any commands and scenarios, only an acknowledged or foreign order that nothing
\* known has replaced is ever assumed to be carried out (_finish_cover_movement,
\* snapshot_feedback).
THEOREM AssumedWasOrdered == CoverSpec => OnlyOrdersAreAssumed
<1>1. CoverInv /\ [CoverNext]_CoverVars => [AssumedIsOrdered]_CoverVars
  BY AssumedStep
<1> QED
  BY <1>1, CoverHolds, PTL DEF CoverSpec, OnlyOrdersAreAssumed, AssumedIsOrdered

--------------------------------------------------------------------------------
(* The times of its runs                                                    *)

OrderKinds == {"none", "move", "stop", "query"}
OrderTypes == [kind : OrderKinds, target : Int, via : Vias, age : Int]
RunTypes   == [start : Int, target : Int, via : Vias, age : Int, queried : BOOLEAN]

TimingTypes ==
    /\ shownAt \in Int
    /\ onRadio \in OrderTypes
    /\ onRadio.kind = "none" => onRadio = NoOrder
    /\ run \in RunTypes
    /\ since \in [target : Int, age : Int, spoilt : BOOLEAN]

\* A run that is timed and not yet useless began with the last order that was
\* acknowledged or heard, and nothing has disturbed it.
RunOfLastOrder ==
    run # NoRun /\ ~run.queried =>
        ~since.spoilt /\ run.target = since.target /\ run.age = since.age

TimingInv == TimingTypes /\ RunOfLastOrder

LEMMA OrderHasItsKind ==
    ASSUME NEW kind \in {"move", "stop", "query"}, NEW order \in OrdersOf(kind)
    PROVE  order \in OrderTypes /\ order.kind = kind
  BY RunsAssumption DEF OrdersOf, OrderTypes, OrderKinds, RunPositions, Vias

LEMMA OlderIsInt == ASSUME NEW age \in Int PROVE Older(age) \in Int
  BY RunsAssumption DEF Older

LEMMA NoRunTypes == NoRun \in RunTypes /\ NoOrder \in OrderTypes /\ NoOrder.kind = "none"
  BY DEF NoRun, NoOrder, RunTypes, OrderTypes, OrderKinds, Vias, NotKnown

LEMMA TimingInit == RunInit => TimingInv
  BY NoRunTypes DEF RunInit, TimingInv, TimingTypes, RunOfLastOrder, NotKnown

\* The run and the history begin together.
LEMMA StartKeepsTiming ==
    ASSUME TimingInv, NEW order \in OrderTypes, order.kind # "none",
           run' = Started(order), Follows(order),
           shownAt' \in Int, onRadio' = NoOrder
    PROVE  TimingInv'
<1> USE DEF TimingInv, TimingTypes, RunOfLastOrder
<1>1. order.kind \in {"move", "stop", "query"}
  BY DEF OrderTypes, OrderKinds
<1>2. CASE order.kind = "move"
  <2>1. run' = [start |-> shownAt, target |-> order.target, via |-> order.via,
                age |-> order.age, queried |-> FALSE]
    BY <1>2 DEF Started
  <2>2. since' = [target |-> order.target, age |-> order.age, spoilt |-> FALSE]
    BY <1>2 DEF Follows
  <2> QED
    BY <2>1, <2>2, NoRunTypes DEF OrderTypes, RunTypes
<1>3. CASE order.kind = "stop"
  <2>1. run' = NoRun /\ since' = [since EXCEPT !.spoilt = TRUE]
    BY <1>3 DEF Started, Follows
  <2> QED
    BY <2>1, NoRunTypes
<1>4. CASE order.kind = "query"
  <2>1. run' = run /\ since' = since
    BY <1>4 DEF Started, Follows
  <2> QED
    BY <2>1, NoRunTypes
<1> QED
  BY <1>1, <1>2, <1>3, <1>4

\* Every step keeps the invariant.
LEMMA TimingStep == TimingInv /\ [RunsNext]_RunVars => TimingInv'
<1> SUFFICES ASSUME TimingInv, [RunsNext]_RunVars PROVE TimingInv'
  OBVIOUS
<1> USE DEF TimingInv, TimingTypes
<1>1. ASSUME NEW kind \in {"move", "stop", "query"}, NEW order \in OrdersOf(kind), OrderSent(order)
      PROVE  TimingInv'
  <2>1. order \in OrderTypes /\ order.kind = kind
    BY <1>1, OrderHasItsKind
  <2>2. CASE order.kind = "query" /\ run # NoRun
    BY <1>1, <2>1, <2>2 DEF OrderSent, RunOfLastOrder, RunTypes
  <2>3. CASE order.kind = "query" /\ run = NoRun
    BY <1>1, <2>1, <2>3 DEF OrderSent, RunOfLastOrder
  <2>4. CASE order.kind # "query"
    BY <1>1, <2>1, <2>4 DEF OrderSent, RunOfLastOrder
  <2> QED
    BY <2>2, <2>3, <2>4
<1>2. ASSUME NEW kind \in {"move", "stop", "query"}, NEW order \in OrdersOf(kind), OrderHeard(order)
      PROVE  TimingInv'
  <2>1. order \in OrderTypes /\ order.kind # "none"
    BY <1>2, OrderHasItsKind
  <2>2. shownAt' \in Int /\ onRadio' = NoOrder /\ run' = Started(order) /\ Follows(order)
    BY <1>2, <2>1 DEF OrderHeard, OrderTypes
  <2> QED
    BY <2>1, <2>2, StartKeepsTiming
<1>3. CASE OrderAcknowledged
  <2>1. onRadio.kind # "none" /\ onRadio' = NoOrder /\ run' = Started(onRadio) /\ Follows(onRadio)
    BY <1>3 DEF OrderAcknowledged
  <2>2. shownAt' \in Int
    BY <1>3 DEF OrderAcknowledged, OrderTypes
  <2> QED
    BY <2>1, <2>2, StartKeepsTiming
<1>4. CASE OrderLost
  BY <1>4, NoRunTypes DEF OrderLost, RunOfLastOrder
<1>5. ASSUME NEW p \in RunPositions, RunReported(p) PROVE TimingInv'
  <2>1. shownAt' \in Int /\ onRadio' = onRadio /\ since' = since /\ run' \in {run, NoRun}
    BY <1>5, RunsAssumption DEF RunReported, RunPositions
  <2> QED
    BY <2>1, NoRunTypes DEF RunOfLastOrder
<1>6. CASE RunTick
  <2>1. onRadio' \in OrderTypes /\ (onRadio'.kind = "none" => onRadio' = NoOrder)
    BY <1>6, NoRunTypes, OlderIsInt DEF RunTick, OrderTypes
  <2>2. run' \in RunTypes /\ (run' # NoRun /\ ~run'.queried
            => run # NoRun /\ ~run.queried /\ run'.target = run.target /\ run'.age = Older(run.age))
    BY <1>6, NoRunTypes, OlderIsInt DEF RunTick, RunTypes
  <2>3. since' \in [target : Int, age : Int, spoilt : BOOLEAN]
        /\ since'.spoilt = since.spoilt /\ since'.target = since.target
        /\ (~since.spoilt => since'.age = Older(since.age))
    BY <1>6, OlderIsInt DEF RunTick
  <2>4. shownAt' = shownAt
    BY <1>6 DEF RunTick
  <2> QED
    BY <2>1, <2>2, <2>3, <2>4 DEF RunOfLastOrder
<1>7. CASE RunsForgotten
  <2>1. shownAt' \in Int
    BY <1>7 DEF RunsForgotten, NotKnown
  <2>2. onRadio' = NoOrder /\ run' = NoRun /\ since' = [since EXCEPT !.spoilt = TRUE]
    BY <1>7 DEF RunsForgotten
  <2> QED
    BY <2>1, <2>2, NoRunTypes DEF RunOfLastOrder
<1>8. CASE RunsRestarted
  <2>1. shownAt' \in Int
    BY <1>8, RunsAssumption DEF RunsRestarted, NotKnown, RunPositions
  <2>2. onRadio' = NoOrder /\ run' = NoRun /\ since' = [since EXCEPT !.spoilt = TRUE]
    BY <1>8 DEF RunsRestarted
  <2> QED
    BY <2>1, <2>2, NoRunTypes DEF RunOfLastOrder
<1>9. CASE UNCHANGED RunVars
  BY <1>9 DEF RunVars, RunOfLastOrder
<1> QED
  BY <1>1, <1>2, <1>3, <1>4, <1>5, <1>6, <1>7, <1>8, <1>9 DEF RunsNext

\* The sensor shows another run: it was measured as a whole.
Measured ==
    ShownRun' # ShownRun /\ ShownRun' \notin {NoResult, restored} =>
        /\ ~since.spoilt
        /\ ShownRun'.seconds = since.age /\ since.age <= RunTimeout
        /\ ShownRun'.target = since.target
        /\ shownAt' - since.target \in (-Tolerance)..Tolerance

LEMMA MeasuredStep == TimingInv /\ [RunsNext]_RunVars => Measured
<1> SUFFICES ASSUME TimingInv, [RunsNext]_RunVars,
                    ShownRun' # ShownRun, ShownRun' \notin {NoResult, restored}
             PROVE  /\ ~since.spoilt
                    /\ ShownRun'.seconds = since.age /\ since.age <= RunTimeout
                    /\ ShownRun'.target = since.target
                    /\ shownAt' - since.target \in (-Tolerance)..Tolerance
  BY DEF Measured
<1>1. ~(UNCHANGED <<lastRun, restored>>)
  BY DEF ShownRun
<1>2. ~RunsForgotten
  BY DEF RunsForgotten, ShownRun
<1>3. ~RunsRestarted
  BY DEF RunsRestarted, ShownRun
<1>4. PICK p \in RunPositions : RunReported(p)
  BY <1>1, <1>2, <1>3 DEF RunsNext, RunVars, OrderSent, OrderHeard, OrderAcknowledged, OrderLost,
                          RunTick
<1>5. /\ run # NoRun /\ run.age <= RunTimeout /\ Reaches(p) /\ ~run.queried
      /\ lastRun' = Result(run) /\ restored' = restored /\ shownAt' = p
  BY <1>1, <1>4, RunsAssumption DEF RunReported, TimingInv, TimingTypes, RunTypes
<1>6. ShownRun' = Result(run)
  BY <1>5 DEF ShownRun
<1> QED
  BY <1>5, <1>6 DEF Result, Reaches, TimingInv, RunOfLastOrder

\* The sensor of the run time changes only with a run that was measured from the
\* sending of the last command to the report at its target.
THEOREM RunsMeasured == RunsSpec => RunsAreMeasured
<1>1. RunsSpec => []TimingInv
  BY TimingInit, TimingStep, PTL DEF RunsSpec
<1>2. TimingInv /\ [RunsNext]_RunVars => [Measured]_RunVars
  BY MeasuredStep
<1> QED
  BY <1>1, <1>2, PTL DEF RunsSpec, RunsAreMeasured, Measured

--------------------------------------------------------------------------------
(* The types of the run times                                               *)

\* What is kept of a measured run.
Results == [seconds : Ages \cup {-1}, target : RunPositions \cup {NotKnown},
            direction : {"none", "unknown", "up", "down", "reference_up", "reference_down"},
            full : BOOLEAN]

\* Time stops at the bound of the ages.
LEMMA OlderAge == ASSUME NEW age \in Ages PROVE Older(age) \in Ages
  BY RunsAssumption DEF Older, Ages

\* Nothing under way and nothing measured have the types of orders and runs.
LEMMA RestingTypes ==
    /\ NoRun \in [start : RunPositions \cup {NotKnown}, target : RunPositions \cup {NotKnown},
                  via : Vias, age : Ages, queried : BOOLEAN]
    /\ NoResult \in Results
    /\ NoOrder.age \in Ages
  BY RunsAssumption DEF NoRun, NoResult, NoOrder, Results, RunPositions, NotKnown, Vias, Ages

\* An order is of its kind, whatever its age.
RunOrderTyped == onRadio = NoOrder \/ [onRadio EXCEPT !.age = 0] \in OrdersOf(onRadio.kind)

\* What is measured of a run is a result.
LEMMA ResultTyped ==
    ASSUME NEW r \in [start : RunPositions \cup {NotKnown}, target : RunPositions \cup {NotKnown},
                      via : Vias, age : Ages, queried : BOOLEAN]
    PROVE  Result(r) \in Results
<1>1. Direction(r) \in {"unknown", "up", "down", "reference_up", "reference_down"}
  <2>1. r.via \in {"direct", "firstUp", "firstDown"}
    BY DEF Vias
  <2> QED
    BY <2>1 DEF Direction
<1>2. FullTravel(r) \in BOOLEAN
  BY DEF FullTravel
<1>3. r.age \in Ages /\ r.target \in RunPositions \cup {NotKnown}
  OBVIOUS
<1> QED
  BY <1>1, <1>2, <1>3 DEF Result, Results

\* A run starts with an order of its kind.
LEMMA StartTyped ==
    ASSUME RunTypeOK, NEW order, order \in OrderTypes, order.age \in Ages, order.kind # "none",
           order.kind = "move" => order.target \in RunPositions,
           run' = Started(order), Follows(order)
    PROVE  /\ run' \in [start : RunPositions \cup {NotKnown}, target : RunPositions \cup {NotKnown},
                        via : Vias, age : Ages, queried : BOOLEAN]
           /\ since' \in [target : RunPositions \cup {NotKnown}, age : Ages, spoilt : BOOLEAN]
<1>1. order.kind \in {"move", "stop", "query"} /\ order.via \in Vias
  BY DEF OrderTypes, OrderKinds
<1>2. /\ shownAt \in RunPositions \cup {NotKnown}
      /\ run \in [start : RunPositions \cup {NotKnown}, target : RunPositions \cup {NotKnown},
                  via : Vias, age : Ages, queried : BOOLEAN]
      /\ since \in [target : RunPositions \cup {NotKnown}, age : Ages, spoilt : BOOLEAN]
  BY DEF RunTypeOK
<1>3. CASE order.kind = "move"
  <2>1. run' = [start |-> shownAt, target |-> order.target, via |-> order.via,
                age |-> order.age, queried |-> FALSE]
    BY <1>3 DEF Started
  <2>2. since' = [target |-> order.target, age |-> order.age, spoilt |-> FALSE]
    BY <1>3 DEF Follows
  <2> QED
    BY <1>1, <1>2, <1>3, <2>1, <2>2
<1>4. CASE order.kind = "stop"
  <2>1. run' = NoRun /\ since' = [since EXCEPT !.spoilt = TRUE]
    BY <1>4 DEF Started, Follows
  <2> QED
    BY <1>2, <2>1, RestingTypes
<1>5. CASE order.kind = "query"
  <2>1. run' = run /\ since' = since
    BY <1>5 DEF Started, Follows
  <2> QED
    BY <1>2, <2>1
<1> QED
  BY <1>1, <1>3, <1>4, <1>5

LEMMA RunTypedInit == RunInit => RunTypeOK
<1> SUFFICES ASSUME RunInit PROVE RunTypeOK
  OBVIOUS
<1>1. /\ 0 \in RunPositions /\ 0 \in Ages /\ 0 \in 0..MaxOrders
  BY RunsAssumption DEF RunPositions, Ages
<1>2. since \in [target : RunPositions \cup {NotKnown}, age : Ages, spoilt : BOOLEAN]
  BY <1>1 DEF RunInit
<1> QED
  BY <1>1, <1>2, RestingTypes DEF RunInit, RunTypeOK, Results

LEMMA RunTypedStep == TimingInv /\ RunTypeOK /\ [RunsNext]_RunVars => RunTypeOK'
<1> SUFFICES ASSUME TimingInv, RunTypeOK, [RunsNext]_RunVars PROVE RunTypeOK'
  OBVIOUS
<1> DEFINE RunSet == [start : RunPositions \cup {NotKnown}, target : RunPositions \cup {NotKnown},
                      via : Vias, age : Ages, queried : BOOLEAN]
           SinceSet == [target : RunPositions \cup {NotKnown}, age : Ages, spoilt : BOOLEAN]
<1>1. /\ shownAt \in RunPositions \cup {NotKnown} /\ RunOrderTyped /\ onRadio.age \in Ages
      /\ run \in RunSet /\ lastRun \in Results /\ restored \in Results
      /\ orders \in 0..MaxOrders /\ since \in SinceSet
  BY DEF RunTypeOK, RunOrderTyped, Results
<1>2. onRadio \in OrderTypes /\ (onRadio.kind = "none" => onRadio = NoOrder)
  BY DEF TimingInv, TimingTypes
<1>3. SUFFICES /\ shownAt' \in RunPositions \cup {NotKnown} /\ RunOrderTyped' /\ onRadio'.age \in Ages
               /\ run' \in RunSet /\ lastRun' \in Results /\ restored' \in Results
               /\ orders' \in 0..MaxOrders /\ since' \in SinceSet
  BY DEF RunTypeOK, RunOrderTyped, Results
<1>4. NoRun \in RunSet /\ NoResult \in Results /\ NoOrder.age \in Ages
  BY RestingTypes
<1>5. [since EXCEPT !.spoilt = TRUE] \in SinceSet
  BY <1>1
<1>6. [run EXCEPT !.queried = TRUE] \in RunSet
  BY <1>1
<1>7. onRadio' = NoOrder => RunOrderTyped' /\ onRadio'.age \in Ages
  BY <1>4 DEF RunOrderTyped
<1>8. UNCHANGED onRadio => RunOrderTyped' /\ onRadio'.age \in Ages
  BY <1>1 DEF RunOrderTyped, OrdersOf
<1> HIDE DEF RunSet, SinceSet
<1>9. ASSUME NEW kind \in {"move", "stop", "query"}, NEW order \in OrdersOf(kind)
      PROVE  /\ order \in OrderTypes /\ order.kind = kind /\ order.age = 0 /\ 0 \in Ages
             /\ kind = "move" => order.target \in RunPositions
             /\ [order EXCEPT !.age = 0] = order
  BY <1>9, OrderHasItsKind, RunsAssumption DEF OrdersOf, Ages
<1>10. ASSUME NEW kind \in {"move", "stop", "query"}, NEW order \in OrdersOf(kind), OrderSent(order)
       PROVE  /\ shownAt' \in RunPositions \cup {NotKnown} /\ RunOrderTyped' /\ onRadio'.age \in Ages
              /\ run' \in RunSet /\ lastRun' \in Results /\ restored' \in Results
              /\ orders' \in 0..MaxOrders /\ since' \in SinceSet
  <2>1. /\ orders' = orders + 1 /\ orders < MaxOrders /\ onRadio' = order
        /\ since' \in {since, [since EXCEPT !.spoilt = TRUE]}
        /\ run' \in {run, [run EXCEPT !.queried = TRUE]}
        /\ UNCHANGED <<shownAt, lastRun, restored>>
    BY <1>10 DEF OrderSent
  <2>2. orders' \in 0..MaxOrders
    BY <1>1, <2>1, RunsAssumption
  <2>3. RunOrderTyped' /\ onRadio'.age \in Ages
    BY <1>9, <2>1 DEF RunOrderTyped, OrdersOf
  <2> QED
    BY <1>1, <1>5, <1>6, <2>1, <2>2, <2>3
<1>11. ASSUME NEW kind \in {"move", "stop"}, NEW order \in OrdersOf(kind), OrderHeard(order)
       PROVE  /\ shownAt' \in RunPositions \cup {NotKnown} /\ RunOrderTyped' /\ onRadio'.age \in Ages
              /\ run' \in RunSet /\ lastRun' \in Results /\ restored' \in Results
              /\ orders' \in 0..MaxOrders /\ since' \in SinceSet
  <2>1. /\ orders' = orders + 1 /\ orders < MaxOrders
        /\ run' = Started(order) /\ Follows(order)
        /\ shownAt' \in {shownAt} \cup (IF order.kind = "move" THEN {order.target} ELSE {})
        /\ UNCHANGED <<onRadio, lastRun, restored>>
    BY <1>11 DEF OrderHeard
  <2>2. orders' \in 0..MaxOrders
    BY <1>1, <2>1, RunsAssumption
  <2>3. order \in OrderTypes /\ order.kind = kind /\ order.age \in Ages
        /\ (order.kind = "move" => order.target \in RunPositions)
    BY <1>9
  <2>4. run' \in RunSet /\ since' \in SinceSet
    BY <2>1, <2>3, StartTyped DEF RunSet, SinceSet
  <2> QED
    BY <1>1, <1>8, <2>1, <2>2, <2>3, <2>4
<1>12. CASE OrderAcknowledged
  <2>1. /\ onRadio # NoOrder /\ onRadio' = NoOrder
        /\ run' = Started(onRadio) /\ Follows(onRadio)
        /\ shownAt' \in {shownAt} \cup (IF onRadio.kind = "move" THEN {onRadio.target} ELSE {})
        /\ UNCHANGED <<lastRun, restored, orders>>
    BY <1>12 DEF OrderAcknowledged
  <2>2. onRadio.kind # "none" /\ (onRadio.kind = "move" => onRadio.target \in RunPositions)
    <3>1. [onRadio EXCEPT !.age = 0] \in OrdersOf(onRadio.kind)
      BY <1>1, <2>1 DEF RunOrderTyped
    <3>2. [onRadio EXCEPT !.age = 0].target = onRadio.target
      BY <1>2 DEF OrderTypes
    <3> QED
      BY <1>2, <2>1, <3>1, <3>2 DEF OrdersOf
  <2>3. run' \in RunSet /\ since' \in SinceSet
    BY <1>1, <1>2, <2>1, <2>2, StartTyped DEF RunSet, SinceSet
  <2> QED
    BY <1>1, <1>7, <2>1, <2>2, <2>3
<1>13. CASE OrderLost \/ UNCHANGED RunVars
  <2>1. UNCHANGED <<shownAt, run, lastRun, restored, orders, since>> /\ onRadio' \in {NoOrder, onRadio}
    BY <1>13 DEF OrderLost, RunVars
  <2> QED
    BY <1>1, <1>7, <1>8, <2>1
<1>14. ASSUME NEW p \in RunPositions, RunReported(p)
       PROVE  /\ shownAt' \in RunPositions \cup {NotKnown} /\ RunOrderTyped' /\ onRadio'.age \in Ages
              /\ run' \in RunSet /\ lastRun' \in Results /\ restored' \in Results
              /\ orders' \in 0..MaxOrders /\ since' \in SinceSet
  <2>1. /\ shownAt' = p /\ run' \in {run, NoRun} /\ lastRun' \in {lastRun, Result(run)}
        /\ UNCHANGED <<onRadio, restored, orders, since>>
    BY <1>14 DEF RunReported
  <2>2. Result(run) \in Results
    BY <1>1, ResultTyped DEF RunSet
  <2> QED
    BY <1>1, <1>4, <1>8, <2>1, <2>2
<1>15. CASE RunTick
  <2>1. run.age \in Ages /\ since.age \in Ages
    BY <1>1 DEF RunSet, SinceSet
  <2>2. Older(run.age) \in Ages /\ Older(onRadio.age) \in Ages /\ Older(since.age) \in Ages
    BY <1>1, <2>1, OlderAge
  <2>3. [run EXCEPT !.age = Older(run.age)] \in RunSet
    BY <1>1, <2>2 DEF RunSet
  <2>4. [since EXCEPT !.age = IF since.spoilt THEN since.age ELSE Older(since.age)] \in SinceSet
    BY <1>1, <2>2 DEF SinceSet
  <2>5. /\ run' \in {run, [run EXCEPT !.age = Older(run.age)]}
        /\ since' = [since EXCEPT !.age = IF since.spoilt THEN since.age ELSE Older(since.age)]
        /\ UNCHANGED <<shownAt, lastRun, restored, orders>>
        /\ \/ onRadio = NoOrder /\ onRadio' = onRadio
           \/ onRadio # NoOrder /\ onRadio' = [onRadio EXCEPT !.age = Older(onRadio.age)]
    BY <1>15 DEF RunTick
  <2>6. RunOrderTyped' /\ onRadio'.age \in Ages
    <3>1. CASE onRadio' = onRadio
      BY <1>8, <3>1
    <3>2. CASE onRadio # NoOrder /\ onRadio' = [onRadio EXCEPT !.age = Older(onRadio.age)]
      <4>1. [onRadio EXCEPT !.age = 0] \in OrdersOf(onRadio.kind)
        BY <1>1, <3>2 DEF RunOrderTyped
      <4>2. /\ onRadio'.kind = onRadio.kind /\ onRadio'.age = Older(onRadio.age)
            /\ [onRadio' EXCEPT !.age = 0] = [onRadio EXCEPT !.age = 0]
        BY <1>2, <3>2 DEF OrderTypes
      <4> QED
        BY <2>2, <4>1, <4>2 DEF RunOrderTyped, OrdersOf
    <3> QED
      BY <2>5, <3>1, <3>2
  <2> QED
    BY <1>1, <2>3, <2>4, <2>5, <2>6
<1>16. CASE RunsForgotten \/ RunsRestarted
  <2>1. /\ shownAt' \in RunPositions \cup {NotKnown} /\ onRadio' = NoOrder
        /\ run' = NoRun /\ lastRun' = NoResult /\ restored' \in {NoResult, restored, lastRun}
        /\ since' = [since EXCEPT !.spoilt = TRUE] /\ orders' = orders
    BY <1>16 DEF RunsForgotten, RunsRestarted, ShownRun
  <2> QED
    BY <1>1, <1>4, <1>5, <1>7, <2>1
<1> QED
  BY <1>10, <1>11, <1>12, <1>13, <1>14, <1>15, <1>16 DEF RunsNext

\* For any positions, tolerance and timeout, the variables of the run times have
\* their types: a run keeps a position or none as its start and its target.
THEOREM RunTyping == RunsSpec => []RunTypeOK
  BY TimingInit, TimingStep, RunTypedInit, RunTypedStep, PTL DEF RunsSpec
================================================================================
