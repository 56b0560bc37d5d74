------------------------ MODULE CommandFeedbackProofs ------------------------
(***************************************************************************)
(* Proofs about CommandFeedback, for any fields, any commands of this and  *)
(* of other controllers, and any number of outages.                        *)
(***************************************************************************)
EXTENDS CommandFeedback, TLAPS

\* A timer, or a check that is wanted, has a field to verify.
WantedInv == timers > 0 \/ needed => pending # {}

\* A channel that is as the entity saw it had no report since the call was
\* sent: the channel's revision is at least as strict as the fields'.
FreshInv == \A c \in Commands : c \in fresh /\ stage[c] = "sending" => heard[c] = {}

FeedbackInv == WantedInv /\ FreshInv /\ AssumedIsPending

USE DEF Delays, Assumed, Telegrams, callVars, timerVars, factVars

--------------------------------------------------------------------------------
\* Every command sets some fields of the channel.
LEMMA SomeFields ==
    ASSUME NEW t \in Telegrams PROVE FieldsOf[t] # {} /\ FieldsOf[t] \subseteq Fields
PROOF
<1>1. FieldsOf[t] \in (SUBSET Fields) \ {{}}
    BY CommandsAssumption
<1> QED
    BY <1>1

\* Every kind of step keeps the types, whatever the fields and commands are.
LEMMA FeedbackValues == ValueTypes /\ [Next]_vars => ValueTypes'
PROOF
<1> SUFFICES ASSUME ValueTypes, [Next]_vars PROVE ValueTypes'
    OBVIOUS
<1> USE CommandsAssumption DEF ValueTypes
<1>1. ASSUME NEW c \in Commands, Call(c) PROVE ValueTypes'
    BY <1>1 DEF Call, Transmit, Leave
<1>2. ASSUME NEW c \in Commands, Served(c) PROVE ValueTypes'
    BY <1>2 DEF Served, Transmit, Leave
<1>3. ASSUME NEW c \in Commands, Acknowledged(c) PROVE ValueTypes'
    <2>1. FieldsOf[c] \subseteq Fields
        OBVIOUS
    <2> QED
        BY <1>3, <2>1 DEF Acknowledged, Schedule, Leave
<1>4. ASSUME NEW c \in Commands, NotDelivered(c) \/ Rejected(c) PROVE ValueTypes'
    BY <1>4 DEF NotDelivered, Rejected, DropChecks, Leave
<1>5. ASSUME NEW c \in Commands, EchoExpires(c) PROVE ValueTypes'
    BY <1>5 DEF EchoExpires
<1>6. CASE Timer
    BY <1>6 DEF Timer
<1>7. CASE CheckServed \/ CheckEnds
    BY <1>7 DEF CheckServed, CheckEnds, DropChecks
<1>8. ASSUME NEW fields \in SUBSET Fields, Report(fields) PROVE ValueTypes'
    BY <1>8 DEF Report
<1>9. ASSUME NEW t \in Telegrams, Outbound(t) PROVE ValueTypes'
    <2>1. FieldsOf[t] \subseteq Fields
        OBVIOUS
    <2> QED
        BY <1>9, <2>1 DEF Outbound, Schedule
<1>10. CASE DeviceList
    BY <1>10 DEF DeviceList
<1>11. CASE Outage
    BY <1>11 DEF Outage, DropChecks
<1>12. CASE UNCHANGED vars
    BY <1>12 DEF vars
<1> QED
    BY <1>1, <1>2, <1>3, <1>4, <1>5, <1>6, <1>7, <1>8, <1>9, <1>10, <1>11, <1>12
       DEF Next, Command, Answer, Check, Stream

\* A flag stays a truth value.
LEMMA FeedbackFlags == FlagTypes /\ [Next]_vars => FlagTypes'
PROOF
<1> SUFFICES ASSUME FlagTypes, [Next]_vars PROVE FlagTypes'
    OBVIOUS
<1> USE DEF FlagTypes
<1>1. CASE Command
    BY <1>1 DEF Command, Call, Served, Answer, Acknowledged, NotDelivered, Rejected,
                EchoExpires, Schedule, DropChecks
<1>2. CASE Check
    BY <1>2 DEF Check, Timer, CheckServed, CheckEnds, DropChecks
<1>3. CASE Stream
    BY <1>3 DEF Stream, Report, Outbound, DeviceList, Schedule
<1>4. CASE Outage
    BY <1>4 DEF Outage, DropChecks
<1>5. CASE UNCHANGED vars
    BY <1>5 DEF vars
<1> QED
    BY <1>1, <1>2, <1>3, <1>4, <1>5 DEF Next

\* Type correctness of the command and feedback state.
THEOREM FeedbackTypeCorrect == Spec => []TypeOK
PROOF
<1>1. Init => FlagTypes
    BY DEF Init, FlagTypes
<1>2. Init => ValueTypes
    BY CommandsAssumption DEF Init, ValueTypes
<1> QED
    BY <1>1, <1>2, FeedbackFlags, FeedbackValues, PTL DEF Spec, TypeOK

--------------------------------------------------------------------------------
\* A command's own answer: its estimate only touches fields that it schedules.
LEMMA AcknowledgedStep ==
    ASSUME NEW c \in Commands, ValueTypes, FeedbackInv, Acknowledged(c)
    PROVE  FeedbackInv'
PROOF
<1> USE CommandsAssumption DEF ValueTypes, FeedbackInv
<1> DEFINE unconfirmed == FieldsOf[c] \ heard[c]
<1>1. stage[c] = "sending" /\ FieldsOf[c] # {} /\ FieldsOf[c] \subseteq Fields
    BY SomeFields DEF Acknowledged
<1>2. c \in fresh => unconfirmed = FieldsOf[c]
    BY <1>1 DEF FreshInv
<1>3. FreshInv'
    BY DEF Acknowledged, Leave, FreshInv
<1>4. CASE unconfirmed = {}
    <2>1. UNCHANGED <<timerVars, factVars, source>>
        BY <1>1, <1>2, <1>4 DEF Acknowledged
    <2> QED
        BY <1>3, <2>1 DEF WantedInv, AssumedIsPending
<1>5. CASE unconfirmed # {}
    <2>1. /\ pending' = pending \cup unconfirmed
          /\ excused' = excused \ unconfirmed
        BY <1>5 DEF Acknowledged, Schedule
    <2>2. \A f \in Fields : source'[f] \in Assumed
                               => source[f] \in Assumed \/ f \in unconfirmed
        BY <1>2 DEF Acknowledged
    <2> QED
        BY <1>3, <1>5, <2>1, <2>2 DEF WantedInv, AssumedIsPending
<1> QED
    BY <1>4, <1>5

\* A report: the fields that stay assumed stay pending, the rest is confirmed.
LEMMA ReportStep ==
    ASSUME NEW fields \in SUBSET Fields, ValueTypes, FeedbackInv, Report(fields)
    PROVE  FeedbackInv'
PROOF
<1> USE DEF ValueTypes, FeedbackInv
<1>1. WantedInv'
    BY DEF Report, WantedInv
<1>2. FreshInv'
    BY DEF Report, FreshInv
<1>3. AssumedIsPending'
    BY DEF Report, AssumedIsPending
<1> QED
    BY <1>1, <1>2, <1>3

\* A telegram of another controller: what it makes shown, it also schedules.
LEMMA OutboundStep ==
    ASSUME NEW t \in Telegrams, ValueTypes, FeedbackInv, Outbound(t)
    PROVE  FeedbackInv'
PROOF
<1> USE CommandsAssumption DEF ValueTypes, FeedbackInv
<1>1. FieldsOf[t] # {} /\ FieldsOf[t] \subseteq Fields
    BY SomeFields
<1>2. FreshInv'
    BY DEF Outbound, FreshInv
<1>3. CASE UNCHANGED <<timerVars, source, factVars>>
    BY <1>2, <1>3 DEF WantedInv, AssumedIsPending
<1>4. CASE /\ Schedule(FieldsOf[t])
           /\ source' = [f \in Fields |-> IF f \in FieldsOf[t] THEN "foreign" ELSE source[f]]
    <2>1. WantedInv'
        BY <1>1, <1>4 DEF Schedule, WantedInv
    <2>2. AssumedIsPending'
        BY <1>1, <1>4 DEF Schedule, AssumedIsPending
    <2> QED
        BY <1>2, <2>1, <2>2
<1> QED
    BY <1>3, <1>4 DEF Outbound

\* The invariant is inductive.
LEMMA FeedbackStep == ValueTypes /\ FeedbackInv /\ [Next]_vars => FeedbackInv'
PROOF
<1> SUFFICES ASSUME ValueTypes, FeedbackInv, [Next]_vars PROVE FeedbackInv'
    OBVIOUS
<1> USE DEF ValueTypes, FeedbackInv, WantedInv, FreshInv, AssumedIsPending
<1>1. ASSUME NEW c \in Commands, Call(c) PROVE FeedbackInv'
    BY <1>1 DEF Call, Transmit, Leave
<1>2. ASSUME NEW c \in Commands, Served(c) PROVE FeedbackInv'
    BY <1>2 DEF Served, Transmit, Leave
<1>3. ASSUME NEW c \in Commands, NotDelivered(c) \/ Rejected(c) PROVE FeedbackInv'
    BY <1>3 DEF NotDelivered, Rejected, DropChecks, Leave
<1>4. ASSUME NEW c \in Commands, EchoExpires(c) PROVE FeedbackInv'
    BY <1>4 DEF EchoExpires
<1>5. CASE Timer
    BY <1>5 DEF Timer
<1>6. CASE CheckServed \/ CheckEnds
    BY <1>6 DEF CheckServed, CheckEnds, DropChecks
<1>7. CASE DeviceList
    BY <1>7 DEF DeviceList
<1>8. CASE Outage
    BY <1>8 DEF Outage, DropChecks
<1>9. CASE UNCHANGED vars
    BY <1>9 DEF vars
<1> QED
    BY <1>1, <1>2, <1>3, <1>4, <1>5, <1>6, <1>7, <1>8, <1>9,
       AcknowledgedStep, ReportStep, OutboundStep
       DEF Next, Command, Answer, Check, Stream

LEMMA FeedbackInvariant == Spec => [](ValueTypes /\ FeedbackInv)
PROOF
<1>1. Init => FeedbackInv
    BY DEF Init, FeedbackInv, WantedInv, FreshInv, AssumedIsPending
<1> QED
    BY <1>1, FeedbackTypeCorrect, FeedbackStep, PTL DEF Spec, TypeOK

\* What is only assumed is still to be confirmed, unless an error or an outage
\* dropped the checks (_schedule_reconciliation_queries).
THEOREM AssumedStaysPending == Spec => []AssumedIsPending
PROOF
<1>1. FeedbackInv => AssumedIsPending
    BY DEF FeedbackInv
<1> QED
    BY <1>1, FeedbackInvariant, PTL

--------------------------------------------------------------------------------
\* The radio is spent on a check only while a field is unconfirmed
\* (still_needed).
THEOREM OnlyNeededChecks == Spec => ChecksAreNeeded
PROOF
<1>1. ASSUME ValueTypes, FeedbackInv, [Next]_vars, check # "sending", check' = "sending"
      PROVE  pending # {}
    <2>1. Timer \/ CheckServed
        BY <1>1 DEF Next, Command, Answer, Stream, Check, Call, Served, Acknowledged,
                    NotDelivered, Rejected, EchoExpires, CheckEnds, Report, Outbound,
                    DeviceList, Outage, vars
    <2>2. timers > 0 \/ needed
        BY <1>1, <2>1 DEF Timer, CheckServed
    <2> QED
        BY <1>1, <2>2 DEF FeedbackInv, WantedInv
<1>2. ValueTypes /\ FeedbackInv /\ [Next]_vars
         => [check # "sending" /\ check' = "sending" => pending # {}]_vars
    BY <1>1
<1> QED
    BY <1>2, FeedbackInvariant, PTL DEF Spec, ChecksAreNeeded

\* An acknowledgement never replaces a report that came after the command was
\* sent by the entity's estimate (channel_state_unchanged).
THEOREM ReportsWin == Spec => ReportBeatsEstimate
PROOF
<1>1. ASSUME ValueTypes, FeedbackInv, NEW c \in Commands, Acknowledged(c), heard[c] # {}
      PROVE  \A f \in Fields : source'[f] = source[f]
    <2>1. c \notin fresh
        BY <1>1 DEF FeedbackInv, FreshInv, Acknowledged
    <2> QED
        BY <1>1, <2>1 DEF Acknowledged, ValueTypes
<1>2. ValueTypes /\ FeedbackInv /\ [Next]_vars
         => [\A c \in Commands : Acknowledged(c) /\ heard[c] # {}
                => \A f \in Fields : source'[f] = source[f]]_vars
    BY <1>1
<1> QED
    BY <1>2, FeedbackInvariant, PTL DEF Spec, ReportBeatsEstimate

\* Away: an outage takes back what was wanted, and no timer wants a check
\* before the gateway is back.
LEMMA AwayStep == NothingNeededWhileAway /\ [Next]_vars => NothingNeededWhileAway'
PROOF
<1> SUFFICES ASSUME NothingNeededWhileAway, [Next]_vars PROVE NothingNeededWhileAway'
    OBVIOUS
<1> USE DEF NothingNeededWhileAway
<1>1. CASE Command
    BY <1>1 DEF Command, Call, Served, Answer, Acknowledged, NotDelivered, Rejected,
                       EchoExpires, Schedule, DropChecks
<1>2. CASE Check
    BY <1>2 DEF Check, Timer, CheckServed, CheckEnds, DropChecks
<1>3. CASE Stream
    BY <1>3 DEF Stream, Report, Outbound, DeviceList
<1>4. CASE Outage
    BY <1>4 DEF Outage, DropChecks
<1>5. CASE UNCHANGED vars
    BY <1>5 DEF vars
<1> QED
    BY <1>1, <1>2, <1>3, <1>4, <1>5 DEF Next

\* While the gateway is unavailable no check is wanted (query_callback,
\* _cancel_background_work).
THEOREM NothingNeeded == Spec => []NothingNeededWhileAway
PROOF
<1>1. Init => NothingNeededWhileAway
    BY DEF Init, NothingNeededWhileAway
<1> QED
    BY <1>1, AwayStep, PTL DEF Spec
==============================================================================
