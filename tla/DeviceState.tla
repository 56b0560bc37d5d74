------------------------------ MODULE DeviceState ------------------------------
(***************************************************************************)
(* What a device report does to the channels of a device, and what the     *)
(* coordinator takes it to confirm: two readings of the same document, one *)
(* in enocean_device.py (update_from_telegram) and one in protocol.py      *)
(* (confirmed_fields_by_channel).  A confirmed field ends the wait for the *)
(* feedback of a command and cancels its check, so it must be shown.       *)
(*                                                                         *)
(* A value is named after what its parser makes of it.                     *)
(***************************************************************************)
EXTENDS Naturals, Sequences, SequencesExt

CONSTANT MaxFunctions   \* bound: functions of one report, its selector aside

ASSUME StateAssumption == MaxFunctions \in Nat

VARIABLES
    channels,  \* the state of each channel
    report,    \* the report being handled, or NoReport
    before,    \* history: the channels when it came
    confirmed  \* the <<channel, field>> pairs it was taken to confirm

StateVars == <<channels, report, before, confirmed>>

Channels   == {0, 1}
Selectors  == {"missing", "zero", "one", "malformed"}
NoReport   == [selector |-> "missing", functions |-> <<>>]
Unusable   == "unusable"   \* malformed, out of range or not listed

\* The functions a device sends; a value of another key is never one of these.
Values ==
    [ switch       |-> {"on", "off", Unusable},
      dimValue     |-> {"0", "40", Unusable},
      position     |-> {"40", Unusable},          \* "unknown" while it moves
      heaterMode   |-> {"on", "cooling", Unusable},
       humidity     |-> {"40", "notAvailable", Unusable},
      movementTime |-> {"40"},
      illumination |-> {"40", "notAvailable", Unusable},
      motion       |-> {"on", Unusable},
      button       |-> {"on"} ]

Functions ==
    UNION {[key : {k}, value : Values[k], selector : {"missing", "one", "malformed"}] :
              k \in DOMAIN Values}
StateReports == [selector : Selectors, functions : SeqOf(Functions, MaxFunctions)]

Attributes == {"isOn", "brightness", "position", "heaterMode", "humidity", "movementTime",
               "illuminance", "motion", "lastButton"}
Blank      == [a \in Attributes |-> "none"]
Warm       == [[a \in Attributes |-> "0"] EXCEPT !["lastButton"] = "none"]

\* What an attribute can show: a reading, or that there is none.
Readings   == {"none", "on", "off", "0", "40", "cooling"}
Channel(a, revision) == [attributes |-> a, revision |-> revision]

StateTypeOK ==
    /\ \A c \in Channels : /\ channels[c].attributes \in [Attributes -> Readings]
                           /\ channels[c].revision \in 0..MaxFunctions
    /\ DOMAIN channels = Channels /\ DOMAIN before = Channels
    /\ report \in [selector : Selectors, functions : Seq(Functions)]
    /\ confirmed \subseteq Channels \X DOMAIN Values

StateInit ==
    /\ \E a \in {Blank, Warm} : channels = [c \in Channels |-> Channel(a, 0)]
    /\ before = channels
    /\ report = NoReport
    /\ confirmed = {}

--------------------------------------------------------------------------------
(* Selectors                                                                *)

\* Variation: a malformed selector is channel zero.
SelectsAnyway(selector, default) ==
    CASE selector = "missing"   -> default
      [] selector = "one"       -> {1}
      [] selector \in {"zero", "malformed"} -> {0}

\* function_channel and channel_from_functions: none if malformed.
Selects(selector, default) ==
    CASE selector = "missing"   -> default
      [] selector = "zero"      -> {0}
      [] selector = "one"       -> {1}
      [] selector = "malformed" -> {}

\* The channels (one or none) a function of a report confirms.
ConfirmsIn(r, f) == Selects(f.selector, Selects(r.selector, {0}))

\* _parse_channel_id, the same for update_from_telegram.
Parses(selector, default) ==
    CASE selector = "missing"   -> default
      [] selector = "zero"      -> {0}
      [] selector = "one"       -> {1}
      [] selector = "malformed" -> {}

AppliesTo(r, f) == Parses(f.selector, Parses(r.selector, {0}))

--------------------------------------------------------------------------------
(* update_from_telegram                                                     *)

\* Three policies for a value that is no reading: keep the known one, keep it
\* but forget it for "notAvailable", or forget it.
Kept(old, value)    == IF value = Unusable THEN old ELSE value
Reading(old, value) == IF value = "notAvailable" THEN "none" ELSE Kept(old, value)
Detected(value)     == IF value = Unusable THEN "none" ELSE value

\* Buttons, outputs and blinds.
Actuated(a, f) ==
    CASE f.key = "button"   -> [a EXCEPT !["lastButton"] = f.value]
      [] f.key = "switch"   -> [a EXCEPT !["isOn"] = Kept(@, f.value)]
      [] f.key = "dimValue" /\ f.value # Unusable ->
            [a EXCEPT !["brightness"] = f.value, !["isOn"] = IF f.value = "0" THEN "off" ELSE "on"]
      [] f.key = "position" -> [a EXCEPT !["position"] = Kept(@, f.value)]
      [] OTHER -> a

\* Settings that are stored on the device.
Stored(a, f) ==
    IF f.key = "movementTime" THEN [a EXCEPT !["movementTime"] = Kept(@, f.value)] ELSE a

\* Meters, detectors and handles.
Sensed(a, f) ==
    CASE f.key = "illumination" -> [a EXCEPT !["illuminance"] = Reading(@, f.value)]
      [] f.key = "motion"       -> [a EXCEPT !["motion"] = Detected(f.value)]
      [] OTHER -> a

\* Heating and its faults.
Regulated(a, f) ==
    CASE f.key = "heaterMode" -> [a EXCEPT !["heaterMode"] = Kept(@, f.value)]
      [] f.key = "humidity"   -> [a EXCEPT !["humidity"] = Reading(@, f.value)]
      [] OTHER -> a

\* The sections have no key in common.
Updated(a, f) == Regulated(Sensed(Stored(Actuated(a, f), f), f), f)

\* A stored setting is no feedback: it leaves the revision.
IsSetting(f) == f.key = "movementTime"

AppliedOne(r, f, cs) ==
    [c \in Channels |->
        IF c \notin AppliesTo(r, f) THEN cs[c]
        ELSE Channel(Updated(cs[c].attributes, f),
                     IF IsSetting(f) THEN cs[c].revision ELSE cs[c].revision + 1)]

WithoutButtons(cs) ==
    [c \in Channels |-> [cs[c] EXCEPT !.attributes["lastButton"] = "none"]]

\* The functions are applied in their order: after[n] is the state after n of them.
Applied(r, cs) ==
    LET after[n \in 0..Len(r.functions)] ==
            IF n = 0 THEN WithoutButtons(cs) ELSE AppliedOne(r, r.functions[n], after[n - 1])
    IN  after[Len(r.functions)]

--------------------------------------------------------------------------------
(* confirmed_fields_by_channel                                              *)

\* Only a usable value of a commanded field does.
IsFeedback(f) ==
    \/ f.key \in {"switch", "dimValue", "position"} /\ f.value # Unusable
    \/ f.key = "heaterMode" /\ f.value \notin {"cooling", Unusable}

ConfirmedBy(r) ==
    UNION {LET f == r.functions[i] IN
           IF IsFeedback(f) THEN {<<c, f.key>> : c \in ConfirmsIn(r, f)} ELSE {} :
              i \in DOMAIN r.functions}

--------------------------------------------------------------------------------
(* Actions                                                                  *)

\* _handle_telegram of a "from" telegram, up to its dispatch.
ReportApplied ==
    /\ report = NoReport /\ channels = before
    /\ \E r \in StateReports :
          /\ r.functions # <<>>
          /\ report' = r
          /\ confirmed' = ConfirmedBy(r)
          /\ channels' = Applied(r, channels)
    /\ UNCHANGED before

\* The end of _handle_telegram: a button is not pressed again by the next dispatch.
ReportDispatched ==
    /\ report # NoReport
    /\ report' = NoReport
    /\ confirmed' = {}
    /\ channels' = WithoutButtons(channels)
    /\ UNCHANGED before

StateNext == ReportApplied \/ ReportDispatched

StateSpec == StateInit /\ [][StateNext]_StateVars

--------------------------------------------------------------------------------
(* Properties                                                               *)

\* The field of a channel that a function sets, and what it then shows.
FieldOf == [switch |-> "isOn", dimValue |-> "isOn", position |-> "position",
            heaterMode |-> "heaterMode"]
Shows(f) == IF f.key = "dimValue" THEN (IF f.value = "0" THEN "off" ELSE "on") ELSE f.value

\* The functions of a report that set a field of a channel.
Says(r, c, field) ==
    {n \in DOMAIN r.functions :
        LET f == r.functions[n]
        IN  /\ f.key \in DOMAIN FieldOf /\ FieldOf[f.key] = field
            /\ f.value # Unusable
            /\ AppliesTo(r, f) = {c}}

\* What a report is taken to confirm has been applied to that very channel: it
\* shows what the last usable function for the field said, and its revision has
\* moved, so that no estimate of an earlier snapshot covers it.
ConfirmedIsShown ==
    \A cf \in confirmed :
        LET c == cf[1]
            field == FieldOf[cf[2]]
            said == Says(report, c, field)
        IN  /\ \E last \in said : /\ \A n \in said : n <= last
                                   /\ channels[c].attributes[field] = Shows(report.functions[last])
            /\ channels[c].revision > before[c].revision
================================================================================
