---------------------------- MODULE DeviceRegistry ----------------------------
(***************************************************************************)
(* How the coordinator comes to know one device and what about it: device  *)
(* lists at the start of each stream, single device documents, telegrams,  *)
(* the lookup of a device that reports before it is listed, the periodic   *)
(* refresh that answers late, and the removal by the user                  *)
(* (coordinator.py), with the entity a platform adds for it.               *)
(*                                                                         *)
(* The state of the device is a version number: the gateway's is reality,  *)
(* and every document carries the version of the moment it was made.  A    *)
(* GET is answered at any time between its request and its use.  Settings  *)
(* are SettingGuards' part and availability StreamLifecycle's.             *)
(***************************************************************************)
EXTENDS Integers, Sequences

CONSTANTS MaxVersion,   \* bound: changes of the device
          MaxRemovals2, \* bound: removals by the user
          MaxStream,    \* bound: documents on their way
          Lookups       \* the lookups that may be under way at a time

ASSUME RegistryAssumption ==
    MaxVersion \in Nat /\ MaxRemovals2 \in Nat /\ MaxStream \in Nat \ {0}

VARIABLES
    reality,      \* the gateway: [version, pairing] of the device
    stream,       \* documents on their way: [kind, version, pairing]
    known,        \* the device is in devices
    object,       \* which object it is: the objects created so far
    eeps,         \* its eeps are known
    state,        \* version of its channel state
    signal,       \* version of its dbm and last_seen
    refresh,      \* the periodic GET /devices: [phase, version, pairing]
    telegramSince,\* telegram_at >= requested_at of that refresh
    lookup,       \* _async_lookup_device, as refresh
    retryLater,   \* the device is in _unknown_devices, less than an hour ago
    removals,     \* how often the user removed the device
    entity,       \* the object the platform's entity holds, 0 without one
    told          \* history: version of the last telegram applied to the device

deviceVars   == <<known, object, eeps, state, signal, retryLater, entity>>
RegistryVars == <<reality, stream, deviceVars, refresh, telegramSince, lookup, removals, told>>

Pairings  == {"none", "bare", "full"}    \* bare: listed without EEPs as yet
Snapshots == [version : 0..MaxVersion, pairing : Pairings]
Idle      == [phase |-> "idle", version |-> 0, pairing |-> "none"]
Asked     == [phase |-> "asked", version |-> 0, pairing |-> "none"]

RegistryTypeOK ==
    /\ reality \in Snapshots
    /\ stream \in Seq([kind : {"list", "device", "telegram"}, version : 0..MaxVersion,
                       pairing : Pairings])
    /\ known \in BOOLEAN /\ eeps \in BOOLEAN
    /\ object \in 0..(MaxRemovals2 + 1)
    /\ state \in 0..MaxVersion
    /\ signal \in 0..MaxVersion
    /\ refresh.phase \in {"idle", "asked", "answered"}
    /\ telegramSince \in BOOLEAN
    /\ \A l \in Lookups : lookup[l].phase \in {"idle", "asked", "answered"}
    /\ retryLater \in BOOLEAN
    /\ removals \in 0..MaxRemovals2
    /\ entity \in 0..(MaxRemovals2 + 1)
    /\ told \in 0..MaxVersion

RegistryInit ==
    /\ reality \in [version : {0}, pairing : {"none", "full"}]
    /\ stream = <<>>
    /\ known = FALSE /\ eeps = FALSE
    /\ object = 0
    /\ state = 0
    /\ signal = 0
    /\ refresh = Idle
    /\ telegramSince = FALSE
    /\ lookup = [l \in Lookups |-> Idle]
    /\ retryLater = FALSE
    /\ removals = 0
    /\ entity = 0
    /\ told = 0

Made(kind)      == [kind |-> kind, version |-> reality.version, pairing |-> reality.pairing]
Answered(reply) == [phase |-> "answered", version |-> reality.version, pairing |-> reality.pairing]

--------------------------------------------------------------------------------
(* _apply_device_object and the platform's listener                         *)

\* was_known: announced again until its EEPs are known.
WasKnown == known /\ eeps

\* Variation: the listed object replaces the one in devices.
ObjectReplaced == object + 1

\* The object that entities and commands hold stays.
ObjectKept == IF known THEN object ELSE object + 1

\* Variation: a list always carries the newest signal.
SignalAsListed(made, keepSignal) == made.version

\* apply_listed_metadata: a missing or an older signal keeps the stored one.
SignalAfter(made, keepSignal) == IF known /\ keepSignal THEN signal ELSE made.version

\* async_add_lock and its like: one entity for a device whose EEPs tell its type.
EntityAfter(isFull) == IF ~WasKnown /\ isFull /\ entity = 0 THEN ObjectKept ELSE entity

ApplyObject(made, authoritative, keepSignal) ==
    IF made.pairing = "none" THEN UNCHANGED deviceVars
    ELSE /\ known' = TRUE
         /\ object' = ObjectKept
         /\ eeps' = (made.pairing = "full")
         /\ state' = IF authoritative \/ ~known THEN made.version ELSE state
         /\ signal' = SignalAfter(made, keepSignal)
         /\ retryLater' = FALSE
         /\ entity' = EntityAfter(made.pairing = "full")

--------------------------------------------------------------------------------
(* The gateway and its documents                                            *)

\* The device changes and reports it.
Reports ==
    /\ reality.pairing # "none" /\ reality.version < MaxVersion /\ Len(stream) < MaxStream
    /\ reality' = [reality EXCEPT !.version = @ + 1]
    /\ stream' = Append(stream, [Made("telegram") EXCEPT !.version = @ + 1])
    /\ UNCHANGED <<deviceVars, refresh, telegramSince, lookup, removals, told>>

\* The device is paired, or the gateway learns its EEPs; a document may tell.
Paired ==
    /\ reality.pairing # "full" /\ Len(stream) < MaxStream
    /\ \E to \in {"bare", "full"} \ {reality.pairing} :
          /\ reality' = [reality EXCEPT !.pairing = to]
          /\ stream' \in {stream, Append(stream, [Made("device") EXCEPT !.pairing = to])}
    /\ UNCHANGED <<deviceVars, refresh, telegramSince, lookup, removals, told>>

\* A stream starts with the list; what the one before had not delivered is lost.
StreamStarts ==
    /\ stream' = <<Made("list")>>
    /\ UNCHANGED <<reality, deviceVars, refresh, telegramSince, lookup, removals, told>>

\* _handle_document of a list or of one changed device.
ListDocument ==
    /\ stream # <<>> /\ Head(stream).kind \in {"list", "device"}
    /\ stream' = Tail(stream)
    /\ ApplyObject(Head(stream), TRUE, FALSE)
    /\ UNCHANGED <<reality, refresh, telegramSince, lookup, removals, told>>

\* _handle_telegram of a known device.
TelegramKnown ==
    /\ stream # <<>> /\ Head(stream).kind = "telegram" /\ known
    /\ stream' = Tail(stream)
    /\ state' = Head(stream).version
    /\ signal' = Head(stream).version
    /\ telegramSince' = TRUE
    /\ told' = Head(stream).version
    /\ UNCHANGED <<reality, known, object, eeps, refresh, lookup, retryLater, removals, entity>>

\* _lookup_unknown_device: not again within UNKNOWN_DEVICE_RETRY_SECONDS.
TelegramUnknown ==
    /\ stream # <<>> /\ Head(stream).kind = "telegram" /\ ~known
    /\ stream' = Tail(stream)
    /\ IF retryLater THEN UNCHANGED <<lookup, retryLater>>
       ELSE \E l \in Lookups : /\ lookup[l] = Idle
                               /\ lookup' = [lookup EXCEPT ![l] = Asked]
                               /\ retryLater' = TRUE
    /\ UNCHANGED <<reality, known, object, eeps, state, signal, refresh, telegramSince, removals,
                   entity, told>>

--------------------------------------------------------------------------------
(* The reads                                                                *)

LookupAnswered(l) ==
    /\ lookup[l] = Asked /\ reality.pairing # "none"
    /\ lookup' = [lookup EXCEPT ![l] = Answered(@)]
    /\ UNCHANGED <<reality, stream, deviceVars, refresh, telegramSince, removals, told>>

\* _async_lookup_device: whatever happened since, the answer is authoritative.
LookupApplied(l) ==
    /\ lookup[l].phase = "answered"
    /\ lookup' = [lookup EXCEPT ![l] = Idle]
    /\ ApplyObject(lookup[l], TRUE, FALSE)
    /\ UNCHANGED <<reality, stream, refresh, telegramSince, removals, told>>

LookupFails(l) ==
    /\ lookup[l] = Asked
    /\ lookup' = [lookup EXCEPT ![l] = Idle]
    /\ UNCHANGED <<reality, stream, deviceVars, refresh, telegramSince, removals, told>>

\* UNKNOWN_DEVICE_RETRY_SECONDS have passed.
RetryAllowed ==
    /\ retryLater
    /\ retryLater' = FALSE
    /\ UNCHANGED <<reality, stream, known, object, eeps, state, signal, refresh, telegramSince,
                   lookup, removals, entity, told>>

\* _async_refresh_device_list, requested_at.
RefreshAsked ==
    /\ refresh = Idle
    /\ refresh' = Asked
    /\ telegramSince' = FALSE
    /\ UNCHANGED <<reality, stream, deviceVars, lookup, removals, told>>

RefreshAnswered ==
    /\ refresh = Asked
    /\ refresh' = Answered(refresh)
    /\ UNCHANGED <<reality, stream, deviceVars, telegramSince, lookup, removals, told>>

\* Variation: the refresh only updates devices that are known.
RefreshedKnown ==
    /\ refresh.phase = "answered"
    /\ refresh' = Idle
    /\ IF known THEN ApplyObject(refresh, FALSE, telegramSince) ELSE UNCHANGED deviceVars
    /\ UNCHANGED <<reality, stream, telegramSince, lookup, removals, told>>

\* _async_refresh_device_list, the answer.
RefreshedList ==
    /\ refresh.phase = "answered"
    /\ refresh' = Idle
    /\ ApplyObject(refresh, FALSE, telegramSince)
    /\ UNCHANGED <<reality, stream, telegramSince, lookup, removals, told>>

RefreshFailed ==
    /\ refresh.phase = "asked"
    /\ refresh' = Idle
    /\ UNCHANGED <<reality, stream, deviceVars, telegramSince, lookup, removals, told>>

\* async_forget_device, with SIGNAL_DEVICE_REMOVED: the entities go, and the
\* platforms may add the device again.
ForgetDevice ==
    /\ known /\ removals < MaxRemovals2
    /\ removals' = removals + 1
    /\ known' = FALSE /\ eeps' = FALSE
    /\ entity' = 0
    /\ telegramSince' = FALSE
    /\ told' = 0
    /\ UNCHANGED <<reality, stream, object, state, signal, refresh, lookup, retryLater>>

--------------------------------------------------------------------------------
LookupStep(l) == LookupAnswered(l) \/ LookupApplied(l) \/ LookupFails(l)
RefreshStep   == RefreshAsked \/ RefreshAnswered \/ RefreshedList \/ RefreshFailed

RegistryNext ==
    \/ Reports \/ Paired \/ StreamStarts
    \/ ListDocument \/ TelegramKnown \/ TelegramUnknown
    \/ \E l \in Lookups : LookupStep(l)
    \/ RetryAllowed
    \/ RefreshStep
    \/ ForgetDevice

\* The refresh runs every 30 minutes, and the gateway answers in the end.
RegistryFairness ==
    /\ WF_RegistryVars(RefreshAsked)
    /\ SF_RegistryVars(RefreshAnswered)
    /\ WF_RegistryVars(RefreshedList)

RegistrySpec     == RegistryInit /\ [][RegistryNext]_RegistryVars
RegistryFairSpec == RegistrySpec /\ RegistryFairness

--------------------------------------------------------------------------------
(* Properties                                                               *)

\* A refresh that was requested before a telegram and is answered after it takes
\* neither the state nor the signal of the device back to what they were
\* before the telegram (_apply_device_object, keep_signal).
RefreshTakesNothingBack ==
    [][RefreshedList /\ known
         => state' = state /\ (signal >= told => signal' >= told)]_RegistryVars

\* The entity of a known device holds the object that telegrams and commands
\* update, however often the device was removed, looked up and listed in
\* between, and a device that was known before its EEPs were has one, too
\* (_apply_device_object, async_forget_device).
EntityHoldsDevice ==
    /\ entity \in {0} \cup (IF known THEN {object} ELSE {})
    /\ known /\ eeps => entity = object

\* Every device the gateway has paired is found in the end, even if its lookup
\* failed and no document tells of it (_async_periodic_refresh).
PairedIsFound == reality.pairing = "full" ~> known /\ eeps
================================================================================
