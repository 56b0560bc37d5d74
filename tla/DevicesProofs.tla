----------------------------- MODULE DevicesProofs -----------------------------
(***************************************************************************)
(* The components that keep the state of single devices: the registry, the *)
(* door handle, the entities, the migration of outputs and the reported    *)
(* values, and all of them together with the covers (MCDevices).  For any  *)
(* number of changes, documents, requests, channels and functions.         *)
(***************************************************************************)
EXTENDS MCDevices, CoverProofs, Iteration

--------------------------------------------------------------------------------
(* The registry of devices                                                  *)

DocumentTypes == [kind : {"list", "device", "telegram"}, version : Nat, pairing : Pairings]
LookedUpTypes == [phase : {"idle", "asked", "answered"}, version : Nat, pairing : Pairings]

RegistryTypes ==
    /\ reality \in [version : Nat, pairing : Pairings]
    /\ stream \in Seq(DocumentTypes)
    /\ known \in BOOLEAN /\ eeps \in BOOLEAN /\ telegramSince \in BOOLEAN
    /\ object \in Nat
    /\ signal \in Nat /\ told \in Nat
    /\ refresh \in LookedUpTypes

\* Documents are no newer than the gateway, and a refresh that no telegram
\* followed is no older than the last telegram.
TimeInv ==
    /\ told <= reality.version
    /\ \A i \in 1..Len(stream) : stream[i].version <= reality.version
    /\ refresh.phase = "answered" /\ ~telegramSince => told <= refresh.version

LookupTypes == lookup \in [Lookups -> LookedUpTypes]

RegistryInv == RegistryTypes /\ LookupTypes /\ TimeInv /\ EntityHoldsDevice

LEMMA IdleTypes == Idle \in LookedUpTypes /\ Asked \in LookedUpTypes
  BY DEF Idle, Asked, LookedUpTypes, Pairings

LEMMA RegistryStarts == RegistryInit => RegistryInv
<1> SUFFICES ASSUME RegistryInit PROVE RegistryInv
  OBVIOUS
<1> USE DEF RegistryInit
<1>1. RegistryTypes
  <2>1. reality \in [version : Nat, pairing : Pairings]
    <3>1. {0} \subseteq Nat /\ {"none", "full"} \subseteq Pairings
      BY DEF Pairings
    <3> QED
      BY <3>1
  <2>2. stream \in Seq(DocumentTypes)
    OBVIOUS
  <2> QED
    BY <2>1, <2>2, IdleTypes DEF RegistryTypes
<1>2. LookupTypes
  BY IdleTypes DEF LookupTypes
<1>3. TimeInv
  BY DEF TimeInv, Idle
<1>4. EntityHoldsDevice
  BY DEF EntityHoldsDevice
<1> QED
  BY <1>1, <1>2, <1>3, <1>4 DEF RegistryInv

--------------------------------------------------------------------------------
(* Applying a list                                                          *)

\* The entity of a device that becomes known gets its new object, and one that
\* has an entity keeps the object it holds.
LEMMA AppliedHolds ==
    ASSUME RegistryTypes, EntityHoldsDevice,
           NEW made, made.pairing \in Pairings, made.version \in Nat,
           NEW authoritative \in BOOLEAN, NEW keep \in BOOLEAN,
           ApplyObject(made, authoritative, keep)
    PROVE  /\ known' \in BOOLEAN /\ eeps' \in BOOLEAN
           /\ object' \in Nat /\ signal' \in Nat
           /\ EntityHoldsDevice'
<1>1. CASE made.pairing = "none"
  BY <1>1 DEF ApplyObject, deviceVars, RegistryTypes, EntityHoldsDevice
<1>2. CASE made.pairing # "none"
  <2>1. /\ known' = TRUE /\ object' = ObjectKept
        /\ eeps' = (made.pairing = "full")
        /\ signal' = SignalAfter(made, keep)
        /\ entity' = EntityAfter(made.pairing = "full")
    BY <1>2 DEF ApplyObject
  <2>2. object' \in Nat /\ signal' \in Nat
    BY <2>1 DEF ObjectKept, SignalAfter, RegistryTypes
  <2>3. eeps' \in BOOLEAN
    BY <2>1
  <2>4. CASE ~known
    <3>1. entity = 0 /\ ~WasKnown
      BY <2>4 DEF EntityHoldsDevice, WasKnown
    <3>2. entity' = IF made.pairing = "full" THEN object' ELSE 0
      BY <2>1, <3>1 DEF EntityAfter
    <3> QED
      BY <2>1, <2>2, <2>3, <3>2 DEF EntityHoldsDevice
  <2>5. CASE known
    <3>1. object' = object
      BY <2>1, <2>5 DEF ObjectKept
    <3>2. entity \in {0, object}
      BY <2>5 DEF EntityHoldsDevice
    <3>3. entity' \in {entity, object}
      BY <2>1, <3>1 DEF EntityAfter
    <3>4. ASSUME made.pairing = "full" PROVE entity' = object
      <4>1. CASE eeps
        BY <2>1, <2>5, <4>1 DEF EntityAfter, WasKnown, EntityHoldsDevice
      <4>2. CASE ~eeps
        BY <2>1, <3>1, <3>2, <3>4, <4>2 DEF EntityAfter, WasKnown
      <4> QED
        BY <4>1, <4>2
    <3> QED
      BY <2>1, <2>2, <2>3, <3>1, <3>2, <3>3, <3>4 DEF EntityHoldsDevice
  <2> QED
    BY <2>4, <2>5 DEF RegistryTypes
<1> QED
  BY <1>1, <1>2

LEMMA SameEntity ==
    ASSUME EntityHoldsDevice, UNCHANGED <<known, object, eeps, entity>>
    PROVE  EntityHoldsDevice'
  BY DEF EntityHoldsDevice

--------------------------------------------------------------------------------
(* The gateway and its documents                                            *)

LEMMA GatewayKeeps ==
    ASSUME RegistryInv, Reports \/ Paired \/ StreamStarts
    PROVE  RegistryInv'
<1> USE DEF RegistryInv
<1>1. UNCHANGED <<deviceVars, refresh, telegramSince, lookup, told>>
  BY DEF Reports, Paired, StreamStarts
<1>2. /\ reality' \in [version : Nat, pairing : Pairings]
      /\ reality'.version >= reality.version
  <2>1. /\ reality \in [version : Nat, pairing : Pairings]
        /\ reality.version \in Nat /\ reality.version + 1 \in Nat
        /\ reality.version + 1 >= reality.version /\ reality.version >= reality.version
    BY DEF RegistryTypes
  <2>2. CASE Reports
    <3>1. reality' = [reality EXCEPT !.version = reality.version + 1]
      BY <2>2 DEF Reports
    <3> QED
      BY <2>1, <3>1
  <2>3. CASE Paired
    <3>1. PICK to \in {"bare", "full"} : reality' = [reality EXCEPT !.pairing = to]
      BY <2>3 DEF Paired
    <3> QED
      BY <2>1, <3>1 DEF Pairings
  <2>4. CASE StreamStarts
    BY <2>1, <2>4 DEF StreamStarts
  <2> QED
    BY <2>2, <2>3, <2>4
<1>3. \E kept \in {stream, <<>>} :
         stream' = kept \/ \E d \in DocumentTypes : /\ d.version <= reality'.version
                                                    /\ stream' = Append(kept, d)
  <2>1. CASE Reports
    <3> DEFINE d == [Made("telegram") EXCEPT !.version = @ + 1]
    <3>1. d = [kind |-> "telegram", version |-> reality.version + 1, pairing |-> reality.pairing]
      BY DEF Made
    <3>2. reality.version \in Nat /\ reality.pairing \in Pairings
      BY DEF RegistryTypes
    <3>3. reality'.version = reality.version + 1 /\ stream' = Append(stream, d)
      BY <2>1 DEF Reports, RegistryTypes
    <3>4. d \in DocumentTypes /\ d.version <= reality'.version
      BY <3>1, <3>2, <3>3 DEF DocumentTypes
    <3> QED
      BY <3>3, <3>4
  <2>2. CASE Paired
    <3>1. PICK to \in {"bare", "full"} :
             /\ reality' = [reality EXCEPT !.pairing = to]
             /\ stream' \in {stream, Append(stream, [Made("device") EXCEPT !.pairing = to])}
      BY <2>2 DEF Paired
    <3>2. [Made("device") EXCEPT !.pairing = to] \in DocumentTypes
      BY DEF Made, DocumentTypes, RegistryTypes, Pairings
    <3>3. [Made("device") EXCEPT !.pairing = to].version <= reality'.version
      BY <3>1 DEF Made, RegistryTypes
    <3> QED
      BY <3>1, <3>2, <3>3
  <2>3. CASE StreamStarts
    <3>1. Made("list") \in DocumentTypes /\ Made("list").version <= reality'.version
      BY <2>3 DEF Made, DocumentTypes, RegistryTypes, StreamStarts
    <3>2. stream' = Append(<<>>, Made("list"))
      BY <2>3 DEF StreamStarts
    <3> QED
      BY <3>1, <3>2
  <2> QED
    BY <2>1, <2>2, <2>3
<1>4. /\ stream' \in Seq(DocumentTypes)
      /\ \A i \in 1..Len(stream') : stream'[i].version <= reality'.version
  <2>1. PICK kept \in {stream, <<>>} :
           stream' = kept \/ \E d \in DocumentTypes : /\ d.version <= reality'.version
                                                      /\ stream' = Append(kept, d)
    BY <1>3
  <2>2. /\ kept \in Seq(DocumentTypes)
        /\ \A i \in 1..Len(kept) : kept[i].version <= reality'.version
    <3>1. \A i \in 1..Len(stream) : stream[i] \in DocumentTypes
      BY DEF RegistryTypes
    <3>2. \A i \in 1..Len(stream) : stream[i].version \in Nat
      BY <3>1 DEF DocumentTypes
    <3>3. reality.version \in Nat /\ reality'.version \in Nat
      BY <1>2 DEF RegistryTypes
    <3>4. \A i \in 1..Len(stream) : stream[i].version <= reality'.version
      BY <1>2, <3>2, <3>3 DEF TimeInv
    <3>5. CASE kept = stream
      BY <3>4, <3>5 DEF RegistryTypes
    <3>6. CASE kept = <<>>
      <4>1. Len(kept) = 0 /\ kept \in Seq(DocumentTypes)
        BY <3>6
      <4> QED
        BY <4>1
    <3> QED
      BY <2>1, <3>5, <3>6
  <2>3. CASE stream' = kept
    BY <2>2, <2>3
  <2>4. CASE stream' # kept
    <3>1. PICK d \in DocumentTypes : d.version <= reality'.version /\ stream' = Append(kept, d)
      BY <2>1, <2>4
    <3> QED
      BY <2>2, <3>1
  <2> QED
    BY <2>3, <2>4
<1>5. RegistryTypes' /\ LookupTypes' /\ EntityHoldsDevice'
  BY <1>1, <1>2, <1>4, SameEntity DEF RegistryTypes, LookupTypes, deviceVars
<1>6. TimeInv'
  BY <1>1, <1>2, <1>4 DEF TimeInv, RegistryTypes
<1> QED
  BY <1>5, <1>6

\* What is taken from the stream is one of its documents.
LEMMA TakenDocument ==
    ASSUME RegistryInv, stream # <<>>
    PROVE  /\ Head(stream) \in DocumentTypes /\ Head(stream).version <= reality.version
           /\ Tail(stream) \in Seq(DocumentTypes)
           /\ \A i \in 1..Len(Tail(stream)) : Tail(stream)[i].version <= reality.version
  BY DEF RegistryInv, RegistryTypes, TimeInv

LEMMA DocumentKeeps ==
    ASSUME RegistryInv, ListDocument \/ TelegramKnown \/ TelegramUnknown
    PROVE  RegistryInv'
<1> USE DEF RegistryInv
<1> DEFINE document == Head(stream)
<1>1. /\ document \in DocumentTypes /\ document.version <= reality.version
      /\ stream' = Tail(stream) /\ stream' \in Seq(DocumentTypes)
      /\ \A i \in 1..Len(stream') : stream'[i].version <= reality.version
      /\ UNCHANGED <<reality, refresh>>
  BY TakenDocument DEF ListDocument, TelegramKnown, TelegramUnknown
<1>2. document.version \in Nat /\ document.pairing \in Pairings
  BY <1>1 DEF DocumentTypes
<1>3. CASE ListDocument
  <2>1. ApplyObject(document, TRUE, FALSE) /\ UNCHANGED <<lookup, told, telegramSince>>
    BY <1>3 DEF ListDocument
  <2>2. /\ known' \in BOOLEAN /\ eeps' \in BOOLEAN
        /\ object' \in Nat /\ signal' \in Nat
        /\ EntityHoldsDevice'
    BY <1>2, <2>1, AppliedHolds
  <2> QED
    BY <1>1, <2>1, <2>2 DEF RegistryTypes, LookupTypes, TimeInv
<1>4. CASE TelegramKnown
  <2>1. /\ UNCHANGED <<known, object, eeps, entity, lookup>>
        /\ signal' = document.version /\ told' = document.version /\ telegramSince' = TRUE
    BY <1>4 DEF TelegramKnown
  <2> HIDE DEF document
  <2> QED
    BY <1>1, <1>2, <2>1, SameEntity DEF RegistryTypes, LookupTypes, TimeInv
<1>5. CASE TelegramUnknown
  <2>1. UNCHANGED <<known, object, eeps, signal, entity, told, telegramSince>>
    BY <1>5 DEF TelegramUnknown
  <2>2. LookupTypes'
    BY <1>5, IdleTypes DEF TelegramUnknown, LookupTypes
  <2> QED
    BY <1>1, <2>1, <2>2, SameEntity DEF RegistryTypes, TimeInv
<1> QED
  BY <1>3, <1>4, <1>5

--------------------------------------------------------------------------------
(* The reads and the removal                                                *)

LEMMA AnsweredTypes ==
    ASSUME RegistryTypes, NEW reply
    PROVE  /\ Answered(reply) \in LookedUpTypes
           /\ Answered(reply).phase = "answered" /\ Answered(reply).version = reality.version
  BY DEF RegistryTypes, Answered, LookedUpTypes

LEMMA LookupKeeps ==
    ASSUME RegistryInv, NEW l \in Lookups, LookupStep(l)
    PROVE  RegistryInv'
<1> USE DEF RegistryInv
<1>1. UNCHANGED <<reality, stream, refresh, telegramSince, told>>
  BY DEF LookupStep, LookupAnswered, LookupApplied, LookupFails
<1>2. LookupTypes'
  BY IdleTypes, AnsweredTypes
     DEF LookupStep, LookupAnswered, LookupApplied, LookupFails, LookupTypes
<1>3. CASE LookupApplied(l)
  <2>1. lookup[l] \in LookedUpTypes /\ ApplyObject(lookup[l], TRUE, FALSE)
    BY <1>3 DEF LookupApplied, LookupTypes
  <2>2. lookup[l].version \in Nat /\ lookup[l].pairing \in Pairings
    BY <2>1 DEF LookedUpTypes
  <2>3. /\ known' \in BOOLEAN /\ eeps' \in BOOLEAN
        /\ object' \in Nat /\ signal' \in Nat
        /\ EntityHoldsDevice'
    BY <2>1, <2>2, AppliedHolds
  <2> QED
    BY <1>1, <1>2, <2>3 DEF RegistryTypes, TimeInv
<1>4. CASE LookupAnswered(l) \/ LookupFails(l)
  <2>1. UNCHANGED <<known, object, eeps, signal, entity>>
    BY <1>4 DEF LookupAnswered, LookupFails, deviceVars
  <2> QED
    BY <1>1, <1>2, <2>1, SameEntity DEF RegistryTypes, TimeInv
<1> QED
  BY <1>3, <1>4 DEF LookupStep

LEMMA RefreshKeeps ==
    ASSUME RegistryInv, RefreshStep
    PROVE  RegistryInv'
<1> USE DEF RegistryInv
<1>1. UNCHANGED <<reality, stream, lookup, told>>
  BY DEF RefreshStep, RefreshAsked, RefreshAnswered, RefreshedList, RefreshFailed
<1>2. CASE RefreshedList
  <2>1. /\ refresh' = Idle /\ UNCHANGED telegramSince
        /\ ApplyObject(refresh, FALSE, telegramSince)
    BY <1>2 DEF RefreshedList
  <2>2. refresh.version \in Nat /\ refresh.pairing \in Pairings
    BY DEF RegistryTypes, LookedUpTypes
  <2>3. /\ known' \in BOOLEAN /\ eeps' \in BOOLEAN
        /\ object' \in Nat /\ signal' \in Nat
        /\ EntityHoldsDevice'
    <3>1. telegramSince \in BOOLEAN
      BY DEF RegistryTypes
    <3> QED
      BY <2>1, <2>2, <3>1, AppliedHolds
  <2> QED
    BY <1>1, <2>1, <2>3, IdleTypes DEF RegistryTypes, LookupTypes, TimeInv, Idle
<1>3. CASE RefreshAsked \/ RefreshFailed
  <2>1. /\ UNCHANGED <<known, object, eeps, signal, entity>>
        /\ refresh' \in {Idle, Asked} /\ telegramSince' \in {telegramSince, FALSE}
    BY <1>3 DEF RefreshAsked, RefreshFailed, deviceVars
  <2>2. refresh' \in LookedUpTypes /\ refresh'.phase # "answered"
    BY <2>1, IdleTypes DEF Idle, Asked
  <2> QED
    BY <1>1, <2>1, <2>2, SameEntity DEF RegistryTypes, LookupTypes, TimeInv
<1>4. CASE RefreshAnswered
  <2>1. UNCHANGED <<known, object, eeps, signal, entity, telegramSince>> /\ refresh' = Answered(refresh)
    BY <1>4 DEF RefreshAnswered, deviceVars
  <2>2. refresh' \in LookedUpTypes /\ refresh'.version = reality.version
    BY <2>1, AnsweredTypes
  <2> QED
    BY <1>1, <2>1, <2>2, SameEntity DEF RegistryTypes, LookupTypes, TimeInv
<1> QED
  BY <1>2, <1>3, <1>4 DEF RefreshStep

LEMMA ForgetKeeps ==
    ASSUME RegistryInv, ForgetDevice
    PROVE  RegistryInv'
<1> USE DEF RegistryInv, ForgetDevice
<1>1. RegistryTypes' /\ LookupTypes' /\ EntityHoldsDevice'
  BY DEF RegistryTypes, LookupTypes, EntityHoldsDevice
<1>2. refresh.version \in Nat /\ reality.version \in Nat
  BY DEF RegistryTypes, LookedUpTypes
<1>3. TimeInv'
  BY <1>2 DEF TimeInv
<1> QED
  BY <1>1, <1>3

LEMMA RestKeeps ==
    ASSUME RegistryInv, RetryAllowed \/ UNCHANGED RegistryVars
    PROVE  RegistryInv'
<1>1. UNCHANGED <<reality, stream, known, object, eeps, signal, refresh, telegramSince, lookup,
                  entity, told>>
  BY DEF RetryAllowed, RegistryVars, deviceVars
<1> QED
  BY <1>1 DEF RegistryInv, RegistryTypes, LookupTypes, TimeInv, EntityHoldsDevice

LEMMA RegistryStep == RegistryInv /\ [RegistryNext]_RegistryVars => RegistryInv'
  BY GatewayKeeps, DocumentKeeps, LookupKeeps, RefreshKeeps, ForgetKeeps, RestKeeps DEF RegistryNext

LEMMA RegistryHolds == RegistrySpec => []RegistryInv
  BY RegistryStarts, RegistryStep, PTL DEF RegistrySpec

\* The entity of a known device holds the object that telegrams update, however
\* often it was removed, looked up and listed (_apply_device_object).
THEOREM EntityIsCurrent == RegistrySpec => []EntityHoldsDevice
<1>1. RegistryInv => EntityHoldsDevice
  BY DEF RegistryInv
<1> QED
  BY <1>1, RegistryHolds, PTL

--------------------------------------------------------------------------------

LEMMA RefreshIsLate ==
    ASSUME RegistryInv, RefreshedList, known
    PROVE  state' = state /\ (signal >= told => signal' >= told)
<1>1. CASE refresh.pairing = "none"
  BY <1>1 DEF RefreshedList, ApplyObject, deviceVars
<1>2. CASE refresh.pairing # "none"
  <2>1. state' = state /\ signal' = SignalAfter(refresh, telegramSince)
    BY <1>2 DEF RefreshedList, ApplyObject
  <2>2. CASE telegramSince
    BY <2>1, <2>2 DEF SignalAfter
  <2>3. CASE ~telegramSince
    <3>1. signal' = refresh.version /\ told <= refresh.version
      BY <2>1, <2>3 DEF SignalAfter, RegistryInv, TimeInv, RefreshedList
    <3> QED
      BY <2>1, <3>1 DEF RegistryInv, RegistryTypes, LookedUpTypes
  <2> QED
    BY <2>2, <2>3
<1> QED
  BY <1>1, <1>2

\* A refresh that is answered late takes back nothing a telegram told
\* (_apply_device_object, keep_signal).
THEOREM LateRefresh == RegistrySpec => RefreshTakesNothingBack
<1>1. RegistryInv /\ [RegistryNext]_RegistryVars =>
         [RefreshedList /\ known
            => state' = state /\ (signal >= told => signal' >= told)]_RegistryVars
  BY RefreshIsLate
<1> QED
  BY <1>1, RegistryHolds, PTL DEF RegistrySpec, RefreshTakesNothingBack

--------------------------------------------------------------------------------
(* The types of the registry                                                *)

\* Nothing the coordinator keeps is newer than the gateway, and every removal
\* allows for one more object.
NotNewerInv ==
    /\ reality.version <= MaxVersion
    /\ refresh.version <= reality.version
    /\ \A l \in Lookups : lookup[l].version <= reality.version
    /\ state \in Nat /\ state <= reality.version /\ signal <= reality.version
    /\ retryLater \in BOOLEAN
    /\ removals \in 0..MaxRemovals2
    /\ object <= removals + (IF known THEN 1 ELSE 0)

\* The types of what the bounds are about.
LEMMA BoundTypes ==
    ASSUME RegistryInv
    PROVE  /\ reality.version \in Nat /\ refresh.version \in Nat
           /\ \A l \in Lookups : lookup[l].version \in Nat
           /\ object \in Nat /\ signal \in Nat /\ known \in BOOLEAN
  BY DEF RegistryInv, RegistryTypes, LookupTypes, LookedUpTypes

LEMMA BoundStarts == RegistryInit => NotNewerInv
<1> SUFFICES ASSUME RegistryInit PROVE NotNewerInv
  OBVIOUS
<1>1. reality.version = 0
  BY DEF RegistryInit
<1>2. refresh.version = 0 /\ \A l \in Lookups : lookup[l].version = 0
  BY DEF RegistryInit, Idle
<1>3. state = 0 /\ signal = 0 /\ object = 0 /\ removals = 0 /\ retryLater \in BOOLEAN
  BY DEF RegistryInit
<1>4. ~known
  BY DEF RegistryInit
<1>5. object <= removals + (IF known THEN 1 ELSE 0)
  BY <1>3, <1>4
<1> QED
  BY <1>1, <1>2, <1>3, <1>5, RegistryAssumption DEF NotNewerInv

LEMMA ApplyBounded ==
    ASSUME RegistryInv, NotNewerInv, NEW made, NEW a, NEW k, ApplyObject(made, a, k),
           made.version \in Nat, made.version <= reality.version
    PROVE  /\ state' \in Nat /\ state' <= reality.version /\ signal' <= reality.version
           /\ retryLater' \in BOOLEAN
           /\ object' <= removals + (IF known' THEN 1 ELSE 0)
<1>1. CASE made.pairing = "none"
  BY <1>1 DEF ApplyObject, deviceVars, NotNewerInv
<1>2. CASE made.pairing # "none"
  <2>1. /\ known' = TRUE /\ object' = ObjectKept /\ retryLater' = FALSE
        /\ state' \in {made.version, state} /\ signal' \in {made.version, signal}
    BY <1>2 DEF ApplyObject, SignalAfter
  <2>2. object' <= removals + 1
    BY <2>1, BoundTypes DEF ObjectKept, NotNewerInv
  <2> QED
    BY <2>1, <2>2 DEF NotNewerInv
<1> QED
  BY <1>1, <1>2

LEMMA BoundStep == RegistryInv /\ NotNewerInv /\ RegistryInv' /\ [RegistryNext]_RegistryVars => NotNewerInv'
<1> SUFFICES ASSUME RegistryInv, NotNewerInv, RegistryInv', [RegistryNext]_RegistryVars PROVE NotNewerInv'
  OBVIOUS
<1>1. /\ reality.version \in Nat /\ refresh.version \in Nat
      /\ \A l \in Lookups : lookup[l].version \in Nat
      /\ object \in Nat /\ signal \in Nat /\ known \in BOOLEAN
  BY BoundTypes
<1>2. /\ reality'.version \in Nat /\ refresh'.version \in Nat
      /\ object' \in Nat /\ signal' \in Nat /\ known' \in BOOLEAN
  BY DEF RegistryInv, RegistryTypes, LookupTypes, LookedUpTypes
<1>3. CASE Reports \/ Paired \/ StreamStarts
  <2>1. UNCHANGED <<deviceVars, refresh, lookup, removals>>
    BY <1>3 DEF Reports, Paired, StreamStarts
  <2>2. reality'.version >= reality.version /\ reality'.version <= MaxVersion
    <3>1. reality \in [version : Nat, pairing : Pairings] /\ MaxVersion \in Nat
      BY RegistryAssumption DEF RegistryInv, RegistryTypes
    <3>2. CASE Reports
      BY <3>1, <3>2, <1>1 DEF Reports, NotNewerInv
    <3>3. CASE Paired
      <4>1. PICK to : reality' = [reality EXCEPT !.pairing = to]
        BY <3>3 DEF Paired
      <4> QED
        BY <3>1, <4>1, <1>1 DEF NotNewerInv
    <3>4. CASE StreamStarts
      BY <3>1, <3>4, <1>1 DEF StreamStarts, NotNewerInv
    <3> QED
      BY <1>3, <3>2, <3>3, <3>4
  <2> QED
    BY <1>1, <1>2, <2>1, <2>2 DEF NotNewerInv, deviceVars
<1>4. CASE ListDocument
  <2> DEFINE document == Head(stream)
  <2>1. document.version \in Nat /\ document.version <= reality.version
    BY <1>4, TakenDocument DEF ListDocument, DocumentTypes
  <2>2. ApplyObject(document, TRUE, FALSE) /\ UNCHANGED <<reality, refresh, lookup, removals>>
    BY <1>4 DEF ListDocument
  <2> HIDE DEF document
  <2> QED
    BY <2>1, <2>2, ApplyBounded DEF NotNewerInv
<1>5. CASE TelegramKnown
  <2> DEFINE document == Head(stream)
  <2>1. document.version \in Nat /\ document.version <= reality.version
    BY <1>5, TakenDocument DEF TelegramKnown, DocumentTypes
  <2>2. /\ state' = document.version /\ signal' = document.version
        /\ UNCHANGED <<reality, known, object, refresh, lookup, retryLater, removals>>
    BY <1>5 DEF TelegramKnown
  <2> HIDE DEF document
  <2> QED
    BY <2>1, <2>2 DEF NotNewerInv
<1>6. CASE TelegramUnknown
  <2>1. /\ UNCHANGED <<reality, known, object, state, signal, refresh, removals>>
        /\ retryLater' \in BOOLEAN
        /\ lookup' = lookup \/ \E l \in Lookups : lookup' = [lookup EXCEPT ![l] = Asked]
    BY <1>6 DEF TelegramUnknown, NotNewerInv
  <2>2. \A l \in Lookups : lookup'[l].version <= reality.version
    BY <1>1, <2>1 DEF NotNewerInv, Asked, RegistryInv, LookupTypes
  <2> QED
    BY <2>1, <2>2 DEF NotNewerInv
<1>7. ASSUME NEW l \in Lookups, LookupStep(l) PROVE NotNewerInv'
  <2>1. UNCHANGED <<reality, refresh, removals>>
    BY <1>7 DEF LookupStep, LookupAnswered, LookupApplied, LookupFails
  <2>2. \E a \in {Answered(Asked), Answered(lookup[l]), Idle} : lookup' = [lookup EXCEPT ![l] = a]
    BY <1>7 DEF LookupStep, LookupAnswered, LookupApplied, LookupFails
  <2>3. \A m \in Lookups : lookup'[m].version <= reality.version
    BY <1>1, <2>2 DEF NotNewerInv, RegistryInv, LookupTypes, Answered, Idle
  <2>4. CASE LookupApplied(l)
    <3>1. ApplyObject(lookup[l], TRUE, FALSE)
      BY <2>4 DEF LookupApplied
    <3>2. lookup[l].version \in Nat /\ lookup[l].version <= reality.version
      BY <1>1 DEF NotNewerInv
    <3> QED
      BY <2>1, <2>3, <3>1, <3>2, ApplyBounded DEF NotNewerInv
  <2>5. CASE LookupAnswered(l) \/ LookupFails(l)
    <3>1. UNCHANGED deviceVars
      BY <2>5 DEF LookupAnswered, LookupFails
    <3> QED
      BY <2>1, <2>3, <3>1 DEF NotNewerInv, deviceVars
  <2> QED
    BY <1>7, <2>4, <2>5 DEF LookupStep
<1>8. CASE RetryAllowed \/ UNCHANGED RegistryVars
  <2>1. /\ UNCHANGED <<reality, known, object, state, signal, refresh, lookup, removals>>
        /\ retryLater' \in BOOLEAN
    BY <1>8 DEF RetryAllowed, RegistryVars, deviceVars, NotNewerInv
  <2> QED
    BY <2>1 DEF NotNewerInv
<1>9. CASE RefreshStep
  <2>1. UNCHANGED <<reality, lookup, removals>>
    BY <1>9 DEF RefreshStep, RefreshAsked, RefreshAnswered, RefreshedList, RefreshFailed
  <2>2. refresh'.version <= reality.version
    <3>1. refresh' \in {Idle, Asked, Answered(refresh)}
      BY <1>9 DEF RefreshStep, RefreshAsked, RefreshAnswered, RefreshedList, RefreshFailed
    <3>2. /\ Idle.version = 0 /\ Asked.version = 0 /\ Answered(refresh).version = reality.version
      BY DEF Idle, Asked, Answered
    <3> QED
      BY <1>1, <3>1, <3>2
  <2>3. CASE RefreshedList
    <3>1. ApplyObject(refresh, FALSE, telegramSince)
      BY <2>3 DEF RefreshedList
    <3>2. refresh.version <= reality.version
      BY DEF NotNewerInv
    <3> QED
      BY <1>1, <2>1, <2>2, <3>1, <3>2, ApplyBounded DEF NotNewerInv
  <2>4. CASE ~RefreshedList
    <3>1. UNCHANGED deviceVars
      BY <1>9, <2>4 DEF RefreshStep, RefreshAsked, RefreshAnswered, RefreshFailed
    <3> QED
      BY <2>1, <2>2, <3>1 DEF NotNewerInv, deviceVars
  <2> QED
    BY <2>3, <2>4
<1>10. CASE ForgetDevice
  <2>1. /\ UNCHANGED <<reality, object, state, signal, refresh, lookup, retryLater>>
        /\ removals' = removals + 1 /\ removals < MaxRemovals2 /\ known /\ known' = FALSE
    BY <1>10 DEF ForgetDevice
  <2> QED
    BY <1>1, <2>1, RegistryAssumption DEF NotNewerInv
<1> QED
  BY <1>3, <1>4, <1>5, <1>6, <1>7, <1>8, <1>9, <1>10 DEF RegistryNext

\* The bounds hold along a behaviour whose states are those of RegistryInv.
LEMMA BoundHolds == RegistrySpec => []NotNewerInv
  BY BoundStarts, BoundStep, RegistryHolds, PTL DEF RegistrySpec

LEMMA RegistryTyped == RegistryInv /\ NotNewerInv => RegistryTypeOK
<1> SUFFICES ASSUME RegistryInv, NotNewerInv PROVE RegistryTypeOK
  OBVIOUS
<1>1. /\ reality.version \in Nat /\ refresh.version \in Nat
      /\ object \in Nat /\ signal \in Nat /\ known \in BOOLEAN
  BY BoundTypes
<1>2. reality \in Snapshots
  BY RegistryAssumption DEF RegistryInv, RegistryTypes, NotNewerInv, Snapshots
<1>3. stream \in Seq([kind : {"list", "device", "telegram"}, version : 0..MaxVersion, pairing : Pairings])
  <2> DEFINE Bounded == [kind : {"list", "device", "telegram"}, version : 0..MaxVersion, pairing : Pairings]
             n == Len(stream)
  <2>1. stream \in Seq(DocumentTypes) /\ n \in Nat
    BY DEF RegistryInv, RegistryTypes
  <2>2. ASSUME NEW i \in 1..n PROVE stream[i] \in Bounded
    <3>1. stream[i] \in DocumentTypes /\ stream[i].version <= reality.version
      BY <2>1 DEF RegistryInv, TimeInv
    <3>2. stream[i].version \in 0..MaxVersion
      BY <1>1, <3>1, RegistryAssumption DEF NotNewerInv, DocumentTypes
    <3> QED
      BY <3>1, <3>2 DEF DocumentTypes
  <2>3. stream = [i \in 1..n |-> stream[i]]
    BY <2>1
  <2> HIDE DEF Bounded, n
  <2>4. [i \in 1..n |-> stream[i]] \in Seq(Bounded)
    BY <2>1, <2>2
  <2> QED
    BY <2>3, <2>4 DEF Bounded
<1>4. /\ refresh.phase \in {"idle", "asked", "answered"}
      /\ \A l \in Lookups : lookup[l].phase \in {"idle", "asked", "answered"}
  BY DEF RegistryInv, RegistryTypes, LookupTypes, LookedUpTypes
<1>5. /\ object \in 0..(MaxRemovals2 + 1) /\ entity \in 0..(MaxRemovals2 + 1)
      /\ state \in 0..MaxVersion /\ signal \in 0..MaxVersion /\ told \in 0..MaxVersion
  BY <1>1, RegistryAssumption DEF NotNewerInv, RegistryInv, EntityHoldsDevice, TimeInv, RegistryTypes
<1> QED
  BY <1>2, <1>3, <1>4, <1>5 DEF RegistryTypeOK, RegistryInv, RegistryTypes, NotNewerInv

\* For any number of changes, documents, lookups and removals, the variables of
\* the registry have their types: documents, states and signals stay within what the
\* gateway has been through, and objects within one more than the removals.
THEOREM RegistryTyping == RegistrySpec => []RegistryTypeOK
  BY RegistryHolds, BoundHolds, RegistryTyped, PTL

--------------------------------------------------------------------------------
(* The door handle                                                          *)

\* What of the type invariant the argument needs.
AnswerTypes ==
    /\ requests \in 0..MaxRequests
    /\ desired \in Answers \cup {"none"}
    /\ answerStage \in [Requests -> {"new", "settling", "queued", "sending", "accepted", "over"}]
    /\ answerOf \in [Requests -> Answers]
    /\ stored \in Answers
    /\ cutShort \in BOOLEAN

\* Requests are made in their order.
MadeInOrder == \A r \in Requests : answerStage[r] = "new" <=> r > requests

\* They settle in their order, and once one of them is sent, none before it is
\* left that could still reach the gateway.
SettledInOrder ==
    \A r, s \in Requests : s < r =>
        /\ answerStage[r] = "queued" => answerStage[s] # "settling"
        /\ answerStage[r] \in {"sending", "accepted"} => answerStage[s] \in {"accepted", "over"}

\* A last request that was cut short is over.
CutShortIsOver == cutShort => requests > 0 /\ answerStage[requests] = "over"

AnswerInv ==
    AnswerTypes /\ MadeInOrder /\ SettledInOrder /\ CutShortIsOver /\ LastAnswerWins

LEMMA LastIsRequest == AnswerTypes /\ requests > 0 => requests \in Requests
  BY RequestsAssumption DEF AnswerTypes, Requests

LEMMA AnswerInit == HandleInit => AnswerInv
<1> SUFFICES ASSUME HandleInit PROVE AnswerInv
  OBVIOUS
<1> USE DEF HandleInit
<1>1. AnswerTypes
  <2>1. requests \in 0..MaxRequests
    BY RequestsAssumption
  <2>2. answerOf \in [Requests -> Answers] /\ desired \in Answers \cup {"none"}
    BY DEF Answers
  <2> QED
    BY <2>1, <2>2 DEF AnswerTypes
<1>2. MadeInOrder /\ SettledInOrder
  BY DEF MadeInOrder, SettledInOrder, Requests
<1>3. CutShortIsOver /\ LastAnswerWins
  BY DEF CutShortIsOver, LastAnswerWins
<1> QED
  BY <1>1, <1>2, <1>3 DEF AnswerInv

\* A new request is the last one, and the radio does not know it yet.
LEMMA AskKeeps ==
    ASSUME AnswerInv, NEW answer \in Answers, Ask(answer)
    PROVE  AnswerInv'
<1> USE RequestsAssumption DEF AnswerInv, AnswerTypes, Requests
<1>1. /\ requests + 1 \in Requests /\ requests' = requests + 1
      /\ answerStage' = [answerStage EXCEPT ![requests + 1] = "settling"]
      /\ answerOf' = [answerOf EXCEPT ![requests + 1] = answer]
      /\ desired' = answer /\ cutShort' = FALSE /\ stored' = stored
  BY DEF Ask
<1>2. AnswerTypes'
  <2>1. /\ answerStage' \in
              [1..MaxRequests -> {"new", "settling", "queued", "sending", "accepted", "over"}]
        /\ answerOf' \in [1..MaxRequests -> Answers]
    BY <1>1
  <2>2. requests' \in 0..MaxRequests
    BY <1>1
  <2> QED
    BY <1>1, <2>1, <2>2
<1>3. MadeInOrder'
  BY <1>1 DEF MadeInOrder
<1>4. SettledInOrder'
  BY <1>1 DEF MadeInOrder, SettledInOrder
<1>5. CutShortIsOver' /\ LastAnswerWins'
  BY <1>1 DEF CutShortIsOver, LastAnswerWins, AnswerUnderway
<1> QED
  BY <1>2, <1>3, <1>4, <1>5

LEMMA SettledKeeps ==
    ASSUME AnswerInv, NEW r \in Requests, Settled(r)
    PROVE  AnswerInv'
<1> USE RequestsAssumption DEF AnswerInv, AnswerTypes, Requests
<1>1. /\ answerStage[r] = "settling"
      /\ \A s \in Requests : s < r => answerStage[s] # "settling"
      /\ answerStage' = [answerStage EXCEPT ![r] = IF r # requests THEN "over" ELSE "queued"]
      /\ UNCHANGED <<requests, desired, answerOf, stored, cutShort>>
  BY DEF Settled, EarlierThan, Replaced
<1>2. AnswerTypes' /\ MadeInOrder'
  BY <1>1 DEF MadeInOrder
<1>3. SettledInOrder'
  BY <1>1 DEF SettledInOrder
<1>4. CutShortIsOver' /\ LastAnswerWins'
  BY <1>1 DEF CutShortIsOver, LastAnswerWins, AnswerUnderway
<1> QED
  BY <1>2, <1>3, <1>4

LEMMA SendAnswerKeeps ==
    ASSUME AnswerInv, NEW r \in Requests, SendAnswer(r)
    PROVE  AnswerInv'
<1> USE RequestsAssumption DEF AnswerInv, AnswerTypes, Requests
<1>1. /\ answerStage[r] = "queued"
      /\ \A s \in Requests : s < r => answerStage[s] # "queued"
      /\ \A s \in Requests : answerStage[s] # "sending"
      /\ answerStage' = [answerStage EXCEPT ![r] = "sending"]
      /\ UNCHANGED <<requests, desired, answerOf, stored, cutShort>>
  BY DEF SendAnswer, EarlierThan, AnswerOnAir
<1>2. AnswerTypes' /\ MadeInOrder'
  BY <1>1 DEF MadeInOrder
<1>3. SettledInOrder'
  <2>1. \A s \in Requests : s < r => answerStage[s] \in {"accepted", "over"}
    BY <1>1 DEF SettledInOrder, MadeInOrder
  <2> QED
    BY <1>1, <2>1 DEF SettledInOrder
<1>4. CutShortIsOver' /\ LastAnswerWins'
  BY <1>1 DEF CutShortIsOver, LastAnswerWins, AnswerUnderway
<1> QED
  BY <1>2, <1>3, <1>4

\* What ends on the radio is the last request, or the gateway has not accepted
\* the last one yet.
LEMMA EndKeeps ==
    ASSUME AnswerInv, NEW r \in Requests, NEW stage \in {"accepted", "over"},
           answerStage[r] \in {"queued", "sending"},
           answerStage' = [answerStage EXCEPT ![r] = stage],
           desired' = DesiredAfter(r),
           stored' \in {stored, answerOf[r]},
           stored' # stored => answerStage[r] = "sending",
           stage = "accepted" => answerStage[r] = "sending" /\ stored' = answerOf[r],
           UNCHANGED <<requests, answerOf, cutShort>>
    PROVE  AnswerInv'
<1> USE RequestsAssumption DEF AnswerInv, AnswerTypes, Requests
<1>1. r <= requests
  BY DEF MadeInOrder
<1>2. AnswerTypes' /\ MadeInOrder'
  BY DEF MadeInOrder, DesiredAfter
<1>3. SettledInOrder'
  BY DEF SettledInOrder
<1>4. CutShortIsOver'
  BY DEF CutShortIsOver
<1>5. requests' > 0 /\ answerStage'[requests'] = "accepted" => stored' = answerOf'[requests']
  <2>1. CASE r = requests
    BY <2>1
  <2>2. CASE r # requests
    BY <1>1, <2>2 DEF SettledInOrder, LastAnswerWins
  <2> QED
    BY <2>1, <2>2
<1>6. desired' =
        IF requests' > 0 /\ (\/ answerStage'[requests'] \in {"settling", "queued", "sending"}
                             \/ cutShort')
        THEN answerOf'[requests'] ELSE "none"
  <2>1. CASE r = requests
    <3>1. desired' = "none" /\ answerStage'[requests'] \notin {"settling", "queued", "sending"}
      BY <2>1 DEF DesiredAfter
    <3>2. ~cutShort'
      BY <2>1 DEF CutShortIsOver
    <3> QED
      BY <3>1, <3>2
  <2>2. CASE r # requests
    BY <1>1, <2>2 DEF DesiredAfter, LastAnswerWins, AnswerUnderway
  <2> QED
    BY <2>1, <2>2
<1> QED
  BY <1>2, <1>3, <1>4, <1>5, <1>6 DEF LastAnswerWins, AnswerUnderway

LEMMA CancelKeeps ==
    ASSUME AnswerInv, NEW r \in Requests, CancelledWhileSettling(r)
    PROVE  AnswerInv'
<1> USE RequestsAssumption DEF AnswerInv, AnswerTypes, Requests
<1>1. /\ answerStage[r] = "settling"
      /\ answerStage' = [answerStage EXCEPT ![r] = "over"]
      /\ cutShort' = (cutShort \/ r = requests)
      /\ UNCHANGED <<requests, desired, answerOf, stored>>
  BY DEF CancelledWhileSettling
<1>2. AnswerTypes' /\ MadeInOrder'
  BY <1>1 DEF MadeInOrder
<1>3. SettledInOrder'
  BY <1>1 DEF SettledInOrder
<1>4. CASE r = requests
  <2>1. cutShort'
    BY <1>1, <1>4, Zenon
  <2>2. answerStage'[requests'] = "over" /\ requests > 0
    BY <1>1, <1>4
  <2>3. desired = answerOf[requests]
    BY <1>1, <1>4, <2>2 DEF LastAnswerWins, AnswerUnderway
  <2> QED
    BY <1>1, <1>2, <1>3, <2>1, <2>2, <2>3 DEF CutShortIsOver, LastAnswerWins, AnswerUnderway
<1>5. CASE r # requests
  <2>1. cutShort' = cutShort
    <3>1. r = requests \/ cutShort' = cutShort
      BY <1>1, Zenon
    <3> QED
      BY <1>5, <3>1
  <2> QED
    BY <1>1, <1>2, <1>3, <1>5, <2>1 DEF CutShortIsOver, LastAnswerWins, AnswerUnderway
<1> QED
  BY <1>4, <1>5

LEMMA AnswerStep == AnswerInv /\ [HandleNext]_HandleVars => AnswerInv'
<1> SUFFICES ASSUME AnswerInv, [HandleNext]_HandleVars PROVE AnswerInv'
  OBVIOUS
<1>1. ASSUME NEW answer \in Answers, Ask(answer) PROVE AnswerInv'
  BY <1>1, AskKeeps
<1>2. ASSUME NEW r \in Requests, Settled(r) PROVE AnswerInv'
  BY <1>2, SettledKeeps
<1>3. ASSUME NEW r \in Requests, SendAnswer(r) PROVE AnswerInv'
  BY <1>3, SendAnswerKeeps
<1>4. ASSUME NEW r \in Requests, AnswerAccepted(r) PROVE AnswerInv'
  BY <1>4, EndKeeps DEF AnswerAccepted
<1>5. ASSUME NEW r \in Requests, AnswerFails(r) PROVE AnswerInv'
  BY <1>5, EndKeeps DEF AnswerFails
<1>6. ASSUME NEW r \in Requests, CancelledWhileSettling(r) PROVE AnswerInv'
  BY <1>6, CancelKeeps
<1>7. ASSUME UNCHANGED <<requests, desired, answerStage, answerOf, stored, cutShort>>
      PROVE  AnswerInv'
  BY <1>7 DEF AnswerInv, AnswerTypes, MadeInOrder, SettledInOrder, CutShortIsOver, LastAnswerWins,
              AnswerUnderway
<1> QED
  BY <1>1, <1>2, <1>3, <1>4, <1>5, <1>6, <1>7
  DEF HandleNext, HandleVars, HandleReports, HandleFetches

\* The gateway keeps the answer of the last accepted request, and the entity shows
\* what is under way (_async_answer).
THEOREM LastAnswer == HandleSpec => []LastAnswerWins
<1>1. AnswerInv => LastAnswerWins
  BY DEF AnswerInv
<1> QED
  BY <1>1, AnswerInit, AnswerStep, PTL DEF HandleSpec

--------------------------------------------------------------------------------
(* The types of the door handle                                             *)

\* The rest of the type invariant.
RestTypes ==
    /\ current \subseteq Requests
    /\ toFetch \in BOOLEAN
    /\ unlockAllowed \in Answers \cup {"none"}

LEMMA HandleTypedInit == HandleInit => RestTypes
  BY DEF HandleInit, RestTypes, Answers

LEMMA HandleTypedStep == AnswerInv /\ RestTypes /\ [HandleNext]_HandleVars => RestTypes'
<1> SUFFICES ASSUME AnswerInv, RestTypes, [HandleNext]_HandleVars PROVE RestTypes'
  OBVIOUS
<1> USE DEF RestTypes
<1>1. answerOf \in [Requests -> Answers]
  BY DEF AnswerInv, AnswerTypes
<1>2. ASSUME NEW answer \in Answers, Ask(answer) \/ HandleFetches(answer) PROVE RestTypes'
  BY <1>2 DEF Ask, HandleFetches
<1>3. ASSUME NEW r \in Requests, Settled(r) \/ SendAnswer(r) \/ CancelledWhileSettling(r) PROVE RestTypes'
  BY <1>3 DEF Settled, SendAnswer, CancelledWhileSettling
<1>4. ASSUME NEW r \in Requests, AnswerAccepted(r) \/ AnswerFails(r) PROVE RestTypes'
  <2>1. answerOf[r] \in Answers
    BY <1>1
  <2> QED
    BY <1>4, <2>1 DEF AnswerAccepted, AnswerFails
<1>5. CASE HandleReports \/ UNCHANGED HandleVars
  BY <1>5 DEF HandleReports, HandleVars
<1> QED
  BY <1>2, <1>3, <1>4, <1>5 DEF HandleNext

LEMMA HandleTyped == AnswerInv /\ RestTypes => HandleTypeOK
  BY DEF AnswerInv, AnswerTypes, RestTypes, HandleTypeOK

\* For any number of requests, the variables of the handle have their types
\* (_async_answer).
THEOREM HandleTyping == HandleSpec => []HandleTypeOK
  BY AnswerInit, AnswerStep, HandleTypedInit, HandleTypedStep, HandleTyped, PTL DEF HandleSpec

--------------------------------------------------------------------------------
(* The entities of a device                                                 *)

\* The types of what the platforms, Home Assistant and the removals keep.
PlatformTypes ==
    /\ kind \in Kinds
    /\ loaded \in BOOLEAN /\ listed \in BOOLEAN
    /\ learned \subseteq {"links", "channel"}
    /\ waiting \in BOOLEAN /\ listening \in BOOLEAN /\ lockAdded \in BOOLEAN
    /\ added \subseteq Sensors

HassTypes ==
    /\ registered \subseteq Ids
    /\ ha \in [Ids -> {"none", "live", "leaving"}]
    /\ spoiled \subseteq Ids

BinaryTypes ==
    /\ tracked \subseteq Binary /\ finishing \subseteq Binary
    /\ removing \in BOOLEAN /\ rediscovered \in BOOLEAN

CountTypes == deletions \in 0..MaxDeletions /\ reloads \in 0..MaxReloads

\* Every binary sensor that Home Assistant has is tracked, and none is live while
\* the removal of its device is finished.
BinaryInv ==
    /\ \A i \in Binary : ha[i] # "none" => i \in tracked
    /\ removing => \A i \in Binary : ha[i] # "live"

\* Nothing is remembered of a device that is gone.
ForgottenInv == ~listed => added = {} /\ ~lockAdded

\* A device that may still teach the platforms something has a listener.
ListenInv ==
    /\ listed => loaded
    /\ listed /\ kind = "clamp" => listening
    /\ listed /\ kind \in Actuators /\ "links" \notin learned => waiting

\* What the platform remembers as added is there, unless it came too early.
AddedInv == listed => \A i \in added : ha[i] = "live" \/ i \in spoiled

PlatformsInv ==
    /\ PlatformTypes /\ HassTypes /\ BinaryTypes /\ CountTypes
    /\ BinaryInv /\ ForgottenInv /\ ListenInv /\ AddedInv
    /\ BinaryNeverSpoiled /\ SensorsFollowDevice

\* The kinds of entities do not overlap.
LEMMA IdsApart ==
    /\ Binary \subseteq Ids /\ Sensors \subseteq Ids /\ Ordinary \subseteq Ids /\ "autolock" \in Ids
    /\ Binary \cap Sensors = {} /\ Binary \cap Ordinary = {} /\ "autolock" \notin Binary
    /\ Disabled \subseteq Binary /\ "channel" \in Sensors /\ "links" \in Sensors
  BY DEF Binary, Sensors, Ordinary, Ids, Disabled

\* What a device is offered is of the kind of its platform.
LEMMA OfferedIds ==
    /\ BinaryFor \subseteq Binary
    /\ \A what : WantedSensors(what) \subseteq Sensors
    /\ LockFor \subseteq {"autolock"}
    /\ NewPlain \subseteq Ordinary
<1>1. BinaryFor \subseteq Binary
  BY DEF BinaryFor, Offered, Binary
<1>2. ASSUME NEW what PROVE WantedSensors(what) \subseteq Sensors
  BY DEF WantedSensors, ReadingSensors, HandleSensors, RunSensors, DeviceSensors, LinkSensors,
         ChannelSensors, Offered, Sensors
<1>3. LockFor \subseteq {"autolock"}
  BY DEF LockFor, Offered
<1>4. NewPlain \subseteq Ordinary
  BY DEF NewPlain, NewLight, NewSwitch, NewCover, NewClimate, NewEvent, NewNumbers, NewSelects,
         NewButtons, Offered, Ordinary
<1> QED
  BY <1>1, <1>2, <1>3, <1>4

LEMMA SubmittedEffect ==
    ASSUME HassTypes, NEW ids \in SUBSET Ids, Submitted(ids)
    PROVE  /\ HassTypes' /\ registered' = registered \cup ids /\ spoiled \subseteq spoiled'
           /\ \A i \in Ids :
                 /\ ha[i] # "none" => ha'[i] = ha[i]
                 /\ i \notin ids => ha'[i] = ha[i] /\ (i \in spoiled' => i \in spoiled)
                 /\ i \in ids /\ ha[i] = "none" => (i \in spoiled' => i \in spoiled)
                 /\ i \in ids \ Disabled => ha'[i] = "live" \/ i \in spoiled'
<1>1. /\ ha' = [i \in Ids |-> IF i \in ids \ Disabled /\ ha[i] = "none" THEN "live" ELSE ha[i]]
      /\ spoiled' = spoiled \cup {i \in ids : ha[i] # "none"}
      /\ registered' = registered \cup ids
  BY DEF Submitted
<1>2. \A i \in Ids : ha'[i] = IF i \in ids \ Disabled /\ ha[i] = "none" THEN "live" ELSE ha[i]
  BY <1>1
<1>3. HassTypes'
  BY <1>1, <1>2 DEF HassTypes
<1> QED
  BY <1>1, <1>2, <1>3

LEMMA PlatformsStart == PlatformsInit => PlatformsInv
<1> SUFFICES ASSUME PlatformsInit PROVE PlatformsInv
  OBVIOUS
<1> USE DEF PlatformsInit
<1>1. PlatformTypes /\ HassTypes /\ BinaryTypes
  BY DEF PlatformTypes, HassTypes, BinaryTypes
<1>2. CountTypes
  BY PlatformsAssumption DEF CountTypes
<1>3. BinaryInv /\ BinaryNeverSpoiled /\ SensorsFollowDevice
  BY IdsApart DEF BinaryInv, BinaryNeverSpoiled, SensorsFollowDevice
<1> QED
  BY <1>1, <1>2, <1>3 DEF PlatformsInv, ForgottenInv, ListenInv, AddedInv

\* What a known device wants is what it has learned, and a channel that it had.
LEMMA WantedWhen ==
    ASSUME NEW what, NEW i \in WantedSensors(what)
    PROVE  \/ i \in {"typed", "signal"}
           \/ i = "links" /\ "links" \in what /\ kind \in Actuators
           \/ i = "channel" /\ ChannelKnown(what) /\ kind = "clamp"
  BY DEF WantedSensors, ReadingSensors, HandleSensors, RunSensors, DeviceSensors, LinkSensors,
         ChannelSensors, Offered

\* A device that was not known gets everything it wants.
LEMMA DiscoveryKeeps ==
    ASSUME PlatformsInv, ~listed, NEW what \in SUBSET {"links", "channel"},
           Discovered(what), learned' = what, listed' = TRUE, loaded' = TRUE,
           UNCHANGED <<kind, deletions, reloads>>
    PROVE  PlatformsInv'
<1> USE DEF PlatformsInv
<1> DEFINE ids == NewBinary \cup (WantedSensors(what) \ added) \cup NewLock \cup NewPlain
<1>1. /\ added = {} /\ ~lockAdded /\ NewLock = LockFor
  BY DEF ForgottenInv, NewLock
<1>2. /\ Submitted(ids)
      /\ tracked' = tracked \cup NewBinary
      /\ rediscovered' = (rediscovered \/ removing)
      /\ added' = added \cup WantedSensors(what)
      /\ waiting' = ("links" \notin what /\ (waiting \/ kind \in Actuators))
      /\ listening' = (listening \/ kind = "clamp")
      /\ lockAdded' = (lockAdded \/ kind = "handle")
      /\ UNCHANGED <<removing, finishing>>
  BY DEF Discovered
<1>3. NewBinary \subseteq BinaryFor /\ (removing => NewBinary = {}) /\ NewBinary \cap tracked = {}
  BY DEF NewBinary
<1>4. /\ ids \in SUBSET Ids
      /\ \A i \in ids \cap Binary : i \in NewBinary
      /\ \A i \in WantedSensors(what) \cup LockFor \cup NewPlain : i \in ids \ Disabled
  BY <1>1, <1>3, OfferedIds, IdsApart
<1> HIDE DEF ids
<1>5. /\ HassTypes' /\ registered' = registered \cup ids /\ spoiled \subseteq spoiled'
      /\ \A i \in Ids :
            /\ ha[i] # "none" => ha'[i] = ha[i]
            /\ i \notin ids => ha'[i] = ha[i] /\ (i \in spoiled' => i \in spoiled)
            /\ i \in ids /\ ha[i] = "none" => (i \in spoiled' => i \in spoiled)
            /\ i \in ids \ Disabled => ha'[i] = "live" \/ i \in spoiled'
  BY <1>2, <1>4, SubmittedEffect
<1>6. PlatformTypes' /\ BinaryTypes' /\ CountTypes'
  BY <1>2, <1>3, OfferedIds DEF PlatformTypes, BinaryTypes, CountTypes
<1>7. \A i \in Binary \cap ids : ha[i] = "none" /\ ~removing /\ i \in tracked'
  BY <1>2, <1>3, <1>4 DEF BinaryInv
<1>8. BinaryInv'
  BY <1>2, <1>5, <1>7, IdsApart DEF BinaryInv
<1>9. BinaryNeverSpoiled'
  BY <1>5, <1>7, IdsApart DEF BinaryNeverSpoiled
<1>10. ForgottenInv' /\ ListenInv'
  BY <1>2 DEF ForgottenInv, ListenInv
<1>11. AddedInv'
  BY <1>1, <1>2, <1>4, <1>5, OfferedIds, IdsApart DEF AddedInv
<1>12. SensorsFollowDevice'
  <2>1. LockFor' = LockFor /\ NewPlain' = NewPlain
    BY DEF LockFor, NewPlain, NewLight, NewSwitch, NewCover, NewClimate, NewEvent, NewNumbers, NewSelects,
           NewButtons, Offered
  <2>2. "channel" \in registered' => "channel" \in registered \/ ChannelKnown(what)
    <3>1. "channel" \in ids => "channel" \in WantedSensors(what)
      BY <1>1, OfferedIds, IdsApart DEF ids, NewBinary, Binary, Sensors, Ordinary
    <3>2. "channel" \in WantedSensors(what) => ChannelKnown(what)
      BY WantedWhen
    <3> QED
      BY <1>5, <3>1, <3>2
  <2>3. WantedSensors(what)' = WantedSensors(what)
    <3>1. ChannelKnown(what)' = ChannelKnown(what)
      BY <1>5, <2>2 DEF ChannelKnown
    <3> QED
      BY <3>1 DEF WantedSensors, ReadingSensors, HandleSensors, RunSensors, DeviceSensors, LinkSensors,
                  ChannelSensors, Offered
  <2> QED
    BY <1>4, <1>5, <2>1, <2>3 DEF SensorsFollowDevice
<1> QED
  BY <1>5, <1>6, <1>8, <1>9, <1>10, <1>11, <1>12

LEMMA LearnsKeeps ==
    ASSUME PlatformsInv, NEW what \in {"links", "channel"}, Learns(what)
    PROVE  PlatformsInv'
<1> USE DEF PlatformsInv
<1> DEFINE now   == learned \cup {what}
           wants == (IF waiting /\ "links" \in now THEN WantedSensors(now) ELSE {})
                    \cup (IF listening THEN WantedSensors(now) \cap {"channel"} ELSE {})
<1>1. /\ loaded /\ listed /\ learned' = now
      /\ Submitted(wants \ added)
      /\ added' = added \cup wants
      /\ waiting' = (waiting /\ "links" \notin now)
      /\ UNCHANGED <<kind, loaded, listed, binaryVars, listening, lockAdded, deletions, reloads>>
  BY DEF Learns
<1>2. wants \subseteq WantedSensors(now) /\ wants \subseteq Sensors
  BY OfferedIds
<1>3. /\ wants \ added \in SUBSET Ids
      /\ \A i \in wants \ added : i \notin Binary /\ i \notin Disabled
  BY <1>2, IdsApart
<1>4. /\ HassTypes' /\ registered' = registered \cup (wants \ added) /\ spoiled \subseteq spoiled'
      /\ \A i \in Ids :
            /\ ha[i] # "none" => ha'[i] = ha[i]
            /\ i \notin wants \ added => ha'[i] = ha[i] /\ (i \in spoiled' => i \in spoiled)
            /\ i \in (wants \ added) \ Disabled => ha'[i] = "live" \/ i \in spoiled'
  <2> HIDE DEF wants
  <2> QED
    BY <1>1, <1>3, SubmittedEffect
<1>5. now \subseteq {"links", "channel"}
  BY DEF PlatformTypes
<1>6. waiting' \in BOOLEAN
  BY <1>1
<1>7. PlatformTypes' /\ BinaryTypes' /\ CountTypes'
  <2> HIDE DEF wants, now
  <2> QED
    BY <1>1, <1>2, <1>5, <1>6 DEF PlatformTypes, BinaryTypes, CountTypes, binaryVars
<1>8. BinaryInv' /\ BinaryNeverSpoiled'
  <2> HIDE DEF wants, now
  <2> QED
    BY <1>1, <1>3, <1>4, IdsApart DEF BinaryInv, BinaryNeverSpoiled, binaryVars
<1>9. ForgottenInv' /\ ListenInv'
  BY <1>1 DEF ForgottenInv, ListenInv
<1>10. AddedInv'
  <2> HIDE DEF wants, now
  <2>1. added \subseteq Ids /\ wants \subseteq Ids
    BY <1>2, IdsApart DEF PlatformTypes
  <2> QED
    BY <1>1, <1>3, <1>4, <2>1 DEF AddedInv
<1>11. \A i \in WantedSensors(now) : i \in WantedSensors(learned) \/ i \in wants
  <2> SUFFICES ASSUME NEW i \in WantedSensors(now), i \notin wants
               PROVE  i \in WantedSensors(learned)
    OBVIOUS
  <2>1. CASE i \in {"typed", "signal"}
    BY <2>1 DEF WantedSensors, ReadingSensors, HandleSensors, RunSensors, DeviceSensors, LinkSensors,
                ChannelSensors, Offered
  <2>2. CASE i = "links" /\ "links" \in now /\ kind \in Actuators
    <3>1. "links" \in learned
      BY <1>1, <2>2 DEF ListenInv
    <3> QED
      BY <2>2, <3>1 DEF WantedSensors, LinkSensors, Offered
  <2>3. CASE i = "channel" /\ kind = "clamp"
    BY <1>1, <2>3 DEF ListenInv
  <2> QED
    BY <2>1, <2>2, <2>3, WantedWhen
<1>12. SensorsFollowDevice'
  <2>1. LockFor' = LockFor /\ NewPlain' = NewPlain
    BY <1>1 DEF LockFor, NewPlain, NewLight, NewSwitch, NewCover, NewClimate, NewEvent, NewNumbers,
                NewSelects, NewButtons, Offered
  <2>2. "channel" \in registered' => "channel" \in registered \/ ChannelKnown(now)
    <3>1. "channel" \in wants => ChannelKnown(now)
      BY <1>2, WantedWhen
    <3> HIDE DEF wants, now
    <3> QED
      BY <1>4, <3>1
  <2>3. WantedSensors(learned)' = WantedSensors(now)
    <3>1. ChannelKnown(learned)' = ChannelKnown(now)
      BY <1>1, <1>4, <2>2 DEF ChannelKnown
    <3> QED
      BY <1>1, <3>1 DEF WantedSensors, ReadingSensors, HandleSensors, RunSensors, DeviceSensors,
                        LinkSensors, ChannelSensors, Offered
  <2>4. \A i \in LockFor \cup NewPlain : i \in Ids
    BY OfferedIds, IdsApart
  <2>5. \A i \in WantedSensors(now) \cup LockFor \cup NewPlain :
           (ha[i] = "live" \/ i \in spoiled) \/ i \in wants \ added
    <3>1. \A i \in wants : i \notin added => i \in wants \ added
      OBVIOUS
    <3> HIDE DEF wants, now
    <3> QED
      BY <1>1, <1>11, <3>1 DEF SensorsFollowDevice, AddedInv
  <2>6. \A i \in WantedSensors(now) : i \in Ids
    BY OfferedIds, IdsApart
  <2> HIDE DEF wants, now
  <2> QED
    BY <1>3, <1>4, <2>1, <2>3, <2>4, <2>5, <2>6 DEF SensorsFollowDevice
<1> QED
  BY <1>4, <1>7, <1>8, <1>9, <1>10, <1>12

\* Only old entities go.
LEMMA GoneKeeps ==
    ASSUME PlatformsInv, NEW j \in Ids, EntityGone(j)
    PROVE  PlatformsInv'
<1> USE DEF PlatformsInv
<1>1. /\ ha[j] = "leaving" /\ ha' = [ha EXCEPT ![j] = "none"]
      /\ UNCHANGED <<kind, loaded, listed, learned, registered, spoiled, tracked, removing, rediscovered,
                     finishing, added, waiting, listening, lockAdded, deletions, reloads>>
  BY DEF EntityGone, binaryVars, sensorVars
<1>2. HassTypes' /\ \A i \in Ids : /\ ha'[i] = "live" <=> ha[i] = "live"
                                   /\ ha'[i] # "none" => ha[i] # "none"
  BY <1>1 DEF HassTypes
<1>3. PlatformTypes' /\ BinaryTypes' /\ CountTypes'
  BY <1>1 DEF PlatformTypes, BinaryTypes, CountTypes
<1>4. BinaryInv' /\ BinaryNeverSpoiled'
  BY <1>1, <1>2, IdsApart DEF BinaryInv, BinaryNeverSpoiled
<1>5. ForgottenInv' /\ ListenInv'
  BY <1>1 DEF ForgottenInv, ListenInv
<1>6. AddedInv'
  BY <1>1, <1>2, IdsApart DEF AddedInv, PlatformTypes
<1>7. SensorsFollowDevice'
  <2>1. /\ LockFor' = LockFor /\ NewPlain' = NewPlain
        /\ WantedSensors(learned)' = WantedSensors(learned)
    BY <1>1 DEF LockFor, NewPlain, NewLight, NewSwitch, NewCover, NewClimate, NewEvent, NewNumbers,
                NewSelects, NewButtons, Offered, WantedSensors, ReadingSensors, HandleSensors, RunSensors,
                DeviceSensors, LinkSensors, ChannelSensors, ChannelKnown
  <2>2. \A i \in WantedSensors(learned) \cup LockFor \cup NewPlain : i \in Ids
    BY OfferedIds, IdsApart
  <2> QED
    BY <1>1, <1>2, <2>1, <2>2 DEF SensorsFollowDevice
<1> QED
  BY <1>2, <1>3, <1>4, <1>5, <1>6, <1>7

LEMMA DeletesKeeps ==
    ASSUME PlatformsInv, Deletes
    PROVE  PlatformsInv'
<1> USE DEF PlatformsInv
<1>1. /\ deletions < MaxDeletions /\ deletions' = deletions + 1
      /\ ~listed' /\ learned' = {} /\ listed' \in BOOLEAN
      /\ tracked' = {i \in tracked : ha[i] # "none" \/ i \in finishing}
      /\ removing' = (tracked' # {}) /\ UNCHANGED rediscovered
      /\ waiting' = FALSE /\ listening' = FALSE /\ added' = {} /\ lockAdded' = FALSE
      /\ registered' = {}
      /\ ha' = [i \in Ids |-> IF ha[i] = "live" THEN "leaving" ELSE ha[i]]
      /\ finishing' \subseteq finishing \cup Binary
      /\ UNCHANGED <<kind, loaded, spoiled, reloads>>
  BY DEF Deletes, ForgetsBinary, ForgetsSensors
<1>2. HassTypes' /\ \A i \in Ids : ha'[i] # "live" /\ (ha'[i] = "none" <=> ha[i] = "none")
  BY <1>1 DEF HassTypes
<1>3. PlatformTypes' /\ BinaryTypes'
  BY <1>1 DEF PlatformTypes, BinaryTypes
<1>4. CountTypes'
  BY <1>1, PlatformsAssumption DEF CountTypes
<1>5. BinaryInv' /\ BinaryNeverSpoiled'
  BY <1>1, <1>2, IdsApart DEF BinaryInv, BinaryNeverSpoiled
<1> QED
  BY <1>1, <1>2, <1>3, <1>4, <1>5 DEF ForgottenInv, ListenInv, AddedInv, SensorsFollowDevice

LEMMA UnloadsKeeps ==
    ASSUME PlatformsInv, Unloads
    PROVE  PlatformsInv'
<1> USE DEF PlatformsInv
<1>1. PlatformTypes' /\ HassTypes' /\ BinaryTypes'
  BY DEF Unloads, PlatformTypes, HassTypes, BinaryTypes
<1>2. CountTypes'
  BY PlatformsAssumption DEF Unloads, CountTypes
<1>3. BinaryInv' /\ BinaryNeverSpoiled'
  BY IdsApart DEF Unloads, BinaryInv, BinaryNeverSpoiled
<1> QED
  BY <1>1, <1>2, <1>3 DEF Unloads, ForgottenInv, ListenInv, AddedInv, SensorsFollowDevice

LEMMA FinishesKeeps ==
    ASSUME PlatformsInv, NEW j \in Binary, FinishesRemoval(j)
    PROVE  PlatformsInv'
<1> USE DEF PlatformsInv
<1>1. /\ ha[j] # "leaving" /\ finishing' = finishing \ {j}
      /\ UNCHANGED <<kind, loaded, listed, learned, added, waiting, listening, lockAdded, deletions, reloads>>
  BY DEF FinishesRemoval, sensorVars
<1>2. PlatformTypes' /\ CountTypes'
  BY <1>1 DEF PlatformTypes, CountTypes
<1>3. CASE ~removing \/ j \notin tracked
  <2>1. UNCHANGED <<tracked, removing, rediscovered, registered, ha, spoiled>>
    BY <1>3 DEF FinishesRemoval, Removed, hassVars
  <2>2. HassTypes' /\ BinaryTypes' /\ BinaryInv' /\ BinaryNeverSpoiled'
    BY <1>1, <2>1 DEF HassTypes, BinaryTypes, BinaryInv, BinaryNeverSpoiled
  <2>3. ForgottenInv' /\ ListenInv' /\ AddedInv'
    BY <1>1, <2>1 DEF ForgottenInv, ListenInv, AddedInv
  <2>4. SensorsFollowDevice'
    BY <1>1, <2>1 DEF SensorsFollowDevice, LockFor, NewPlain, NewLight, NewSwitch, NewCover, NewClimate,
           NewEvent, NewNumbers, NewSelects, NewButtons, Offered, WantedSensors, ReadingSensors, HandleSensors,
           RunSensors, DeviceSensors, LinkSensors, ChannelSensors, ChannelKnown
  <2> QED
    BY <1>2, <2>2, <2>3, <2>4
<1>4. CASE removing /\ j \in tracked
  <2> DEFINE left == tracked \ {j}
             adds == IF left = {} /\ rediscovered THEN BinaryFor ELSE {}
  <2>1. /\ tracked' = left \cup adds /\ removing' = (left # {})
        /\ rediscovered' = (rediscovered /\ left # {})
        /\ Submitted(adds)
    BY <1>4 DEF FinishesRemoval, Removed
  <2>2. adds \in SUBSET Ids /\ adds \subseteq Binary /\ (left # {} => adds = {})
    BY OfferedIds, IdsApart
  <2>3. ha[j] = "none"
    BY <1>1, <1>4, IdsApart DEF BinaryInv, HassTypes
  <2>4. \A i \in adds : ha[i] = "none"
    BY <2>2, <2>3 DEF BinaryInv
  <2> HIDE DEF adds
  <2>5. /\ HassTypes' /\ registered' = registered \cup adds /\ spoiled \subseteq spoiled'
        /\ \A i \in Ids :
              /\ ha[i] # "none" => ha'[i] = ha[i]
              /\ i \notin adds => ha'[i] = ha[i] /\ (i \in spoiled' => i \in spoiled)
              /\ i \in adds /\ ha[i] = "none" => (i \in spoiled' => i \in spoiled)
    BY <2>1, <2>2, SubmittedEffect
  <2>6. BinaryTypes'
    BY <1>1, <2>1, <2>2 DEF BinaryTypes
  <2>7. BinaryInv'
    BY <1>4, <2>1, <2>2, <2>3, <2>5, IdsApart DEF BinaryInv
  <2>8. BinaryNeverSpoiled'
    BY <2>2, <2>4, <2>5, IdsApart DEF BinaryNeverSpoiled
  <2>9. ForgottenInv' /\ ListenInv'
    BY <1>1 DEF ForgottenInv, ListenInv
  <2>10. AddedInv'
    BY <1>1, <2>2, <2>5, IdsApart DEF AddedInv, PlatformTypes
  <2>11. SensorsFollowDevice'
    <3>1. "channel" \in registered' <=> "channel" \in registered
      BY <2>2, <2>5, IdsApart
    <3>2. /\ LockFor' = LockFor /\ NewPlain' = NewPlain
          /\ WantedSensors(learned)' = WantedSensors(learned)
      BY <1>1, <3>1 DEF LockFor, NewPlain, NewLight, NewSwitch, NewCover, NewClimate, NewEvent, NewNumbers,
           NewSelects, NewButtons, Offered, WantedSensors, ReadingSensors, HandleSensors, RunSensors,
           DeviceSensors, LinkSensors, ChannelSensors, ChannelKnown
    <3>3. \A i \in WantedSensors(learned) \cup LockFor \cup NewPlain : i \in Ids \ Binary
      BY OfferedIds, IdsApart
    <3> QED
      BY <1>1, <2>2, <2>5, <3>2, <3>3 DEF SensorsFollowDevice
  <2> QED
    BY <1>2, <2>5, <2>6, <2>7, <2>8, <2>9, <2>10, <2>11
<1> QED
  BY <1>3, <1>4

LEMMA PlatformsStep == PlatformsInv /\ [PlatformsNext]_PlatformsVars => PlatformsInv'
<1> SUFFICES ASSUME PlatformsInv, [PlatformsNext]_PlatformsVars PROVE PlatformsInv'
  OBVIOUS
<1>1. CASE Loads
  <2>1. ~listed
    BY <1>1 DEF Loads, PlatformsInv, ListenInv
  <2> QED
    BY <1>1, <2>1, DiscoveryKeeps DEF Loads
<1>2. CASE ListedAgain
  <2>1. ~listed /\ loaded' = TRUE
    BY <1>2 DEF ListedAgain, PlatformsInv, PlatformTypes
  <2> QED
    BY <1>2, <2>1, DiscoveryKeeps DEF ListedAgain
<1>3. CASE UNCHANGED PlatformsVars
  BY <1>3 DEF PlatformsVars, hassVars, binaryVars, sensorVars, PlatformsInv, PlatformTypes, HassTypes,
              BinaryTypes, CountTypes, BinaryInv, ForgottenInv, ListenInv, AddedInv, BinaryNeverSpoiled,
              SensorsFollowDevice, LockFor, NewPlain, NewLight, NewSwitch, NewCover, NewClimate, NewEvent,
              NewNumbers, NewSelects, NewButtons, Offered, WantedSensors, ReadingSensors, HandleSensors,
              RunSensors, DeviceSensors, LinkSensors, ChannelSensors, ChannelKnown
<1> QED
  BY <1>1, <1>2, <1>3, LearnsKeeps, GoneKeeps, DeletesKeeps, UnloadsKeeps, FinishesKeeps DEF PlatformsNext

\* PlatformsInv holds of every behaviour of the component.
LEMMA PlatformsHold == PlatformsSpec => []PlatformsInv
  BY PlatformsStart, PlatformsStep, PTL DEF PlatformsSpec

\* For any number of deletions and reloads, the variables of the platforms have
\* their types.
THEOREM PlatformsTyped == PlatformsSpec => []PlatformsTypeOK
<1>1. PlatformsInv => PlatformsTypeOK
  BY DEF PlatformsInv, PlatformsTypeOK, PlatformTypes, HassTypes, BinaryTypes, CountTypes
<1> QED
  BY <1>1, PlatformsHold, PTL

\* No binary sensor is submitted while the one it replaces is still there, in
\* any order of deletions, rediscoveries and finished removals (async_finish_removal).
THEOREM NoBinarySpoiled == PlatformsSpec => []BinaryNeverSpoiled
  BY PlatformsHold, PTL DEF PlatformsInv

\* For any number of deletions and reloads, a known device has each sensor, lock and
\* other entity it has given grounds for, unless it was added too early
\* (async_add_sensors, async_forget_sensors).
THEOREM EntitiesFollow == PlatformsSpec => []SensorsFollowDevice
  BY PlatformsHold, PTL DEF PlatformsInv

--------------------------------------------------------------------------------
(* The migration of outputs                                                 *)

\* An entity of the registry is known by the key it was created with.
Names == Keys \cup {NoEntry, NewEntry}
Rows  == [Keys -> Names]

\* The aggregate and the first channel of an output are two keys.
LEMMA KeysDiffer ==
    ASSUME NEW t \in OutputTypes, NEW c \in 0..LegacyChannels
    PROVE  /\ <<t, c>> \in Keys /\ <<t, Plain>> \in Keys /\ <<t, 0>> \in Keys
           /\ <<t, Plain>> # <<t, 0>>
           /\ Plain \in Nat /\ Plain >= 2
  BY MigrationAssumption DEF Keys, Plain

\* The moves keep the type of the registry.
LEMMA MovesTyped ==
    ASSUME NEW e \in Rows, NEW type \in OutputTypes, NEW count \in {1, 2}
    PROVE  /\ AggregateMoved(e, type, count) \in Rows
           /\ SingleMoved(e, type, count) \in Rows
<1>1. <<type, 0>> \in Keys /\ <<type, Plain>> \in Keys
  BY MigrationAssumption DEF Keys, Plain
<1>2. NoEntry \in Names
  BY DEF Names
<1> QED
  BY <1>1, <1>2 DEF AggregateMoved, SingleMoved, Moved, Rows

\* A migration keeps the type of the registry.
LEMMA MigratedTyped ==
    ASSUME NEW e \in Rows, NEW type \in OutputTypes, NEW count \in {1, 2}, NEW read \in Profiles
    PROVE  Added(Migrated(e, type, count, read), type, count) \in Rows
<1> DEFINE moved == SingleMoved(AggregateMoved(e, type, count), type, count)
           kept == Migrated(e, type, count, read)
<1>1. moved \in Rows
  BY MovesTyped
<1>2. NoEntry \in Names /\ NewEntry \in Names
  BY DEF Names
<1>3. kept \in Rows
  BY <1>1, <1>2 DEF Migrated, Rows
<1>4. \A k \in Keys : kept[k] \in Names
  BY <1>3 DEF Rows
<1> HIDE DEF kept
<1> DEFINE Adds(k) == /\ k[1] = type /\ kept[k] = NoEntry
                      /\ IF count = 1 THEN k[2] = Plain ELSE k[2] < count
<1>5. Added(kept, type, count) = [k \in Keys |-> IF Adds(k) THEN NewEntry ELSE kept[k]]
  BY DEF Added
<1> HIDE DEF Adds
<1>6. Added(kept, type, count) \in Rows
  BY <1>2, <1>4, <1>5 DEF Rows
<1> QED
  BY <1>6 DEF kept

\* What the two moves make of an aggregate and a first channel.
LEMMA MovesKeepOne ==
    ASSUME NEW e \in Rows, NEW type \in OutputTypes, NEW count \in {1, 2}, NEW t \in OutputTypes
    PROVE  LET m == SingleMoved(AggregateMoved(e, type, count), type, count)
               first == e[<<t, 0>>]
               plain == e[<<t, Plain>>]
           IN  /\ \A k \in Keys : k[2] \notin {0, Plain} => m[k] = e[k]
               /\ t # type => m[<<t, 0>>] = first /\ m[<<t, Plain>>] = plain
               /\ count # 1 /\ first # NoEntry => m[<<t, 0>>] = first
               /\ count # 1 /\ first = NoEntry /\ plain # NoEntry
                     => plain \in {m[<<t, 0>>], m[<<t, Plain>>]}
               /\ count = 1 /\ plain # NoEntry => m[<<t, Plain>>] = plain
               /\ t = type /\ count = 1 /\ plain = NoEntry /\ first # NoEntry => m[<<t, Plain>>] = first
<1> DEFINE a == AggregateMoved(e, type, count)
           m == SingleMoved(a, type, count)
           k0 == <<type, 0>>
           kp == <<type, Plain>>
<1>1. k0 \in Keys /\ kp \in Keys /\ k0 # kp /\ a \in Rows
  BY KeysDiffer, MovesTyped, MigrationAssumption
<1>2. \A k \in Keys : k \notin {k0, kp} => m[k] = e[k]
  <2>1. \A k \in Keys : k \notin {k0, kp} => a[k] = e[k]
    BY <1>1 DEF AggregateMoved, Moved, Rows
  <2> HIDE DEF a
  <2> QED
    BY <1>1, <2>1 DEF SingleMoved, Moved, Rows
<1>3. CASE count = 1
  <2>1. a = e
    BY <1>3 DEF AggregateMoved
  <2>2. /\ e[kp] # NoEntry => m[kp] = e[kp]
        /\ e[kp] = NoEntry /\ e[k0] # NoEntry => m[kp] = e[k0]
    BY <1>1, <1>3, <2>1 DEF SingleMoved, Moved, Rows
  <2> HIDE DEF m, a
  <2>3. CASE t = type
    BY <1>2, <1>3, <2>2, <2>3 DEF m, a
  <2>4. CASE t # type
    <3>1. <<t, 0>> \in Keys /\ <<t, Plain>> \in Keys /\ <<t, 0>> \notin {k0, kp} /\ <<t, Plain>> \notin {k0, kp}
      BY <2>4, KeysDiffer, MigrationAssumption
    <3> QED
      BY <1>2, <1>3, <2>4, <3>1 DEF m, a
  <2> QED
    BY <2>3, <2>4
<1>4. CASE count # 1
  <2>1. m = a
    BY <1>4 DEF SingleMoved
  <2>2. /\ e[k0] # NoEntry => a[k0] = e[k0]
        /\ e[k0] = NoEntry /\ e[kp] # NoEntry => a[k0] = e[kp]
    BY <1>1, <1>4 DEF AggregateMoved, Moved, Rows
  <2> HIDE DEF m, a
  <2>3. CASE t = type
    BY <1>2, <1>4, <2>1, <2>2, <2>3 DEF m, a
  <2>4. CASE t # type
    <3>1. <<t, 0>> \in Keys /\ <<t, Plain>> \in Keys /\ <<t, 0>> \notin {k0, kp} /\ <<t, Plain>> \notin {k0, kp}
      BY <2>4, KeysDiffer, MigrationAssumption
    <3> QED
      BY <1>2, <1>4, <2>4, <3>1 DEF m, a
  <2> QED
    BY <2>3, <2>4
<1> QED
  BY <1>3, <1>4

\* A setup adds entries only where there are none.
LEMMA AddedKeeps ==
    ASSUME NEW e \in Rows, NEW type, NEW count, NEW k \in Keys, e[k] # NoEntry
    PROVE  Added(e, type, count)[k] = e[k]
  BY DEF Added

\* The type and the count a setup goes by.
LEMMA SetupTyped ==
    ASSUME MigrationTypeOK, NEW read \in Profiles
    PROVE  /\ EntityType(read) \in OutputTypes /\ ChannelCount(read) \in {1, 2}
           /\ read = "outputs" => EntityType(read) = actuator.type /\ ChannelCount(read) = actuator.count
           /\ read = "silent" => EntityType(read) = tables.type /\ ChannelCount(read) = tables.count
  BY DEF MigrationTypeOK, Outputs, EntityType, ChannelCount, ProfileOutput

LEMMA MigrationStarts == MigrationInit => MigrationTypeOK
<1> SUFFICES ASSUME MigrationInit PROVE MigrationTypeOK
  OBVIOUS
<1>1. entry \in [Keys -> Keys \cup {NoEntry, NewEntry}]
  BY DEF MigrationInit
<1> QED
  BY <1>1 DEF MigrationInit, MigrationTypeOK, Profiles

LEMMA MigrationStep == MigrationTypeOK /\ [MigrationNext]_MigrationVars => MigrationTypeOK'
<1> SUFFICES ASSUME MigrationTypeOK, [MigrationNext]_MigrationVars PROVE MigrationTypeOK'
  OBVIOUS
<1>1. ASSUME NEW read \in Profiles, SetsUp(read) PROVE MigrationTypeOK'
  <2>1. entry' \in Rows
    BY <1>1, SetupTyped, MigratedTyped DEF SetsUp, MigrationTypeOK, Rows, Names
  <2> QED
    BY <1>1, <2>1 DEF SetsUp, MigrationTypeOK, Rows, Names
<1>2. CASE UNCHANGED MigrationVars
  BY <1>2 DEF MigrationVars, MigrationTypeOK
<1> QED
  BY <1>1, <1>2 DEF MigrationNext

\* A setup keeps the entities that show the outputs the actuator has.
LEMMA SetupKeepsShown ==
    ASSUME MigrationTypeOK, NEW read \in Profiles, SetsUp(read),
           NEW channel \in 0..(actuator.count - 1), TellsOf(read, channel), Shown(entry, channel) # {}
    PROVE  Shown(entry, channel) \cap Shown(entry', channel) # {}
<1> DEFINE type == EntityType(read)
           count == ChannelCount(read)
           t == actuator.type
           m == SingleMoved(AggregateMoved(entry, type, count), type, count)
           kept == Migrated(entry, type, count, read)
           k0 == <<t, 0>>
           kp == <<t, Plain>>
           kc == <<t, channel>>
<1>1. /\ entry \in Rows /\ t \in OutputTypes /\ actuator.count \in {1, 2}
      /\ type \in OutputTypes /\ count \in {1, 2}
      /\ read # "unread" => type = t /\ channel < count
      /\ channel \in {0, 1}
  BY SetupTyped DEF MigrationTypeOK, Outputs, Rows, Names, Profiles, TellsOf
<1>2. entry' = Added(kept, type, count) /\ UNCHANGED actuator
  BY DEF SetsUp
<1>3. /\ k0 \in Keys /\ kp \in Keys /\ kc \in Keys /\ k0 # kp
      /\ channel # 0 => kc[2] \notin {0, Plain}
      /\ k0[1] = t /\ kp[1] = t /\ kc[1] = t /\ k0[2] = 0 /\ kp[2] = Plain /\ kc[2] = channel
  BY <1>1, KeysDiffer, MigrationAssumption
<1>4. m \in Rows
  BY <1>1, MovesTyped
<1>5. /\ \A k \in Keys : k[2] \notin {0, Plain} => m[k] = entry[k]
      /\ t # type => m[k0] = entry[k0] /\ m[kp] = entry[kp]
      /\ count # 1 /\ entry[k0] # NoEntry => m[k0] = entry[k0]
      /\ count # 1 /\ entry[k0] = NoEntry /\ entry[kp] # NoEntry => entry[kp] \in {m[k0], m[kp]}
      /\ count = 1 /\ entry[kp] # NoEntry => m[kp] = entry[kp]
      /\ t = type /\ count = 1 /\ entry[kp] = NoEntry /\ entry[k0] # NoEntry => m[kp] = entry[k0]
  BY <1>1, MovesKeepOne
<1>6. kept \in Rows
      /\ \A k \in Keys : kept[k] = IF read # "unread" /\ k \in Stale(type, count) THEN NoEntry ELSE m[k]
  <2>1. kept = [k \in Keys |-> IF read # "unread" /\ k \in Stale(type, count) THEN NoEntry ELSE m[k]]
    BY DEF Migrated, Confirms
  <2> HIDE DEF kept, m
  <2> QED
    BY <1>4, <2>1 DEF Rows, Names
<1>7. /\ read # "unread" => kp \notin Stale(type, count)
      /\ read # "unread" /\ count # 1 => k0 \notin Stale(type, count)
      /\ read # "unread" /\ channel = 1 => kc \notin Stale(type, count)
  BY <1>1, <1>3 DEF Stale
<1> HIDE DEF kept, m, type, count
<1>8. \A k \in Keys : kept[k] # NoEntry => entry'[k] = kept[k]
  BY <1>2, <1>6, AddedKeeps
<1>9. /\ Shown(entry, channel) = {entry[k] : k \in {kc} \cup (IF channel = 0 THEN {kp} ELSE {})} \ {NoEntry}
      /\ Shown(entry', channel) = {entry'[k] : k \in {kc} \cup (IF channel = 0 THEN {kp} ELSE {})} \ {NoEntry}
  BY <1>2 DEF Shown, Plain
<1> HIDE DEF t
<1>10. CASE channel = 1
  <2>1. entry[kc] # NoEntry /\ m[kc] = entry[kc]
    BY <1>3, <1>5, <1>9, <1>10
  <2>2. kept[kc] = entry[kc]
    BY <1>3, <1>6, <1>7, <1>10, <2>1
  <2> QED
    BY <1>3, <1>8, <1>9, <1>10, <2>1, <2>2
<1>11. CASE channel = 0
  <2>1. kc = k0
    BY <1>11
  <2>2. entry[k0] # NoEntry \/ entry[kp] # NoEntry
    BY <1>9, <1>11, <2>1
  <2> HIDE DEF k0, kp, kc
  <2>3. \E old \in {entry[k0], entry[kp]}, k \in {k0, kp} : old # NoEntry /\ kept[k] = old
    <3>1. CASE read # "unread"
      BY <1>1, <1>3, <1>5, <1>6, <1>7, <2>2, <3>1
    <3>2. CASE read = "unread"
      BY <1>1, <1>3, <1>5, <1>6, <2>2, <3>2
    <3> QED
      BY <3>1, <3>2
  <2> QED
    BY <1>3, <1>8, <1>9, <1>11, <2>1, <2>3
<1> QED
  BY <1>1, <1>10, <1>11

\* The registry keeps its type.
LEMMA MigrationHolds == MigrationSpec => []MigrationTypeOK
  BY MigrationStarts, MigrationStep, PTL DEF MigrationSpec

\* For any number of channels and any tables, no setup costs an output of the actuator
\* the entity its user knows, unless the profile was read and names no output and the
\* tables do not tell of this one either (migrate_output_entities).
THEOREM OutputsKept == MigrationSpec => OutputsKeepEntities
<1> DEFINE StaysShown == \A channel \in 0..(actuator.count - 1) :
                      TellsOf(profile', channel) /\ Shown(entry, channel) # {}
                         => Shown(entry, channel) \cap Shown(entry', channel) # {}
<1>1. MigrationTypeOK /\ [MigrationNext]_MigrationVars => [StaysShown]_MigrationVars
  <2> SUFFICES ASSUME MigrationTypeOK, NEW read \in Profiles, SetsUp(read) PROVE StaysShown
    BY DEF MigrationNext
  <2>1. profile' = read /\ UNCHANGED <<actuator, tables>>
    BY DEF SetsUp
  <2> QED
    BY <2>1, SetupKeepsShown DEF Shown
<1> QED
  BY <1>1, MigrationHolds, PTL DEF MigrationSpec, OutputsKeepEntities

--------------------------------------------------------------------------------
(* Reported values                                                          *)

\* A channel with its attributes and revision.
Attributed == [Attributes -> Readings]
Shots      == [attributes : Attributed, revision : Nat]
Fields     == {"isOn", "position", "heaterMode"}

\* What a function may be.
LEMMA FunctionTyped ==
    ASSUME NEW f \in Functions
    PROVE  /\ f.key \in {"switch", "dimValue", "position", "heaterMode", "humidity", "movementTime",
                         "illumination", "motion", "button"}
           /\ f.selector \in {"missing", "one", "malformed"}
           /\ f.value \in Readings \cup {Unusable, "notAvailable"}
           /\ f.value = "notAvailable" => f.key \in {"humidity", "illumination"}
           /\ f.key \in {"movementTime", "button"} => f.value # Unusable
<1>1. PICK k \in DOMAIN Values :
          f \in [key : {k}, value : Values[k], selector : {"missing", "one", "malformed"}]
  BY DEF Functions
<1>2. f.key = k /\ f.value \in Values[k] /\ f.selector \in {"missing", "one", "malformed"}
  BY <1>1
<1>3. DOMAIN Values = {"switch", "dimValue", "position", "heaterMode", "humidity", "movementTime",
                       "illumination", "motion", "button"}
  BY DEF Values
<1>4. /\ Values["switch"] = {"on", "off", Unusable} /\ Values["dimValue"] = {"0", "40", Unusable}
      /\ Values["position"] = {"40", Unusable} /\ Values["heaterMode"] = {"on", "cooling", Unusable}
      /\ Values["humidity"] = {"40", "notAvailable", Unusable} /\ Values["movementTime"] = {"40"}
      /\ Values["illumination"] = {"40", "notAvailable", Unusable}
      /\ Values["motion"] = {"on", Unusable} /\ Values["button"] = {"on"}
  BY DEF Values
<1> QED
  BY <1>2, <1>3, <1>4 DEF Readings, Unusable

LEMMA RowsUpdated ==
    ASSUME NEW a \in Attributed, NEW k \in Attributes, NEW v \in Readings
    PROVE  [a EXCEPT ![k] = v] \in Attributed
  BY DEF Attributed

LEMMA UpdatedTyped ==
    ASSUME NEW a \in Attributed, NEW f \in Functions
    PROVE  /\ Actuated(a, f) \in Attributed /\ Stored(a, f) \in Attributed
           /\ Sensed(a, f) \in Attributed /\ Regulated(a, f) \in Attributed
<1>1. /\ f.value \in Readings \cup {Unusable, "notAvailable"}
      /\ f.value = "notAvailable" => f.key \in {"humidity", "illumination"}
      /\ f.key \in {"movementTime", "button"} => f.value # Unusable
  BY FunctionTyped
<1>2. "none" \in Readings /\ "off" \in Readings /\ "on" \in Readings
  BY DEF Readings
<1>3. \A k \in Attributes : a[k] \in Readings
  BY DEF Attributed
<1>4. Actuated(a, f) \in Attributed
  BY <1>1, <1>2, <1>3 DEF Actuated, Kept, Attributed, Attributes
<1>5. Stored(a, f) \in Attributed
  BY <1>1, <1>2, <1>3 DEF Stored, Kept, Attributed, Attributes
<1>6. Sensed(a, f) \in Attributed
  BY <1>1, <1>2, <1>3 DEF Sensed, Kept, Reading, Detected, Attributed, Attributes
<1>7. Regulated(a, f) \in Attributed
  BY <1>1, <1>2, <1>3 DEF Regulated, Kept, Reading, Attributed, Attributes
<1> QED
  BY <1>4, <1>5, <1>6, <1>7

\* What a function leaves shown of a channel it applies to.
LEMMA UpdatedShows ==
    ASSUME NEW a \in Attributed, NEW f \in Functions, NEW field \in Fields
    PROVE  Updated(a, f)[field] =
             IF f.key \in DOMAIN FieldOf /\ FieldOf[f.key] = field /\ f.value # Unusable
             THEN Shows(f) ELSE a[field]
<1> DEFINE b == Actuated(a, f)
           c == Stored(b, f)
           d == Sensed(c, f)
<1>1. f.value \in Readings \cup {Unusable, "notAvailable"}
  BY FunctionTyped
<1>2. b \in Attributed
  BY UpdatedTyped
<1>3. c \in Attributed /\ c[field] = b[field]
  <2> HIDE DEF b
  <2>1. c \in Attributed
    BY <1>2, UpdatedTyped
  <2>2. c[field] = b[field]
    BY <1>1, <1>2 DEF Stored, Attributed, Fields, Attributes
  <2> QED
    BY <2>1, <2>2
<1>4. d \in Attributed /\ d[field] = c[field]
  <2> HIDE DEF c
  <2>1. d \in Attributed
    BY <1>3, UpdatedTyped
  <2>2. d[field] = c[field]
    BY <1>1, <1>3 DEF Sensed, Attributed, Fields, Attributes
  <2> QED
    BY <2>1, <2>2
<1>5. Regulated(d, f)[field] = IF f.key = "heaterMode" /\ field = "heaterMode" /\ f.value # Unusable
                               THEN f.value ELSE d[field]
  <2> HIDE DEF d
  <2> QED
    BY <1>1, <1>4 DEF Regulated, Attributed, Kept, Reading, Fields, Attributes
<1>6. b[field] = IF f.value # Unusable /\ \/ f.key = "switch" /\ field = "isOn"
                                          \/ f.key = "position" /\ field = "position"
                 THEN f.value
                 ELSE IF f.value # Unusable /\ f.key = "dimValue" /\ field = "isOn"
                 THEN (IF f.value = "0" THEN "off" ELSE "on") ELSE a[field]
  BY <1>1 DEF Actuated, Attributed, Kept, Fields, Attributes
<1>7. Updated(a, f)[field] = Regulated(d, f)[field]
  BY DEF Updated
<1> HIDE DEF b, c, d
<1> QED
  BY <1>3, <1>4, <1>5, <1>6, <1>7 DEF FieldOf, Shows, Fields

\* A function applies to one channel at most.
LEMMA SelectsOne ==
    ASSUME NEW r \in StateReports, NEW f \in Functions
    PROVE  /\ AppliesTo(r, f) \in {{}, {0}, {1}} /\ ConfirmsIn(r, f) = AppliesTo(r, f)
<1>1. r.selector \in Selectors /\ f.selector \in {"missing", "one", "malformed"}
  BY FunctionTyped DEF StateReports
<1> QED
  BY <1>1 DEF AppliesTo, ConfirmsIn, Parses, Selects, Selectors

LEMMA ReportTyped ==
    ASSUME NEW r \in StateReports
    PROVE  /\ r.functions \in Seq(Functions) /\ Len(r.functions) \in 0..MaxFunctions
           /\ r.selector \in Selectors
  BY StateAssumption DEF StateReports, SeqOf

LEMMA AppliedOneTyped ==
    ASSUME NEW r, NEW f \in Functions, NEW cs \in [Channels -> Shots]
    PROVE  AppliedOne(r, f, cs) \in [Channels -> Shots]
<1>1. ASSUME NEW c \in Channels
      PROVE  Channel(Updated(cs[c].attributes, f),
                     IF IsSetting(f) THEN cs[c].revision ELSE cs[c].revision + 1) \in Shots
  <2>1. cs[c].attributes \in Attributed /\ cs[c].revision \in Nat
    BY DEF Shots
  <2>2. Updated(cs[c].attributes, f) \in Attributed
    BY <2>1, UpdatedTyped DEF Updated
  <2> QED
    BY <2>1, <2>2 DEF Channel, Shots
<1> QED
  BY <1>1 DEF AppliedOne

LEMMA ButtonsTyped ==
    ASSUME NEW cs \in [Channels -> Shots]
    PROVE  /\ WithoutButtons(cs) \in [Channels -> Shots]
           /\ \A c \in Channels : WithoutButtons(cs)[c].revision = cs[c].revision
<1>1. "lastButton" \in Attributes /\ "none" \in Readings
  BY DEF Attributes, Readings
<1>2. ASSUME NEW c \in Channels
      PROVE  /\ [cs[c] EXCEPT !.attributes["lastButton"] = "none"] \in Shots
             /\ [cs[c] EXCEPT !.attributes["lastButton"] = "none"].revision = cs[c].revision
  <2>1. [cs[c].attributes EXCEPT !["lastButton"] = "none"] \in Attributed
    BY <1>1, RowsUpdated DEF Shots
  <2> QED
    BY <2>1 DEF Shots
<1> QED
  BY <1>2 DEF WithoutButtons

\* What a report makes of the channels, function by function.
Run(f, r, cs) ==
    /\ f[0] = WithoutButtons(cs)
    /\ \A n \in 1..Len(r.functions) : f[n] = AppliedOne(r, r.functions[n], f[n - 1])

LEMMA AppliedRuns ==
    ASSUME NEW r \in StateReports, NEW cs \in [Channels -> Shots]
    PROVE  \E f : Run(f, r, cs) /\ Applied(r, cs) = f[Len(r.functions)]
<1> DEFINE N == Len(r.functions)
           S == [Channels -> Shots]
           base == WithoutButtons(cs)
           step == [n \in 1..N |-> [x \in S |-> AppliedOne(r, r.functions[n], x)]]
           body(f) == [n \in 0..N |-> IF n = 0 THEN WithoutButtons(cs)
                                      ELSE AppliedOne(r, r.functions[n], f[n - 1])]
           after == CHOOSE f : f = body(f)
<1>1. N \in Nat /\ \A n \in 1..N : r.functions[n] \in Functions
  BY ReportTyped
<1>2. base \in S
  BY ButtonsTyped
<1>3. step \in [1..N -> [S -> S]]
  <2>1. \A n \in 1..N : \A x \in S : AppliedOne(r, r.functions[n], x) \in S
    BY <1>1, AppliedOneTyped
  <2> HIDE DEF S
  <2> QED
    BY <2>1
<1>4. \E f \in [0..N -> S] : f[0] = base /\ \A n \in 1..N : f[n] = step[n][f[n-1]]
  <2> HIDE DEF S, base, step, N
  <2> QED
    BY <1>1, <1>2, <1>3, Iterates
<1> HIDE DEF S, base, step
<1>5. PICK f \in [0..N -> S] : f[0] = base /\ \A n \in 1..N : f[n] = step[n][f[n-1]]
  BY <1>4
<1>6. ASSUME NEW n \in 1..N PROVE f[n] = AppliedOne(r, r.functions[n], f[n-1])
  <2>1. f[n-1] \in S
    BY <1>1, <1>5
  <2>2. step[n][f[n-1]] = AppliedOne(r, r.functions[n], f[n-1])
    BY <2>1 DEF step
  <2> QED
    BY <1>5, <2>2
<1> HIDE DEF N
<1>7. f = body(f)
  BY <1>1, <1>5, <1>6 DEF base
<1>8. after = body(after)
  BY <1>7
<1>9. Applied(r, cs) = after[N]
  BY DEF Applied, N
<1> HIDE DEF after
<1>10. after[0] = WithoutButtons(cs) /\ \A n \in 1..N : after[n] = AppliedOne(r, r.functions[n], after[n-1])
  BY <1>1, <1>8
<1> QED
  BY <1>9, <1>10 DEF Run, N

\* What holds of the channels after n functions of a report.
Tells(f, r, cs, n) ==
    /\ f[n] \in [Channels -> Shots]
    /\ \A c \in Channels : f[n][c].revision \in cs[c].revision .. (cs[c].revision + n)
    /\ \A c \in Channels, m \in 1..n :
          c \in AppliesTo(r, r.functions[m]) /\ ~IsSetting(r.functions[m])
              => f[n][c].revision > cs[c].revision
    /\ \A c \in Channels, field \in Fields, last \in 1..n :
          last \in Says(r, c, field) /\ (\A m \in Says(r, c, field) : m <= n => m <= last)
              => f[n][c].attributes[field] = Shows(r.functions[last])

\* The parts of a channel.
LEMMA ChannelParts ==
    \A a, v : Channel(a, v).attributes = a /\ Channel(a, v).revision = v
  BY DEF Channel

LEMMA TellsStarts ==
    ASSUME NEW r \in StateReports, NEW cs \in [Channels -> Shots], NEW f, Run(f, r, cs)
    PROVE  Tells(f, r, cs, 0)
<1>1. f[0] = WithoutButtons(cs)
  BY DEF Run
<1>2. f[0] \in [Channels -> Shots] /\ \A c \in Channels : f[0][c].revision = cs[c].revision
  BY <1>1, ButtonsTyped
<1>3. \A c \in Channels : cs[c].revision \in Nat
  BY DEF Shots
<1> QED
  BY <1>2, <1>3 DEF Tells

LEMMA TellsGoesOn ==
    ASSUME NEW r \in StateReports, NEW cs \in [Channels -> Shots], NEW f, Run(f, r, cs),
           NEW n \in Nat, n + 1 <= Len(r.functions), Tells(f, r, cs, n)
    PROVE  Tells(f, r, cs, n + 1)
<1> DEFINE k == n + 1
           g == r.functions[k]
           old == f[n]
           new == f[k]
<1>1. /\ k \in 1..Len(r.functions) /\ k \in DOMAIN r.functions /\ g \in Functions
      /\ k - 1 = n
  BY ReportTyped
<1>2. new = AppliedOne(r, g, old)
  BY <1>1 DEF Run
<1>3. old \in [Channels -> Shots]
  BY DEF Tells
<1> HIDE DEF g, old, new
<1>4. new \in [Channels -> Shots]
  BY <1>1, <1>2, <1>3, AppliedOneTyped
<1>5. AppliesTo(r, g) \in {{}, {0}, {1}}
  BY <1>1, SelectsOne
<1>6. \A c \in Channels :
         new[c] = IF c \notin AppliesTo(r, g) THEN old[c]
                  ELSE Channel(Updated(old[c].attributes, g),
                               IF IsSetting(g) THEN old[c].revision ELSE old[c].revision + 1)
  BY <1>2 DEF AppliedOne
<1>7. \A c \in Channels :
         /\ old[c].attributes \in Attributed /\ old[c].revision \in Nat /\ cs[c].revision \in Nat
  BY <1>3 DEF Shots
<1>8. \A c \in Channels :
         new[c].revision = IF c \in AppliesTo(r, g) /\ ~IsSetting(g) THEN old[c].revision + 1
                           ELSE old[c].revision
  BY <1>6, ChannelParts
<1>9. \A c \in Channels, field \in Fields :
         new[c].attributes[field] = IF k \in Says(r, c, field) THEN Shows(g) ELSE old[c].attributes[field]
  <2> SUFFICES ASSUME NEW c \in Channels, NEW field \in Fields
               PROVE  new[c].attributes[field] = IF k \in Says(r, c, field) THEN Shows(g)
                                                 ELSE old[c].attributes[field]
    OBVIOUS
  <2>1. k \in Says(r, c, field) <=> /\ g.key \in DOMAIN FieldOf /\ FieldOf[g.key] = field
                                    /\ g.value # Unusable
                                    /\ AppliesTo(r, g) = {c}
    BY <1>1 DEF Says, g
  <2>2. c \in AppliesTo(r, g) <=> AppliesTo(r, g) = {c}
    BY <1>5
  <2>3. Updated(old[c].attributes, g)[field] =
             IF g.key \in DOMAIN FieldOf /\ FieldOf[g.key] = field /\ g.value # Unusable
             THEN Shows(g) ELSE old[c].attributes[field]
    BY <1>1, <1>7, UpdatedShows
  <2>4. c \in AppliesTo(r, g) => new[c].attributes = Updated(old[c].attributes, g)
    BY <1>6, ChannelParts
  <2>5. c \notin AppliesTo(r, g) => new[c].attributes = old[c].attributes
    BY <1>6
  <2> QED
    BY <2>1, <2>2, <2>3, <2>4, <2>5
<1>10. /\ \A c \in Channels : old[c].revision \in cs[c].revision .. (cs[c].revision + n)
       /\ \A c \in Channels, m \in 1..n :
             c \in AppliesTo(r, r.functions[m]) /\ ~IsSetting(r.functions[m])
                 => old[c].revision > cs[c].revision
       /\ \A c \in Channels, field \in Fields, last \in 1..n :
             last \in Says(r, c, field) /\ (\A m \in Says(r, c, field) : m <= n => m <= last)
                 => old[c].attributes[field] = Shows(r.functions[last])
  BY DEF Tells, old
<1>11. \A c \in Channels : new[c].revision \in cs[c].revision .. (cs[c].revision + k)
  BY <1>7, <1>8, <1>10
<1>12. ASSUME NEW c \in Channels, NEW m \in 1..k,
              c \in AppliesTo(r, r.functions[m]), ~IsSetting(r.functions[m])
       PROVE  new[c].revision > cs[c].revision
  <2>1. CASE m = k
    BY <1>7, <1>8, <1>10, <1>12, <2>1 DEF g
  <2>2. CASE m # k
    <3>1. m \in 1..n
      BY <2>2
    <3>2. old[c].revision > cs[c].revision
      BY <1>10, <1>12, <3>1
    <3> QED
      BY <1>7, <1>8, <3>2
  <2> QED
    BY <2>1, <2>2
<1>13. ASSUME NEW c \in Channels, NEW field \in Fields, NEW last \in 1..k,
              last \in Says(r, c, field), \A m \in Says(r, c, field) : m <= k => m <= last
       PROVE  new[c].attributes[field] = Shows(r.functions[last])
  <2>1. CASE k \in Says(r, c, field)
    <3>1. last = k
      BY <1>13, <2>1
    <3> QED
      BY <1>9, <2>1, <3>1 DEF g
  <2>2. CASE k \notin Says(r, c, field)
    <3>1. last \in 1..n
      BY <1>13, <2>2
    <3>2. \A m \in Says(r, c, field) : m <= n => m <= last
      <4>1. \A m \in Says(r, c, field) : m \in Nat
        BY ReportTyped DEF Says
      <4> QED
        BY <1>13, <4>1
    <3>3. old[c].attributes[field] = Shows(r.functions[last])
      BY <1>10, <1>13, <3>1, <3>2
    <3> QED
      BY <1>9, <2>2, <3>3
  <2> QED
    BY <2>1, <2>2
<1>14. Tells(f, r, cs, k)
  BY <1>4, <1>11, <1>12, <1>13 DEF Tells, new
<1> QED
  BY <1>14

\* A whole report tells of every field what its last function says.
LEMMA AppliedTells ==
    ASSUME NEW r \in StateReports, NEW cs \in [Channels -> Shots]
    PROVE  \E f : /\ Tells(f, r, cs, Len(r.functions))
                  /\ Applied(r, cs) = f[Len(r.functions)]
<1> DEFINE N == Len(r.functions)
<1>1. N \in Nat
  BY ReportTyped
<1>2. PICK f : Run(f, r, cs) /\ Applied(r, cs) = f[N]
  BY AppliedRuns
<1> DEFINE Good == {n \in Nat : n <= N => Tells(f, r, cs, n)}
<1>3. 0 \in Good
  BY <1>2, TellsStarts
<1>4. \A n \in Nat : n \in Good => n + 1 \in Good
  <2> SUFFICES ASSUME NEW n \in Nat, n \in Good, n + 1 <= N PROVE Tells(f, r, cs, n + 1)
    OBVIOUS
  <2>1. Tells(f, r, cs, n)
    BY <1>1
  <2> QED
    BY <1>2, <2>1, TellsGoesOn
<1>5. Good \in SUBSET Nat
  OBVIOUS
<1>6. N \in Good
  <2> HIDE DEF Good, N
  <2> QED
    BY <1>1, <1>3, <1>4, <1>5, Induction
<1>7. Tells(f, r, cs, N)
  BY <1>6
<1> QED
  BY <1>2, <1>7

\* A confirmed field was fed back by a function of the report.
LEMMA ConfirmedCame ==
    ASSUME NEW r \in StateReports, NEW cf \in ConfirmedBy(r)
    PROVE  /\ cf \in Channels \X DOMAIN Values
           /\ cf[1] \in Channels /\ cf[2] \in DOMAIN FieldOf /\ FieldOf[cf[2]] \in Fields
           /\ \E n \in DOMAIN r.functions :
                 /\ n \in Says(r, cf[1], FieldOf[cf[2]])
                 /\ cf[1] \in AppliesTo(r, r.functions[n]) /\ ~IsSetting(r.functions[n])
<1>1. PICK n \in DOMAIN r.functions :
          /\ IsFeedback(r.functions[n])
          /\ cf \in {<<c, r.functions[n].key>> : c \in ConfirmsIn(r, r.functions[n])}
  BY DEF ConfirmedBy
<1> DEFINE f == r.functions[n]
<1>2. f \in Functions
  BY ReportTyped
<1>3. PICK c \in ConfirmsIn(r, f) : cf = <<c, f.key>>
  BY <1>1
<1>4. AppliesTo(r, f) \in {{}, {0}, {1}} /\ ConfirmsIn(r, f) = AppliesTo(r, f)
  BY <1>2, SelectsOne
<1>5. c \in Channels /\ AppliesTo(r, f) = {c}
  BY <1>3, <1>4 DEF Channels
<1>6. /\ f.key \in {"switch", "dimValue", "position", "heaterMode"} /\ f.value # Unusable
  BY <1>1 DEF IsFeedback
<1>7. /\ DOMAIN FieldOf = {"switch", "dimValue", "position", "heaterMode"}
      /\ f.key \in DOMAIN Values
      /\ FieldOf[f.key] \in Fields
  BY <1>6 DEF FieldOf, Fields, Values
<1>8. n \in Says(r, c, FieldOf[f.key])
  BY <1>5, <1>6, <1>7 DEF Says
<1>9. ~IsSetting(f)
  BY <1>6 DEF IsSetting
<1>10. cf[1] = c /\ cf[2] = f.key
  BY <1>3
<1> HIDE DEF f
<1>11. cf \in Channels \X DOMAIN Values
  BY <1>3, <1>5, <1>7
<1> QED
  BY <1>5, <1>6, <1>7, <1>8, <1>9, <1>10, <1>11 DEF f

\* A confirmed field shows what the last function of the report says.
LEMMA AppliedShows ==
    ASSUME NEW r \in StateReports, NEW cs \in [Channels -> Shots], NEW cf \in ConfirmedBy(r)
    PROVE  LET c == cf[1]
               field == FieldOf[cf[2]]
               said == Says(r, c, field)
           IN  /\ \E last \in said : /\ \A n \in said : n <= last
                                     /\ Applied(r, cs)[c].attributes[field] = Shows(r.functions[last])
               /\ Applied(r, cs)[c].revision > cs[c].revision
<1> DEFINE c == cf[1]
           field == FieldOf[cf[2]]
           said == Says(r, c, field)
           N == Len(r.functions)
<1>1. /\ c \in Channels /\ field \in Fields
      /\ \E n \in DOMAIN r.functions : /\ n \in said /\ c \in AppliesTo(r, r.functions[n])
                                       /\ ~IsSetting(r.functions[n])
  BY ConfirmedCame
<1>2. N \in Nat /\ DOMAIN r.functions = 1..N
  BY ReportTyped
<1>3. PICK f : Tells(f, r, cs, N) /\ Applied(r, cs) = f[N]
  BY AppliedTells
<1>4. said \in SUBSET (0..N) /\ said # {} /\ said \subseteq 1..N
  BY <1>1, <1>2 DEF Says
<1>5. PICK last \in said : \A n \in said : n <= last
  <2> HIDE DEF said, N
  <2> QED
    BY <1>2, <1>4, GreatestOf
<1> HIDE DEF c, field, N
<1>6. f[N][c].attributes[field] = Shows(r.functions[last])
  BY <1>1, <1>3, <1>4, <1>5 DEF Tells
<1>7. f[N][c].revision > cs[c].revision
  BY <1>1, <1>2, <1>3 DEF Tells
<1> QED
  BY <1>3, <1>5, <1>6, <1>7 DEF c, field

\* What the last report told is still shown.
StateInv ==
    /\ before \in [Channels -> Shots] /\ \A c \in Channels : before[c].revision = 0
    /\ channels \in [Channels -> Shots] /\ \A c \in Channels : channels[c].revision <= MaxFunctions
    /\ report \in [selector : Selectors, functions : Seq(Functions)]
    /\ confirmed \subseteq Channels \X DOMAIN Values
    /\ report = NoReport => confirmed = {}
    /\ ConfirmedIsShown

LEMMA StateStarts == StateInit => StateInv
<1> SUFFICES ASSUME StateInit PROVE StateInv
  OBVIOUS
<1>1. Blank \in Attributed /\ Warm \in Attributed
  BY DEF Blank, Warm, Attributed, Attributes, Readings
<1>2. PICK a \in Attributed : channels = [c \in Channels |-> Channel(a, 0)]
  BY <1>1 DEF StateInit
<1>3. Channel(a, 0) \in Shots /\ Channel(a, 0).revision = 0
  BY DEF Channel, Shots
<1>4. channels \in [Channels -> Shots] /\ \A c \in Channels : channels[c].revision = 0
  BY <1>2, <1>3
<1>5. NoReport \in [selector : Selectors, functions : Seq(Functions)]
  BY DEF NoReport, Selectors
<1> QED
  BY <1>4, <1>5, StateAssumption DEF StateInit, StateInv, ConfirmedIsShown

LEMMA AppliedKeeps == ASSUME StateInv, ReportApplied PROVE StateInv'
<1>1. PICK r \in StateReports : /\ report' = r /\ confirmed' = ConfirmedBy(r)
                                /\ channels' = Applied(r, channels)
                                /\ r.functions # <<>>
  BY DEF ReportApplied
<1>2. channels = before /\ before' = before
  BY DEF ReportApplied
<1>3. /\ before \in [Channels -> Shots] /\ \A c \in Channels : before[c].revision = 0
  BY DEF StateInv
<1>4. PICK f : Tells(f, r, before, Len(r.functions)) /\ channels' = f[Len(r.functions)]
  BY <1>1, <1>2, <1>3, AppliedTells
<1>5. /\ channels' \in [Channels -> Shots]
      /\ \A c \in Channels : channels'[c].revision <= MaxFunctions
  <2>1. Len(r.functions) \in 0..MaxFunctions
    BY ReportTyped
  <2>2. \A c \in Channels : f[Len(r.functions)][c].revision \in 0 .. (0 + Len(r.functions))
    BY <1>3, <1>4 DEF Tells
  <2>3. \A c \in Channels : channels'[c].revision \in 0 .. Len(r.functions)
    BY <1>4, <2>1, <2>2
  <2> QED
    BY <1>4, <2>1, <2>3, StateAssumption DEF Tells
<1>6. r \in [selector : Selectors, functions : Seq(Functions)] /\ r # NoReport
  BY <1>1, ReportTyped DEF StateReports, NoReport
<1>7. confirmed' \subseteq Channels \X DOMAIN Values
  BY <1>1, ConfirmedCame
<1>8. ConfirmedIsShown'
  BY <1>1, <1>2, <1>3, AppliedShows DEF ConfirmedIsShown
<1> QED
  BY <1>1, <1>2, <1>3, <1>5, <1>6, <1>7, <1>8 DEF StateInv, Channels, Values, Selectors

LEMMA DispatchedKeeps == ASSUME StateInv, ReportDispatched PROVE StateInv'
<1>1. /\ report' = NoReport /\ confirmed' = {} /\ channels' = WithoutButtons(channels) /\ before' = before
  BY DEF ReportDispatched
<1>2. channels' \in [Channels -> Shots] /\ \A c \in Channels : channels'[c].revision = channels[c].revision
  BY <1>1, ButtonsTyped DEF StateInv
<1>3. NoReport \in [selector : Selectors, functions : Seq(Functions)]
  BY DEF NoReport, Selectors
<1> QED
  BY <1>1, <1>2, <1>3 DEF StateInv, ConfirmedIsShown

LEMMA StateStep == StateInv /\ [StateNext]_StateVars => StateInv'
<1> SUFFICES ASSUME StateInv, [StateNext]_StateVars PROVE StateInv'
  OBVIOUS
<1>1. CASE UNCHANGED StateVars
  BY <1>1 DEF StateVars, StateInv, ConfirmedIsShown
<1> QED
  BY <1>1, AppliedKeeps, DispatchedKeeps DEF StateNext

LEMMA StateHolds == StateSpec => []StateInv
  BY StateStarts, StateStep, PTL DEF StateSpec

LEMMA StateTyped == StateInv => StateTypeOK
<1> SUFFICES ASSUME StateInv PROVE StateTypeOK
  OBVIOUS
<1>1. DOMAIN channels = Channels /\ DOMAIN before = Channels
  BY DEF StateInv
<1>2. \A c \in Channels : /\ channels[c].attributes \in [Attributes -> Readings]
                          /\ channels[c].revision \in 0..MaxFunctions
  BY StateAssumption DEF StateInv, Shots, Attributed
<1> QED
  BY <1>1, <1>2 DEF StateInv, StateTypeOK

\* For reports of any length, the channels have their types: a channel gets only
\* attributes that a reading of a function can give it (update_from_telegram).
THEOREM StateTypes == StateSpec => []StateTypeOK
  BY StateHolds, StateTyped, PTL

\* For reports of any length, a field that a report is taken to confirm shows what
\* the last usable function for it said, with a new revision, whatever else the
\* report says (confirmed_fields_by_channel, update_from_telegram).
THEOREM ConfirmedShown == StateSpec => []ConfirmedIsShown
<1>1. StateInv => ConfirmedIsShown
  BY DEF StateInv
<1> QED
  BY <1>1, StateHolds, PTL

--------------------------------------------------------------------------------
(* All components                                                           *)

\* The component that runs is one of them, for good.
LEMMA ComponentStays == DevicesSpec => [](component \in Components)
<1>1. DevicesInit => component \in Components
  BY DEF DevicesInit
<1>2. component \in Components /\ [DevicesNext]_DevicesVars => (component \in Components)'
  BY DEF DevicesNext, DevicesVars, CoverSteps, RunSteps, HandleSteps, RegistrySteps, PlatformsSteps,
         MigrationSteps, StateSteps
<1> QED
  BY <1>1, <1>2, PTL DEF DevicesSpec

\* Every component starts in a state of its own.
LEMMA RestingMigration ==
    ASSUME actuator = [type |-> "switch", count |-> 1], tables = actuator,
           profile = "unread", entry = [k \in Keys |-> NoEntry]
    PROVE  MigrationInit
<1>1. actuator \in Outputs /\ tables \in Outputs
  BY DEF Outputs, OutputTypes
<1> DEFINE none == [t \in OutputTypes |-> 0]
<1>2. none \in [OutputTypes -> 0..LegacyChannels]
  BY MigrationAssumption
<1>3. ASSUME NEW k \in Keys PROVE ~(IF k[2] = Plain THEN k[1] \in {} ELSE k[2] < none[k[1]])
  <2>1. k[1] \in OutputTypes /\ (k[2] = Plain \/ k[2] \in 0..LegacyChannels)
    BY DEF Keys
  <2>2. none[k[1]] = 0
    BY <2>1
  <2>3. k[2] # Plain => ~(k[2] < 0)
    BY <2>1, MigrationAssumption
  <2> QED
    BY <2>2, <2>3
<1>4. entry = [k \in Keys |-> IF IF k[2] = Plain THEN k[1] \in {} ELSE k[2] < none[k[1]]
                              THEN k ELSE NoEntry]
  BY <1>3
<1> HIDE DEF none
<1>5. {} \in SUBSET OutputTypes
  OBVIOUS
<1> QED
  BY <1>1, <1>2, <1>4, <1>5 DEF MigrationInit

LEMMA DevicesStart ==
    DevicesInit => /\ CoverInit /\ RunInit /\ HandleInit /\ RegistryInit
                   /\ PlatformsInit /\ MigrationInit /\ StateInit
<1> SUFFICES ASSUME DevicesInit
             PROVE  /\ CoverInit /\ RunInit /\ HandleInit /\ RegistryInit
                    /\ PlatformsInit /\ MigrationInit /\ StateInit
  OBVIOUS
<1>1. CoverInit /\ RunInit /\ HandleInit /\ RegistryInit /\ PlatformsInit /\ StateInit
  BY DEF DevicesInit
<1>2. MigrationInit
  BY RestingMigration DEF DevicesInit
<1> QED
  BY <1>1, <1>2

\* A step of the whole is a step of one component, and the others rest.
LEMMA DevicesStep ==
    [DevicesNext]_DevicesVars =>
        /\ [CoverNext]_CoverVars /\ [RunsNext]_RunVars /\ [HandleNext]_HandleVars
        /\ [RegistryNext]_RegistryVars /\ [PlatformsNext]_PlatformsVars
        /\ [MigrationNext]_MigrationVars /\ [StateNext]_StateVars
  BY DEF DevicesNext, DevicesVars, CoverSteps, RunSteps, HandleSteps, RegistrySteps, PlatformsSteps,
         MigrationSteps, StateSteps

\* The run of all components is a run of each: what is proved of a component holds
\* in it.
LEMMA DevicesImplement ==
    DevicesSpec => /\ CoverSpec /\ RunsSpec /\ HandleSpec /\ RegistrySpec
                   /\ PlatformsSpec /\ MigrationSpec /\ StateSpec
  BY DevicesStart, DevicesStep, PTL
  DEF DevicesSpec, CoverSpec, RunsSpec, HandleSpec, RegistrySpec, PlatformsSpec, MigrationSpec, StateSpec

\* The variables of the component that runs have their types, for any constants:
\* the types of all seven components at once.
THEOREM DevicesTyped == DevicesSpec => []DevicesTypesOK
<1>1. /\ component \in Components
      /\ CoverTypeOK /\ RunTypeOK /\ HandleTypeOK /\ RegistryTypeOK /\ PlatformsTypeOK
      /\ MigrationTypeOK /\ StateTypeOK
      => DevicesTypesOK
  BY DEF DevicesTypesOK, Components
<1> QED
  BY <1>1, ComponentStays, DevicesImplement, CoverTypes, RunTyping, HandleTyping, RegistryTyping,
     PlatformsTyped, MigrationHolds, StateTypes, PTL

\* Whatever the constants are, the run of all components keeps every safety property
\* of each: no check while a blind travels, the last answer of a handle, entities that
\* follow their device, what is confirmed is shown, and no step that assumes,
\* measures, takes back or moves what it must not.
THEOREM DevicesKeep ==
    DevicesSpec => /\ []ChecksWaitForTravel /\ []LastAnswerWins /\ []EntityHoldsDevice
                   /\ []BinaryNeverSpoiled /\ []SensorsFollowDevice /\ []ConfirmedIsShown
                   /\ OnlyOrdersAreAssumed /\ RunsAreMeasured
                   /\ RefreshTakesNothingBack /\ OutputsKeepEntities
  BY DevicesImplement, ChecksWait, LastAnswer, EntityIsCurrent, NoBinarySpoiled, EntitiesFollow,
     ConfirmedShown, AssumedWasOrdered, RunsMeasured, LateRefresh, OutputsKept, PTL
================================================================================
