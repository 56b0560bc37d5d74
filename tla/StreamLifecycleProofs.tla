------------------------ MODULE StreamLifecycleProofs ------------------------
(***************************************************************************)
(* Proofs about StreamLifecycle: its types, and that availability, setup   *)
(* and the reader keep in step, for every number of gateway boots, every   *)
(* range of uptimes, and with or without the generation check.             *)
(***************************************************************************)
EXTENDS StreamLifecycle, TLAPS

\* What the parts know of each other between two steps.  A waiting setup is
\* told of a list only when one was applied.
ListInv ==
    /\ first = "list" => listApplied
    /\ stage \in {"loading", "running"} => listApplied

\* Until the first attempt is decided there are no probes and nothing was
\* available, so a rejection that only setup is told of leaves no flag behind.
FirstInv ==
    /\ stage \in {"reading", "waiting", "loading"} => probe.state = "idle"
    /\ stage = "reading" => gatewayAvailable = FALSE /\ reader.phase = "none"
    /\ first = "waiting" => stage = "waiting"
    /\ first = "waiting" => reader.phase \in {"starting", "connecting", "open"}
    /\ first = "waiting" /\ reader.phase # "open" => gatewayAvailable = FALSE

\* What is available, connected or open has delivered.
DeliveredInv ==
    /\ gatewayAvailable => delivered
    /\ streamConnected => delivered
    /\ reader.phase = "open" => delivered

\* The reader has ended only if the credentials were rejected, of which a
\* setup that still waits is told first.
ReaderInv ==
    /\ stage \in {"loading", "running"} => first = "none"
    /\ stage \in {"loading", "running"} /\ ~authFailed
          => reader.phase \notin {"none", "ended"}
    /\ stage = "waiting" /\ ~authFailed /\ first # "auth"
          => reader.phase \notin {"none", "ended"}
    /\ stage = "waiting" => first # "none"

USE ConnectionAssumption DEF Boots, Uptimes, NoUptime, Unloaded, Reader, Idle

--------------------------------------------------------------------------------
\* No step stores a value outside the domain of its variable: counts stay
\* under their bound and an uptime is one the gateway reported.
LEMMA ValuesStep == ValueTypes /\ [Next]_vars => ValueTypes'
PROOF
<1> SUFFICES ASSUME ValueTypes, [Next]_vars PROVE ValueTypes'
    OBVIOUS
<1> USE DEF ValueTypes, setupVars, readerVars, stateVars, probeVars, gatewayVars
<1>1. CASE Setup
    BY <1>1 DEF Setup, SetupReads, SetupWaits, SetupLoads, UnloadTo, DropsFuture
<1>2. CASE Unload
    BY <1>2 DEF Unload, UnloadTo, DropsFuture
<1>3. CASE Stream
    <2>1. CASE Connect
        BY <2>1 DEF Connect
    <2>2. CASE Document
        BY <2>2 DEF Document, ResolveFirst
    <2>3. CASE DocumentRaises
        BY <2>3 DEF DocumentRaises, ResolveFirst
    <2>4. CASE StreamRejected
        BY <2>4 DEF StreamRejected, ResolveFirst, HandleAuthFailure
    <2>5. CASE StreamLost \/ StreamCloses
        BY <2>5 DEF StreamLost, StreamCloses, AttemptEnds, ResolveFirst
    <2> QED
        BY <1>3, <2>1, <2>2, <2>3, <2>4, <2>5 DEF Stream
<1>4. CASE HealthTick
    BY <1>4 DEF HealthTick
<1>5. CASE Probe
    <2>1. CASE ProbeMeetsGateway
        BY <2>1 DEF ProbeMeetsGateway
    <2>2. CASE ProbeAnswered
        BY <2>2 DEF ProbeAnswered, RestartStream
    <2>3. CASE ProbeRejected
        BY <2>3 DEF ProbeRejected, HandleAuthFailure
    <2>4. CASE ProbeFailed
        BY <2>4 DEF ProbeFailed, AsksForGeneration, Counted, RestartStream
    <2>5. CASE GenerationChecked
        BY <2>5 DEF GenerationChecked, HandleAuthFailure
    <2> QED
        BY <1>5, <2>1, <2>2, <2>3, <2>4, <2>5 DEF Probe
<1>6. CASE CheckIntervalPasses \/ RequestRejected
    BY <1>6 DEF CheckIntervalPasses, RequestRejected, HandleAuthFailure
<1>7. CASE Gateway
    BY <1>7 DEF Gateway, GatewayLost, GatewayBack, UptimeGrows, CredentialsChanged, Migrates
<1>8. CASE UNCHANGED vars
    BY <1>8 DEF vars
<1> QED
    BY <1>1, <1>2, <1>3, <1>4, <1>5, <1>6, <1>7, <1>8 DEF Next

\* A flag stays a truth value.
LEMMA FlagsStep == FlagTypes /\ [Next]_vars => FlagTypes'
PROOF
<1> SUFFICES ASSUME FlagTypes, [Next]_vars PROVE FlagTypes'
    OBVIOUS
<1> USE DEF FlagTypes, setupVars, readerVars, stateVars, probeVars, gatewayVars
<1>1. CASE Setup
    BY <1>1 DEF Setup, SetupReads, SetupWaits, SetupLoads, UnloadTo, DropsFuture
<1>2. CASE Unload
    BY <1>2 DEF Unload, UnloadTo, DropsFuture
<1>3. CASE Stream
    <2>1. CASE Connect
        BY <2>1 DEF Connect
    <2>2. CASE Document
        BY <2>2 DEF Document, ResolveFirst
    <2>3. CASE DocumentRaises
        BY <2>3 DEF DocumentRaises, ResolveFirst
    <2>4. CASE StreamRejected
        BY <2>4 DEF StreamRejected, ResolveFirst, HandleAuthFailure
    <2>5. CASE StreamLost \/ StreamCloses
        BY <2>5 DEF StreamLost, StreamCloses, AttemptEnds, ResolveFirst
    <2> QED
        BY <1>3, <2>1, <2>2, <2>3, <2>4, <2>5 DEF Stream
<1>4. CASE HealthTick
    BY <1>4 DEF HealthTick
<1>5. CASE Probe
    <2>1. CASE ProbeMeetsGateway
        BY <2>1 DEF ProbeMeetsGateway
    <2>2. CASE ProbeAnswered
        BY <2>2 DEF ProbeAnswered, RestartStream
    <2>3. CASE ProbeRejected
        BY <2>3 DEF ProbeRejected, HandleAuthFailure
    <2>4. CASE ProbeFailed
        BY <2>4 DEF ProbeFailed, AsksForGeneration, Counted, RestartStream
    <2>5. CASE GenerationChecked
        BY <2>5 DEF GenerationChecked, HandleAuthFailure
    <2> QED
        BY <1>5, <2>1, <2>2, <2>3, <2>4, <2>5 DEF Probe
<1>6. CASE CheckIntervalPasses \/ RequestRejected
    BY <1>6 DEF CheckIntervalPasses, RequestRejected, HandleAuthFailure
<1>7. CASE Gateway
    BY <1>7 DEF Gateway, GatewayLost, GatewayBack, UptimeGrows, CredentialsChanged, Migrates
<1>8. CASE UNCHANGED vars
    BY <1>8 DEF vars
<1> QED
    BY <1>1, <1>2, <1>3, <1>4, <1>5, <1>6, <1>7, <1>8 DEF Next

\* Type correctness of the connection state (the coordinator's fields and the
\* reader's and the probe's locals).
THEOREM ConnectionTypes == Spec => []TypeOK
PROOF
<1>1. Init => FlagTypes
    BY DEF Init, FlagTypes
<1>2. Init => ValueTypes
    BY DEF Init, ValueTypes
<1> QED
    BY <1>1, <1>2, FlagsStep, ValuesStep, PTL DEF Spec, TypeOK

--------------------------------------------------------------------------------
\* Before the first attempt is decided: no handler other than the reader's
\* touches the flags or the reader.
LEMMA FirstStep == ValueTypes /\ FirstInv /\ [Next]_vars => FirstInv'
PROOF
<1> SUFFICES ASSUME ValueTypes, FirstInv, [Next]_vars PROVE FirstInv'
    OBVIOUS
<1> USE DEF ValueTypes, FirstInv, setupVars, readerVars, stateVars, probeVars, gatewayVars
<1>1. CASE Setup \/ Unload
    BY <1>1 DEF Setup, SetupReads, SetupWaits, SetupLoads, Unload, UnloadTo, DropsFuture
<1>2. CASE Connect \/ Document \/ DocumentRaises
    BY <1>2 DEF Connect, Document, DocumentRaises, Sends, ResolveFirst
<1>3. CASE StreamRejected
    BY <1>3 DEF StreamRejected, ResolveFirst, HandleAuthFailure
<1>4. CASE StreamLost \/ StreamCloses
    BY <1>4 DEF StreamLost, StreamCloses, AttemptEnds, ResolveFirst
<1>5. CASE ProbeAnswered \/ ProbeFailed
    BY <1>5 DEF ProbeAnswered, ProbeFailed, RestartStream
<1>6. CASE \/ HealthTick \/ ProbeMeetsGateway \/ ProbeRejected \/ GenerationChecked
           \/ CheckIntervalPasses \/ RequestRejected
    BY <1>6 DEF HealthTick, ProbeMeetsGateway, ProbeRejected, GenerationChecked,
                CheckIntervalPasses, RequestRejected, HandleAuthFailure
<1>7. CASE Gateway
    BY <1>7 DEF Gateway, GatewayLost, GatewayBack, UptimeGrows, CredentialsChanged, Migrates
<1>8. CASE UNCHANGED vars
    BY <1>8 DEF vars
<1> QED
    BY <1>1, <1>2, <1>3, <1>4, <1>5, <1>6, <1>7, <1>8 DEF Next, Stream, Probe

\* Availability: every step that raises the flag comes with a delivered
\* document, and every attempt that ends without one lowers it.
LEMMA DeliveredStep == ValueTypes /\ FirstInv /\ DeliveredInv /\ [Next]_vars => DeliveredInv'
PROOF
<1> SUFFICES ASSUME ValueTypes, FirstInv, DeliveredInv, [Next]_vars PROVE DeliveredInv'
    OBVIOUS
<1> USE DEF ValueTypes, DeliveredInv, setupVars, readerVars, stateVars, probeVars, gatewayVars
<1>1. CASE Setup \/ Unload
    BY <1>1 DEF Setup, SetupReads, SetupWaits, SetupLoads, Unload, UnloadTo, DropsFuture
<1>2. CASE Connect \/ Document \/ DocumentRaises
    BY <1>2 DEF Connect, Document, DocumentRaises
<1>3. CASE StreamRejected
    <2>1. gatewayAvailable' = FALSE
        BY <1>3 DEF StreamRejected, HandleAuthFailure, FirstInv
    <2>2. streamConnected' = FALSE /\ reader'.phase # "open"
        BY <1>3 DEF StreamRejected
    <2> QED
        BY <2>1, <2>2
<1>4. CASE StreamLost \/ StreamCloses
    <2>1. streamConnected' = FALSE /\ reader'.phase # "open"
        BY <1>4 DEF StreamLost, StreamCloses, AttemptEnds
    <2>2. CASE reader.phase = "open"
        BY <1>4, <2>1, <2>2, Zenon DEF StreamLost, StreamCloses, AttemptEnds
    <2>3. CASE reader.phase # "open"
        BY <1>4, <2>1, <2>3, Zenon DEF StreamLost, StreamCloses, AttemptEnds
    <2> QED
        BY <2>2, <2>3
<1>5. CASE ProbeAnswered \/ ProbeFailed
    <2>1. reader'.phase = "open" => reader.phase = "open"
        BY <1>5 DEF ProbeAnswered, ProbeFailed, RestartStream
    <2>2. streamConnected' => streamConnected
        BY <1>5, Zenon DEF ProbeAnswered, ProbeFailed, RestartStream
    <2>3. gatewayAvailable' => gatewayAvailable \/ streamConnected
        BY <1>5, Zenon DEF ProbeAnswered, ProbeFailed
    <2>4. delivered' = delivered
        BY <1>5 DEF ProbeAnswered, ProbeFailed
    <2> QED
        BY <2>1, <2>2, <2>3, <2>4
<1>6. CASE \/ HealthTick \/ ProbeMeetsGateway \/ ProbeRejected \/ GenerationChecked
           \/ CheckIntervalPasses \/ RequestRejected
    BY <1>6 DEF HealthTick, ProbeMeetsGateway, ProbeRejected, GenerationChecked,
                CheckIntervalPasses, RequestRejected, HandleAuthFailure
<1>7. CASE Gateway
    BY <1>7 DEF Gateway, GatewayLost, GatewayBack, UptimeGrows, CredentialsChanged, Migrates
<1>8. CASE UNCHANGED vars
    BY <1>8 DEF vars
<1> QED
    BY <1>1, <1>2, <1>3, <1>4, <1>5, <1>6, <1>7, <1>8 DEF Next, Stream, Probe

\* The entities are available only after a stream attempt that delivered
\* (_set_gateway_available and its callers).
THEOREM AvailabilityIsEarned == Spec => []AvailableAfterDocument
PROOF
<1>1. Init => FirstInv /\ DeliveredInv
    BY DEF Init, FirstInv, DeliveredInv
<1>2. DeliveredInv => AvailableAfterDocument
    BY DEF DeliveredInv, AvailableAfterDocument
<1> QED
    BY <1>1, <1>2, ConnectionTypes, FirstStep, DeliveredStep, PTL DEF Spec, TypeOK

--------------------------------------------------------------------------------
\* Setup and the first device list: only a document that was a list resolves
\* the wait with a list.
LEMMA ListStep == ListInv /\ [Next]_vars => ListInv'
PROOF
<1> SUFFICES ASSUME ListInv, [Next]_vars PROVE ListInv'
    OBVIOUS
<1> USE DEF ListInv, setupVars, readerVars, stateVars, probeVars, gatewayVars
<1>1. CASE Setup \/ Unload
    BY <1>1 DEF Setup, SetupReads, SetupWaits, SetupMayGoOn, SetupLoads, Unload, UnloadTo, DropsFuture
<1>2. CASE Stream
    BY <1>2 DEF Stream, Connect, Document, DocumentRaises, StreamRejected, StreamLost,
                StreamCloses, AttemptEnds, ResolveFirst
<1>3. CASE Probe
    BY <1>3 DEF Probe, ProbeMeetsGateway, ProbeAnswered, ProbeRejected, ProbeFailed,
                GenerationChecked
<1>4. CASE HealthTick \/ CheckIntervalPasses \/ RequestRejected
    BY <1>4 DEF HealthTick, CheckIntervalPasses, RequestRejected
<1>5. CASE Gateway
    BY <1>5 DEF Gateway, GatewayLost, GatewayBack, UptimeGrows, CredentialsChanged, Migrates
<1>6. CASE UNCHANGED vars
    BY <1>6 DEF vars
<1> QED
    BY <1>1, <1>2, <1>3, <1>4, <1>5, <1>6 DEF Next

\* Setup goes on only with a device list (_resolve_first_device_list).
THEOREM SetupHasItsList == Spec => []SetupNeedsList
PROOF
<1>1. Init => ListInv
    BY DEF Init, ListInv
<1>2. ListInv => SetupNeedsList
    BY DEF ListInv, SetupNeedsList
<1> QED
    BY <1>1, <1>2, ListStep, PTL DEF Spec

\* Neither the entities become available nor setup goes on before the documents
\* they need have come.
THEOREM DocumentsFirst == Spec => []DocumentsComeFirst
PROOF
<1>1. AvailableAfterDocument /\ SetupNeedsList => DocumentsComeFirst
    BY DEF DocumentsComeFirst
<1> QED
    BY <1>1, AvailabilityIsEarned, SetupHasItsList, PTL

--------------------------------------------------------------------------------
\* The reader: a restart starts a new one unless the credentials were
\* rejected, and a reader ends by itself only on rejected credentials.
LEMMA ReaderStep == ValueTypes /\ ReaderInv /\ [Next]_vars => ReaderInv'
PROOF
<1> SUFFICES ASSUME ValueTypes, ReaderInv, [Next]_vars PROVE ReaderInv'
    OBVIOUS
<1> USE DEF ValueTypes, ReaderInv, setupVars, readerVars, stateVars, probeVars, gatewayVars
<1>1. CASE Setup \/ Unload
    BY <1>1 DEF Setup, SetupReads, SetupWaits, SetupMayGoOn, SetupLoads, Unload, UnloadTo, DropsFuture
<1>2. CASE Connect
    BY <1>2 DEF Connect
<1>3. CASE Document \/ DocumentRaises
    BY <1>3 DEF Document, DocumentRaises, Sends, ResolveFirst
<1>4. CASE StreamRejected
    BY <1>4 DEF StreamRejected, ResolveFirst, HandleAuthFailure
<1>5. CASE StreamLost \/ StreamCloses
    BY <1>5 DEF StreamLost, StreamCloses, AttemptEnds, ResolveFirst
<1>6. CASE ProbeAnswered \/ ProbeFailed
    BY <1>6 DEF ProbeAnswered, ProbeFailed, RestartStream
<1>7. CASE \/ HealthTick \/ ProbeMeetsGateway \/ ProbeRejected \/ GenerationChecked
           \/ CheckIntervalPasses \/ RequestRejected
    BY <1>7 DEF HealthTick, ProbeMeetsGateway, ProbeRejected, GenerationChecked,
                CheckIntervalPasses, RequestRejected, HandleAuthFailure
<1>8. CASE Gateway
    BY <1>8 DEF Gateway, GatewayLost, GatewayBack, UptimeGrows, CredentialsChanged, Migrates
<1>9. CASE UNCHANGED vars
    BY <1>9 DEF vars
<1> QED
    BY <1>1, <1>2, <1>3, <1>4, <1>5, <1>6, <1>7, <1>8, <1>9 DEF Next, Stream, Probe

\* A set up entry is never left without a reader unless its credentials were
\* rejected (_restart_stream, _async_run_stream).
THEOREM ReaderIsKept == Spec => []ReaderKept
PROOF
<1>1. Init => ReaderInv
    BY DEF Init, ReaderInv
<1>2. ReaderInv => ReaderKept
    BY DEF ReaderInv, ReaderKept
<1> QED
    BY <1>1, <1>2, ConnectionTypes, ReaderStep, PTL DEF Spec, TypeOK
==============================================================================
