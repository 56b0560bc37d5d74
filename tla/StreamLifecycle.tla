---------------------------- MODULE StreamLifecycle ----------------------------
(***************************************************************************)
(* The coordinator's connection to the gateway: setup, the event stream    *)
(* reader, the health probe, availability, rejected credentials, unload    *)
(* (coordinator.py), with the gateway and its network as the environment.  *)
(*                                                                         *)
(* A step is the code between two awaits.  The reader is the task of the   *)
(* newest stream generation: a replaced reader is cancelled at its await   *)
(* and runs no further code.  Pauses, timeouts and intervals are steps     *)
(* that may happen at any time.                                            *)
(***************************************************************************)
EXTENDS Integers

CONSTANTS MaxBoots,          \* bound: boots of the gateway
          MaxUptime,         \* bound: the uptime value the gateway reports
          ChecksGeneration,  \* _generation_check is given (gateways of the earlier generation)
          CheckAfterFailures \* GENERATION_CHECK_AFTER_FAILURES

ASSUME ConnectionAssumption ==
    /\ MaxBoots \in Nat \ {0}
    /\ MaxUptime \in Nat
    /\ ChecksGeneration \in BOOLEAN
    /\ CheckAfterFailures \in Nat \ {0}

VARIABLES
    stage,             \* where async_setup is, and what became of the entry
    first,             \* _first_device_list
    reader,            \* the stream reader: its phase, and the boot it is connected to
    streamConnected,   \* _stream_connected
    gatewayAvailable,  \* _gateway_available
    authFailed,        \* _auth_failed
    probe,             \* _probe_task
    probeFailures,     \* _probe_failures, up to CheckAfterFailures
    checkedRecently,   \* _generation_checked_at is less than GENERATION_CHECK_INTERVAL ago
    gatewayUptime,     \* gateway_uptime; NoUptime before the first reading
    up,                \* the gateway answers
    boot,              \* how often it has started
    uptime,            \* the uptime it reports
    rejects,           \* it rejects the entry's credentials
    migrated,          \* it was updated to WebUI 2026
    delivered,         \* history: the last stream attempt that was decided delivered a document
    listApplied        \* history: a device list has been applied

setupVars   == <<stage, first>>
readerVars  == <<reader, streamConnected, delivered, listApplied>>
stateVars   == <<gatewayAvailable, authFailed>>
probeVars   == <<probe, probeFailures, checkedRecently, gatewayUptime>>
gatewayVars == <<up, boot, uptime, rejects, migrated>>
vars == <<setupVars, readerVars, stateVars, probeVars, gatewayVars>>

NoUptime == -1
Boots    == 1..MaxBoots
Uptimes  == 0..MaxUptime
Unloaded == stage \in {"failed", "stopped"}

FlagTypes ==
    /\ streamConnected \in BOOLEAN /\ delivered \in BOOLEAN /\ listApplied \in BOOLEAN
    /\ gatewayAvailable \in BOOLEAN /\ authFailed \in BOOLEAN
    /\ checkedRecently \in BOOLEAN
    /\ up \in BOOLEAN /\ rejects \in BOOLEAN /\ migrated \in BOOLEAN

ValueTypes ==
    /\ stage \in {"reading", "waiting", "loading", "running", "failed", "stopped"}
    /\ first \in {"none", "waiting", "list", "auth", "error"}
    /\ first # "none" <=> stage = "waiting"     \* a future only while async_setup awaits it
    /\ reader \in [phase : {"none", "starting", "connecting", "open", "pausing", "ended"},
                   conn : Boots \cup {0}]
    /\ probe \in [state : {"idle", "asked", "answered", "rejected", "failed", "checking"},
                  uptime : Uptimes]
    /\ probeFailures \in 0..CheckAfterFailures
    /\ gatewayUptime \in Uptimes \cup {NoUptime}
    /\ boot \in Boots
    /\ uptime \in Uptimes

TypeOK == FlagTypes /\ ValueTypes

Reader(phase, conn) == [phase |-> phase, conn |-> conn]
Idle == [state |-> "idle", uptime |-> 0]

Init ==
    /\ stage = "reading"
    /\ first = "none"
    /\ reader = Reader("none", 0)
    /\ streamConnected = FALSE
    /\ gatewayAvailable = FALSE
    /\ authFailed = FALSE
    /\ probe = Idle
    /\ probeFailures = 0
    /\ checkedRecently = FALSE
    /\ gatewayUptime = NoUptime
    /\ up \in BOOLEAN
    /\ boot = 1
    /\ uptime \in Uptimes
    /\ rejects \in BOOLEAN
    /\ migrated = FALSE
    /\ delivered = FALSE
    /\ listApplied = FALSE

--------------------------------------------------------------------------------
(* Availability                                                             *)

\* _handle_auth_failure: unavailable, and one reauthentication.  The reader
\* and the probe go on.
HandleAuthFailure == gatewayAvailable' = FALSE /\ authFailed' = TRUE

\* Variation: the old reader is cancelled and no new one is started.
RestartStreamStopsOnly == reader' = Reader("ended", 0) /\ streamConnected' = FALSE

\* _restart_stream with _start_stream, which refuses after rejected credentials.
RestartStream ==
    /\ reader' = Reader(IF authFailed THEN "ended" ELSE "starting", 0)
    /\ streamConnected' = FALSE

--------------------------------------------------------------------------------
(* async_setup and async_unload                                             *)

\* Variation: a wait that is over leaves its future behind.
KeepsFuture == UNCHANGED first

\* The finally block of the wait for the first device list.
DropsFuture == first' = "none"

\* async_unload: every task is cancelled.
UnloadTo(end) ==
    /\ stage' = end
    /\ DropsFuture
    /\ gatewayAvailable' = FALSE
    /\ reader' = Reader(IF reader.phase = "none" THEN "none" ELSE "ended", 0)
    /\ probe' = Idle
    /\ UNCHANGED <<streamConnected, delivered, listApplied, authFailed, probeFailures,
                   checkedRecently, gatewayUptime>>

\* GET /system/info and /system/uptime; then the stream is started.
SetupReads ==
    /\ stage = "reading"
    /\ \/ /\ up /\ ~rejects
          /\ gatewayUptime' = uptime
          /\ stage' = "waiting" /\ first' = "waiting"
          /\ reader' = Reader("starting", 0)
          /\ UNCHANGED <<streamConnected, delivered, listApplied, stateVars,
                         probe, probeFailures, checkedRecently>>
       \/ /\ ~up \/ rejects
          /\ UnloadTo("failed")
    /\ UNCHANGED gatewayVars

\* The outcomes of the first stream attempt that let setup go on.
\* Variation: any outcome does.
SetupMayGoOnAnyway == first # "waiting"

SetupMayGoOn == first = "list"

\* The wait for the first device list ends: with the list, with the error of
\* the first stream attempt, or after FIRST_DEVICE_LIST_TIMEOUT.
SetupWaits ==
    /\ stage = "waiting"
    /\ \/ /\ SetupMayGoOn
          /\ stage' = "loading" /\ DropsFuture
          /\ UNCHANGED <<readerVars, stateVars, probeVars>>
       \/ /\ ~SetupMayGoOn
          /\ UnloadTo("failed")
    /\ UNCHANGED gatewayVars

\* _async_load_profiles; then the timers run.  Only rejected credentials fail.
SetupLoads ==
    /\ stage = "loading"
    /\ \/ /\ stage' = "running"
          /\ UNCHANGED <<first, readerVars, stateVars, probeVars>>
       \/ /\ up /\ rejects
          /\ UnloadTo("failed")
    /\ UNCHANGED gatewayVars

\* The entry is unloaded, or its setup is cancelled.
Unload ==
    /\ ~Unloaded
    /\ UnloadTo("stopped")
    /\ UNCHANGED gatewayVars

--------------------------------------------------------------------------------
(* _async_run_stream                                                        *)

Alive == up /\ reader.conn = boot

\* _resolve_first_device_list.
ResolveFirst(result) == first' = IF first = "waiting" THEN result ELSE first

\* The loop starts an attempt, at once or after its pause.
Connect ==
    /\ reader.phase \in {"starting", "pausing"}
    /\ reader' = Reader("connecting", IF up THEN boot ELSE 0)
    /\ UNCHANGED <<setupVars, streamConnected, delivered, listApplied, stateVars,
                   probeVars, gatewayVars>>

\* The gateway can send on this stream.
Sends == /\ Alive
         /\ \/ reader.phase = "open"
            \/ reader.phase = "connecting" /\ ~rejects

\* A document; only a device list is what a waiting setup waits for.
Document ==
    /\ Sends
    /\ reader' = [reader EXCEPT !.phase = "open"]
    /\ streamConnected' = TRUE
    /\ delivered' = TRUE
    /\ gatewayAvailable' = TRUE
    /\ \/ listApplied' = TRUE /\ ResolveFirst("list")
       \/ UNCHANGED <<listApplied, first>>
    /\ UNCHANGED <<stage, authFailed, probeVars, gatewayVars>>

\* Applying a document raises an unexpected error: the stream counts as
\* connected, and is given up.
DocumentRaises ==
    /\ Sends
    /\ ResolveFirst("error")
    /\ reader' = Reader("pausing", 0)
    /\ streamConnected' = FALSE
    /\ delivered' = TRUE
    /\ UNCHANGED <<stage, listApplied, stateVars, probeVars, gatewayVars>>

\* HTTP 401: the reader ends.
StreamRejected ==
    /\ Alive /\ rejects
    /\ reader.phase = "connecting"
    /\ reader' = [reader EXCEPT !.phase = "ended"]
    /\ streamConnected' = FALSE
    /\ ResolveFirst("auth")
    /\ IF first = "waiting" THEN UNCHANGED stateVars ELSE HandleAuthFailure
    /\ delivered' = FALSE
    /\ UNCHANGED <<stage, listApplied, probeVars, gatewayVars>>

\* Variation: an attempt without a document leaves the availability alone.
AttemptEndsQuietly ==
    /\ ResolveFirst("error")
    /\ reader' = Reader("pausing", 0)
    /\ streamConnected' = FALSE
    /\ delivered' = (reader.phase = "open")
    /\ UNCHANGED gatewayAvailable

\* The stream ends or fails.  Without a document the gateway is unavailable.
AttemptEnds ==
    /\ ResolveFirst("error")
    /\ reader' = Reader("pausing", 0)
    /\ streamConnected' = FALSE
    /\ delivered' = (reader.phase = "open")
    /\ IF reader.phase = "open" THEN UNCHANGED gatewayAvailable
                                ELSE gatewayAvailable' = FALSE

\* Variation: a lost stream ends the reader, as rejected credentials do.
StreamLostForGood ==
    /\ ~Alive
    /\ reader.phase \in {"connecting", "open"}
    /\ ResolveFirst("error")
    /\ reader' = Reader("ended", 0)
    /\ streamConnected' = FALSE
    /\ delivered' = (reader.phase = "open")
    /\ gatewayAvailable' = FALSE
    /\ UNCHANGED <<stage, listApplied, authFailed, probeVars, gatewayVars>>

\* Nobody is at the other end: connection error, or no data for
\* STREAM_IDLE_TIMEOUT on a half-open connection.
StreamLost ==
    /\ ~Alive
    /\ reader.phase \in {"connecting", "open"}
    /\ AttemptEnds
    /\ UNCHANGED <<stage, listApplied, authFailed, probeVars, gatewayVars>>

\* The gateway closes the stream or answers it with an error.
StreamCloses ==
    /\ Alive
    /\ reader.phase \in {"connecting", "open"}
    /\ AttemptEnds
    /\ UNCHANGED <<stage, listApplied, authFailed, probeVars, gatewayVars>>

--------------------------------------------------------------------------------
(* _async_probe                                                             *)

\* Variation: no probe while the stream looks connected.
HealthTickWhenDisconnected ==
    /\ stage = "running"
    /\ ~streamConnected
    /\ probe.state = "idle"
    /\ probe' = [probe EXCEPT !.state = "asked"]
    /\ UNCHANGED <<setupVars, readerVars, stateVars, probeFailures, checkedRecently,
                   gatewayUptime, gatewayVars>>

\* _async_health_tick: one probe at a time.
HealthTick ==
    /\ stage = "running"
    /\ probe.state = "idle"
    /\ probe' = [probe EXCEPT !.state = "asked"]
    /\ UNCHANGED <<setupVars, readerVars, stateVars, probeFailures, checkedRecently,
                   gatewayUptime, gatewayVars>>

\* The gateway's side of GET /system/uptime; the answer may be old on arrival.
ProbeMeetsGateway ==
    /\ probe.state = "asked"
    /\ probe' = IF ~up THEN [state |-> "failed", uptime |-> 0]
                ELSE IF rejects THEN [state |-> "rejected", uptime |-> 0]
                ELSE [state |-> "answered", uptime |-> uptime]
    /\ UNCHANGED <<setupVars, readerVars, stateVars, probeFailures, checkedRecently,
                   gatewayUptime, gatewayVars>>

ProbeAnswered ==
    /\ probe.state = "answered"
    /\ probe' = Idle
    /\ probeFailures' = 0
    /\ gatewayUptime' = probe.uptime
    /\ IF probe.uptime < gatewayUptime
       THEN RestartStream /\ UNCHANGED gatewayAvailable
       ELSE /\ gatewayAvailable' = (gatewayAvailable \/ streamConnected)
            /\ UNCHANGED <<reader, streamConnected>>
    /\ UNCHANGED <<setupVars, delivered, listApplied, authFailed, checkedRecently, gatewayVars>>

ProbeRejected ==
    /\ probe.state = "rejected"
    /\ probe' = Idle
    /\ HandleAuthFailure
    /\ UNCHANGED <<setupVars, readerVars, probeFailures, checkedRecently, gatewayUptime,
                   gatewayVars>>

\* _probe_failures += 1, where only reaching CheckAfterFailures matters.
Counted(failures) == IF failures < CheckAfterFailures THEN failures + 1 ELSE failures

\* _async_check_generation up to its await.
AsksForGeneration ==
    /\ ChecksGeneration /\ ~authFailed /\ ~checkedRecently
    /\ probeFailures' = CheckAfterFailures

ProbeFailed ==
    /\ probe.state = "failed"
    /\ IF gatewayAvailable
       THEN gatewayAvailable' = FALSE /\ RestartStream
       ELSE UNCHANGED <<gatewayAvailable, reader, streamConnected>>
    /\ probeFailures' = Counted(probeFailures)
    /\ IF AsksForGeneration
       THEN probe' = [probe EXCEPT !.state = "checking"] /\ checkedRecently' = TRUE
       ELSE probe' = Idle /\ UNCHANGED checkedRecently
    /\ UNCHANGED <<setupVars, delivered, listApplied, authFailed, gatewayUptime, gatewayVars>>

\* The newer generation answers, or it does not (yet).
GenerationChecked ==
    /\ probe.state = "checking"
    /\ probe' = Idle
    /\ \/ migrated /\ HandleAuthFailure
       \/ UNCHANGED stateVars
    /\ UNCHANGED <<setupVars, readerVars, probeFailures, checkedRecently, gatewayUptime,
                   gatewayVars>>

CheckIntervalPasses ==
    /\ checkedRecently
    /\ checkedRecently' = FALSE
    /\ UNCHANGED <<setupVars, readerVars, stateVars, probe, probeFailures, gatewayUptime,
                   gatewayVars>>

\* HTTP 401 to a radio request or to the refresh of the system information.
RequestRejected ==
    /\ stage = "running"
    /\ up /\ rejects
    /\ HandleAuthFailure
    /\ UNCHANGED <<setupVars, readerVars, probeVars, gatewayVars>>

--------------------------------------------------------------------------------
(* The gateway and its network                                              *)

GatewayLost ==
    /\ up
    /\ up' = FALSE
    /\ UNCHANGED <<setupVars, readerVars, stateVars, probeVars, boot, uptime, rejects, migrated>>

\* The network is back, or the gateway has restarted.
GatewayBack ==
    /\ ~up /\ ~migrated
    /\ up' = TRUE
    /\ \/ UNCHANGED <<boot, uptime>>
       \/ boot < MaxBoots /\ boot' = boot + 1 /\ uptime' = 0
    /\ UNCHANGED <<setupVars, readerVars, stateVars, probeVars, rejects, migrated>>

UptimeGrows ==
    /\ up /\ uptime < MaxUptime
    /\ uptime' = uptime + 1
    /\ UNCHANGED <<setupVars, readerVars, stateVars, probeVars, up, boot, rejects, migrated>>

CredentialsChanged ==
    /\ ~rejects
    /\ rejects' = TRUE
    /\ UNCHANGED <<setupVars, readerVars, stateVars, probeVars, up, boot, uptime, migrated>>

Migrates ==
    /\ ChecksGeneration /\ ~migrated
    /\ migrated' = TRUE /\ up' = FALSE
    /\ UNCHANGED <<setupVars, readerVars, stateVars, probeVars, boot, uptime, rejects>>

--------------------------------------------------------------------------------
Setup  == SetupReads \/ SetupWaits \/ SetupLoads
Stream == Connect \/ Document \/ DocumentRaises \/ StreamRejected \/ StreamLost \/ StreamCloses
Probe  == ProbeMeetsGateway \/ ProbeAnswered \/ ProbeRejected \/ ProbeFailed
          \/ GenerationChecked
Gateway == GatewayLost \/ GatewayBack \/ UptimeGrows \/ CredentialsChanged \/ Migrates

Next == Setup \/ Unload \/ Stream \/ HealthTick \/ Probe \/ CheckIntervalPasses
        \/ RequestRejected \/ Gateway

\* An attempt that finds nobody fails; an open stream that nobody serves is idle
\* for STREAM_IDLE_TIMEOUT.
ConnectFails == reader.phase = "connecting" /\ StreamLost
IdleTimeout  == reader.phase = "open" /\ StreamLost

\* The loop runs what is ready; timers and pauses elapse, connecting ends; a
\* gateway that answers again and again sends its device list in the end.  That
\* STREAM_IDLE_TIMEOUT elapses is assumed only where a property needs it.
Fairness ==
    /\ WF_vars(SetupReads) /\ WF_vars(SetupWaits) /\ WF_vars(SetupLoads)
    /\ WF_vars(Connect) /\ WF_vars(StreamRejected) /\ WF_vars(ConnectFails) /\ SF_vars(Document)
    /\ WF_vars(HealthTick) /\ WF_vars(Probe)

Spec == Init /\ [][Next]_vars

FairSpec == Spec /\ Fairness

--------------------------------------------------------------------------------
(* Properties                                                               *)

\* A set up entry is never left without a reader unless its credentials were
\* rejected: no order of probe, restart, failure and setup step ends the last
\* one (_restart_stream, _async_run_stream).
ReaderKept == stage = "running" /\ ~authFailed => reader.phase \notin {"none", "ended"}

\* The entities are available only if the last decided stream attempt brought
\* a document, whatever probes and rejected requests did to the flag since
\* (_set_gateway_available and its callers).
AvailableAfterDocument == gatewayAvailable => delivered

\* Setup goes on only with a device list, even if the stream fails right after
\* it or the first attempt is decided while setup is not running yet
\* (_resolve_first_device_list).
SetupNeedsList == stage \in {"loading", "running"} => listApplied

\* What the connection grants, available entities and a finished setup, rests
\* on documents that came, whatever was promised, probed or cut off meanwhile.
DocumentsComeFirst == AvailableAfterDocument /\ SetupNeedsList

\* While the gateway stays away, the entities become and stay unavailable,
\* however long a stream that nobody serves looks open: the probe notices
\* (_async_probe, _set_gateway_available).
NoticesOutage == <>[]~up => <>[]~gatewayAvailable

\* Once the gateway stays reachable, the entities become available with a
\* stream to the gateway as it runs now, not to its earlier boot.  A restart
\* that the uptime does not show is noticed by STREAM_IDLE_TIMEOUT alone.
Live == gatewayAvailable /\ reader.phase = "open" /\ reader.conn = boot
Recovers ==
    WF_vars(IdleTimeout) /\ <>[]up => [](stage = "running" => <>(Live \/ authFailed \/ Unloaded))

\* What the protocol contract says of rejected credentials: no further stream
\* attempt until reload.
NoAttemptAfterRejection ==
    [][authFailed => ~(reader.phase # "connecting" /\ reader'.phase = "connecting")]_vars
================================================================================
