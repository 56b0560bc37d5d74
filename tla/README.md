# Verification of the OPUS GreenNet integration

TLA+ modules, TLC configurations and TLAPS proofs for `custom_components/opus_greennet`, the Home
Assistant integration of OPUS GreenNet gateways (EnOcean). The integration is one Python package that
runs in the asyncio loop of Home Assistant. It has no threads of its own: a step of every module is the
code between two `await`s, and the interleavings are those of coroutines, timers, cancellations and of
what the gateway sends.

Paths below are relative to `custom_components/opus_greennet/` unless they start with `docs/` or `tests/`.

## 1. Inventory

| Component | State | Operations | Hard behaviour | Correct if |
|---|---|---|---|---|
| Radio queue (`api.PriorityLock`, `coordinator._async_radio_request`) | the lock flag, the heap of waiters with futures, the generations a request captured | `acquire`, `release`, the request with every outcome | cancellation of a waiter that was already chosen; an outage, a removal or the unload while it waits | the slot has one owner, is passed by priority and arrival, is never lost; nothing is sent that waited through an outage |
| Connection lifecycle (`async_setup`, `_async_run_stream`, `_async_probe`, `_async_check_generation`, `_handle_auth_failure`, `async_unload`) | stage of the setup, stream reader and its generation, probe, availability, first device list | setup, stream attempts with pauses, health ticks, restart of the stream, reauthentication, migration check | half-open connections, restarts of the gateway between probes, rejected credentials on one of several paths, setup racing the first attempt | a running entry keeps a reader; availability is earned by documents; outages are noticed and returns are recovered from |
| Commands, feedback and status checks (`async_send_command`, `_handle_telegram`, `_is_own_echo`, `_schedule_reconciliation_queries`, `_async_reconcile_status`, estimates of `enocean_device.py`) | calls under way, feedback revisions, echoes expected, pending fields and timers per channel, origin of the shown value | command, report, foreign command, timer, check, error, outage | partial reports, reports before the acknowledgement, a check that waits, coalesced timers, echoes taken for foreign commands and the reverse | what is assumed is confirmed in the end; reports win over estimates; the radio is not spent on checks nobody needs |
| Cover travel (`CoverMovement`, `_finish_cover_movement`, `cover.py`) | one movement per channel with its timers, travel times, origin | move, stop, timer, report, error | a run that ends by time while reports or a newer command arrive | the shown position ends at the last commanded or reported one |
| Device settings (`_async_write_setting`, `_guard_confirmed_setting`, `_without_stale_settings`, `async_reread_device_settings`, the store) | the setting lock, guards with older values, their saved copy, the count of writes | write with read-back, read on request, list, restart, removal | the gateway's cached copy is older than a confirmed write; a read spans writes; restarts | no list brings back an older value; the protection does not hide the truth for good |
| Device registry (`_apply_device_list`, `_lookup_unknown_device`, `async_forget_device`) | `devices`, times of telegrams, lookups under way | authoritative and periodic lists, lookup, removal | an answer that is older than a telegram; a lookup that ends after a removal | newer state is not undone; a device is announced once |
| Gateway client (`OpusGatewayClient`) | the token and its lock, the parser of the stream | login, request, stream | several requests meet an expired token; documents cut at any byte | one login for all; every document is delivered once and whole |
| Wire format and protocol (`wire.py`, `protocol.py`, `const.py`) | none | pure conversions and tables | two readings of one document: what it sets and what it confirms | what a report confirms, it shows |
| Device and channel state (`enocean_device.py`) | reported values, `state_revision` per channel | update, estimate | selectors of channels, unusable values, profiles that replace EEP tables | see commands |
| Door handle answers (`lock.py`) | the settle time, the last request, what the gateway stores for the sleeping handle | lock, unlock, the handle fetches | quickly repeated requests, cancelled or refused ones | the last one wins |
| Entity platforms (`binary_sensor.py`, `sensor.py`, `lock.py`, ...) | which unique IDs are reserved, what waits for data, what is being removed | setup, signals of new and removed devices, reload | an entity leaves in several steps while its device is found again | a known device has its entities, none is submitted over one that is leaving |
| Registry migration (`entity.migrate_output_entities`) | the entity registry | one migration per setup | a profile that can be read at one start and not at the next | no output loses the entity its user knows |
| Cover run times (`CoverRun`, `OpusGreenNetCoverRunSensor`) | the run under way, the last runs, the restored value | send, acknowledge, report, stop, query, restore | an acknowledgement after the report or after the next command | only undisturbed, complete runs are recorded |
| Configuration and reauthentication flows (`config_flow.py`, `_async_locate_legacy_gateway`) | the connection data of the entry, the step of a flow | user, discovery, certificate review, reauthentication, reconfiguration, search | the gateway moves, is updated or reset between two steps; two flows at once | what is stored is what a gateway answered to, with a certificate the user confirmed; what answers that cross may mix is bounded |
| Discovery, write access, diagnostics and radio journal | one option, read-only records | I/O, records | - | - |

How they interact. Entities call the coordinator (`async_send_command`, `async_set_device_parameter`,
`async_press`). Every PUT, status query and ReCom request takes the single slot of the radio queue; GET
requests that stay in the gateway (`/devices`, `/system/uptime`) do not. The stream reader hands each document to
`_handle_document`, which updates devices and informs entities by dispatcher signals. `_set_gateway_available(False)`
is the hub of failures: it raises the outage generation that the queued requests compare, drops timers and
checks, and is reached from the stream, the probe, a rejected request and the unload. `async_forget_device`
raises a device's generation for the same comparison.

The hazards at their lines are listed in `PROJECT.json`; the properties are aimed at them.

## 2. Modules

| Module | Stands for |
|---|---|
| `RadioSlot` | what the queue promises: one slot, passed by priority and arrival |
| `RadioQueue` | `PriorityLock` and `_async_radio_request` |
| `StreamLifecycle` | setup, stream reader, probe, availability, unload, with the gateway as environment |
| `CommandFeedback` | commands, reports, echoes, estimates and delayed checks of one channel |
| `SettingGuards` | write, read-back, protection, re-read and restart of one setting |
| `CoverTravel` | the movement of one blind, its estimate and the checks that wait for it |
| `CoverRuns` | the measured run times of one blind and the sensor that shows them |
| `HandleAnswer` | the lock entity of one door handle |
| `DeviceRegistry` | how one device becomes known, is refreshed, looked up and removed |
| `EntityPlatforms` | the entities of one device across removal, rediscovery and reload |
| `OutputMigration` | the registry entries of one actuator across restarts |
| `DeviceState` | one report applied to channels, and what it confirms |
| `GatewayClient` | token, login lock, requests and the stream's connection |
| `DocumentDelivery` | what the stream promises its reader: documents in order, for good, and none after an error |
| `DocumentSplitter` | `JsonDocumentSplitter` |
| `ConfigFlow` | the flows that store and change a connection |
| `MCRadioQueue`, `MCCommandFeedback`, `MCSettingGuards`, `MCDevices`, `MCGateway` | the instances TLC checks |
| `RadioQueueProofs`, `StreamLifecycleProofs`, `CommandFeedbackProofs`, `SettingGuardsProofs` | the theorems about these four |
| `CoverProofs` | the theorems about `CoverTravel` and `CoverRuns` |
| `DevicesProofs` | the theorems about `DeviceRegistry`, `HandleAnswer`, `EntityPlatforms`, `OutputMigration`, `DeviceState` and the run of all components (`MCDevices`) |
| `GatewayProofs` | the theorems about `GatewayClient`, `ConfigFlow`, `DocumentSplitter` and the run of all three (`MCGateway`) |
| `Iteration` | facts about recursive functions that the proofs about reports and documents rest on |

Definitions marked `Variation:` are deliberate faults; they show that a property notices them and are
used nowhere in the specifications.

### RadioQueue

A request is one call of `_async_radio_request`. `stage` is where its coroutine is, `future` the future it
awaits in the heap: `pending`, `handed` (`release` chose it) or `cancelled`. `task.cancel()` only marks
(`Cancel`, `CancelTasks`); the coroutine sees it when the loop resumes it (`WakeCancelled`,
`WakeCancelledOwner`, which must hand the lock on). `Release` pops entries until a live one, as the code does, so
entries of cancelled waiters go with it. `CurrentGeneration`, `Valid` and `Refusal` are
`_request_generation` and `_check_request_valid`; they are evaluated on entry and again when the slot is
obtained. `disturbed` is history: the requests during whose wait the gateway or the device went away.

### StreamLifecycle

`reader` is the task of the newest stream generation and the boot of the gateway it is connected to; a replaced
reader is cancelled at its await and runs nothing more. `first` is the future `_first_device_list`.
`ProbeMeetsGateway` fixes a probe's answer when the gateway gives it, `ProbeAnswered` and the others apply it
later, so it can be old. `GatewayLost`, `GatewayBack`, `CredentialsChanged` and `Migrates` are the
environment. The lengths of pauses and timeouts are abstracted: they elapse at any time.

### CommandFeedback

A shown value is represented by where it comes from (`source`: a report, an estimate, a foreign command), a
revision counter by what comparing it would find (`heard`, `fresh`). The radio queue is taken from
`RadioQueue` as a promise: one request on the radio, commands before checks, nothing survives an outage in the
queue. A request that finds the radio idle for this device may still have to wait for those of others.
`Schedule`, `Timer`, `CheckServed` and `CheckEnds` are the delayed checks with the coalescing flag
`_reconcile_needed` (`needed`). The module stands for one channel; blinds that travel are `CoverTravel`'s.

### SettingGuards

`stored` is what the device holds, `cache` the gateway's copy that device lists carry, `shown` what each device object
shows. `Stale` and `Kept` compute a guard, `Repeats` asks it, `ApplyListed` is a list applied. A write is `Call`,
`Locked` (the setting lock), `WriteAnswered`, `ReadBack`, each step with its failure. `Press`, `RereadContinues`,
`RereadEnds` read settings on request in two requests. `RereadContinues` uses the order of the radio queue: requests
of equal priority are served in their order, so a read-back that was queued before the press has ended
when the settings arrive. Without that order the old value can return (the read ends a protection that does not
exist yet, and the read-back then finds nothing to protect): the protection rests on the queue's
fairness. `Restart` covers a clean stop, a crash within the save delay and an unreadable store. `trusted` is
history: since Home Assistant, gateway and device last agreed, every change of the setting was a write confirmed
here and nothing ended the protection (time, a settings read, a removal).

### CoverTravel

`movement` is the entry of `_cover_movements` or `Still`. The configured travel time is `Bottom` ticks, so one tick moves
the estimate by one position; `CoverTick` is time, `CoverTravelled` the timer of `_finish_cover_movement`. `CoverAnswer` holds
the three ends of a command (accepted, rejected, failed), each with what it does to the movement the command started and to the
earlier one it replaced. `CoverReport` is a report of position or angle, alone or together; `CoverOutbound` an echo or a
foreign command; `via` a reference run that passes one end before its target. `bound` is history: where the last acknowledged or
foreign order sent the blind.

### CoverRuns

A run begins when a position command is sent (`Started`), but is kept only from its acknowledgement; `ends` of a report are
compared with `Tolerance`. `since` is history: the last position command, its age, and whether anything of ours disturbed it since. A
foreign status query and a report at the target that the command did not cause cannot be told apart by the code; the property
claims nothing about them.

### HandleAnswer

Requests are numbered in the order of their calls. `SendAnswer` is the check after the settle sleep (`_desired` is still
this request's); cancellation during the sleep leaves `_desired` set, which `cutShort` remembers.

### DeviceRegistry

The state of the device is a version number: what the gateway has is `reality`, and a document or an answer carries
the version of the moment it was made. `refresh` and `lookup` are GET requests with three phases, so a document can overtake them.
`object` numbers the objects that have stood for the device, `entity` is the one the platform's entity holds.

### EntityPlatforms and OutputMigration

Home Assistant removes a live entity in two steps (`Deletes`, `EntityGone`), and `async_finish_removal` runs later still
(`FinishesRemoval`). `spoiled` is history: unique IDs submitted while the former entity was there, which Home Assistant refuses.
Only binary sensors hold their reservations until then; `SensorsFollowDevice` excuses the IDs that sensors and locks submit
too early. `OutputMigration` follows the entries of earlier releases by their name through setups (`SetsUp`), each with any outcome of reading the
profile.

### DeviceState

A report is a list of functions with a channel selector each; the module applies it as `update_from_telegram` does and
computes `confirmed_fields_by_channel` separately, as the code does. `Applied` is the loop over the functions, as a recursive function
of how many of them were applied; `Says` are the functions of a report that set one field.

### GatewayClient

A call is `lock` (it waits for the login lock), `login`, `sending`, `open` (a stream) or done. The token is the number of its
login. `reply` is what the gateway has answered to the request on the wire, `begun` an answer that broke off in its body. `SentAgain` is aiohttp's second
attempt on a broken connection, `BrokenAs` what the caller is told. `lockQueue` is asyncio.Lock's queue of waiters, with cancellation. aiohttp and the lock are external, modelled as the client uses them.

### DocumentSplitter

Bytes are classes: brackets, quote, backslash, space, a plain character, the two bytes of a longer one. What is sent is a
sequence of documents, so the reference (`Characters(sent[i])`) knows them without looking at brackets. That the documents are JSON is the
assumption `SplitterAssumption`: by `PlacesOf`, the grammar's own count of open brackets, strings and escapes, a document (`WellFormed`) is
complete with its last byte and not before. `GatewaySends` begins a document, `Feed` is one
byte of a chunk, `ChunkEnds` may come after any of them, and `StreamFinishes` is `finish`. `DocumentDelivery` sees of it what was sent, what `feed`
has returned and how the stream ended.

### ConfigFlow

`at` says which gateway answers at each host, if any, and Home may answer nowhere. `gateway` is what Home and the other gateway are:
generation, certificate and the password each takes (`foreign` is one that nobody enters here). A wrong password is answered with `auth`
by either of them, so a search whose only announced address is a foreign gateway ends with the guess of `async_locate_gateway`.
`WorldChanges` changes the network, or Home, between any two steps. Which addresses browsing finds (`announced`) is open: none, some, all.
A flow asks (`detecting`, `reading`, `asking`) and stores later what it was answered. `verified` (connections Home answered to), `confirmed`
(certificates) and `guessed` (hosts that rejected the default password as the only announced one) are history. Host names, the test for a local address and the entries of other gateways are left out.

### MCDevices and MCGateway

The components with state of their own that share nothing are checked in one run each. `component` chooses the one that runs; the
others stay at an initial state of theirs, so the state space is the sum of theirs, every behaviour of the whole is one of each component,
and the fairness is the running component's. `Gateway` takes the two hosts as symmetric: no definition names one, and the states of
the temporal property, those of the client, hold no host, so none of them stands for another. `MCHomes` and `MCOthers` choose the
gateways it starts with; the module itself allows all.

## 3. What the runs show

| Run | Module | Shows |
|---|---|---|
| `RadioQueue` | `MCRadioQueue` | `SlotOwnedOnce`, `SentUndisturbed`, refinement of `RadioSlot`, `EveryRequestEnds` |
| `StreamLifecycle` | `StreamLifecycle` | `ReaderKept`, `DocumentsComeFirst`, `NoticesOutage`, `Recovers` |
| `CommandFeedback` | `MCCommandFeedback` | `AssumedIsPending`, `ReportBeatsEstimate`, `ChecksAreNeeded`, `PromisedChecksAreMade` |
| `SettingGuards` | `MCSettingGuards` | `OldValueStaysOut`, `RereadIsNotOlder` |
| `SettingsSettle` | `MCSettingGuards` | `SettledIsShown` |
| `Devices` | `MCDevices` | blinds: `ChecksWaitForTravel`, `OnlyOrdersAreAssumed`, `TravelEnds`, `RunsAreMeasured`; handles: `LastAnswerWins`; registry: `EntityHoldsDevice`, `RefreshTakesNothingBack`, `PairedIsFound`; entities: `BinaryNeverSpoiled`, `BinaryComesBack`, `SensorsFollowDevice`, `OutputsKeepEntities`; reports: `ConfirmedIsShown` |
| `Gateway` | `MCGateway` | client: `OneLogin`, `RadioTakenOnce`, `LoginLetsOthersGoOn`; stream: `SplitsAsSent`; flows: `StoredAsAnswered`, `OnlyConfirmedCertificates` |
| `RadioQueueCancel`, `StreamRejection`, `LostCheck`, `IgnoredCommand`, `ManyChanges` | | the disagreements of section 6 |

Every passing run but `SettingsSettle`, which has one question, also checks the module's type invariant.

Bounds.
- `RadioQueue`: two commands and one background check for two devices, of two priorities, two requests of
  one device, two of one priority; one outage, one removal per device. Three requests are what the hand-over
  needs: one that owns, one that is chosen and cancelled, one behind it.
- `StreamLifecycle`: two boots, uptime 0 or 1, so that a reported uptime can fall and can fail to
  fall after a restart; the generation check after two failures. `GatewayLost` and `GatewayBack` are unbounded.
- `CommandFeedback`: two fields, a command for one, a command for both, a foreign command for the other, one outage. The two
  timers per schedule are the code's.
- `SettingGuards`: three values (the cached one, the one before and the one after), two entities that write
  without a bound on how often, one removal, unbounded restarts, and `MaxStale = 4` as in the code. Values and
  entities are symmetric; the run has no liveness property. `SettingsSettle` has no symmetry and is smaller: two values, an
  entity, an action, no removal, unbounded restarts.
- `ManyChanges`: six values and one entity; the constraint `OnlyWrites` narrows the search to one write after the
  other, the behaviour it finds is one of the unconstrained specification.
- `Devices`: a blind with three positions and a grace of one tick; its scenarios are two position commands in opposite directions, a
  position command and a tilt, and a position command with a stop and a foreign run over an end. Run times: three positions, tolerance 1,
  timeout 1 tick, two orders (a run and what replaces it). Handle: three requests (one that settles, one that is sent, one on
  its way). Registry: two changes of the device, two lookups, two documents on their way, one removal. Entities: two deletions and one reload,
  as many as it takes to delete again what was rediscovered during its removal. Migration: three legacy channels on actuators of one or
  two outputs. Reports of two functions.
- `Gateway`: a radio request, a read and a stream, and two tokens, so that a rejected token is replaced while others still carry it; three
  documents out of six, one of them longer than the limit of seven characters, cut at any byte; two hosts, one for Home and one for another gateway, and one change, which is what a check followed by a
  use needs. Home starts with either password or as a newer generation with the user's; the other gateway rejects every password entered, or
  is a newer one that takes the user's.

Fairness.
- `RadioQueue`: the loop runs a coroutine that is ready, and every HTTP request ends by its timeout (`RECOM_TIMEOUT` and
  the client's timeouts). No fairness for new requests, cancellation, outage or return.
- `StreamLifecycle`: the same for setup, reader and probe, timers elapse, connecting ends. `Document` is strongly fair: a gateway that
  stays up and is asked again and again for its stream delivers its device list at some time. That an open stream nobody serves ends by
  `STREAM_IDLE_TIMEOUT` (15 minutes) is not part of the fairness: `NoticesOutage` holds without it, by the probe, and `Recovers` names it as
  its premise, because a restart after which the uptime has already grown past the last reading is noticed in no other way. `StreamCloses`,
  `RequestRejected` and the environment are not fair.
- `CommandFeedback`: requests are served and end, timers elapse; no report, echo or list is ever owed.
- `Devices`: time passes, a travel timer fires, a request on the radio ends (`CoverTick`, `CoverTravelled`, `CoverAnswer`); the periodic refresh is
  asked and what it brought is applied, and its answer is strongly fair (`RefreshAnswered`): a gateway that is asked every time answers at some
  time; the removal of an entity and the task behind it end (`EntityGone`, `FinishesRemoval`). Nothing is owed by the device or the user.
- `Gateway`: a free lock resumes its next waiter (`LockTaken`), and a login ends by its timeout if by nothing else (`LoginFails`).
- `SettingGuards`: the refresh timer elapses, an answer to it is applied if it arrives again and again, the 26 hours pass. Writes and stream
  lists are not fair.

Deadlock is not checked where the system may really stop (all calls done, entry unloaded): `RadioQueue`, `StreamLifecycle`,
`CommandFeedback`, and `Devices` and `Gateway`, whose components end at their bounds. `SettingGuards` cannot stop and is checked.

## 4. Proofs

The theorems hold for every value of the constants under the named assumptions of each module (types of the constants, bounds
that are naturals).

- `RadioQueueProofs`. `TypeCorrect`; `OneOwner`: `SlotOwnedOnce` is not inductive, because a hand-over is right only
  if the heap holds exactly the queued requests that are not chosen. `SlotInv` adds that (`HeapOfQueued`,
  `HeapComplete`), that futures of requests outside the queue are unused, and that a free lock leaves no waiter behind.
  `NothingDisturbedIsSent`: by `GenerationInv`, a disturbed request's captured generation differs from the present one in one
  of its two parts, or the coordinator is unloaded or unavailable. `Refinement`: every step is one of `RadioSlot` or a stutter;
  `TicketInv` gives the newcomer the last ticket.
- `StreamLifecycleProofs`. `ConnectionTypes`; `ReaderIsKept` by `ReaderInv` (which step a reader can be in at each stage
  of setup); `AvailabilityIsEarned` by `FirstInv` and `DeliveredInv` (what the future of the first list and a probe that is under way
  say of the last attempt); `SetupHasItsList` by `ListInv`; `DocumentsFirst` is the two together, as the run checks them.
- `CommandFeedbackProofs`. `FeedbackTypeCorrect`; `AssumedStaysPending`, `OnlyNeededChecks`, `ReportsWin`, `NothingNeeded` by
  `FeedbackInv`: a timer or a wanted check means a pending field (`WantedInv`); a call that the entity's snapshot still
  fits has heard nothing (`FreshInv`); and the first property itself.
- `SettingGuardsProofs`. `RereadStaysCurrent`: a read that a write has overtaken is marked as overlapped (`ReadInv`), so
  its values are dropped. `SettingTypes` and `OldValuesStayOut`, by `ProtectionInv`. That an old value stays out is not inductive: at every
  step the gateway's copy must be current or protected, and during a read-back possibly still the value that it is about to protect
  (`CacheInv`); answers on their way must be no older than the copy, and a read that no write overlapped must have read the present
  value (`TrustInv`, `UndisturbedRead`); whoever writes the present object must see a reading of it (`ObjectInv`); one entity writes at
  a time (`OneWriter`). Lemmas on sequences say that `Stale` protects exactly the earlier values and the one shown before, without the one
  written, and that `Kept` loses none when there is room; when there is none, `dropped` says so and the theorem claims nothing (`ManyChanges`).
- `CoverProofs`. `ChecksWait` (no check while the blind travels) and `AssumedWasOrdered` by `CoverInv`: a movement belongs to a call,
  lasts, and is given up when it is over (`TravelInv`); one command is on the radio (`OneOnRadio`), and while it is, any movement under way is the
  one it would make (`SendingInv`); an accepted movement goes where the last order sent the blind (`BoundInv`); the checks are due no earlier than
  the travel ends (`WaitInv`, of which `ChecksWaitForTravel` is the visible half). `RunsMeasured`, by `TimingInv`, which ties the run under way, and
  what an unanswered command may begin, to the last order: a timed run that nothing disturbed began with it, at its age.
- `DevicesProofs`.
  - Registry: `EntityIsCurrent` and `LateRefresh`, by `RegistryInv`: no document is newer than the gateway, and a refresh that no telegram
    followed is no older than the last telegram (`TimeInv`); the entity holds the present object in every state. `RegistryTyping` bounds what the
    types leave open: versions by what the gateway has been through, objects by the removals (`NotNewerInv`).
  - Handle: `LastAnswer`, by `AnswerInv`: requests are made and settle in their order (`MadeInOrder`, `SettledInOrder`), so whatever is still
    sending or sleeping is older than the last one or is the last one; a cancelled sleep is over (`CutShortIsOver`).
  - Entities: `NoBinarySpoiled` and `EntitiesFollow`, by `PlatformsInv`: every binary sensor that Home Assistant has is tracked, and none is live
    during a removal (`BinaryInv`); nothing is remembered of a device that is gone (`ForgottenInv`); who may still teach the platforms something
    has a listener (`ListenInv`); what is remembered as added is there or came too early (`AddedInv`).
  - Migration: `OutputsKept`, for any number of channels, from the types alone: it is a fact about each setup, whatever the profile and the
    tables were before. Its one exception, an output that a profile without outputs leaves to the EEP tables and that they do not tell of,
    is what `TellsOf` says.
  - Reports: `ConfirmedShown`, for reports of any length. After each function of the loop, the fields of a channel show what the last usable
    function among those applied said, and the revision has risen (`Tells`), by induction on how many were applied.
  - All together: `DevicesImplement`, a behaviour of `DevicesSpec` is one of each component's specification, from which `DevicesTyped` and
    `DevicesKeep` say of the run `Devices` what the others say of the components.
- `GatewayProofs`.
  - Client: `OneAtATime` and `TakenOnce` by `ClientInv`: the holder of the lock is the one that logs in and the token is gone meanwhile
    (`LoginInv`), the waiters of the lock are exactly the calls that wait, each once (`QueueInv`), and what was not answered or was rejected has not
    been acted on (`TakenInv`). `TokenTypes` says that the client and its calls know only tokens the gateway has issued.
  - Flows: `StoredFromAnswers` and `CertificatesConfirmed` by `FlowInv`. `StoredFromAnswers` claims neither that every stored connection was
    verified nor that an older answer never replaces a newer connection, because the code does both (section 6); it says that nothing else is
    stored: a whole connection that Home answered to, the guess in an entry without a connection, or, when an answer crosses another flow's
    update, such a connection, with its own generation and certificate or with the updated entry's. The stored certificate is right only because everything on its way to the
    entry was confirmed too: the connection a form reads with, the one it trusts, the entry an announcement started from (`ConfirmedInv`); and an
    answered announcement was verified (`DiscoveryInv`).
  - Stream: `SplitWhole`, for any well-formed documents, any chunks and any limit, by `SplitInv`: what has not arrived is the end of the last
    document (`StreamInv`); in a document the scanner's depth, string and escape are the grammar's, and what it keeps are the characters so far
    (`ScannerInv`); what it has found is what was sent (`FoundInv`); it fails only for a document that is too large or cut off (`EndInv`).
    `SplitterDelivers`: from the same invariant, every step is one of `DocumentDelivery` or a stutter. A fault in a chunk costs the complete
    documents of that chunk, which the abstract `Break` allows; what was returned before is never taken back, and nothing follows it. This
    refinement (`DeliversAsPromised`) is proved and no run checks it; the run checks `SplitsAsSent`, which rests on the same invariant.
  - All together: `GatewayImplements`, `GatewayTyped` and `GatewayKeeps`, as for the devices.

What a loop computes is proved without the induction theorems of the library, whose argument is an operator: `Applied`, `PlacesOf` and
`CharactersOf` are recursive functions, `Iteration` derives from the well-foundedness of the naturals that a set with 0 and every successor holds all of them
(`Induction`), and that a function given step by step exists (`Iterates`); the proofs then speak of the set of indices at which a fact holds.

Every safety invariant, action property and refinement that a passing run checks is thus stated by a theorem, too. The assumptions are
those of the modules: the constants have their types, bounds are naturals, and the gateway's documents are well-formed.

Only model-checked are the nine liveness properties (`EveryRequestEnds`, `NoticesOutage`, `Recovers`, `PromisedChecksAreMade`,
`SettledIsShown`, `TravelEnds`, `PairedIsFound`, `BinaryComesBack`, `LoginLetsOthersGoOn`): fairness and ENABLED are beyond the prover. The five disagreements are counterexamples of TLC.

## 5. Not modelled

- Settings: the repeater mode and the routing have write paths of their own, and the conflicts between settings are one
  nondeterministic refusal in `SettingGuards`.
- What an entity shows of its device (the projections of `entity.py`, units, rounding, the readings tables) and how readings are scaled:
  pure functions of the state that the other modules describe.
- `wire.py`, the EEP tables and the validation of services: pure conversions. What they say of a command, its fields and its
  signature, is a constant of `CommandFeedback` and `CoverTravel`.
- The options flow, the texts of forms, mDNS, name resolution, the test for a local address, TLS and HTTP: I/O, or stateless checks.
- Write access, diagnostics and the radio journal: one option and records that decide nothing.
- The lengths of delays are abstracted everywhere except for the travel of blinds and the measured run times, which count ticks.
- A crash between two saves of restored data (run times, entity states) is not modelled; the settings' store is.

Gaps inside modelled parts, which a reader should know: Home Assistant's removal of entities is atomic with the deletion of the
device in `EntityPlatforms`, and the deletion of a single entity is left out; `CoverTravel` and `CommandFeedback` describe the same delayed checks from two
sides and are not composed; the components of `MCDevices` and `MCGateway` run one at a time because they share no state.

## 6. Disagreements found

1. A waiter of `PriorityLock` that is cancelled while waiting can end with `ValueError` instead of `CancelledError`
   (`RadioQueueCancel`; `api.py:396`).
2. After a 401 to a request or probe the stream reader makes further attempts, which the protocol contract excludes
   (`StreamRejection`; `coordinator.py:755`).
3. A timer that fires while a status check is on the radio marks the channel and starts no new check, unlike
   the comment says (`LostCheck`; `coordinator.py:1831`).
4. A command of another controller that arrives while a request of ours for the device is under way is neither shown nor
   checked (`IgnoredCommand`; `coordinator.py:1362`). The docstring of `_handle_telegram` and `docs/how-it-works.md:141-143` say that it
   is; `docs/quality/protocol-contract.md:236-237` documents the ignoring, so the documents disagree with each other.
5. The fifth confirmed change in a row drops the oldest value from the protection, which lets it return (`ManyChanges`;
   `coordinator.py:2622`).

Smaller observations, visible in the models: a setting write that waited for the setting lock is still sent after its device was
removed, because the generation is taken after the lock; an answer to `GET /devices` that is on its way while the gateway
refreshes its copy can bring an old value back; values of an expired guard are protected again by the next write of the
setting; `set_device_configuration` writes without the lock, the conflict check and the protection. A device lookup that is
answered late is applied over newer telegrams (`RefreshTakesNothingBack` claims only the refresh), and a late refresh can take the EEPs of a device
back. A profile that was read but tells of no dimmer or switch output lets the EEP tables decide and removes entities, although
`docs/devices.md:190` says that only a confirming profile does (`OutputsKeepEntities` excepts the outputs that the tables do not tell of).
An entry of the former MQTT setup whose search finds one address, and no Home there, stores that address with the default credentials if the
gateway there rejects them, whichever gateway it is (`discovery.py:333-334`, `__init__.py:235-237`), although `docs/upgrading.md:17-19` says that
the search takes the gateway that reports the same EURID; the user then sees a foreign address in the reauthentication form. An answer to an
announcement or a search is stored over what another flow has stored since the question (`config_flow.py:401-403`, `__init__.py:235-237`): an
older answer can replace a newer connection, and a legacy answer keeps the generation and certificate of a newer WebUI 2026 connection beside
its own host, port and password, which no gateway answers to (`Crosses`). A handle request that is cancelled while it
settles leaves the handle shown as locking or unlocking. A late 401 for an old token discards a newer one that is still valid, which costs
one login. A second deletion of a device during the first one's pending removal can add binary sensors for a device that is
no longer known. A document that breaks the stream takes those with it that were complete in the same chunk.

## 7. Plan

In this order, most important first:

1. `RadioQueue`, `RadioSlot` - done, proved.
2. `StreamLifecycle` - done, safety proved.
3. `CommandFeedback` - done, safety proved.
4. `SettingGuards` - done, safety proved.
5. `CoverTravel`, `CoverRuns` - done, safety proved.
6. `DeviceRegistry` - done, safety proved.
7. `GatewayClient`, `DocumentSplitter` - done, safety proved.
8. `HandleAnswer` - done, safety proved.
9. `ConfigFlow`, `EntityPlatforms`, `OutputMigration`, `DeviceState` - done, safety proved.
10. Left: `CoverTravel` composed with the checks of `CommandFeedback` for a blind with two channels; the repeater and routing writes in
   `SettingGuards`; the options flow.

To be stated and proved next: abstract specifications of the components that have none (what the client's login lock and the
registry promise, as `RadioSlot` does for the queue and `DocumentDelivery` for the stream) and that the detailed ones implement them.
