---------------------------- MODULE EntityPlatforms ----------------------------
(***************************************************************************)
(* The entities of one device across its removal and rediscovery           *)
(* (binary_sensor.py, sensor.py, lock.py, light.py and the other           *)
(* platforms).  Home Assistant removes a live entity in two steps: it      *)
(* calls the on-remove callbacks, and some time later the state is gone.   *)
(* An entity that is submitted under the same unique ID in between is      *)
(* refused or loses its state: it is spoiled until the next reload.        *)
(*                                                                         *)
(* Only the binary sensor platform holds its reservations until the old    *)
(* entity is gone; sensors and the lock release them with the signal, and  *)
(* the other platforms keep none.                                          *)
(***************************************************************************)
EXTENDS Integers, FiniteSets

CONSTANTS MaxDeletions, \* bound: deletions by the user
          MaxReloads    \* bound: reloads of the entry

ASSUME PlatformsAssumption == MaxDeletions \in Nat /\ MaxReloads \in Nat

VARIABLES
    kind,         \* what the primary EEP makes the device: see Kinds
    loaded,       \* the entry is loaded
    listed,       \* the device is in coordinator.devices
    learned,      \* what it has told since: subset of {"links", "channel"}
    registered,   \* ids in the entity registry
    ha,           \* each id in Home Assistant: none, live or leaving
    tracked,      \* binary sensors: added_unique_ids, as submitted
    removing,     \* binary sensors: the device is in removing
    rediscovered, \* binary sensors: the device is in rediscovered
    finishing,    \* binary sensors: async_finish_removal tasks under way
    added,        \* sensors: added_unique_ids
    waiting,      \* sensors: the device is in waiting_for_links
    listening,    \* sensors: the device is in channel_listeners
    lockAdded,    \* lock: the device is in added_devices
    spoiled,      \* history: ids submitted while the old entity was there
    deletions, reloads

binaryVars    == <<tracked, removing, rediscovered, finishing>>
sensorVars    == <<added, waiting, listening>>
hassVars      == <<registered, ha, spoiled>>
PlatformsVars == <<kind, loaded, listed, learned, hassVars, binaryVars, sensorVars, lockAdded,
                   deletions, reloads>>

Kinds    == {"dimmer", "relay", "blind", "heating", "rocker", "detector", "handle", "clamp"}
Actuators == {"dimmer", "relay", "blind", "heating"}
Binary   == {"motion", "position", "fault"}
Sensors  == {"typed", "signal", "links", "channel"}
Ordinary == {"light", "switch", "cover", "climate", "rocker", "number", "select", "button"}
Ids      == Binary \cup Sensors \cup Ordinary \cup {"autolock"}
Disabled == {"fault"}   \* registered, but disabled by default: no live entity

PlatformsTypeOK ==
    /\ kind \in Kinds
    /\ loaded \in BOOLEAN /\ listed \in BOOLEAN
    /\ learned \subseteq {"links", "channel"}
    /\ registered \subseteq Ids
    /\ ha \in [Ids -> {"none", "live", "leaving"}]
    /\ tracked \subseteq Binary /\ finishing \subseteq Binary
    /\ removing \in BOOLEAN /\ rediscovered \in BOOLEAN
    /\ added \subseteq Sensors
    /\ waiting \in BOOLEAN /\ listening \in BOOLEAN /\ lockAdded \in BOOLEAN
    /\ spoiled \subseteq Ids
    /\ deletions \in 0..MaxDeletions
    /\ reloads \in 0..MaxReloads

PlatformsInit ==
    /\ kind \in Kinds
    /\ loaded = FALSE /\ listed = FALSE /\ learned = {}
    /\ registered = {} /\ ha = [i \in Ids |-> "none"] /\ spoiled = {}
    /\ tracked = {} /\ removing = FALSE /\ rediscovered = FALSE /\ finishing = {}
    /\ added = {} /\ waiting = FALSE /\ listening = FALSE
    /\ lockAdded = FALSE
    /\ deletions = 0 /\ reloads = 0

--------------------------------------------------------------------------------
(* Home Assistant                                                           *)

\* async_add_entities: a disabled id is registered and gets no entity.
Submitted(ids) ==
    /\ ha' = [i \in Ids |-> IF i \in ids \ Disabled /\ ha[i] = "none" THEN "live" ELSE ha[i]]
    /\ spoiled' = spoiled \cup {i \in ids : ha[i] # "none"}
    /\ registered' = registered \cup ids

\* The removal of a live entity is complete.
EntityGone(i) ==
    /\ ha[i] = "leaving"
    /\ ha' = [ha EXCEPT ![i] = "none"]
    /\ UNCHANGED <<kind, loaded, listed, learned, registered, spoiled, binaryVars, sensorVars,
                   lockAdded, deletions, reloads>>

--------------------------------------------------------------------------------
(* What the platforms add for a device that has learned what                *)

Offered(id, kinds) == IF kind \in kinds THEN {id} ELSE {}

\* The binary sensors of a device.
BinaryFor == Offered("motion", {"detector"}) \cup Offered("position", {"handle"})
             \cup Offered("fault", {"handle"})

\* async_add_binary_sensors and async_add_new.
NewBinary == IF removing THEN {} ELSE BinaryFor \ tracked

\* Sensors that the EEP decides, and those that every device has.
ReadingSensors == Offered("typed", {"heating", "detector"})
HandleSensors  == Offered("typed", {"handle"})
RunSensors     == Offered("typed", {"blind"})
DeviceSensors  == {"signal"}

\* Only a device with a listed link table has a sensor for it.
LinkSensors(what) == IF "links" \in what THEN Offered("links", Actuators) ELSE {}

\* async_add_channel_sensors: a channel that reported or is in the registry.
ChannelKnown(what) == "channel" \in what \/ "channel" \in registered
ChannelSensors(what) == IF ChannelKnown(what) THEN Offered("channel", {"clamp"}) ELSE {}

\* async_add_sensors
WantedSensors(what) ==
    ReadingSensors \cup HandleSensors \cup RunSensors \cup DeviceSensors
    \cup LinkSensors(what) \cup ChannelSensors(what)

\* async_add_lock adds once.
LockFor == Offered("autolock", {"handle"})
NewLock == IF lockAdded THEN {} ELSE LockFor

\* The other platforms add whenever they are told.
NewLight   == Offered("light", {"dimmer"})
NewSwitch  == Offered("switch", {"relay"})
NewCover   == Offered("cover", {"blind"})
NewClimate == Offered("climate", {"heating"})
NewEvent   == Offered("rocker", {"rocker", "relay"})
NewNumbers == Offered("number", {"dimmer"})
NewSelects == Offered("select", {"relay"})
NewButtons == Offered("button", {"blind"})
NewPlain   == NewLight \cup NewSwitch \cup NewCover \cup NewClimate \cup NewEvent
              \cup NewNumbers \cup NewSelects \cup NewButtons

\* SIGNAL_DEVICE_DISCOVERED reaches every platform.
Discovered(what) ==
    /\ Submitted(NewBinary \cup (WantedSensors(what) \ added) \cup NewLock \cup NewPlain)
    /\ tracked' = tracked \cup NewBinary
    /\ rediscovered' = (rediscovered \/ removing)
    /\ added' = added \cup WantedSensors(what)
    /\ waiting' = ("links" \notin what /\ (waiting \/ kind \in Actuators))
    /\ listening' = (listening \/ kind = "clamp")
    /\ lockAdded' = (lockAdded \/ kind = "handle")
    /\ UNCHANGED <<removing, finishing>>

--------------------------------------------------------------------------------
(* Actions                                                                  *)

\* async_setup_entry of the platforms, with the device in the first list.
Loads ==
    /\ ~loaded
    /\ loaded' = TRUE /\ listed' = TRUE
    /\ \E what \in SUBSET {"links", "channel"} : learned' = what /\ Discovered(what)
    /\ UNCHANGED <<kind, deletions, reloads>>

\* The gateway lists a forgotten device again, or it reports and is looked up.
ListedAgain ==
    /\ loaded /\ ~listed
    /\ listed' = TRUE
    /\ \E what \in SUBSET {"links", "channel"} : learned' = what /\ Discovered(what)
    /\ UNCHANGED <<kind, loaded, deletions, reloads>>

\* SIGNAL_DEVICE_STATE_UPDATE: async_link_table_listed, async_add_channel_sensors.
Learns(what) ==
    LET now   == learned \cup {what}
        wants == (IF waiting /\ "links" \in now THEN WantedSensors(now) ELSE {})
                 \cup (IF listening THEN WantedSensors(now) \cap {"channel"} ELSE {})
    IN  /\ loaded /\ listed /\ what \notin learned
        /\ learned' = now
        /\ Submitted(wants \ added)
        /\ added' = added \cup wants
        /\ waiting' = (waiting /\ "links" \notin now)
        /\ UNCHANGED <<kind, loaded, listed, binaryVars, listening, lockAdded, deletions, reloads>>

\* Variation: the reservations are released with the signal, as sensors do.
ForgetsAtOnce ==
    /\ tracked' = {}
    /\ removing' = FALSE
    /\ UNCHANGED rediscovered

\* async_forget of the binary sensors: an id without a live entity is released.
ForgetsBinary ==
    /\ tracked' = {i \in tracked : ha[i] # "none" \/ i \in finishing}
    /\ removing' = (tracked' # {})
    /\ UNCHANGED rediscovered

\* Variation: the reservations outlive the device.
KeepsSensors ==
    /\ waiting' = FALSE /\ listening' = FALSE
    /\ UNCHANGED added

\* async_forget_sensors
ForgetsSensors ==
    /\ waiting' = FALSE /\ listening' = FALSE
    /\ added' = {}

\* async_remove_config_entry_device, SIGNAL_DEVICE_REMOVED, and at once Home
\* Assistant takes the device's ids out of its registry and its entities begin
\* to leave (async_removing).
Deletes ==
    /\ loaded /\ registered # {} /\ deletions < MaxDeletions
    /\ deletions' = deletions + 1
    /\ listed' = FALSE /\ learned' = {}
    /\ ForgetsBinary
    /\ ForgetsSensors
    /\ lockAdded' = FALSE
    /\ registered' = {}
    /\ ha' = [i \in Ids |-> IF ha[i] = "live" THEN "leaving" ELSE ha[i]]
    /\ finishing' = finishing \cup {i \in Binary : ha[i] = "live" /\ removing'}
    /\ UNCHANGED <<kind, loaded, spoiled, reloads>>

\* Variation: what was discovered while the old entities left is not added.
RemovedOnly(i) ==
    /\ tracked' = tracked \ {i}
    /\ removing' = (tracked' # {})
    /\ rediscovered' = (rediscovered /\ removing')
    /\ UNCHANGED hassVars

\* async_removed: with the last old entity the device is free again, and one
\* that was rediscovered meanwhile gets its entities.
Removed(i) ==
    IF ~removing \/ i \notin tracked
    THEN UNCHANGED <<tracked, removing, rediscovered, hassVars>>
    ELSE LET left == tracked \ {i}
             adds == IF left = {} /\ rediscovered THEN BinaryFor ELSE {}
         IN  /\ tracked' = left \cup adds
             /\ removing' = (left # {})
             /\ rediscovered' = (rediscovered /\ left # {})
             /\ Submitted(adds)

\* async_finish_removal, once the entity is gone.
FinishesRemoval(i) ==
    /\ i \in finishing /\ ha[i] # "leaving"
    /\ finishing' = finishing \ {i}
    /\ Removed(i)
    /\ UNCHANGED <<kind, loaded, listed, learned, sensorVars, lockAdded, deletions, reloads>>

\* The entry is unloaded: its entities, listeners, tasks and sets go with it.
Unloads ==
    /\ loaded /\ reloads < MaxReloads
    /\ reloads' = reloads + 1
    /\ loaded' = FALSE /\ listed' = FALSE /\ learned' = {}
    /\ ha' = [i \in Ids |-> "none"] /\ spoiled' = {}
    /\ tracked' = {} /\ removing' = FALSE /\ rediscovered' = FALSE /\ finishing' = {}
    /\ added' = {} /\ waiting' = FALSE /\ listening' = FALSE /\ lockAdded' = FALSE
    /\ UNCHANGED <<kind, registered, deletions>>

--------------------------------------------------------------------------------
PlatformsNext ==
    \/ Loads \/ ListedAgain \/ Deletes \/ Unloads
    \/ \E what \in {"links", "channel"} : Learns(what)
    \/ \E i \in Ids : EntityGone(i)
    \/ \E i \in Binary : FinishesRemoval(i)

\* A removal ends, and then its background task runs.
PlatformsFairness ==
    /\ \A i \in Ids : WF_PlatformsVars(EntityGone(i))
    /\ \A i \in Binary : WF_PlatformsVars(FinishesRemoval(i))

PlatformsSpec     == PlatformsInit /\ [][PlatformsNext]_PlatformsVars
PlatformsFairSpec == PlatformsSpec /\ PlatformsFairness

--------------------------------------------------------------------------------
(* Properties                                                               *)

\* No binary sensor is submitted while the one it replaces is still there,
\* whatever the order of deletions, rediscoveries and finished removals.
BinaryNeverSpoiled == spoiled \cap Binary = {}

\* A device that is known has, or in the end gets, each of its binary sensors,
\* even if it was rediscovered while the old ones were leaving.
BinaryComesBack ==
    (loaded /\ listed) ~> (loaded /\ listed => \A i \in BinaryFor \ Disabled : ha[i] = "live")

\* Sensors and locks follow the device: whatever it has told, however it was
\* deleted, found again and reloaded in between, each entity it has grounds for
\* is there unless it was added too early.
SensorsFollowDevice ==
    loaded /\ listed =>
        \A i \in WantedSensors(learned) \cup LockFor \cup NewPlain :
            ha[i] = "live" \/ i \in spoiled
================================================================================
