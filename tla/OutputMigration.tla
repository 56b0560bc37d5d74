---------------------------- MODULE OutputMigration ----------------------------
(***************************************************************************)
(* The entity registry of one D2-01 actuator across restarts               *)
(* (entity.py migrate_output_entities, light.py, switch.py).  Earlier      *)
(* releases took the type and the channel count of an actuator from its    *)
(* EEP; now the gateway profile decides, as often as it can be read        *)
(* (coordinator.py _async_load_profiles, enocean_device.py entity_type and *)
(* channel_count).                                                         *)
(*                                                                         *)
(* An entry stands for a user's entity ID and settings: it is named after  *)
(* the key it had at first, and keeps that name when its unique ID moves.  *)
(***************************************************************************)
EXTENDS Integers

CONSTANT LegacyChannels \* LEGACY_MAX_CHANNELS

ASSUME MigrationAssumption == LegacyChannels \in Nat /\ LegacyChannels >= 2

VARIABLES
    actuator, \* the outputs it has: [type, count]
    tables,   \* the outputs its EEP stands for
    profile,  \* device.profile of the last setup: see Profiles
    entry     \* the entity of each unique ID; its name, NoEntry or NewEntry

MigrationVars == <<actuator, tables, profile, entry>>

\* Not read; read without a dimmer or switch output; read with the outputs.
Profiles    == {"unread", "silent", "outputs"}

OutputTypes == {"light", "switch"}
Outputs     == [type : OutputTypes, count : {1, 2}]
Plain       == LegacyChannels   \* the unique ID without a channel
Keys        == OutputTypes \X (0..LegacyChannels)
NoEntry     == <<"none", 0>>
NewEntry    == <<"new", 0>>

MigrationTypeOK ==
    /\ actuator \in Outputs /\ tables \in Outputs /\ profile \in Profiles
    /\ entry \in [Keys -> Keys \cup {NoEntry, NewEntry}]

\* Earlier releases: an aggregate, some first channels, or both.
MigrationInit ==
    /\ actuator \in Outputs /\ tables \in Outputs /\ profile = "unread"
    /\ \E aggregates \in SUBSET OutputTypes, last \in [OutputTypes -> 0..LegacyChannels] :
          entry = [k \in Keys |-> IF IF k[2] = Plain THEN k[1] \in aggregates ELSE k[2] < last[k[1]]
                                  THEN k ELSE NoEntry]

--------------------------------------------------------------------------------
\* async_update_entity with a new unique ID.
Moved(e, from, to) == [e EXCEPT ![to] = e[from], ![from] = NoEntry]

\* migrate_legacy_multichannel_entity
AggregateMoved(e, type, count) ==
    IF count <= 1 \/ e[<<type, Plain>>] = NoEntry THEN e
    ELSE IF e[<<type, 0>>] # NoEntry THEN [e EXCEPT ![<<type, Plain>>] = NoEntry]
    ELSE Moved(e, <<type, Plain>>, <<type, 0>>)

\* A single output gets its plain unique ID back.
SingleMoved(e, type, count) ==
    IF count = 1 /\ e[<<type, 0>>] # NoEntry /\ e[<<type, Plain>>] = NoEntry
    THEN Moved(e, <<type, 0>>, <<type, Plain>>) ELSE e

\* The unique IDs of outputs the device does not have.
Stale(type, count) ==
    {k \in Keys : IF k[1] = type
                  THEN k[2] # Plain /\ k[2] >= (IF count = 1 THEN 0 ELSE count)
                  ELSE TRUE}

\* Variation: the tables of the EEP are as good as a profile.
TablesConfirm(read) == TRUE

\* Entries are removed only with a profile, whatever that profile tells.
Confirms(read) == read # "unread"

\* migrate_output_entities
Migrated(e, type, count, read) ==
    LET moved == SingleMoved(AggregateMoved(e, type, count), type, count)
    IN  [k \in Keys |-> IF Confirms(read) /\ k \in Stale(type, count) THEN NoEntry ELSE moved[k]]

\* async_add_light, async_add_switch: an entry for each output.
Added(e, type, count) ==
    [k \in Keys |-> IF /\ k[1] = type /\ e[k] = NoEntry
                       /\ IF count = 1 THEN k[2] = Plain ELSE k[2] < count
                    THEN NewEntry ELSE e[k]]

\* What the profile declares, if it was read and names an output at all.
ProfileOutput(read) == IF read = "outputs" THEN {actuator.type} ELSE {}

\* entity_type and channel_count: the profile, or else the tables of the EEP.
EntityType(read)   == IF ProfileOutput(read) # {} THEN actuator.type ELSE tables.type
ChannelCount(read) == IF ProfileOutput(read) # {} THEN actuator.count ELSE tables.count

\* A setup, in which the platform of the entity type acts.
SetsUp(read) ==
    LET type  == EntityType(read)
        count == ChannelCount(read)
    IN  /\ profile' = read
        /\ entry' = Added(Migrated(entry, type, count, read), type, count)
        /\ UNCHANGED <<actuator, tables>>

MigrationNext == \E read \in Profiles : SetsUp(read)

MigrationSpec == MigrationInit /\ [][MigrationNext]_MigrationVars

--------------------------------------------------------------------------------
(* Properties                                                               *)

\* The entities that show an output: of its channel, or of the only one.
Shown(e, channel) ==
    {e[k] : k \in {<<actuator.type, channel>>}
                  \cup (IF channel = 0 THEN {<<actuator.type, Plain>>} ELSE {})} \ {NoEntry}

\* What a setup goes by tells of the output, or it goes by nothing that removes.
TellsOf(read, channel) ==
    read = "silent" => tables.type = actuator.type /\ channel < tables.count

\* No setup costs an output the entity its user knows, whatever the profile and the
\* tables were at earlier setups, with one exception: a profile that was read and
\* names no output leaves the decision to the EEP tables, and an output they do not
\* tell of loses its entity (migrate_output_entities: "a profile that could not be
\* read once never deletes user settings").
OutputsKeepEntities ==
    [][\A channel \in 0..(actuator.count - 1) :
          TellsOf(profile', channel) /\ Shown(entry, channel) # {}
              => Shown(entry, channel) \cap Shown(entry', channel) # {}]_MigrationVars
================================================================================
