------------------------------- MODULE MCDevices -------------------------------
(***************************************************************************)
(* The components that keep the state of single devices, checked in one    *)
(* run.  They share no variable: a behaviour chooses one of them and       *)
(* leaves the variables of the others at one initial state, so the state   *)
(* space is the sum of theirs.                                             *)
(***************************************************************************)
EXTENDS CoverTravel, CoverRuns, HandleAnswer, DeviceRegistry, EntityPlatforms, OutputMigration,
        DeviceState

VARIABLE component

MCCoverCalls == {"close", "open", "tilt", "stop"}
MCCoverForeign == {"half"}
MCCoverScenarios == {{"close", "open"}, {"close", "tilt"}, {"close", "stop", "half"}}
Order(order, target, via) == [kind |-> order, target |-> target, via |-> via]
MCCoverOrder == [t \in MCCoverCalls \cup MCCoverForeign |->
    CASE t = "close" -> Order("move", 2, NoVia)
      [] t = "open"  -> Order("move", 0, NoVia)
      [] t = "tilt"  -> Order("tilt", 0, NoVia)
      [] t = "stop"  -> Order("stop", 0, NoVia)
      [] t = "half"  -> Order("move", 1, 0)]

Components == {"cover", "runs", "handle", "registry", "platforms", "migration", "state"}
DevicesVars == <<component, CoverVars, RunVars, HandleVars, RegistryVars, PlatformsVars,
                 MigrationVars, StateVars>>

\* The component of a behaviour starts anywhere, the others where they rest.
DevicesInit ==
    /\ component \in Components
    /\ CoverInit
    /\ component # "cover" => timed /\ position = 0 /\ callStage = [c \in CoverCalls |->
                                  IF c \in {"close", "open"} THEN "new" ELSE "done"]
    /\ RunInit
    /\ component # "runs" => shownAt = 0
    /\ HandleInit
    /\ component # "handle" => stored = "allowed" /\ unlockAllowed = "none"
    /\ RegistryInit
    /\ component # "registry" => reality.pairing = "none"
    /\ PlatformsInit
    /\ component # "platforms" => kind = "dimmer"
    /\ IF component = "migration" THEN MigrationInit
       ELSE /\ actuator = [type |-> "switch", count |-> 1] /\ tables = actuator
            /\ profile = "unread" /\ entry = [k \in Keys |-> NoEntry]
    /\ StateInit
    /\ component # "state" => channels = [c \in Channels |-> Channel(Blank, 0)]

CoverSteps ==
    /\ component = "cover" /\ CoverNext
    /\ UNCHANGED <<component, RunVars, HandleVars, RegistryVars, PlatformsVars,
                   MigrationVars, StateVars>>
RunSteps ==
    /\ component = "runs" /\ RunsNext
    /\ UNCHANGED <<component, CoverVars, HandleVars, RegistryVars, PlatformsVars, MigrationVars,
                   StateVars>>
HandleSteps ==
    /\ component = "handle" /\ HandleNext
    /\ UNCHANGED <<component, CoverVars, RunVars, RegistryVars, PlatformsVars,
                   MigrationVars, StateVars>>
RegistrySteps ==
    /\ component = "registry" /\ RegistryNext
    /\ UNCHANGED <<component, CoverVars, RunVars, HandleVars, PlatformsVars,
                   MigrationVars, StateVars>>
PlatformsSteps ==
    /\ component = "platforms" /\ PlatformsNext
    /\ UNCHANGED <<component, CoverVars, RunVars, HandleVars, RegistryVars,
                   MigrationVars, StateVars>>
MigrationSteps ==
    /\ component = "migration" /\ MigrationNext
    /\ UNCHANGED <<component, CoverVars, RunVars, HandleVars, RegistryVars,
                   PlatformsVars, StateVars>>
StateSteps ==
    /\ component = "state" /\ StateNext
    /\ UNCHANGED <<component, CoverVars, RunVars, HandleVars, RegistryVars,
                   PlatformsVars, MigrationVars>>

DevicesNext == CoverSteps \/ RunSteps \/ HandleSteps \/ RegistrySteps \/ PlatformsSteps
               \/ MigrationSteps \/ StateSteps

\* The fairness of the component that runs: the others take no step.
DevicesFairness ==
    /\ WF_CoverVars(component = "cover" /\ CoverTick)
    /\ WF_CoverVars(component = "cover" /\ CoverTravelled)
    /\ \A c \in CoverCalls : WF_CoverVars(component = "cover" /\ CoverAnswer(c))
    /\ WF_RegistryVars(component = "registry" /\ RefreshAsked)
    /\ SF_RegistryVars(component = "registry" /\ RefreshAnswered)
    /\ WF_RegistryVars(component = "registry" /\ RefreshedList)
    /\ \A i \in Ids : WF_PlatformsVars(component = "platforms" /\ EntityGone(i))
    /\ \A i \in Binary : WF_PlatformsVars(component = "platforms" /\ FinishesRemoval(i))

DevicesSpec == DevicesInit /\ [][DevicesNext]_DevicesVars /\ DevicesFairness

\* The variables of every component have their types, whichever runs.
DevicesTypesOK ==
    CASE component = "cover"     -> CoverTypeOK
      [] component = "runs"      -> RunTypeOK
      [] component = "handle"    -> HandleTypeOK
      [] component = "registry"  -> RegistryTypeOK
      [] component = "platforms" -> PlatformsTypeOK
      [] component = "migration" -> MigrationTypeOK
      [] component = "state"     -> StateTypeOK
================================================================================
