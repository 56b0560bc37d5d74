------------------------------- MODULE MCGateway -------------------------------
(***************************************************************************)
(* The components between the gateway and the entry, checked in one run:   *)
(* as in MCDevices, a behaviour chooses one of them and the others rest.   *)
(***************************************************************************)
EXTENDS GatewayClient, DocumentSplitter, ConfigFlow, TLC

VARIABLE component

\* A bracket in a string, an array of objects, an escaped quote and backslash,
\* a character of two bytes, and a document longer than MaxSize.
MCDocuments == {
    <<"{", "quote", "x", "x", "x", "x", "x", "quote", "}">>,
    <<"{", "}">>,
    <<"[", "{", "}", "x", "]">>,
    <<"{", "quote", "}", "quote", "}">>,
    <<"{", "quote", "backslash", "quote", "lead", "follow", "quote", "}">>,
    <<"{", "quote", "backslash", "backslash", "quote", "space", "}">> }

\* Another gateway rejects every password entered here, or asks for a review of
\* its certificate and takes the user's password.
MCOthers == {g \in Gateways : g.generation = "webui" <=> g.password = "own"}

\* Home is reachable with the vendor's password or the user's, and as a newer
\* generation with the user's, before it changes.
MCHomes == {g \in Gateways : g.generation = "webui" => g.password = "own"}

\* The hosts are alike, and the client's states, the only ones of the temporal
\* property, hold none.
MCSymmetry == Permutations(Hosts)

Components  == {"client", "splitter", "flow"}
GatewayVars == <<component, ClientVars, SplitterVars, FlowVars>>

GatewayInit ==
    /\ component \in Components
    /\ ClientInit
    /\ component # "client" => ~webui /\ ~pinned
    /\ SplitterInit
    /\ FlowInit
    /\ component = "flow" => gateway["other"] \in MCOthers /\ gateway["home"] \in MCHomes
    /\ component # "flow" =>
          /\ entry = NoEntry /\ at = [h \in Hosts |-> "nothing"]
          /\ gateway["home"].generation = "legacy" /\ gateway["other"].generation = "legacy"
          /\ gateway["home"].password = "default" /\ gateway["other"].password = "own"

ClientSteps ==
    /\ component = "client" /\ ClientNext
    /\ UNCHANGED <<component, SplitterVars, FlowVars>>
SplitterSteps ==
    /\ component = "splitter" /\ SplitterNext
    /\ UNCHANGED <<component, ClientVars, FlowVars>>
FlowSteps ==
    /\ component = "flow" /\ FlowNext
    /\ UNCHANGED <<component, ClientVars, SplitterVars>>

GatewayNext == ClientSteps \/ SplitterSteps \/ FlowSteps

\* The fairness of the component that runs: the others take no step.
GatewayFairness ==
    /\ WF_ClientVars(component = "client" /\ LockTaken)
    /\ \A c \in HttpCalls : WF_ClientVars(component = "client" /\ LoginFails(c))

GatewaySpec == GatewayInit /\ [][GatewayNext]_GatewayVars /\ GatewayFairness

\* The variables of the component that runs have their types.
GatewayTypesOK ==
    CASE component = "client"   -> ClientTypeOK
      [] component = "splitter" -> SplitterTypeOK
      [] component = "flow"     -> FlowTypeOK
================================================================================
