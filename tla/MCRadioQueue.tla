---------------------------- MODULE MCRadioQueue ----------------------------
(* Two commands and a background status check of the coordinator: two      *)
(* priorities, two requests of the same priority, and two requests of the  *)
(* same device.                                                            *)
EXTENDS RadioQueue

CONSTANTS cmd1, cmd2, check, lamp, blind

MCRequests  == {cmd1, cmd2, check}
MCDevices   == {lamp, blind}
MCDeviceOf  == [r \in MCRequests |-> IF r = cmd2 THEN blind ELSE lamp]
MCPriority  == [r \in MCRequests |-> IF r = check THEN 20 ELSE 0]
MCOwned     == {check}
MCDroppable == {check}
==============================================================================
