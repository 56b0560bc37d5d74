CHECK_DEADLOCK FALSE

SPECIFICATION Spec
CONSTANTS
    cmd1 = cmd1
    cmd2 = cmd2
    check = check
    lamp = lamp
    blind = blind
    Requests <- MCRequests
    Devices <- MCDevices
    DeviceOf <- MCDeviceOf
    Priority <- MCPriority
    Owned <- MCOwned
    Droppable <- MCDroppable
    MaxOutages = 1
    MaxRemovals = 1

INVARIANT CancelledWaiterSeesCancelledError
