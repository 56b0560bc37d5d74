\* Every component stops at its bounds.
SPECIFICATION DevicesSpec
CONSTANTS
    CoverCalls <- MCCoverCalls
    CoverForeign <- MCCoverForeign
    CoverOrder <- MCCoverOrder
    CoverScenarios <- MCCoverScenarios
    Bottom = 2
    Grace = 1
    NoCall = NoCall
    RunBottom = 2
    Tolerance = 1
    RunTimeout = 1
    MaxOrders = 2
    MaxRequests = 3
    MaxVersion = 2
    MaxRemovals2 = 1
    MaxStream = 2
    Lookups = {l1, l2}
    MaxDeletions = 2
    MaxReloads = 1
    LegacyChannels = 3
    MaxFunctions = 2
INVARIANTS
    DevicesTypesOK
    ChecksWaitForTravel
    LastAnswerWins
    EntityHoldsDevice
    BinaryNeverSpoiled
    SensorsFollowDevice
    ConfirmedIsShown
PROPERTIES
    OnlyOrdersAreAssumed
    TravelEnds
    RunsAreMeasured
    RefreshTakesNothingBack
    PairedIsFound
    BinaryComesBack
    OutputsKeepEntities
CHECK_DEADLOCK FALSE
