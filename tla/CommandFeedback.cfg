\* All commands are done, all timers have fired: the channel may rest.
CHECK_DEADLOCK FALSE

SPECIFICATION FairSpec

CONSTANTS
    Fields <- MCFields
    Commands <- MCCommands
    Foreign <- MCForeign
    FieldsOf <- MCFieldsOf
    Signature <- MCSignature
    MaxOutages = 1

INVARIANTS
    TypeOK
    AssumedIsPending

PROPERTIES
    ReportBeatsEstimate
    ChecksAreNeeded
    PromisedChecksAreMade
