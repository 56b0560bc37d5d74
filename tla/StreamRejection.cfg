\* An unloaded entry and a migrated or lost gateway: nothing happens any more.
CHECK_DEADLOCK FALSE

SPECIFICATION FairSpec

CONSTANTS
    MaxBoots = 1
    MaxUptime = 0
    ChecksGeneration = FALSE
    CheckAfterFailures = 1

PROPERTY NoAttemptAfterRejection
