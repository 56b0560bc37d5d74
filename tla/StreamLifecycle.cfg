\* An unloaded entry and a migrated or lost gateway: nothing happens any more.
CHECK_DEADLOCK FALSE

SPECIFICATION FairSpec

CONSTANTS
    MaxBoots = 2
    MaxUptime = 1
    ChecksGeneration = TRUE
    CheckAfterFailures = 2

INVARIANTS
    TypeOK
    ReaderKept
    DocumentsComeFirst

PROPERTIES
    NoticesOutage
    Recovers
