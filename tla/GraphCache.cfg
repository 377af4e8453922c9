\* Ragged and uniform traffic: every control path of the bucket cache.
SPECIFICATION FairSpec
CONSTANTS
    Configs <- AllConfigs
    Batches <- AllBatches
    MaxRows = 3
INVARIANTS
    TypeOK
    CapturedOrPinned
    ReplaysFirstHealthy
    CapturesBounded
    CountedOnce
    ReplayReadsBatch
    FailsOnlyInPadding
PROPERTIES
    EvictionSparesPrestaged
    ComesToRest
CHECK_DEADLOCK FALSE
