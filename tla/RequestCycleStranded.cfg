SPECIFICATION Spec
CONSTANTS
    Models <- BatchingModels
    Rows = {0, 1, 2}
    MaxRequests = 2
INVARIANTS
    EveryRequestReleased
