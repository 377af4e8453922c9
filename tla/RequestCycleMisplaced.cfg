SPECIFICATION Spec
CONSTANTS
    Models <- FixedOutputModels
    Rows = {0, 1, 2}
    MaxRequests = 2
INVARIANTS
    OutputsInPlace
