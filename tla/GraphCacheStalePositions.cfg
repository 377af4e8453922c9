\* A ragged batch, then a uniform one, in the same bucket.
SPECIFICATION Spec
CONSTANTS
    Configs <- RaggedConfigs
    Batches <- RaggedBatches
    MaxRows = 3
INVARIANT PrestagedPositionsHold
CHECK_DEADLOCK FALSE
