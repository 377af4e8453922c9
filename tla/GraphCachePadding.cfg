\* A ragged batch that padding cannot fit into its bucket.
SPECIFICATION Spec
CONSTANTS
    Configs <- RaggedConfigs
    Batches <- RaggedBatches
    MaxRows = 3
INVARIANT FallsThroughToEager
CHECK_DEADLOCK FALSE
