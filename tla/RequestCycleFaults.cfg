\* Every failure of the request cycle, on the four kinds of model.
SPECIFICATION FairSpec
CONSTANTS
    Models <- BatchingModels
    Rows = {0, 1, 2}
    MaxRequests = 2
INVARIANTS
    TypeOK
    StatisticsTruthful
    SuccessMeansRan
    StateFollowsSuccess
    OnlyRowlessBatchesStranded
PROPERTIES
    SuccessIsComplete
    AnswersArrive
    KeepsContract
