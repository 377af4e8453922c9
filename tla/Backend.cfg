\* The life of a model: two instances capturing and counting at once, shared
\* loaders, failing constructors, tensor names.
SPECIFICATION FairSpec
CONSTANTS
    i1 = i1
    i2 = i2
    i3 = i3
    Instances = {i1, i2, i3}
    Configs <- BackendConfigs
    Buckets = {1}
    Null = Null
    Outcomes <- SomeFamilies
    Devices = {0, 1}
    DeviceCount = 2
    PoolSize = 3
INVARIANTS
    TypeOK
    RunnersSuffice
    LoaderOnOwnDevice
    NothingHeld
    GraphsOwnLoader
    AskedOnce
    IncrementsLive
    ReleasedUnlessRaced
    StreamsApart
PROPERTIES
    InstanceSettles
CHECK_DEADLOCK FALSE
