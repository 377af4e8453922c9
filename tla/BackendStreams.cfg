\* A pool that has come round: two streams, two instances.
SPECIFICATION Spec
CONSTANTS
    i1 = i1
    i2 = i2
    i3 = i3
    Instances = {i1, i2, i3}
    Configs <- BackendConfigs
    Buckets = {1}
    Null = Null
    Outcomes <- SomeFamilies
    Devices = {0, 1}
    DeviceCount = 2
    PoolSize = 2
INVARIANT CapturesAlone
CHECK_DEADLOCK FALSE
