\* A replay that fails once its copies are queued.
SPECIFICATION Spec
CONSTANTS
    Buckets = {1, 2}
    Pool = {"s1", "s2"}
    Failures <- AllFailures
    MaxQueued = 1
INVARIANT CollectionBehindGraph
