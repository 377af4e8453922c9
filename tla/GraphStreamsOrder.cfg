\* Two buckets on two streams of the pool, or on one.
SPECIFICATION FairSpec
CONSTANTS
    Buckets = {1, 2}
    Pool = {"s1", "s2"}
    Failures <- OrderedFailures
    MaxQueued = 1
INVARIANTS
    TypeOK
    RaceFree
    AnswerIsOwn
    CollectionBehindGraph
PROPERTIES
    Drains
