\* A map keyed by strings that collides, grows once and reaches its limit, and a map keyed
\* by objects, with negative hashes, whose allocations may fail.
CONSTANTS
    k1 = k1  k2 = k2  k3 = k3  k4 = k4  v1 = v1  v2 = v2
    Keys = {k1, k2, k3, k4}
    Values = {v1, v2}
    KeyTypes <- StringAndObjectMaps
    InitialSizes = {0, 5}
    MaxBucketSize = 7
    UIntRange = 65536
    MaxCount = 8
SPECIFICATION Spec
INVARIANTS IndexInBounds RefsExact
PROPERTY ImplementsMap
CHECK_DEADLOCK FALSE
