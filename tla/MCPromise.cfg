\* Promise with three resolver clones; the life of a promise ends, so the
\* final states (consumer done, every clone dropped) are not deadlocks.
CONSTANTS
    r1 = r1
    r2 = r2
    r3 = r3
    v1 = v1
    v2 = v2
    NONE = NONE
    Resolvers <- MCResolvers
    Values <- MCValues
SPECIFICATION Spec
CHECK_DEADLOCK FALSE
PROPERTY NoneOnlyWhenEmpty BlockingResolveReturns StoredValueDelivered
