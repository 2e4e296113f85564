CONSTANTS
    t1 = t1
    t2 = t2
    n1 = n1
    n2 = n2
    n3 = n3
    NULL = NULL
    Threads <- MCThreads
    Nodes <- MCNodes

SPECIFICATION Spec

INVARIANT TypeOK
INVARIANT OwnershipSound

PROPERTY NoFreeWhileReachable
PROPERTY ChainRefinement
