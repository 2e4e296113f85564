CONSTANTS
    w1 = w1
    w2 = w2
    r1 = r1
    k1 = k1
    k2 = k2
    v1 = v1
    Deletion = Deletion
    NONE = NONE
    Threads <- TwoWriterThreads
    Writers <- TwoWriterThreads
    Keys <- OneKey
    Values = {v1}
    MaxBlocks = 1

SPECIFICATION Spec

INVARIANT CommitIdempotent
