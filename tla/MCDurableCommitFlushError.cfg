CONSTANTS
    k1 = k1
    v1 = v1
    Keys = {k1}
    Values = {v1}
    Deletion = Deletion
    NONE = NONE
    MaxBlocks = 2
    MaxCrashes = 2
    Faults = {"flush_error"}

SPECIFICATION Spec
\* Behaviours end when the page bound is reached and every handle is gone.
CHECK_DEADLOCK FALSE

INVARIANT AckedCommitDurable
