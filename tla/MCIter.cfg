\* Three keys, one value; the scan ends and the writer stops once it has
\* committed, which is where a real iterator and block stop too.
CONSTANTS
    NKeys = 3
    Values = {v1}
    Deletion = Deletion
    NONE = NONE
SPECIFICATION Spec
CHECK_DEADLOCK FALSE
INVARIANT YieldedAscending StableKeysYielded
INVARIANT OverlapsExactOnNonEmpty ScanMatchesPrefix
INVARIANT PreadExactContract PwriteAllContract
