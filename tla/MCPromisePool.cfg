\* Four callers of Promise::new, each resolving its promise; when every
\* caller has its value the pool just waits in recv, which is where a real
\* pool stays, so that is not a deadlock.
CONSTANTS
    c1 = c1
    c2 = c2
    c3 = c3
    c4 = c4
    s1 = s1
    s2 = s2
    d1 = d1
    d2 = d2
    d3 = d3
    NONE = NONE
    RESULT = RESULT
    Callers <- MCCallers
    Static <- MCStatic
    Dynamic <- MCDynamic
    MAX_THREADS = 1
SPECIFICATION PSpec
CHECK_DEADLOCK FALSE
PROPERTY PromiseNewResolves
