SPECIFICATION Spec
CONSTANTS
    c1 = c1
    c2 = c2
    w1 = w1
    w2 = w2
    a1 = a1
    a2 = a2
    a3 = a3
    Clients = {c1, c2}
    Workers = {w1, w2}
    Owners = {c1, c2, w1, w2}
    NoThread = NoThread
    Addr = {a1, a2, a3}
    Free = Free
    NULL = NULL
    Delays <- LateOrSoon
    MaxTime = 1
    MaxPosts = 2
    ClockSettings = {0}
    ClearAnytime = TRUE
SYMMETRY Symmetry
INVARIANTS
    TypeOK
    HeapOwnership
    CancelledNeverRuns
    InDueOrder
