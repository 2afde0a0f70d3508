SPECIFICATION FairSpec
CONSTANTS
    c1 = c1
    c2 = c2
    w1 = w1
    w2 = w2
    a1 = a1
    a2 = a2
    a3 = a3
    Clients = {c1, c2}
    Workers = {w1, w2}
    Owners = {c1}
    NoThread = NoThread
    Addr = {a1, a2}
    Free = Free
    NULL = NULL
    Delays = {0, 1}
    MaxTime = 2
    MaxPosts = 3
    ClockSettings = {}
    ClearAnytime = FALSE
PROPERTIES
    Served
    CallsReturn
    KeepsPromise
INVARIANTS
    NoLostWakeup
    NoFault
    OneWorker
