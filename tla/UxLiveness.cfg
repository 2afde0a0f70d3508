SPECIFICATION FairSpec
CONSTANTS
    c1 = c1
    c2 = c2
    w1 = w1
    w2 = w2
    a1 = a1
    a2 = a2
    e1 = e1
    e2 = e2
    s1 = s1
    s2 = s2
    NoThread = NoThread
    Free = Free
    NULL = NULL
    UxFree = UxFree
    NoUxe = NoUxe
    Clients = {c1, c2}
    Workers = {w1}
    Owners = {c1}
    Removers = {w1}
    Addr = {a1}
    UxAddr = {e1}
    Ufds = {s1, s2}
    MaxPosts = 1
    MaxTime = 1
    DelaysMs = {1}
    Delays = {0, 1}
PROPERTIES
    Served
    StopReturns
