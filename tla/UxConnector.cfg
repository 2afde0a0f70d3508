SPECIFICATION UCSpec
CONSTANTS
    c1 = c1
    w1 = w1
    a1 = a1
    a2 = a2
    e1 = e1
    e2 = e2
    s1 = s1
    s2 = s2
    u1 = u1
    k1 = k1
    k2 = k2
    n1 = n1
    n2 = n2
    udp = udp
    NoThread = NoThread
    Free = Free
    NULL = NULL
    UxFree = UxFree
    NoUxe = NoUxe
    Clients = {c1}
    Workers = {w1}
    Owners = {c1}
    Removers = {c1, w1}
    Addr = {a1, a2}
    UxAddr = {e1, e2}
    Ufds = {s1, s2}
    MaxPosts = 2
    MaxTime = 1
    DelaysMs = {1}
    Delays = {0, 1}
    Conns = {udp, n1, n2}
    Unallocated = Unallocated
    NoConn = NoConn
    Fds = {s1, s2, u1}
    Closed = Closed
    MaxHeld = 2
    Connectors = {k1, k2}
    NoConnector = NoConnector
    UdpConn = udp
    UdpFd = u1
    Programs <- SomePrograms
SYMMETRY Symmetry
INVARIANTS
    UCTypeOK
    Owned
    NoForgottenRemoval
    Sound
    OneOutcome
    NeverForgotten
CHECK_DEADLOCK FALSE
