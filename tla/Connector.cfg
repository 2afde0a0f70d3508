SPECIFICATION CNSpec
CONSTANTS
    main = main
    t1 = t1
    t2 = t2
    t3 = t3
    t4 = t4
    t5 = t5
    read = read
    write = write
    n1 = n1
    n2 = n2
    k1 = k1
    k2 = k2
    f1 = f1
    f2 = f2
    NoThread = NoThread
    Freed = Freed
    NULL = NULL
    Main = main
    Callers = {}
    Workers = {}
    Tokens = {t1, t2, t3, t4, t5}
    AWE_READ = read
    Masks = {read, write}
    Programs <- StopOnly
    Capacity = 1
    MaxTriggers = 0
    Conns = {n1, n2}
    Unallocated = Unallocated
    NoConn = NoConn
    Fds = {f1, f2}
    Closed = Closed
    MaxHeld = 3
    Connectors = {k1, k2}
    NoConnector = NoConnector
    NoProc = NoProc
    OpensInTimeouts = FALSE
SYMMETRY Symmetry
INVARIANTS
    CNTypeOK
    OneOutcome
    NeverForgotten
    Owned
