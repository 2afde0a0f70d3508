SPECIFICATION Spec
CONSTANTS
    main = main
    c1 = c1
    w1 = w1
    t1 = t1
    t2 = t2
    t3 = t3
    read = read
    write = write
    NoThread = NoThread
    Freed = Freed
    NULL = NULL
    Main = main
    Callers = {c1}
    Workers = {w1}
    Tokens = {t1, t2, t3}
    AWE_READ = read
    Masks = {read, write}
    Programs <- AllOrNone
    Capacity = 1
    MaxTriggers = 2
SYMMETRY Symmetry
INVARIANTS
    ListsOwn
    TriggerWatched
    WatchedIsAlive
    OneShotsEnd
