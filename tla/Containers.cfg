SPECIFICATION Spec
CONSTANTS
    Values = {0, 1}
    Junk = junk
    Capacities = {1, 2, 4}
    Wrap = 8
    MaxBatch = 2
    Uses <- SafeUses
    Entries = {0, 1}
    Unfilled = unfilled
    Sizes = {1, 2, 3}
    Habits <- AllOrNone
    c1 = c1
    c2 = c2
    c3 = c3
    Cells = {c1, c2, c3}
    Base = base
    Nil = nil
    Removals = {"current", "any"}
    n1 = n1
    n2 = n2
    n3 = n3
    f1 = f1
    f2 = f2
    f3 = f3
    Conns = {n1, n2, n3}
    Unallocated = Unallocated
    NoConn = NoConn
    Fds = {f1, f2, f3}
    Closed = Closed
    MaxHeld = 2
    PacketSizes = {1, 2}
    Half = 8
    MaxHolders = 2
INVARIANTS TypeOK ConnectionsOwned RangeInData
PROPERTIES BufferIsFifo ArrayIsFifo ActsAsSequence VisitsAll
