\* One server, concurrent calls, every way a connection can end.
SPECIFICATION CallsSpec
SYMMETRY Symmetry
CONSTANTS
    Servers = {a}
    Configs = {cfg}
    SoftLimited = {cfg}
    HardLimited = {cfg}
    Slots = {s1}
    Conns = {k1, k2, k3}
    Callers = {c1, c2, c3}
    Reloads = {}
    MaxEdits = 0
    Absent = Absent
    NoServer = NoServer
    NoConfig = NoConfig
    NoSlot = NoSlot
    NoConn = NoConn
INVARIANT CallsTypeOK
INVARIANT LeasesCounted
INVARIANT RecycleWaitsForCalls
INVARIANT SingleFlight
INVARIANT RetryOwed
INVARIANT FailedIsReplaced
INVARIANT RunsAtMost
PROPERTY ImplementsPool
