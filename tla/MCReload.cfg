\* Two servers whose entries change under way, one reload at a time.
SPECIFICATION Spec
SYMMETRY Symmetry
CONSTANTS
    Servers = {a, b}
    Configs = {cfg1, cfg2}
    SoftLimited = {}
    HardLimited = {cfg1}
    Slots = {s1, s2, s3}
    Conns = {k1, k2, k3}
    Callers = {c1}
    Reloads = {r1}
    MaxEdits = 1
    Absent = Absent
    NoServer = NoServer
    NoConfig = NoConfig
    NoSlot = NoSlot
    NoConn = NoConn
INVARIANT Inv
INVARIANT NoOrphan
INVARIANT ShutdownTakesAll
PROPERTY UntouchedKept
