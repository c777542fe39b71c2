\* A reload that outlasts the poll interval overlaps the next one.
SPECIFICATION Spec
SYMMETRY Symmetry
CONSTANTS
    Servers = {a}
    Configs = {cfg1, cfg2}
    SoftLimited = {}
    HardLimited = {}
    Slots = {s1, s2, s3}
    Conns = {k1, k2, k3}
    Callers = {c1}
    Reloads = {r1, r2}
    MaxEdits = 2
    Absent = Absent
    NoServer = NoServer
    NoConfig = NoConfig
    NoSlot = NoSlot
    NoConn = NoConn
INVARIANT NoOrphan
