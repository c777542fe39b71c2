\* Two processes that capture, evict, fail and die.
SPECIFICATION Spec
SYMMETRY Symmetry
CONSTANTS
    Outputs = {o1, o2, o3}
    Stores = {p1, p2}
    MaxEntries = 1
    MaxClock = 4
    NoOutput = NoOutput
INVARIANT TypeOK
INVARIANT Bounded
