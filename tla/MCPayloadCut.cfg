\* A write that fails half way, and its retry.
SPECIFICATION Spec
SYMMETRY Symmetry
CONSTANTS
    Outputs = {o1, o2}
    Stores = {p1}
    MaxEntries = 2
    MaxClock = 3
    NoOutput = NoOutput
INVARIANT ReferencedIsWhole
