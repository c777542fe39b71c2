\* Overlapping requests of a client that compresses by sampling.
SPECIFICATION Spec
SYMMETRY Symmetry
CONSTANTS
    a = a
    ab = ab
    Tools = {a}
    Keys = {a}
    SavedAs <- PlainNames
    Descs = {d1, d2}
    Requests = {r1, r2}
    Manual = FALSE
    NoDesc = NoDesc
    Blank = Blank
    Missing = Missing
    NoEntry = NoEntry
    NoSnapshot = NoSnapshot
INVARIANT StaleIsOffered
