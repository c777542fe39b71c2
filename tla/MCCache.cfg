\* One request at a time, failing saves and crashes.
SPECIFICATION Spec
SYMMETRY Symmetry
CONSTANTS
    a = a
    ab = ab
    Tools = {a, ab}
    Keys = {a, ab}
    SavedAs <- ColonNames
    Descs = {d1}
    Requests = {r1}
    Manual = TRUE
    NoDesc = NoDesc
    Blank = Blank
    Missing = Missing
    NoEntry = NoEntry
    NoSnapshot = NoSnapshot
INVARIANT TypeOK
INVARIANT FileFollowsMemory
INVARIANT GoneStaysGone
