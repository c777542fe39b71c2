\* A description rewritten between get_uncompressed_tools and cache_compressed_tools.
SPECIFICATION Spec
SYMMETRY Symmetry
CONSTANTS
    a = a
    ab = ab
    Tools = {a}
    Keys = {a}
    SavedAs <- PlainNames
    Descs = {d1, d2}
    Requests = {r1}
    Manual = TRUE
    NoDesc = NoDesc
    Blank = Blank
    Missing = Missing
    NoEntry = NoEntry
    NoSnapshot = NoSnapshot
INVARIANT StaleIsOffered
