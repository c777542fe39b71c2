\* Two sessions, one compressed tool, and the requests that change the cache.
SPECIFICATION SessionsSpec
CONSTANTS
    Tools = {a}
    Keys = {a}
    SavedAs <- PlainNames
    Descs = {d1}
    Requests = {r1}
    SessionIds = {i1, i2}
    Manual = FALSE
    NoDesc = NoDesc
    Blank = Blank
    Missing = Missing
    NoEntry = NoEntry
    NoSnapshot = NoSnapshot
    NoSession = NoSession
INVARIANT SessionsTypeOK
INVARIANT LostOnlyUnused
PROPERTY UnusedExpires
