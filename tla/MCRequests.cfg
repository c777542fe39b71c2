\* tools/list over a configuration that changes.
CONSTANTS
    s1 = s1
    s2 = s2
    v1 = v1
    v2 = v2
    own = own
    t1 = t1
    t2 = t2
    original = original
    blank = blank
    Names = {s1, s2}
    Versions = {v1, v2}
    Patterns = {own, t1, t2}
    Settings = {original, blank}
    Default = original
    Contents <- MCContents
    MaxEdits = 1
    Unlisted = Unlisted
    Off = Off
    Unset = Unset
    Missing = Missing
    Broken = Broken
    Nothing = Nothing
    Own <- MCOwn
    Offers <- MCOffers
    PageSize = 2
    Garbage = Garbage
SPECIFICATION FrontEndSpec
INVARIANT FrontEndTypeOK
INVARIANT CacheIsCurrent
INVARIANT WalkIsExact
PROPERTY ConfigApplies
PROPERTY WalkEnds
PROPERTY HiddenStaysHidden
