SPECIFICATION FairSpec
CONSTANTS
    e1 = e1
    e2 = e2
    Externals <- MCExternals
    Ranges <- MCRanges
    CooldownSize = 2
    Probes = 2
    CursorMod = 5
    IdxMod = 4
INVARIANTS TypeOK RingIsRecent ProbesAreDistinct
PROPERTIES NoQuickReuse NoPortStarves RoomyRangeServes
