CONSTANTS
    None = None
    Peers = {a, b}
    Limit = 1
    MaxStored = 2
SPECIFICATION FairSpec
INVARIANTS
    TypeOK
    OnlyThisPeer
    NoGapBelowWatermark
    NoCallLost
PROPERTY CatchesUp
