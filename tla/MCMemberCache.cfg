CONSTANTS
    u1 = u1
    c1 = c1
    c2 = c2
    People <- OneUser
    Scans <- TwoScans
    CacheTime = 2
    ListingTime = 1
    UpdateDelay = 2
    NoList = NoList
    NoListing = NoListing
    LastMoment = 4
    MaxMoves = 2
SPECIFICATION MembersSpec
SYMMETRY CacheSymmetry
INVARIANTS
    MembersTypeOK
    InvalidationIsSeen
PROPERTIES
    ListsImplementVerdicts
