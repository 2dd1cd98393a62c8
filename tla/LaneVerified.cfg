SPECIFICATION FairSpec
CONSTANTS
    Lists <- MCLists
    Depth = 2
    Chunk = 2
INVARIANTS
    TypeOK
    BuffersConserved
    ChangeSurfaces
    ReaderNeverStarved
PROPERTIES
    LaneKeepsPromise
    ThreadsEnd
