SPECIFICATION FairSpec
CONSTANTS
    Names <- MCNames
    Root = "root"
    Parent <- MCParent
    Streams <- AllStreams
    Trees <- AllTrees
    Depth = 2
    Chunk = 1
    Verify = TRUE
    Durable = FALSE
INVARIANTS
    TypeOK
    ScratchHasOwner
    NoScratchLeft
    PreviousOrComplete
    BuffersConserved
    PlaceholderReplaced
    FailureHasCause
    AckMeansWritten
    ParentsAreDirs
PROPERTIES
    Terminates
