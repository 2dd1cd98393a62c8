SPECIFICATION Spec
CONSTANTS
    Names <- MCNames
    Root = "root"
    Parent <- MCParent
    Streams <- TreeStreams
    Trees <- UsedTrees
    Depth = 1
    Chunk = 2
    Verify = FALSE
    Durable = TRUE
INVARIANTS
    AckMeansDurable
    VisibleIsSynced
    PreviousOrComplete
