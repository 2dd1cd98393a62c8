SPECIFICATION Spec
CONSTANTS
    Names <- MCNames
    Root = "root"
    Parent <- MCParent
    Streams <- DirStreams
    Trees <- FileAtDir
    Depth = 1
    Chunk = 1
    Verify = TRUE
    Durable = FALSE
INVARIANTS
    AckMeansEveryEntry
