SPECIFICATION Spec
CONSTANTS
    Names <- MCNames
    Root = "root"
    Parent <- MCParent
    Streams <- LongTwiceStreams
    Trees <- EmptyTree
    Depth = 2
    Chunk = 1
    Verify = TRUE
    Durable = FALSE
INVARIANTS
    AckMeansWritten
