SPECIFICATION Spec
CONSTANTS
    Names <- MCNames
    Root = "root"
    Parent <- MCParent
    Streams <- LongStreams
    Trees <- EmptyTree
    Depth = 1
    Chunk = 1
    Verify = TRUE
    Durable = TRUE
INVARIANTS
    AckMeansDurable
