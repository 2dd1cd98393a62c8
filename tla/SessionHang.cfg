SPECIFICATION Spec
CONSTANTS
    a = a
    b = b
    Senders = {a}
    Knows = {a}
    Verifies = {a}
    MaxStreams = 2
    Flows <- PairedFlows
    Offer <- PairedOffer
    Files <- PairedFiles
PROPERTIES NeverBlocksForever
CHECK_DEADLOCK FALSE
