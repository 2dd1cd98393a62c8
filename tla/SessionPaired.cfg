SPECIFICATION Spec
CONSTANTS
    a = a
    b = b
    Senders = {a, b}
    Knows = {a, b}
    Verifies = {a, b}
    MaxStreams = 2
    Flows <- PairedFlows
    Offer <- PairedOffer
    Files <- PairedFiles
INVARIANTS TypeOK FlowsAgree SuccessMeansStored
PROPERTIES TransferKept SenderReturns OnlyTheBandIsAwaited
CHECK_DEADLOCK FALSE
