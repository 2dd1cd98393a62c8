SPECIFICATION ProgramSpec
CONSTANTS
    a = a
    b = b
    Senders = {a, b}
    Knows = {a}
    Verifies = {a}
    MaxStreams = 2
    Flows <- ProgramFlows
    Offer <- ProgramOffer
    Files <- ProgramFiles
    Told = {b}
    OnLink = {a}
    AnyPort = AnyPort
    Asked = AnyPort
    Ports = {p}
    Tries = 3
    TfRecv = TfRecv
INVARIANTS ReplyNamesListener OneGuess
PROPERTIES NeverBlocksForever CommandsReturn
CHECK_DEADLOCK FALSE
