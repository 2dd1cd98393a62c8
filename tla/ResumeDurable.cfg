SPECIFICATION Spec
CONSTANTS
    Names <- MCNames
    Root = "root"
    Parent <- MCParent
    Offers <- TreeOffer
    Trees <- EmptyTree
    Flows = {1}
    MaxEvents = 3
INVARIANTS
    DurableAckCoversAll
CHECK_DEADLOCK FALSE
