SPECIFICATION Spec
CONSTANTS
    Names <- MCNames
    Root = "root"
    Parent <- MCParent
    Offers <- MCOffers
    Trees <- MCTrees
    Flows = {1, 2}
    MaxEvents = 4
INVARIANTS
    HeldIsSame
    AckMeansSame
    RepeatIsFree
    DirModeIsOffered
    DurableAckCovers
PROPERTIES
    CopyKept
CHECK_DEADLOCK FALSE
