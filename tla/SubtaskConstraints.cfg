SPECIFICATION FairSpec
CONSTANTS
    Eefs <- TwoEefs
    KeyOrders <- BothOrders
    SortedOrder <- LeftRight
    NumSubtasks <- TwoSubtasks
    ConstraintSets <- ManyConstraints
    Segments = {1, 3}
    Leads = {0}
    Modes = {"plain", "skillgen", "navigation"}
    MotionLengths = {1, 2}
    Body = "left"
    MaxLength = 8
INVARIANTS
    TypeOK
    NoException
    LatterHeldBack
    CoordinatedTogether
PROPERTIES
    AttemptEnds
