SPECIFICATION FairSpec
CONSTANTS
    Limits    <- TwoOrThree
    Shuffles  <- ThreeOrders
    Wins      <- BothNumbers
    Intervals <- FiveEight
    Slots     = {s1}
    Workers   = {w1, w2}
    MaxLost   = 1
    None      = None
    Idle      = Idle
INVARIANTS
    TypeOK
    NothingSkipped
    EndsWithRow
PROPERTIES
    DrawnToTheEnd
