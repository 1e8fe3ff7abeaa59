SPECIFICATION Spec
CONSTANTS
    Limits    <- Two
    Shuffles  <- TwoOrders
    Wins      <- NumberOne
    Intervals <- FiveEight
    Slots     = {s1, s2}
    Workers   = {w1, w2}
    MaxLost   = 1
    None      = None
    Idle      = Idle
INVARIANTS
    AlwaysDrawable
PROPERTIES
    DrawnAsCommitted
SYMMETRY SlotSymmetry
