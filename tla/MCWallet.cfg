CONSTANTS
    u1 = u1  k1 = k1  k2 = k2  k3 = k3  s1 = s1  s2 = s2  s3 = s3
    Users <- MCUsers
    Keys <- MCKeys
    Amounts <- MCAmounts
    Slots <- MCSlots
    Adjust = FALSE
    Missing = Missing
    Idle = Idle
SPECIFICATION Spec
INVARIANTS TypeOK
PROPERTIES LedgerKept MovesByPosting
SYMMETRY Symmetry
