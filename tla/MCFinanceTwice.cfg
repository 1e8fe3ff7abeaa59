CONSTANTS
    u1 = u1  d1 = d1  d2 = d2  w1 = w1  w2 = w2  p1 = p1  acc = acc
    n1 = n1  n2 = n2  s1 = s1  s2 = s2  s3 = s3
    Users <- MCUsers
    Deposits <- OneDeposit
    Withdrawals <- NoIds
    Payments <- NoIds
    Amounts <- OneAmount
    Details <- MCDetails
    Opening <- MCOpening
    Purchases <- MCPurchases
    Routes <- BothRoutes
    Nonces <- MCNonces
    Slots <- TwoSlots
    None = None
    Idle = Idle
SPECIFICATION Spec
SYMMETRY Symmetry
INVARIANTS DepositCreditedOnce
