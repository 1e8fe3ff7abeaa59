CONSTANTS
    u1 = u1  u2 = u2  w1 = w1  w2 = w2
    Users <- TwoUsers
    Blocked <- SecondUser
    Players <- OneUser
    Invoices <- TwoInvoices
    Owner <- MCOwner
    Audiences <- MCAudiences
    Limit = 2
    Workers <- TwoWorkers
    QueueSize = 1
    Threshold = 1
    MaxCalls = 2
    MaxMoves = 2
    MaxFaults = 1
    Idle = Idle
    None = None
SPECIFICATION FairSpec
INVARIANTS TypeOK ToldOnce
PROPERTIES NothingMissed DecisionsTold
