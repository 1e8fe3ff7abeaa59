CONSTANTS
    u1 = u1  u2 = u2  i1 = i1  i2 = i2  t1 = t1  t2 = t2
    c1 = c1  c2 = c2  s1 = s1  s2 = s2
    Users <- TwoUsers
    Invoices <- TwoInvoices
    Transfers <- OneTransfer
    Networks <- Ton
    Amounts <- MCAmounts
    TomanOf <- MCTomanOf
    Sent <- MCSent
    Threshold = 4
    DailyCount = 1
    WalletUsers <- OneUser
    MaxClaims = 1
    Cycles <- OneCycle
    Slots <- OneSlot
    None = None
    Idle = Idle
SPECIFICATION FairSpec
INVARIANTS TypeOK Reconciled CreditBacked
PROPERTIES CreditedForGood SlotFreed
