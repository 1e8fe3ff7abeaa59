SPECIFICATION Spec
CONSTANTS
  u1 = u1 u2 = u2 b1 = b1 b2 = b2
  k1 = k1 k2 = k2 k3 = k3 k4 = k4 k5 = k5 r1 = r1 r2 = r2 s1 = s1 s2 = s2
  None = None Idle = Idle
  Users <- OneUser
  Numbers <- PairNumbers
  RowCount = 1
  ColCount = 2
  Grids <- PairGrids
  Price <- MCPrice
  MaxQty = 2
  BuyKeys <- OneBuy
  CallKeys <- ThreeCalls
  UndoKeys <- OneUndo
  Opening <- MCOpening
  Withdrawals = {20}
  Slots <- TwoSlots
  Routes = {"bot"}
SYMMETRY Symmetry
INVARIANTS
  TypeOK
  PrizesWithinPool
PROPERTIES
  LedgerKept
