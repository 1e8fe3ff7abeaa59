SPECIFICATION Spec
CONSTANTS
  u1 = u1 u2 = u2 b1 = b1 b2 = b2
  k1 = k1 k2 = k2 k3 = k3 k4 = k4 k5 = k5 r1 = r1 r2 = r2 s1 = s1 s2 = s2
  None = None Idle = Idle
  Users <- OneUser
  Numbers <- MCNumbers
  RowCount = 2
  ColCount = 2
  Grids <- TwoGrids
  Price <- MCPrice
  MaxQty = 2
  BuyKeys <- OneBuy
  CallKeys <- FourCalls
  UndoKeys <- TwoUndos
  Opening <- MCOpening
  Withdrawals = {}
  Slots <- OneSlot
  Routes = {"bot"}
SYMMETRY Symmetry
INVARIANTS
  PayoutOfBoard
