------------------------------- MODULE MCGame -------------------------------
\* Instances of Game.tla for TLC.
EXTENDS Game, TLC

CONSTANTS u1, u2, b1, b2, k1, k2, k3, k4, k5, r1, r2, s1, s2

OneUser  == {u1}
TwoUsers == {u1, u2}

\* Two layouts of two rows and two columns.  Calling 1 and 3 completes a column
\* of the first only, calling 2 next a row of the first and of the second at
\* once.
MCNumbers == 1..4
GridA == <<<<1, 2>>, <<3, 4>>>>
GridB == <<<<1, 4>>, <<2, 3>>>>
OneGrid  == {GridA}
TwoGrids == {GridA, GridB}

\* Cards of one row, for the runs that interleave calls: here a single number
\* is a column.
PairNumbers == 1..2
PairGrids   == {<<<<1, 2>>>>, <<<<2, 1>>>>}

\* A player can pay for two cards of price 15; commission and column share are
\* rounded for one card (2 of 15, 4 of 13) and for two.
MCPrice   == 15
MCOpening == {Tx(u, Ref("OPENING", 0), 35) : u \in Users}

OneCall    == {k1}
ThreeCalls == {k1, k2, k3}
FourCalls  == {k1, k2, k3, k4}
FiveCalls  == FourCalls \cup {k5}
OneUndo    == {r1}
TwoUndos   == {r1, r2}
OneBuy     == {b1}
TwoBuys    == {b1, b2}
OneSlot    == {s1}
TwoSlots   == {s1, s2}

Symmetry == Permutations(Users) \cup Permutations(BuyKeys)
            \cup Permutations(CallKeys) \cup Permutations(UndoKeys) \cup Permutations(Slots)
=============================================================================
