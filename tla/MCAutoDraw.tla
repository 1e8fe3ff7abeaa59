----------------------------- MODULE MCAutoDraw -----------------------------
(***************************************************************************)
(* Two instances: one request at a time, two overlapping cycles of the     *)
(* worker and a setting that changes; and two requests at a time.          *)
(***************************************************************************)
EXTENDS AutoDraw, TLC

TwoOrThree  == {2, 3}
ThreeOrders == {<<1, 2, 3>>, <<3, 2, 1>>, <<2, 1>>}
BothNumbers == {{1, 2}}

Two         == {2}
TwoOrders   == {<<1, 2>>, <<2, 1>>}
NumberOne   == {{1}}

FiveEight   == {5, 8}
SlotSymmetry == Permutations(Slots)
=============================================================================
