------------------------------ MODULE MCWallet ------------------------------
\* Instances of Wallet.tla for TLC.
EXTENDS Wallet, TLC

CONSTANTS u1, k1, k2, k3, s1, s2, s3

MCUsers   == {u1}
MCKeys    == {k1, k2, k3}
MCAmounts == {1, 2}
MCSlots   == {s1, s2, s3}
MCTwoSlots == {s1, s2}
Symmetry  == Permutations(MCKeys) \cup Permutations(MCSlots)
SymmetryTwo == Permutations(MCKeys) \cup Permutations(MCTwoSlots)
=============================================================================
