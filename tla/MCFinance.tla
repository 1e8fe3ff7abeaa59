----------------------------- MODULE MCFinance -----------------------------
\* Instances of Finance.tla for TLC.
EXTENDS Finance, TLC

CONSTANTS u1, d1, d2, w1, w2, p1, acc, n1, n2, s1, s2, s3

MCUsers     == {u1}
OneDeposit  == {d1}
TwoDeposits == {d1, d2}
NoIds       == {}
TwoWithdrawals == {w1, w2}
OnePayment  == {p1}
MCAmounts   == {1, 2}
OneAmount   == {1}
MCDetails   == {acc}
MCPurchases == {2}
MCNonces    == {n1, n2}
BothRoutes  == {"bot", "mini"}
TwoSlots    == {s1, s2}
ThreeSlots  == {s1, s2, s3}

\* The user holds enough for one of two withdrawals and the purchase.
MCOpening == {Tx(u1, Ref("OPENING", 0), 3)}

Symmetry ==
    Permutations(TwoDeposits) \cup Permutations(TwoWithdrawals)
        \cup Permutations(MCNonces) \cup Permutations(TwoSlots)
SymmetryThree ==
    Permutations(TwoWithdrawals) \cup Permutations(MCNonces) \cup Permutations(ThreeSlots)

\* Explored: a deposit with three requests at a time, or withdrawals and a payment
\* with two.
OneSide ==
    LET busy == Cardinality({s \in Slots : req[s] # Idle})
    IN  \/ /\ \A i \in Withdrawals : withdrawal[i] = None
           /\ \A i \in Payments : payment[i] = None
        \/ /\ \A i \in Deposits : deposit[i] = None
           /\ busy <= 2
=============================================================================
