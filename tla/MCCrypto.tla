------------------------------ MODULE MCCrypto ------------------------------
\* Instances of Crypto.tla for TLC.
EXTENDS Crypto, TLC

CONSTANTS u1, u2, i1, i2, t1, t2, c1, c2, s1, s2

NoUser       == {}
OneUser      == {u1}
TwoUsers     == {u1, u2}
TwoInvoices  == {i1, i2}
OneTransfer  == {t1}
TwoTransfers == {t1, t2}
Tron         == <<"TRON">>
Ton          == <<"TON">>
OneCycle     == {c1}
TwoCycles    == {c1, c2}
OneSlot      == {s1}
TwoSlots     == {s1, s2}

\* What is sent is more than one invoice asks for and less than another; the
\* second of two invoices for 1 gets the amount 2, which is met exactly.
MCAmounts    == {1}
MoreAmounts  == {1, 3}
MCSent       == {2}
MCTomanOf    == [a \in {1, 3} |-> a]

Symmetry ==
    Permutations(TwoUsers) \cup Permutations(TwoInvoices)
        \cup Permutations(TwoTransfers) \cup Permutations(TwoCycles)
=============================================================================
