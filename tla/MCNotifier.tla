----------------------------- MODULE MCNotifier -----------------------------
\* Instances of Notifier.tla for TLC.
EXTENDS Notifier

CONSTANTS u1, u2, w1, w2

OneUser     == {u1}
TwoUsers    == {u1, u2}
SecondUser  == {u2}
OneWorker   == {w1}
TwoWorkers  == {w1, w2}
TwoInvoices == {1, 2}
OneInvoice  == {1}
NoInvoice   == {}
MCOwner     == [i \in Invoices |-> IF i = 1 /\ Blocked # {} THEN u2 ELSE u1]
MCAudiences == <<"admin", "user">>
=============================================================================
