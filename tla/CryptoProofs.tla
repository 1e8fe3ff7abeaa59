---------------------------- MODULE CryptoProofs ----------------------------
(***************************************************************************)
(* Theorems about Crypto.tla for every number of users, invoices,          *)
(* transfers, networks and amounts.                                        *)
(*                                                                         *)
(* Base is inductive whatever runs: the types, and that a cycle handles    *)
(* transfers and invoices that exist.  Everything else needs that cycles   *)
(* do not overlap.  Then Undecided is inductive: an invoice that a cycle   *)
(* works on is not credited meanwhile.  With any number of claims, as long *)
(* as none replaces the hash an invoice is just being settled with         *)
(* (QuietSpec), CryptoInv is inductive: the row a cycle has loaded is      *)
(* still true of the invoice but for a rejection, a cancellation or a      *)
(* claim, and the credited invoices and the ledger describe each other.    *)
(***************************************************************************)
EXTENDS Crypto, FiniteSetTheorems, NaturalsInduction, WellFoundedInduction, TLAPS

\* One cycle at a time (the Redis lock of run_once).
OneCycle == \A c, d \in Cycles : c = d

Finite == \A s \in Slots : req[s] # Idle => IsFiniteSet(req[s].taken)

\* What a cycle has listed is on the chain, and the invoice it works on exists.
Sighted(c) ==
    /\ \A entry \in cycle[c].batch : chain[entry[1]] # None
    /\ cycle[c].work # None =>
          /\ chain[cycle[c].work.hash] # None
          /\ Exists(cycle[c].work.id)

Base ==
    /\ TypeOK
    /\ Finite
    /\ \A c \in Cycles : Sighted(c)

-----------------------------------------------------------------------------
(* The amount of a new invoice (_unique_open_amount) *)

\* A set that leaves out one of a range of naturals has a least such member.
LEMMA LeastFree ==
    ASSUME NEW a \in Nat, NEW b \in Nat, NEW taken, ~ (a .. b \subseteq taken)
    PROVE  \E x \in a .. b : x \notin taken /\ \A y \in a .. x - 1 : y \in taken
  <1> DEFINE free == (a .. b) \ taken
  <1>1. free # {} /\ free \subseteq Nat
    OBVIOUS
  <1>2. IsWellFoundedOn(OpToRel(<, Nat), Nat)
    BY NatLessThanWellFounded
  <1>3. PICK x \in free : \A y \in free : ~ (<<y, x>> \in OpToRel(<, Nat))
    <2> HIDE DEF free
    <2>1. QED
      BY <1>1, <1>2, WFMin
  <1>4. \A y \in free : ~ (y < x)
    BY <1>3, <1>1 DEF OpToRel
  <1>5. ASSUME NEW y \in a .. x - 1
        PROVE  y \in taken
    <2>1. x \in Int /\ a <= x /\ x <= b
      OBVIOUS
    <2>2. y \in Int /\ a <= y /\ y < x
      BY <2>1
    <2>3. y \in a .. b /\ y \notin free
      BY <2>1, <2>2, <1>4
    <2>4. QED
      BY <2>3
  <1>6. QED
    BY <1>5

\* One of the raw amount and as many that follow it as there are amounts in use is
\* free, so a creation finds an amount, and it is in use by no open invoice that
\* its snapshot showed.
LEMMA FreeAmount ==
    ASSUME NEW raw \in Nat, NEW taken, IsFiniteSet(taken)
    PROVE  UniqueAmount(raw, taken) \in Nat \ taken
  <1> DEFINE n == Cardinality(taken)
  <1>1. n \in Nat
    BY FS_CardinalityType
  <1>2. IsFiniteSet(raw .. raw + n) /\ Cardinality(raw .. raw + n) = n + 1
    BY SMTT(30), <1>1, FS_Interval
  <1>3. ~ (raw .. raw + n \subseteq taken)
    <2>1. SUFFICES ASSUME raw .. raw + n \subseteq taken PROVE FALSE
      OBVIOUS
    <2>2. Cardinality(raw .. raw + n) <= n
      BY <2>1, FS_Subset
    <2>3. QED
      BY <2>2, <1>1, <1>2
  <1>4. raw + n \in Nat
    BY <1>1
  <1>5. \E x \in raw .. raw + n : x \notin taken /\ \A y \in raw .. x - 1 : y \in taken
    <2> HIDE DEF n
    <2>1. QED
      BY <1>3, <1>4, LeastFree
  <1>6. UniqueAmount(raw, taken) \in (raw .. raw + n) \ taken
    BY <1>5 DEF UniqueAmount
  <1>7. QED
    BY <1>6, <1>1

\* The amounts in use on a network are finitely many.
LEMMA FiniteAmounts ==
    ASSUME NEW net
    PROVE  IsFiniteSet(OpenAmounts(net))
  <1> DEFINE open == {j \in Invoices : Open(j) /\ invoice[j].net = net}
             amount == [i \in open |-> invoice[i].amount]
  <1>1. IsFiniteSet(open)
    BY CryptoAssumption, FS_Subset
  <1>2. amount \in Surjection(open, OpenAmounts(net))
    BY DEF Surjection, OpenAmounts
  <1>3. QED
    BY <1>1, <1>2, FS_Surjection

-----------------------------------------------------------------------------
(* The types *)

\* A row is changed in place or inserted, and a transfer stays on the chain: what a
\* cycle works on is there to be found.
LEMMA SightedKept ==
    ASSUME NEW c, Sighted(c), UNCHANGED cycle,
           \A i : Exists(i) => Exists(i)',
           \A t : chain[t] # None => chain'[t] # None
    PROVE  Sighted(c)'
  BY DEF Sighted

\* A step that writes invoices only.
LEMMA RowsWritten ==
    ASSUME Base, UNCHANGED <<age, chain, cycle, req>>,
           invoice' \in [Invoices -> InvoiceRow \cup {None}],
           \A i : Exists(i) => Exists(i)',
           ledger' \in SUBSET TxRecord,
           refs' \in [Users \X Transfers -> Invoices \cup {None}]
    PROVE  Base'
  <1>1. \A c \in Cycles : Sighted(c)'
    BY SightedKept DEF Base
  <1>2. Finite'
    BY DEF Base, Finite
  <1>3. TypeOK'
    BY DEF Base, TypeOK
  <1>4. QED
    BY <1>1, <1>2, <1>3 DEF Base

\* The update of one row that exists.
LEMMA RowWritten ==
    ASSUME Base, UNCHANGED <<age, chain, cycle, req>>,
           NEW i \in Invoices, NEW row \in InvoiceRow,
           Exists(i), invoice' = [invoice EXCEPT ![i] = row],
           ledger' \in SUBSET TxRecord,
           refs' \in [Users \X Transfers -> Invoices \cup {None}]
    PROVE  Base'
  <1>1. invoice \in [Invoices -> InvoiceRow \cup {None}]
    BY DEF Base, TypeOK
  <1>2. row # None
    BY NoneAssumption
  <1>3. invoice' \in [Invoices -> InvoiceRow \cup {None}]
    BY <1>1
  <1>4. \A j : Exists(j) => Exists(j)'
    BY <1>1, <1>2 DEF Exists
  <1>5. QED
    BY <1>3, <1>4, RowsWritten

LEMMA RowOf ==
    ASSUME Base, NEW i \in Invoices, Exists(i)
    PROVE  invoice[i] \in InvoiceRow
  BY DEF Base, TypeOK, Exists

\* Crediting an invoice that exists keeps the ledger well formed.
LEMMA CreditTyped ==
    ASSUME Base, NEW i \in Invoices, Exists(i), NEW t \in Transfers, Credited(i, t)
    PROVE  /\ ledger' \in SUBSET TxRecord
           /\ refs' \in [Users \X Transfers -> Invoices \cup {None}]
  <1>1. invoice[i] \in InvoiceRow
    BY RowOf
  <1>2. Settle(i, t) \in TxRecord
    BY <1>1 DEF Settle, Tx, Key, TxRecord, InvoiceRow
  <1>3. ledger' \subseteq ledger \cup {Settle(i, t)}
    BY DEF Credited, Posted, NewTxs
  <1>4. refs \in [Users \X Transfers -> Invoices \cup {None}] /\ ledger \in SUBSET TxRecord
    BY DEF Base, TypeOK
  <1>5. QED
    BY <1>2, <1>3, <1>4 DEF Credited

LEMMA BaseUsers == Base /\ UserRequests => Base'
  <1> SUFFICES ASSUME Base, UserRequests PROVE Base'
    OBVIOUS
  <1>t. TypeOK /\ Finite
    BY DEF Base
  <1>1. ASSUME NEW s \in Slots, NEW u \in Users, NEW net \in Nets, NEW a \in Amounts,
               BeginCreate(s, u, net, a)
        PROVE  Base'
    <2> DEFINE new == [user |-> u, net |-> net, raw |-> a, taken |-> OpenAmounts(net)]
    <2>1. OpenAmounts(net) \subseteq Nat
      BY <1>t, RowOf DEF OpenAmounts, Open, InStatus, InvoiceRow
    <2>2. new \in Creation
      BY <2>1 DEF Creation
    <2>3. req' = [req EXCEPT ![s] = new] /\ UNCHANGED <<invoice, age, chain, ledger, refs, cycle>>
      BY <1>1 DEF BeginCreate
    <2>4. req' \in [Slots -> Creation \cup {Idle}]
      BY <1>t, <2>2, <2>3 DEF TypeOK
    <2>5. TypeOK'
      BY <1>t, <2>3, <2>4 DEF TypeOK
    <2>6. Finite'
      BY <1>t, <2>3, FiniteAmounts DEF Finite, TypeOK
    <2>7. \A c \in Cycles : Sighted(c)'
      BY <2>3 DEF Base, Sighted, Exists
    <2>8. QED
      BY <2>5, <2>6, <2>7 DEF Base
  <1>2. ASSUME NEW s \in Slots, NEW i \in Invoices, Create(s, i)
        PROVE  Base'
    <2> DEFINE row == [user |-> req[s].user, net |-> req[s].net,
                       amount |-> UniqueAmount(req[s].raw, req[s].taken),
                       toman |-> TomanOf[req[s].raw], status |-> "WAITING_PAYMENT",
                       active |-> TRUE, hash |-> None, paid |-> 0, detected |-> FALSE,
                       requested |-> FALSE, claims |-> 0]
    <2>1. req[s] \in Creation /\ IsFiniteSet(req[s].taken)
      BY <1>2, <1>t DEF Create, TypeOK, Finite
    <2>2. UniqueAmount(req[s].raw, req[s].taken) \in Nat
      BY <2>1, FreeAmount, CryptoAssumption DEF Creation
    <2>3. TomanOf[req[s].raw] \in Nat \ {0} /\ MaxClaims \in Nat
      BY <2>1, CryptoAssumption DEF Creation
    <2>4. row \in InvoiceRow
      BY <2>1, <2>2, <2>3 DEF Creation, InvoiceRow, InvoiceStatus, OPEN_STATUSES
    <2>5. /\ invoice' = [invoice EXCEPT ![i] = row]
          /\ invoice[i] = None
          /\ req' = [req EXCEPT ![s] = Idle]
          /\ UNCHANGED <<age, chain, ledger, refs, cycle>>
      BY <1>2 DEF Create
    <2> HIDE DEF row
    <2>6. TypeOK'
      BY <1>t, <2>4, <2>5 DEF TypeOK
    <2>7. Finite'
      BY <1>t, <2>5 DEF Finite, TypeOK
    <2>8. \A j : Exists(j) => Exists(j)'
      BY <1>t, <2>5 DEF Exists, TypeOK
    <2>9. \A c \in Cycles : Sighted(c)'
      BY <2>5, <2>8, SightedKept DEF Base
    <2>10. QED
      BY <2>6, <2>7, <2>9 DEF Base
  <1>3. ASSUME NEW s \in Slots, Drop(s)
        PROVE  Base'
    BY <1>3, <1>t DEF Drop, Base, TypeOK, Finite, Sighted, Exists
  <1>4. ASSUME NEW i \in Invoices, NEW t \in Transfers, Claim(i, t)
        PROVE  Base'
    <2>1. invoice[i] \in InvoiceRow /\ Exists(i) /\ invoice[i].claims < MaxClaims
      BY <1>4, RowOf DEF Claim, InStatus
    <2> DEFINE n == invoice[i].claims + 1
    <2>2. n \in 0 .. MaxClaims
      BY <2>1, CryptoAssumption DEF InvoiceRow
    <2>3. invoice' = [invoice EXCEPT ![i] = [invoice[i] EXCEPT !.hash = t, !.claims = n]]
      BY <1>4, <1>t DEF Claim, TypeOK
    <2> HIDE DEF n
    <2>4. [invoice[i] EXCEPT !.hash = t, !.claims = n] \in InvoiceRow
      BY <2>1, <2>2 DEF InvoiceRow
    <2>5. QED
      BY <1>4, <1>t, <2>1, <2>3, <2>4, RowWritten DEF Claim, others, TypeOK
  <1>5. ASSUME NEW i \in Invoices, Cancel(i)
        PROVE  Base'
    <2>1. invoice[i] \in InvoiceRow /\ Exists(i)
      BY <1>5, RowOf DEF Cancel, InStatus
    <2>2. [invoice[i] EXCEPT !.status = "CANCELLED", !.active = FALSE] \in InvoiceRow
      BY <2>1 DEF InvoiceRow, InvoiceStatus
    <2>3. QED
      BY <1>5, <1>t, <2>1, <2>2, RowWritten DEF Cancel, Closed, others, TypeOK
  <1>6. ASSUME NEW i \in Invoices, NEW submitted \in BOOLEAN, WalletEvent(i, submitted)
        PROVE  Base'
    <2>1. invoice[i] \in InvoiceRow /\ Exists(i)
      BY <1>6, RowOf DEF WalletEvent, Open, InStatus
    <2>2. [invoice[i] EXCEPT !.requested = submitted] \in InvoiceRow
      BY <2>1 DEF InvoiceRow
    <2>3. QED
      BY <1>6, <1>t, <2>1, <2>2, RowWritten DEF WalletEvent, others, TypeOK
  <1>7. QED
    BY <1>1, <1>2, <1>3, <1>4, <1>5, <1>6 DEF UserRequests

LEMMA BaseAdmins == Base /\ AdminRequests => Base'
  <1> SUFFICES ASSUME Base, AdminRequests PROVE Base'
    OBVIOUS
  <1>1. ASSUME NEW i \in Invoices, Approve(i)
        PROVE  Base'
    <2>1. invoice[i] \in InvoiceRow /\ Exists(i) /\ invoice[i].hash # None
      BY <1>1, RowOf DEF Approve, InStatus
    <2>2. [invoice[i] EXCEPT !.status = "CREDITED", !.active = FALSE] \in InvoiceRow
      BY <2>1 DEF InvoiceRow, InvoiceStatus
    <2>3. invoice[i].hash \in Transfers
      BY <2>1 DEF InvoiceRow
    <2>4. Credited(i, invoice[i].hash) /\ UNCHANGED <<age, chain, cycle, req>>
      BY <1>1 DEF Approve
    <2>5. /\ ledger' \in SUBSET TxRecord
          /\ refs' \in [Users \X Transfers -> Invoices \cup {None}]
      BY <2>1, <2>3, <2>4, CreditTyped
    <2>6. QED
      BY <1>1, <2>1, <2>2, <2>4, <2>5, RowWritten DEF Approve, Closed
  <1>2. ASSUME NEW i \in Invoices, Reject(i)
        PROVE  Base'
    <2>1. invoice[i] \in InvoiceRow /\ Exists(i)
      BY <1>2, RowOf DEF Reject, InStatus
    <2>2. [invoice[i] EXCEPT !.status = "REJECTED", !.active = FALSE] \in InvoiceRow
      BY <2>1 DEF InvoiceRow, InvoiceStatus
    <2>3. TypeOK
      BY DEF Base
    <2>4. QED
      BY <1>2, <2>1, <2>2, <2>3, RowWritten DEF Reject, Closed, others, TypeOK
  <1>3. QED
    BY <1>1, <1>2 DEF AdminRequests

LEMMA BaseWorld == Base /\ World => Base'
  <1> SUFFICES ASSUME Base, World PROVE Base'
    OBVIOUS
  <1>t. TypeOK /\ Finite
    BY DEF Base
  <1>1. ASSUME UNCHANGED <<invoice, age, ledger, refs, cycle, req>>,
               NEW t \in Transfers, NEW row \in TransferRow,
               chain' = [chain EXCEPT ![t] = row]
        PROVE  Base'
    <2>1. row # None
      BY NoneAssumption
    <2>2. \A x : chain[x] # None => chain'[x] # None
      BY <1>t, <1>1, <2>1 DEF TypeOK
    <2>3. \A c \in Cycles : Sighted(c)'
      BY <1>1, <2>2, SightedKept DEF Base, Exists
    <2>4. TypeOK' /\ Finite'
      BY <1>t, <1>1 DEF TypeOK, Finite
    <2>5. QED
      BY <2>3, <2>4 DEF Base
  <1>2. ASSUME NEW t \in Transfers, NEW net \in Nets, NEW a \in Sent,
               NEW memo \in Invoices \cup {None}, Pay(t, net, a, memo)
        PROVE  Base'
    <2>1. [net |-> net, amount |-> a, memo |-> memo, confirmed |-> FALSE,
           window |-> WindowNow] \in TransferRow
      BY DEF TransferRow, WindowNow
    <2>2. QED
      BY <1>1, <1>2, <2>1 DEF Pay
  <1>3. ASSUME NEW t \in Transfers, Confirm(t)
        PROVE  Base'
    <2>1. chain[t] \in TransferRow
      BY <1>t, <1>3 DEF TypeOK, Confirm
    <2>2. [chain[t] EXCEPT !.confirmed = TRUE] \in TransferRow
      BY <2>1 DEF TransferRow
    <2>3. chain' = [chain EXCEPT ![t] = [chain[t] EXCEPT !.confirmed = TRUE]]
      BY <1>t, <1>3 DEF Confirm, TypeOK
    <2>4. QED
      BY <1>1, <1>3, <2>2, <2>3 DEF Confirm
  <1>4. ASSUME NEW i \in Invoices, Tick(i)
        PROVE  Base'
    BY <1>4, <1>t DEF Tick, Base, TypeOK, Finite, Sighted, Exists
  <1>5. QED
    BY <1>2, <1>3, <1>4 DEF World

-----------------------------------------------------------------------------
(* The types under a step of a cycle *)

\* A step that writes the cycle only.
LEMMA CycleWritten ==
    ASSUME Base, UNCHANGED <<invoice, age, chain, ledger, refs, req>>,
           NEW c \in Cycles, NEW next \in CycleRow, cycle' = [cycle EXCEPT ![c] = next],
           \A entry \in next.batch : chain[entry[1]] # None,
           next.work # None => chain[next.work.hash] # None /\ Exists(next.work.id)
    PROVE  Base'
  <1>1. TypeOK' /\ Finite'
    BY DEF Base, TypeOK, Finite
  <1>2. cycle'[c] = next /\ \A d \in Cycles \ {c} : cycle'[d] = cycle[d]
    BY DEF Base, TypeOK
  <1>3. ASSUME NEW d \in Cycles PROVE Sighted(d)'
    <2>1. CASE d = c
      BY <1>2, <2>1 DEF Sighted, Exists
    <2>2. CASE d # c
      BY <1>2, <2>2 DEF Base, Sighted, Exists
    <2>3. QED
      BY <2>1, <2>2
  <1>4. QED
    BY <1>1, <1>3 DEF Base

\* Dropping the work of a cycle.
LEMMA WorkDropped ==
    ASSUME Base, NEW c \in Cycles, Unwork(c)
    PROVE  /\ cycle' \in [Cycles -> CycleRow]
           /\ \A d \in Cycles : cycle'[d].batch = cycle[d].batch
           /\ \A d \in Cycles : cycle'[d].work \in {cycle[d].work, None}
           /\ cycle'[c].work = None
  <1>1. cycle[c] \in CycleRow /\ cycle \in [Cycles -> CycleRow]
    BY DEF Base, TypeOK
  <1>2. [cycle[c] EXCEPT !.work = None] \in CycleRow
    BY <1>1 DEF CycleRow
  <1>3. cycle' = [cycle EXCEPT ![c] = [cycle[c] EXCEPT !.work = None]]
    BY <1>1 DEF Unwork
  <1>4. [cycle[c] EXCEPT !.work = None].batch = cycle[c].batch
    BY <1>1 DEF CycleRow
  <1>5. [cycle[c] EXCEPT !.work = None].work = None
    BY <1>1 DEF CycleRow
  <1>6. QED
    BY <1>1, <1>2, <1>3, <1>4, <1>5

\* What a cycle works on.
LEMMA WorkOf ==
    ASSUME Base, NEW c \in Cycles, ~ Listing(c)
    PROVE  /\ cycle[c].work \in WorkRow
           /\ chain[cycle[c].work.hash] \in TransferRow
           /\ Exists(cycle[c].work.id)
           /\ invoice[cycle[c].work.id] \in InvoiceRow
  <1>1. cycle[c] \in CycleRow /\ Sighted(c) /\ TypeOK
    BY DEF Base, TypeOK
  <1>2. cycle[c].work \in WorkRow
    BY <1>1 DEF CycleRow, Listing
  <1>3. cycle[c].work.hash \in Transfers /\ cycle[c].work.id \in Invoices
    BY <1>2 DEF WorkRow
  <1>4. chain[cycle[c].work.hash] # None /\ Exists(cycle[c].work.id)
    BY <1>1 DEF Sighted, Listing
  <1>5. chain[cycle[c].work.hash] \in TransferRow
    BY <1>1, <1>3, <1>4 DEF TypeOK
  <1>6. QED
    BY <1>2, <1>3, <1>4, <1>5, RowOf

LEMMA OutcomeType ==
    ASSUME NEW row, NEW a, NEW confirmed
    PROVE  Outcome(row, a, confirmed) \in InvoiceStatus
  BY DEF Outcome, InvoiceStatus, OPEN_STATUSES

LEMMA WrittenType ==
    ASSUME NEW now \in InvoiceRow, NEW row \in InvoiceRow, NEW t \in Transfers,
           NEW a \in Nat, NEW status \in InvoiceStatus
    PROVE  Written(now, row, t, a, status) \in InvoiceRow
  BY ZenonT(30) DEF Written, Flushed, InvoiceRow

\* Apply, as one update of one row.
LEMMA ApplyWrites ==
    ASSUME Base, NEW c \in Cycles, Apply(c)
    PROVE  LET w == cycle[c].work
               status == Outcome(w.row, chain[w.hash].amount, w.confirmed)
               row == Written(invoice[w.id], w.row, w.hash, chain[w.hash].amount, status)
           IN  /\ w \in WorkRow
               /\ Exists(w.id)
               /\ row \in InvoiceRow
               /\ HashFree(w.hash, w.id)
               /\ invoice' = [invoice EXCEPT ![w.id] = row]
               /\ IF status = "CREDITED"
                  THEN /\ HasTx(ledger, w.row.user, Key(w.hash)) => w.posted
                       /\ Credited(w.id, w.hash)
                  ELSE UNCHANGED <<ledger, refs>>
               /\ Unwork(c)
               /\ UNCHANGED <<age, chain, req>>
  <1> DEFINE w == cycle[c].work
             status == Outcome(w.row, chain[w.hash].amount, w.confirmed)
             row == Written(invoice[w.id], w.row, w.hash, chain[w.hash].amount, status)
  <1>1. w \in WorkRow /\ chain[w.hash] \in TransferRow /\ Exists(w.id) /\ invoice[w.id] \in InvoiceRow
    BY WorkOf DEF Apply
  <1>2. chain[w.hash].amount \in Nat
    BY <1>1, CryptoAssumption DEF TransferRow
  <1>3. status \in InvoiceStatus
    BY OutcomeType
  <1>4. row \in InvoiceRow
    <2>1. w.row \in InvoiceRow /\ w.hash \in Transfers
      BY <1>1 DEF WorkRow
    <2> HIDE DEF w, status
    <2>2. QED
      BY <1>1, <1>2, <1>3, <2>1, WrittenType
  <1>5. w.id \in Invoices
    BY <1>1 DEF WorkRow
  <1>6. invoice' = [invoice EXCEPT ![w.id] = row]
    BY <1>5 DEF Apply, Base, TypeOK
  <1>7. QED
    BY <1>1, <1>4, <1>6 DEF Apply

LEMMA BaseApply == ASSUME Base, NEW c \in Cycles, Apply(c) PROVE Base'
  <1> DEFINE w == cycle[c].work
             status == Outcome(w.row, chain[w.hash].amount, w.confirmed)
             row == Written(invoice[w.id], w.row, w.hash, chain[w.hash].amount, status)
  <1>1. w \in WorkRow /\ Exists(w.id) /\ row \in InvoiceRow
    BY ApplyWrites
  <1>2. invoice' = [invoice EXCEPT ![w.id] = row] /\ Unwork(c) /\ UNCHANGED <<age, chain, req>>
    BY ApplyWrites
  <1>3. IF status = "CREDITED" THEN Credited(w.id, w.hash) ELSE UNCHANGED <<ledger, refs>>
    BY ApplyWrites
  <1>4. w.id \in Invoices /\ w.hash \in Transfers
    BY <1>1 DEF WorkRow
  <1>t. TypeOK /\ Finite /\ row # None
    BY <1>1, NoneAssumption DEF Base
  <1> HIDE DEF w, status, row
  <1>5. /\ ledger' \in SUBSET TxRecord
        /\ refs' \in [Users \X Transfers -> Invoices \cup {None}]
    <2>1. CASE status = "CREDITED"
      BY <2>1, <1>1, <1>3, <1>4, CreditTyped
    <2>2. CASE status # "CREDITED"
      BY <2>2, <1>3, <1>t DEF TypeOK
    <2>3. QED
      BY <2>1, <2>2
  <1>6. cycle' \in [Cycles -> CycleRow]
    BY <1>2, WorkDropped
  <1>7. invoice' \in [Invoices -> InvoiceRow \cup {None}] /\ \A i : Exists(i) => Exists(i)'
    BY <1>1, <1>2, <1>4, <1>t DEF TypeOK, Exists
  <1>8. TypeOK' /\ Finite'
    BY <1>2, <1>5, <1>6, <1>7, <1>t DEF TypeOK, Finite
  <1>9. ASSUME NEW d \in Cycles PROVE Sighted(d)'
    <2>1. cycle'[d].batch = cycle[d].batch /\ cycle'[d].work \in {cycle[d].work, None}
      BY <1>2, WorkDropped
    <2>2. Sighted(d)
      BY DEF Base
    <2>3. QED
      BY <2>1, <2>2, <1>2, <1>7 DEF Sighted
  <1>10. QED
    BY <1>8, <1>9 DEF Base

LEMMA BaseCycle == ASSUME Base, NEW c \in Cycles, Work(c) \/ Expire(c) \/ CycleDies(c) PROVE Base'
  <1>t. TypeOK /\ Finite /\ cycle[c] \in CycleRow
    BY DEF Base, TypeOK
  <1>l. Len(Networks) \in Nat
    BY CryptoAssumption
  <1>1. ASSUME NEW n \in 0 .. Len(Networks), NEW batch \in SUBSET (Transfers \X BOOLEAN),
               \A entry \in batch : chain[entry[1]] # None,
               cycle' = [cycle EXCEPT ![c] = At(n, batch)],
               UNCHANGED <<invoice, age, chain, ledger, refs, req>>
        PROVE  Base'
    <2>1. At(n, batch) \in CycleRow /\ At(n, batch).batch = batch /\ At(n, batch).work = None
      BY DEF At, CycleRow
    <2>2. QED
      BY <1>1, <2>1, CycleWritten
  <1>2. CASE Scan(c)
    <2> DEFINE incoming == IF OpenAmounts(NetworkOf(c)) # {} THEN Incoming(NetworkOf(c)) ELSE {}
               listed == {<<t, chain[t].confirmed>> : t \in incoming}
    <2>1. \A t \in incoming : t \in Transfers /\ chain[t] \in TransferRow /\ chain[t] # None
      BY <1>t DEF Incoming, TypeOK
    <2>2. listed \in SUBSET (Transfers \X BOOLEAN) /\ \A entry \in listed : chain[entry[1]] # None
      <3> HIDE DEF incoming
      <3>1. QED
        BY <2>1 DEF TransferRow
    <2>3. cycle[c].net + 1 \in 0 .. Len(Networks)
      BY <1>2, <1>t, <1>l DEF Scan, CycleRow
    <2>4. cycle' = [cycle EXCEPT ![c] = At(cycle[c].net + 1, listed)]
      BY <1>2, <1>t DEF Scan, TypeOK
    <2> HIDE DEF listed
    <2>5. QED
      BY <1>1, <1>2, <2>2, <2>3, <2>4 DEF Scan
  <1>3. CASE ScanFails(c)
    <2>1. cycle[c].net + 1 \in 0 .. Len(Networks)
      BY <1>3, <1>t, <1>l DEF ScanFails, CycleRow
    <2>2. cycle' = [cycle EXCEPT ![c] = At(cycle[c].net + 1, {})]
      BY <1>3, <1>t DEF ScanFails, TypeOK
    <2>3. QED
      BY <1>1, <1>3, <2>1, <2>2 DEF ScanFails
  <1>4. CASE Match(c)
    <2>1. PICK entry \in cycle[c].batch :
             \/ cycle' = [cycle EXCEPT ![c].batch = cycle[c].batch \ {entry}]
             \/ \E i \in Targets(entry[1]) :
                   cycle' = [cycle EXCEPT
                      ![c].batch = cycle[c].batch \ {entry},
                      ![c].work = [hash |-> entry[1], confirmed |-> entry[2], id |-> i,
                                   row |-> invoice[i],
                                   posted |-> HasTx(ledger, invoice[i].user, Key(entry[1]))]]
      BY <1>4 DEF Match
    <2>2. UNCHANGED <<invoice, age, chain, ledger, refs, req>> /\ cycle[c].work = None
      BY <1>4 DEF Match, Listing
    <2>3. /\ entry[1] \in Transfers /\ entry[2] \in BOOLEAN
          /\ \A e \in cycle[c].batch : chain[e[1]] # None
      BY <1>t DEF CycleRow, Base, Sighted
    <2>4. CASE cycle' = [cycle EXCEPT ![c].batch = cycle[c].batch \ {entry}]
      <3> DEFINE next == [cycle[c] EXCEPT !.batch = cycle[c].batch \ {entry}]
      <3>1. next \in CycleRow /\ next.batch \subseteq cycle[c].batch /\ next.work = None
        BY <1>t, <2>2 DEF CycleRow
      <3>2. cycle' = [cycle EXCEPT ![c] = next]
        BY <1>t, <2>4 DEF TypeOK
      <3> HIDE DEF next
      <3>3. QED
        BY <2>2, <2>3, <3>1, <3>2, CycleWritten
    <2>5. ASSUME NEW i \in Targets(entry[1]),
                 cycle' = [cycle EXCEPT
                      ![c].batch = cycle[c].batch \ {entry},
                      ![c].work = [hash |-> entry[1], confirmed |-> entry[2], id |-> i,
                                   row |-> invoice[i],
                                   posted |-> HasTx(ledger, invoice[i].user, Key(entry[1]))]]
          PROVE  Base'
      <3> DEFINE work == [hash |-> entry[1], confirmed |-> entry[2], id |-> i,
                          row |-> invoice[i],
                          posted |-> HasTx(ledger, invoice[i].user, Key(entry[1]))]
                 next == [cycle[c] EXCEPT !.batch = cycle[c].batch \ {entry}, !.work = work]
      <3>1. i \in Invoices /\ Exists(i)
        BY DEF Targets, Matches, ClaimedBy, ByMemo, ByAmount, Candidates, Open, InStatus
      <3>2. HasTx(ledger, invoice[i].user, Key(entry[1])) \in BOOLEAN
        BY DEF HasTx
      <3>3. work \in WorkRow /\ work.hash = entry[1] /\ work.id = i
        BY <3>1, <3>2, <2>3, RowOf DEF WorkRow
      <3>4. cycle' = [cycle EXCEPT ![c] = next]
        BY <1>t, <2>5 DEF TypeOK
      <3> HIDE DEF work
      <3>5. next \in CycleRow /\ next.batch \subseteq cycle[c].batch /\ next.work = work
        BY <1>t, <3>3 DEF CycleRow
      <3> HIDE DEF next
      <3>6. QED
        BY <2>2, <2>3, <3>1, <3>3, <3>4, <3>5, CycleWritten
    <2>6. QED
      BY <2>1, <2>4, <2>5
  <1>5. CASE Apply(c)
    BY <1>5, BaseApply
  <1>6. CASE ApplyFails(c)
    <2>1. Unwork(c) /\ UNCHANGED <<invoice, age, chain, ledger, refs, req>>
      BY <1>6 DEF ApplyFails
    <2>2. cycle' \in [Cycles -> CycleRow]
      BY <2>1, WorkDropped
    <2>3. TypeOK' /\ Finite'
      BY <1>t, <2>1, <2>2 DEF TypeOK, Finite
    <2>4. ASSUME NEW d \in Cycles PROVE Sighted(d)'
      <3>1. cycle'[d].batch = cycle[d].batch /\ cycle'[d].work \in {cycle[d].work, None}
        BY <2>1, WorkDropped
      <3>2. Sighted(d)
        BY DEF Base
      <3>3. QED
        BY <3>1, <3>2, <2>1 DEF Sighted, Exists
    <2>5. QED
      BY <2>3, <2>4 DEF Base
  <1>7. CASE Expire(c)
    <2>1. /\ cycle' = [cycle EXCEPT ![c] = At(0, {})]
          /\ UNCHANGED <<age, chain, ledger, refs, req>>
          /\ invoice' = [i \in Invoices |->
                           IF i \in Due THEN [invoice[i] EXCEPT !.status = "EXPIRED", !.active = FALSE]
                           ELSE invoice[i]]
      BY <1>7 DEF Expire
    <2>2. \A i \in Due : /\ [invoice[i] EXCEPT !.status = "EXPIRED", !.active = FALSE] \in InvoiceRow
                         /\ Exists(i)
      <3>1. \A i \in Due : i \in Invoices /\ Exists(i) /\ invoice[i] \in InvoiceRow
        BY RowOf DEF Due, Open, InStatus
      <3>2. QED
        BY <3>1 DEF InvoiceRow, InvoiceStatus
    <2>3. invoice' \in [Invoices -> InvoiceRow \cup {None}]
      BY <1>t, <2>1, <2>2 DEF TypeOK
    <2>4. \A i \in Invoices : Exists(i) => Exists(i)'
      BY <2>1, <2>2, NoneAssumption DEF Exists
    <2>5. At(0, {}) \in CycleRow /\ At(0, {}).batch = {} /\ At(0, {}).work = None
      BY <1>l DEF At, CycleRow
    <2>6. TypeOK' /\ Finite'
      BY <1>t, <2>1, <2>3, <2>5 DEF TypeOK, Finite
    <2>7. ASSUME NEW d \in Cycles PROVE Sighted(d)'
      <3>1. CASE d = c
        <4>1. cycle'[d] = At(0, {})
          BY <2>1, <1>t, <3>1 DEF TypeOK
        <4>2. QED
          BY <4>1, <2>5 DEF Sighted
      <3>2. CASE d # c
        <4>1. cycle'[d] = cycle[d] /\ Sighted(d)
          BY <2>1, <1>t, <3>2 DEF TypeOK, Base
        <4>2. cycle[d].work # None => cycle[d].work.id \in Invoices
          BY <1>t DEF TypeOK, CycleRow, WorkRow
        <4>3. QED
          BY <4>1, <4>2, <2>1, <2>4 DEF Sighted
      <3>3. QED
        BY <3>1, <3>2
    <2>8. QED
      BY <2>6, <2>7 DEF Base
  <1>8. CASE CycleDies(c)
    <2>1. 0 \in 0 .. Len(Networks)
      BY <1>l
    <2>2. {} \in SUBSET (Transfers \X BOOLEAN) /\ \A entry \in {} : chain[entry[1]] # None
      OBVIOUS
    <2>3. cycle' = [cycle EXCEPT ![c] = At(0, {})] /\ UNCHANGED <<invoice, age, chain, ledger, refs, req>>
      BY <1>8 DEF CycleDies
    <2>4. QED
      BY <1>1, <2>1, <2>2, <2>3
  <1>9. QED
    BY <1>2, <1>3, <1>4, <1>5, <1>6, <1>7, <1>8 DEF Work

LEMMA BaseStep == Base /\ [Next]_vars => Base'
  <1>1. CASE UNCHANGED vars
    BY <1>1 DEF vars, Base, TypeOK, Finite, Sighted, Exists
  <1>2. QED
    BY <1>1, BaseUsers, BaseAdmins, BaseWorld, BaseCycle DEF Next

LEMMA BaseInit == Init => Base
  <1> SUFFICES ASSUME Init PROVE Base
    OBVIOUS
  <1>1. Len(Networks) \in Nat
    BY CryptoAssumption
  <1>2. At(0, {}) \in CycleRow /\ At(0, {}).batch = {} /\ At(0, {}).work = None
    BY <1>1 DEF At, CycleRow
  <1>3. TypeOK
    BY <1>2 DEF Init, TypeOK
  <1>4. QED
    BY <1>2, <1>3 DEF Init, Base, Finite, Sighted

\* The rows of invoices, the ledger and what the worker and the requests hold are
\* well formed however cycles overlap (CryptoDepositService, crypto_worker.py).
THEOREM WellTyped == Spec => []TypeOK
  <1>1. Base => TypeOK
    BY DEF Base
  <1>2. QED
    BY BaseInit, BaseStep, <1>1, PTL DEF Spec

-----------------------------------------------------------------------------
(* Credits stand while cycles do not overlap *)

Pending == OPEN_STATUSES \cup {"CANCELLED", "REJECTED"}

\* The invoice a cycle works on is not credited, nor waits for a review: only the
\* cycle itself brings it there.
Undecided ==
    \A c \in Cycles : ~ Listing(c) => InStatus(cycle[c].work.id, Pending)

\* What a step does to the credited invoices.
Stands ==
    \A i \in Invoices : InStatus(i, {"CREDITED"}) =>
        /\ InStatus(i, {"CREDITED"})'
        /\ invoice'[i].hash = invoice[i].hash

LEMMA OthersSame ==
    ASSUME Base, NEW i \in Invoices, NEW row \in InvoiceRow, invoice' = [invoice EXCEPT ![i] = row]
    PROVE  /\ invoice'[i] = row
           /\ row # None
           /\ \A j \in Invoices \ {i} : invoice'[j] = invoice[j]
  BY NoneAssumption DEF Base, TypeOK

\* One row is written that is not credited yet.
LEMMA OneRowStands ==
    ASSUME Base, Undecided, NEW i \in Invoices, NEW row \in InvoiceRow,
           invoice' = [invoice EXCEPT ![i] = row],
           Exists(i) => invoice[i].status # "CREDITED"
    PROVE  /\ Stands
           /\ (InStatus(i, Pending) => row.status \in Pending) /\ UNCHANGED cycle => Undecided'
  <1>1. /\ invoice'[i] = row
        /\ row # None
        /\ \A j \in Invoices \ {i} : invoice'[j] = invoice[j]
    BY OthersSame
  <1>2. Stands
    BY <1>1 DEF Stands, InStatus, Exists
  <1>3. ASSUME InStatus(i, Pending) => row.status \in Pending, UNCHANGED cycle
        PROVE  Undecided'
    <2>1. SUFFICES ASSUME NEW c \in Cycles, ~ Listing(c)
                   PROVE  InStatus(cycle[c].work.id, Pending)'
      BY <1>3 DEF Undecided, Listing
    <2>2. InStatus(cycle[c].work.id, Pending)
      BY <2>1 DEF Undecided
    <2>3. cycle[c].work.id \in Invoices
      BY <2>1, WorkOf DEF WorkRow
    <2>4. QED
      BY <2>2, <2>3, <1>1, <1>3 DEF InStatus, Exists
  <1>4. QED
    BY <1>2, <1>3

\* A request of a user or an administrator decides on no invoice that a cycle works on.
LEMMA RequestsStand ==
    Base /\ Undecided /\ (UserRequests \/ AdminRequests) => Undecided' /\ Stands
  <1> SUFFICES ASSUME Base, Undecided, UserRequests \/ AdminRequests PROVE Undecided' /\ Stands
    OBVIOUS
  <1>t. invoice \in [Invoices -> InvoiceRow \cup {None}] /\ Base'
    BY BaseUsers, BaseAdmins DEF Base, TypeOK
  <1>1. ASSUME UNCHANGED <<invoice, cycle>> PROVE Undecided' /\ Stands
    BY <1>1 DEF Undecided, Stands, Listing, InStatus, Exists
  <1>2. ASSUME NEW i \in Invoices, NEW row, invoice' = [invoice EXCEPT ![i] = row], row # None,
               Exists(i) => invoice[i].status # "CREDITED",
               InStatus(i, Pending) => row.status \in Pending, UNCHANGED cycle
        PROVE  Undecided' /\ Stands
    <2>1. invoice'[i] = row /\ invoice'[i] \in InvoiceRow \cup {None}
      BY <1>2, <1>t DEF Base, TypeOK
    <2>2. row \in InvoiceRow
      BY <1>2, <2>1
    <2>3. QED
      BY <1>2, <2>2, OneRowStands
  <1>3. ASSUME NEW s \in Slots, NEW u \in Users, NEW net \in Nets, NEW a \in Amounts,
               BeginCreate(s, u, net, a)
        PROVE  Undecided' /\ Stands
    BY <1>1, <1>3 DEF BeginCreate
  <1>4. ASSUME NEW s \in Slots, NEW i \in Invoices, Create(s, i)
        PROVE  Undecided' /\ Stands
    <2> DEFINE row == [user |-> req[s].user, net |-> req[s].net,
                       amount |-> UniqueAmount(req[s].raw, req[s].taken),
                       toman |-> TomanOf[req[s].raw], status |-> "WAITING_PAYMENT",
                       active |-> TRUE, hash |-> None, paid |-> 0, detected |-> FALSE,
                       requested |-> FALSE, claims |-> 0]
    <2>1. invoice' = [invoice EXCEPT ![i] = row] /\ ~ Exists(i) /\ UNCHANGED cycle
      BY <1>4 DEF Create, Exists
    <2>2. row.status = "WAITING_PAYMENT"
      OBVIOUS
    <2>3. \A c \in Cycles : ~ Listing(c) => cycle[c].work.id \in Invoices \ {i}
      BY <2>1, WorkOf DEF WorkRow
    <2> HIDE DEF row
    <2>4. \A j \in Invoices \ {i} : invoice'[j] = invoice[j]
      BY <2>1, <1>t
    <2>5. Undecided'
      BY <2>1, <2>3, <2>4 DEF Undecided, Listing, InStatus, Exists
    <2>6. Stands
      BY <2>1, <2>4 DEF Stands, InStatus, Exists
    <2>7. QED
      BY <2>5, <2>6
  <1>5. ASSUME NEW s \in Slots, Drop(s)
        PROVE  Undecided' /\ Stands
    BY <1>1, <1>5 DEF Drop
  \* The other requests write one row that exists.
  <1>6. ASSUME NEW i \in Invoices, Exists(i),
               NEW row \in InvoiceRow, invoice' = [invoice EXCEPT ![i] = row],
               invoice[i].status # "CREDITED",
               invoice[i].status \in Pending => row.status \in Pending, UNCHANGED cycle
        PROVE  Undecided' /\ Stands
    BY <1>6, OneRowStands DEF InStatus
  <1>7. ASSUME NEW i \in Invoices, NEW t \in Transfers, Claim(i, t)
        PROVE  Undecided' /\ Stands
    <2> DEFINE n == invoice[i].claims + 1
               row == [invoice[i] EXCEPT !.hash = t, !.claims = n]
    <2>1. /\ Exists(i) /\ invoice[i] \in InvoiceRow /\ invoice[i].status = "WAITING_PAYMENT"
          /\ invoice[i].claims < MaxClaims /\ UNCHANGED cycle
      BY <1>7, RowOf DEF Claim, InStatus, others
    <2>2. invoice' = [invoice EXCEPT ![i] = row]
      BY <1>7, <1>t DEF Claim
    <2>3. row \in InvoiceRow
      <3>1. n \in 0 .. MaxClaims
        BY <2>1, CryptoAssumption DEF InvoiceRow
      <3> HIDE DEF n
      <3>2. QED
        BY <2>1, <3>1 DEF InvoiceRow
    <2>4. row.status = "WAITING_PAYMENT"
      BY <2>1 DEF InvoiceRow
    <2> HIDE DEF row
    <2>5. QED
      BY <1>6, <2>1, <2>2, <2>3, <2>4 DEF Pending, OPEN_STATUSES
  <1>8. ASSUME NEW i \in Invoices, NEW submitted \in BOOLEAN, WalletEvent(i, submitted)
        PROVE  Undecided' /\ Stands
    <2> DEFINE row == [invoice[i] EXCEPT !.requested = submitted]
    <2>1. /\ Exists(i) /\ invoice[i] \in InvoiceRow /\ invoice[i].status \in OPEN_STATUSES
          /\ UNCHANGED cycle
      BY <1>8, RowOf DEF WalletEvent, Open, InStatus, others
    <2>2. invoice' = [invoice EXCEPT ![i] = row]
      BY <1>8, <1>t DEF WalletEvent
    <2>3. row \in InvoiceRow /\ row.status = invoice[i].status
      BY <2>1 DEF InvoiceRow
    <2> HIDE DEF row
    <2>4. QED
      BY <1>6, <2>1, <2>2, <2>3 DEF Pending, OPEN_STATUSES
  <1>9. ASSUME NEW i \in Invoices, Cancel(i) \/ Reject(i) \/ Approve(i)
        PROVE  Undecided' /\ Stands
    <2>1. PICK status \in {"CANCELLED", "REJECTED", "CREDITED"} :
             /\ Closed(i, status)
             /\ status = "CREDITED" => invoice[i].status = "NEEDS_REVIEW"
      BY <1>9 DEF Cancel, Reject, Approve, InStatus
    <2>2. /\ Exists(i) /\ invoice[i] \in InvoiceRow /\ invoice[i].status # "CREDITED"
          /\ UNCHANGED cycle
      BY <1>9, RowOf DEF Cancel, Reject, Approve, InStatus, others
    <2> DEFINE row == [invoice[i] EXCEPT !.status = status, !.active = FALSE]
    <2>3. invoice' = [invoice EXCEPT ![i] = row]
      BY <2>1, <1>t DEF Closed
    <2>4. row \in InvoiceRow /\ row.status = status
      BY <2>1, <2>2 DEF InvoiceRow, InvoiceStatus
    <2> HIDE DEF row
    <2>5. QED
      BY <1>6, <2>1, <2>2, <2>3, <2>4 DEF Pending, OPEN_STATUSES
  <1>10. QED
    BY <1>3, <1>4, <1>5, <1>7, <1>8, <1>9 DEF UserRequests, AdminRequests

\* The worker decides on the invoice it works on, and expires open ones only.
LEMMA WorkStands ==
    ASSUME OneCycle, Base, Undecided, NEW c \in Cycles, Work(c) \/ Expire(c) \/ CycleDies(c)
    PROVE  Undecided' /\ Stands
  <1>t. cycle \in [Cycles -> CycleRow] /\ cycle[c] \in CycleRow
    BY DEF Base, TypeOK
  <1>1. ASSUME cycle'[c].work = None PROVE Undecided'
    BY <1>1 DEF Undecided, Listing, OneCycle
  <1>2. ASSUME UNCHANGED invoice PROVE Stands
    BY <1>2 DEF Stands, InStatus, Exists
  <1>3. CASE Scan(c) \/ ScanFails(c) \/ CycleDies(c)
    <2>1. PICK n, batch : cycle' = [cycle EXCEPT ![c] = At(n, batch)]
      BY <1>3 DEF Scan, ScanFails, CycleDies
    <2>2. cycle'[c].work = None
      BY <2>1, <1>t DEF At
    <2>3. QED
      BY <1>1, <1>2, <1>3, <2>2 DEF Scan, ScanFails, CycleDies
  <1>4. CASE Match(c)
    <2>1. PICK entry \in cycle[c].batch :
             \/ cycle' = [cycle EXCEPT ![c].batch = cycle[c].batch \ {entry}]
             \/ \E i \in Targets(entry[1]) :
                   cycle' = [cycle EXCEPT
                      ![c].batch = cycle[c].batch \ {entry},
                      ![c].work = [hash |-> entry[1], confirmed |-> entry[2], id |-> i,
                                   row |-> invoice[i],
                                   posted |-> HasTx(ledger, invoice[i].user, Key(entry[1]))]]
      BY <1>4 DEF Match
    <2>2. UNCHANGED invoice /\ cycle[c].work = None
      BY <1>4 DEF Match, Listing
    <2>3. CASE cycle' = [cycle EXCEPT ![c].batch = cycle[c].batch \ {entry}]
      <3>1. cycle'[c].work = None
        BY <2>2, <2>3, <1>t DEF CycleRow
      <3>2. QED
        BY <3>1, <2>2, <1>1, <1>2
    <2>4. ASSUME NEW i \in Targets(entry[1]),
                 cycle' = [cycle EXCEPT
                      ![c].batch = cycle[c].batch \ {entry},
                      ![c].work = [hash |-> entry[1], confirmed |-> entry[2], id |-> i,
                                   row |-> invoice[i],
                                   posted |-> HasTx(ledger, invoice[i].user, Key(entry[1]))]]
          PROVE  Undecided' /\ Stands
      <3>1. InStatus(i, Pending)
        BY DEF Targets, Matches, ClaimedBy, ByMemo, ByAmount, Candidates, Open, InStatus, Pending
      <3>2. cycle'[c].work.id = i
        BY <2>4, <1>t DEF CycleRow
      <3>3. ASSUME NEW d \in Cycles PROVE InStatus(cycle[d].work.id, Pending)'
        <4>1. d = c
          BY DEF OneCycle
        <4>2. QED
          BY <4>1, <3>1, <3>2, <2>2 DEF InStatus, Exists
      <3>4. QED
        BY <3>3, <2>2, <1>2 DEF Undecided
    <2>5. QED
      BY <2>1, <2>3, <2>4
  <1>5. CASE Apply(c)
    <2>1. PICK i, row : /\ i = cycle[c].work.id /\ i \in Invoices /\ row \in InvoiceRow
                        /\ invoice' = [invoice EXCEPT ![i] = row]
      BY <1>5, ApplyWrites DEF WorkRow
    <2>2. cycle'[c].work = None
      BY <1>5, WorkDropped DEF Apply
    <2>3. Exists(i) => invoice[i].status # "CREDITED"
      BY <1>5, <2>1 DEF Apply, Undecided, InStatus, Pending, OPEN_STATUSES
    <2>4. Stands
      BY <2>1, <2>3, OneRowStands
    <2>5. QED
      BY <2>2, <2>4, <1>1
  <1>6. CASE ApplyFails(c)
    <2>1. cycle'[c].work = None
      BY <1>6, WorkDropped DEF ApplyFails
    <2>2. QED
      BY <1>1, <1>2, <1>6, <2>1 DEF ApplyFails
  <1>7. CASE Expire(c)
    <2>1. cycle'[c].work = None
      BY <1>7, <1>t DEF Expire, At
    <2>2. \A i \in Invoices : InStatus(i, {"CREDITED"}) => i \notin Due
      BY DEF Due, Open, InStatus, OPEN_STATUSES
    <2>3. \A i \in Invoices : InStatus(i, {"CREDITED"}) => invoice'[i] = invoice[i]
      BY <1>7, <2>2 DEF Expire
    <2>4. Stands
      BY <2>3 DEF Stands, InStatus, Exists
    <2>5. QED
      BY <1>1, <2>1, <2>4
  <1>8. QED
    BY <1>3, <1>4, <1>5, <1>6, <1>7 DEF Work

\* A credited invoice stays credited and keeps its transfer: neither a rejection, nor a
\* claim, nor a cycle that has loaded the row before takes it back, when cycles do not
\* overlap (process_transfer, approve_review, reject_review, claim_tx_hash, expire_due).
THEOREM CreditsStand ==
    ASSUME OneCycle
    PROVE  Spec => CreditedForGood
  <1>1. Base /\ Undecided /\ [Next]_vars => (Base /\ Undecided)' /\ Stands
    <2> SUFFICES ASSUME Base, Undecided, [Next]_vars PROVE Undecided' /\ Stands
      BY BaseStep
    <2>1. CASE UserRequests \/ AdminRequests
      BY <2>1, RequestsStand
    <2>2. CASE World \/ UNCHANGED vars
      <3>1. UNCHANGED <<invoice, cycle>>
        BY <2>2 DEF World, Pay, Confirm, Tick, vars
      <3>2. QED
        BY <3>1 DEF Undecided, Stands, Listing, InStatus, Exists
    <2>3. ASSUME NEW c \in Cycles, Work(c) \/ Expire(c) \/ CycleDies(c)
          PROVE  Undecided' /\ Stands
      BY <2>3, WorkStands
    <2>4. QED
      BY <2>1, <2>2, <2>3 DEF Next
  <1>2. Init => Base /\ Undecided
    <2>1. Init => Undecided
      BY DEF Init, Undecided, Listing, At
    <2>2. QED
      BY <2>1, BaseInit
  <1>3. Stands => [\A i \in Invoices : InStatus(i, {"CREDITED"}) =>
                     /\ InStatus(i, {"CREDITED"})'
                     /\ invoice'[i].hash = invoice[i].hash]_vars
    BY DEF Stands
  <1>4. QED
    BY <1>1, <1>2, <1>3, PTL DEF Spec, CreditedForGood

-----------------------------------------------------------------------------
(* What holds while, besides, no claim disturbs a cycle (QuietSpec) *)

\* The row a cycle settles with t, compared with the invoice as it is now: it may have
\* been rejected, cancelled or claimed meanwhile, and nothing else.  If t was claimed
\* for it, t still is.
StillTrue(row, now, t) ==
    /\ row.status \in OPEN_STATUSES
    /\ now.status \in {row.status, "CANCELLED", "REJECTED"}
    /\ row.hash = t => now.hash = t
    /\ now.user = row.user
    /\ now.amount = row.amount
    /\ now.toman = row.toman
    /\ now.paid = row.paid

\* A confirmation that was listed is not taken back, and the loaded row is true.
Faithful(c) ==
    /\ \A entry \in cycle[c].batch : entry[2] => chain[entry[1]].confirmed
    /\ cycle[c].work # None =>
          /\ cycle[c].work.confirmed => chain[cycle[c].work.hash].confirmed
          /\ cycle[c].work.id \in chain[cycle[c].work.hash].window
          /\ StillTrue(cycle[c].work.row, invoice[cycle[c].work.id], cycle[c].work.hash)

\* A confirmed transfer stands behind what is credited or reviewed.
PaidFor(i) ==
    /\ invoice[i].hash # None
    /\ chain[invoice[i].hash] # None
    /\ chain[invoice[i].hash].confirmed
    /\ i \in chain[invoice[i].hash].window
    /\ invoice[i].paid = chain[invoice[i].hash].amount
Decided ==
    \A i \in Invoices :
        /\ InStatus(i, {"CREDITED", "NEEDS_REVIEW"}) => PaidFor(i)
        /\ InStatus(i, {"CREDITED"}) => invoice[i].paid >= invoice[i].amount

\* A hash belongs to one invoice.
OneInvoice ==
    \A i, j \in Invoices :
        Exists(i) /\ Exists(j) /\ invoice[i].hash # None /\ invoice[i].hash = invoice[j].hash => i = j

\* The ledger has the credit of each credited invoice, and no other credit.
Linked ==
    \A i \in Invoices : InStatus(i, {"CREDITED"}) =>
        /\ Settle(i, invoice[i].hash) \in ledger
        /\ refs[<<invoice[i].user, invoice[i].hash>>] = i
Explained ==
    \A x \in ledger : \E i \in Invoices :
        InStatus(i, {"CREDITED"}) /\ x = Settle(i, invoice[i].hash)
Referenced ==
    \A u \in Users, t \in Transfers : refs[<<u, t>>] # None => HasTx(ledger, u, Key(t))

CryptoInv ==
    /\ \A c \in Cycles : Faithful(c)
    /\ Decided
    /\ OneInvoice
    /\ Linked
    /\ Explained
    /\ Referenced

-----------------------------------------------------------------------------
(* One row is written *)

\* A row that is not credited before or after leaves the books alone.
LEMMA BooksKept ==
    ASSUME Base, CryptoInv, UNCHANGED <<ledger, refs>>,
           NEW i \in Invoices, NEW row \in InvoiceRow, invoice' = [invoice EXCEPT ![i] = row],
           Exists(i) => invoice[i].status # "CREDITED",
           row.status # "CREDITED",
           row.hash # None => HashFree(row.hash, i)
    PROVE  OneInvoice' /\ Linked' /\ Explained' /\ Referenced'
  <1>1. /\ invoice'[i] = row
        /\ row # None
        /\ \A j \in Invoices \ {i} : invoice'[j] = invoice[j]
    BY OthersSame
  <1>2. OneInvoice'
    BY <1>1 DEF CryptoInv, OneInvoice, Exists, HashFree
  <1>3. \A j \in Invoices : InStatus(j, {"CREDITED"})' <=> InStatus(j, {"CREDITED"})
    BY <1>1 DEF InStatus, Exists
  <1>4. \A j \in Invoices : InStatus(j, {"CREDITED"}) => invoice'[j] = invoice[j]
    BY <1>1 DEF InStatus, Exists
  <1>5. Linked'
    BY <1>3, <1>4 DEF CryptoInv, Linked, Settle
  <1>6. Explained'
    BY <1>3, <1>4 DEF CryptoInv, Explained, Settle
  <1>7. Referenced'
    BY DEF CryptoInv, Referenced
  <1>8. QED
    BY <1>2, <1>5, <1>6, <1>7

\* A request that does not decide for the user: a claim, a cancellation, a wallet
\* event, a rejection.
LEMMA RowChanged ==
    ASSUME Base, CryptoInv, UNCHANGED <<chain, ledger, refs, cycle>>,
           NEW i \in Invoices, Exists(i),
           NEW row \in InvoiceRow, invoice' = [invoice EXCEPT ![i] = row],
           invoice[i].status # "CREDITED",
           row.status \notin {"CREDITED", "NEEDS_REVIEW"},
           row.status \in {invoice[i].status, "CANCELLED", "REJECTED"},
           row.user = invoice[i].user, row.amount = invoice[i].amount,
           row.toman = invoice[i].toman, row.paid = invoice[i].paid,
           row.hash = invoice[i].hash \/ \A c \in Cycles : ~ Settling(c, i),
           row.hash # None => HashFree(row.hash, i)
    PROVE  CryptoInv'
  <1>1. /\ invoice'[i] = row
        /\ row # None
        /\ \A j \in Invoices \ {i} : invoice'[j] = invoice[j]
    BY OthersSame
  <1>2. ASSUME NEW c \in Cycles PROVE Faithful(c)'
    <2>1. Faithful(c)
      BY DEF CryptoInv
    <2>2. ASSUME cycle[c].work # None
          PROVE  StillTrue(cycle[c].work.row, invoice'[cycle[c].work.id], cycle[c].work.hash)
      <3>1. StillTrue(cycle[c].work.row, invoice[cycle[c].work.id], cycle[c].work.hash)
        BY <2>1, <2>2 DEF Faithful
      <3>2. cycle[c].work.id \in Invoices
        BY <2>2 DEF Base, TypeOK, CycleRow, WorkRow
      <3>3. CASE cycle[c].work.id = i
        <4>1. cycle[c].work.row.hash = cycle[c].work.hash => row.hash = invoice[i].hash
          BY <2>2, <3>3 DEF Settling, Listing
        <4>2. QED
          BY <4>1, <3>1, <3>3, <1>1 DEF StillTrue
      <3>4. CASE cycle[c].work.id # i
        BY <3>1, <3>2, <3>4, <1>1
      <3>5. QED
        BY <3>3, <3>4
    <2>3. QED
      BY <2>1, <2>2 DEF Faithful
  <1>3. Decided'
    <2>1. \A j \in Invoices :
             InStatus(j, {"CREDITED", "NEEDS_REVIEW"})' =>
                InStatus(j, {"CREDITED", "NEEDS_REVIEW"}) /\ invoice'[j] = invoice[j]
      BY <1>1 DEF InStatus, Exists
    <2>2. \A j \in Invoices : InStatus(j, {"CREDITED"})' => InStatus(j, {"CREDITED"}) /\ invoice'[j] = invoice[j]
      BY <1>1 DEF InStatus, Exists
    <2>3. QED
      BY <2>1, <2>2 DEF CryptoInv, Decided, PaidFor
  <1>4. OneInvoice' /\ Linked' /\ Explained' /\ Referenced'
    BY BooksKept
  <1>5. QED
    BY <1>2, <1>3, <1>4 DEF CryptoInv

\* The credit of an invoice: its hash belongs to no other, so the ledger has no
\* transaction with its key yet.
LEMMA RowCredited ==
    ASSUME Base, CryptoInv, NEW i \in Invoices, Exists(i), NEW t \in Transfers,
           NEW row \in InvoiceRow, invoice' = [invoice EXCEPT ![i] = row],
           invoice[i].status # "CREDITED",
           row.status = "CREDITED", row.hash = t,
           row.user = invoice[i].user, row.toman = invoice[i].toman,
           HashFree(t, i), Credited(i, t)
    PROVE  OneInvoice' /\ Linked' /\ Explained' /\ Referenced'
  <1>1. /\ invoice'[i] = row
        /\ row # None
        /\ \A j \in Invoices \ {i} : invoice'[j] = invoice[j]
    BY OthersSame
  <1>2. ~ HasTx(ledger, invoice[i].user, Key(t))
    <2>1. SUFFICES ASSUME NEW x \in ledger, x.key = Key(t) PROVE FALSE
      BY DEF HasTx
    <2>2. PICK j \in Invoices : InStatus(j, {"CREDITED"}) /\ x = Settle(j, invoice[j].hash)
      BY DEF CryptoInv, Explained
    <2>3. invoice[j].hash = t
      BY <2>1, <2>2 DEF Settle, Tx, Key
    <2>4. QED
      BY <2>2, <2>3 DEF HashFree, InStatus
  <1>3. ledger' = ledger \cup {Settle(i, t)}
    <2>1. Settle(i, t).user = invoice[i].user /\ Settle(i, t).key = Key(t)
      BY DEF Settle, Tx
    <2>2. NewTxs(ledger, {Settle(i, t)}) = {Settle(i, t)}
      BY <1>2, <2>1 DEF NewTxs
    <2>3. QED
      BY <2>2 DEF Credited, Posted
  <1>4. invoice[i] \in InvoiceRow
    BY RowOf
  <1>5. invoice[i].user \in Users
    BY <1>4 DEF InvoiceRow
  <1>6. refs[<<invoice[i].user, t>>] = None
    BY <1>2, <1>5 DEF CryptoInv, Referenced
  <1>7. refs \in [Users \X Transfers -> Invoices \cup {None}]
    BY DEF Base, TypeOK
  <1>8. /\ refs'[<<invoice[i].user, t>>] = i
        /\ \A u \in Users, z \in Transfers :
              <<u, z>> # <<invoice[i].user, t>> => refs'[<<u, z>>] = refs[<<u, z>>]
    BY <1>5, <1>6, <1>7 DEF Credited
  <1>9. \A j \in Invoices \ {i} : InStatus(j, {"CREDITED"})' <=> InStatus(j, {"CREDITED"})
    BY <1>1 DEF InStatus, Exists
  <1>10. InStatus(i, {"CREDITED"})' /\ ~ InStatus(i, {"CREDITED"})
    BY <1>1 DEF InStatus, Exists
  <1>11. OneInvoice'
    BY <1>1 DEF CryptoInv, OneInvoice, Exists, HashFree
  <1>12. Settle(i, invoice[i].hash)' = Settle(i, t)
    BY <1>1 DEF Settle
  <1>13. \A j \in Invoices \ {i} : Settle(j, invoice[j].hash)' = Settle(j, invoice[j].hash)
    BY <1>1 DEF Settle
  <1>14. Linked'
    <2>1. ASSUME NEW j \in Invoices \ {i}, InStatus(j, {"CREDITED"})'
          PROVE  /\ Settle(j, invoice[j].hash)' \in ledger'
                 /\ refs'[<<invoice'[j].user, invoice'[j].hash>>] = j
      <3>1. InStatus(j, {"CREDITED"}) /\ invoice'[j] = invoice[j]
        BY <2>1, <1>1, <1>9
      <3>2. Settle(j, invoice[j].hash) \in ledger /\ refs[<<invoice[j].user, invoice[j].hash>>] = j
        BY <3>1 DEF CryptoInv, Linked
      <3>3. invoice[j].hash # t /\ invoice[j].hash # None
        BY <3>1 DEF CryptoInv, Decided, PaidFor, HashFree, InStatus
      <3>4. invoice[j].user \in Users /\ invoice[j].hash \in Transfers
        BY <3>1, <3>3, RowOf DEF InStatus, InvoiceRow
      <3>5. refs'[<<invoice[j].user, invoice[j].hash>>] = refs[<<invoice[j].user, invoice[j].hash>>]
        BY <1>8, <3>3, <3>4
      <3>6. QED
        BY <3>1, <3>2, <3>5, <1>3, <1>13
    <2>2. refs'[<<invoice'[i].user, invoice'[i].hash>>] = i
      BY <1>1, <1>8
    <2>3. Settle(i, invoice[i].hash)' \in ledger'
      BY <1>3, <1>12
    <2>4. QED
      BY <2>1, <2>2, <2>3 DEF Linked
  <1>15. Explained'
    <2>1. ASSUME NEW x \in ledger'
          PROVE  \E j \in Invoices : InStatus(j, {"CREDITED"})' /\ x = Settle(j, invoice[j].hash)'
      <3>1. CASE x \in ledger
        <4>1. PICK j \in Invoices : InStatus(j, {"CREDITED"}) /\ x = Settle(j, invoice[j].hash)
          BY <3>1 DEF CryptoInv, Explained
        <4>2. j # i
          BY <4>1, <1>10
        <4>3. QED
          BY <4>1, <4>2, <1>9, <1>13
      <3>2. CASE x = Settle(i, t)
        BY <3>2, <1>10, <1>12
      <3>3. QED
        BY <3>1, <3>2, <1>3
    <2>2. QED
      BY <2>1 DEF Explained
  <1>16. Referenced'
    <2>1. HasTx(ledger', invoice[i].user, Key(t))
      <3>1. Settle(i, t).user = invoice[i].user /\ Settle(i, t).key = Key(t)
        BY DEF Settle, Tx
      <3>2. Settle(i, t) \in ledger'
        BY <1>3
      <3>3. QED
        BY <3>1, <3>2 DEF HasTx
    <2>2. ASSUME NEW u \in Users, NEW z \in Transfers, refs'[<<u, z>>] # None
          PROVE  HasTx(ledger', u, Key(z))
      <3>1. CASE <<u, z>> = <<invoice[i].user, t>>
        BY <3>1, <2>1
      <3>2. CASE <<u, z>> # <<invoice[i].user, t>>
        <4>1. refs[<<u, z>>] # None
          BY <3>2, <2>2, <1>8
        <4>2. HasTx(ledger, u, Key(z))
          BY <4>1 DEF CryptoInv, Referenced
        <4>3. QED
          BY <4>2, <1>3 DEF HasTx
      <3>3. QED
        BY <3>1, <3>2
    <2>3. QED
      BY <2>2 DEF Referenced
  <1>17. QED
    BY <1>11, <1>14, <1>15, <1>16

-----------------------------------------------------------------------------
(* The steps *)

LEMMA InvUsers == Base /\ CryptoInv /\ UserRequests /\ Undisturbed => CryptoInv'
  <1>1. ASSUME Base, CryptoInv, UNCHANGED <<invoice, chain, ledger, refs, cycle>>
        PROVE  CryptoInv'
    BY <1>1 DEF CryptoInv, Faithful, Decided, PaidFor, OneInvoice, Linked, Settle,
                Explained, Referenced, InStatus, Exists
  <1> SUFFICES ASSUME Base, CryptoInv, UserRequests, Undisturbed PROVE CryptoInv'
    OBVIOUS
  <1>t. TypeOK
    BY DEF Base
  <1>h. \A i \in Invoices : Exists(i) /\ invoice[i].hash # None => HashFree(invoice[i].hash, i)
    BY DEF CryptoInv, OneInvoice, HashFree
  <1>2. ASSUME NEW s \in Slots, NEW u \in Users, NEW net \in Nets, NEW a \in Amounts,
               BeginCreate(s, u, net, a)
        PROVE  CryptoInv'
    BY <1>1, <1>2 DEF BeginCreate
  <1>3. ASSUME NEW s \in Slots, NEW i \in Invoices, Create(s, i)
        PROVE  CryptoInv'
    <2> DEFINE row == [user |-> req[s].user, net |-> req[s].net,
                       amount |-> UniqueAmount(req[s].raw, req[s].taken),
                       toman |-> TomanOf[req[s].raw], status |-> "WAITING_PAYMENT",
                       active |-> TRUE, hash |-> None, paid |-> 0, detected |-> FALSE,
                       requested |-> FALSE, claims |-> 0]
    <2>1. /\ invoice' = [invoice EXCEPT ![i] = row]
          /\ ~ Exists(i)
          /\ UNCHANGED <<age, chain, ledger, refs, cycle>>
      BY <1>3 DEF Create, Exists
    <2>2. row.status = "WAITING_PAYMENT" /\ row.hash = None
      OBVIOUS
    <2> HIDE DEF row
    <2>3. invoice' \in [Invoices -> InvoiceRow \cup {None}] /\ invoice'[i] = row
      <3>1. Base'
        BY BaseUsers
      <3>2. QED
        BY <3>1, <2>1, <1>t DEF Base, TypeOK
    <2>4. \A j \in Invoices \ {i} : invoice'[j] = invoice[j]
      BY <2>1, <1>t DEF TypeOK
    <2>5. /\ \A j \in Invoices : InStatus(j, {"CREDITED"})' <=> InStatus(j, {"CREDITED"})
          /\ \A j \in Invoices : InStatus(j, {"CREDITED", "NEEDS_REVIEW"})' <=> InStatus(j, {"CREDITED", "NEEDS_REVIEW"})
          /\ \A j \in Invoices : InStatus(j, {"CREDITED", "NEEDS_REVIEW"}) => invoice'[j] = invoice[j]
          /\ \A j \in Invoices : InStatus(j, {"CREDITED"}) => invoice'[j] = invoice[j]
      BY <2>1, <2>2, <2>3, <2>4 DEF InStatus, Exists
    <2>6. ASSUME NEW c \in Cycles PROVE Faithful(c)'
      <3>1. Faithful(c) /\ Sighted(c)
        BY DEF CryptoInv, Base
      <3>2. cycle[c].work # None => cycle[c].work.id \in Invoices \ {i}
        BY <3>1, <2>1, <1>t DEF Sighted, TypeOK, CycleRow, WorkRow
      <3>3. QED
        BY <3>1, <3>2, <2>1, <2>4 DEF Faithful
    <2>7. Decided'
      BY <2>1, <2>5 DEF CryptoInv, Decided, PaidFor
    <2>8. OneInvoice'
      BY <2>2, <2>3, <2>4 DEF CryptoInv, OneInvoice, Exists
    <2>9. Linked'
      BY <2>1, <2>5 DEF CryptoInv, Linked, Settle
    <2>10. Explained'
      BY <2>1, <2>5 DEF CryptoInv, Explained, Settle
    <2>11. Referenced'
      BY <2>1 DEF CryptoInv, Referenced
    <2>12. QED
      BY <2>6, <2>7, <2>8, <2>9, <2>10, <2>11 DEF CryptoInv
  <1>4. ASSUME NEW s \in Slots, Drop(s)
        PROVE  CryptoInv'
    BY <1>1, <1>4 DEF Drop
  <1>5. ASSUME NEW i \in Invoices, NEW t \in Transfers, Claim(i, t)
        PROVE  CryptoInv'
    <2> DEFINE n == invoice[i].claims + 1
               row == [invoice[i] EXCEPT !.hash = t, !.claims = n]
    <2>1. /\ Exists(i) /\ invoice[i] \in InvoiceRow /\ invoice[i].status = "WAITING_PAYMENT"
          /\ HashFree(t, i) /\ invoice[i].claims < MaxClaims
          /\ UNCHANGED <<chain, ledger, refs, cycle>>
      BY <1>5, RowOf DEF Claim, InStatus, others
    <2>2. n \in 0 .. MaxClaims
      BY <2>1, CryptoAssumption DEF InvoiceRow
    <2>3. t = invoice[i].hash \/ \A c \in Cycles : ~ Settling(c, i)
      BY <1>5 DEF Undisturbed
    <2>4. invoice' = [invoice EXCEPT ![i] = row]
      BY <1>5, <1>t DEF Claim, TypeOK
    <2> HIDE DEF n
    <2>5. row \in InvoiceRow
      BY <2>1, <2>2 DEF InvoiceRow
    <2>6. /\ row.status = invoice[i].status /\ row.user = invoice[i].user
          /\ row.amount = invoice[i].amount /\ row.toman = invoice[i].toman
          /\ row.paid = invoice[i].paid /\ row.hash = t
      BY <2>1 DEF InvoiceRow
    <2> HIDE DEF row
    <2>7. QED
      BY <2>1, <2>3, <2>4, <2>5, <2>6, RowChanged
  <1>6. ASSUME NEW i \in Invoices, Cancel(i)
        PROVE  CryptoInv'
    <2> DEFINE row == [invoice[i] EXCEPT !.status = "CANCELLED", !.active = FALSE]
    <2>1. /\ Exists(i) /\ invoice[i] \in InvoiceRow /\ invoice[i].status = "WAITING_PAYMENT"
          /\ UNCHANGED <<chain, ledger, refs, cycle>>
      BY <1>6, RowOf DEF Cancel, InStatus, others
    <2>2. invoice' = [invoice EXCEPT ![i] = row]
      BY <1>6, <1>t DEF Cancel, Closed, TypeOK
    <2>3. row \in InvoiceRow
      BY <2>1 DEF InvoiceRow, InvoiceStatus
    <2>4. /\ row.status = "CANCELLED" /\ row.user = invoice[i].user
          /\ row.amount = invoice[i].amount /\ row.toman = invoice[i].toman
          /\ row.paid = invoice[i].paid /\ row.hash = invoice[i].hash
      BY <2>1 DEF InvoiceRow
    <2> HIDE DEF row
    <2>5. QED
      BY <2>1, <2>2, <2>3, <2>4, <1>h, RowChanged
  <1>7. ASSUME NEW i \in Invoices, NEW submitted \in BOOLEAN, WalletEvent(i, submitted)
        PROVE  CryptoInv'
    <2> DEFINE row == [invoice[i] EXCEPT !.requested = submitted]
    <2>1. /\ Exists(i) /\ invoice[i] \in InvoiceRow /\ invoice[i].status \in OPEN_STATUSES
          /\ UNCHANGED <<chain, ledger, refs, cycle>>
      BY <1>7, RowOf DEF WalletEvent, Open, InStatus, others
    <2>2. invoice' = [invoice EXCEPT ![i] = row]
      BY <1>7, <1>t DEF WalletEvent, TypeOK
    <2>3. row \in InvoiceRow
      BY <2>1 DEF InvoiceRow
    <2>4. /\ row.status = invoice[i].status /\ row.user = invoice[i].user
          /\ row.amount = invoice[i].amount /\ row.toman = invoice[i].toman
          /\ row.paid = invoice[i].paid /\ row.hash = invoice[i].hash
      BY <2>1 DEF InvoiceRow
    <2>5. row.status \notin {"CREDITED", "NEEDS_REVIEW"} /\ invoice[i].status # "CREDITED"
      BY <2>1, <2>4 DEF OPEN_STATUSES
    <2> HIDE DEF row
    <2>6. QED
      BY <2>1, <2>2, <2>3, <2>4, <2>5, <1>h, RowChanged
  <1>8. QED
    BY <1>2, <1>3, <1>4, <1>5, <1>6, <1>7 DEF UserRequests

\* A step that credits or decides keeps what no cycle and no claim is about.
LEMMA InvAdmins == Base /\ CryptoInv /\ AdminRequests => CryptoInv'
  <1> SUFFICES ASSUME Base, CryptoInv, AdminRequests PROVE CryptoInv'
    OBVIOUS
  <1>t. TypeOK
    BY DEF Base
  <1>h. \A i \in Invoices : Exists(i) /\ invoice[i].hash # None => HashFree(invoice[i].hash, i)
    BY DEF CryptoInv, OneInvoice, HashFree
  <1>1. ASSUME NEW i \in Invoices, Reject(i)
        PROVE  CryptoInv'
    <2> DEFINE row == [invoice[i] EXCEPT !.status = "REJECTED", !.active = FALSE]
    <2>1. /\ Exists(i) /\ invoice[i] \in InvoiceRow /\ invoice[i].status # "CREDITED"
          /\ UNCHANGED <<chain, ledger, refs, cycle>>
      BY <1>1, RowOf DEF Reject, InStatus, others
    <2>2. invoice' = [invoice EXCEPT ![i] = row]
      BY <1>1, <1>t DEF Reject, Closed, TypeOK
    <2>3. row \in InvoiceRow
      BY <2>1 DEF InvoiceRow, InvoiceStatus
    <2>4. /\ row.status = "REJECTED" /\ row.user = invoice[i].user
          /\ row.amount = invoice[i].amount /\ row.toman = invoice[i].toman
          /\ row.paid = invoice[i].paid /\ row.hash = invoice[i].hash
      BY <2>1 DEF InvoiceRow
    <2> HIDE DEF row
    <2>5. QED
      BY <2>1, <2>2, <2>3, <2>4, <1>h, RowChanged
  <1>2. ASSUME NEW i \in Invoices, Approve(i)
        PROVE  CryptoInv'
    <2> DEFINE row == [invoice[i] EXCEPT !.status = "CREDITED", !.active = FALSE]
               t == invoice[i].hash
    <2>1. /\ Exists(i) /\ invoice[i] \in InvoiceRow /\ invoice[i].status = "NEEDS_REVIEW"
          /\ t # None /\ invoice[i].paid >= invoice[i].amount /\ Credited(i, t)
          /\ UNCHANGED <<chain, cycle>>
      BY <1>2, RowOf DEF Approve, InStatus
    <2>2. invoice' = [invoice EXCEPT ![i] = row]
      BY <1>2, <1>t DEF Approve, Closed, TypeOK
    <2>3. row \in InvoiceRow /\ t \in Transfers
      BY <2>1 DEF InvoiceRow, InvoiceStatus
    <2>4. /\ row.status = "CREDITED" /\ row.user = invoice[i].user
          /\ row.amount = invoice[i].amount /\ row.toman = invoice[i].toman
          /\ row.paid = invoice[i].paid /\ row.hash = t
      BY <2>1 DEF InvoiceRow
    <2>5. HashFree(t, i) /\ PaidFor(i)
      BY <2>1, <1>h DEF CryptoInv, Decided, InStatus
    <2> HIDE DEF row
    <2>6. OneInvoice' /\ Linked' /\ Explained' /\ Referenced'
      <3> HIDE DEF t
      <3>1. QED
        BY <2>1, <2>2, <2>3, <2>4, <2>5, RowCredited
    <2>7. invoice'[i] = row /\ row # None /\ \A j \in Invoices \ {i} : invoice'[j] = invoice[j]
      BY <2>2, <2>3, OthersSame
    <2>8. ASSUME NEW c \in Cycles PROVE Faithful(c)'
      <3>1. Faithful(c)
        BY DEF CryptoInv
      <3>2. cycle[c].work # None => cycle[c].work.id \in Invoices \ {i}
        <4>1. cycle[c].work # None => cycle[c].work.id \in Invoices
          BY <1>t DEF TypeOK, CycleRow, WorkRow
        <4>2. cycle[c].work # None => invoice[cycle[c].work.id].status # "NEEDS_REVIEW"
          BY <3>1 DEF Faithful, StillTrue, OPEN_STATUSES
        <4>3. QED
          BY <4>1, <4>2, <2>1
      <3>3. QED
        BY <3>1, <3>2, <2>1, <2>7 DEF Faithful
    <2>9. Decided'
      <3>1. PaidFor(i)' /\ invoice'[i].paid >= invoice'[i].amount
        BY <2>1, <2>4, <2>5, <2>7 DEF PaidFor
      <3>2. \A j \in Invoices \ {i} :
              /\ InStatus(j, {"CREDITED"})' <=> InStatus(j, {"CREDITED"})
              /\ InStatus(j, {"CREDITED", "NEEDS_REVIEW"})' <=> InStatus(j, {"CREDITED", "NEEDS_REVIEW"})
        BY <2>7 DEF InStatus, Exists
      <3>3. \A j \in Invoices \ {i} : PaidFor(j) => PaidFor(j)'
        BY <2>1, <2>7 DEF PaidFor
      <3>4. QED
        BY <3>1, <3>2, <3>3, <2>7 DEF CryptoInv, Decided
    <2>10. QED
      BY <2>6, <2>8, <2>9 DEF CryptoInv
  <1>3. QED
    BY <1>1, <1>2 DEF AdminRequests

LEMMA InvWorld == Base /\ CryptoInv /\ World => CryptoInv'
  <1> SUFFICES ASSUME Base, CryptoInv, World PROVE CryptoInv'
    OBVIOUS
  <1>t. TypeOK
    BY DEF Base
  \* What is on the chain stays, and so do its window and its confirmation.
  <1>1. ASSUME UNCHANGED <<invoice, ledger, refs, cycle>>,
               \A t : chain[t] # None =>
                        /\ chain'[t] # None
                        /\ chain[t].confirmed => chain'[t].confirmed
                        /\ chain'[t].window = chain[t].window
                        /\ chain'[t].amount = chain[t].amount
        PROVE  CryptoInv'
    <2>1. ASSUME NEW c \in Cycles PROVE Faithful(c)'
      <3>1. Faithful(c) /\ Sighted(c)
        BY DEF CryptoInv, Base
      <3>2. QED
        BY <3>1, <1>1 DEF Faithful, Sighted
    <2>2. Decided'
      <3>1. \A i : PaidFor(i) => PaidFor(i)'
        BY <1>1 DEF PaidFor
      <3>2. QED
        BY <3>1, <1>1 DEF CryptoInv, Decided, InStatus, Exists
    <2>3. OneInvoice' /\ Linked' /\ Explained' /\ Referenced'
      BY <1>1 DEF CryptoInv, OneInvoice, Linked, Settle, Explained, Referenced,
                  InStatus, Exists
    <2>4. QED
      BY <2>1, <2>2, <2>3 DEF CryptoInv
  <1>2. ASSUME NEW t \in Transfers, NEW net \in Nets, NEW a \in Sent,
               NEW memo \in Invoices \cup {None}, Pay(t, net, a, memo)
        PROVE  CryptoInv'
    <2>1. \A x : chain[x] # None => chain'[x] = chain[x]
      BY <1>2, <1>t DEF Pay, TypeOK
    <2>2. QED
      BY <1>1, <1>2, <2>1 DEF Pay
  <1>3. ASSUME NEW t \in Transfers, Confirm(t)
        PROVE  CryptoInv'
    <2> DEFINE row == [chain[t] EXCEPT !.confirmed = TRUE]
    <2>1. chain[t] \in TransferRow
      BY <1>t, <1>3 DEF TypeOK, Confirm
    <2>2. row \in TransferRow /\ row.confirmed /\ row.window = chain[t].window /\ row.amount = chain[t].amount
      BY <2>1 DEF TransferRow
    <2>3. row # None
      BY <2>2, NoneAssumption
    <2>4. chain' = [chain EXCEPT ![t] = row]
      BY <1>t, <1>3 DEF Confirm, TypeOK
    <2> HIDE DEF row
    <2>5. \A x : chain[x] # None =>
                 /\ chain'[x] # None
                 /\ chain[x].confirmed => chain'[x].confirmed
                 /\ chain'[x].window = chain[x].window
                 /\ chain'[x].amount = chain[x].amount
      BY <1>t, <2>2, <2>3, <2>4 DEF TypeOK
    <2>6. QED
      BY <1>1, <1>3, <2>5 DEF Confirm
  <1>4. ASSUME NEW i \in Invoices, Tick(i)
        PROVE  CryptoInv'
    BY <1>1, <1>4 DEF Tick
  <1>5. QED
    BY <1>2, <1>3, <1>4 DEF World

-----------------------------------------------------------------------------
(* The steps of the one cycle *)

\* What Apply makes of a row that the loaded one is still true of.
LEMMA WrittenIs ==
    ASSUME NEW now \in InvoiceRow, NEW row \in InvoiceRow, NEW t \in Transfers,
           StillTrue(row, now, t), NEW a \in Nat, NEW confirmed \in BOOLEAN
    PROVE  LET status == Outcome(row, a, confirmed)
               new == Written(now, row, t, a, status)
           IN  /\ new.hash = t
               /\ new.paid = a
               /\ new.user = now.user /\ new.amount = now.amount /\ new.toman = now.toman
               /\ ~ confirmed => /\ status = "CONFIRMING"
                                 /\ new.status \in {"CONFIRMING", "CANCELLED", "REJECTED"}
               /\ confirmed => status \in {"CREDITED", "NEEDS_REVIEW"} /\ new.status = status
               /\ status = "CREDITED" => a = now.amount
  <1> DEFINE status == Outcome(row, a, confirmed)
             new == Written(now, row, t, a, status)
  <1>1. /\ ~ confirmed => status = "CONFIRMING"
        /\ confirmed => status \in {"CREDITED", "NEEDS_REVIEW"}
        /\ status = "CREDITED" => a = now.amount
    BY DEF Outcome, StillTrue
  <1>2. /\ new.hash = Flushed(now.hash, row.hash, t)
        /\ new.paid = Flushed(now.paid, row.paid, a)
        /\ new.status = Flushed(now.status, row.status, status)
        /\ new.user = now.user /\ new.amount = now.amount /\ new.toman = now.toman
    BY DEF Written, InvoiceRow
  <1> HIDE DEF status, new
  <1>3. new.hash = t /\ new.paid = a
    BY <1>2 DEF Flushed, StillTrue
  <1>4. new.status = status \/ (status = row.status /\ new.status = now.status)
    BY <1>2 DEF Flushed
  <1>5. ~ confirmed => new.status \in {"CONFIRMING", "CANCELLED", "REJECTED"}
    BY <1>1, <1>4 DEF StillTrue
  <1>6. confirmed => new.status = status
    BY <1>1, <1>4 DEF StillTrue, OPEN_STATUSES
  <1>7. QED
    BY <1>1, <1>2, <1>3, <1>5, <1>6 DEF status, new

LEMMA InvApply ==
    ASSUME OneCycle, Base, CryptoInv, NEW c \in Cycles, Apply(c)
    PROVE  CryptoInv'
  <1> DEFINE w == cycle[c].work
  <1>0. w \in WorkRow
    BY ApplyWrites
  <1>p. PICK i \in Invoices, t \in Transfers : i = w.id /\ t = w.hash
    BY <1>0 DEF WorkRow
  <1> DEFINE a == chain[t].amount
             status == Outcome(w.row, a, w.confirmed)
             row == Written(invoice[i], w.row, t, a, status)
  <1>1. /\ w \in WorkRow /\ Exists(i) /\ row \in InvoiceRow /\ HashFree(t, i)
        /\ invoice' = [invoice EXCEPT ![i] = row]
        /\ Unwork(c) /\ UNCHANGED <<age, chain, req>>
        /\ IF status = "CREDITED" THEN Credited(i, t) ELSE UNCHANGED <<ledger, refs>>
    BY <1>p, ApplyWrites
  <1>2. w.row \in InvoiceRow /\ w.confirmed \in BOOLEAN
    BY <1>0 DEF WorkRow
  <1>3. chain[t] \in TransferRow /\ chain[t] # None /\ invoice[i] \in InvoiceRow
    BY <1>p, WorkOf, NoneAssumption DEF Apply
  <1>4. a \in Nat
    BY <1>3, CryptoAssumption DEF TransferRow
  <1>5. /\ w.confirmed => chain[t].confirmed
        /\ i \in chain[t].window
        /\ StillTrue(w.row, invoice[i], t)
    BY <1>p DEF Apply, Listing, CryptoInv, Faithful
  <1>6. invoice[i].status \notin {"CREDITED", "NEEDS_REVIEW"}
    BY <1>5 DEF StillTrue, OPEN_STATUSES
  <1>7. /\ row.hash = t /\ row.paid = a
        /\ row.user = invoice[i].user /\ row.amount = invoice[i].amount /\ row.toman = invoice[i].toman
        /\ ~ w.confirmed => /\ status = "CONFIRMING"
                            /\ row.status \in {"CONFIRMING", "CANCELLED", "REJECTED"}
        /\ w.confirmed => status \in {"CREDITED", "NEEDS_REVIEW"} /\ row.status = status
        /\ status = "CREDITED" => a = invoice[i].amount
    <2> HIDE DEF w, a
    <2>1. QED
      BY <1>2, <1>3, <1>4, <1>5, WrittenIs
  <1>8. t # None
    BY <1>2, CryptoAssumption
  <1> HIDE DEF row, status, a, w
  <1>9. OneInvoice' /\ Linked' /\ Explained' /\ Referenced'
    <2>1. CASE status = "CREDITED"
      <3>1. row.status = "CREDITED"
        BY <2>1, <1>2, <1>7
      <3>2. QED
        BY <2>1, <3>1, <1>1, <1>2, <1>6, <1>7, RowCredited
    <2>2. CASE status # "CREDITED"
      <3>1. row.status # "CREDITED"
        BY <2>2, <1>2, <1>7
      <3>2. QED
        BY <2>2, <3>1, <1>1, <1>2, <1>6, <1>7, BooksKept
    <2>3. QED
      BY <2>1, <2>2
  <1>10. invoice'[i] = row /\ row # None /\ \A j \in Invoices \ {i} : invoice'[j] = invoice[j]
    BY <1>1, <1>2, OthersSame
  <1>11. Decided'
    <2>1. /\ InStatus(i, {"CREDITED", "NEEDS_REVIEW"})' => PaidFor(i)'
          /\ InStatus(i, {"CREDITED"})' => invoice'[i].paid >= invoice'[i].amount
      <3>1. ASSUME row.status \in {"CREDITED", "NEEDS_REVIEW"}
            PROVE  chain[t].confirmed /\ row.status = status
        BY <3>1, <1>2, <1>5, <1>7
      <3>2. chain' = chain /\ a = chain[t].amount /\ invoice[i].amount \in Nat
        BY <1>1, <1>3 DEF a, InvoiceRow
      <3>3. QED
        BY <3>1, <3>2, <1>3, <1>4, <1>5, <1>7, <1>8, <1>10 DEF InStatus, Exists, PaidFor
    <2>2. \A j \in Invoices \ {i} :
            /\ InStatus(j, {"CREDITED"})' <=> InStatus(j, {"CREDITED"})
            /\ InStatus(j, {"CREDITED", "NEEDS_REVIEW"})' <=> InStatus(j, {"CREDITED", "NEEDS_REVIEW"})
            /\ PaidFor(j) => PaidFor(j)'
      BY <1>1, <1>10 DEF InStatus, Exists, PaidFor
    <2>3. QED
      BY <2>1, <2>2, <1>10 DEF CryptoInv, Decided
  <1>12. ASSUME NEW d \in Cycles PROVE Faithful(d)'
    <2>1. d = c /\ Faithful(c)
      BY DEF OneCycle, CryptoInv
    <2>2. cycle'[c].batch = cycle[c].batch /\ cycle'[c].work = None
      BY <1>1, WorkDropped
    <2>3. QED
      BY <2>1, <2>2, <1>1 DEF Faithful
  <1>13. QED
    BY <1>9, <1>11, <1>12 DEF CryptoInv

\* A step that writes the cycle only.
LEMMA CycleOnly ==
    ASSUME Base, CryptoInv, UNCHANGED <<invoice, age, chain, ledger, refs, req>>,
           \A d \in Cycles : Faithful(d)'
    PROVE  CryptoInv'
  BY DEF CryptoInv, Decided, PaidFor, OneInvoice, Linked, Settle, Explained, Referenced,
         InStatus, Exists

\* A cycle between two transfers, with nothing at hand.
LEMMA Idling ==
    ASSUME OneCycle, Base, CryptoInv, UNCHANGED <<invoice, age, chain, ledger, refs, req>>,
           NEW c \in Cycles, NEW n, NEW batch, cycle' = [cycle EXCEPT ![c] = At(n, batch)],
           \A entry \in batch : entry[2] => chain[entry[1]].confirmed
    PROVE  CryptoInv'
  <1>1. cycle'[c].batch = batch /\ cycle'[c].work = None
    BY DEF Base, TypeOK, At
  <1>2. ASSUME NEW d \in Cycles PROVE Faithful(d)'
    <2>1. d = c
      BY DEF OneCycle
    <2>2. QED
      BY <2>1, <1>1 DEF Faithful
  <1>3. QED
    BY <1>2, CycleOnly

LEMMA InvMatch ==
    ASSUME OneCycle, Base, CryptoInv, NEW c \in Cycles, Match(c)
    PROVE  CryptoInv'
  <1>t. TypeOK /\ cycle[c] \in CycleRow /\ Faithful(c)
    BY DEF Base, TypeOK, CryptoInv
  <1>1. PICK entry \in cycle[c].batch :
           \/ cycle' = [cycle EXCEPT ![c].batch = cycle[c].batch \ {entry}]
           \/ \E i \in Targets(entry[1]) :
                 cycle' = [cycle EXCEPT
                    ![c].batch = cycle[c].batch \ {entry},
                    ![c].work = [hash |-> entry[1], confirmed |-> entry[2], id |-> i,
                                 row |-> invoice[i],
                                 posted |-> HasTx(ledger, invoice[i].user, Key(entry[1]))]]
    BY DEF Match
  <1>2. UNCHANGED <<invoice, age, chain, ledger, refs, req>> /\ cycle[c].work = None
    BY DEF Match, Listing
  <1>3. CASE cycle' = [cycle EXCEPT ![c].batch = cycle[c].batch \ {entry}]
    <2>1. cycle'[c].batch \subseteq cycle[c].batch /\ cycle'[c].work = None
      BY <1>t, <1>2, <1>3 DEF TypeOK, CycleRow
    <2>2. ASSUME NEW d \in Cycles PROVE Faithful(d)'
      <3>1. d = c
        BY DEF OneCycle
      <3>2. QED
        BY <3>1, <2>1, <1>t, <1>2 DEF Faithful
    <2>3. QED
      BY <2>2, <1>2, CycleOnly
  <1>4. ASSUME NEW i \in Targets(entry[1]),
               cycle' = [cycle EXCEPT
                    ![c].batch = cycle[c].batch \ {entry},
                    ![c].work = [hash |-> entry[1], confirmed |-> entry[2], id |-> i,
                                 row |-> invoice[i],
                                 posted |-> HasTx(ledger, invoice[i].user, Key(entry[1]))]]
        PROVE  CryptoInv'
    <2>1. /\ i \in Invoices /\ Open(i) /\ i \in chain[entry[1]].window
      BY DEF Targets, Matches, ClaimedBy, ByMemo, ByAmount, Candidates
    <2>2. invoice[i] \in InvoiceRow /\ invoice[i].status \in OPEN_STATUSES
      BY <2>1, RowOf DEF Open, InStatus
    <2>3. StillTrue(invoice[i], invoice[i], entry[1])
      BY <2>2 DEF StillTrue
    <2>4. /\ cycle'[c].batch \subseteq cycle[c].batch
          /\ cycle'[c].work.hash = entry[1] /\ cycle'[c].work.confirmed = entry[2]
          /\ cycle'[c].work.id = i /\ cycle'[c].work.row = invoice[i]
      BY <1>t, <1>4 DEF TypeOK, CycleRow
    <2>5. ASSUME NEW d \in Cycles PROVE Faithful(d)'
      <3>1. d = c
        BY DEF OneCycle
      <3>2. entry[2] => chain[entry[1]].confirmed
        BY <1>t DEF Faithful
      <3>3. QED
        BY <3>1, <3>2, <2>1, <2>3, <2>4, <1>t, <1>2 DEF Faithful
    <2>6. QED
      BY <2>5, <1>2, CycleOnly
  <1>5. QED
    BY <1>1, <1>3, <1>4

LEMMA InvExpire ==
    ASSUME OneCycle, Base, CryptoInv, NEW c \in Cycles, Expire(c)
    PROVE  CryptoInv'
  <1>1. /\ cycle' = [cycle EXCEPT ![c] = At(0, {})]
        /\ UNCHANGED <<age, chain, ledger, refs, req>>
        /\ invoice' = [i \in Invoices |->
                         IF i \in Due THEN [invoice[i] EXCEPT !.status = "EXPIRED", !.active = FALSE]
                         ELSE invoice[i]]
    BY DEF Expire
  <1>2. \A i \in Invoices \ Due : invoice'[i] = invoice[i]
    BY <1>1
  <1>3. \A i \in Due : /\ i \in Invoices
                       /\ Exists(i)
                       /\ invoice[i].status \in OPEN_STATUSES
                       /\ invoice'[i].status = "EXPIRED"
                       /\ invoice'[i].hash = invoice[i].hash
    <2>1. \A i \in Due : i \in Invoices /\ Exists(i) /\ invoice[i].status \in OPEN_STATUSES
      BY DEF Due, Open, InStatus
    <2>2. \A i \in Due : invoice[i] \in InvoiceRow
      BY <2>1, RowOf
    <2>3. \A i \in Due : invoice'[i] = [invoice[i] EXCEPT !.status = "EXPIRED", !.active = FALSE]
      BY <1>1, <2>1
    <2>4. QED
      BY <2>1, <2>2, <2>3 DEF InvoiceRow
  <1>4. \A i \in Invoices :
           /\ InStatus(i, {"CREDITED"})' <=> InStatus(i, {"CREDITED"})
           /\ InStatus(i, {"CREDITED", "NEEDS_REVIEW"})' <=> InStatus(i, {"CREDITED", "NEEDS_REVIEW"})
           /\ InStatus(i, {"CREDITED", "NEEDS_REVIEW"}) => invoice'[i] = invoice[i]
    BY <1>2, <1>3 DEF InStatus, Exists, OPEN_STATUSES
  <1>5. ASSUME NEW d \in Cycles PROVE Faithful(d)'
    <2>1. d = c
      BY DEF OneCycle
    <2>2. cycle'[c].batch = {} /\ cycle'[c].work = None
      BY <1>1 DEF Base, TypeOK, At
    <2>3. QED
      BY <2>1, <2>2 DEF Faithful
  <1>6. \A i \in Invoices : InStatus(i, {"CREDITED"}) => InStatus(i, {"CREDITED", "NEEDS_REVIEW"})
    BY DEF InStatus
  <1>7. Decided'
    BY <1>1, <1>4, <1>6 DEF CryptoInv, Decided, PaidFor
  <1>8. OneInvoice'
    <2>1. \A i \in Invoices : Exists(i)' /\ i \notin Due => Exists(i)
      BY <1>2 DEF Exists
    <2>2. \A i \in Invoices : Exists(i)' => Exists(i) /\ invoice'[i].hash = invoice[i].hash
      BY <1>2, <1>3, <2>1
    <2>3. QED
      BY <2>2 DEF CryptoInv, OneInvoice
  <1>9. Linked' /\ Explained'
    <2>1. \A i \in Invoices : InStatus(i, {"CREDITED"}) =>
             /\ invoice'[i].hash = invoice[i].hash /\ invoice'[i].user = invoice[i].user
             /\ invoice'[i].toman = invoice[i].toman
      BY <1>4, <1>6
    <2>2. Linked'
      <3>1. ASSUME NEW i \in Invoices, InStatus(i, {"CREDITED"})'
            PROVE  /\ Settle(i, invoice[i].hash)' \in ledger'
                   /\ refs'[<<invoice'[i].user, invoice'[i].hash>>] = i
        <4>1. InStatus(i, {"CREDITED"})
          BY <3>1, <1>4
        <4>2. Settle(i, invoice[i].hash) \in ledger /\ refs[<<invoice[i].user, invoice[i].hash>>] = i
          BY <4>1 DEF CryptoInv, Linked
        <4>3. invoice'[i].hash = invoice[i].hash /\ invoice'[i].user = invoice[i].user
          BY <4>1, <2>1
        <4>4. refs'[<<invoice'[i].user, invoice'[i].hash>>] = i
          BY <4>2, <4>3, <1>1
        <4>5. Settle(i, invoice[i].hash)' \in ledger'
          <5>1. Tx(invoice[i].user, Key(invoice[i].hash), invoice[i].toman) \in ledger'
            BY <4>2, <1>1 DEF Settle
          <5>2. Tx(invoice'[i].user, Key(invoice'[i].hash), invoice'[i].toman) \in ledger'
            BY <5>1, <4>1, <2>1
          <5>3. QED
            BY <5>2 DEF Settle
        <4>6. QED
          BY <4>4, <4>5
      <3>2. QED
        BY <3>1 DEF Linked
    <2>3. ASSUME NEW x \in ledger
          PROVE  \E i \in Invoices : InStatus(i, {"CREDITED"})' /\ x = Settle(i, invoice[i].hash)'
      <3>1. PICK i \in Invoices : InStatus(i, {"CREDITED"}) /\ x = Settle(i, invoice[i].hash)
        BY DEF CryptoInv, Explained
      <3>2. QED
        BY <3>1, <2>1, <1>4 DEF Settle
    <2>4. Explained'
      BY <2>3, <1>1 DEF Explained
    <2>5. QED
      BY <2>2, <2>4
  <1>10. Referenced'
    BY <1>1 DEF CryptoInv, Referenced
  <1>11. QED
    BY <1>5, <1>7, <1>8, <1>9, <1>10 DEF CryptoInv

LEMMA InvCycle ==
    ASSUME OneCycle, Base, CryptoInv, NEW c \in Cycles, Work(c) \/ Expire(c) \/ CycleDies(c)
    PROVE  CryptoInv'
  <1>t. TypeOK /\ cycle[c] \in CycleRow
    BY DEF Base, TypeOK
  <1>1. CASE Scan(c)
    <2> DEFINE incoming == IF OpenAmounts(NetworkOf(c)) # {} THEN Incoming(NetworkOf(c)) ELSE {}
               listed == {<<t, chain[t].confirmed>> : t \in incoming}
    <2>1. PICK n, batch : n = cycle[c].net + 1 /\ batch = listed
      OBVIOUS
    <2>2. \A entry \in batch : entry[2] => chain[entry[1]].confirmed
      BY <2>1
    <2>3. /\ cycle' = [cycle EXCEPT ![c] = At(n, batch)]
          /\ UNCHANGED <<invoice, age, chain, ledger, refs, req>>
      BY <1>1, <1>t, <2>1 DEF Scan, TypeOK
    <2>4. QED
      BY <2>2, <2>3, Idling
  <1>2. CASE ScanFails(c)
    <2>1. PICK n : n = cycle[c].net + 1
      OBVIOUS
    <2>2. /\ cycle' = [cycle EXCEPT ![c] = At(n, {})]
          /\ UNCHANGED <<invoice, age, chain, ledger, refs, req>>
      BY <1>2, <1>t, <2>1 DEF ScanFails, TypeOK
    <2>3. \A entry \in {} : entry[2] => chain[entry[1]].confirmed
      OBVIOUS
    <2>4. QED
      BY <2>2, <2>3, Idling
  <1>3. CASE ApplyFails(c)
    <2>1. Unwork(c) /\ UNCHANGED <<invoice, age, chain, ledger, refs, req>>
      BY <1>3 DEF ApplyFails
    <2>2. cycle'[c].batch = cycle[c].batch /\ cycle'[c].work = None
      BY <2>1, WorkDropped
    <2>3. ASSUME NEW d \in Cycles PROVE Faithful(d)'
      <3>1. d = c /\ Faithful(c)
        BY DEF OneCycle, CryptoInv
      <3>2. QED
        BY <3>1, <2>1, <2>2 DEF Faithful
    <2>4. QED
      BY <2>1, <2>3, CycleOnly
  <1>4. CASE CycleDies(c)
    <2>1. /\ cycle' = [cycle EXCEPT ![c] = At(0, {})]
          /\ UNCHANGED <<invoice, age, chain, ledger, refs, req>>
      BY <1>4 DEF CycleDies
    <2>2. \A entry \in {} : entry[2] => chain[entry[1]].confirmed
      OBVIOUS
    <2>3. QED
      BY <2>1, <2>2, Idling
  <1>5. QED
    BY <1>1, <1>2, <1>3, <1>4, InvMatch, InvApply, InvExpire DEF Work

LEMMA InvStep ==
    ASSUME OneCycle
    PROVE  Base /\ CryptoInv /\ [Next /\ Undisturbed]_vars => CryptoInv'
  <1> SUFFICES ASSUME Base, CryptoInv, [Next /\ Undisturbed]_vars PROVE CryptoInv'
    OBVIOUS
  <1>1. CASE UNCHANGED vars
    BY <1>1 DEF vars, CryptoInv, Faithful, Decided, PaidFor, OneInvoice, Linked, Settle,
                Explained, Referenced, InStatus, Exists
  <1>2. CASE Next /\ Undisturbed
    <2>1. CASE UserRequests
      BY <1>2, <2>1, InvUsers
    <2>2. CASE AdminRequests
      BY <2>2, InvAdmins
    <2>3. CASE World
      BY <2>3, InvWorld
    <2>4. ASSUME NEW c \in Cycles, Work(c) \/ Expire(c) \/ CycleDies(c)
          PROVE  CryptoInv'
      BY <2>4, InvCycle
    <2>5. QED
      BY <1>2, <2>1, <2>2, <2>3, <2>4 DEF Next
  <1>3. QED
    BY <1>1, <1>2

LEMMA InvInit == Init => CryptoInv
  <1> SUFFICES ASSUME Init PROVE CryptoInv
    OBVIOUS
  <1>1. \A c \in Cycles : cycle[c].batch = {} /\ cycle[c].work = None
    BY DEF Init, At
  <1>2. \A i \in Invoices : ~ Exists(i)
    BY DEF Init, Exists
  <1>3. ledger = {} /\ \A u \in Users, t \in Transfers : refs[<<u, t>>] = None
    BY DEF Init
  <1>4. QED
    BY <1>1, <1>2, <1>3 DEF CryptoInv, Faithful, Decided, OneInvoice, Linked,
                            Explained, Referenced, InStatus

-----------------------------------------------------------------------------
(* The theorems *)

\* Nothing is credited but for a confirmed transfer that was sent in the window of
\* its invoice and paid it in full, for every order in which requests and a cycle
\* of the worker that works on rows it read too early reach the invoice
\* (process_transfer, approve_review), when cycles do not overlap and nobody claims
\* another hash for an invoice while a cycle settles it with the one claimed before.
THEOREM CreditsAreBacked ==
    ASSUME OneCycle
    PROVE  QuietSpec => []CreditBacked
  <1>1. Base /\ CryptoInv => CreditBacked
    BY RowOf DEF CryptoInv, Decided, PaidFor, CreditBacked, InStatus
  <1>2. Base /\ CryptoInv /\ [Next /\ Undisturbed]_vars => (Base /\ CryptoInv)'
    <2>1. [Next /\ Undisturbed]_vars => [Next]_vars
      OBVIOUS
    <2>2. QED
      BY <2>1, BaseStep, InvStep
  <1>3. Init => Base /\ CryptoInv
    BY BaseInit, InvInit
  <1>4. QED
    BY <1>1, <1>2, <1>3, PTL DEF QuietSpec

\* The money side of the reconciliation report is clean in every state: the credits
\* of the ledger and the credited invoices correspond one to one, and each names a
\* transfer of the chain (crypto_reconciliation_service.py), under the same two
\* conditions.
THEOREM BooksAgree ==
    ASSUME OneCycle
    PROVE  QuietSpec => []Reconciled
  <1>1. ASSUME Base, CryptoInv PROVE Reconciled
    <2>1. LedgerMismatches = {}
      <3>1. SUFFICES ASSUME NEW i \in Invoices, InStatus(i, {"CREDITED"}) PROVE ~ WrongCredit(i)
        BY DEF LedgerMismatches
      <3>2. /\ Settle(i, invoice[i].hash) \in ledger
            /\ refs[<<invoice[i].user, invoice[i].hash>>] = i
        BY <1>1, <3>1 DEF CryptoInv, Linked
      <3>3. /\ Settle(i, invoice[i].hash).user = invoice[i].user
            /\ Settle(i, invoice[i].hash).key = Key(invoice[i].hash)
        BY DEF Settle, Tx
      <3>4. QED
        BY <3>2, <3>3 DEF WrongCredit, HasTx
    <2>2. OrphanCredits = {}
      <3>1. SUFFICES ASSUME NEW x \in ledger
                     PROVE  \E i \in Invoices : /\ InStatus(i, {"CREDITED"})
                                                /\ invoice[i].user = x.user
                                                /\ Key(invoice[i].hash) = x.key
        BY DEF OrphanCredits
      <3>2. QED
        BY <1>1 DEF CryptoInv, Explained, Settle, Tx
    <2>3. MissingOnChain = {}
      BY <1>1 DEF CryptoInv, Decided, PaidFor, MissingOnChain
    <2>4. ASSUME NEW x \in ledger, NEW y \in ledger, x.key = y.key PROVE x = y
      <3>1. PICK i \in Invoices : InStatus(i, {"CREDITED"}) /\ x = Settle(i, invoice[i].hash)
        BY <1>1 DEF CryptoInv, Explained
      <3>2. PICK j \in Invoices : InStatus(j, {"CREDITED"}) /\ y = Settle(j, invoice[j].hash)
        BY <1>1 DEF CryptoInv, Explained
      <3>3. invoice[i].hash = invoice[j].hash
        BY <2>4, <3>1, <3>2 DEF Settle, Tx, Key
      <3>4. invoice[i].hash # None
        BY <1>1, <3>1 DEF CryptoInv, Decided, PaidFor, InStatus
      <3>5. i = j
        BY <1>1, <3>1, <3>2, <3>3, <3>4 DEF CryptoInv, OneInvoice, InStatus
      <3>6. QED
        BY <3>1, <3>2, <3>5
    <2>5. QED
      BY <2>1, <2>2, <2>3, <2>4 DEF Reconciled
  <1>2. Base /\ CryptoInv /\ [Next /\ Undisturbed]_vars => (Base /\ CryptoInv)'
    <2>1. [Next /\ Undisturbed]_vars => [Next]_vars
      OBVIOUS
    <2>2. QED
      BY <2>1, BaseStep, InvStep
  <1>3. Init => Base /\ CryptoInv
    BY BaseInit, InvInit
  <1>4. QED
    BY <1>1, <1>2, <1>3, PTL DEF QuietSpec

=============================================================================
