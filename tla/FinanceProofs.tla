--------------------------- MODULE FinanceProofs ---------------------------
(***************************************************************************)
(* Theorems about Finance.tla for every number of users, requests,         *)
(* administrators, keys and amounts.                                       *)
(*                                                                         *)
(* Each property is a conjunct of an inductive invariant: Settled and      *)
(* DepositBacked together with the shape of the rows and of what the       *)
(* requests remember (FinanceInv), DepositCreditedOnce with the fact that  *)
(* every credit of a deposit carries the one key the bot derives from it   *)
(* (BotCredits). A step posts at most one transaction, a credit or a debit *)
(* the balance covers (StepPosts), which is what LedgerSpec asks for.      *)
(***************************************************************************)
EXTENDS Finance, LedgerProofs

\* The rows of the tables.
Tables ==
    /\ deposit \in [Deposits -> DepositRow \cup {None}]
    /\ withdrawal \in [Withdrawals -> WithdrawRow \cup {None}]
    /\ payment \in [Payments -> PaymentRow \cup {None}]

\* A deposit has its receipt, or needs none, from the moment it waits for review.
Received(i, status) == status \in {"PENDING_REVIEW", "APPROVED"} => Supported(i)

\* What the requests remember of the deposits, however stale.
ReqOK(r) ==
    /\ r.op = "withdraw" => r.user \in Users /\ r.amount \in Amounts /\ r.details \in Details
    /\ r.op \in {"upload", "approve", "reject"} =>
          /\ r.id \in Deposits
          /\ deposit[r.id] # None
          /\ r.loaded \in DepositStatus
          /\ Received(r.id, r.loaded)
    /\ r.op = "upload" => r.file \in BOOLEAN /\ (r.file \/ Supported(r.id))
    /\ r.op = "approve" => r.route \in Routes /\ r.key \in KeysOf(r.route)
Sessions ==
    /\ req = [s \in Slots |-> req[s]]
    /\ \A s \in Slots : req[s] # Idle => ReqOK(req[s])

Receipts == \A i \in Deposits : deposit[i] # None => Received(i, deposit[i].status)

FinanceInv ==
    /\ Tables
    /\ Sessions
    /\ Receipts
    /\ Settled
    /\ DepositBacked

-----------------------------------------------------------------------------
(* Posting one transaction *)

LEMMA PostOne ==
    ASSUME NEW L, NEW t
    PROVE  /\ L \subseteq Posted(L, {t})
           /\ Posted(L, {t}) \subseteq L \cup {t}
           /\ ~ HasTx(L, t.user, t.key) => Posted(L, {t}) = L \cup {t}
           /\ \E x \in Posted(L, {t}) : x.user = t.user /\ x.key = t.key
  <1>1. CASE HasTx(L, t.user, t.key)
    <2>1. NewTxs(L, {t}) = {}
      BY <1>1 DEF NewTxs
    <2>2. Posted(L, {t}) = L
      BY <2>1 DEF Posted
    <2>3. QED
      BY <2>2, <1>1 DEF HasTx
  <1>2. CASE ~ HasTx(L, t.user, t.key)
    <2>1. NewTxs(L, {t}) = {t}
      BY <1>2 DEF NewTxs
    <2>2. Posted(L, {t}) = L \cup {t}
      BY <2>1 DEF Posted
    <2>3. QED
      BY <2>2
  <1>3. QED
    BY <1>1, <1>2

LEMMA PostedWithin ==
    ASSUME NEW L, NEW orders
    PROVE  L \subseteq Posted(L, orders) /\ Posted(L, orders) \subseteq L \cup orders
  BY DEF Posted, NewTxs

\* A posting of one kind leaves what the other kinds add up to alone.
LEMMA OtherKind ==
    ASSUME NEW t, ledger' = Posted(ledger, {t})
    PROVE  /\ t.key.kind # "DEPOSIT"  => \A i : CreditsOf(i)' = CreditsOf(i)
           /\ t.key.kind # "WITHDRAW" => \A i : DebitsOf(i)' = DebitsOf(i)
           /\ t.key.kind # "GATEWAY"  => \A i : PaymentsOf(i)' = PaymentsOf(i)
  <1>1. ledger \subseteq ledger' /\ ledger' \subseteq ledger \cup {t}
    BY PostOne
  <1>2. QED
    BY <1>1 DEF CreditsOf, DebitsOf, PaymentsOf

\* Without a posting nothing changes.
LEMMA SameLedger ==
    ASSUME UNCHANGED ledger
    PROVE  \A i : /\ CreditsOf(i)' = CreditsOf(i)
                  /\ DebitsOf(i)' = DebitsOf(i)
                  /\ PaymentsOf(i)' = PaymentsOf(i)
  BY DEF CreditsOf, DebitsOf, PaymentsOf

-----------------------------------------------------------------------------
(* Frames: what a step preserves that leaves some of the variables alone *)

LEMMA SettledFrame ==
    ASSUME Settled, UNCHANGED <<withdrawal, payment>>,
           \A i : DebitsOf(i)' = DebitsOf(i) /\ PaymentsOf(i)' = PaymentsOf(i)
    PROVE  Settled'
  BY DEF Settled, InStatus

LEMMA BackedFrame ==
    ASSUME DepositBacked, UNCHANGED deposit, \A i : CreditsOf(i)' = CreditsOf(i)
    PROVE  DepositBacked'
  BY DEF DepositBacked, Supported

\* A new row and a decision keep what the requests remember true.
LEMMA SessionsFrame ==
    ASSUME Sessions,
           \A i \in Deposits : deposit[i] # None =>
               deposit'[i] # None /\ (Supported(i) => Supported(i)'),
           req' = [s \in Slots |-> req'[s]],
           \A s \in Slots : req'[s] \in {req[s], Idle}
    PROVE  Sessions'
  <1> SUFFICES ASSUME NEW s \in Slots, req'[s] # Idle PROVE ReqOK(req[s])'
    BY DEF Sessions
  <1>1. req'[s] = req[s] /\ ReqOK(req[s])
    BY DEF Sessions
  <1>2. QED
    BY <1>1 DEF ReqOK, Received

\* A step that begins a request changes nothing else.
LEMMA BeginFrame ==
    ASSUME FinanceInv, NEW s \in Slots, NEW r, ReqOK(r),
           req' = [req EXCEPT ![s] = r],
           UNCHANGED <<deposit, withdrawal, aged, payment, ledger>>
    PROVE  FinanceInv'
  <1>1. Tables' /\ Receipts'
    BY DEF FinanceInv, Tables, Receipts, Received, Supported
  <1>2. Sessions'
    <2>1. \A x : ReqOK(x)' <=> ReqOK(x)
      BY DEF ReqOK, Received, Supported
    <2>2. req' = [x \in Slots |-> req'[x]] /\ \A x \in Slots : req'[x] \in {req[x], r}
      BY DEF FinanceInv, Sessions
    <2>3. QED
      BY <2>1, <2>2 DEF FinanceInv, Sessions, ReqOK, Received
  <1>3. Settled' /\ DepositBacked'
    BY SameLedger, SettledFrame, BackedFrame DEF FinanceInv
  <1>4. QED
    BY <1>1, <1>2, <1>3 DEF FinanceInv

-----------------------------------------------------------------------------
(* Deposits *)

LEMMA StepCreateDeposit ==
    ASSUME FinanceInv, NEW i \in Deposits, NEW u \in Users, NEW a \in Amounts,
           NEW client \in Clients, CreateDeposit(i, u, a, client)
    PROVE  FinanceInv'
  <1> DEFINE row == [user |-> u, amount |-> a, via |-> client, status |-> "AWAITING_RECEIPT",
                     receipt |-> FALSE]
  <1>1. row \in DepositRow /\ row # None
    <2>1. row \in DepositRow
      BY DEF DepositRow, DepositStatus
    <2>2. QED
      BY <2>1, NoneAssumption
  <1>2. /\ deposit[i] = None
        /\ deposit' = [deposit EXCEPT ![i] = row]
        /\ UNCHANGED <<withdrawal, aged, payment, ledger, req>>
    BY DEF CreateDeposit
  <1> HIDE DEF row
  <1>3. Tables'
    BY <1>1, <1>2 DEF FinanceInv, Tables
  <1>4. \A j \in Deposits : deposit'[j] = IF j = i THEN row ELSE deposit[j]
    BY <1>2 DEF FinanceInv, Tables
  <1>5. Sessions'
    BY <1>2, <1>4, SessionsFrame DEF FinanceInv, Sessions, Supported
  <1>6. Receipts'
    BY <1>4 DEF FinanceInv, Receipts, Received, Supported, row
  <1>7. Settled'
    BY <1>2, SameLedger, SettledFrame DEF FinanceInv
  <1>8. DepositBacked'
    <2>1. \A j : CreditsOf(j)' = CreditsOf(j)
      BY <1>2, SameLedger
    <2>2. CreditsOf(i) = {}
      BY <1>2 DEF FinanceInv, DepositBacked
    <2>3. row.status # "APPROVED"
      BY DEF row
    <2>4. QED
      BY <1>4, <2>1, <2>2, <2>3 DEF FinanceInv, DepositBacked, Supported
  <1>9. QED
    BY <1>3, <1>5, <1>6, <1>7, <1>8 DEF FinanceInv

\* Every other step on a deposit changes the status and the receipt of one row.
LEMMA DepositUpdate ==
    ASSUME FinanceInv, NEW i \in Deposits, deposit[i] # None,
           NEW status \in DepositStatus, NEW receipt \in BOOLEAN,
           deposit' = [deposit EXCEPT ![i].status = status, ![i].receipt = receipt],
           deposit[i].receipt => receipt,
           status \in {"PENDING_REVIEW", "APPROVED"} => receipt \/ deposit[i].via = "mini",
           UNCHANGED <<withdrawal, payment>>,
           req' = [s \in Slots |-> req'[s]],
           \A s \in Slots : req'[s] \in {req[s], Idle}
    PROVE  /\ Tables' /\ Sessions' /\ Receipts'
           /\ \A j \in Deposits : j # i => deposit'[j] = deposit[j]
           /\ deposit'[i] # None
           /\ deposit'[i].status = status
           /\ deposit'[i].receipt = receipt
           /\ deposit'[i].via = deposit[i].via
  <1>1. deposit[i] \in DepositRow
    BY DEF FinanceInv, Tables
  <1> DEFINE row == [deposit[i] EXCEPT !.status = status, !.receipt = receipt]
  <1>2. row \in DepositRow /\ row.status = status /\ row.receipt = receipt /\ row # None
        /\ row.via = deposit[i].via
    BY <1>1, NoneAssumption DEF DepositRow
  <1>3. deposit' = [deposit EXCEPT ![i] = row]
    BY DEF FinanceInv, Tables
  <1> HIDE DEF row
  <1>4. Tables'
    <2>1. Tables
      BY DEF FinanceInv
    <2>2. deposit' \in [Deposits -> DepositRow \cup {None}]
      BY <1>2, <1>3, <2>1 DEF Tables
    <2>3. QED
      BY <2>1, <2>2 DEF Tables
  <1>5. \A j \in Deposits : deposit'[j] = IF j = i THEN row ELSE deposit[j]
    BY <1>3 DEF FinanceInv, Tables
  <1>6. Sessions'
    BY <1>2, <1>5, SessionsFrame DEF FinanceInv, Supported
  <1>7. Receipts'
    BY <1>2, <1>5 DEF FinanceInv, Receipts, Received, Supported
  <1>8. QED
    BY <1>2, <1>4, <1>5, <1>6, <1>7

LEMMA DoneReq ==
    ASSUME Sessions, NEW s \in Slots, Done(s)
    PROVE  req' = [x \in Slots |-> req'[x]] /\ \A x \in Slots : req'[x] \in {req[x], Idle}
  BY DEF Sessions, Done

LEMMA StepUpload ==
    ASSUME FinanceInv, NEW s \in Slots, Upload(s)
    PROVE  FinanceInv'
  <1> DEFINE i == req[s].id
             status == Flushed(i, req[s].loaded, "PENDING_REVIEW")
             receipt == deposit[i].receipt \/ req[s].file
  <1>1. i \in Deposits /\ deposit[i] # None /\ ReqOK(req[s])
    BY DEF FinanceInv, Sessions, ReqOK, Upload
  <1>2. deposit[i] \in DepositRow
    BY <1>1 DEF FinanceInv, Tables
  <1>3. status \in {deposit[i].status, "PENDING_REVIEW"} /\ status \in DepositStatus
    BY <1>2 DEF Flushed, DepositRow, DepositStatus
  <1>4. /\ deposit' = [deposit EXCEPT ![i].status = status, ![i].receipt = receipt]
        /\ UNCHANGED <<withdrawal, aged, payment, ledger>>
        /\ Done(s)
    BY <1>1, <1>2 DEF Upload, FinanceInv, Tables
  <1>9. receipt \in BOOLEAN /\ (deposit[i].receipt => receipt) /\ (receipt \/ deposit[i].via = "mini")
    BY <1>1, <1>2 DEF ReqOK, DepositRow, Supported, Upload
  <1> HIDE DEF i, status, receipt
  <1>5. /\ Tables' /\ Sessions' /\ Receipts'
        /\ \A j \in Deposits : j # i => deposit'[j] = deposit[j]
        /\ deposit'[i] # None /\ deposit'[i].status = status /\ deposit'[i].receipt = receipt
        /\ deposit'[i].via = deposit[i].via
    BY <1>1, <1>3, <1>4, <1>9, DoneReq, DepositUpdate DEF FinanceInv
  <1>6. Settled'
    BY <1>4, SameLedger, SettledFrame DEF FinanceInv
  <1>7. DepositBacked'
    BY <1>1, <1>3, <1>4, <1>5, <1>9, SameLedger DEF FinanceInv, DepositBacked, Supported
  <1>8. QED
    BY <1>5, <1>6, <1>7 DEF FinanceInv

LEMMA StepApprove ==
    ASSUME FinanceInv, NEW s \in Slots, Approve(s)
    PROVE  FinanceInv'
  <1> PICK i : i = req[s].id
    OBVIOUS
  <1> PICK credit :
        credit = Tx(deposit[i].user, Ref("DEPOSIT", <<i, req[s].key>>), deposit[i].amount)
    OBVIOUS
  <1>1. i \in Deposits /\ deposit[i] # None /\ ReqOK(req[s])
    BY DEF FinanceInv, Sessions, ReqOK, Approve
  <1>2. deposit[i] \in DepositRow /\ Received(i, deposit[i].status)
    BY <1>1 DEF FinanceInv, Tables, Receipts
  <1> PICK receipt : receipt = deposit[i].receipt
    OBVIOUS
  <1>3. receipt \in BOOLEAN /\ (receipt \/ deposit[i].via = "mini")
    <2>1. Status(s) = "PENDING_REVIEW" /\ Received(i, Status(s))
      BY <1>1, <1>2 DEF Approve, Reviewable, Status, ReqOK
    <2>2. QED
      BY <1>2, <2>1 DEF Received, Supported, DepositRow
  <1>4. /\ deposit' = [deposit EXCEPT ![i].status = "APPROVED"]
        /\ ledger' = Posted(ledger, {credit})
        /\ UNCHANGED <<withdrawal, aged, payment>>
        /\ Done(s)
    BY DEF Approve
  <1>5. deposit' = [deposit EXCEPT ![i].status = "APPROVED", ![i].receipt = receipt]
    <2>1. [deposit[i] EXCEPT !.status = "APPROVED"]
            = [deposit[i] EXCEPT !.status = "APPROVED", !.receipt = receipt]
      BY <1>2, <1>3 DEF DepositRow
    <2>2. QED
      BY <1>1, <1>4, <2>1 DEF FinanceInv, Tables
  <1>6. credit.key.kind = "DEPOSIT" /\ credit.key.ref[1] = i
    BY DEF Tx, Ref
  <1>7. \A j : j # i => CreditsOf(j)' = CreditsOf(j)
    <2>1. ledger \subseteq ledger' /\ ledger' \subseteq ledger \cup {credit}
      BY <1>4, PostedWithin, Zenon
    <2>2. QED
      BY <1>6, <2>1 DEF CreditsOf
  <1>8. CreditsOf(i)' # {}
    <2>1. PICK x \in Posted(ledger, {credit}) : x.user = credit.user /\ x.key = credit.key
      BY PostOne
    <2>2. x \in ledger' /\ x.key.kind = "DEPOSIT" /\ x.key.ref[1] = i
      BY <1>4, <1>6, <2>1
    <2>3. QED
      BY <2>2 DEF CreditsOf
  <1>9. Settled'
    BY <1>4, <1>6, OtherKind, SettledFrame DEF FinanceInv
  <1>10. /\ Tables' /\ Sessions' /\ Receipts'
         /\ \A j \in Deposits : j # i => deposit'[j] = deposit[j]
         /\ deposit'[i] # None /\ deposit'[i].status = "APPROVED" /\ deposit'[i].receipt = receipt
         /\ deposit'[i].via = deposit[i].via
    BY ZenonT(30), <1>1, <1>3, <1>4, <1>5, DoneReq, DepositUpdate DEF FinanceInv, DepositStatus
  <1>11. DepositBacked'
    BY <1>1, <1>3, <1>7, <1>8, <1>10 DEF FinanceInv, DepositBacked, Supported
  <1>12. QED
    BY <1>9, <1>10, <1>11 DEF FinanceInv

LEMMA StepReject ==
    ASSUME FinanceInv, NEW s \in Slots, Reject(s)
    PROVE  FinanceInv'
  <1> DEFINE i == req[s].id
  <1>1. i \in Deposits /\ deposit[i] # None /\ ReqOK(req[s])
    BY DEF FinanceInv, Sessions, ReqOK, Reject
  <1>2. deposit[i] \in DepositRow
    BY <1>1 DEF FinanceInv, Tables
  <1>3. /\ deposit' = [deposit EXCEPT ![i].status = "REJECTED"]
        /\ UNCHANGED <<withdrawal, aged, payment, ledger>>
        /\ Done(s)
    BY DEF Reject
  <1> DEFINE receipt == deposit[i].receipt
  <1>4. receipt \in BOOLEAN
    BY <1>2 DEF DepositRow
  <1>5. deposit' = [deposit EXCEPT ![i].status = "REJECTED", ![i].receipt = receipt]
    <2>1. [deposit[i] EXCEPT !.status = "REJECTED"]
            = [deposit[i] EXCEPT !.status = "REJECTED", !.receipt = receipt]
      BY <1>2 DEF DepositRow
    <2>2. QED
      BY <1>1, <1>3, <2>1 DEF FinanceInv, Tables
  <1>6. Settled'
    BY <1>3, SameLedger, SettledFrame DEF FinanceInv
  <1>7. receipt = deposit[i].receipt
    OBVIOUS
  <1> HIDE DEF i, receipt
  <1>8. /\ Tables' /\ Sessions' /\ Receipts'
        /\ \A j \in Deposits : j # i => deposit'[j] = deposit[j]
        /\ deposit'[i] # None /\ deposit'[i].status = "REJECTED" /\ deposit'[i].receipt = receipt
        /\ deposit'[i].via = deposit[i].via
    BY <1>1, <1>3, <1>4, <1>5, <1>7, DoneReq, DepositUpdate DEF FinanceInv, DepositStatus
  <1>9. DepositBacked'
    BY <1>1, <1>3, <1>7, <1>8, SameLedger DEF FinanceInv, DepositBacked, Supported
  <1>10. QED
    BY <1>6, <1>8, <1>9 DEF FinanceInv

-----------------------------------------------------------------------------
(* Withdrawals *)

\* The part of the invariant that a step on withdrawals or payments leaves alone.
LEMMA DepositFrame ==
    ASSUME FinanceInv, UNCHANGED deposit,
           \A i : CreditsOf(i)' = CreditsOf(i),
           req' = [s \in Slots |-> req'[s]],
           \A s \in Slots : req'[s] \in {req[s], Idle}
    PROVE  Sessions' /\ Receipts' /\ DepositBacked'
  <1>1. Sessions'
    BY SessionsFrame DEF FinanceInv, Supported
  <1>2. Receipts'
    BY DEF FinanceInv, Receipts, Received, Supported
  <1>3. DepositBacked'
    BY BackedFrame DEF FinanceInv
  <1>4. QED
    BY <1>1, <1>2, <1>3

LEMMA SameReq ==
    ASSUME FinanceInv, UNCHANGED req
    PROVE  req' = [s \in Slots |-> req'[s]] /\ \A s \in Slots : req'[s] \in {req[s], Idle}
  BY DEF FinanceInv, Sessions

LEMMA StepCreateWithdraw ==
    ASSUME FinanceInv, NEW s \in Slots, NEW i \in Withdrawals, CreateWithdraw(s, i)
    PROVE  FinanceInv'
  <1> PICK row : row = [user |-> req[s].user, amount |-> req[s].amount,
                        details |-> req[s].details, status |-> "PENDING"]
    OBVIOUS
  <1>1. ReqOK(req[s]) /\ req[s].op = "withdraw"
    BY DEF FinanceInv, Sessions, CreateWithdraw
  <1>2. row \in WithdrawRow
    BY <1>1 DEF ReqOK, WithdrawRow, WithdrawStatus
  <1>3. /\ withdrawal[i] = None
        /\ withdrawal' = [withdrawal EXCEPT ![i] = row]
        /\ UNCHANGED <<deposit, aged, payment, ledger>>
        /\ Done(s)
    BY DEF CreateWithdraw
  <1>4. Tables'
    BY <1>2, <1>3 DEF FinanceInv, Tables
  <1>5. \A j \in Withdrawals : withdrawal'[j] = IF j = i THEN row ELSE withdrawal[j]
    BY <1>3 DEF FinanceInv, Tables
  <1>6. Settled'
    <2>1. DebitsOf(i) = {}
      BY <1>3 DEF FinanceInv, Settled, InStatus
    <2>2. row.status = "PENDING"
      OBVIOUS
    <2>3. QED
      BY <1>3, <1>5, <2>1, <2>2, SameLedger DEF FinanceInv, Settled, InStatus
  <1>7. Sessions' /\ Receipts' /\ DepositBacked'
    BY <1>3, SameLedger, DoneReq, DepositFrame DEF FinanceInv
  <1>8. QED
    BY <1>4, <1>6, <1>7 DEF FinanceInv

\* A decision changes the status of one withdrawal.
LEMMA WithdrawUpdate ==
    ASSUME Tables, NEW i \in Withdrawals, withdrawal[i] # None,
           NEW status \in WithdrawStatus, Decide(i, status)
    PROVE  /\ Tables'
           /\ \A j \in Withdrawals : j # i => withdrawal'[j] = withdrawal[j]
           /\ withdrawal'[i] # None
           /\ withdrawal'[i].status = status
           /\ withdrawal'[i].user = withdrawal[i].user
           /\ withdrawal'[i].amount = withdrawal[i].amount
  <1>1. withdrawal[i] \in WithdrawRow
    BY DEF Tables
  <1> DEFINE row == [withdrawal[i] EXCEPT !.status = status]
  <1>2. /\ row \in WithdrawRow /\ row # None /\ row.status = status
        /\ row.user = withdrawal[i].user /\ row.amount = withdrawal[i].amount
    BY <1>1, NoneAssumption DEF WithdrawRow
  <1>3. withdrawal' = [withdrawal EXCEPT ![i] = row] /\ UNCHANGED <<deposit, payment>>
    BY DEF Decide
  <1> HIDE DEF row
  <1>4. QED
    BY <1>2, <1>3 DEF Tables

\* A posting without precedent is the only one of its withdrawal.
LEMMA StepApproveWithdraw ==
    ASSUME FinanceInv, NEW i \in Withdrawals, NEW key, ApproveWithdraw(i, key)
    PROVE  FinanceInv'
  <1> PICK tx : tx = Debit(i, key)
    OBVIOUS
  <1>1. /\ tx.key.kind = "WITHDRAW" /\ tx.key.ref[1] = i
        /\ tx.user = withdrawal[i].user /\ tx.amount = - withdrawal[i].amount
    BY DEF Debit, Tx, Ref
  <1>2. /\ InStatus(i, "PENDING")
        /\ ledger' = Posted(ledger, {tx})
        /\ Decide(i, "APPROVED")
    BY DEF ApproveWithdraw
  <1>3. withdrawal[i] # None /\ ~ InStatus(i, "APPROVED") /\ ~ InStatus(i, "PAID")
    BY <1>2 DEF InStatus
  <1>4. DebitsOf(i) = {}
    BY <1>3 DEF FinanceInv, Settled
  <1>5. ledger' = ledger \cup {tx}
    <2>1. ~ HasTx(ledger, tx.user, tx.key)
      BY <1>1, <1>4 DEF HasTx, DebitsOf
    <2>2. QED
      BY <1>2, <2>1, PostOne
  <1>6. DebitsOf(i)' = {tx} /\ \A j : j # i => DebitsOf(j)' = DebitsOf(j)
    BY <1>1, <1>4, <1>5 DEF DebitsOf
  <1>7. /\ \A j : PaymentsOf(j)' = PaymentsOf(j)
        /\ \A j : CreditsOf(j)' = CreditsOf(j)
    BY <1>1, <1>5 DEF PaymentsOf, CreditsOf
  <1>8. /\ Tables'
        /\ \A j \in Withdrawals : j # i => withdrawal'[j] = withdrawal[j]
        /\ withdrawal'[i] # None /\ withdrawal'[i].status = "APPROVED"
        /\ withdrawal'[i].user = withdrawal[i].user
        /\ withdrawal'[i].amount = withdrawal[i].amount
    BY <1>2, <1>3, WithdrawUpdate DEF FinanceInv, WithdrawStatus
  <1>9. UNCHANGED <<deposit, payment, req>>
    BY <1>2 DEF Decide
  <1>10. Settled'
    <2>1. \A j \in Withdrawals :
             IF InStatus(j, "APPROVED")' \/ InStatus(j, "PAID")'
             THEN One(DebitsOf(j)', withdrawal'[j].user, - withdrawal'[j].amount)
             ELSE DebitsOf(j)' = {}
      <3> TAKE j \in Withdrawals
      <3>1. CASE j = i
        BY <3>1, <1>1, <1>6, <1>8 DEF InStatus, One
      <3>2. CASE j # i
        BY <3>2, <1>6, <1>8 DEF FinanceInv, Settled, InStatus
      <3>3. QED
        BY <3>1, <3>2
    <2>2. QED
      BY <2>1, <1>7, <1>9 DEF FinanceInv, Settled, One
  <1>11. Sessions' /\ Receipts' /\ DepositBacked'
    BY <1>7, <1>9, SameReq, DepositFrame
  <1>12. QED
    BY <1>8, <1>10, <1>11 DEF FinanceInv

LEMMA StepDecide ==
    ASSUME FinanceInv, NEW i \in Withdrawals, MarkPaid(i) \/ RejectWithdraw(i)
    PROVE  FinanceInv'
  <1> PICK status : /\ status \in {"PAID", "REJECTED"}
                    /\ status = "PAID" => InStatus(i, "APPROVED")
                    /\ status = "REJECTED" => InStatus(i, "PENDING")
                    /\ Decide(i, status) /\ UNCHANGED ledger
    BY DEF MarkPaid, RejectWithdraw
  <1>1. withdrawal[i] # None /\ status \in WithdrawStatus
    BY DEF InStatus, WithdrawStatus
  <1>2. /\ Tables'
        /\ \A j \in Withdrawals : j # i => withdrawal'[j] = withdrawal[j]
        /\ withdrawal'[i] # None /\ withdrawal'[i].status = status
        /\ withdrawal'[i].user = withdrawal[i].user
        /\ withdrawal'[i].amount = withdrawal[i].amount
    BY <1>1, WithdrawUpdate DEF FinanceInv
  <1>3. UNCHANGED <<deposit, payment, req>>
    BY DEF Decide
  <1>4. Settled'
    <2>1. \A j \in Withdrawals :
             (InStatus(j, "APPROVED")' \/ InStatus(j, "PAID")')
               <=> (InStatus(j, "APPROVED") \/ InStatus(j, "PAID"))
      BY <1>1, <1>2 DEF InStatus
    <2>2. \A j \in Withdrawals :
             InStatus(j, "APPROVED") \/ InStatus(j, "PAID") =>
                 /\ withdrawal'[j].user = withdrawal[j].user
                 /\ withdrawal'[j].amount = withdrawal[j].amount
      BY <1>2
    <2>3. \A j : DebitsOf(j)' = DebitsOf(j) /\ PaymentsOf(j)' = PaymentsOf(j)
      BY SameLedger
    <2>4. QED
      BY <2>1, <2>2, <2>3, <1>3 DEF FinanceInv, Settled
  <1>5. Sessions' /\ Receipts' /\ DepositBacked'
    BY <1>3, SameLedger, SameReq, DepositFrame
  <1>6. QED
    BY <1>2, <1>4, <1>5 DEF FinanceInv

-----------------------------------------------------------------------------
(* Gateway payments *)

\* A step on a payment leaves withdrawals alone.
LEMMA PaymentFrame ==
    ASSUME FinanceInv, UNCHANGED <<deposit, withdrawal, req>>,
           payment' \in [Payments -> PaymentRow \cup {None}],
           \A j : CreditsOf(j)' = CreditsOf(j) /\ DebitsOf(j)' = DebitsOf(j),
           \A j \in Payments :
              /\ payment'[j] = None \/ payment'[j].status = "CREATED" => PaymentsOf(j)' = {}
              /\ payment'[j] # None /\ payment'[j].status = "VERIFIED" =>
                    One(PaymentsOf(j)', payment'[j].user, payment'[j].amount)
    PROVE  FinanceInv'
  <1>1. Tables'
    BY DEF FinanceInv, Tables
  <1>2. Sessions' /\ Receipts' /\ DepositBacked'
    BY SameReq, DepositFrame
  <1>3. Settled'
    BY DEF FinanceInv, Settled, InStatus
  <1>4. QED
    BY <1>1, <1>2, <1>3 DEF FinanceInv

LEMMA StepInitiate ==
    ASSUME FinanceInv, NEW i \in Payments, NEW u \in Users, NEW a \in Amounts, Initiate(i, u, a)
    PROVE  FinanceInv'
  <1> PICK row : row = [user |-> u, amount |-> a, status |-> "CREATED"]
    OBVIOUS
  <1>1. row \in PaymentRow
    BY DEF PaymentRow, PaymentStatus
  <1>2. /\ payment[i] = None
        /\ payment' = [payment EXCEPT ![i] = row]
        /\ UNCHANGED <<deposit, withdrawal, aged, ledger, req>>
    BY DEF Initiate
  <1>3. payment' \in [Payments -> PaymentRow \cup {None}]
    BY <1>1, <1>2 DEF FinanceInv, Tables
  <1>4. \A j \in Payments : payment'[j] = IF j = i THEN row ELSE payment[j]
    BY <1>2 DEF FinanceInv, Tables
  <1>5. \A j \in Payments :
           /\ payment'[j] = None \/ payment'[j].status = "CREATED" => PaymentsOf(j)' = {}
           /\ payment'[j] # None /\ payment'[j].status = "VERIFIED" =>
                 One(PaymentsOf(j)', payment'[j].user, payment'[j].amount)
    <2>1. row.status = "CREATED" /\ PaymentsOf(i) = {}
      BY <1>2 DEF FinanceInv, Settled
    <2>2. QED
      BY <1>2, <1>4, <2>1, SameLedger DEF FinanceInv, Settled
  <1>6. QED
    BY <1>2, <1>3, <1>5, SameLedger, PaymentFrame

\* Verify and Fail change the status of one payment.
LEMMA PaymentUpdate ==
    ASSUME Tables, NEW i \in Payments, payment[i] # None, NEW status \in PaymentStatus,
           payment' = [payment EXCEPT ![i].status = status]
    PROVE  /\ payment' \in [Payments -> PaymentRow \cup {None}]
           /\ \A j \in Payments : j # i => payment'[j] = payment[j]
           /\ payment'[i] # None
           /\ payment'[i].status = status
           /\ payment'[i].user = payment[i].user
           /\ payment'[i].amount = payment[i].amount
  <1>1. payment[i] \in PaymentRow
    BY DEF Tables
  <1> DEFINE row == [payment[i] EXCEPT !.status = status]
  <1>2. /\ row \in PaymentRow /\ row # None /\ row.status = status
        /\ row.user = payment[i].user /\ row.amount = payment[i].amount
    BY <1>1, NoneAssumption DEF PaymentRow
  <1>3. payment' = [payment EXCEPT ![i] = row]
    OBVIOUS
  <1> HIDE DEF row
  <1>4. QED
    BY <1>2, <1>3 DEF Tables

LEMMA StepVerify ==
    ASSUME FinanceInv, NEW i \in Payments, Verify(i)
    PROVE  FinanceInv'
  <1> PICK tx : tx = Tx(payment[i].user, Ref("GATEWAY", i), payment[i].amount)
    OBVIOUS
  <1>1. /\ tx.key.kind = "GATEWAY" /\ tx.key.ref = i
        /\ tx.user = payment[i].user /\ tx.amount = payment[i].amount
    BY DEF Tx, Ref
  <1>2. /\ payment[i] # None /\ payment[i].status = "CREATED"
        /\ payment' = [payment EXCEPT ![i].status = "VERIFIED"]
        /\ ledger' = Posted(ledger, {tx})
        /\ UNCHANGED <<deposit, withdrawal, aged, req>>
    BY DEF Verify
  <1>3. PaymentsOf(i) = {}
    BY <1>2 DEF FinanceInv, Settled
  <1>4. ledger' = ledger \cup {tx}
    <2>1. ~ HasTx(ledger, tx.user, tx.key)
      BY <1>1, <1>3 DEF HasTx, PaymentsOf
    <2>2. QED
      BY <1>2, <2>1, PostOne
  <1>5. PaymentsOf(i)' = {tx} /\ \A j : j # i => PaymentsOf(j)' = PaymentsOf(j)
    BY <1>1, <1>3, <1>4 DEF PaymentsOf
  <1>6. \A j : CreditsOf(j)' = CreditsOf(j) /\ DebitsOf(j)' = DebitsOf(j)
    BY <1>1, <1>4 DEF CreditsOf, DebitsOf
  <1>7. /\ payment' \in [Payments -> PaymentRow \cup {None}]
        /\ \A j \in Payments : j # i => payment'[j] = payment[j]
        /\ payment'[i] # None /\ payment'[i].status = "VERIFIED"
        /\ payment'[i].user = payment[i].user /\ payment'[i].amount = payment[i].amount
    BY <1>2, PaymentUpdate DEF FinanceInv, PaymentStatus
  <1>8. \A j \in Payments :
           /\ payment'[j] = None \/ payment'[j].status = "CREATED" => PaymentsOf(j)' = {}
           /\ payment'[j] # None /\ payment'[j].status = "VERIFIED" =>
                 One(PaymentsOf(j)', payment'[j].user, payment'[j].amount)
    <2> TAKE j \in Payments
    <2>1. CASE j = i
      BY <2>1, <1>1, <1>5, <1>7 DEF One
    <2>2. CASE j # i
      BY <2>2, <1>5, <1>7 DEF FinanceInv, Settled
    <2>3. QED
      BY <2>1, <2>2
  <1>9. QED
    BY <1>2, <1>6, <1>7, <1>8, PaymentFrame

LEMMA StepFail ==
    ASSUME FinanceInv, NEW i \in Payments, Fail(i)
    PROVE  FinanceInv'
  <1>1. /\ payment[i] # None
        /\ payment' = [payment EXCEPT ![i].status = "FAILED"]
        /\ UNCHANGED <<deposit, withdrawal, aged, ledger, req>>
    BY DEF Fail
  <1>2. /\ payment' \in [Payments -> PaymentRow \cup {None}]
        /\ \A j \in Payments : j # i => payment'[j] = payment[j]
        /\ payment'[i] # None /\ payment'[i].status = "FAILED"
    BY <1>1, PaymentUpdate DEF FinanceInv, PaymentStatus
  <1>3. \A j \in Payments :
           /\ payment'[j] = None \/ payment'[j].status = "CREATED" => PaymentsOf(j)' = {}
           /\ payment'[j] # None /\ payment'[j].status = "VERIFIED" =>
                 One(PaymentsOf(j)', payment'[j].user, payment'[j].amount)
    BY <1>1, <1>2, SameLedger DEF FinanceInv, Settled
  <1>4. QED
    BY <1>1, <1>2, <1>3, SameLedger, PaymentFrame

-----------------------------------------------------------------------------
(* The invariant *)

LEMMA InitFinanceInv == Init => FinanceInv
  <1> SUFFICES ASSUME Init PROVE FinanceInv
    OBVIOUS
  <1>1. Tables /\ Sessions /\ Receipts
    BY DEF Init, Tables, Sessions, Receipts
  <1>2. \A i : CreditsOf(i) = {} /\ DebitsOf(i) = {} /\ PaymentsOf(i) = {}
    BY OpeningAssumption DEF Init, CreditsOf, DebitsOf, PaymentsOf
  <1>3. Settled /\ DepositBacked
    BY <1>2 DEF Init, Settled, DepositBacked, InStatus
  <1>4. QED
    BY <1>1, <1>3 DEF FinanceInv

\* The requests begin with what the rows hold.
LEMMA StepBegin ==
    ASSUME FinanceInv, NEW s \in Slots,
           \/ \E i \in Deposits, client \in Clients : BeginUpload(s, i, client)
           \/ \E i \in Deposits : BeginSubmit(s, i)
           \/ \E i \in Deposits, decision \in {"approve", "reject"}, route \in Routes :
                 \E key \in KeysOf(route) : BeginReview(s, i, decision, route, key)
           \/ \E u \in Users, a \in Amounts, d \in Details : BeginWithdraw(s, u, a, d)
    PROVE  FinanceInv'
  <1>1. ASSUME NEW i \in Deposits, deposit[i] # None
        PROVE  deposit[i].status \in DepositStatus /\ Received(i, deposit[i].status)
    BY <1>1 DEF FinanceInv, Tables, Receipts, DepositRow
  <1>2. CASE \E i \in Deposits, client \in Clients : BeginUpload(s, i, client)
    <2>1. PICK i \in Deposits, client \in Clients : BeginUpload(s, i, client)
      BY <1>2
    <2> PICK r : r = [op |-> "upload", id |-> i, loaded |-> deposit[i].status, file |-> TRUE]
      OBVIOUS
    <2>2. ReqOK(r)
      BY <1>1, <2>1 DEF BeginUpload, ReqOK
    <2>3. req' = [req EXCEPT ![s] = r]
          /\ UNCHANGED <<deposit, withdrawal, aged, payment, ledger>>
      BY <2>1 DEF BeginUpload
    <2>4. QED
      BY <2>2, <2>3, BeginFrame
  <1>3. CASE \E i \in Deposits, decision \in {"approve", "reject"}, route \in Routes :
                \E key \in KeysOf(route) : BeginReview(s, i, decision, route, key)
    <2>1. PICK i \in Deposits, decision \in {"approve", "reject"}, route \in Routes :
              \E key \in KeysOf(route) : BeginReview(s, i, decision, route, key)
      BY <1>3
    <2>2. PICK key \in KeysOf(route) : BeginReview(s, i, decision, route, key)
      BY <2>1
    <2> PICK r : r = [op |-> decision, id |-> i, route |-> route, key |-> key,
                      loaded |-> deposit[i].status,
                      known |-> {t \in ledger : t.key.kind = "DEPOSIT"}]
      OBVIOUS
    <2>3. ReqOK(r)
      BY <1>1, <2>2 DEF BeginReview, ReqOK
    <2>4. req' = [req EXCEPT ![s] = r]
          /\ UNCHANGED <<deposit, withdrawal, aged, payment, ledger>>
      BY <2>2 DEF BeginReview
    <2>5. QED
      BY <2>3, <2>4, BeginFrame
  <1>4. CASE \E u \in Users, a \in Amounts, d \in Details : BeginWithdraw(s, u, a, d)
    <2>1. PICK u \in Users, a \in Amounts, d \in Details : BeginWithdraw(s, u, a, d)
      BY <1>4
    <2> PICK reserved :
          reserved = MapThenSumSet(LAMBDA i : withdrawal[i].amount, Pending(u))
      OBVIOUS
    <2> PICK r : r = [op |-> "withdraw", user |-> u, amount |-> a, details |-> d,
                      reserved |-> reserved]
      OBVIOUS
    <2>2. ReqOK(r)
      BY DEF ReqOK
    <2>3. req' = [req EXCEPT ![s] = r]
          /\ UNCHANGED <<deposit, withdrawal, aged, payment, ledger>>
      BY <2>1 DEF BeginWithdraw
    <2>4. QED
      BY <2>2, <2>3, BeginFrame
  <1>5. CASE \E i \in Deposits : BeginSubmit(s, i)
    <2>1. PICK i \in Deposits : BeginSubmit(s, i)
      BY <1>5
    <2> PICK r : r = [op |-> "upload", id |-> i, loaded |-> deposit[i].status, file |-> FALSE]
      OBVIOUS
    <2>2. ReqOK(r)
      BY <1>1, <2>1 DEF BeginSubmit, ReqOK, Supported
    <2>3. req' = [req EXCEPT ![s] = r]
          /\ UNCHANGED <<deposit, withdrawal, aged, payment, ledger>>
      BY <2>1 DEF BeginSubmit
    <2>4. QED
      BY <2>2, <2>3, BeginFrame
  <1>6. QED
    BY <1>2, <1>3, <1>4, <1>5

\* Steps that touch neither a table of this module nor a transaction it posts.
LEMMA StepElsewhere ==
    ASSUME FinanceInv, UNCHANGED <<deposit, withdrawal, payment>>,
           \A i : /\ CreditsOf(i)' = CreditsOf(i)
                  /\ DebitsOf(i)' = DebitsOf(i)
                  /\ PaymentsOf(i)' = PaymentsOf(i),
           req' = [s \in Slots |-> req'[s]],
           \A s \in Slots : req'[s] \in {req[s], Idle}
    PROVE  FinanceInv'
  <1>1. Tables'
    BY DEF FinanceInv, Tables
  <1>2. Sessions' /\ Receipts' /\ DepositBacked'
    BY DepositFrame
  <1>3. Settled'
    BY SettledFrame DEF FinanceInv
  <1>4. QED
    BY <1>1, <1>2, <1>3 DEF FinanceInv

LEMMA StepPurchase ==
    ASSUME FinanceInv, NEW u \in Users, NEW a \in Purchases, Purchase(u, a)
    PROVE  FinanceInv'
  <1> PICK tx : tx = Tx(u, Ref("BUY", a), - a)
    OBVIOUS
  <1>1. tx.key.kind = "BUY"
    BY DEF Tx, Ref
  <1>2. /\ ledger' = Posted(ledger, {tx})
        /\ UNCHANGED <<deposit, withdrawal, aged, payment, req>>
    BY DEF Purchase
  <1>3. \A i : /\ CreditsOf(i)' = CreditsOf(i)
               /\ DebitsOf(i)' = DebitsOf(i)
               /\ PaymentsOf(i)' = PaymentsOf(i)
    BY <1>1, <1>2, OtherKind
  <1>4. QED
    BY <1>2, <1>3, SameReq, StepElsewhere

LEMMA NextFinanceInv == FinanceInv /\ [Next]_vars => FinanceInv'
  <1> SUFFICES ASSUME FinanceInv, [Next]_vars PROVE FinanceInv'
    OBVIOUS
  <1>1. CASE \E i \in Deposits, u \in Users, a \in Amounts, client \in Clients :
                CreateDeposit(i, u, a, client)
    BY <1>1, StepCreateDeposit
  <1>2. ASSUME NEW s \in Slots, DepositNext(s)
        PROVE  FinanceInv'
    BY <1>2, StepBegin, StepUpload, StepApprove, StepReject DEF DepositNext
  <1>3. ASSUME NEW s \in Slots, WithdrawNext(s)
        PROVE  FinanceInv'
    BY <1>3, StepBegin, StepCreateWithdraw DEF WithdrawNext
  <1>4. ASSUME NEW s \in Slots, Drop(s)
        PROVE  FinanceInv'
    <2>1. Done(s) /\ UNCHANGED <<deposit, withdrawal, aged, payment, ledger>>
      BY <1>4 DEF Drop
    <2>2. QED
      BY <2>1, DoneReq, SameLedger, StepElsewhere DEF FinanceInv
  <1>5. ASSUME NEW i \in Withdrawals,
               \/ Age(i)
               \/ \E key \in {"bot"} \cup Nonces : ApproveWithdraw(i, key)
               \/ MarkPaid(i)
               \/ RejectWithdraw(i)
        PROVE  FinanceInv'
    <2>1. CASE Age(i)
      <3>1. UNCHANGED <<deposit, withdrawal, payment, ledger, req>>
        BY <2>1 DEF Age
      <3>2. QED
        BY <3>1, SameReq, SameLedger, StepElsewhere
    <2>2. QED
      BY <1>5, <2>1, StepApproveWithdraw, StepDecide
  <1>6. ASSUME NEW i \in Payments,
               \/ \E u \in Users, a \in Amounts : Initiate(i, u, a)
               \/ Verify(i)
               \/ Fail(i)
        PROVE  FinanceInv'
    BY <1>6, StepInitiate, StepVerify, StepFail
  <1>7. CASE \E u \in Users, a \in Purchases : Purchase(u, a)
    BY <1>7, StepPurchase
  <1>8. CASE UNCHANGED vars
    <2>1. UNCHANGED <<deposit, withdrawal, payment, ledger, req>>
      BY <1>8 DEF vars
    <2>2. QED
      BY <2>1, SameReq, SameLedger, StepElsewhere
  <1>9. QED
    BY <1>1, <1>2, <1>3, <1>4, <1>5, <1>6, <1>7, <1>8 DEF Next

LEMMA AlwaysFinanceInv == Spec => []FinanceInv
  <1>1. QED
    BY InitFinanceInv, NextFinanceInv, PTL DEF Spec

\* A withdrawal is debited exactly once and in full when it is approved or paid
\* out, and not at all otherwise; a verified gateway payment is credited exactly
\* once (approve_withdraw, verify_gateway_payment).
THEOREM WithdrawnOnce == Spec => []Settled
  <1>1. FinanceInv => Settled
    BY DEF FinanceInv
  <1>2. QED
    BY <1>1, AlwaysFinanceInv, PTL

\* An approved deposit has been credited, and none is unless its receipt has arrived or
\* the Mini App has put it up for review without one (upload_receipt, approve_deposit and
\* the routes that preload the row).
THEOREM NoCreditWithoutReceipt == Spec => []DepositBacked
  <1>1. FinanceInv => DepositBacked
    BY DEF FinanceInv
  <1>2. QED
    BY <1>1, AlwaysFinanceInv, PTL

-----------------------------------------------------------------------------
(* Decisions *)

\* A step moves withdrawals along PENDING, APPROVED, PAID or to REJECTED only.
LEMMA WithdrawalStep ==
    ASSUME FinanceInv, Next, NEW i \in Withdrawals
    PROVE  /\ InStatus(i, "REJECTED") => InStatus(i, "REJECTED")'
           /\ InStatus(i, "PAID") => InStatus(i, "PAID")'
           /\ InStatus(i, "APPROVED") => (InStatus(i, "APPROVED") \/ InStatus(i, "PAID"))'
  <1>1. CASE UNCHANGED withdrawal
    BY <1>1 DEF InStatus
  <1>2. ASSUME NEW s \in Slots, NEW j \in Withdrawals, CreateWithdraw(s, j)
        PROVE  i # j => withdrawal'[i] = withdrawal[i]
    BY <1>2 DEF CreateWithdraw, FinanceInv, Tables
  <1>3. ASSUME NEW s \in Slots, NEW j \in Withdrawals, CreateWithdraw(s, j)
        PROVE  withdrawal[j] = None
    BY <1>3 DEF CreateWithdraw
  <1>4. ASSUME NEW j \in Withdrawals, NEW status \in {"APPROVED", "PAID", "REJECTED"},
               Decide(j, status),
               status = "PAID" => InStatus(j, "APPROVED"),
               status # "PAID" => InStatus(j, "PENDING")
        PROVE  /\ i # j => withdrawal'[i] = withdrawal[i]
               /\ InStatus(j, status)'
    BY <1>4, WithdrawUpdate DEF InStatus, FinanceInv, WithdrawStatus
  <1>5. CASE \E s \in Slots, j \in Withdrawals : CreateWithdraw(s, j)
    BY <1>2, <1>3, <1>5 DEF InStatus
  <1>6. CASE \E j \in Withdrawals, status \in {"APPROVED", "PAID", "REJECTED"} :
                /\ Decide(j, status)
                /\ status = "PAID" => InStatus(j, "APPROVED")
                /\ status # "PAID" => InStatus(j, "PENDING")
    <2>1. PICK j \in Withdrawals, status \in {"APPROVED", "PAID", "REJECTED"} :
                /\ Decide(j, status)
                /\ status = "PAID" => InStatus(j, "APPROVED")
                /\ status # "PAID" => InStatus(j, "PENDING")
      BY <1>6
    <2>2. (i # j => withdrawal'[i] = withdrawal[i]) /\ InStatus(j, status)'
      BY <1>4, <2>1
    <2>3. CASE i # j
      BY <2>2, <2>3 DEF InStatus
    <2>4. CASE i = j
      BY <2>1, <2>2, <2>4 DEF InStatus
    <2>5. QED
      BY <2>3, <2>4
  <1>7. \/ UNCHANGED withdrawal
        \/ \E s \in Slots, j \in Withdrawals : CreateWithdraw(s, j)
        \/ \E j \in Withdrawals :
              \/ \E key \in {"bot"} \cup Nonces : ApproveWithdraw(j, key)
              \/ MarkPaid(j)
              \/ RejectWithdraw(j)
    <2>1. CASE \E s \in Slots : DepositNext(s) \/ WithdrawNext(s) \/ Drop(s)
      BY ZenonT(30), <2>1 DEF DepositNext, WithdrawNext, BeginUpload, BeginSubmit, Upload, BeginReview, Approve,
                  Reject, BeginWithdraw, Drop
    <2>2. QED
      BY <2>1 DEF Next, CreateDeposit, Age, Initiate, Verify, Fail, Purchase
  <1>8. ASSUME NEW j \in Withdrawals,
               \/ \E key \in {"bot"} \cup Nonces : ApproveWithdraw(j, key)
               \/ MarkPaid(j)
               \/ RejectWithdraw(j)
        PROVE  \E status \in {"APPROVED", "PAID", "REJECTED"} :
                  /\ Decide(j, status)
                  /\ status = "PAID" => InStatus(j, "APPROVED")
                  /\ status # "PAID" => InStatus(j, "PENDING")
    BY <1>8 DEF ApproveWithdraw, MarkPaid, RejectWithdraw
  <1>9. QED
    BY <1>1, <1>5, <1>6, <1>7, <1>8

\* A payment that failed stays failed, and no step credits it.
LEMMA PaymentStep ==
    ASSUME FinanceInv, Next, NEW i \in Payments,
           payment[i] # None, payment[i].status = "FAILED"
    PROVE  payment'[i].status = "FAILED" /\ PaymentsOf(i)' = PaymentsOf(i)
  <1>1. CASE /\ UNCHANGED payment
             /\ \/ UNCHANGED ledger
                \/ \E t : t.key.kind # "GATEWAY" /\ ledger' = Posted(ledger, {t})
    <2>1. PaymentsOf(i)' = PaymentsOf(i)
      BY <1>1, SameLedger, OtherKind
    <2>2. QED
      BY <1>1, <2>1
  <1>2. ASSUME NEW j \in Payments, NEW u \in Users, NEW a \in Amounts, Initiate(j, u, a)
        PROVE  payment'[i].status = "FAILED" /\ UNCHANGED ledger
    <2>1. j # i
      BY <1>2 DEF Initiate
    <2>2. payment'[i] = payment[i]
      BY <1>2, <2>1 DEF Initiate, FinanceInv, Tables
    <2>3. QED
      BY <1>2, <2>2 DEF Initiate
  <1>3. ASSUME NEW j \in Payments, Verify(j)
        PROVE  payment'[i].status = "FAILED" /\ PaymentsOf(i)' = PaymentsOf(i)
    <2>1. j # i
      BY <1>3 DEF Verify
    <2>2. payment'[i] = payment[i]
      BY <1>3, <2>1 DEF Verify, FinanceInv, Tables
    <2> PICK tx : tx = Tx(payment[j].user, Ref("GATEWAY", j), payment[j].amount)
      OBVIOUS
    <2>3. ledger' = Posted(ledger, {tx})
      BY <1>3 DEF Verify
    <2>4. ledger \subseteq ledger' /\ ledger' \subseteq ledger \cup {tx}
      BY <2>3, PostedWithin, Zenon
    <2>5. tx.key.ref = j
      BY DEF Tx, Ref
    <2>6. QED
      BY <2>1, <2>2, <2>4, <2>5 DEF PaymentsOf
  <1>4. ASSUME NEW j \in Payments, Fail(j)
        PROVE  payment'[i].status = "FAILED" /\ UNCHANGED ledger
    <2>1. payment[j] # None /\ payment' = [payment EXCEPT ![j].status = "FAILED"]
      BY <1>4 DEF Fail
    <2>2. /\ \A k \in Payments : k # j => payment'[k] = payment[k]
          /\ payment'[j].status = "FAILED"
      BY <2>1, PaymentUpdate DEF FinanceInv, PaymentStatus
    <2>3. QED
      BY <1>4, <2>2 DEF Fail
  <1>5. ASSUME NEW s \in Slots, DepositNext(s) \/ WithdrawNext(s) \/ Drop(s)
        PROVE  /\ UNCHANGED payment
               /\ \/ UNCHANGED ledger
                  \/ \E t : t.key.kind # "GATEWAY" /\ ledger' = Posted(ledger, {t})
    <2>1. CASE Approve(s)
      <3> PICK tx : tx = Tx(deposit[req[s].id].user, Ref("DEPOSIT", <<req[s].id, req[s].key>>),
                            deposit[req[s].id].amount)
        OBVIOUS
      <3>1. tx.key.kind = "DEPOSIT"
        BY DEF Tx, Ref
      <3>2. UNCHANGED payment /\ ledger' = Posted(ledger, {tx})
        BY <2>1 DEF Approve
      <3>3. QED
        BY <3>1, <3>2
    <2>2. CASE ~ Approve(s)
      BY <1>5, <2>2 DEF DepositNext, WithdrawNext, BeginUpload, BeginSubmit, Upload, BeginReview, Reject,
                        BeginWithdraw, CreateWithdraw, Drop
    <2>3. QED
      BY <2>1, <2>2
  <1>6. ASSUME NEW j \in Withdrawals,
               \/ Age(j)
               \/ \E key \in {"bot"} \cup Nonces : ApproveWithdraw(j, key)
               \/ MarkPaid(j)
               \/ RejectWithdraw(j)
        PROVE  /\ UNCHANGED payment
               /\ \/ UNCHANGED ledger
                  \/ \E t : t.key.kind # "GATEWAY" /\ ledger' = Posted(ledger, {t})
    <2>1. ASSUME NEW key, ApproveWithdraw(j, key)
          PROVE  /\ UNCHANGED payment
                 /\ Debit(j, key).key.kind # "GATEWAY"
                 /\ ledger' = Posted(ledger, {Debit(j, key)})
      BY <2>1 DEF ApproveWithdraw, Decide, Debit, Tx, Ref
    <2>2. CASE Age(j) \/ MarkPaid(j) \/ RejectWithdraw(j)
      BY <2>2 DEF Age, MarkPaid, RejectWithdraw, Decide
    <2>3. QED
      BY <1>6, <2>1, <2>2
  <1>7. ASSUME NEW u \in Users, NEW a \in Purchases, Purchase(u, a)
        PROVE  /\ UNCHANGED payment
               /\ \E t : t.key.kind # "GATEWAY" /\ ledger' = Posted(ledger, {t})
    <2> PICK tx : tx = Tx(u, Ref("BUY", a), - a)
      OBVIOUS
    <2>1. tx.key.kind # "GATEWAY"
      BY DEF Tx, Ref
    <2>2. UNCHANGED payment /\ ledger' = Posted(ledger, {tx})
      BY <1>7 DEF Purchase
    <2>3. QED
      BY <2>1, <2>2
  <1>8. CASE \E j \in Deposits, u \in Users, a \in Amounts, client \in Clients :
                CreateDeposit(j, u, a, client)
    BY <1>1, <1>8 DEF CreateDeposit
  <1>9. QED
    BY <1>1, <1>2, <1>3, <1>4, <1>5, <1>6, <1>7, <1>8, SameLedger DEF Next

\* No decision on a withdrawal or on a failed payment is taken back, whatever
\* notices and reviews arrive late or twice.
THEOREM DecisionsStand == Spec => DecisionsFinal
  <1> DEFINE Kept ==
        /\ \A i \in Withdrawals :
             /\ InStatus(i, "REJECTED") => InStatus(i, "REJECTED")'
             /\ InStatus(i, "PAID") => InStatus(i, "PAID")'
             /\ InStatus(i, "APPROVED") => (InStatus(i, "APPROVED") \/ InStatus(i, "PAID"))'
        /\ \A i \in Payments :
             payment[i] # None /\ payment[i].status = "FAILED" =>
                /\ payment'[i].status = "FAILED"
                /\ PaymentsOf(i)' = PaymentsOf(i)
  <1>1. FinanceInv /\ Next => Kept
    BY WithdrawalStep, PaymentStep
  <1>2. FinanceInv /\ [Next]_vars => [Kept]_vars
    BY <1>1
  <1>3. QED
    BY <1>2, AlwaysFinanceInv, PTL DEF Spec, DecisionsFinal

-----------------------------------------------------------------------------
(* Deposits are credited once when only the bot approves *)

\* Every credit of a deposit carries its owner and the key of the bot.
BotCredits ==
    /\ \A t \in ledger : t.key.kind = "DEPOSIT" =>
          \E i \in Deposits : /\ deposit[i] # None
                              /\ t.user = deposit[i].user
                              /\ t.key = Ref("DEPOSIT", <<i, "bot">>)
    /\ DepositCreditedOnce

LEMMA BotInit == Init => BotCredits
  BY OpeningAssumption DEF Init, BotCredits, DepositCreditedOnce, CreditsOf

\* Steps that keep the owners of the deposits and credit none.
LEMMA BotFrame ==
    ASSUME BotCredits, \A i : CreditsOf(i)' = CreditsOf(i),
           {t \in ledger' : t.key.kind = "DEPOSIT"} = {t \in ledger : t.key.kind = "DEPOSIT"},
           \A i \in Deposits : deposit[i] # None =>
               deposit'[i] # None /\ deposit'[i].user = deposit[i].user
    PROVE  BotCredits'
  <1>1. DepositCreditedOnce'
    BY DEF BotCredits, DepositCreditedOnce
  <1>2. \A t \in ledger' : t.key.kind = "DEPOSIT" =>
          \E i \in Deposits : /\ deposit'[i] # None
                              /\ t.user = deposit'[i].user
                              /\ t.key = Ref("DEPOSIT", <<i, "bot">>)
    <2> TAKE t \in ledger'
    <2> HAVE t.key.kind = "DEPOSIT"
    <2>1. t \in ledger
      OBVIOUS
    <2>2. PICK i \in Deposits : /\ deposit[i] # None
                                /\ t.user = deposit[i].user
                                /\ t.key = Ref("DEPOSIT", <<i, "bot">>)
      BY <2>1 DEF BotCredits
    <2>3. QED
      BY <2>2
  <1>3. QED
    BY <1>1, <1>2 DEF BotCredits

\* A deposit keeps its owner.
LEMMA OwnersStay ==
    ASSUME FinanceInv, Next, NEW i \in Deposits, deposit[i] # None
    PROVE  deposit'[i] # None /\ deposit'[i].user = deposit[i].user
  <1>1. ASSUME NEW j \in Deposits, NEW row, row \in DepositRow,
               row.user = deposit[j].user, deposit' = [deposit EXCEPT ![j] = row]
        PROVE  deposit'[i] # None /\ deposit'[i].user = deposit[i].user
    BY <1>1, NoneAssumption DEF FinanceInv, Tables
  <1>2. ASSUME NEW s \in Slots, Upload(s) \/ Approve(s) \/ Reject(s)
        PROVE  deposit'[i] # None /\ deposit'[i].user = deposit[i].user
    <2>1. FinanceInv'
      BY <1>2, StepUpload, StepApprove, StepReject
    <2>2. PICK j : j = req[s].id
      OBVIOUS
    <2>3. j \in Deposits /\ deposit[j] # None
      BY <1>2, <2>2 DEF FinanceInv, Sessions, ReqOK, Upload, Approve, Reject
    <2>4. deposit[j] \in DepositRow
      BY <2>3 DEF FinanceInv, Tables
    <2>5. CASE j # i
      BY <1>2, <2>2, <2>3, <2>5 DEF Upload, Approve, Reject, FinanceInv, Tables
    <2>6. CASE j = i
      <3>1. PICK row : /\ row.user = deposit[j].user
                       /\ row \in DepositRow
                       /\ deposit' = [deposit EXCEPT ![j] = row]
        <4>1. CASE Upload(s)
          <5> PICK status : status = Flushed(j, req[s].loaded, "PENDING_REVIEW")
            OBVIOUS
          <5>1. status \in DepositStatus
            BY <2>4 DEF Flushed, DepositRow, DepositStatus
          <5>2. deposit' = [deposit EXCEPT ![j] =
                              [deposit[j] EXCEPT !.status = status,
                                                 !.receipt = deposit[j].receipt \/ req[s].file]]
            BY <2>2, <2>3, <4>1 DEF Upload, FinanceInv, Tables
          <5>3. (deposit[j].receipt \/ req[s].file) \in BOOLEAN
            BY <2>4, <1>2, <2>2, <4>1 DEF Upload, FinanceInv, Sessions, ReqOK, DepositRow
          <5>4. QED
            BY <2>4, <5>1, <5>2, <5>3 DEF DepositRow
        <4>2. CASE Approve(s) \/ Reject(s)
          <5>1. PICK status \in {"APPROVED", "REJECTED"} :
                    deposit' = [deposit EXCEPT ![j] = [deposit[j] EXCEPT !.status = status]]
            BY <2>2, <2>3, <4>2 DEF Approve, Reject, FinanceInv, Tables
          <5>2. QED
            BY <2>4, <5>1 DEF DepositRow, DepositStatus
        <4>3. QED
          BY <1>2, <4>1, <4>2
      <3>2. QED
        BY <1>1, <2>3, <3>1
    <2>7. QED
      BY <2>5, <2>6
  <1>3. ASSUME NEW j \in Deposits, NEW u \in Users, NEW a \in Amounts, NEW client \in Clients,
               CreateDeposit(j, u, a, client)
        PROVE  deposit'[i] # None /\ deposit'[i].user = deposit[i].user
    <2>1. j # i
      BY <1>3 DEF CreateDeposit
    <2>2. deposit'[i] = deposit[i]
      BY <1>3, <2>1 DEF CreateDeposit, FinanceInv, Tables
    <2>3. QED
      BY <2>2
  <1>4. ASSUME NEW s \in Slots, DepositNext(s) \/ WithdrawNext(s) \/ Drop(s)
        PROVE  deposit'[i] # None /\ deposit'[i].user = deposit[i].user
    <2>1. CASE ~ (Upload(s) \/ Approve(s) \/ Reject(s))
      BY <1>4, <2>1 DEF DepositNext, WithdrawNext, BeginUpload, BeginSubmit, BeginReview, BeginWithdraw,
                        CreateWithdraw, Drop
    <2>2. QED
      BY <1>2, <2>1
  <1>5. QED
    BY <1>3, <1>4 DEF Next, Age, ApproveWithdraw, MarkPaid, RejectWithdraw, Decide,
                      Initiate, Verify, Fail, Purchase

\* Approve posts under the key of the bot, so it finds the credit there may be.
LEMMA BotApprove ==
    ASSUME FinanceInv, BotCredits, Routes \subseteq {"bot"},
           NEW s \in Slots, Approve(s), Next
    PROVE  BotCredits'
  <1>0. \A t : ~ HasTx(ledger, t.user, t.key) => Posted(ledger, {t}) = ledger \cup {t}
    BY PostOne
  <1> PICK i : i = req[s].id
    OBVIOUS
  <1> PICK tx : tx = Tx(deposit[i].user, Ref("DEPOSIT", <<i, req[s].key>>), deposit[i].amount)
    OBVIOUS
  <1>1. i \in Deposits /\ deposit[i] # None /\ req[s].key = "bot"
    BY DEF FinanceInv, Sessions, ReqOK, Approve, KeysOf
  <1>2. /\ tx.user = deposit[i].user /\ tx.key = Ref("DEPOSIT", <<i, "bot">>)
        /\ tx.key.kind = "DEPOSIT" /\ tx.key.ref[1] = i
    BY <1>1 DEF Tx, Ref
  <1>3. ledger' = Posted(ledger, {tx})
    BY DEF Approve
  <1>4. \A j \in Deposits : deposit[j] # None =>
           deposit'[j] # None /\ deposit'[j].user = deposit[j].user
    BY OwnersStay
  <1>5. \A t \in ledger : t.key.kind = "DEPOSIT" =>
           \E j \in Deposits : /\ deposit'[j] # None
                               /\ t.user = deposit'[j].user
                               /\ t.key = Ref("DEPOSIT", <<j, "bot">>)
    <2> TAKE t \in ledger
    <2> HAVE t.key.kind = "DEPOSIT"
    <2>1. PICK j \in Deposits : /\ deposit[j] # None
                                /\ t.user = deposit[j].user
                                /\ t.key = Ref("DEPOSIT", <<j, "bot">>)
      BY DEF BotCredits
    <2>2. QED
      BY <1>4, <2>1
  <1>6. CASE HasTx(ledger, tx.user, tx.key)
    <2>1. NewTxs(ledger, {tx}) = {}
      BY <1>6 DEF NewTxs
    <2>2. UNCHANGED ledger
      BY <1>3, <2>1 DEF Posted
    <2>3. DepositCreditedOnce'
      BY <2>2, SameLedger DEF BotCredits, DepositCreditedOnce
    <2>4. QED
      BY <1>5, <2>2, <2>3 DEF BotCredits
  <1>7. CASE ~ HasTx(ledger, tx.user, tx.key)
    <2>1. ledger' = ledger \cup {tx}
      BY <1>0, <1>3, <1>7
    <2>2. CreditsOf(i) = {}
      <3> SUFFICES ASSUME NEW t \in CreditsOf(i) PROVE FALSE
        OBVIOUS
      <3>1. t \in ledger /\ t.key.kind = "DEPOSIT" /\ t.key.ref[1] = i
        BY DEF CreditsOf
      <3>2. PICK j \in Deposits : /\ t.user = deposit[j].user
                                  /\ t.key = Ref("DEPOSIT", <<j, "bot">>)
        BY <3>1 DEF BotCredits
      <3>3. j = i
        BY <3>1, <3>2 DEF Ref
      <3>4. QED
        BY <1>2, <1>7, <3>1, <3>2, <3>3 DEF HasTx
    <2>3. CreditsOf(i)' = {tx} /\ \A j : j # i => CreditsOf(j)' = CreditsOf(j)
      BY ZenonT(30), <1>2, <2>1, <2>2 DEF CreditsOf
    <2>4. DepositCreditedOnce'
      BY <2>3 DEF BotCredits, DepositCreditedOnce
    <2>5. \E j \in Deposits : /\ deposit'[j] # None
                              /\ tx.user = deposit'[j].user
                              /\ tx.key = Ref("DEPOSIT", <<j, "bot">>)
      BY <1>1, <1>2, <1>4
    <2>6. QED
      BY <1>5, <2>1, <2>4, <2>5 DEF BotCredits
  <1>8. QED
    BY <1>6, <1>7

LEMMA BotNext ==
    ASSUME FinanceInv, BotCredits, Routes \subseteq {"bot"}, [Next]_vars
    PROVE  BotCredits'
  <1> DEFINE Alike == {t \in ledger' : t.key.kind = "DEPOSIT"}
                       = {t \in ledger : t.key.kind = "DEPOSIT"}
  <1>1. ASSUME Next, Alike PROVE BotCredits'
    <2>1. \A i : CreditsOf(i)' = CreditsOf(i)
      BY <1>1 DEF CreditsOf
    <2>2. QED
      BY <1>1, <2>1, OwnersStay, BotFrame
  <1>2. ASSUME UNCHANGED ledger PROVE Alike
    BY <1>2
  <1>3. ASSUME NEW t, t.key.kind # "DEPOSIT", ledger' = Posted(ledger, {t}) PROVE Alike
    <2>1. ledger \subseteq ledger' /\ ledger' \subseteq ledger \cup {t}
      BY <1>3, PostedWithin, Zenon
    <2>2. QED
      BY <1>3, <2>1
  <1>4. CASE UNCHANGED vars
    BY <1>4, SameLedger, BotFrame DEF vars
  <1>5. ASSUME NEW s \in Slots, DepositNext(s) \/ WithdrawNext(s) \/ Drop(s), ~ Approve(s)
        PROVE  UNCHANGED ledger
    BY <1>5 DEF DepositNext, WithdrawNext, BeginUpload, BeginSubmit, Upload, BeginReview, Reject,
                BeginWithdraw, CreateWithdraw, Drop
  <1>6. ASSUME NEW i \in Withdrawals, NEW key, ApproveWithdraw(i, key) PROVE Alike
    <2>1. Debit(i, key).key.kind # "DEPOSIT" /\ ledger' = Posted(ledger, {Debit(i, key)})
      BY <1>6 DEF ApproveWithdraw, Debit, Tx, Ref
    <2>2. QED
      BY <1>3, <2>1
  <1>7. ASSUME NEW i \in Payments, Verify(i) PROVE Alike
    <2> PICK tx : tx = Tx(payment[i].user, Ref("GATEWAY", i), payment[i].amount)
      OBVIOUS
    <2>1. tx.key.kind # "DEPOSIT" /\ ledger' = Posted(ledger, {tx})
      BY <1>7 DEF Verify, Tx, Ref
    <2>2. QED
      BY <1>3, <2>1
  <1>8. ASSUME NEW u \in Users, NEW a \in Purchases, Purchase(u, a) PROVE Alike
    <2> PICK tx : tx = Tx(u, Ref("BUY", a), - a)
      OBVIOUS
    <2>1. tx.key.kind # "DEPOSIT" /\ ledger' = Posted(ledger, {tx})
      BY <1>8 DEF Purchase, Tx, Ref
    <2>2. QED
      BY <1>3, <2>1
  <1>9. CASE Next
    <2>1. CASE \E i \in Deposits, u \in Users, a \in Amounts, client \in Clients :
                CreateDeposit(i, u, a, client)
      BY <1>1, <1>2, <1>9, <2>1 DEF CreateDeposit
    <2>2. CASE \E s \in Slots : DepositNext(s) \/ WithdrawNext(s) \/ Drop(s)
      BY <1>1, <1>2, <1>5, <1>9, <2>2, BotApprove
    <2>3. CASE \E i \in Withdrawals :
                  \/ Age(i)
                  \/ \E key \in {"bot"} \cup Nonces : ApproveWithdraw(i, key)
                  \/ MarkPaid(i)
                  \/ RejectWithdraw(i)
      BY <1>1, <1>2, <1>6, <1>9, <2>3 DEF Age, MarkPaid, RejectWithdraw
    <2>4. CASE \E i \in Payments :
                  \/ \E u \in Users, a \in Amounts : Initiate(i, u, a)
                  \/ Verify(i)
                  \/ Fail(i)
      BY <1>1, <1>2, <1>7, <1>9, <2>4 DEF Initiate, Fail
    <2>5. CASE \E u \in Users, a \in Purchases : Purchase(u, a)
      BY <1>1, <1>8, <1>9, <2>5
    <2>6. QED
      BY <1>9, <2>1, <2>2, <2>3, <2>4, <2>5 DEF Next
  <1>10. QED
    BY <1>4, <1>9

\* When deposits are approved through the bot only, no race between approvals,
\* rejections and uploads credits one twice: the key the bot derives from the
\* deposit (admin_finance.py:1356) makes up for the stale row.
THEOREM BotCreditsOnce == Routes \subseteq {"bot"} => (Spec => []DepositCreditedOnce)
  <1> SUFFICES ASSUME Routes \subseteq {"bot"} PROVE Spec => []DepositCreditedOnce
    OBVIOUS
  <1>1. FinanceInv /\ BotCredits /\ [Next]_vars => BotCredits'
    BY BotNext
  <1>2. BotCredits => DepositCreditedOnce
    BY DEF BotCredits
  <1>3. QED
    BY <1>1, <1>2, BotInit, AlwaysFinanceInv, PTL DEF Spec
-----------------------------------------------------------------------------
(* Types and the promise of the ledger                                     *)
(*                                                                         *)
(* Beside the rows, whose types FinanceInv holds: the requests have the    *)
(* fields their operation uses, and what is summed is finite.              *)

Opened == {i \in Withdrawals : withdrawal[i] # None}

Typed ==
    /\ req \in [Slots -> Request \cup {Idle}]
    /\ aged \subseteq Withdrawals
    /\ IsFiniteSet(Opened)
    /\ ledger \subseteq TxRecord
    /\ IsFiniteSet(ledger)

LEMMA AmountsNat == Amounts \subseteq Nat /\ Purchases \subseteq Nat
  BY FinanceAssumption

LEMMA PendingAmounts ==
    ASSUME FinanceInv, NEW u, NEW i \in Pending(u) PROVE withdrawal[i].amount \in Int
  <1>1. i \in Withdrawals /\ withdrawal[i] # None
    BY DEF Pending
  <1>2. withdrawal[i] \in WithdrawRow
    BY <1>1 DEF FinanceInv, Tables
  <1>3. withdrawal[i].amount \in Amounts
    BY <1>2 DEF WithdrawRow
  <1>4. withdrawal[i].amount \in Nat
    BY <1>3, AmountsNat
  <1>5. QED
    BY <1>4

\* The amount a new withdrawal finds reserved.
LEMMA ReservedInt ==
    ASSUME FinanceInv, Typed, NEW u
    PROVE  MapThenSumSet(LAMBDA i : withdrawal[i].amount, Pending(u)) \in Int
  <1> DEFINE S == Pending(u)
             val == [i \in S |-> withdrawal[i].amount]
             it == CHOOSE g : g = [s \in SUBSET S |->
                      IF s = {} THEN 0 ELSE withdrawal[First(s)].amount + g[Rest(s)]]
  <1>1. IsFiniteSet(S)
    BY FS_Subset DEF Pending, Opened, Typed
  <1>2. \A i \in S : val[i] \in Int
    BY PendingAmounts
  <1>3. PICK g : IsSum(g, val, S)
    BY <1>1, AddsExists
  <1>4. \A s \in SUBSET S : s # {} => val[First(s)] = withdrawal[First(s)].amount
    BY FirstIsIn
  <1>5. g = [s \in SUBSET S |-> IF s = {} THEN 0 ELSE withdrawal[First(s)].amount + g[Rest(s)]]
    <2> HIDE DEF S, val
    <2>1. QED
      BY <1>3, <1>4 DEF IsSum
  <1>6. it = [s \in SUBSET S |-> IF s = {} THEN 0 ELSE withdrawal[First(s)].amount + it[Rest(s)]]
    <2> HIDE DEF S
    <2>1. QED
      BY <1>5
  <1>7. MapThenSumSet(LAMBDA i : withdrawal[i].amount, Pending(u)) = it[S]
    BY DEF MapThenSumSet, MapThenFoldSet, First, Rest
  <1> HIDE DEF S, val
  <1>8. Adds(it, val, S)
    <2> HIDE DEF it
    <2>1. QED
      BY <1>4, <1>6 DEF Adds
  <1>9. it[S] \in Int
    <2> HIDE DEF it
    <2>1. QED
      BY <1>1, <1>2, <1>8, AddsAny
  <1>10. QED
    BY <1>7, <1>9

\* A step that moves money posts one transaction, a credit or a debit that the
\* balance covers.
LEMMA StepPosts ==
    ASSUME FinanceInv, Typed, Next, ledger' # ledger
    PROVE  \E t \in TxRecord : /\ ledger' = Posted(ledger, {t})
                               /\ Affordable(ledger, {t}) \/ t.amount >= 0
  <1>1. ASSUME NEW s \in Slots, Approve(s)
        PROVE  \E t \in TxRecord : ledger' = Posted(ledger, {t}) /\ t.amount >= 0
    <2> DEFINE i == req[s].id
               t == Tx(deposit[i].user, Ref("DEPOSIT", <<i, req[s].key>>), deposit[i].amount)
    <2>1. i \in Deposits /\ deposit[i] \in DepositRow /\ req[s].key \in ReviewKeys
      BY <1>1 DEF Approve, FinanceInv, Sessions, ReqOK, Tables, KeysOf, ReviewKeys
    <2>2. t \in TxRecord /\ t.amount >= 0
      <3>1. deposit[i].user \in Users /\ deposit[i].amount \in Nat
        BY <2>1, AmountsNat DEF DepositRow
      <3>2. Ref("DEPOSIT", <<i, req[s].key>>) \in TxKey
        BY <2>1 DEF Ref, TxKey
      <3>3. QED
        BY <3>1, <3>2 DEF Tx, TxRecord
    <2>3. ledger' = Posted(ledger, {t})
      BY <1>1 DEF Approve
    <2> HIDE DEF t
    <2>4. QED
      BY <2>2, <2>3
  <1>2. ASSUME NEW i \in Withdrawals, NEW key \in ReviewKeys, ApproveWithdraw(i, key)
        PROVE  \E t \in TxRecord : ledger' = Posted(ledger, {t}) /\ Affordable(ledger, {t})
    <2> DEFINE t == Debit(i, key)
    <2>1. withdrawal[i] \in WithdrawRow
      BY <1>2 DEF ApproveWithdraw, InStatus, FinanceInv, Tables
    <2>2. t \in TxRecord
      <3>1. withdrawal[i].user \in Users /\ withdrawal[i].amount \in Nat
        BY <2>1, AmountsNat DEF WithdrawRow
      <3>2. Ref("WITHDRAW", <<i, key>>) \in TxKey
        BY DEF Ref, TxKey
      <3>3. QED
        BY <3>1, <3>2 DEF Debit, Tx, TxRecord
    <2>3. ledger' = Posted(ledger, {t}) /\ Affordable(ledger, {t})
      BY <1>2 DEF ApproveWithdraw
    <2> HIDE DEF t
    <2>4. QED
      BY <2>2, <2>3
  <1>3. ASSUME NEW i \in Payments, Verify(i)
        PROVE  \E t \in TxRecord : ledger' = Posted(ledger, {t}) /\ t.amount >= 0
    <2> DEFINE t == Tx(payment[i].user, Ref("GATEWAY", i), payment[i].amount)
    <2>1. payment[i] \in PaymentRow
      BY <1>3 DEF Verify, FinanceInv, Tables
    <2>2. t \in TxRecord /\ t.amount >= 0
      <3>1. payment[i].user \in Users /\ payment[i].amount \in Nat
        BY <2>1, AmountsNat DEF PaymentRow
      <3>2. Ref("GATEWAY", i) \in TxKey
        BY DEF Ref, TxKey
      <3>3. QED
        BY <3>1, <3>2 DEF Tx, TxRecord
    <2>3. ledger' = Posted(ledger, {t})
      BY <1>3 DEF Verify
    <2> HIDE DEF t
    <2>4. QED
      BY <2>2, <2>3
  <1>4. ASSUME NEW u \in Users, NEW a \in Purchases, Purchase(u, a)
        PROVE  \E t \in TxRecord : ledger' = Posted(ledger, {t}) /\ Affordable(ledger, {t})
    <2> DEFINE t == Tx(u, Ref("BUY", a), - a)
    <2>1. t \in TxRecord
      <3>1. Ref("BUY", a) \in TxKey /\ a \in Nat
        BY AmountsNat DEF Ref, TxKey
      <3>2. QED
        BY <3>1 DEF Tx, TxRecord
    <2>2. ledger' = Posted(ledger, {t}) /\ Affordable(ledger, {t})
      BY <1>4 DEF Purchase
    <2> HIDE DEF t
    <2>3. QED
      BY <2>1, <2>2
  <1>5. \/ \E s \in Slots : Approve(s)
        \/ \E i \in Withdrawals, key \in ReviewKeys : ApproveWithdraw(i, key)
        \/ \E i \in Payments : Verify(i)
        \/ \E u \in Users, a \in Purchases : Purchase(u, a)
    BY DEF Next, DepositNext, WithdrawNext, CreateDeposit, BeginUpload, BeginSubmit, Upload,
           BeginReview, Reject, BeginWithdraw, CreateWithdraw, Drop, Age, MarkPaid,
           RejectWithdraw, Initiate, Fail, ReviewKeys
  <1>6. QED
    BY <1>1, <1>2, <1>3, <1>4, <1>5

LEMMA LedgerTyped ==
    ASSUME FinanceInv, Typed, [Next]_vars
    PROVE  ledger' \subseteq TxRecord /\ IsFiniteSet(ledger')
  <1>1. CASE UNCHANGED ledger
    BY <1>1 DEF Typed
  <1>2. CASE ledger' # ledger
    <2>1. PICK t \in TxRecord : ledger' = Posted(ledger, {t})
      BY <1>2, StepPosts DEF vars
    <2>2. ledger' \subseteq ledger \cup {t}
      BY <2>1, PostedWithin, Zenon
    <2>3. IsFiniteSet(ledger \cup {t})
      BY FS_AddElement DEF Typed
    <2>4. QED
      BY <2>2, <2>3, FS_Subset DEF Typed
  <1>3. QED
    BY <1>1, <1>2

\* Rows of withdrawals are opened one at a time.
LEMMA OpenedTyped ==
    ASSUME FinanceInv, Typed, [Next]_vars
    PROVE  IsFiniteSet(Opened') /\ aged' \subseteq Withdrawals
  <1>1. UNCHANGED withdrawal => IsFiniteSet(Opened')
    BY DEF Typed, Opened
  <1>2. ASSUME NEW i \in Withdrawals, NEW row, withdrawal' = [withdrawal EXCEPT ![i] = row]
        PROVE  IsFiniteSet(Opened')
    <2>1. Opened' \subseteq Opened \cup {i}
      BY <1>2 DEF Opened, FinanceInv, Tables
    <2>2. IsFiniteSet(Opened \cup {i})
      BY FS_AddElement DEF Typed
    <2>3. QED
      BY <2>1, <2>2, FS_Subset
  <1>3. ASSUME NEW s \in Slots, NEW i \in Withdrawals, CreateWithdraw(s, i)
        PROVE  IsFiniteSet(Opened')
    BY <1>2, <1>3 DEF CreateWithdraw
  <1>4. ASSUME NEW i \in Withdrawals, NEW status, Decide(i, status)
        PROVE  IsFiniteSet(Opened')
    <2>1. withdrawal' = [withdrawal EXCEPT ![i] = [withdrawal[i] EXCEPT !.status = status]]
      BY <1>4 DEF Decide, FinanceInv, Tables
    <2>2. QED
      BY <1>2, <2>1
  <1>5. \/ UNCHANGED withdrawal
        \/ \E s \in Slots, i \in Withdrawals : CreateWithdraw(s, i)
        \/ \E i \in Withdrawals : \E status : Decide(i, status)
    BY ZenonT(30) DEF Next, vars, DepositNext, WithdrawNext, CreateDeposit, BeginUpload, BeginSubmit, Upload,
           BeginReview, Approve, Reject, BeginWithdraw, Drop, Age, ApproveWithdraw, MarkPaid,
           RejectWithdraw, Initiate, Verify, Fail, Purchase
  <1>6. aged' \subseteq Withdrawals
    BY ZenonT(30) DEF Next, vars, DepositNext, WithdrawNext, CreateDeposit, BeginUpload, BeginSubmit, Upload,
           BeginReview, Approve, Reject, BeginWithdraw, CreateWithdraw, Drop, Age, ApproveWithdraw,
           MarkPaid, RejectWithdraw, Decide, Initiate, Verify, Fail, Purchase, Typed
  <1>7. QED
    BY <1>1, <1>3, <1>4, <1>5, <1>6

\* A request keeps what it has read in the fields of its operation.
LEMMA SessionsTyped ==
    ASSUME FinanceInv, Typed, [Next]_vars
    PROVE  req' \in [Slots -> Request \cup {Idle}]
  <1>1. ASSUME NEW s \in Slots, NEW r \in Request \cup {Idle}, req' = [req EXCEPT ![s] = r]
        PROVE  req' \in [Slots -> Request \cup {Idle}]
    BY <1>1 DEF Typed
  <1>2. ASSUME NEW s \in Slots, NEW i \in Deposits, NEW client, BeginUpload(s, i, client)
        PROVE  req' \in [Slots -> Request \cup {Idle}]
    <2> DEFINE r == [op |-> "upload", id |-> i, loaded |-> deposit[i].status, file |-> TRUE]
    <2>1. deposit[i] \in DepositRow /\ req' = [req EXCEPT ![s] = r]
      BY <1>2 DEF BeginUpload, FinanceInv, Tables
    <2>2. r \in Request
      BY <2>1 DEF DepositRow, Request
    <2> HIDE DEF r
    <2>3. QED
      BY <1>1, <2>1, <2>2
  <1>3. ASSUME NEW s \in Slots, NEW i \in Deposits, BeginSubmit(s, i)
        PROVE  req' \in [Slots -> Request \cup {Idle}]
    <2> DEFINE r == [op |-> "upload", id |-> i, loaded |-> deposit[i].status, file |-> FALSE]
    <2>1. deposit[i] \in DepositRow /\ req' = [req EXCEPT ![s] = r]
      BY <1>3 DEF BeginSubmit, FinanceInv, Tables
    <2>2. r \in Request
      BY <2>1 DEF DepositRow, Request
    <2> HIDE DEF r
    <2>3. QED
      BY <1>1, <2>1, <2>2
  <1>4. ASSUME NEW s \in Slots, NEW i \in Deposits, NEW decision \in {"approve", "reject"},
               NEW route \in Routes, NEW key \in KeysOf(route),
               BeginReview(s, i, decision, route, key)
        PROVE  req' \in [Slots -> Request \cup {Idle}]
    <2> DEFINE known == {t \in ledger : t.key.kind = "DEPOSIT"}
               r == [op |-> decision, id |-> i, route |-> route, key |-> key,
                     loaded |-> deposit[i].status, known |-> known]
    <2>1. deposit[i] \in DepositRow /\ req' = [req EXCEPT ![s] = r]
      BY <1>4 DEF BeginReview, FinanceInv, Tables
    <2>2. key \in ReviewKeys /\ known \in SUBSET TxRecord
      BY DEF KeysOf, ReviewKeys, Typed
    <2> HIDE DEF known
    <2>3. r \in Request
      BY <2>1, <2>2 DEF DepositRow, Request
    <2> HIDE DEF r
    <2>4. QED
      BY <1>1, <2>1, <2>3
  <1>5. ASSUME NEW s \in Slots, NEW u \in Users, NEW a \in Amounts, NEW d \in Details,
               BeginWithdraw(s, u, a, d)
        PROVE  req' \in [Slots -> Request \cup {Idle}]
    <2> DEFINE reserved == MapThenSumSet(LAMBDA i : withdrawal[i].amount, Pending(u))
               r == [op |-> "withdraw", user |-> u, amount |-> a, details |-> d,
                     reserved |-> reserved]
    <2>1. req' = [req EXCEPT ![s] = r]
      BY <1>5 DEF BeginWithdraw
    <2>2. reserved \in Int
      BY ReservedInt
    <2> HIDE DEF reserved
    <2>3. r \in Request
      BY <2>2 DEF Request
    <2> HIDE DEF r
    <2>4. QED
      BY <1>1, <2>1, <2>3
  <1>6. ASSUME NEW s \in Slots,
               Upload(s) \/ Approve(s) \/ Reject(s) \/ Drop(s)
                  \/ \E i \in Withdrawals : CreateWithdraw(s, i)
        PROVE  req' \in [Slots -> Request \cup {Idle}]
    BY <1>1, <1>6 DEF Upload, Approve, Reject, Drop, CreateWithdraw, Done
  <1>7. ASSUME NEW s \in Slots, DepositNext(s) \/ WithdrawNext(s) \/ Drop(s)
        PROVE  req' \in [Slots -> Request \cup {Idle}]
    BY <1>2, <1>3, <1>4, <1>5, <1>6, <1>7 DEF DepositNext, WithdrawNext
  <1>8. CASE UNCHANGED req
    BY <1>8 DEF Typed
  <1>9. QED
    BY <1>7, <1>8 DEF Next, vars, CreateDeposit, Age, ApproveWithdraw, MarkPaid, RejectWithdraw,
                      Decide, Initiate, Verify, Fail, Purchase

LEMMA TypedHolds == Spec => []Typed
  <1>1. Init => Typed
    <2> SUFFICES ASSUME Init PROVE Typed
      OBVIOUS
    <2>1. Opened = {}
      BY DEF Init, Opened
    <2>2. QED
      BY <2>1, FS_EmptySet, OpeningAssumption DEF Init, Typed
  <1>2. FinanceInv /\ Typed /\ [Next]_vars => Typed'
    <2> SUFFICES ASSUME FinanceInv, Typed, [Next]_vars PROVE Typed'
      OBVIOUS
    <2>1. QED
      BY LedgerTyped, OpenedTyped, SessionsTyped DEF Typed
  <1>3. QED
    BY <1>1, <1>2, AlwaysFinanceInv, PTL DEF Spec

\* Every row, transaction and request has the columns and fields of its type, a
\* status the code knows, and an amount that is a number.
THEOREM WellTyped == Spec => []TypeOK
  <1>1. FinanceInv /\ Typed => TypeOK
    BY DEF FinanceInv, Tables, Typed, TypeOK
  <1>2. QED
    BY <1>1, AlwaysFinanceInv, TypedHolds, PTL

LEMMA PromisedBalance == ASSUME NEW L, NEW u PROVE Promise!Balance(L, u) = Balance(L, u)
  BY DEF Promise!Balance, Balance, Promise!MapThenSumSet, MapThenSumSet,
         Promise!MapThenFoldSet, MapThenFoldSet

LEMMA PromisedKey == ASSUME NEW L, NEW u, NEW k PROVE Promise!HasTx(L, u, k) <=> HasTx(L, u, k)
  BY DEF Promise!HasTx, HasTx

Solvent == \A u \in Users : Balance(ledger, u) >= 0

LEMMA StepKeepsPromise ==
    ASSUME FinanceInv, Typed, Solvent, Next, ledger' # ledger PROVE Promise!Post /\ Solvent'
  <1>1. PICK t \in TxRecord : /\ ledger' = Posted(ledger, {t})
                              /\ Affordable(ledger, {t}) \/ t.amount >= 0
    BY StepPosts
  <1> DEFINE orders == {t}
  <1>2. /\ IsFiniteSet(ledger) /\ ledger \subseteq TxRecord
        /\ IsFiniteSet(orders) /\ orders \subseteq TxRecord
        /\ \A x, y \in orders : x.user = y.user /\ x.key = y.key => x = y
        /\ Affordable(ledger, orders) \/ \A x \in orders : x.amount >= 0
        /\ \A x \in ledger \cup orders : x.amount \in Int
    BY <1>1, FS_Singleton DEF Typed, TxRecord
  <1>3. ledger' = Posted(ledger, orders)
    BY <1>1
  <1> HIDE DEF orders
  <1>4. /\ ledger \subseteq ledger'
        /\ ledger' \ ledger \subseteq orders
        /\ \A x \in ledger' \ ledger :
              /\ ~ HasTx(ledger, x.user, x.key)
              /\ \A y \in ledger' \ ledger : y.user = x.user /\ y.key = x.key => y = x
        /\ \A u \in Users : Balance(ledger', u) >= 0
    BY <1>2, <1>3, PostingIsHonest DEF Solvent
  <1>5. Promise!Post
    BY <1>2, <1>4, PromisedBalance, PromisedKey DEF Promise!Post
  <1>6. QED
    BY <1>4, <1>5 DEF Solvent

\* In whatever order deposits, withdrawals and payments are decided, and however
\* stale the rows the decisions work on, money moves as the ledger promises: every
\* transaction is posted once under its key and nobody is overdrawn, although
\* pending withdrawals can exceed the balance (create_withdraw_request sums them
\* before it locks the wallet; approve_withdraw checks again).
THEOREM FinanceIsLedger == Spec => LedgerKept
  <1>1. Init => Promise!Init /\ Solvent
    BY OpeningAssumption, PromisedBalance DEF Init, Promise!Init, Solvent
  <1>2. FinanceInv /\ Typed /\ Solvent /\ [Next]_vars => [Promise!Post]_ledger /\ Solvent'
    <2> SUFFICES ASSUME FinanceInv, Typed, Solvent, [Next]_vars
                 PROVE  [Promise!Post]_ledger /\ Solvent'
      OBVIOUS
    <2>1. CASE ledger' = ledger
      BY <2>1 DEF Solvent
    <2>2. CASE ledger' # ledger
      BY <2>2, StepKeepsPromise DEF vars
    <2>3. QED
      BY <2>1, <2>2
  <1>3. QED
    BY <1>1, <1>2, AlwaysFinanceInv, TypedHolds, PTL DEF Spec, LedgerKept, Promise!Spec
=============================================================================
