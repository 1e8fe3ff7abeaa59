------------------------------ MODULE Finance ------------------------------
(***************************************************************************)
(* Deposits with a receipt, withdrawals and gateway payments               *)
(* (services/finance_service.py with the routes that call it).             *)
(*                                                                         *)
(* As in Wallet.tla a request is a database transaction.  It takes two     *)
(* steps, Begin* and the commit, where the code uses at the end what it    *)
(* read at the beginning: an upload checks the status, receives or         *)
(* downloads the file and then writes; a review through the bot loads the  *)
(* deposit before the service locks it and so works on a stale row; a new  *)
(* withdrawal sums the pending ones in its snapshot.  The requests that    *)
(* lock their row first and read it under the lock are one step.  A        *)
(* request that fails, is refused or crashes has no effect (Drop).         *)
(*                                                                         *)
(* Routes "bot" are those of bot_router.py, whose client derives the       *)
(* idempotency key from the request; "mini" those of mini_router.py, whose *)
(* client draws a new key for every click.  finance_router.py behaves like *)
(* "mini" and takes the key its caller sends.                              *)
(***************************************************************************)
EXTENDS Ledger

CONSTANTS
    Users,          \* the owners of the requests
    Deposits,       \* ids of deposit_requests
    Withdrawals,    \* ids of withdraw_requests
    Payments,       \* ids of gateway_payments
    Amounts,        \* amounts a user asks for
    Details,        \* names and accounts a withdrawal is paid to
    Opening,        \* the transactions that funded the users beforehand
    Purchases,      \* amounts users spend in games meanwhile
    Routes,         \* the routes administrators review deposits through
    Nonces,         \* the keys the Mini App draws
    Slots,          \* the requests the server handles at the same time
    None, Idle

ASSUME FinanceAssumption ==
    /\ Amounts \subseteq Nat \ {0}
    /\ Purchases \subseteq Nat \ {0}
    /\ Routes \subseteq {"bot", "mini"}
    /\ "bot" \notin Nonces

VARIABLES
    deposit,    \* deposit[i]: the row of deposit_requests, None before it exists
    withdrawal, \* withdrawal[i]: the row of withdraw_requests
    aged,       \* withdrawals created before the idempotency window
    payment,    \* payment[i]: the row of gateway_payments
    ledger,     \* wallet_txs
    req         \* req[s]: the request in slot s, with what it has read

vars == <<deposit, withdrawal, aged, payment, ledger, req>>

Ref(kind, ref) == [kind |-> kind, ref |-> ref]

Done(s) == req' = [req EXCEPT ![s] = Idle]

\* Where users make deposits.
Clients == {"bot", "mini"}

\* The idempotency keys a review through this route can carry.
KeysOf(route) == IF route = "bot" THEN {"bot"} ELSE Nonces

-----------------------------------------------------------------------------
(* Deposits *)

CreateDeposit(i, u, a, client) ==
    /\ deposit[i] = None
    /\ deposit' = [deposit EXCEPT ![i] =
                     [user |-> u, amount |-> a, via |-> client, status |-> "AWAITING_RECEIPT",
                      receipt |-> FALSE]]
    /\ UNCHANGED <<withdrawal, aged, payment, ledger, req>>

\* Statuses in which the routes accept a receipt.
Uploadable(client) ==
    IF client = "bot" THEN {"AWAITING_RECEIPT"} ELSE {"AWAITING_RECEIPT", "PENDING_REVIEW"}

BeginUpload(s, i, client) ==
    /\ req[s] = Idle
    /\ deposit[i] # None
    /\ deposit[i].status \in Uploadable(client)
    /\ req' = [req EXCEPT ![s] =
                 [op |-> "upload", id |-> i, loaded |-> deposit[i].status, file |-> TRUE]]
    /\ UNCHANGED <<deposit, withdrawal, aged, payment, ledger>>

\* create_deposit of the Mini App goes on in a second transaction, which puts the
\* deposit up for review without waiting for a receipt.
BeginSubmit(s, i) ==
    /\ req[s] = Idle
    /\ deposit[i] # None
    /\ deposit[i].via = "mini" /\ deposit[i].status = "AWAITING_RECEIPT"
    /\ \A r \in Slots : req[r] # Idle /\ req[r].op = "upload" /\ req[r].id = i => req[r].file
    /\ req' = [req EXCEPT ![s] =
                 [op |-> "upload", id |-> i, loaded |-> deposit[i].status, file |-> FALSE]]
    /\ UNCHANGED <<deposit, withdrawal, aged, payment, ledger>>

\* The status that ends up in the row when a request that loaded one status
\* assigns another: a column that has not changed is not written.
Flushed(i, loaded, status) == IF status = loaded THEN deposit[i].status ELSE status

\* The receipt is saved and the row updated, with no lock and no second look.
Upload(s) ==
    /\ req[s] # Idle
    /\ req[s].op = "upload"
    /\ LET i == req[s].id
       IN  deposit' = [deposit EXCEPT
                         ![i].status = Flushed(i, req[s].loaded, "PENDING_REVIEW"),
                         ![i].receipt = @ \/ req[s].file]
    /\ Done(s)
    /\ UNCHANGED <<withdrawal, aged, payment, ledger>>

\* The bot routes load the row before the service does and refuse a deposit
\* that is decided the same way already; the others only take the snapshot.
BeginReview(s, i, decision, route, key) ==
    /\ req[s] = Idle
    /\ deposit[i] # None
    /\ route = "bot" => deposit[i].status #
                            (IF decision = "approve" THEN "APPROVED" ELSE "REJECTED")
    /\ req' = [req EXCEPT ![s] =
                 [op |-> decision, id |-> i, route |-> route, key |-> key,
                  loaded |-> deposit[i].status,
                  known |-> {t \in ledger : t.key.kind = "DEPOSIT"}]]
    /\ UNCHANGED <<deposit, withdrawal, aged, payment, ledger>>

\* The status the locked part sees.
Status(s) == IF req[s].route = "bot" THEN req[s].loaded ELSE deposit[req[s].id].status

\* Variant of Reviewable: approval without a look at the status.
ReviewableAlways(s) == TRUE
Reviewable(s) == Status(s) = "PENDING_REVIEW"

\* approve_deposit
Approve(s) ==
    /\ req[s] # Idle
    /\ req[s].op = "approve"
    /\ Reviewable(s)
    /\ LET i      == req[s].id
           credit == {Tx(deposit[i].user, Ref("DEPOSIT", <<i, req[s].key>>), deposit[i].amount)}
       IN  /\ Insertable(ledger, req[s].known, credit)
           /\ ledger' = Posted(ledger, credit)
           /\ deposit' = [deposit EXCEPT ![i].status = "APPROVED"]
    /\ Done(s)
    /\ UNCHANGED <<withdrawal, aged, payment>>

\* reject_deposit
Reject(s) ==
    /\ req[s] # Idle
    /\ req[s].op = "reject"
    /\ Status(s) \in {"PENDING_REVIEW", "AWAITING_RECEIPT"}
    /\ deposit' = [deposit EXCEPT ![req[s].id].status = "REJECTED"]
    /\ Done(s)
    /\ UNCHANGED <<withdrawal, aged, payment, ledger>>

-----------------------------------------------------------------------------
(* Withdrawals *)

Pending(u) == {i \in Withdrawals :
    /\ withdrawal[i] # None
    /\ withdrawal[i].user = u
    /\ withdrawal[i].status = "PENDING"}

\* The soft idempotency: the same request is pending and not too old.
Same(i, a, d) == withdrawal[i].amount = a /\ withdrawal[i].details = d
Repeated(u, a, d) == \E i \in Pending(u) \ aged : Same(i, a, d)

\* create_withdraw_request up to the lock of the wallet.  Both clients send an
\* idempotency key; a repeated request returns the pending one (Drop).
BeginWithdraw(s, u, a, d) ==
    /\ req[s] = Idle
    /\ ~ Repeated(u, a, d)
    /\ req' = [req EXCEPT ![s] =
                 [op |-> "withdraw", user |-> u, amount |-> a, details |-> d,
                  reserved |-> MapThenSumSet(LAMBDA i : withdrawal[i].amount, Pending(u))]]
    /\ UNCHANGED <<deposit, withdrawal, aged, payment, ledger>>

\* The balance is read under the lock of the wallet, the reserved amount is the
\* one of the snapshot.
CreateWithdraw(s, i) ==
    /\ req[s] # Idle
    /\ req[s].op = "withdraw"
    /\ withdrawal[i] = None
    /\ req[s].amount <= Balance(ledger, req[s].user) - req[s].reserved
    /\ withdrawal' = [withdrawal EXCEPT ![i] =
                        [user |-> req[s].user, amount |-> req[s].amount,
                         details |-> req[s].details, status |-> "PENDING"]]
    /\ Done(s)
    /\ UNCHANGED <<deposit, aged, payment, ledger>>

\* The ten minutes of the idempotency window pass.
Age(i) ==
    /\ withdrawal[i] # None
    /\ i \notin aged
    /\ aged' = aged \cup {i}
    /\ UNCHANGED <<deposit, withdrawal, payment, ledger, req>>

InStatus(i, status) == withdrawal[i] # None /\ withdrawal[i].status = status
Decide(i, status) ==
    /\ withdrawal' = [withdrawal EXCEPT ![i].status = status]
    /\ UNCHANGED <<deposit, aged, payment, req>>

Debit(i, key) ==
    Tx(withdrawal[i].user, Ref("WITHDRAW", <<i, key>>), - withdrawal[i].amount)

\* Variants of ApproveWithdraw: without the status, and without the balance.
ApproveWithdrawTwice(i, key) ==
    /\ withdrawal[i] # None
    /\ Affordable(ledger, {Debit(i, key)})
    /\ ledger' = Posted(ledger, {Debit(i, key)})
    /\ Decide(i, "APPROVED")
ApproveWithdrawOverdraft(i, key) ==
    /\ InStatus(i, "PENDING")
    /\ ledger' = Posted(ledger, {Debit(i, key)})
    /\ Decide(i, "APPROVED")

\* approve_withdraw
ApproveWithdraw(i, key) ==
    /\ InStatus(i, "PENDING")
    /\ Affordable(ledger, {Debit(i, key)})
    /\ ledger' = Posted(ledger, {Debit(i, key)})
    /\ Decide(i, "APPROVED")

\* mark_withdraw_paid and reject_withdraw
MarkPaid(i)       == InStatus(i, "APPROVED") /\ Decide(i, "PAID") /\ UNCHANGED ledger
RejectWithdraw(i) == InStatus(i, "PENDING") /\ Decide(i, "REJECTED") /\ UNCHANGED ledger

-----------------------------------------------------------------------------
(* Gateway payments *)

Initiate(i, u, a) ==
    /\ payment[i] = None
    /\ payment' = [payment EXCEPT ![i] = [user |-> u, amount |-> a, status |-> "CREATED"]]
    /\ UNCHANGED <<deposit, withdrawal, aged, ledger, req>>

\* Variant of Verify that accepts a payment in any status.
VerifyAnyStatus(i) ==
    /\ payment[i] # None
    /\ payment' = [payment EXCEPT ![i].status = "VERIFIED"]
    /\ ledger' = Posted(ledger, {Tx(payment[i].user, Ref("GATEWAY", i), payment[i].amount)})
    /\ UNCHANGED <<deposit, withdrawal, aged, req>>

\* verify_gateway_payment, called by the webhook and by the user.
Verify(i) ==
    /\ payment[i] # None
    /\ payment[i].status = "CREATED"
    /\ payment' = [payment EXCEPT ![i].status = "VERIFIED"]
    /\ ledger' = Posted(ledger, {Tx(payment[i].user, Ref("GATEWAY", i), payment[i].amount)})
    /\ UNCHANGED <<deposit, withdrawal, aged, req>>

\* Variant of Fail with a status of the column that no other code knows.
FailRedirected(i) ==
    /\ payment[i] # None
    /\ payment' = [payment EXCEPT ![i].status = "REDIRECTED"]
    /\ UNCHANGED <<deposit, withdrawal, aged, ledger, req>>

\* fail_gateway_payment: a late or repeated notice of failure finds any status.
Fail(i) ==
    /\ payment[i] # None
    /\ payment' = [payment EXCEPT ![i].status = "FAILED"]
    /\ UNCHANGED <<deposit, withdrawal, aged, ledger, req>>

-----------------------------------------------------------------------------
\* A game debits the user, at most one purchase of each amount.
Purchase(u, a) ==
    LET debit == {Tx(u, Ref("BUY", a), - a)}
    IN  /\ NewTxs(ledger, debit) # {}
        /\ Affordable(ledger, debit)
        /\ ledger' = Posted(ledger, debit)
        /\ UNCHANGED <<deposit, withdrawal, aged, payment, req>>

Drop(s) ==
    /\ req[s] # Idle
    /\ Done(s)
    /\ UNCHANGED <<deposit, withdrawal, aged, payment, ledger>>

Init ==
    /\ deposit = [i \in Deposits |-> None]
    /\ withdrawal = [i \in Withdrawals |-> None]
    /\ aged = {}
    /\ payment = [i \in Payments |-> None]
    /\ ledger = Opening
    /\ req = [s \in Slots |-> Idle]

DepositNext(s) ==
    \/ \E i \in Deposits, client \in Clients : BeginUpload(s, i, client)
    \/ \E i \in Deposits : BeginSubmit(s, i)
    \/ Upload(s)
    \/ \E i \in Deposits, decision \in {"approve", "reject"}, route \in Routes :
          \E key \in KeysOf(route) : BeginReview(s, i, decision, route, key)
    \/ Approve(s)
    \/ Reject(s)

WithdrawNext(s) ==
    \/ \E u \in Users, a \in Amounts, d \in Details : BeginWithdraw(s, u, a, d)
    \/ \E i \in Withdrawals : CreateWithdraw(s, i)

Next ==
    \/ \E i \in Deposits, u \in Users, a \in Amounts, client \in Clients :
          CreateDeposit(i, u, a, client)
    \/ \E s \in Slots : DepositNext(s) \/ WithdrawNext(s) \/ Drop(s)
    \/ \E i \in Withdrawals :
          \/ Age(i)
          \/ \E key \in {"bot"} \cup Nonces : ApproveWithdraw(i, key)
          \/ MarkPaid(i)
          \/ RejectWithdraw(i)
    \/ \E i \in Payments :
          \/ \E u \in Users, a \in Amounts : Initiate(i, u, a)
          \/ Verify(i)
          \/ Fail(i)
    \/ \E u \in Users, a \in Purchases : Purchase(u, a)

Spec == Init /\ [][Next]_vars
-----------------------------------------------------------------------------
(* Types *)

ReviewKeys == {"bot"} \cup Nonces
TxKey ==
    [kind : {"OPENING"}, ref : {0}]
    \cup [kind : {"BUY"}, ref : Purchases]
    \cup [kind : {"DEPOSIT"}, ref : Deposits \X ReviewKeys]
    \cup [kind : {"WITHDRAW"}, ref : Withdrawals \X ReviewKeys]
    \cup [kind : {"GATEWAY"}, ref : Payments]
TxRecord == [user : Users, key : TxKey, amount : Int]

\* The users come with money only, and without debts.
ASSUME OpeningAssumption ==
    /\ Opening \subseteq TxRecord
    /\ IsFiniteSet(Opening)
    /\ \A u \in Users : Balance(Opening, u) >= 0
    /\ \A t \in Opening : t.key.kind = "OPENING"

DepositStatus  == {"AWAITING_RECEIPT", "PENDING_REVIEW", "APPROVED", "REJECTED"}
WithdrawStatus == {"PENDING", "APPROVED", "PAID", "REJECTED"}
PaymentStatus  == {"CREATED", "VERIFIED", "FAILED"}

DepositRow ==
    [user : Users, amount : Amounts, via : Clients, status : DepositStatus, receipt : BOOLEAN]
WithdrawRow ==
    [user : Users, amount : Amounts, details : Details, status : WithdrawStatus]
PaymentRow == [user : Users, amount : Amounts, status : PaymentStatus]

ASSUME NoneAssumption == None \notin DepositRow \cup WithdrawRow \cup PaymentRow

Request ==
    [op : {"upload"}, id : Deposits, loaded : DepositStatus, file : BOOLEAN]
    \cup [op : {"approve", "reject"}, id : Deposits, route : Routes, key : ReviewKeys,
          loaded : DepositStatus, known : SUBSET TxRecord]
    \cup [op : {"withdraw"}, user : Users, amount : Amounts, details : Details,
          reserved : Int]

TypeOK ==
    /\ deposit \in [Deposits -> DepositRow \cup {None}]
    /\ withdrawal \in [Withdrawals -> WithdrawRow \cup {None}]
    /\ aged \subseteq Withdrawals
    /\ payment \in [Payments -> PaymentRow \cup {None}]
    /\ ledger \in SUBSET TxRecord
    /\ req \in [Slots -> Request \cup {Idle}]
-----------------------------------------------------------------------------
(* Properties *)

\* Whatever is approved, verified or spent in whatever order, the ledger keeps
\* its promise: in particular no sequence of approvals overdraws a wallet,
\* although more can be reserved than the wallet holds.
Promise == INSTANCE LedgerSpec
LedgerKept == Promise!Spec

CreditsOf(i) == {t \in ledger : t.key.kind = "DEPOSIT" /\ t.key.ref[1] = i}
DebitsOf(i)  == {t \in ledger : t.key.kind = "WITHDRAW" /\ t.key.ref[1] = i}
PaymentsOf(i) == {t \in ledger : t.key.kind = "GATEWAY" /\ t.key.ref = i}

One(T, u, a) == \E t \in T : T = {t} /\ t.user = u /\ t.amount = a

\* However reviews of one withdrawal by several administrators overlap, and
\* however often each is repeated under a new key: a withdrawal that is approved
\* or paid out has been debited exactly once and in full, one that is pending or
\* rejected not at all.  A verified gateway payment is credited exactly once, one
\* that is open not at all.
Settled ==
    /\ \A i \in Withdrawals :
          IF InStatus(i, "APPROVED") \/ InStatus(i, "PAID")
          THEN One(DebitsOf(i), withdrawal[i].user, - withdrawal[i].amount)
          ELSE DebitsOf(i) = {}
    /\ \A i \in Payments :
          /\ payment[i] = None \/ payment[i].status = "CREATED" => PaymentsOf(i) = {}
          /\ payment[i] # None /\ payment[i].status = "VERIFIED" =>
                One(PaymentsOf(i), payment[i].user, payment[i].amount)

\* A decision that has been told to the user is not taken back: a withdrawal
\* that was rejected or paid out keeps its status, one that was approved can only
\* be paid out, and a gateway payment that failed is never credited afterwards.
DecisionsFinal ==
    [][/\ \A i \in Withdrawals :
             /\ InStatus(i, "REJECTED") => InStatus(i, "REJECTED")'
             /\ InStatus(i, "PAID") => InStatus(i, "PAID")'
             /\ InStatus(i, "APPROVED") => (InStatus(i, "APPROVED") \/ InStatus(i, "PAID"))'
       /\ \A i \in Payments :
             payment[i] # None /\ payment[i].status = "FAILED" =>
                /\ payment'[i].status = "FAILED"
                /\ PaymentsOf(i)' = PaymentsOf(i)]_vars

\* An approved deposit has been credited, and a deposit is credited only when its
\* receipt has arrived or the Mini App has put it up for review without one, however
\* stale the row that a review or an upload works on.
Supported(i) == deposit[i].receipt \/ deposit[i].via = "mini"
DepositBacked ==
    \A i \in Deposits :
        /\ deposit[i] # None /\ deposit[i].status = "APPROVED" => CreditsOf(i) # {}
        /\ CreditsOf(i) # {} => deposit[i] # None /\ Supported(i)

-----------------------------------------------------------------------------
(* What the code says and does not keep (README.md) *)

\* A deposit is credited once at most ("credit wallet (idempotent)",
\* finance_service.py:61).
DepositCreditedOnce == \A i \in Deposits : \A t1, t2 \in CreditsOf(i) : t1 = t2

\* The approval of a deposit is not undone by a request that moves no money
\* (README.md:545, "reversible only through controlled wallet ledger operations").
ApprovalStands ==
    [][\A i \in Deposits :
          deposit[i] # None /\ deposit[i].status = "APPROVED"
              => deposit'[i].status = "APPROVED" \/ ledger' # ledger]_vars

\* A payment goes from CREATED to FAILED only (finance_router.py:621).
FailedFromCreated ==
    [][\A i \in Payments :
          payment[i] # None /\ payment[i].status = "VERIFIED"
              => payment'[i].status = "VERIFIED"]_vars

\* Within the idempotency window a user has one pending withdrawal of the same
\* amount to the same account (finance_service.py:121-122).
OnePendingRequest ==
    \A i, j \in Withdrawals :
        /\ i # j
        /\ InStatus(i, "PENDING") /\ InStatus(j, "PENDING")
        /\ withdrawal[i].user = withdrawal[j].user
        /\ Same(i, withdrawal[j].amount, withdrawal[j].details)
        => i \in aged \/ j \in aged
=============================================================================
