------------------------------- MODULE Crypto -------------------------------
(***************************************************************************)
(* Crypto deposits: invoices, the transfers on the chain, the worker that  *)
(* matches them, the requests of users and administrators                  *)
(* (services/crypto_deposit_service.py, crypto_worker.py,                  *)
(* crypto_reconciliation_service.py and the routes in front of them).      *)
(*                                                                         *)
(* A cycle of the worker scans one network after the other and handles     *)
(* every transfer it lists in a session of its own.  process_transfer      *)
(* takes two steps: Match reads the invoice without a lock, Apply locks it *)
(* and is given the object that the session already holds, so it decides   *)
(* on the row Match loaded and writes the columns that differ from it.     *)
(* The requests of users and administrators lock the row before they read  *)
(* it and are one step, except creation, which picks its amount in a       *)
(* snapshot taken before the provider is asked for a rate.                 *)
(*                                                                         *)
(* A memo is the invoice it names; a TON invoice has one, a TRON invoice   *)
(* none.  Times are reduced to the age of an invoice: fresh, late (past    *)
(* expires_at, within the grace period) or over.  One transfer hash is one *)
(* member of Transfers.                                                    *)
(***************************************************************************)
EXTENDS Ledger, Sequences

CONSTANTS
    Users,          \* the owners of the invoices
    Invoices,       \* ids of crypto_deposit_requests
    Transfers,      \* hashes of incoming transfers
    Networks,       \* the order in which a cycle scans the networks
    Amounts,        \* what the rate makes of the amounts asked for, in units
    TomanOf,        \* TomanOf[a]: the amount in toman an invoice of a is for
    Sent,           \* amounts that users transfer
    Threshold,      \* CRYPTO_ADMIN_REVIEW_TOMAN_THRESHOLD
    DailyCount,     \* CRYPTO_DAILY_USER_MAX_COUNT; the runs last one day
    WalletUsers,    \* users who pay from a connected wallet
    MaxClaims,      \* how many hashes are claimed for an invoice
    Cycles,         \* cycles of the worker that run at the same time
    Slots,          \* creations the server handles at the same time
    None, Idle

Nets == {Networks[n] : n \in DOMAIN Networks}

ASSUME CryptoAssumption ==
    /\ IsFiniteSet(Invoices)
    /\ Amounts \subseteq Nat \ {0}
    /\ Sent \subseteq Nat \ {0}
    /\ Networks \in Seq({"TRON", "TON"})
    /\ Threshold \in Nat /\ DailyCount \in Nat /\ MaxClaims \in Nat
    /\ \A a \in Amounts : TomanOf[a] \in Nat \ {0}
    /\ None \notin Transfers \cup Invoices \cup Nat

VARIABLES
    invoice,    \* invoice[i]: the row of crypto_deposit_requests, None before it exists
    age,        \* age[i]: where now stands relative to expires_at
    chain,      \* chain[t]: the transfer as the network lists it, None before it is sent
    ledger,     \* wallet_txs
    refs,       \* refs[<<u, t>>]: wallet_txs.ref_id of the credit of u for t
    cycle,      \* cycle[c]: how far a cycle has come
    req         \* req[s]: a creation that has taken its snapshot

vars == <<invoice, age, chain, ledger, refs, cycle, req>>
others == <<age, chain, ledger, refs, cycle, req>>

OPEN_STATUSES == {"WAITING_PAYMENT", "CONFIRMING"}
Exists(i)     == invoice[i] # None
InStatus(i, S) == Exists(i) /\ invoice[i].status \in S
Open(i)       == InStatus(i, OPEN_STATUSES)
Key(t)        == [kind |-> "CRYPTO", ref |-> t]

-----------------------------------------------------------------------------
(* Users: creation, claims, cancellation *)

OpenAmounts(net) == {invoice[i].amount : i \in {j \in Invoices : Open(j) /\ invoice[j].net = net}}

\* create_invoice up to the lock: the daily limit and the amounts in use are
\* read in the snapshot.
BeginCreate(s, u, net, a) ==
    /\ req[s] = Idle
    /\ Cardinality({i \in Invoices : Exists(i) /\ invoice[i].user = u}) < DailyCount
    /\ req' = [req EXCEPT ![s] = [user |-> u, net |-> net, raw |-> a, taken |-> OpenAmounts(net)]]
    /\ UNCHANGED <<invoice, age, chain, ledger, refs, cycle>>

\* _unique_open_amount: one unit more until no open invoice of the snapshot has it.
UniqueAmount(raw, taken) ==
    CHOOSE a \in raw .. raw + Cardinality(taken) :
        /\ a \notin taken
        /\ \A b \in raw .. a - 1 : b \in taken

\* The check for an open invoice locks the rows of the user up to the commit;
\* UNIQUE(active_user_id) is the second line.  The memo is the public id.
Create(s, i) ==
    /\ req[s] # Idle
    /\ invoice[i] = None
    /\ \A j \in Invoices : Exists(j) /\ invoice[j].user = req[s].user => ~ Open(j) /\ ~ invoice[j].active
    /\ invoice' = [invoice EXCEPT ![i] =
                     [user |-> req[s].user, net |-> req[s].net,
                      amount |-> UniqueAmount(req[s].raw, req[s].taken),
                      toman |-> TomanOf[req[s].raw], status |-> "WAITING_PAYMENT",
                      active |-> TRUE, hash |-> None, paid |-> 0, detected |-> FALSE,
                      requested |-> FALSE, claims |-> 0]]
    /\ req' = [req EXCEPT ![s] = Idle]
    /\ UNCHANGED <<age, chain, ledger, refs, cycle>>

\* A refusal, a failed preflight, a lost request.
Drop(s) ==
    /\ req[s] # Idle
    /\ req' = [req EXCEPT ![s] = Idle]
    /\ UNCHANGED <<invoice, age, chain, ledger, refs, cycle>>

HashFree(t, i) == \A j \in Invoices \ {i} : Exists(j) => invoice[j].hash # t

\* claim_tx_hash
Claim(i, t) ==
    /\ InStatus(i, {"WAITING_PAYMENT"})
    /\ age[i] = "fresh"
    /\ HashFree(t, i)
    /\ invoice[i].claims < MaxClaims
    /\ invoice' = [invoice EXCEPT ![i].hash = t, ![i].claims = @ + 1]
    /\ UNCHANGED others

Closed(i, status) ==
    invoice' = [invoice EXCEPT ![i].status = status, ![i].active = FALSE]

\* cancel_owned
Cancel(i) ==
    /\ InStatus(i, {"WAITING_PAYMENT"})
    /\ ~ invoice[i].requested
    /\ invoice[i].hash = None
    /\ ~ invoice[i].detected
    /\ Closed(i, "CANCELLED")
    /\ UNCHANGED others

\* record_wallet_event: the wallet has submitted a payment, or reports its failure.
WalletEvent(i, submitted) ==
    /\ Open(i)
    /\ invoice[i].user \in WalletUsers
    /\ invoice[i].requested # submitted
    /\ invoice' = [invoice EXCEPT ![i].requested = submitted]
    /\ UNCHANGED others

-----------------------------------------------------------------------------
(* Administrators *)

Settle(i, t) == Tx(invoice[i].user, Key(t), invoice[i].toman)

\* The credit of the locked invoice: an order whose key exists returns the
\* transaction it finds, whose reference stays.
Credited(i, t) ==
    /\ ledger' = Posted(ledger, {Settle(i, t)})
    /\ refs' = [refs EXCEPT ![<<invoice[i].user, t>>] = IF @ = None THEN i ELSE @]

\* approve_review
Approve(i) ==
    /\ InStatus(i, {"NEEDS_REVIEW"})
    /\ invoice[i].hash # None
    /\ invoice[i].paid >= invoice[i].amount
    /\ Closed(i, "CREDITED")
    /\ Credited(i, invoice[i].hash)
    /\ UNCHANGED <<age, chain, cycle, req>>

\* Variant of Reject without the status: a credited invoice can be rejected.
RejectAny(i) ==
    /\ Exists(i)
    /\ Closed(i, "REJECTED")
    /\ UNCHANGED others

\* reject_review
Reject(i) ==
    /\ InStatus(i, {"WAITING_PAYMENT", "NEEDS_REVIEW"})
    /\ Closed(i, "REJECTED")
    /\ UNCHANGED others

-----------------------------------------------------------------------------
(* The chain and the clock *)

\* The invoices whose window contains a transfer that occurs now: they have been
\* created and their grace period is not over.
WindowNow == {i \in Invoices : Exists(i) /\ age[i] # "over"}

Pay(t, net, a, memo) ==
    /\ chain[t] = None
    /\ chain' = [chain EXCEPT ![t] =
                   [net |-> net, amount |-> a, memo |-> memo, confirmed |-> FALSE,
                    window |-> WindowNow]]
    /\ UNCHANGED <<invoice, age, ledger, refs, cycle, req>>

Confirm(t) ==
    /\ chain[t] # None
    /\ ~ chain[t].confirmed
    /\ chain' = [chain EXCEPT ![t].confirmed = TRUE]
    /\ UNCHANGED <<invoice, age, ledger, refs, cycle, req>>

Tick(i) ==
    /\ Exists(i)
    /\ age[i] # "over"
    /\ age' = [age EXCEPT ![i] = IF @ = "fresh" THEN "late" ELSE "over"]
    /\ UNCHANGED <<invoice, chain, ledger, refs, cycle, req>>

-----------------------------------------------------------------------------
(* The worker *)

\* A cycle after n networks, with the transfers it has still to handle and the flag
\* each had when it was listed.  Between two cycles it is at the beginning.  The
\* Redis lock of run_once lets one cycle in; without Redis, or after the time limit
\* of the lock, the worker and a scan by an administrator overlap.
At(n, batch) == [net |-> n, batch |-> batch, work |-> None]
Listing(c)   == cycle[c].work = None

NetworkOf(c) == Networks[cycle[c].net + 1]

\* list_incoming: the transfers to the address, each with its confirmation.
Incoming(net) == {t \in Transfers : chain[t] # None /\ chain[t].net = net}

\* The next network is listed if it has open invoices.
Scan(c) ==
    /\ Listing(c)
    /\ cycle[c].batch = {}
    /\ cycle[c].net < Len(Networks)
    /\ LET net == NetworkOf(c)
           incoming == IF OpenAmounts(net) # {} THEN Incoming(net) ELSE {}
       IN  cycle' = [cycle EXCEPT ![c] =
                       At(@.net + 1, {<<t, chain[t].confirmed>> : t \in incoming})]
    /\ UNCHANGED <<invoice, age, chain, ledger, refs, req>>

\* The provider does not answer: the network is passed over.
ScanFails(c) ==
    /\ Listing(c)
    /\ cycle[c].batch = {}
    /\ cycle[c].net < Len(Networks)
    /\ cycle' = [cycle EXCEPT ![c] = At(@.net + 1, {})]
    /\ UNCHANGED <<invoice, age, chain, ledger, refs, req>>

Candidates(t) == {i \in Invoices : Open(i) /\ invoice[i].net = chain[t].net /\ i \in chain[t].window}
ClaimedBy(t)  == {i \in Invoices : Open(i) /\ invoice[i].net = chain[t].net /\ invoice[i].hash = t}
ByMemo(t)     == {i \in Candidates(t) : chain[t].memo = i}
\* An exact amount whose memo, if there is one, does not name another invoice.
ByAmount(t) == {i \in Candidates(t) :
    /\ invoice[i].amount = chain[t].amount
    /\ chain[t].net = "TON" => chain[t].memo \in {None, i}}

\* _match_invoice: a claimed hash needs the right memo and no rival, a memo
\* decides by itself, an amount if it is the only one.
Matches(t) ==
    IF ClaimedBy(t) # {}
    THEN {i \in ClaimedBy(t) :
            /\ i \in chain[t].window
            /\ chain[t].net = "TON" => chain[t].memo = i
            /\ ByAmount(t) \subseteq {i}}
    ELSE IF ByMemo(t) # {} THEN ByMemo(t)
    ELSE {i \in ByAmount(t) : ByAmount(t) = {i}}

\* The transfers a look at the stored hash settles at once.
Handled(t) == \E i \in Invoices : InStatus(i, {"CREDITED", "NEEDS_REVIEW", "REJECTED"}) /\ invoice[i].hash = t

\* The invoice that process_transfer goes on with: the plain reads up to the
\* lock, and the look for a duplicate, which reads the same snapshot.
Targets(t) == {i \in Matches(t) : ~ Handled(t) /\ HashFree(t, i)}

Match(c) ==
    /\ Listing(c)
    /\ \E entry \in cycle[c].batch :
          LET t == entry[1]
              batch == cycle[c].batch \ {entry}
          IN  \/ /\ Targets(t) = {}
                 /\ cycle' = [cycle EXCEPT ![c].batch = batch]
              \/ \E i \in Targets(t) :
                    cycle' = [cycle EXCEPT
                       ![c].batch = batch,
                       ![c].work = [hash |-> t, confirmed |-> entry[2], id |-> i,
                                    row |-> invoice[i], posted |-> HasTx(ledger, invoice[i].user, Key(t))]]
    /\ UNCHANGED <<invoice, age, chain, ledger, refs, req>>

\* Variants: a status that the model does not know, and a credit that does not
\* wait for the confirmation.
OutcomeVariance(row, a, confirmed) ==
    IF ~ confirmed THEN "CONFIRMING"
    ELSE IF a = row.amount /\ row.toman < Threshold THEN "CREDITED"
    ELSE IF a > row.amount THEN "OVERPAID" ELSE "UNDERPAID"
OutcomeUnconfirmed(row, a, confirmed) ==
    IF a = row.amount /\ row.toman < Threshold THEN "CREDITED"
    ELSE IF confirmed THEN "NEEDS_REVIEW" ELSE "CONFIRMING"
\* What a transfer makes of an invoice that is loaded as this row.
Outcome(row, a, confirmed) ==
    IF ~ confirmed THEN "CONFIRMING"
    ELSE IF a = row.amount /\ row.toman < Threshold THEN "CREDITED"
    ELSE "NEEDS_REVIEW"

\* A column of row i that was loaded with one value and is assigned another.
Flushed(current, loaded, assigned) == IF assigned = loaded THEN current ELSE assigned

Written(now, row, t, a, status) ==
    [now EXCEPT
        !.hash = Flushed(@, row.hash, t),
        !.paid = Flushed(@, row.paid, a),
        !.detected = TRUE,
        !.status = Flushed(@, row.status, status),
        !.active = IF status = "CONFIRMING" THEN @ ELSE Flushed(@, row.active, FALSE)]

Unwork(c) == cycle' = [cycle EXCEPT ![c].work = None]

\* process_transfer from the lock to the commit.  UNIQUE(network, tx_hash) and the
\* key of the transaction refuse what another session has written meanwhile.
Apply(c) ==
    /\ ~ Listing(c)
    /\ LET w == cycle[c].work
           a == chain[w.hash].amount
           status == Outcome(w.row, a, w.confirmed)
       IN  /\ HashFree(w.hash, w.id)
           /\ invoice' = [invoice EXCEPT ![w.id] = Written(@, w.row, w.hash, a, status)]
           /\ IF status = "CREDITED"
              THEN /\ HasTx(ledger, w.row.user, Key(w.hash)) => w.posted
                   /\ Credited(w.id, w.hash)
              ELSE UNCHANGED <<ledger, refs>>
    /\ Unwork(c)
    /\ UNCHANGED <<age, chain, req>>

\* The session of one transfer fails and is rolled back.
ApplyFails(c) ==
    /\ ~ Listing(c)
    /\ Unwork(c)
    /\ UNCHANGED <<invoice, age, chain, ledger, refs, req>>

\* Variants: the invoices nobody has paid only, and those in any status.
DueUnpaid == {i \in Invoices : InStatus(i, {"WAITING_PAYMENT"}) /\ age[i] = "over"}
DueAll == {i \in Invoices : Exists(i) /\ age[i] = "over"}
Due == {i \in Invoices : Open(i) /\ age[i] = "over"}

\* expire_due, the end of a cycle: the rows are read under their locks.
Scanned(c) == Listing(c) /\ cycle[c].batch = {} /\ cycle[c].net = Len(Networks)
Expire(c) ==
    /\ Scanned(c)
    /\ invoice' = [i \in Invoices |->
                     IF i \in Due THEN [invoice[i] EXCEPT !.status = "EXPIRED", !.active = FALSE]
                     ELSE invoice[i]]
    /\ cycle' = [cycle EXCEPT ![c] = At(0, {})]
    /\ UNCHANGED <<age, chain, ledger, refs, req>>

\* The process stops, or an exception ends the cycle.  At the end of a cycle with
\* nothing to expire that is the same step as Expire.
CycleDies(c) ==
    /\ cycle[c] # At(0, {})
    /\ Scanned(c) => Due # {}
    /\ cycle' = [cycle EXCEPT ![c] = At(0, {})]
    /\ UNCHANGED <<invoice, age, chain, ledger, refs, req>>

-----------------------------------------------------------------------------
Init ==
    /\ invoice = [i \in Invoices |-> None]
    /\ age = [i \in Invoices |-> "fresh"]
    /\ chain = [t \in Transfers |-> None]
    /\ ledger = {}
    /\ refs = [p \in Users \X Transfers |-> None]
    /\ cycle = [c \in Cycles |-> At(0, {})]
    /\ req = [s \in Slots |-> Idle]

\* The routes of users and of administrators.
UserRequests ==
    \/ \E s \in Slots :
          \/ \E u \in Users, net \in Nets, a \in Amounts : BeginCreate(s, u, net, a)
          \/ \E i \in Invoices : Create(s, i)
          \/ Drop(s)
    \/ \E i \in Invoices :
          \/ \E t \in Transfers : Claim(i, t)
          \/ Cancel(i)
          \/ \E submitted \in BOOLEAN : WalletEvent(i, submitted)

AdminRequests == \E i \in Invoices : Approve(i) \/ Reject(i)

World ==
    \/ \E t \in Transfers :
          \/ \E net \in Nets, a \in Sent, memo \in Invoices \cup {None} :
                /\ net = "TRON" => memo = None
                /\ Pay(t, net, a, memo)
          \/ Confirm(t)
    \/ \E i \in Invoices : Tick(i)

Work(c) == Scan(c) \/ ScanFails(c) \/ Match(c) \/ Apply(c) \/ ApplyFails(c)

Next ==
    \/ UserRequests
    \/ AdminRequests
    \/ World
    \/ \E c \in Cycles : Work(c) \/ Expire(c) \/ CycleDies(c)

Spec == Init /\ [][Next]_vars

\* A cycle settles an invoice with the hash it found claimed for it.
Settling(c, i) ==
    /\ ~ Listing(c)
    /\ cycle[c].work.id = i
    /\ cycle[c].work.row.hash = cycle[c].work.hash

\* Nobody claims another hash for an invoice that is just being settled with the one
\* claimed before: process_transfer decides on the row it has loaded and does not look
\* at the hash again.
Undisturbed ==
    \A i \in Invoices, t \in Transfers :
        Claim(i, t) => t = invoice[i].hash \/ \A c \in Cycles : ~ Settling(c, i)

\* The behaviours in which that does not happen.
QuietSpec == Init /\ [][Next /\ Undisturbed]_vars

\* Time passes, the worker polls for ever, and the process is not restarted for ever.
FairSpec ==
    /\ Spec
    /\ <>[][\A c \in Cycles : ~ CycleDies(c)]_vars
    /\ \A i \in Invoices : WF_vars(Tick(i))
    /\ \A c \in Cycles : WF_vars(Work(c) \/ Expire(c))
-----------------------------------------------------------------------------
(* Types *)

InvoiceStatus == OPEN_STATUSES \cup {"CREDITED", "EXPIRED", "NEEDS_REVIEW", "REJECTED", "CANCELLED"}

InvoiceRow ==
    [user : Users, net : Nets, amount : Nat, toman : Nat \ {0}, status : InvoiceStatus,
     active : BOOLEAN, hash : Transfers \cup {None}, paid : Nat, detected : BOOLEAN,
     requested : BOOLEAN, claims : 0 .. MaxClaims]
TransferRow ==
    [net : Nets, amount : Sent, memo : Invoices \cup {None}, confirmed : BOOLEAN,
     window : SUBSET Invoices]
WorkRow ==
    [hash : Transfers, confirmed : BOOLEAN, id : Invoices, row : InvoiceRow, posted : BOOLEAN]
CycleRow ==
    [net : 0 .. Len(Networks), batch : SUBSET (Transfers \X BOOLEAN), work : WorkRow \cup {None}]

ASSUME NoneAssumption == None \notin InvoiceRow \cup TransferRow \cup WorkRow

Creation == [user : Users, net : Nets, raw : Amounts, taken : SUBSET Nat]

TxRecord == [user : Users, key : [kind : {"CRYPTO"}, ref : Transfers], amount : Nat \ {0}]

TypeOK ==
    /\ invoice \in [Invoices -> InvoiceRow \cup {None}]
    /\ age \in [Invoices -> {"fresh", "late", "over"}]
    /\ chain \in [Transfers -> TransferRow \cup {None}]
    /\ ledger \in SUBSET TxRecord
    /\ refs \in [Users \X Transfers -> Invoices \cup {None}]
    /\ cycle \in [Cycles -> CycleRow]
    /\ req \in [Slots -> Creation \cup {Idle}]
-----------------------------------------------------------------------------
(* The daily reconciliation (crypto_reconciliation_service.py) *)

\* Invoices that count as paid by a transfer that is not on the chain.
MissingOnChain ==
    {i \in Invoices : InStatus(i, {"CREDITED", "NEEDS_REVIEW"}) /\ chain[invoice[i].hash] = None}

\* The credit an invoice links to is missing, of another amount or for another
\* invoice; or a credit has no credited invoice that links to it.
WrongCredit(i) ==
    LET t == invoice[i].hash
    IN  \/ ~ HasTx(ledger, invoice[i].user, Key(t))
        \/ Settle(i, t) \notin ledger
        \/ refs[<<invoice[i].user, t>>] # i
LedgerMismatches ==
    {i \in Invoices : InStatus(i, {"CREDITED"}) /\ WrongCredit(i)}
OrphanCredits ==
    {x \in ledger : \A i \in Invoices :
        ~ (InStatus(i, {"CREDITED"}) /\ invoice[i].user = x.user /\ Key(invoice[i].hash) = x.key)}
-----------------------------------------------------------------------------
(* Properties *)

\* However users, administrators and a cycle that works on rows it read too early
\* get in one another's way, the money side of the reconciliation report stays
\* clean: credited invoices and credits of the ledger correspond one to one, in
\* amount and reference, and each names a transfer of the chain.  A transfer pays
\* one invoice, whoever owns it: the key of a credit is unique for a wallet only.
Reconciled ==
    /\ LedgerMismatches = {}
    /\ OrphanCredits = {}
    /\ MissingOnChain = {}
    /\ \A x, y \in ledger : x.key = y.key => x = y

\* Nothing is credited but for a confirmed transfer that was sent in the window of
\* the invoice and paid it in full.
CreditBacked ==
    \A i \in Invoices : InStatus(i, {"CREDITED"}) =>
        LET t == invoice[i].hash
        IN  /\ chain[t].confirmed
            /\ i \in chain[t].window
            /\ chain[t].amount >= invoice[i].amount

\* A credited invoice stays credited and keeps the transfer that paid it.
CreditedForGood ==
    [][\A i \in Invoices : InStatus(i, {"CREDITED"}) =>
          /\ InStatus(i, {"CREDITED"})'
          /\ invoice'[i].hash = invoice[i].hash]_vars

\* Every invoice comes to an end, also when the chain is never read: the user,
\* who may have one open invoice, is not locked out for ever.
SlotFreed == \A i \in Invoices : Open(i) ~> ~ Open(i)

-----------------------------------------------------------------------------
(* What the code says and does not keep (README.md) *)

\* UNIQUE(active_user_id): a user has one open invoice.
OneOpenPerUser ==
    \A i, j \in Invoices : Open(i) /\ Open(j) /\ invoice[i].user = invoice[j].user => i = j

\* A transfer can be told apart by its amount (_unique_open_amount).
OpenAmountsDiffer ==
    \A i, j \in Invoices :
        Open(i) /\ Open(j) /\ invoice[i].net = invoice[j].net /\ invoice[i].amount = invoice[j].amount => i = j

\* A decision is final.
DecidedForGood ==
    [][\A i \in Invoices : InStatus(i, {"CANCELLED", "REJECTED"}) => invoice'[i].status = invoice[i].status]_vars

\* A payment that was seen is not forgotten: it is credited, or an administrator
\* sees it.
SeenIsNotForgotten ==
    \A i \in Invoices : InStatus(i, {"EXPIRED"}) => ~ invoice[i].detected
=============================================================================
