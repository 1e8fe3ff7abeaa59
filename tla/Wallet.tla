------------------------------- MODULE Wallet -------------------------------
(***************************************************************************)
(* WalletService (services/wallet_service.py): the rows of wallets and     *)
(* wallet_txs under concurrent requests.                                   *)
(*                                                                         *)
(* A request is a database transaction in two steps.  Begin is its first   *)
(* plain read: under REPEATABLE READ, the default of the MySQL server of   *)
(* docker-compose.yml, it fixes what every later plain read returns.       *)
(* Credit and Debit run the locked part and commit: the row lock of        *)
(* SELECT ... FOR UPDATE is held to the commit, so no other request comes  *)
(* between.  Drop is every way to end without effect: the transaction was  *)
(* there already, a refusal, an error, a crash.                            *)
(*                                                                         *)
(* wallet-adjust (routers/admin_users_router.py) reads the wallet before   *)
(* it calls credit or debit and keeps the object.  The session then        *)
(* answers the FOR UPDATE query with that object and does not refresh it,  *)
(* so such a request computes the new balance from what it saw at Begin.   *)
(***************************************************************************)
EXTENDS Ledger

CONSTANTS
    Users,      \* the users that may own a wallet
    Keys,       \* idempotency keys
    Amounts,    \* amounts of a request, before the sign
    Slots,      \* the requests the server handles at the same time
    Adjust,     \* TRUE when requests come through wallet-adjust too
    Missing,    \* the wallet of a user who has none yet
    Idle        \* the state of a slot without a request

ASSUME WalletAssumption ==
    /\ Amounts \subseteq Nat \ {0}
    /\ Adjust \in BOOLEAN
    /\ Missing \notin Int

VARIABLES
    wallet,     \* wallet[u]: the column balance, or Missing
    ledger,     \* the rows of wallet_txs
    req         \* req[s]: the request in slot s, with what it has read

vars == <<wallet, ledger, req>>

\* sign is 1 for credit and -1 for debit; preload marks wallet-adjust.  known
\* is what the snapshot answers to the lookup of the key, object the wallet row
\* that wallet-adjust reads.
Order == [user : Users, key : Keys, amount : Amounts, sign : {1, -1},
          preload : {FALSE, Adjust}]

TxRecord == [user : Users, key : Keys, amount : Int]
Rows     == Nat \cup {Missing}
Request  == [order : Order, known : BOOLEAN, object : Rows]

Init ==
    /\ wallet = [u \in Users |-> Missing]
    /\ ledger = {}
    /\ req = [s \in Slots |-> Idle]

Begin(s, o) ==
    /\ req[s] = Idle
    /\ req' = [req EXCEPT ![s] =
                 [order |-> o,
                  known |-> HasTx(ledger, o.user, o.key),
                  object |-> wallet[o.user]]]
    /\ UNCHANGED <<wallet, ledger>>

\* Variant of Object: the row every request saw at Begin.
ObjectStale(s) == req[s].object

\* The wallet object the locked part works on.
Object(s) == IF req[s].order.preload THEN req[s].object ELSE wallet[req[s].order.user]

\* The balance before the change, and the row the request may insert: the
\* insert fails when another request has created the wallet (UNIQUE user_id).
Before(s)   == IF Object(s) = Missing THEN 0 ELSE Object(s)
MayWrite(s) == Object(s) = Missing => wallet[req[s].order.user] = Missing

\* Variant of Unposted without the unique index.
UnpostedByLookup(s) == ~ req[s].known

\* The row is new: the lookup by key, a plain read, did not find it in the
\* snapshot, and the unique index, which sees every committed row, does not
\* refuse the insert.
Unposted(s) ==
    LET o == req[s].order IN ~ req[s].known /\ ~ HasTx(ledger, o.user, o.key)

Write(s, balance) ==
    LET o == req[s].order
    IN  /\ wallet' = [wallet EXCEPT ![o.user] = balance]
        /\ ledger' = ledger \cup {Tx(o.user, o.key, o.sign * o.amount)}
        /\ req' = [req EXCEPT ![s] = Idle]

Credit(s) ==
    /\ req[s] # Idle
    /\ req[s].order.sign = 1
    /\ MayWrite(s)
    /\ Unposted(s)
    /\ Write(s, Before(s) + req[s].order.amount)

\* Variant of Debit that does not look at the balance.
DebitUnchecked(s) ==
    /\ req[s] # Idle
    /\ req[s].order.sign = -1
    /\ Object(s) # Missing
    /\ Unposted(s)
    /\ Write(s, Before(s) - req[s].order.amount)

\* debit creates no wallet of its own; wallet-adjust has created one before.
Debit(s) ==
    /\ req[s] # Idle
    /\ req[s].order.sign = -1
    /\ Object(s) # Missing
    /\ Unposted(s)
    /\ Before(s) >= req[s].order.amount
    /\ Write(s, Before(s) - req[s].order.amount)

Drop(s) ==
    /\ req[s] # Idle
    /\ req' = [req EXCEPT ![s] = Idle]
    /\ UNCHANGED <<wallet, ledger>>

Next == \E s \in Slots :
    \/ \E o \in Order : Begin(s, o)
    \/ Credit(s)
    \/ Debit(s)
    \/ Drop(s)

Spec == Init /\ [][Next]_vars

-----------------------------------------------------------------------------
\* Type correctness: a wallet that exists never shows a negative balance
\* (wallet_service.py:129 and :145, and "negative balances" of the integrity
\* report, admin_reports_router.py:202).
TypeOK ==
    /\ wallet \in [Users -> Rows]
    /\ ledger \in SUBSET TxRecord
    /\ req \in [Slots -> Request \cup {Idle}]

\* Every wallet shows the sum of its transactions: no concurrent credit or
\* debit is lost, whatever each request read before it had the row lock.
Shown(u) == IF wallet[u] = Missing THEN 0 ELSE wallet[u]
BalanceIsLedger == \A u \in Users : Shown(u) = Balance(ledger, u)

\* The same step by step: what a wallet shows moves by the amount of the one
\* transaction posted to it and not otherwise, however much time lay between
\* what the request first read and what it writes.
MovesByPosting ==
    [][\A u \in Users :
          LET new == {t \in ledger' \ ledger : t.user = u}
          IN  \/ new = {} /\ Shown(u)' = Shown(u)
              \/ \E t \in new : new = {t} /\ Shown(u)' = Shown(u) + t.amount]_vars

\* However often and in whatever order requests are retried, an idempotency
\* key moves the money of one wallet once ("duplicate_wallet_idempotency" of
\* the integrity report), also when retries overlap and each has looked the
\* key up before the other committed.
OnePerKey ==
    \A t1, t2 \in ledger : t1.user = t2.user /\ t1.key = t2.key => t1 = t2

\* The wallet keeps the promise of the ledger.
Promise == INSTANCE LedgerSpec
LedgerKept == Promise!Spec
=============================================================================
