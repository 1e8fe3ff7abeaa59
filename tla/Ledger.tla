------------------------------- MODULE Ledger -------------------------------
(***************************************************************************)
(* The table wallet_txs, as a set of transactions, and what posting to it  *)
(* means (services/wallet_service.py, WalletService.credit and debit).     *)
(*                                                                         *)
(* A transaction is [user, key, amount]: the owner of the wallet, the      *)
(* idempotency key and the amount, positive for direction CREDIT and       *)
(* negative for DEBIT.  The reason and the reference are not kept: the     *)
(* idempotency keys tell the transactions apart as far as any property     *)
(* needs.                                                                  *)
(*                                                                         *)
(* The module has no state.  The components that pay through the wallet    *)
(* keep a variable that holds such a set; Wallet.tla shows under which     *)
(* requests the column wallets.balance is the sum Balance computes here.   *)
(***************************************************************************)
EXTENDS Integers, FiniteSets, FiniteSetsExt

Tx(u, k, a) == [user |-> u, key |-> k, amount |-> a]

\* The lookup by (wallet_id, idempotency_key) that credit and debit start with.
HasTx(L, u, k) == \E t \in L : t.user = u /\ t.key = k

\* The sum of the transactions of user u.
Balance(L, u) == MapThenSumSet(LAMBDA t : t.amount, {t \in L : t.user = u})

\* The orders that lead to a new row: the others find their transaction and
\* return it without changing the wallet.
NewTxs(L, orders) == {o \in orders : ~ HasTx(L, o.user, o.key)}

\* The ledger after one database transaction has posted these orders.
Posted(L, orders) == L \cup NewTxs(L, orders)

\* The lookup is a plain read, so it sees the snapshot the database
\* transaction took, and the insert meets UNIQUE(wallet_id, idempotency_key):
\* an order whose key was committed after the snapshot fails.
Insertable(L, snapshot, orders) ==
    \A o \in orders : HasTx(L, o.user, o.key) => HasTx(snapshot, o.user, o.key)

\* debit refuses an amount above the balance.  Debits of one database
\* transaction only lower the balance, so they all pass exactly when none of
\* the wallets they touch ends below zero.
Affordable(L, orders) ==
    \A u \in {o.user : o \in NewTxs(L, orders)} : Balance(Posted(L, orders), u) >= 0

\* What a user still has of the transactions whose key satisfies a predicate.
NetOf(L, Select(_)) ==
    MapThenSumSet(LAMBDA t : t.amount, {t \in L : Select(t)})
=============================================================================
