----------------------------- MODULE LedgerSpec -----------------------------
(***************************************************************************)
(* What the wallet promises to every component that pays through it:       *)
(* money moves only by posting transactions, a transaction is never        *)
(* changed or taken back, a wallet and a key name at most one transaction, *)
(* and no wallet is overdrawn.                                             *)
(*                                                                         *)
(* Wallet.tla, Game.tla and Finance.tla implement this specification.      *)
(***************************************************************************)
EXTENDS Ledger

CONSTANTS
    Users,      \* the owners of the wallets
    TxRecord    \* the transactions that can be posted

VARIABLE ledger

\* The ledger already holds the money users brought along.
Init ==
    /\ ledger \in SUBSET TxRecord
    /\ \A u \in Users : Balance(ledger, u) >= 0

\* One committed database transaction: a batch of rows whose keys are new and
\* different from one another.
Post ==
    /\ ledger \subseteq ledger'
    /\ LET batch == ledger' \ ledger
       IN  /\ batch \subseteq TxRecord
           /\ \A t \in batch :
                 /\ ~ HasTx(ledger, t.user, t.key)
                 /\ \A s \in batch : s.user = t.user /\ s.key = t.key => s = t
    /\ \A u \in Users : Balance(ledger', u) >= 0

Spec == Init /\ [][Post]_ledger
=============================================================================
