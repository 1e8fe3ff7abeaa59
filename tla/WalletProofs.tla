---------------------------- MODULE WalletProofs ----------------------------
(***************************************************************************)
(* Theorems about Wallet.tla for every set of users, keys, amounts and     *)
(* concurrent requests.                                                    *)
(*                                                                         *)
(* With and without wallet-adjust no wallet ever shows a negative balance, *)
(* and no idempotency key posts twice. The first needs only that a debit   *)
(* subtracts from a value it has compared with the amount, be it stale or  *)
(* not; the second rests on the unique index alone, whatever the snapshot  *)
(* of the lookup.                                                          *)
(*                                                                         *)
(* Without wallet-adjust a request works on the row it holds under the     *)
(* lock (ObjectIsRow). Then a step posts one transaction and moves the     *)
(* wallet by its amount (Moves), the column balance stays the sum of the   *)
(* ledger (Booked), and the wallet implements LedgerSpec.                  *)
(***************************************************************************)
EXTENDS Wallet, LedgerProofs

\* A request in flight has been taken from Order and has read rows of wallets.
LEMMA RequestInFlight ==
    ASSUME TypeOK, NEW s \in Slots, req[s] # Idle
    PROVE  /\ req[s] \in Request
           /\ req[s].order \in Order
           /\ req[s].object \in Rows
           /\ req[s].order.user \in Users
           /\ req[s].order.amount \in Nat \ {0}
           /\ req[s].order.sign \in {1, -1}
  <1>1. req[s] \in Request
    BY DEF TypeOK
  <1>2. req[s].order \in Order /\ req[s].object \in Rows
    BY <1>1 DEF Request
  <1>3. QED
    BY <1>1, <1>2, WalletAssumption DEF Order

\* The balance a request starts from is a natural number.
LEMMA BeforeIsNat ==
    ASSUME TypeOK, NEW s \in Slots, req[s] # Idle
    PROVE  Object(s) \in Rows /\ Before(s) \in Nat
  <1>1. Object(s) \in Rows
    BY RequestInFlight DEF Object, TypeOK
  <1>2. QED
    BY <1>1 DEF Before, Rows

\* Writing a natural number as the balance keeps the types.
LEMMA WriteTyped ==
    ASSUME TypeOK, NEW s \in Slots, req[s] # Idle,
           NEW balance \in Nat, Write(s, balance)
    PROVE  TypeOK'
  <1> DEFINE o == req[s].order
  <1>1. /\ o.user \in Users
        /\ o.key \in Keys
        /\ o.amount \in Nat
        /\ o.sign \in {1, -1}
    BY RequestInFlight DEF Order
  <1>2. o.sign * o.amount \in Int
    BY <1>1
  <1>3. Tx(o.user, o.key, o.sign * o.amount) \in TxRecord
    BY <1>1, <1>2 DEF Tx, TxRecord
  <1>4. ledger' \in SUBSET TxRecord
    BY <1>3 DEF Write, TypeOK
  <1>5. wallet' \in [Users -> Rows]
    BY <1>1 DEF Write, TypeOK, Rows
  <1>6. req' \in [Slots -> Request \cup {Idle}]
    BY DEF Write, TypeOK
  <1>7. QED
    BY <1>4, <1>5, <1>6 DEF TypeOK

\* Every reachable state is typed: in particular no wallet shows a negative
\* balance, even when wallet-adjust writes a balance from a stale row.
THEOREM NeverNegative == Spec => []TypeOK
  <1>1. Init => TypeOK
    BY DEF Init, TypeOK, Rows
  <1>2. TypeOK /\ [Next]_vars => TypeOK'
    <2> SUFFICES ASSUME TypeOK, [Next]_vars PROVE TypeOK'
      OBVIOUS
    <2>1. ASSUME NEW s \in Slots, NEW o \in Order, Begin(s, o) PROVE TypeOK'
      <3>1. o.user \in Users
        BY DEF Order
      <3>2. [order |-> o, known |-> HasTx(ledger, o.user, o.key),
             object |-> wallet[o.user]] \in Request
        BY <3>1 DEF Request, TypeOK, HasTx
      <3>3. QED
        BY <2>1, <3>2 DEF Begin, TypeOK
    <2>2. ASSUME NEW s \in Slots, Credit(s) PROVE TypeOK'
      <3>1. Before(s) + req[s].order.amount \in Nat
        BY <2>2, BeforeIsNat, RequestInFlight DEF Credit
      <3>2. QED
        BY <2>2, <3>1, WriteTyped DEF Credit
    <2>3. ASSUME NEW s \in Slots, Debit(s) PROVE TypeOK'
      <3>1. Before(s) - req[s].order.amount \in Nat
        BY <2>3, BeforeIsNat, RequestInFlight DEF Debit
      <3>2. QED
        BY <2>3, <3>1, WriteTyped DEF Debit
    <2>4. ASSUME NEW s \in Slots, Drop(s) PROVE TypeOK'
      BY <2>4 DEF Drop, TypeOK
    <2>5. CASE UNCHANGED vars
      BY <2>5 DEF vars, TypeOK
    <2>6. QED
      BY <2>1, <2>2, <2>3, <2>4, <2>5 DEF Next
  <1>3. QED
    BY <1>1, <1>2, PTL DEF Spec

\* In every interleaving of retries an idempotency key posts at most one
\* transaction per wallet.
THEOREM AtMostOnce == Spec => []OnePerKey
  <1>1. Init => OnePerKey
    BY DEF Init, OnePerKey
  <1>2. OnePerKey /\ [Next]_vars => OnePerKey'
    <2> SUFFICES ASSUME OnePerKey, [Next]_vars PROVE OnePerKey'
      OBVIOUS
    <2>1. ASSUME NEW s \in Slots, NEW balance, Unposted(s), Write(s, balance)
          PROVE  OnePerKey'
      <3> DEFINE o == req[s].order
                 t == Tx(o.user, o.key, o.sign * o.amount)
      <3>1. ledger' = ledger \cup {t}
        BY <2>1 DEF Write
      <3>2. t.user = o.user /\ t.key = o.key
        BY DEF Tx
      <3>3. \A r \in ledger : ~ (r.user = o.user /\ r.key = o.key)
        BY <2>1 DEF Unposted, HasTx
      <3>4. QED
        BY <3>1, <3>2, <3>3 DEF OnePerKey
    <2>2. ASSUME UNCHANGED ledger PROVE OnePerKey'
      BY <2>2 DEF OnePerKey
    <2>3. QED
      BY <2>1, <2>2 DEF Next, vars, Begin, Credit, Debit, Drop
  <1>3. QED
    BY <1>1, <1>2, PTL DEF Spec

\* Without wallet-adjust every request computes the new balance from the row it
\* has locked.
LEMMA ObjectIsRow ==
    ASSUME Adjust = FALSE, TypeOK, NEW s \in Slots, req[s] # Idle
    PROVE  Object(s) = wallet[req[s].order.user]
  <1>1. req[s].order.preload \in {FALSE, Adjust}
    BY RequestInFlight DEF Order
  <1>2. QED
    BY <1>1 DEF Object

\* A write that adds the signed amount to what the wallet shows moves it by the
\* one transaction it posts.
LEMMA WriteMoves ==
    ASSUME TypeOK, NEW s \in Slots, req[s] # Idle, Unposted(s),
           NEW u \in Users,
           Write(s, Shown(req[s].order.user) + req[s].order.sign * req[s].order.amount)
    PROVE  LET new == {t \in ledger' \ ledger : t.user = u}
           IN  \/ new = {} /\ Shown(u)' = Shown(u)
               \/ \E t \in new : new = {t} /\ Shown(u)' = Shown(u) + t.amount
  <1> DEFINE o   == req[s].order
             a   == o.sign * o.amount
             t0  == Tx(o.user, o.key, a)
             new == {t \in ledger' \ ledger : t.user = u}
  <1>1. o.user \in Users /\ o.amount \in Nat /\ o.sign \in {1, -1}
    BY RequestInFlight
  <1>2. t0.user = o.user /\ t0.key = o.key /\ t0.amount = a
    BY DEF Tx
  <1>3. t0 \notin ledger
    BY <1>2 DEF Unposted, HasTx
  <1>4. ledger' = ledger \cup {t0}
    BY DEF Write
  <1>5. Shown(o.user) + a \in Int
    BY <1>1 DEF Shown, TypeOK, Rows
  <1>6. wallet' = [wallet EXCEPT ![o.user] = Shown(o.user) + a]
    BY DEF Write
  <1>7. CASE u = o.user
    <2>1. new = {t0}
      BY <1>2, <1>3, <1>4, <1>7
    <2>2. wallet'[u] = Shown(u) + a
      BY <1>1, <1>6, <1>7 DEF TypeOK
    <2>3. Shown(u)' = Shown(u) + a
      BY <1>5, <1>7, <2>2, WalletAssumption DEF Shown
    <2>4. QED
      BY <1>2, <2>1, <2>3
  <1>8. CASE u # o.user
    <2>1. new = {}
      BY <1>2, <1>3, <1>4, <1>8
    <2>2. wallet'[u] = wallet[u]
      BY <1>1, <1>6, <1>8 DEF TypeOK
    <2>3. Shown(u)' = Shown(u)
      BY <2>2 DEF Shown
    <2>4. QED
      BY <2>1, <2>3
  <1>9. QED
    BY <1>7, <1>8

\* What every wallet shows moves by the one transaction posted to it.
Moves ==
    \A u \in Users :
       LET new == {t \in ledger' \ ledger : t.user = u}
       IN  \/ new = {} /\ Shown(u)' = Shown(u)
           \/ \E t \in new : new = {t} /\ Shown(u)' = Shown(u) + t.amount

\* A step moves a wallet by what it posts to it.
LEMMA StepMoves == ASSUME Adjust = FALSE, TypeOK, [Next]_vars PROVE Moves
  <1>1. ASSUME NEW s \in Slots, Credit(s) PROVE Moves
    <2>1. req[s] # Idle /\ Unposted(s) /\ req[s].order.sign = 1
      BY <1>1 DEF Credit
    <2>2. Before(s) = Shown(req[s].order.user)
      BY <2>1, ObjectIsRow DEF Before, Shown
    <2>3. Before(s) + req[s].order.amount
            = Shown(req[s].order.user) + req[s].order.sign * req[s].order.amount
      BY <2>1, <2>2, RequestInFlight
    <2>4. QED
      BY <1>1, <2>1, <2>3, WriteMoves DEF Credit, Moves
  <1>2. ASSUME NEW s \in Slots, Debit(s) PROVE Moves
    <2>1. req[s] # Idle /\ Unposted(s) /\ req[s].order.sign = -1
      BY <1>2 DEF Debit
    <2>2. Before(s) = Shown(req[s].order.user)
      BY <2>1, ObjectIsRow DEF Before, Shown
    <2>3. Before(s) \in Nat
      BY <2>1, BeforeIsNat
    <2>4. Before(s) - req[s].order.amount
            = Shown(req[s].order.user) + req[s].order.sign * req[s].order.amount
      BY <2>1, <2>2, <2>3, RequestInFlight
    <2>5. QED
      BY <1>2, <2>1, <2>4, WriteMoves DEF Debit, Moves
  <1>3. ASSUME UNCHANGED <<wallet, ledger>> PROVE Moves
    BY <1>3 DEF Moves, Shown
  <1>4. QED
    BY <1>1, <1>2, <1>3 DEF Next, vars, Begin, Drop

\* Unless wallet-adjust is used no update of a balance is ever lost.
THEOREM NoLostUpdate == Adjust = FALSE => (Spec => MovesByPosting)
  <1> SUFFICES ASSUME Adjust = FALSE PROVE Spec => MovesByPosting
    OBVIOUS
  <1>1. TypeOK /\ [Next]_vars => [Moves]_vars
    BY StepMoves
  <1>2. QED
    BY <1>1, NeverNegative, PTL DEF Spec, MovesByPosting, Moves

-----------------------------------------------------------------------------
(* The sum of the transactions *)

\* A request posts one transaction, under a key that is new to its wallet.
LEMMA WritePosts ==
    ASSUME TypeOK, NEW s \in Slots, req[s] # Idle, Unposted(s), NEW balance, Write(s, balance)
    PROVE  \E t \in TxRecord : ledger' = ledger \cup {t} /\ ~ HasTx(ledger, t.user, t.key)
  <1> DEFINE o == req[s].order
             t == Tx(o.user, o.key, o.sign * o.amount)
  <1>1. /\ o.user \in Users
        /\ o.key \in Keys
        /\ o.amount \in Nat
        /\ o.sign \in {1, -1}
    BY RequestInFlight DEF Order
  <1>2. t.user = o.user /\ t.key = o.key /\ t \in TxRecord
    <2>1. o.sign * o.amount \in Int
      BY <1>1
    <2>2. QED
      BY <1>1, <2>1 DEF Tx, TxRecord
  <1>3. ledger' = ledger \cup {t} /\ ~ HasTx(ledger, o.user, o.key)
    BY DEF Write, Unposted
  <1> HIDE DEF o, t
  <1>4. QED
    BY <1>2, <1>3

\* A step leaves wallets and ledger alone or posts one transaction.
LEMMA StepPosts ==
    ASSUME TypeOK, [Next]_vars
    PROVE  \/ ledger' = ledger
           \/ \E t \in TxRecord : ledger' = ledger \cup {t} /\ ~ HasTx(ledger, t.user, t.key)
  <1>1. ASSUME NEW s \in Slots, Credit(s) \/ Debit(s)
        PROVE  \E t \in TxRecord : ledger' = ledger \cup {t} /\ ~ HasTx(ledger, t.user, t.key)
    <2>1. req[s] # Idle /\ Unposted(s) /\ \E balance : Write(s, balance)
      BY <1>1 DEF Credit, Debit
    <2>2. QED
      BY <2>1, WritePosts
  <1>2. QED
    BY <1>1 DEF Next, vars, Begin, Drop

Booked == IsFiniteSet(ledger) /\ BalanceIsLedger

\* A wallet that showed the sum and moves by what is posted to it shows the sum.
LEMMA StepBooked == ASSUME Adjust = FALSE, TypeOK, Booked, [Next]_vars PROVE Booked'
  <1>1. \/ ledger' = ledger
        \/ \E t \in TxRecord : ledger' = ledger \cup {t} /\ ~ HasTx(ledger, t.user, t.key)
    BY StepPosts
  <1>2. IsFiniteSet(ledger') /\ ledger \subseteq ledger' /\ ledger' \subseteq TxRecord
    BY <1>1, FS_AddElement DEF Booked, TypeOK
  <1>3. ASSUME NEW u \in Users PROVE (Shown(u) = Balance(ledger, u))'
    <2> DEFINE new == {t \in ledger' \ ledger : t.user = u}
    <2>1. Of(ledger', u) = Of(ledger, u) \cup new
      BY <1>2 DEF Of
    <2>2. IsFiniteSet(Of(ledger, u))
      BY FS_Subset DEF Booked, Of
    <2>3. Shown(u) = Sum(Of(ledger, u))
      BY BalanceIsSum DEF Booked, BalanceIsLedger
    <2>4. \A t \in Of(ledger', u) : t.amount \in Int
      BY <1>2 DEF Of, TxRecord
    <2>5. Sum(Of(ledger', u)) = Shown(u)'
      <3>1. CASE new = {} /\ Shown(u)' = Shown(u)
        BY <2>1, <2>3, <3>1
      <3>2. CASE \E t \in new : new = {t} /\ Shown(u)' = Shown(u) + t.amount
        <4>1. PICK t \in new : new = {t} /\ Shown(u)' = Shown(u) + t.amount
          BY <3>2
        <4>2. t \notin Of(ledger, u)
          BY <4>1 DEF Of
        <4> HIDE DEF new
        <4>3. Sum(Of(ledger', u)) = Sum(Of(ledger, u)) + t.amount
          BY <2>1, <2>2, <2>4, <4>1, <4>2, SumAdd
        <4>4. QED
          BY <2>3, <4>1, <4>3
      <3>3. QED
        BY <3>1, <3>2, StepMoves DEF Moves
    <2>6. QED
      BY <2>5, BalanceIsSum
  <1>4. QED
    BY <1>2, <1>3 DEF Booked, BalanceIsLedger

\* The balance is the sum of a finite ledger, in every reachable state.
LEMMA BookedHolds == Adjust = FALSE => (Spec => []Booked)
  <1> SUFFICES ASSUME Adjust = FALSE PROVE Spec => []Booked
    OBVIOUS
  <1>1. Init => Booked
    <2>1. \A u : Of({}, u) = {}
      BY DEF Of
    <2>2. QED
      BY <2>1, SumEmpty, BalanceIsSum, FS_EmptySet DEF Init, Booked, BalanceIsLedger, Shown
  <1>2. TypeOK /\ Booked /\ [Next]_vars => Booked'
    BY StepBooked
  <1>3. QED
    BY <1>1, <1>2, NeverNegative, PTL DEF Spec

\* Unless wallet-adjust is used every wallet shows the sum of its transactions,
\* whatever the requests have read before they locked it.
THEOREM BalancesAreSums == Adjust = FALSE => (Spec => []BalanceIsLedger)
  BY BookedHolds, PTL DEF Booked

\* The operators of the promise are those of the ledger.
LEMMA PromisedBalance == ASSUME NEW L, NEW u PROVE Promise!Balance(L, u) = Balance(L, u)
  BY DEF Promise!Balance, Balance, Promise!MapThenSumSet, MapThenSumSet,
         Promise!MapThenFoldSet, MapThenFoldSet

LEMMA PromisedKey == ASSUME NEW L, NEW u, NEW k PROVE Promise!HasTx(L, u, k) <=> HasTx(L, u, k)
  BY DEF Promise!HasTx, HasTx

\* Unless wallet-adjust is used the wallet implements the ledger: every step
\* posts one new transaction that the balance covers, or changes no transaction.
THEOREM WalletIsLedger == Adjust = FALSE => (Spec => LedgerKept)
  <1> SUFFICES ASSUME Adjust = FALSE PROVE Spec => LedgerKept
    OBVIOUS
  <1>1. Init => Promise!Init
    <2> SUFFICES ASSUME Init PROVE Promise!Init
      OBVIOUS
    <2>1. \A u : Balance({}, u) = 0
      <3>1. \A u : Of({}, u) = {}
        BY DEF Of
      <3>2. QED
        BY <3>1, SumEmpty, BalanceIsSum
    <2>2. QED
      BY <2>1, PromisedBalance DEF Init, Promise!Init
  <1>2. TypeOK /\ Booked /\ [Next]_vars /\ TypeOK' /\ Booked' => [Promise!Post]_ledger
    <2> SUFFICES ASSUME TypeOK, Booked, Next, TypeOK', Booked', ledger' # ledger
                 PROVE  Promise!Post
      BY DEF vars
    <2>1. PICK t \in TxRecord : ledger' = ledger \cup {t} /\ ~ HasTx(ledger, t.user, t.key)
      BY StepPosts
    \* A wallet that shows its sum shows no negative one.
    <2>2. \A u \in Users : Balance(ledger', u) >= 0
      BY DEF TypeOK, Booked, BalanceIsLedger, Shown, Rows
    <2>3. QED
      BY <2>1, <2>2, PromisedBalance, PromisedKey DEF Promise!Post
  <1>3. QED
    BY <1>1, <1>2, NeverNegative, BookedHolds, PTL DEF Spec, LedgerKept, Promise!Spec
=============================================================================
