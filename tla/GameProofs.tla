----------------------------- MODULE GameProofs -----------------------------
(***************************************************************************)
(* Theorems about Game.tla for every number of players, cards, numbers,    *)
(* keys and concurrent requests.                                           *)
(*                                                                         *)
(* Types and the promise of the ledger hold through every route: Typed is  *)
(* inductive, and a step posts a batch that is affordable or consists of   *)
(* credits (Batch). The rest holds when no request comes through           *)
(* tg_router (TLC shows that ClosedForGood and PrizesWithinPool fail when  *)
(* one does), along three more inductive invariants:                       *)
(*                                                                         *)
(*   - Lifecycle ties the status of the games row, which every handler     *)
(*     reads under the row lock, to the events and to the kinds of         *)
(*     transactions the game has posted;                                   *)
(*   - Pot: the amounts of the row are the sums of the purchases, which    *)
(*     the wallets have paid;                                              *)
(*   - PrizesHeld: what the players hold of the prizes is covered by the   *)
(*     parts of the pool recorded as paid, which a call fills and an undo  *)
(*     empties. It needs that the shares of a prize add up (SharesAddUp).  *)
(*                                                                         *)
(* For one request at a time, the payout state is a function of the        *)
(* numbers on the board (Drawn).                                           *)
(***************************************************************************)
EXTENDS Game, LedgerProofs, SequenceTheorems

-----------------------------------------------------------------------------
(* Types                                                                   *)
(*                                                                         *)
(* Beside the types, a payout names each card once, the commission never   *)
(* exceeds the sales, and a call looks at cards that exist.                *)

Fields == {"status", "mode", "modeLocked", "sold", "commission", "pool", "locked",
           "colAmount", "rowAmount", "colPaid", "payout"}

PaysOK(pays) ==
    /\ pays \subseteq Pay
    /\ IsFiniteSet(pays)
    /\ \A p, q \in pays : p.card = q.card => p = q

RowOK(g) ==
    /\ g \in GameRow
    /\ g.commission <= g.sold
    /\ g.payout.row # None => PaysOK(g.payout.row.pays)
    /\ g.payout.col # None => PaysOK(g.payout.col.pays)

RequestOK(r, n) ==
    /\ r \in Request
    /\ r.op \in {"start", "call"} /\ r.route = "tg" => RowOK(r.loaded)
    /\ r.op = "call" => r.ncards \in 0..n

CardRow     == [grid : Grids, user : Users, purchase : CardIds]
PurchaseRow == [user : Users, total : Nat \ {0}]
Answer      == [op : {"call"}, key : CallKeys, number : Numbers]
                 \cup [op : {"undo"}, key : UndoKeys, number : Numbers]

ReqsOK == \A s \in Slots : req[s] # Idle => RequestOK(req[s], Len(cards))

Typed ==
    /\ RowOK(game)
    /\ purchases \in Seq(PurchaseRow)
    /\ cards \in Seq(CardRow)
    /\ called \in Seq(Numbers)
    /\ ledger \subseteq TxRecord /\ IsFiniteSet(ledger)
    /\ cache \subseteq Answer
    /\ req \in [Slots -> Request \cup {Idle}] /\ ReqsOK

\* The amounts are natural numbers.
LEMMA BucketsNat ==
    ASSUME NEW x \in Nat
    PROVE  /\ Commission(x) \in Nat
           /\ x > 0 => Commission(x) <= x
           /\ ColBucket(x) \in Nat
           /\ RowBucket(x) \in Nat
           /\ ColBucket(x) + RowBucket(x) = x
  BY DEF Commission, ColBucket, RowBucket

LEMMA ShareNat ==
    ASSUME NEW total \in Nat, NEW winners, IsFiniteSet(winners), winners # {}, NEW c
    PROVE  Share(total, winners, c) \in Nat
  <1> DEFINE n == Cardinality(winners)
  <1>1. n \in Nat \ {0}
    BY FS_CardinalityType, FS_EmptySet
  <1>2. total \div n \in Nat
    <2> HIDE DEF n
    <2>1. QED
      BY <1>1
  <1>3. QED
    BY <1>2 DEF Share

\* The payout of a bucket to cards that exist.
LEMMA PaysTyped ==
    ASSUME Typed, NEW total \in Nat, NEW winners \in SUBSET (1..Len(cards))
    PROVE  PaysOK(Pays(total, winners))
  <1> DEFINE f == [c \in winners |-> [card |-> c, user |-> cards[c].user,
                                      amount |-> Share(total, winners, c)]]
  <1>1. Len(cards) \in Nat /\ \A c \in 1..Len(cards) : cards[c].user \in Users
    <2>1. cards \in Seq(CardRow)
      BY DEF Typed
    <2>2. Len(cards) \in Nat
      BY <2>1, LenProperties
    <2>3. \A c \in 1..Len(cards) : cards[c] \in CardRow
      BY <2>1, ElementOfSeq
    <2>4. QED
      BY <2>2, <2>3 DEF CardRow
  <1>2. IsFiniteSet(winners)
    <2>1. IsFiniteSet(1..Len(cards))
      BY <1>1, FS_Interval
    <2>2. QED
      BY <2>1, FS_Subset
  <1>3. Pays(total, winners) = ValuesOf(f, winners)
    BY DEF Pays, ValuesOf
  <1>4. IsFiniteSet(Pays(total, winners))
    <2> HIDE DEF f
    <2>1. QED
      BY <1>2, <1>3, ValuesFinite
  <1>5. Pays(total, winners) \subseteq Pay
    <2> SUFFICES ASSUME NEW c \in winners
                 PROVE  [card |-> c, user |-> cards[c].user,
                         amount |-> Share(total, winners, c)] \in Pay
      BY DEF Pays
    <2>1. Share(total, winners, c) \in Nat
      BY <1>2, ShareNat
    <2>2. c \in CardIds /\ cards[c].user \in Users
      BY <1>1 DEF CardIds
    <2>3. QED
      BY <2>1, <2>2 DEF Pay
  <1>6. QED
    BY <1>4, <1>5 DEF Pays, PaysOK

\* A prize or a reversal of a payout: one new transaction per card.
LEMMA OrdersTyped ==
    ASSUME NEW pays, PaysOK(pays)
    PROVE  /\ \A kind \in PrizeKinds :
                /\ Prizes(kind, pays) \subseteq TxRecord
                /\ IsFiniteSet(Prizes(kind, pays))
                /\ \A s, t \in Prizes(kind, pays) : s.key = t.key => s = t
           /\ \A kind \in UndoKinds, n \in Numbers :
                /\ Reversals(kind, n, pays) \subseteq TxRecord
                /\ IsFiniteSet(Reversals(kind, n, pays))
                /\ \A s, t \in Reversals(kind, n, pays) : s.key = t.key => s = t
  <1> DEFINE due == {q \in pays : q.amount > 0}
  <1>1. IsFiniteSet(due) /\ \A p \in due : p \in Pay
    BY FS_Subset DEF PaysOK
  <1>2. ASSUME NEW kind \in PrizeKinds
        PROVE  /\ Prizes(kind, pays) \subseteq TxRecord
               /\ IsFiniteSet(Prizes(kind, pays))
               /\ \A s, t \in Prizes(kind, pays) : s.key = t.key => s = t
    <2> DEFINE f == [p \in due |-> Tx(p.user, Ref(kind, p.card), p.amount)]
    <2>1. Prizes(kind, pays) = ValuesOf(f, due)
      BY DEF Prizes, ValuesOf
    <2>2. IsFiniteSet(Prizes(kind, pays))
      <3> HIDE DEF f, due
      <3>1. QED
        BY <1>1, <2>1, ValuesFinite
    <2>3. Prizes(kind, pays) \subseteq TxRecord
      BY <1>1 DEF Prizes, Tx, Ref, TxRecord, TxKey, Pay
    <2>4. \A s, t \in Prizes(kind, pays) : s.key = t.key => s = t
      BY DEF Prizes, Tx, Ref, PaysOK
    <2>5. QED
      BY <2>2, <2>3, <2>4
  <1>3. ASSUME NEW kind \in UndoKinds, NEW n \in Numbers
        PROVE  /\ Reversals(kind, n, pays) \subseteq TxRecord
               /\ IsFiniteSet(Reversals(kind, n, pays))
               /\ \A s, t \in Reversals(kind, n, pays) : s.key = t.key => s = t
    <2> DEFINE f == [p \in due |-> Tx(p.user, Ref(kind, <<n, p.card>>), - p.amount)]
    <2>1. Reversals(kind, n, pays) = ValuesOf(f, due)
      BY DEF Reversals, ValuesOf
    <2>2. IsFiniteSet(Reversals(kind, n, pays))
      <3> HIDE DEF f, due
      <3>1. QED
        BY <1>1, <2>1, ValuesFinite
    <2>3. Reversals(kind, n, pays) \subseteq TxRecord
      <3> SUFFICES ASSUME NEW p \in due
                   PROVE  Tx(p.user, Ref(kind, <<n, p.card>>), - p.amount) \in TxRecord
        BY DEF Reversals
      <3>1. p.user \in Users /\ p.card \in CardIds /\ p.amount \in Nat
        BY <1>1 DEF Pay
      <3>2. Ref(kind, <<n, p.card>>) \in TxKey
        BY <3>1 DEF Ref, TxKey
      <3>3. QED
        BY <3>1, <3>2 DEF Tx, TxRecord
    <2>4. \A s, t \in Reversals(kind, n, pays) : s.key = t.key => s = t
      BY DEF Reversals, Tx, Ref, PaysOK
    <2>5. QED
      BY <2>2, <2>3, <2>4
  <1>4. QED
    BY <1>2, <1>3

\* What a step may do to the requests: end one, while cards are only added.
LEMMA DoneTyped ==
    ASSUME Typed, NEW s \in Slots, Done(s), Len(cards') >= Len(cards), Len(cards') \in Nat
    PROVE  req' \in [Slots -> Request \cup {Idle}] /\ ReqsOK'
  <1>1. Len(cards) \in Nat
    <2>1. cards \in Seq(CardRow)
      BY DEF Typed
    <2>2. QED
      BY <2>1, LenProperties
  <1>2. req' \in [Slots -> Request \cup {Idle}]
    BY DEF Typed, Done
  <1>3. ASSUME NEW r \in Slots, req'[r] # Idle PROVE RequestOK(req'[r], Len(cards'))
    <2>1. req'[r] = req[r] /\ RequestOK(req[r], Len(cards))
      BY <1>3 DEF Typed, ReqsOK, Done
    <2>2. QED
      BY <1>1, <2>1 DEF RequestOK
  <1>4. QED
    BY <1>2, <1>3 DEF ReqsOK

\* The row a request works on.
LEMMA LoadedOK ==
    ASSUME Typed, NEW s \in Slots, req[s] # Idle, req[s].op \in {"start", "call"}
    PROVE  RowOK(Row(s))
  BY DEF Typed, ReqsOK, RequestOK, Row

\* What is written of a row: tg_router writes the columns it has changed, which
\* are never the sales.
LEMMA FlushedOK ==
    ASSUME Typed, NEW s \in Slots, req[s] # Idle, req[s].op \in {"start", "call"},
           NEW row, RowOK(row), row.sold = Row(s).sold, row.commission = Row(s).commission
    PROVE  RowOK(Flushed(s, row))
  <1>1. CASE req[s].route = "tg"
    <2> DEFINE g == Flushed(s, row)
               l == req[s].loaded
    <2>1. RowOK(game) /\ row.sold = l.sold /\ row.commission = l.commission
      BY <1>1 DEF Typed, Row
    <2>2. g = [f \in DOMAIN game |-> IF row[f] # l[f] THEN row[f] ELSE game[f]]
      BY <1>1 DEF Flushed
    <2>3. DOMAIN game = Fields
      BY <2>1 DEF RowOK, GameRow, Fields
    <2>4. g = [f \in Fields |-> g[f]] /\ \A f \in Fields : g[f] \in {row[f], game[f]}
      BY <2>2, <2>3
    <2>5. g.sold = game.sold /\ g.commission = game.commission
      BY <2>1, <2>2, <2>3 DEF Fields
    <2>6. g.payout \in {row.payout, game.payout}
      BY <2>4 DEF Fields
    <2> HIDE DEF g, l
    <2>7. g \in GameRow
      BY <2>1, <2>4 DEF RowOK, GameRow, Fields
    <2>8. QED
      BY <2>1, <2>5, <2>6, <2>7 DEF RowOK, g
  <1>2. CASE req[s].route # "tg"
    BY <1>2 DEF Flushed
  <1>3. QED
    BY <1>1, <1>2

LEMMA RunningOK ==
    ASSUME NEW g, RowOK(g)
    PROVE  RowOK(Running(g)) /\ Running(g).sold = g.sold /\ Running(g).commission = g.commission
  <1>1. g \in GameRow /\ g.pool \in Nat /\ g.commission <= g.sold
    BY DEF RowOK, GameRow
  <1>2. ColBucket(g.pool) \in Nat /\ RowBucket(g.pool) \in Nat
    BY <1>1, BucketsNat
  <1>3. [row |-> None, col |-> None] \in Payout
    BY DEF Payout, RowPayment, ColPayment
  <1>4. Running(g) \in GameRow
    BY <1>1, <1>2, <1>3 DEF Running, GameRow
  <1>5. /\ Running(g).sold = g.sold
        /\ Running(g).commission = g.commission
        /\ Running(g).payout.row = None
        /\ Running(g).payout.col = None
    BY <1>1 DEF Running, GameRow
  <1>6. QED
    BY <1>1, <1>4, <1>5 DEF RowOK

\* The row after a call that a card wins.
LEMMA PayoutOK ==
    ASSUME Typed, NEW g, RowOK(g), NEW n \in Numbers, NEW winners \in SUBSET (1..Len(cards))
    PROVE  /\ RowOK(RowPayout(g, n, winners))
           /\ RowPayout(g, n, winners).sold = g.sold
           /\ RowPayout(g, n, winners).commission = g.commission
           /\ RowOK(ColPayout(g, n, winners))
           /\ ColPayout(g, n, winners).sold = g.sold
           /\ ColPayout(g, n, winners).commission = g.commission
           /\ RowTotal(g) \in Nat /\ g.colAmount \in Nat
  <1>1. /\ g \in GameRow
        /\ g.colAmount \in Nat /\ g.rowAmount \in Nat /\ g.colPaid \in BOOLEAN
        /\ g.payout \in Payout
        /\ g.commission <= g.sold
    BY DEF RowOK, GameRow
  <1>2. RowTotal(g) \in Nat
    BY <1>1 DEF RowTotal
  <1> DEFINE rowPays == Pays(RowTotal(g), winners)
             colPays == Pays(g.colAmount, winners)
             wonRow == [row |-> [pays |-> rowPays, call |-> n, withCol |-> ~ g.colPaid],
                        col |-> IF g.colPaid THEN g.payout.col
                                ELSE [pays |-> colPays, call |-> n, absorbed |-> TRUE]]
             wonCol == [g.payout EXCEPT !.col = [pays |-> colPays, call |-> n, absorbed |-> FALSE]]
  <1>3. PaysOK(rowPays) /\ PaysOK(colPays)
    BY <1>1, <1>2, PaysTyped
  <1>4. rowPays \in SUBSET Pay /\ colPays \in SUBSET Pay
    BY <1>3 DEF PaysOK
  <1>5. wonRow \in Payout /\ (wonRow.col # None => PaysOK(wonRow.col.pays)) /\ PaysOK(wonRow.row.pays)
    <2> HIDE DEF rowPays, colPays
    <2>1. QED
      BY <1>1, <1>3, <1>4 DEF Payout, RowPayment, ColPayment, RowOK
  <1>6. wonCol \in Payout /\ PaysOK(wonCol.col.pays) /\ wonCol.row = g.payout.row
    <2> HIDE DEF rowPays, colPays
    <2>1. QED
      BY <1>1, <1>3, <1>4 DEF Payout, RowPayment, ColPayment
  <1>7. /\ RowOK(RowPayout(g, n, winners))
        /\ RowPayout(g, n, winners).sold = g.sold
        /\ RowPayout(g, n, winners).commission = g.commission
    <2>1. RowPayout(g, n, winners)
            = [g EXCEPT !.status = "ENDED", !.colPaid = TRUE, !.payout = wonRow]
      BY DEF RowPayout
    <2> HIDE DEF wonRow
    <2>2. QED
      BY <1>1, <1>5, <2>1 DEF RowOK, GameRow
  <1>8. /\ RowOK(ColPayout(g, n, winners))
        /\ ColPayout(g, n, winners).sold = g.sold
        /\ ColPayout(g, n, winners).commission = g.commission
    <2>1. ColPayout(g, n, winners) = [g EXCEPT !.colPaid = TRUE, !.payout = wonCol]
      BY <1>1 DEF ColPayout, GameRow
    <2> HIDE DEF wonCol
    <2>2. QED
      BY <1>1, <1>6, <2>1 DEF RowOK, GameRow
  <1>9. QED
    BY <1>1, <1>2, <1>7, <1>8

\* What a call writes.
LEMMA OutcomeTyped ==
    ASSUME Typed, NEW s \in Slots, req[s] # Idle, req[s].op = "call"
    PROVE  /\ RowOK(Flushed(s, Outcome(s).game))
           /\ Outcome(s).orders \subseteq TxRecord
           /\ IsFiniteSet(Outcome(s).orders)
           /\ \A t, x \in Outcome(s).orders : t.key = x.key => t = x
           /\ \A t \in Outcome(s).orders : t.amount > 0
  <1> DEFINE g == Row(s)
             n == req[s].number
             rowW == RowWinners(s)
             colW == ColWinners(s)
  <1>1. RowOK(g)
    BY LoadedOK
  <1>2. n \in Numbers /\ req[s].ncards \in 0..Len(cards)
    BY DEF Typed, ReqsOK, RequestOK, Request
  <1>3. rowW \in SUBSET (1..Len(cards)) /\ colW \in SUBSET (1..Len(cards))
    <2>1. cards \in Seq(CardRow)
      BY DEF Typed
    <2>2. Len(cards) \in Nat
      BY <2>1, LenProperties
    <2>3. QED
      BY <1>2, <2>2 DEF RowWinners, ColWinners, Winners
  <1>4. ASSUME NEW row, NEW kind \in PrizeKinds, NEW pays, NEW evs, PaysOK(pays), RowOK(row),
               row.sold = g.sold, row.commission = g.commission,
               Outcome(s) = [game |-> row, orders |-> Prizes(kind, pays), events |-> evs]
        PROVE  /\ RowOK(Flushed(s, Outcome(s).game))
               /\ Outcome(s).orders \subseteq TxRecord
               /\ IsFiniteSet(Outcome(s).orders)
               /\ \A t, x \in Outcome(s).orders : t.key = x.key => t = x
               /\ \A t \in Outcome(s).orders : t.amount > 0
    <2>1. RowOK(Flushed(s, row))
      BY <1>4, FlushedOK
    <2>2. \A t \in Prizes(kind, pays) : t.amount > 0
      BY DEF Prizes, Tx
    <2>3. QED
      BY <1>4, <2>1, <2>2, OrdersTyped
  <1>5. CASE rowW # {}
    <2>1. Outcome(s) = [game |-> RowPayout(g, n, rowW),
                        orders |-> Prizes("PRIZE_ROW", Pays(RowTotal(g), rowW)),
                        events |-> {Ref("PRIZE_ROW", 0), Ref("GAME_ENDED", 0)}]
      BY <1>5 DEF Outcome
    <2>2. RowTotal(g) \in Nat
      BY <1>1, <1>2, <1>3, PayoutOK
    <2>3. PaysOK(Pays(RowTotal(g), rowW))
      BY <1>3, <2>2, PaysTyped
    <2>4. /\ RowOK(RowPayout(g, n, rowW))
          /\ RowPayout(g, n, rowW).sold = g.sold
          /\ RowPayout(g, n, rowW).commission = g.commission
      BY <1>1, <1>2, <1>3, PayoutOK
    <2> HIDE DEF g, n, rowW
    <2>5. QED
      BY <1>4, <2>1, <2>3, <2>4 DEF PrizeKinds
  <1>6. CASE rowW = {} /\ colW # {}
    <2>1. Outcome(s) = [game |-> ColPayout(g, n, colW),
                        orders |-> Prizes("PRIZE_COL", Pays(g.colAmount, colW)),
                        events |-> {Ref("PRIZE_COL", 0)}]
      BY <1>6 DEF Outcome
    <2>2. PaysOK(Pays(g.colAmount, colW))
      BY <1>1, <1>3, PaysTyped DEF RowOK, GameRow
    <2>3. /\ RowOK(ColPayout(g, n, colW))
          /\ ColPayout(g, n, colW).sold = g.sold
          /\ ColPayout(g, n, colW).commission = g.commission
      BY <1>1, <1>2, <1>3, PayoutOK
    <2> HIDE DEF g, n, colW
    <2>4. QED
      BY <1>4, <2>1, <2>2, <2>3 DEF PrizeKinds
  <1>7. CASE rowW = {} /\ colW = {}
    <2>1. Outcome(s) = [game |-> g, orders |-> {}, events |-> {}]
      BY <1>7 DEF Outcome
    <2>2. RowOK(Flushed(s, g))
      BY <1>1, FlushedOK
    <2>3. QED
      BY <2>1, <2>2, FS_EmptySet
  <1>8. QED
    BY <1>5, <1>6, <1>7

\* What an undo writes.
LEMMA UndoneTyped ==
    ASSUME Typed, called # <<>>
    PROVE  /\ RowOK(Undone)
           /\ LastCalled \in Numbers
           /\ UndoOrders \subseteq TxRecord
           /\ IsFiniteSet(UndoOrders)
           /\ \A t, x \in UndoOrders : t.key = x.key => t = x
  <1>1. LastCalled \in Numbers
    <2>1. called \in Seq(Numbers)
      BY DEF Typed
    <2>2. Len(called) \in 1..Len(called)
      BY <2>1, EmptySeq
    <2>3. QED
      BY <2>1, <2>2, ElementOfSeq DEF LastCalled
  <1>2. RowOK(game) /\ game \in GameRow /\ game.payout \in Payout
    BY DEF Typed, RowOK, GameRow
  <1> DEFINE p == [row |-> IF UndoesRow THEN None ELSE game.payout.row,
                   col |-> IF UndoesShare \/ UndoesCol THEN None ELSE game.payout.col]
             st == IF UndoesRow THEN "RUNNING" ELSE game.status
             cp == IF UndoesShare \/ UndoesCol THEN FALSE ELSE game.colPaid
  <1>3. p \in Payout /\ p.row \in {None, game.payout.row} /\ p.col \in {None, game.payout.col}
    BY <1>2 DEF Payout, RowPayment, ColPayment
  <1>4. RowOK(Undone)
    <2>1. Undone = [game EXCEPT !.status = st, !.colPaid = cp, !.payout = p]
      BY DEF Undone
    <2>2. cp \in BOOLEAN /\ st \in {"LOBBY", "RUNNING", "ENDED"}
      BY <1>2 DEF GameRow
    <2> HIDE DEF p, cp, st
    <2>3. QED
      BY <1>2, <1>3, <2>1, <2>2 DEF RowOK, GameRow
  <1>5. UndoesRow => PaysOK(game.payout.row.pays)
    BY <1>2 DEF UndoesRow, RowOK
  <1>6. UndoesCol => PaysOK(game.payout.col.pays)
    BY <1>2 DEF UndoesCol, RowOK
  <1>7. QED
    BY <1>1, <1>4, <1>5, <1>6, OrdersTyped, FS_EmptySet DEF UndoOrders, UndoKinds

\* Posting orders that are well formed.
LEMMA PostedTyped ==
    ASSUME NEW L, NEW orders, L \subseteq TxRecord, IsFiniteSet(L),
           orders \subseteq TxRecord, IsFiniteSet(orders)
    PROVE  Posted(L, orders) \subseteq TxRecord /\ IsFiniteSet(Posted(L, orders))
  <1>1. NewTxs(L, orders) \subseteq orders
    BY DEF NewTxs
  <1>2. IsFiniteSet(NewTxs(L, orders))
    BY <1>1, FS_Subset
  <1>3. QED
    BY <1>1, <1>2, FS_Union DEF Posted

LEMMA CardsLen == ASSUME Typed PROVE Len(cards) \in Nat /\ Len(purchases) \in Nat
  BY LenProperties DEF Typed

LEMMA BeginTyped ==
    ASSUME Typed, NEW s \in Slots,
           \/ \E u \in Users, qty \in 1..MaxQty, k \in BuyKeys : BeginBuy(s, u, qty, k)
           \/ \E route \in Routes : BeginStart(s, route)
           \/ BeginClose(s)
           \/ \E route \in Routes, n \in Numbers, k \in CallKeys : BeginCall(s, route, n, k)
           \/ \E k \in UndoKeys : BeginUndo(s, k)
           \/ Drop(s)
    PROVE  Typed'
  <1>1. UNCHANGED <<game, purchases, cards, called, ledger, cache>>
    BY DEF BeginBuy, BeginStart, BeginClose, BeginCall, BeginUndo, Drop
  <1>2. Len(cards) \in Nat
    BY CardsLen
  <1>3. \A kinds : Known(kinds) \in SUBSET TxRecord
    BY DEF Known, Typed
  <1>4. Board \in SUBSET Numbers
    <2>1. called \in Seq(Numbers)
      BY DEF Typed
    <2>2. QED
      BY <2>1, ElementOfSeq DEF Board
  <1>5. RowOK(game) /\ game \in GameRow
    BY DEF Typed, RowOK
  <1>6. ASSUME NEW r, req' = [req EXCEPT ![s] = r], r = Idle \/ RequestOK(r, Len(cards))
        PROVE  Typed'
    <2>1. req' \in [Slots -> Request \cup {Idle}]
      BY <1>6 DEF Typed, RequestOK
    <2>2. ReqsOK'
      BY <1>1, <1>6 DEF Typed, ReqsOK
    <2>3. QED
      BY <1>1, <2>1, <2>2 DEF Typed
  <1>7. ASSUME NEW u \in Users, NEW qty \in 1..MaxQty, NEW k \in BuyKeys, BeginBuy(s, u, qty, k)
        PROVE  Typed'
    <2> DEFINE r == [op |-> "buy", route |-> "bot", user |-> u, qty |-> qty, key |-> k,
                     known |-> Known({"BUY"})]
    <2>1. r \in Request
      BY <1>3 DEF Request
    <2>2. RequestOK(r, Len(cards))
      BY <2>1 DEF RequestOK
    <2>3. req' = [req EXCEPT ![s] = r]
      BY <1>7 DEF BeginBuy
    <2> HIDE DEF r
    <2>4. QED
      BY <1>6, <2>2, <2>3
  <1>8. ASSUME NEW route \in Routes, BeginStart(s, route) PROVE Typed'
    <2> DEFINE r == [op |-> "start", route |-> route,
                     loaded |-> IF route = "tg" THEN game ELSE None]
    <2>1. r \in Request
      BY <1>5 DEF Request
    <2>2. RequestOK(r, Len(cards))
      BY <1>5, <2>1 DEF RequestOK
    <2>3. req' = [req EXCEPT ![s] = r]
      BY <1>8 DEF BeginStart
    <2> HIDE DEF r
    <2>4. QED
      BY <1>6, <2>2, <2>3
  <1>9. ASSUME BeginClose(s) PROVE Typed'
    <2> DEFINE r == [op |-> "close", route |-> "bot"]
    <2>1. RequestOK(r, Len(cards))
      BY DEF Request, RequestOK
    <2>2. req' = [req EXCEPT ![s] = r]
      BY <1>9 DEF BeginClose
    <2> HIDE DEF r
    <2>3. QED
      BY <1>6, <2>1, <2>2
  <1>10. ASSUME NEW route \in Routes, NEW n \in Numbers, NEW k \in CallKeys, BeginCall(s, route, n, k)
         PROVE  Typed'
    <2> DEFINE r == [op |-> "call", route |-> route, number |-> n, key |-> k,
                     board |-> Board, ncards |-> Len(cards),
                     known |-> Known({"PRIZE_ROW", "PRIZE_COL"}),
                     loaded |-> IF route = "tg" THEN game ELSE None]
    <2>1. r \in Request
      BY <1>2, <1>3, <1>4, <1>5 DEF Request
    <2>2. RequestOK(r, Len(cards))
      BY <1>2, <1>5, <2>1 DEF RequestOK
    <2>3. req' = [req EXCEPT ![s] = r]
      BY <1>10 DEF BeginCall
    <2> HIDE DEF r
    <2>4. QED
      BY <1>6, <2>2, <2>3
  <1>11. ASSUME NEW k \in UndoKeys, BeginUndo(s, k) PROVE Typed'
    <2> DEFINE r == [op |-> "undo", route |-> "bot", key |-> k,
                     known |-> Known({"UNDO_ROW", "UNDO_COL"})]
    <2>1. RequestOK(r, Len(cards))
      BY <1>3 DEF Request, RequestOK
    <2>2. req' = [req EXCEPT ![s] = r]
      BY <1>11 DEF BeginUndo
    <2> HIDE DEF r
    <2>3. QED
      BY <1>6, <2>1, <2>2
  <1>12. ASSUME Drop(s) PROVE Typed'
    BY <1>6, <1>12 DEF Drop, Done
  <1>13. QED
    BY <1>7, <1>8, <1>9, <1>10, <1>11, <1>12

LEMMA SelectTyped == ASSUME Typed, SelectManual PROVE Typed'
  <1>1. RowOK(game)
    BY DEF Typed
  <1>2. RowOK(game')
    BY <1>1 DEF SelectManual, RowOK, GameRow
  <1>3. ReqsOK'
    BY DEF SelectManual, Typed, ReqsOK
  <1>4. QED
    BY <1>2, <1>3 DEF SelectManual, Typed

LEMMA WithdrawTyped ==
    ASSUME Typed, NEW u \in Users, NEW a \in Withdrawals, Withdraw(u, a) PROVE Typed'
  <1> DEFINE t == Tx(u, Ref("WITHDRAW", a), - a)
  <1>1. t \in TxRecord
    BY GameAssumption DEF Tx, Ref, TxRecord, TxKey
  <1>2. ledger' = Posted(ledger, {t})
    BY DEF Withdraw
  <1>3. ledger' \subseteq TxRecord /\ IsFiniteSet(ledger')
    <2> HIDE DEF t
    <2>1. QED
      BY <1>1, <1>2, PostedTyped, FS_Singleton DEF Typed
  <1>4. QED
    BY <1>3 DEF Withdraw, Typed, ReqsOK

LEMMA BuyTyped == ASSUME Typed, NEW s \in Slots, Buy(s) PROVE Typed'
  <1> DEFINE r == req[s]
             total == Price * r.qty
             id == Len(purchases) + 1
             t == Tx(r.user, Ref("BUY", r.key), - total)
  <1>1. r.user \in Users /\ r.qty \in 1..MaxQty /\ r.key \in BuyKeys
    BY DEF Buy, Typed, ReqsOK, RequestOK, Request
  <1>2. r.qty \in Nat \ {0} /\ total \in Nat \ {0}
    BY <1>1, GameAssumption
  <1>3. t \in TxRecord
    <2> HIDE DEF total
    <2>1. QED
      BY <1>1, <1>2 DEF Tx, Ref, TxRecord, TxKey
  <1>4. ledger' \subseteq TxRecord /\ IsFiniteSet(ledger')
    <2>1. ledger' = Posted(ledger, {t})
      BY DEF Buy
    <2> HIDE DEF t
    <2>2. QED
      BY <1>3, <2>1, PostedTyped, FS_Singleton DEF Typed
  <1>5. purchases' \in Seq(PurchaseRow)
    <2>1. purchases' = Append(purchases, [user |-> r.user, total |-> total])
      BY DEF Buy
    <2>2. [user |-> r.user, total |-> total] \in PurchaseRow
      BY <1>1, <1>2 DEF PurchaseRow
    <2>3. QED
      BY <2>1, <2>2, AppendProperties DEF Typed
  <1>6. cards' \in Seq(CardRow) /\ Len(cards') >= Len(cards) /\ Len(cards') \in Nat
    <2>1. PICK h \in Hands(r.qty) :
             cards' = cards \o [i \in 1..r.qty |-> [grid |-> h[i], user |-> r.user, purchase |-> id]]
      BY DEF Buy
    <2> DEFINE new == [i \in 1..r.qty |-> [grid |-> h[i], user |-> r.user, purchase |-> id]]
    <2>2. \A i \in 1..r.qty : h[i] \in Grids
      BY DEF Hands
    <2>3. id \in CardIds
      BY CardsLen DEF CardIds
    <2>4. new \in [1..r.qty -> CardRow]
      <3> HIDE DEF id
      <3>1. QED
        BY <1>1, <2>2, <2>3 DEF CardRow
    <2>5. new \in Seq(CardRow)
      <3> HIDE DEF new
      <3>1. QED
        BY <1>2, <2>4, SeqDef
    <2>6. cards \in Seq(CardRow) /\ Len(cards) \in Nat /\ Len(new) \in Nat
      <3> HIDE DEF new
      <3>1. QED
        BY <2>5, CardsLen, LenProperties DEF Typed
    <2>9. cards' = cards \o new
      BY <2>1
    <2> HIDE DEF new
    <2>7. cards \o new \in Seq(CardRow) /\ Len(cards \o new) = Len(cards) + Len(new)
      BY <2>5, <2>6, ConcatProperties
    <2>8. QED
      BY <2>6, <2>7, <2>9
  <1>7. RowOK(game')
    <2>1. RowOK(game) /\ game.sold \in Nat /\ game.commission \in Nat /\ game.commission <= game.sold
      BY DEF Typed, RowOK, GameRow
    <2> DEFINE sold == game.sold + total
               comm == game.commission + Commission(total)
    <2>2. game' = [game EXCEPT
                     !.sold = @ + total,
                     !.commission = @ + Commission(total),
                     !.pool = game.sold + total - (game.commission + Commission(total))]
      BY DEF Buy
    <2>3. Commission(total) \in Nat /\ Commission(total) <= total
      <3> HIDE DEF total
      <3>1. QED
        BY <1>2, BucketsNat
    <2>4. sold \in Nat /\ comm \in Nat /\ comm <= sold /\ sold - comm \in Nat
      <3> HIDE DEF total
      <3>1. QED
        BY <1>2, <2>1, <2>3
    <2> HIDE DEF total
    <2>5. game'.sold = sold /\ game'.commission = comm
      BY <2>1, <2>2 DEF RowOK, GameRow
    <2>8. game'.pool = sold - comm
      <3>1. game'.pool = game.sold + total - (game.commission + Commission(total))
        BY <2>1, <2>2 DEF RowOK, GameRow
      <3>2. QED
        BY <1>2, <2>1, <2>3, <3>1
    <2>10. /\ game'.status = game.status /\ game'.mode = game.mode
           /\ game'.modeLocked = game.modeLocked /\ game'.locked = game.locked
           /\ game'.colAmount = game.colAmount /\ game'.rowAmount = game.rowAmount
           /\ game'.colPaid = game.colPaid /\ game'.payout = game.payout
      BY <2>1, <2>2 DEF RowOK, GameRow
    <2>11. game' = [status |-> game'.status, mode |-> game'.mode,
                    modeLocked |-> game'.modeLocked, sold |-> game'.sold,
                    commission |-> game'.commission, pool |-> game'.pool,
                    locked |-> game'.locked, colAmount |-> game'.colAmount,
                    rowAmount |-> game'.rowAmount, colPaid |-> game'.colPaid,
                    payout |-> game'.payout]
      BY <2>1, <2>2 DEF RowOK, GameRow
    <2> HIDE DEF sold, comm
    <2>9. game' \in GameRow
      BY <2>1, <2>4, <2>5, <2>8, <2>10, <2>11 DEF RowOK, GameRow
    <2>6. game'.payout = game.payout
      BY <2>1, <2>2 DEF RowOK, GameRow
    <2>7. QED
      BY <2>1, <2>4, <2>5, <2>6, <2>9 DEF RowOK
  <1>8. Done(s) /\ UNCHANGED <<called, cache>>
    BY DEF Buy
  <1>9. req' \in [Slots -> Request \cup {Idle}] /\ ReqsOK'
    BY <1>6, <1>8, DoneTyped
  <1>10. QED
    BY <1>4, <1>5, <1>6, <1>7, <1>8, <1>9 DEF Typed

LEMMA StartTyped == ASSUME Typed, NEW s \in Slots, Start(s) PROVE Typed'
  <1>1. req[s] # Idle /\ req[s].op = "start"
    BY DEF Start
  <1>2. game' = Flushed(s, Running(Row(s)))
    BY DEF Start
  <1>3. RowOK(Row(s))
    BY <1>1, LoadedOK
  <1>4. RowOK(game')
    BY <1>1, <1>2, <1>3, RunningOK, FlushedOK
  <1>5. req' \in [Slots -> Request \cup {Idle}] /\ ReqsOK'
    BY CardsLen, DoneTyped DEF Start
  <1>6. QED
    BY <1>4, <1>5 DEF Start, Typed

LEMMA RefundsTyped ==
    ASSUME Typed
    PROVE  LET refunds == {Tx(purchases[i].user, Ref("LOBBY_REFUND", i), purchases[i].total) :
                             i \in 1..Len(purchases)}
           IN  /\ refunds \subseteq TxRecord
               /\ IsFiniteSet(refunds)
               /\ \A t, x \in refunds : t.key = x.key => t = x
               /\ \A t \in refunds : t.amount > 0
  <1> DEFINE f == [i \in 1..Len(purchases) |->
                     Tx(purchases[i].user, Ref("LOBBY_REFUND", i), purchases[i].total)]
             refunds == {Tx(purchases[i].user, Ref("LOBBY_REFUND", i), purchases[i].total) :
                           i \in 1..Len(purchases)}
  <1>1. Len(purchases) \in Nat
    BY CardsLen
  <1>2. \A i \in 1..Len(purchases) : purchases[i] \in PurchaseRow
    BY ElementOfSeq DEF Typed
  <1>3. refunds = ValuesOf(f, 1..Len(purchases))
    BY DEF ValuesOf
  <1>4. IsFiniteSet(refunds)
    <2>1. IsFiniteSet(1..Len(purchases))
      BY <1>1, FS_Interval
    <2> HIDE DEF f, refunds
    <2>2. QED
      BY <1>3, <2>1, ValuesFinite
  <1>5. refunds \subseteq TxRecord /\ \A t \in refunds : t.amount > 0
    <2> SUFFICES ASSUME NEW i \in 1..Len(purchases)
                 PROVE  LET t == Tx(purchases[i].user, Ref("LOBBY_REFUND", i), purchases[i].total)
                        IN  t \in TxRecord /\ t.amount > 0
      OBVIOUS
    <2>1. /\ purchases[i].user \in Users
          /\ purchases[i].total \in Nat \ {0}
          /\ i \in CardIds
      BY <1>1, <1>2 DEF PurchaseRow, CardIds
    <2>2. QED
      BY <2>1 DEF Tx, Ref, TxRecord, TxKey
  <1>6. \A t, x \in refunds : t.key = x.key => t = x
    BY DEF Tx, Ref
  <1>7. QED
    BY <1>4, <1>5, <1>6

LEMMA CloseTyped == ASSUME Typed, NEW s \in Slots, Close(s) PROVE Typed'
  <1>1. ledger' \subseteq TxRecord /\ IsFiniteSet(ledger')
    BY RefundsTyped, PostedTyped DEF Close, Typed
  <1>2. RowOK(game')
    <2>1. RowOK(game)
      BY DEF Typed
    <2> DEFINE p == [row |-> None, col |-> None]
    <2>2. p \in Payout /\ p.row = None /\ p.col = None
      BY DEF Payout, RowPayment, ColPayment
    <2>3. game' = [game EXCEPT
                     !.sold = 0, !.commission = 0, !.pool = 0,
                     !.colAmount = 0, !.rowAmount = 0, !.colPaid = FALSE,
                     !.locked = FALSE, !.payout = p, !.status = "ENDED"]
      BY DEF Close
    <2> HIDE DEF p
    <2>4. game' \in GameRow
      BY <2>1, <2>2, <2>3 DEF RowOK, GameRow
    <2>5. /\ game'.payout = p
          /\ game'.sold = 0 /\ game'.commission = 0 /\ game'.pool = 0
      BY <2>1, <2>3 DEF RowOK, GameRow
    <2>6. QED
      BY <2>2, <2>4, <2>5 DEF RowOK
  <1>3. req' \in [Slots -> Request \cup {Idle}] /\ ReqsOK'
    BY CardsLen, DoneTyped DEF Close
  <1>4. QED
    BY <1>1, <1>2, <1>3 DEF Close, Typed

LEMMA AnswerTyped ==
    ASSUME Typed, NEW op, NEW k, NEW n \in Numbers, CacheAnswer(op, k, n),
           (op = "call" /\ k \in CallKeys) \/ (op = "undo" /\ k \in UndoKeys)
    PROVE  cache' \subseteq Answer
  BY DEF Typed, Answer, CacheAnswer

LEMMA CallTyped == ASSUME Typed, NEW s \in Slots, Call(s) \/ CallLost(s) PROVE Typed'
  <1>1. /\ req[s] # Idle /\ req[s].op = "call"
        /\ CacheAnswer("call", req[s].key, req[s].number)
        /\ Done(s)
        /\ cards' = cards /\ purchases' = purchases
    BY DEF Call, CallLost, Callable
  <1>2. req[s].number \in Numbers /\ req[s].key \in CallKeys
    BY <1>1 DEF Typed, ReqsOK, RequestOK, Request
  <1>3. cache' \subseteq Answer
    BY <1>1, <1>2, AnswerTyped
  <1>4. req' \in [Slots -> Request \cup {Idle}] /\ ReqsOK'
    BY <1>1, CardsLen, DoneTyped
  <1>5. CASE Call(s)
    <2>1. RowOK(game')
      BY <1>1, <1>5, OutcomeTyped DEF Call
    <2>2. ledger' \subseteq TxRecord /\ IsFiniteSet(ledger')
      BY <1>1, <1>5, OutcomeTyped, PostedTyped DEF Call, Typed
    <2>3. called' \in Seq(Numbers)
      BY <1>2, <1>5, AppendProperties DEF Call, Typed
    <2>4. QED
      BY <1>1, <1>3, <1>4, <2>1, <2>2, <2>3 DEF Typed
  <1>6. CASE CallLost(s)
    BY <1>1, <1>3, <1>4, <1>6 DEF CallLost, Typed
  <1>7. QED
    BY <1>5, <1>6

LEMMA UndoTyped == ASSUME Typed, NEW s \in Slots, Undo(s) \/ UndoLost(s) PROVE Typed'
  <1>1. /\ req[s] # Idle /\ req[s].op = "undo" /\ called # <<>>
        /\ CacheAnswer("undo", req[s].key, LastCalled)
        /\ Done(s)
        /\ cards' = cards /\ purchases' = purchases
    BY DEF Undo, UndoLost, Undoable
  <1>2. LastCalled \in Numbers /\ req[s].key \in UndoKeys
    BY <1>1, UndoneTyped DEF Typed, ReqsOK, RequestOK, Request
  <1>3. cache' \subseteq Answer
    BY <1>1, <1>2, AnswerTyped
  <1>4. req' \in [Slots -> Request \cup {Idle}] /\ ReqsOK'
    BY <1>1, CardsLen, DoneTyped
  <1>5. CASE Undo(s)
    <2>1. RowOK(game')
      BY <1>1, <1>5, UndoneTyped DEF Undo
    <2>2. ledger' \subseteq TxRecord /\ IsFiniteSet(ledger')
      BY <1>1, <1>5, UndoneTyped, PostedTyped DEF Undo, Typed
    <2>3. called' \in Seq(Numbers)
      <3>1. called \in Seq(Numbers) /\ Len(called) \in Nat
        BY LenProperties DEF Typed
      <3>2. \A i \in 1..Len(called) - 1 : called[i] \in Numbers
        BY <3>1, ElementOfSeq
      <3>3. QED
        BY <1>5, <3>1, <3>2, SubSeqProperties DEF Undo
    <2>4. QED
      BY <1>1, <1>3, <1>4, <2>1, <2>2, <2>3 DEF Typed
  <1>6. CASE UndoLost(s)
    BY <1>1, <1>3, <1>4, <1>6 DEF UndoLost, Typed
  <1>7. QED
    BY <1>5, <1>6

LEMMA TypedHolds == Spec => []Typed
  <1>1. Init => Typed
    <2> SUFFICES ASSUME Init PROVE Typed
      OBVIOUS
    <2>1. RowOK(game)
      BY DEF Init, RowOK, GameRow, Payout, RowPayment, ColPayment
    <2>2. req \in [Slots -> Request \cup {Idle}] /\ ReqsOK
      BY DEF Init, ReqsOK
    <2>3. ledger \subseteq TxRecord /\ IsFiniteSet(ledger)
      BY OpeningAssumption DEF Init
    <2>4. QED
      BY <2>1, <2>2, <2>3, EmptySeq DEF Init, Typed
  <1>2. Typed /\ [Next]_vars => Typed'
    <2> SUFFICES ASSUME Typed, [Next]_vars PROVE Typed'
      OBVIOUS
    <2>1. CASE UNCHANGED vars
      BY <2>1 DEF vars, Typed, ReqsOK
    <2>2. CASE Next
      BY <2>2, SelectTyped, WithdrawTyped, BeginTyped, BuyTyped, StartTyped, CloseTyped,
         CallTyped, UndoTyped DEF Next
    <2>3. QED
      BY <2>1, <2>2
  <1>3. QED
    BY <1>1, <1>2, PTL DEF Spec

\* The rows, the requests and the cached answers are well formed, whatever
\* tg_router writes over a row that has changed since it was loaded.
THEOREM WellTyped == Spec => []TypeOK
  <1>1. Typed => TypeOK
    BY DEF Typed, TypeOK, RowOK, PurchaseRow, CardRow, Answer
  <1>2. QED
    BY <1>1, TypedHolds, PTL


-----------------------------------------------------------------------------
(* The promise of the ledger *)

\* A step leaves the ledger alone or posts a batch: a debit that the balance
\* covers (a purchase, reversals, a withdrawal) or credits (prizes, refunds).
Batch(orders) ==
    /\ IsFiniteSet(orders)
    /\ orders \subseteq TxRecord
    /\ \A t, x \in orders : t.key = x.key => t = x
    /\ Affordable(ledger, orders) \/ \A t \in orders : t.amount >= 0

LEMMA StepPosts ==
    ASSUME Typed, Next, ledger' # ledger
    PROVE  \E orders : Batch(orders) /\ ledger' = Posted(ledger, orders)
  <1>1. ASSUME NEW t \in TxRecord, Affordable(ledger, {t}), ledger' = Posted(ledger, {t})
        PROVE  \E orders : Batch(orders) /\ ledger' = Posted(ledger, orders)
    BY <1>1, FS_Singleton DEF Batch
  <1>2. ASSUME NEW u \in Users, NEW a \in Withdrawals, Withdraw(u, a)
        PROVE  \E orders : Batch(orders) /\ ledger' = Posted(ledger, orders)
    <2> DEFINE t == Tx(u, Ref("WITHDRAW", a), - a)
    <2>1. t \in TxRecord
      BY GameAssumption DEF Tx, Ref, TxRecord, TxKey
    <2>2. Affordable(ledger, {t}) /\ ledger' = Posted(ledger, {t})
      BY <1>2 DEF Withdraw
    <2> HIDE DEF t
    <2>3. QED
      BY <1>1, <2>1, <2>2
  <1>3. ASSUME NEW s \in Slots, Buy(s)
        PROVE  \E orders : Batch(orders) /\ ledger' = Posted(ledger, orders)
    <2> DEFINE t == Tx(req[s].user, Ref("BUY", req[s].key), - (Price * req[s].qty))
    <2>1. t \in TxRecord
      <3> DEFINE total == Price * req[s].qty
      <3>1. req[s].user \in Users /\ req[s].key \in BuyKeys /\ req[s].qty \in 1..MaxQty
        BY <1>3 DEF Buy, Typed, ReqsOK, RequestOK, Request
      <3>2. total \in Nat
        BY <3>1, GameAssumption
      <3> HIDE DEF total
      <3>3. QED
        BY <3>1, <3>2 DEF total, Tx, Ref, TxRecord, TxKey
    <2>2. Affordable(ledger, {t}) /\ ledger' = Posted(ledger, {t})
      BY <1>3 DEF Buy
    <2> HIDE DEF t
    <2>3. QED
      BY <1>1, <2>1, <2>2
  <1>4. ASSUME NEW s \in Slots, Close(s)
        PROVE  \E orders : Batch(orders) /\ ledger' = Posted(ledger, orders)
    <2> DEFINE refunds == {Tx(purchases[i].user, Ref("LOBBY_REFUND", i), purchases[i].total) :
                             i \in 1..Len(purchases)}
    <2>1. ledger' = Posted(ledger, refunds)
      BY <1>4 DEF Close
    <2>2. /\ refunds \subseteq TxRecord /\ IsFiniteSet(refunds)
          /\ \A t, x \in refunds : t.key = x.key => t = x
          /\ \A t \in refunds : t.amount > 0
      BY RefundsTyped
    <2> HIDE DEF refunds
    <2>3. \A t \in refunds : t.amount >= 0
      BY <2>2 DEF TxRecord
    <2>4. QED
      BY <2>1, <2>2, <2>3 DEF Batch
  <1>5. ASSUME NEW s \in Slots, Call(s)
        PROVE  \E orders : Batch(orders) /\ ledger' = Posted(ledger, orders)
    <2>1. ledger' = Posted(ledger, Outcome(s).orders) /\ req[s] # Idle /\ req[s].op = "call"
      BY <1>5 DEF Call, Callable
    <2>2. \A t \in Outcome(s).orders : t.amount >= 0
      BY <2>1, OutcomeTyped DEF TxRecord
    <2>3. QED
      BY <2>1, <2>2, OutcomeTyped DEF Batch
  <1>6. ASSUME NEW s \in Slots, Undo(s)
        PROVE  \E orders : Batch(orders) /\ ledger' = Posted(ledger, orders)
    <2>1. ledger' = Posted(ledger, UndoOrders) /\ Affordable(ledger, UndoOrders) /\ called # <<>>
      BY <1>6 DEF Undo, Undoable
    <2>2. QED
      BY <2>1, UndoneTyped DEF Batch
  <1>7. ledger' # ledger =>
          \/ \E u \in Users, a \in Withdrawals : Withdraw(u, a)
          \/ \E s \in Slots : Buy(s) \/ Close(s) \/ Call(s) \/ Undo(s)
    BY DEF Next, SelectManual, BeginBuy, BeginStart, BeginClose, BeginCall, BeginUndo, Drop,
           Start, CallLost, UndoLost
  <1>8. QED
    BY <1>2, <1>3, <1>4, <1>5, <1>6, <1>7

LEMMA PromisedBalance == ASSUME NEW L, NEW u PROVE Promise!Balance(L, u) = Balance(L, u)
  BY DEF Promise!Balance, Balance, Promise!MapThenSumSet, MapThenSumSet,
         Promise!MapThenFoldSet, MapThenFoldSet

LEMMA PromisedKey == ASSUME NEW L, NEW u, NEW k PROVE Promise!HasTx(L, u, k) <=> HasTx(L, u, k)
  BY DEF Promise!HasTx, HasTx

Solvent == \A u \in Users : Balance(ledger, u) >= 0

LEMMA StepKeepsPromise ==
    ASSUME Typed, Solvent, Next, ledger' # ledger PROVE Promise!Post /\ Solvent'
  <1>1. PICK orders : Batch(orders) /\ ledger' = Posted(ledger, orders)
    BY StepPosts
  <1>2. /\ IsFiniteSet(ledger) /\ ledger \subseteq TxRecord
        /\ IsFiniteSet(orders) /\ orders \subseteq TxRecord
        /\ \A t, x \in orders : t.user = x.user /\ t.key = x.key => t = x
        /\ Affordable(ledger, orders) \/ \A t \in orders : t.amount >= 0
        /\ \A t \in ledger \cup orders : t.amount \in Int
    BY <1>1 DEF Typed, Batch, TxRecord
  <1>3. /\ ledger \subseteq ledger'
        /\ ledger' \ ledger \subseteq orders
        /\ \A t \in ledger' \ ledger :
              /\ ~ HasTx(ledger, t.user, t.key)
              /\ \A x \in ledger' \ ledger : x.user = t.user /\ x.key = t.key => x = t
        /\ \A u \in Users : Balance(ledger', u) >= 0
    BY <1>1, <1>2, PostingIsHonest DEF Solvent
  <1>4. Promise!Post
    BY <1>2, <1>3, PromisedBalance, PromisedKey DEF Promise!Post
  <1>5. QED
    BY <1>3, <1>4 DEF Solvent

\* Whatever overlaps, and even when tg_router pays by a stale row, the game
\* pays through the wallet as the ledger promises: every transaction is posted
\* once under its key and nobody is overdrawn.
THEOREM GameIsLedger == Spec => LedgerKept
  <1>1. Init => Promise!Init /\ Solvent
    BY OpeningAssumption, PromisedBalance DEF Init, Promise!Init, Solvent
  <1>2. Typed /\ Solvent /\ [Next]_vars => [Promise!Post]_ledger /\ Solvent'
    <2> SUFFICES ASSUME Typed, Solvent, [Next]_vars PROVE [Promise!Post]_ledger /\ Solvent'
      OBVIOUS
    <2>1. CASE ledger' = ledger
      BY <2>1 DEF Solvent
    <2>2. CASE ledger' # ledger
      BY <2>2, StepKeepsPromise DEF vars
    <2>3. QED
      BY <2>1, <2>2
  <1>3. QED
    BY <1>1, <1>2, TypedHolds, PTL DEF Spec, LedgerKept, Promise!Spec

-----------------------------------------------------------------------------
(* The life of a game *)

\* The shape of the state the proofs need: the games row has its columns, and
\* every request works on the row it has locked.
Shape ==
    /\ game = [f \in Fields |-> game[f]]
    /\ req = [s \in Slots |-> req[s]]
    /\ \A s \in Slots : req[s] # Idle => req[s].route # "tg"

Lifecycle ==
    /\ Shape
    /\ game.status = "LOBBY" => called = <<>>
    /\ Closed => game.status = "ENDED" /\ called = <<>>
    /\ Closed => \A t \in ledger : t.key.kind \notin PrizeKinds
    /\ Closed => \A i \in 1..Len(purchases) :
          Tx(purchases[i].user, Ref("LOBBY_REFUND", i), purchases[i].total) \in ledger
    /\ game.status = "LOBBY" => \A t \in ledger : t.key.kind \notin PrizeKinds
    /\ ~ Closed => \A t \in ledger : t.key.kind # "LOBBY_REFUND"

\* A posted transaction was there before or is one of the orders.
LEMMA PostedFrom ==
    ASSUME NEW L, NEW orders, NEW t \in Posted(L, orders)
    PROVE  t \in L \/ t \in orders
  BY DEF Posted, NewTxs

\* An order is posted when no transaction has its key.
LEMMA PostedNew ==
    ASSUME NEW L, NEW orders, NEW o \in orders, ~ HasTx(L, o.user, o.key)
    PROVE  o \in Posted(L, orders)
  BY DEF Posted, NewTxs

LEMMA PostedKeeps ==
    ASSUME NEW L, NEW orders
    PROVE  L \subseteq Posted(L, orders)
  BY DEF Posted

\* Prizes and reversals carry their kind.
LEMMA PrizeKind ==
    ASSUME NEW kind, NEW pays, NEW t \in Prizes(kind, pays)
    PROVE  t.key.kind = kind
  BY DEF Prizes, Tx, Ref

LEMMA ReversalKind ==
    ASSUME NEW kind, NEW n, NEW pays, NEW t \in Reversals(kind, n, pays)
    PROVE  t.key.kind = kind
  BY DEF Reversals, Tx, Ref

\* Handlers of the routes other than tg_router read and write the locked row.
LEMMA LockedRow ==
    ASSUME Shape, NEW s \in Slots, req[s] # Idle
    PROVE  /\ Row(s) = game
           /\ \A row : Flushed(s, row) = row
  BY DEF Shape, Row, Flushed

\* The columns that no call and no undo writes.
Money == {"sold", "commission", "pool", "rowAmount", "colAmount"}

\* What a call may do: it posts prizes only, leaves the amounts alone, and the
\* status stays or becomes ENDED.
LEMMA CallOutcome ==
    ASSUME Shape, NEW s \in Slots, req[s] # Idle
    PROVE  /\ \A t \in Outcome(s).orders : t.key.kind \in PrizeKinds
           /\ \A e \in Outcome(s).events :
                 e.kind \in {"PRIZE_ROW", "PRIZE_COL", "GAME_ENDED"}
           /\ Outcome(s).game = [f \in Fields |-> Outcome(s).game[f]]
           /\ Outcome(s).game.status \in {game.status, "ENDED"}
           /\ \A f \in Money : Outcome(s).game[f] = game[f]
  <1> DEFINE n == req[s].number
  <1>1. Row(s) = game
    BY LockedRow
  <1>2. CASE RowWinners(s) # {}
    <2>1. Outcome(s) = [game |-> RowPayout(game, n, RowWinners(s)),
                        orders |-> Prizes("PRIZE_ROW", Pays(RowTotal(game), RowWinners(s))),
                        events |-> {Ref("PRIZE_ROW", 0), Ref("GAME_ENDED", 0)}]
      BY <1>1, <1>2 DEF Outcome
    <2>2. \A t \in Outcome(s).orders : t.key.kind = "PRIZE_ROW"
      BY <2>1, PrizeKind
    <2>3. \A e \in Outcome(s).events :
             e.kind \in {"PRIZE_ROW", "PRIZE_COL", "GAME_ENDED"}
      BY <2>1 DEF Ref
    <2>4. Outcome(s).game = RowPayout(game, n, RowWinners(s))
      BY <2>1
    <2>5. /\ Outcome(s).game = [f \in Fields |-> Outcome(s).game[f]]
          /\ Outcome(s).game.status \in {game.status, "ENDED"}
          /\ \A f \in Money : Outcome(s).game[f] = game[f]
      <3>1. PICK p : Outcome(s).game
                       = [game EXCEPT !.status = "ENDED", !.colPaid = TRUE, !.payout = p]
        BY <2>4, Zenon DEF RowPayout
      <3>2. QED
        BY <3>1 DEF Shape, Fields, Money
    <2>6. QED
      BY <2>2, <2>3, <2>5 DEF PrizeKinds
  <1>3. CASE RowWinners(s) = {} /\ ColWinners(s) # {}
    <2>1. Outcome(s) = [game |-> ColPayout(game, n, ColWinners(s)),
                        orders |-> Prizes("PRIZE_COL", Pays(game.colAmount, ColWinners(s))),
                        events |-> {Ref("PRIZE_COL", 0)}]
      BY <1>1, <1>3 DEF Outcome
    <2>2. \A t \in Outcome(s).orders : t.key.kind = "PRIZE_COL"
      BY <2>1, PrizeKind
    <2>3. \A e \in Outcome(s).events :
             e.kind \in {"PRIZE_ROW", "PRIZE_COL", "GAME_ENDED"}
      BY <2>1 DEF Ref
    <2>4. Outcome(s).game = ColPayout(game, n, ColWinners(s))
      BY <2>1
    <2>5. /\ Outcome(s).game = [f \in Fields |-> Outcome(s).game[f]]
          /\ Outcome(s).game.status \in {game.status, "ENDED"}
          /\ \A f \in Money : Outcome(s).game[f] = game[f]
      BY <2>4 DEF ColPayout, Shape, Fields, Money
    <2>6. QED
      BY <2>2, <2>3, <2>5 DEF PrizeKinds
  <1>4. CASE RowWinners(s) = {} /\ ColWinners(s) = {}
    <2>1. Outcome(s) = [game |-> game, orders |-> {}, events |-> {}]
      BY <1>1, <1>4 DEF Outcome
    <2>2. QED
      BY <2>1 DEF Shape
  <1>5. QED
    BY <1>2, <1>3, <1>4

\* What an undo may do.
LEMMA UndoOutcome ==
    ASSUME Shape
    PROVE  /\ \A t \in UndoOrders : t.key.kind \in UndoKinds
           /\ Undone = [f \in Fields |-> Undone[f]]
           /\ Undone.status \in {game.status, "RUNNING"}
           /\ \A f \in Money : Undone[f] = game[f]
  <1>1. \A t \in UndoOrders : t.key.kind \in UndoKinds
    BY ReversalKind DEF UndoOrders, UndoKinds
  <1>2. QED
    BY <1>1 DEF Undone, Shape, Fields, Money

LEMMA InitLifecycle == Init => Lifecycle
  <1> SUFFICES ASSUME Init PROVE Lifecycle
    OBVIOUS
  <1>1. Shape
    BY DEF Init, Shape, Fields
  <1>2. ~ Closed
    BY DEF Init, Closed, Ref
  <1>3. \A t \in ledger : t.key.kind = "OPENING"
    BY OpeningAssumption DEF Init
  <1>4. QED
    BY <1>1, <1>2, <1>3 DEF Init, Lifecycle, PrizeKinds

\* The steps that begin or drop a request.
LEMMA StepOfRequest ==
    ASSUME Lifecycle, "tg" \notin Routes, NEW s \in Slots,
           \/ \E u \in Users, qty \in 1..MaxQty, k \in BuyKeys : BeginBuy(s, u, qty, k)
           \/ \E route \in Routes : BeginStart(s, route)
           \/ BeginClose(s)
           \/ \E route \in Routes, n \in Numbers, k \in CallKeys : BeginCall(s, route, n, k)
           \/ \E k \in UndoKeys : BeginUndo(s, k)
           \/ Drop(s)
    PROVE  Lifecycle'
  <1>1. UNCHANGED <<game, purchases, called, ledger, events>>
    BY DEF BeginBuy, BeginStart, BeginClose, BeginCall, BeginUndo, Drop
  <1>2. \E r : req' = [req EXCEPT ![s] = r] /\ (r = Idle \/ r.route # "tg")
    BY DEF BeginBuy, BeginStart, BeginClose, BeginCall, BeginUndo, Drop, Done
  <1>3. Shape'
    BY <1>1, <1>2 DEF Lifecycle, Shape
  <1>4. QED
    BY <1>1, <1>3 DEF Lifecycle, Closed

\* A request that ends leaves the other requests alone.
LEMMA DoneShape ==
    ASSUME Shape, NEW s \in Slots, Done(s), game' = [f \in Fields |-> game'[f]]
    PROVE  Shape'
  BY DEF Shape, Done

LEMMA StepSelectManual ==
    ASSUME Lifecycle, SelectManual PROVE Lifecycle'
  <1>1. game' = [f \in Fields |-> game'[f]] /\ game'.status = "LOBBY"
    BY DEF Lifecycle, Shape, SelectManual, Fields
  <1>2. Shape' /\ (Closed' <=> Closed)
    BY <1>1 DEF Lifecycle, Shape, SelectManual, Closed
  <1>3. QED
    BY <1>1, <1>2 DEF Lifecycle, SelectManual

LEMMA StepWithdraw ==
    ASSUME Lifecycle, NEW u, NEW a, Withdraw(u, a) PROVE Lifecycle'
  <1>1. \A t \in ledger' : t \in ledger \/ t.key.kind = "WITHDRAW"
    BY PostedFrom DEF Withdraw, Tx, Ref
  <1>2. ledger \subseteq ledger'
    BY PostedKeeps DEF Withdraw
  <1>3. Shape' /\ (Closed' <=> Closed)
    BY DEF Lifecycle, Shape, Withdraw, Closed
  <1>4. QED
    BY <1>1, <1>2, <1>3 DEF Lifecycle, Withdraw, PrizeKinds

\* A purchase is made in the lobby, so the game is not closed.
LEMMA StepBuy ==
    ASSUME Lifecycle, NEW s \in Slots, Buy(s) PROVE Lifecycle'
  <1>1. game.status = "LOBBY" /\ ~ Closed
    BY DEF Buy, OnSale, Lifecycle
  <1>2. \A t \in ledger' : t \in ledger \/ t.key.kind = "BUY"
    BY PostedFrom DEF Buy, Tx, Ref
  <1>3. ~ Closed'
    BY <1>1 DEF Buy, Closed, Ref
  <1>4. game' = [f \in Fields |-> game'[f]] /\ game'.status = "LOBBY"
    BY <1>1 DEF Buy, Lifecycle, Shape, Fields
  <1>5. Shape'
    BY <1>4, DoneShape DEF Buy, Lifecycle
  <1>6. called' = called
    BY DEF Buy
  <1>7. QED
    BY <1>1, <1>2, <1>3, <1>4, <1>5, <1>6 DEF Lifecycle, PrizeKinds

LEMMA StepStart ==
    ASSUME Lifecycle, NEW s \in Slots, Start(s) PROVE Lifecycle'
  <1>1. Row(s) = game /\ \A row : Flushed(s, row) = row
    BY LockedRow DEF Start, Lifecycle
  <1>2. game.status = "LOBBY" /\ ~ Closed
    BY <1>1 DEF Start, Lifecycle
  <1>3. game' = [f \in Fields |-> game'[f]] /\ game'.status = "RUNNING"
    <2>1. game' = Running(game)
      BY <1>1 DEF Start
    <2>2. QED
      BY <2>1 DEF Running, Lifecycle, Shape, Fields
  <1>4. Shape'
    BY <1>3, DoneShape DEF Start, Lifecycle
  <1>5. ~ Closed' /\ ledger' = ledger
    BY <1>2 DEF Start, Closed, Ref
  <1>6. QED
    BY <1>2, <1>3, <1>4, <1>5 DEF Lifecycle

\* The close finds no refund in the ledger and so posts every one.
LEMMA StepClose ==
    ASSUME Lifecycle, NEW s \in Slots, Close(s) PROVE Lifecycle'
  <1> DEFINE refund(i) == Tx(purchases[i].user, Ref("LOBBY_REFUND", i), purchases[i].total)
             refunds   == {refund(i) : i \in 1..Len(purchases)}
  <1>1. game.status = "LOBBY" /\ ~ Closed /\ called = <<>>
    BY DEF Close, Lifecycle
  <1>2. ledger' = Posted(ledger, refunds)
    BY DEF Close
  <1>3. \A i \in 1..Len(purchases) : refund(i) \in ledger'
    <2> SUFFICES ASSUME NEW i \in 1..Len(purchases) PROVE refund(i) \in ledger'
      OBVIOUS
    <2>1. refund(i) \in refunds /\ refund(i).key.kind = "LOBBY_REFUND"
      BY DEF Tx, Ref
    <2>2. ~ HasTx(ledger, refund(i).user, refund(i).key)
      BY <1>1, <2>1 DEF HasTx, Lifecycle
    <2>3. QED
      BY <1>2, <2>1, <2>2, PostedNew
  <1>4. \A t \in ledger' : t.key.kind \notin PrizeKinds
    <2>1. \A t \in refunds : t.key.kind = "LOBBY_REFUND"
      BY DEF Tx, Ref
    <2>2. QED
      BY <1>1, <1>2, <2>1, PostedFrom DEF Lifecycle, PrizeKinds
  <1>5. game' = [f \in Fields |-> game'[f]] /\ game'.status = "ENDED"
    BY DEF Close, Lifecycle, Shape, Fields
  <1>6. Shape'
    BY <1>5, DoneShape DEF Close, Lifecycle
  <1>7. Closed' /\ called' = <<>> /\ purchases' = purchases
    BY <1>1 DEF Close, Closed
  <1>8. QED
    BY <1>3, <1>4, <1>5, <1>6, <1>7 DEF Lifecycle

\* A call is made while the game runs, so the game is not closed.
LEMMA StepCall ==
    ASSUME Lifecycle, NEW s \in Slots, Call(s) PROVE Lifecycle'
  <1>1. /\ req[s] # Idle
        /\ Row(s) = game
        /\ \A row : Flushed(s, row) = row
    BY LockedRow DEF Call, Callable, Lifecycle
  <1>2. game.status = "RUNNING" /\ ~ Closed
    BY <1>1 DEF Call, Callable, Drawing, Lifecycle
  <1>3. game' = Outcome(s).game
    BY <1>1 DEF Call
  <1>4. game' = [f \in Fields |-> game'[f]] /\ game'.status \in {"RUNNING", "ENDED"}
    BY <1>1, <1>2, <1>3, CallOutcome DEF Lifecycle
  <1>5. Shape'
    BY <1>4, DoneShape DEF Call, Lifecycle
  <1>6. ~ Closed'
    BY <1>1, <1>2, CallOutcome DEF Call, Closed, Ref, Lifecycle
  <1>7. \A t \in ledger' : t \in ledger \/ t.key.kind \in PrizeKinds
    BY <1>1, CallOutcome, PostedFrom DEF Call, Lifecycle
  <1>8. QED
    BY <1>2, <1>4, <1>5, <1>6, <1>7 DEF Lifecycle, PrizeKinds

\* An undo needs a called number, so the game is not closed.
LEMMA StepUndo ==
    ASSUME Lifecycle, NEW s \in Slots, Undo(s) PROVE Lifecycle'
  <1>1. called # <<>> /\ ~ Closed
    BY DEF Undo, Undoable, Lifecycle
  <1>2. game' = Undone /\ ledger' = Posted(ledger, UndoOrders)
    BY DEF Undo
  <1>3. game' = [f \in Fields |-> game'[f]] /\ game'.status \in {game.status, "RUNNING"}
    BY <1>2, UndoOutcome DEF Lifecycle
  <1>4. Shape'
    BY <1>3, DoneShape DEF Undo, Lifecycle
  <1>5. ~ Closed'
    BY <1>1 DEF Undo, Closed, Ref
  <1>6. \A t \in ledger' : t \in ledger \/ t.key.kind \in UndoKinds
    BY <1>2, UndoOutcome, PostedFrom DEF Lifecycle
  <1>7. QED
    BY <1>1, <1>3, <1>4, <1>5, <1>6 DEF Lifecycle, PrizeKinds, UndoKinds

\* A call or an undo whose commit is lost changes only the cache.
LEMMA StepLost ==
    ASSUME Lifecycle, NEW s \in Slots, CallLost(s) \/ UndoLost(s) PROVE Lifecycle'
  <1>1. UNCHANGED <<game, purchases, called, ledger, events>> /\ Done(s)
    BY DEF CallLost, UndoLost
  <1>2. Shape'
    BY <1>1, DoneShape DEF Lifecycle, Shape
  <1>3. QED
    BY <1>1, <1>2 DEF Lifecycle, Closed

LEMMA LifecycleHolds == "tg" \notin Routes => (Spec => []Lifecycle)
  <1> SUFFICES ASSUME "tg" \notin Routes PROVE Spec => []Lifecycle
    OBVIOUS
  <1>1. Lifecycle /\ [Next]_vars => Lifecycle'
    <2> SUFFICES ASSUME Lifecycle, [Next]_vars PROVE Lifecycle'
      OBVIOUS
    <2>1. CASE UNCHANGED vars
      BY <2>1 DEF vars, Lifecycle, Shape, Closed
    <2>2. CASE Next
      BY <2>2, StepSelectManual, StepWithdraw, StepOfRequest, StepBuy, StepStart,
         StepClose, StepCall, StepUndo, StepLost DEF Next
    <2>3. QED
      BY <2>1, <2>2
  <1>2. QED
    BY <1>1, InitLifecycle, PTL DEF Spec

-----------------------------------------------------------------------------
\* Purchases are refunded exactly when the lobby is closed, and then no prize
\* is ever paid.
THEOREM RefundOrPrize == "tg" \notin Routes => (Spec => []RefundXorPrize)
  <1> SUFFICES ASSUME "tg" \notin Routes PROVE Spec => []RefundXorPrize
    OBVIOUS
  <1>1. Lifecycle => RefundXorPrize
    <2> SUFFICES ASSUME Lifecycle PROVE RefundXorPrize
      OBVIOUS
    <2>1. \A i : Tx(purchases[i].user, Ref("LOBBY_REFUND", i), purchases[i].total).key.kind
                   = "LOBBY_REFUND"
      BY DEF Tx, Ref
    <2>2. QED
      BY <2>1 DEF Lifecycle, RefundXorPrize
  <1>2. QED
    BY <1>1, LifecycleHolds, PTL

\* What a step does to a game that has left the lobby.
LEMMA AfterLobby ==
    ASSUME Lifecycle, [Next]_vars, game.status # "LOBBY"
    PROVE  /\ UNCHANGED <<purchases, cards>>
           /\ \A f \in {"pool", "rowAmount", "colAmount"} : game'[f] = game[f]
           /\ Closed => UNCHANGED <<game, called>>
  <1>1. ASSUME NEW s \in Slots, Buy(s) \/ Start(s) \/ Close(s) PROVE FALSE
    BY <1>1, LockedRow DEF Buy, OnSale, Start, Close, Lifecycle
  <1>2. ASSUME NEW s \in Slots, Call(s)
        PROVE  /\ ~ Closed
               /\ UNCHANGED <<purchases, cards>>
               /\ \A f \in {"pool", "rowAmount", "colAmount"} : game'[f] = game[f]
    BY <1>2, LockedRow, CallOutcome DEF Call, Callable, Drawing, Lifecycle, Money
  <1>3. ASSUME NEW s \in Slots, Undo(s)
        PROVE  /\ ~ Closed
               /\ UNCHANGED <<purchases, cards>>
               /\ \A f \in {"pool", "rowAmount", "colAmount"} : game'[f] = game[f]
    BY <1>3, UndoOutcome DEF Undo, Undoable, Lifecycle, Money
  <1>4. ASSUME UNCHANGED <<game, purchases, cards, called>>
        PROVE  /\ UNCHANGED <<purchases, cards, game, called>>
               /\ \A f \in {"pool", "rowAmount", "colAmount"} : game'[f] = game[f]
    BY <1>4
  <1>5. ~ SelectManual
    BY DEF SelectManual
  <1>6. QED
    BY <1>1, <1>2, <1>3, <1>4, <1>5
    DEF Next, vars, Withdraw, BeginBuy, BeginStart, BeginClose, BeginCall, BeginUndo,
        Drop, CallLost, UndoLost

\* Nothing changes the sales, the cards and the prizes of a started game.
THEOREM SalesStayFrozen == "tg" \notin Routes => (Spec => SalesFrozen)
  <1> SUFFICES ASSUME "tg" \notin Routes PROVE Spec => SalesFrozen
    OBVIOUS
  <1>1. Lifecycle /\ [Next]_vars
          => [game.status # "LOBBY" =>
                /\ UNCHANGED <<purchases, cards>>
                /\ \A f \in {"pool", "rowAmount", "colAmount"} : game'[f] = game[f]]_vars
    BY AfterLobby
  <1>2. QED
    BY <1>1, LifecycleHolds, PTL DEF Spec, SalesFrozen

\* A closed game is never started, called or reopened.
THEOREM ClosedStaysClosed == "tg" \notin Routes => (Spec => ClosedForGood)
  <1> SUFFICES ASSUME "tg" \notin Routes PROVE Spec => ClosedForGood
    OBVIOUS
  <1>1. Lifecycle /\ [Next]_vars
          => [Closed => UNCHANGED <<game, purchases, cards, called>>]_vars
    BY AfterLobby DEF Lifecycle
  <1>2. QED
    BY <1>1, LifecycleHolds, PTL DEF Spec, ClosedForGood

-----------------------------------------------------------------------------
(* The pot *)

\* The sums of PotMatchesSales, with the table as a parameter.
Bought(L) == {t \in L : t.key.kind = "BUY"}
Sales(p)  == MapThenSumSet(LAMBDA i : p[i].total, 1..Len(p))
Fees(p)   == MapThenSumSet(LAMBDA i : Commission(p[i].total), 1..Len(p))

Pot == ~ Closed =>
    /\ game.sold = - Sum(Bought(ledger))
    /\ game.sold = Sales(purchases)
    /\ game.commission = Fees(purchases)
    /\ game.pool = game.sold - game.commission
    /\ Started => game.rowAmount + game.colAmount = game.pool

LEMMA PotIsPot == PotMatchesSales <=> Pot
  BY DEF PotMatchesSales, Pot, NetOf, Sum, Bought, Sales, Fees, MapThenSumSet, MapThenFoldSet

\* The totals and the commissions of a list of purchases as sums of a function.
Totals(p) == [i \in 1..Len(p) |-> p[i].total]
Cuts(p)   == [i \in 1..Len(p) |-> Commission(p[i].total)]

LEMMA SalesIsTotal ==
    ASSUME NEW p, Len(p) \in Nat PROVE Sales(p) = Total(Totals(p), 1..Len(p))
  <1> DEFINE S == 1..Len(p)
             it == CHOOSE g : g = [s \in SUBSET S |-> IF s = {} THEN 0 ELSE p[First(s)].total + g[Rest(s)]]
  <1>1. IsFiniteSet(S)
    BY FS_Interval
  <1>2. PICK g : IsSum(g, Totals(p), S)
    BY AddsExists, <1>1
  <1>3. \A s \in SUBSET S : s # {} => Totals(p)[First(s)] = p[First(s)].total
    BY FirstIsIn DEF Totals
  <1>4. g = [s \in SUBSET S |-> IF s = {} THEN 0 ELSE p[First(s)].total + g[Rest(s)]]
    <2> HIDE DEF S
    <2>1. QED
      BY <1>2, <1>3 DEF IsSum
  <1>5. it = [s \in SUBSET S |-> IF s = {} THEN 0 ELSE p[First(s)].total + it[Rest(s)]]
    BY <1>4
  <1>6. Sales(p) = it[S]
    BY DEF Sales, MapThenSumSet, MapThenFoldSet, First, Rest
  <1> HIDE DEF S
  <1>7. Adds(it, Totals(p), S)
    <2> HIDE DEF it
    <2>1. QED
      BY <1>3, <1>5 DEF Adds
  <1>8. PICK h : Adds(h, Totals(p), S) /\ Total(Totals(p), S) = h[S]
    BY <1>1, TotalAdds
  <1>9. it[S] = h[S]
    <2> HIDE DEF it
    <2>1. QED
      BY <1>1, <1>7, <1>8, AddsAlike
  <1>10. QED
    BY <1>6, <1>8, <1>9 DEF S

LEMMA FeesIsTotal ==
    ASSUME NEW p, Len(p) \in Nat PROVE Fees(p) = Total(Cuts(p), 1..Len(p))
  <1> DEFINE S == 1..Len(p)
             it == CHOOSE g : g = [s \in SUBSET S |->
                      IF s = {} THEN 0 ELSE Commission(p[First(s)].total) + g[Rest(s)]]
  <1>1. IsFiniteSet(S)
    BY FS_Interval
  <1>2. PICK g : IsSum(g, Cuts(p), S)
    BY AddsExists, <1>1
  <1>3. \A s \in SUBSET S : s # {} => Cuts(p)[First(s)] = Commission(p[First(s)].total)
    BY FirstIsIn DEF Cuts
  <1>4. g = [s \in SUBSET S |-> IF s = {} THEN 0 ELSE Commission(p[First(s)].total) + g[Rest(s)]]
    <2> HIDE DEF S
    <2>1. QED
      BY <1>2, <1>3 DEF IsSum
  <1>5. it = [s \in SUBSET S |-> IF s = {} THEN 0 ELSE Commission(p[First(s)].total) + it[Rest(s)]]
    BY <1>4
  <1>6. Fees(p) = it[S]
    BY DEF Fees, MapThenSumSet, MapThenFoldSet, First, Rest
  <1> HIDE DEF S
  <1>7. Adds(it, Cuts(p), S)
    <2> HIDE DEF it
    <2>1. QED
      BY <1>3, <1>5 DEF Adds
  <1>8. PICK h : Adds(h, Cuts(p), S) /\ Total(Cuts(p), S) = h[S]
    BY <1>1, TotalAdds
  <1>9. it[S] = h[S]
    <2> HIDE DEF it
    <2>1. QED
      BY <1>1, <1>7, <1>8, AddsAlike
  <1>10. QED
    BY <1>6, <1>8, <1>9 DEF S

\* A list with one more entry.
LEMMA TotalNext ==
    ASSUME NEW n \in Nat, NEW val, NEW next,
           \A i \in 1..n : val[i] = next[i], \A i \in 1..(n + 1) : next[i] \in Int
    PROVE  Total(next, 1..(n + 1)) = Total(val, 1..n) + next[n + 1]
  <1>1. IsFiniteSet(1..n) /\ n + 1 \notin 1..n /\ 1..(n + 1) = (1..n) \cup {n + 1}
    BY FS_Interval
  <1>2. Total(val, 1..n) = Total(next, 1..n)
    BY <1>1, TotalAlike
  <1>3. \A i \in (1..n) \cup {n + 1} : next[i] \in Int
    BY <1>1
  <1>4. Total(next, (1..n) \cup {n + 1}) = Total(next, 1..n) + next[n + 1]
    <2> DEFINE S == 1..n
               x == n + 1
    <2>1. IsFiniteSet(S) /\ x \notin S /\ \A y \in S \cup {x} : next[y] \in Int
      BY <1>1, <1>3
    <2> HIDE DEF S, x
    <2>2. Total(next, S \cup {x}) = Total(next, S) + next[x]
      BY <2>1, TotalAdd
    <2>3. QED
      BY <2>2 DEF S, x
  <1>5. QED
    BY <1>1, <1>2, <1>4

LEMMA OneMoreSale ==
    ASSUME NEW p \in Seq(PurchaseRow), NEW row \in PurchaseRow
    PROVE  LET q == Append(p, row)
           IN  Sales(q) = Sales(p) + row.total /\ Fees(q) = Fees(p) + Commission(row.total)
  <1> DEFINE q == Append(p, row)
             n == Len(p)
  <1>1. n \in Nat /\ q \in Seq(PurchaseRow) /\ Len(q) = n + 1
    BY AppendProperties, LenProperties
  <1>2. (\A i \in 1..n : q[i] = p[i]) /\ q[n + 1] = row
    BY AppendProperties
  <1>3. \A i \in 1..(n + 1) : q[i].total \in Nat /\ Commission(q[i].total) \in Nat
    <2>1. \A i \in 1..(n + 1) : q[i] \in PurchaseRow
      BY <1>1, ElementOfSeq
    <2>2. QED
      BY <2>1, BucketsNat DEF PurchaseRow
  <1> HIDE DEF q, n
  <1>4. Total(Totals(q), 1..(n + 1)) = Total(Totals(p), 1..n) + Totals(q)[n + 1]
    <2>1. (\A i \in 1..n : Totals(p)[i] = Totals(q)[i]) /\ \A i \in 1..(n + 1) : Totals(q)[i] \in Int
      BY <1>1, <1>2, <1>3 DEF Totals, n
    <2>2. QED
      BY <1>1, <2>1, TotalNext
  <1>5. Total(Cuts(q), 1..(n + 1)) = Total(Cuts(p), 1..n) + Cuts(q)[n + 1]
    <2>1. (\A i \in 1..n : Cuts(p)[i] = Cuts(q)[i]) /\ \A i \in 1..(n + 1) : Cuts(q)[i] \in Int
      BY <1>1, <1>2, <1>3 DEF Cuts, n
    <2>2. QED
      BY <1>1, <2>1, TotalNext
  <1>6. Totals(q)[n + 1] = row.total /\ Cuts(q)[n + 1] = Commission(row.total)
    BY <1>1, <1>2 DEF Totals, Cuts
  <1>7. /\ Sales(p) = Total(Totals(p), 1..n) /\ Sales(q) = Total(Totals(q), 1..(n + 1))
        /\ Fees(p) = Total(Cuts(p), 1..n) /\ Fees(q) = Total(Cuts(q), 1..(n + 1))
    BY <1>1, SalesIsTotal, FeesIsTotal DEF n
  <1>8. QED
    BY <1>4, <1>5, <1>6, <1>7 DEF q

LEMMA NoSale == Sales(<<>>) = 0 /\ Fees(<<>>) = 0
  <1>1. Len(<<>>) = 0 /\ 1..0 = {}
    OBVIOUS
  <1>2. QED
    BY <1>1, SalesIsTotal, FeesIsTotal, TotalEmpty

\* A purchase adds its total to the pot and its price to the debits.
LEMMA BuyPot ==
    ASSUME Typed, Lifecycle, Pot, NEW s \in Slots, Buy(s) PROVE Pot'
  <1> DEFINE r == req[s]
             total == Price * r.qty
             t == Tx(r.user, Ref("BUY", r.key), - total)
             row == [user |-> r.user, total |-> total]
  <1>1. game.status = "LOBBY" /\ ~ Closed
    BY DEF Buy, OnSale, Lifecycle
  <1>2. r.user \in Users /\ total \in Nat \ {0} /\ Commission(total) \in Nat
    <2>1. r.user \in Users /\ r.qty \in 1..MaxQty
      BY DEF Buy, Typed, ReqsOK, RequestOK, Request
    <2>2. total \in Nat \ {0}
      BY <2>1, GameAssumption
    <2> HIDE DEF total
    <2>3. QED
      BY <2>1, <2>2, BucketsNat
  <1>3. Sum(Bought(ledger')) = Sum(Bought(ledger)) - total
    <2>1. ledger' = ledger \cup {t} /\ ~ HasTx(ledger, r.user, Ref("BUY", r.key))
      BY DEF Buy, Posted, NewTxs, Tx
    <2>2. t.key.kind = "BUY" /\ t.amount = - total /\ t \notin ledger
      BY <2>1 DEF Tx, Ref, HasTx
    <2>3. Bought(ledger') = Bought(ledger) \cup {t} /\ t \notin Bought(ledger)
      BY <2>1, <2>2 DEF Bought
    <2>4. IsFiniteSet(Bought(ledger)) /\ \A x \in Bought(ledger) : x.amount \in Int
      BY FS_Subset DEF Bought, Typed, TxRecord
    <2>5. Sum(Bought(ledger)) \in Int
      BY <2>4, SumInt
    <2> HIDE DEF t, total
    <2>6. \A x \in Bought(ledger) \cup {t} : x.amount \in Int
      BY <1>2, <2>2, <2>4
    <2>7. Sum(Bought(ledger) \cup {t}) = Sum(Bought(ledger)) + t.amount
      BY <2>3, <2>4, <2>6, SumAdd
    <2>8. QED
      BY <1>2, <2>2, <2>3, <2>5, <2>7
  <1>4. Sales(purchases') = Sales(purchases) + total /\ Fees(purchases') = Fees(purchases) + Commission(total)
    <2>1. purchases' = Append(purchases, row)
      BY DEF Buy
    <2>2. purchases \in Seq(PurchaseRow) /\ row \in PurchaseRow /\ row.total = total
      BY <1>2 DEF Typed, PurchaseRow
    <2> HIDE DEF row, total
    <2>3. QED
      BY <2>1, <2>2, OneMoreSale
  <1>5. /\ game'.sold = game.sold + total
        /\ game'.commission = game.commission + Commission(total)
        /\ game'.pool = game.sold + total - (game.commission + Commission(total))
        /\ game'.status = "LOBBY"
    BY <1>1 DEF Buy, Typed, RowOK, GameRow
  <1>6. /\ game.sold \in Nat /\ game.commission \in Nat
        /\ Sum(Bought(ledger)) \in Int
    BY FS_Subset, SumInt DEF Typed, RowOK, GameRow, Bought, TxRecord
  <1> HIDE DEF total, r
  <1>7. game'.pool = game'.sold - game'.commission
    BY <1>2, <1>5, <1>6
  <1>8. ~ Started'
    BY <1>5 DEF Started
  <1>9. /\ game.sold = - Sum(Bought(ledger))
        /\ game.sold = Sales(purchases)
        /\ game.commission = Fees(purchases)
    BY <1>1 DEF Pot
  <1>10. game'.sold = - Sum(Bought(ledger')) /\ game'.sold = Sales(purchases')
         /\ game'.commission = Fees(purchases')
    BY <1>2, <1>3, <1>4, <1>5, <1>6, <1>9
  <1>11. QED
    BY <1>7, <1>8, <1>10 DEF Pot

\* Every other step keeps the sales and posts no purchase.
LEMMA KeepsPot ==
    ASSUME Pot, ~ Closed', ~ Closed, purchases' = purchases,
           \A f \in Money : game'[f] = game[f], Started' => Started,
           Bought(ledger') = Bought(ledger)
    PROVE  Pot'
  BY DEF Pot, Money

LEMMA StepPot ==
    ASSUME Typed, Lifecycle, Pot, [Next]_vars, ~ Closed' PROVE Pot'
  <1>0. ~ Closed
    BY ZenonT(30) DEF Closed, Next, vars, SelectManual, Withdraw, BeginBuy, BeginStart, BeginClose,
           BeginCall, BeginUndo, Drop, Buy, Start, Close, Call, CallLost, Undo, UndoLost
  <1>1. ASSUME NEW u \in Users, NEW a \in Withdrawals, Withdraw(u, a) PROVE Pot'
    <2>1. UNCHANGED <<game, purchases, events>>
      BY <1>1 DEF Withdraw
    <2>2. Bought(ledger') = Bought(ledger)
      BY <1>1, PostedKeeps, PostedFrom DEF Withdraw, Tx, Ref, Bought
    <2>3. QED
      BY <1>0, <2>1, <2>2, KeepsPot DEF Started, Closed
  <1>2. ASSUME SelectManual PROVE Pot'
    <2>1. UNCHANGED <<ledger, purchases, events>> /\ game'.status = game.status
          /\ \A f \in Money : game'[f] = game[f]
      BY <1>2 DEF SelectManual, Money, Typed, RowOK, GameRow
    <2>2. QED
      BY <1>0, <2>1, KeepsPot DEF Started, Closed, Bought
  <1>3. ASSUME UNCHANGED <<game, purchases, ledger, events>> PROVE Pot'
    BY <1>0, <1>3, KeepsPot DEF Started, Closed, Bought
  <1>4. ASSUME NEW s \in Slots, Start(s) PROVE Pot'
    <2>1. Row(s) = game /\ \A row : Flushed(s, row) = row
      BY <1>4, LockedRow DEF Start, Lifecycle
    <2>2. game' = Running(game) /\ game.status = "LOBBY" /\ UNCHANGED <<purchases, ledger>>
      BY <1>4, <2>1 DEF Start
    <2>3. /\ game'.sold = game.sold /\ game'.commission = game.commission
          /\ game'.pool = game.pool
          /\ game'.rowAmount = RowBucket(game.pool) /\ game'.colAmount = ColBucket(game.pool)
      BY <2>2 DEF Running, Typed, RowOK, GameRow
    <2>4. ColBucket(game.pool) + RowBucket(game.pool) = game.pool
          /\ ColBucket(game.pool) \in Nat /\ RowBucket(game.pool) \in Nat
      BY BucketsNat DEF Typed, RowOK, GameRow
    <2>5. game'.rowAmount + game'.colAmount = game'.pool
      BY <2>3, <2>4
    <2>6. QED
      BY <1>0, <2>2, <2>3, <2>5 DEF Pot
  <1>5. ASSUME NEW s \in Slots, Call(s) PROVE Pot'
    <2>1. /\ req[s] # Idle /\ Row(s) = game /\ \A row : Flushed(s, row) = row
      BY <1>5, LockedRow DEF Call, Callable, Lifecycle
    <2>2. game.status = "RUNNING" /\ game' = Outcome(s).game
          /\ ledger' = Posted(ledger, Outcome(s).orders) /\ purchases' = purchases
      BY <1>5, <2>1 DEF Call, Callable, Drawing
    <2>3. \A f \in Money : game'[f] = game[f]
      BY <2>1, <2>2, CallOutcome DEF Lifecycle
    <2>4. Bought(ledger') = Bought(ledger)
      <3>1. \A t \in Outcome(s).orders : t.key.kind \in PrizeKinds
        BY <2>1, CallOutcome DEF Lifecycle
      <3>2. \A t \in ledger' : t \in ledger \/ t.key.kind \in PrizeKinds
        BY <2>2, <3>1, PostedFrom
      <3>3. ledger \subseteq ledger'
        BY <2>2, PostedKeeps
      <3>4. QED
        BY <3>2, <3>3 DEF Bought, PrizeKinds
    <2>5. Started
      BY <1>0, <2>2 DEF Started
    <2>6. QED
      BY <1>0, <2>2, <2>3, <2>4, <2>5, KeepsPot
  <1>6. ASSUME NEW s \in Slots, Undo(s) PROVE Pot'
    <2>1. called # <<>> /\ game' = Undone /\ ledger' = Posted(ledger, UndoOrders) /\ purchases' = purchases
      BY <1>6 DEF Undo, Undoable
    <2>2. \A f \in Money : game'[f] = game[f]
      BY <2>1, UndoOutcome DEF Lifecycle
    <2>3. Bought(ledger') = Bought(ledger)
      BY <2>1, UndoOutcome, PostedKeeps, PostedFrom DEF Lifecycle, Bought, UndoKinds
    <2>4. Started
      BY <1>0, <2>1 DEF Started, Lifecycle
    <2>5. QED
      BY <1>0, <2>1, <2>2, <2>3, <2>4, KeepsPot
  <1>7. ASSUME NEW s \in Slots, Close(s) PROVE FALSE
    BY <1>7 DEF Close, Closed
  <1>8. \/ \E u \in Users, a \in Withdrawals : Withdraw(u, a)
        \/ SelectManual
        \/ UNCHANGED <<game, purchases, ledger, events>>
        \/ \E s \in Slots : Buy(s) \/ Start(s) \/ Close(s) \/ Call(s) \/ Undo(s)
    BY DEF Next, vars, BeginBuy, BeginStart, BeginClose, BeginCall, BeginUndo, Drop,
           CallLost, UndoLost
  <1>9. QED
    BY <1>1, <1>2, <1>3, <1>4, <1>5, <1>6, <1>7, <1>8, BuyPot

LEMMA PotHolds == "tg" \notin Routes => (Spec => []Pot)
  <1> SUFFICES ASSUME "tg" \notin Routes PROVE Spec => []Pot
    OBVIOUS
  <1>1. Init => Pot
    <2> SUFFICES ASSUME Init PROVE Pot
      OBVIOUS
    <2>1. Bought(ledger) = {}
      BY OpeningAssumption DEF Init, Bought
    <2>2. QED
      BY <2>1, SumEmpty, NoSale DEF Init, Pot, Started
  <1>2. Typed /\ Lifecycle /\ Pot /\ [Next]_vars => Pot'
    BY StepPot DEF Pot
  <1>3. QED
    BY <1>1, <1>2, TypedHolds, LifecycleHolds, PTL DEF Spec

\* Without tg_router the sold amount of a game that is not closed is what its
\* purchases and the wallets say, the pool is that less the commissions, and
\* the two prizes of a started game share it out.
THEOREM PotAddsUp == "tg" \notin Routes => (Spec => []PotMatchesSales)
  BY PotHolds, PotIsPot, PTL

-----------------------------------------------------------------------------
(* The prizes *)

\* The rank of a winner: how many winners have a smaller id.
Rank(winners, c) == Cardinality({d \in winners : d < c})

\* The winners that get one unit of the remainder.
Lucky(total, winners) ==
    {c \in winners : Rank(winners, c) < total % Cardinality(winners)}

LEMMA Ranks ==
    ASSUME NEW W \in SUBSET Nat, IsFiniteSet(W)
    PROVE  /\ \A c \in W : Rank(W, c) \in 0..(Cardinality(W) - 1)
           /\ \A c, d \in W : Rank(W, c) = Rank(W, d) => c = d
  <1> DEFINE below(c) == {d \in W : d < c}
  <1>1. ASSUME NEW c \in W
        PROVE  IsFiniteSet(below(c)) /\ Cardinality(below(c)) \in Nat
    BY FS_Subset, FS_CardinalityType
  <1>2. ASSUME NEW c \in W PROVE Cardinality(below(c)) < Cardinality(W)
    <2>1. below(c) \in SUBSET W /\ below(c) # W
      OBVIOUS
    <2>2. Cardinality(W) \in Nat
      BY FS_CardinalityType
    <2> HIDE DEF below
    <2>3. QED
      BY <1>1, <2>1, <2>2, FS_Subset
  <1>3. ASSUME NEW c \in W, NEW d \in W, c < d
        PROVE  Cardinality(below(c)) < Cardinality(below(d))
    <2>1. below(c) \in SUBSET below(d) /\ below(c) # below(d)
      <3>1. c \in below(d) /\ c \notin below(c)
        BY <1>3
      <3>2. \A x \in below(c) : x \in below(d)
        BY <1>3
      <3>3. QED
        BY <3>1, <3>2
    <2> HIDE DEF below
    <2>2. QED
      BY <1>1, <2>1, FS_Subset
  <1>4. \A c \in W : Rank(W, c) = Cardinality(below(c))
    BY DEF Rank
  <1> HIDE DEF below
  <1>5. \A c, d \in W : c < d => Rank(W, c) # Rank(W, d)
    BY <1>1, <1>3, <1>4
  <1>6. Cardinality(W) \in Nat
    BY FS_CardinalityType
  <1>7. QED
    BY <1>1, <1>2, <1>4, <1>5, <1>6

\* The remainder goes to as many winners as it has units.
LEMMA LuckyCount ==
    ASSUME NEW total \in Nat, NEW W \in SUBSET Nat, IsFiniteSet(W), W # {}
    PROVE  Cardinality(Lucky(total, W)) = total % Cardinality(W)
  <1> DEFINE n == Cardinality(W)
             r == total % n
             L == Lucky(total, W)
             U == W \ L
             f == [c \in L |-> Rank(W, c)]
             g == [c \in U |-> Rank(W, c)]
  <1>1. n \in Nat \ {0}
    BY FS_CardinalityType, FS_EmptySet
  <1>2. r \in 0..(n - 1)
    <2> HIDE DEF n
    <2>1. QED
      BY <1>1
  <1>3. L \in SUBSET W /\ U \in SUBSET W /\ IsFiniteSet(L) /\ IsFiniteSet(U)
    BY FS_Subset DEF Lucky
  <1>4. /\ \A c \in L : Rank(W, c) \in 0..(r - 1)
        /\ \A c \in U : Rank(W, c) \in r..(n - 1)
    <2>1. \A c \in W : Rank(W, c) \in 0..(n - 1) /\ (c \in L <=> Rank(W, c) < r)
      BY Ranks DEF Lucky
    <2> HIDE DEF n, r, L
    <2>2. QED
      BY <1>1, <1>2, <1>3, <2>1
  <1>5. f \in Injection(L, 0..(r - 1)) /\ g \in Injection(U, r..(n - 1))
    <2>1. \A c, d \in W : Rank(W, c) = Rank(W, d) => c = d
      BY Ranks
    <2> HIDE DEF n, r, L
    <2>2. f \in [L -> 0..(r - 1)] /\ \A c, d \in L : f[c] = f[d] => c = d
      BY <1>3, <1>4, <2>1
    <2>3. g \in [U -> r..(n - 1)] /\ \A c, d \in U : g[c] = g[d] => c = d
      BY <1>3, <1>4, <2>1
    <2> HIDE DEF f, g, U
    <2>4. QED
      BY <2>2, <2>3 DEF Injection, IsInjective
  <1>6. Cardinality(L) <= r /\ Cardinality(U) <= n - r
    <2>1. IsFiniteSet(0..(r - 1)) /\ Cardinality(0..(r - 1)) = r
      <3> HIDE DEF n, r
      <3>1. QED
        BY <1>1, <1>2, FS_Interval
    <2>2. IsFiniteSet(r..(n - 1)) /\ Cardinality(r..(n - 1)) = n - r
      <3> HIDE DEF n, r
      <3>1. QED
        BY <1>1, <1>2, FS_Interval
    <2> HIDE DEF f, g, L, U, n, r
    <2>3. Cardinality(L) <= Cardinality(0..(r - 1)) /\ Cardinality(U) <= Cardinality(r..(n - 1))
      BY <1>5, <2>1, <2>2, FS_Injection
    <2>4. QED
      BY <2>1, <2>2, <2>3
  <1>7. Cardinality(U) = n - Cardinality(L) /\ Cardinality(L) \in Nat
    <2>1. W \cap L = L
      BY <1>3
    <2> HIDE DEF L
    <2>2. QED
      BY <1>3, <2>1, FS_Difference, FS_CardinalityType
  <1> HIDE DEF L, U, n, r
  <1>8. Cardinality(L) = r
    BY <1>1, <1>2, <1>6, <1>7
  <1>9. QED
    BY <1>8 DEF L, r, n

\* _split_equal gives away the bucket to the last unit.
LEMMA SharesAddUp ==
    ASSUME NEW total \in Nat, NEW W \in SUBSET Nat, IsFiniteSet(W), W # {}
    PROVE  Total([c \in W |-> Share(total, W, c)], W) = total
  <1> DEFINE n == Cardinality(W)
             q == total \div n
             r == total % n
             L == Lucky(total, W)
             val == [c \in W |-> Share(total, W, c)]
             P == {s \in SUBSET W : Total(val, s) = q * Cardinality(s) + Cardinality(s \cap L)}
  <1>1. n \in Nat \ {0}
    BY FS_CardinalityType, FS_EmptySet
  <1>2. q \in Nat /\ r \in Nat /\ total = n * q + r
    <2> HIDE DEF n
    <2>1. QED
      BY <1>1
  <1>3. \A c \in W : val[c] = q + (IF c \in L THEN 1 ELSE 0)
    BY DEF Share, Lucky, Rank
  <1>4. \A c \in W : val[c] \in Int
    <2> HIDE DEF val, q, L
    <2>1. QED
      BY <1>2, <1>3
  <1>5. ASSUME NEW s \in SUBSET W, \A t \in SUBSET s : t # s => t \in P PROVE s \in P
    <2>1. CASE s = {}
      <3>1. s \cap L = {} /\ Cardinality(s) = 0 /\ Cardinality(s \cap L) = 0
        BY <2>1, FS_EmptySet
      <3>2. Total(val, s) = 0
        <4> HIDE DEF val
        <4>1. QED
          BY <2>1, TotalEmpty
      <3> HIDE DEF val, q, L
      <3>3. QED
        BY <1>2, <3>1, <3>2
    <2>2. CASE s # {}
      <3>1. PICK x : x \in s
        BY <2>2
      <3> DEFINE b == s \ {x}
      <3>2. b \in P /\ x \notin b /\ b \cup {x} = s /\ b \in SUBSET W
        BY <1>5, <3>1
      <3>3. IsFiniteSet(b) /\ IsFiniteSet(b \cap L) /\ Cardinality(b) \in Nat /\ Cardinality(b \cap L) \in Nat
        BY <3>2, FS_Subset, FS_CardinalityType
      <3> HIDE DEF val, L, n, q, r, b
      <3>4. Cardinality(s) = Cardinality(b) + 1
        BY <3>2, <3>3, FS_AddElement
      <3>5. Cardinality(s \cap L) = Cardinality(b \cap L) + (IF x \in L THEN 1 ELSE 0)
        <4>1. CASE x \in L
          <5>1. s \cap L = (b \cap L) \cup {x} /\ x \notin b \cap L
            BY <3>2, <4>1
          <5>2. QED
            BY <3>3, <4>1, <5>1, FS_AddElement
        <4>2. CASE x \notin L
          <5>1. s \cap L = b \cap L
            BY <3>2, <4>2
          <5>2. QED
            BY <3>3, <4>2, <5>1
        <4>3. QED
          BY <4>1, <4>2
      <3>6. Total(val, s) = Total(val, b) + val[x]
        <4>1. \A y \in b \cup {x} : val[y] \in Int
          BY <1>4, <3>1, <3>2
        <4>2. Total(val, b \cup {x}) = Total(val, b) + val[x]
          BY <3>2, <3>3, <4>1, TotalAdd
        <4>3. QED
          BY <3>2, <4>2
      <3>7. Total(val, b) = q * Cardinality(b) + Cardinality(b \cap L)
        BY <3>2
      <3>8. val[x] = q + (IF x \in L THEN 1 ELSE 0)
        BY <1>3, <3>1
      <3>9. q * (Cardinality(b) + 1) = q * Cardinality(b) + q /\ q * Cardinality(b) \in Int
        BY <1>2, <3>3
      <3>10. Total(val, s) = q * Cardinality(s) + Cardinality(s \cap L)
        BY <1>2, <3>3, <3>4, <3>5, <3>6, <3>7, <3>8, <3>9
      <3>11. QED
        BY <3>10
    <2>3. QED
      BY <2>1, <2>2
  <1>6. SUBSET W \subseteq P
    <2> HIDE DEF P
    <2>1. QED
      BY <1>5, SubsetInduction
  <1>7. Total(val, W) = q * n + Cardinality(W \cap L)
    BY <1>6
  <1>8. Cardinality(W \cap L) = r
    <2>1. W \cap L = L
      BY DEF Lucky
    <2>2. Cardinality(L) = r
      BY LuckyCount
    <2>3. QED
      BY <2>1, <2>2
  <1> HIDE DEF val, q, n, r, L
  <1>9. Total(val, W) = total
    BY <1>1, <1>2, <1>7, <1>8
  <1>10. QED
    BY <1>9 DEF val

\* So what is recorded as paid of a bucket is the bucket.
LEMMA PaysAddUp ==
    ASSUME Typed, NEW total \in Nat, NEW W \in SUBSET (1..Len(cards)), W # {}
    PROVE  Sum(Pays(total, W)) = total
  <1> DEFINE f == [c \in W |-> [card |-> c, user |-> cards[c].user, amount |-> Share(total, W, c)]]
             val == [c \in W |-> f[c].amount]
             share == [c \in W |-> Share(total, W, c)]
  <1>1. IsFiniteSet(W) /\ W \in SUBSET Nat
    <2>1. IsFiniteSet(1..Len(cards)) /\ 1..Len(cards) \subseteq Nat
      BY CardsLen, FS_Interval
    <2>2. QED
      BY <2>1, FS_Subset
  <1>2. /\ \A c \in W : f[c].amount \in Int
        /\ \A c, d \in W : f[c] = f[d] => c = d
    BY <1>1, ShareNat
  <1>3. Pays(total, W) = ValuesOf(f, W)
    BY DEF Pays, ValuesOf
  <1>4. val = share
    OBVIOUS
  <1>5. Sum(ValuesOf(f, W)) = Total(val, W)
    <2> HIDE DEF f
    <2>1. QED
      BY <1>1, <1>2, SumOfValues
  <1>6. Total(share, W) = total
    BY <1>1, SharesAddUp
  <1> HIDE DEF f, val, share
  <1>7. QED
    BY <1>3, <1>4, <1>5, <1>6

\* The prizes and the reversals of a ledger, and the shares of a payout no
\* reversal has taken back.
PrizeTxs(L) == {t \in L : t.key.kind \in PrizeKinds \cup UndoKinds}

Reversed(L, kind, p) ==
    \E t \in L : t.user = p.user /\ t.key.kind = kind /\ t.key.ref[2] = p.card
Held(L, kind, pays) == {p \in pays : p.amount > 0 /\ ~ Reversed(L, kind, p)}

RowHeld(g, L) ==
    IF g.payout.row = None THEN {} ELSE Held(L, "UNDO_ROW", g.payout.row.pays)
ColHeld(g, L) ==
    IF g.payout.col = None \/ g.payout.col.absorbed THEN {}
    ELSE Held(L, "UNDO_COL", g.payout.col.pays)

\* The payout state of a row: a row ends the game, and it takes the column
\* bucket along exactly when no card had won it; a bucket pays what it holds.
Divided(g) ==
    /\ g.status = "LOBBY" => g.payout.row = None /\ g.payout.col = None
    /\ g.payout.row # None => g.status = "ENDED" /\ g.colPaid
    /\ ~ g.colPaid => g.payout.col = None
    /\ g.payout.col # None =>
          (g.payout.col.absorbed <=> g.payout.row # None /\ g.payout.row.withCol)
    /\ g.payout.row # None =>
          Sum(g.payout.row.pays)
            <= g.rowAmount + (IF g.payout.row.withCol THEN g.colAmount ELSE 0)
    /\ g.payout.col # None /\ ~ g.payout.col.absorbed =>
          Sum(g.payout.col.pays) <= g.colAmount

\* Every share that is recorded was posted at some time.
Credited(g, L) ==
    /\ g.payout.row # None =>
          \A p \in g.payout.row.pays : p.amount > 0 => HasTx(L, p.user, Ref("PRIZE_ROW", p.card))
    /\ g.payout.col # None /\ ~ g.payout.col.absorbed =>
          \A p \in g.payout.col.pays : p.amount > 0 => HasTx(L, p.user, Ref("PRIZE_COL", p.card))

\* A reversal takes back a prize that was posted.
UndoPaid(L) == \A t \in L :
    /\ t.key.kind = "UNDO_ROW" => HasTx(L, t.user, Ref("PRIZE_ROW", t.key.ref[2]))
    /\ t.key.kind = "UNDO_COL" => HasTx(L, t.user, Ref("PRIZE_COL", t.key.ref[2]))

\* The players hold at most the shares that are recorded and not taken back.
Covered(g, L) == Sum(PrizeTxs(L)) <= Sum(RowHeld(g, L)) + Sum(ColHeld(g, L))

PrizesHeld ==
    /\ Divided(game)
    /\ game.payout.row # None => called # <<>> /\ game.payout.row.call = LastCalled
    /\ Closed => game.payout.row = None /\ game.payout.col = None
    /\ Credited(game, ledger)
    /\ UndoPaid(ledger)
    /\ Covered(game, ledger)

Pair(prize, undo) ==
    \/ prize = "PRIZE_ROW" /\ undo = "UNDO_ROW"
    \/ prize = "PRIZE_COL" /\ undo = "UNDO_COL"

\* What a batch does to the sum of the prizes.
LEMMA PrizesPosted ==
    ASSUME NEW L, L \subseteq TxRecord, IsFiniteSet(L),
           NEW N, N \subseteq TxRecord, IsFiniteSet(N), L \cap N = {},
           \A t \in N : t.key.kind \in PrizeKinds \cup UndoKinds
    PROVE  /\ Sum(PrizeTxs(L \cup N)) = Sum(PrizeTxs(L)) + Sum(N)
           /\ Sum(PrizeTxs(L)) \in Int /\ Sum(N) \in Int
  <1>1. PrizeTxs(L \cup N) = PrizeTxs(L) \cup N /\ PrizeTxs(L) \cap N = {}
    BY DEF PrizeTxs
  <1>2. IsFiniteSet(PrizeTxs(L)) /\ \A t \in PrizeTxs(L) \cup N : t.amount \in Int
    BY FS_Subset DEF PrizeTxs, TxRecord
  <1>3. Sum(PrizeTxs(L) \cup N) = Sum(PrizeTxs(L)) + Sum(N)
    BY <1>1, <1>2, SumUnion
  <1>4. QED
    BY <1>1, <1>2, <1>3, SumInt

\* A prize that is posted has not been taken back.
LEMMA PrizeBatch ==
    ASSUME NEW L, L \subseteq TxRecord, IsFiniteSet(L), UndoPaid(L),
           NEW pays, PaysOK(pays), NEW prize, NEW undo, Pair(prize, undo)
    PROVE  LET M == Posted(L, Prizes(prize, pays))
           IN  /\ Sum(PrizeTxs(M)) <= Sum(PrizeTxs(L)) + Sum(Held(M, undo, pays))
               /\ \A p \in pays : p.amount > 0 => HasTx(M, p.user, Ref(prize, p.card))
               /\ UndoPaid(M)
  <1> DEFINE M == Posted(L, Prizes(prize, pays))
             N == NewTxs(L, Prizes(prize, pays))
             due == {p \in pays : p.amount > 0 /\ ~ HasTx(L, p.user, Ref(prize, p.card))}
             f == [p \in due |-> Tx(p.user, Ref(prize, p.card), p.amount)]
  <1>1. prize \in PrizeKinds /\ undo \in UndoKinds
    BY DEF Pair, PrizeKinds, UndoKinds
  <1> DEFINE order(p) == Tx(p.user, Ref(prize, p.card), p.amount)
             pos == {p \in pays : p.amount > 0}
  <1>2. /\ N = ValuesOf(f, due)
        /\ \A p : order(p).user = p.user /\ order(p).key = Ref(prize, p.card) /\ order(p).amount = p.amount
    <2>1. \A p : order(p).user = p.user /\ order(p).key = Ref(prize, p.card) /\ order(p).amount = p.amount
      BY DEF Tx
    <2>2. N = {o \in {order(p) : p \in pos} : ~ HasTx(L, o.user, o.key)}
      BY DEF NewTxs, Prizes
    <2>3. \A p \in due : f[p] = order(p)
      OBVIOUS
    <2>4. due = {p \in pos : ~ HasTx(L, p.user, Ref(prize, p.card))}
      OBVIOUS
    <2> HIDE DEF order, f, due, N, pos
    <2>5. N = {order(p) : p \in due}
      BY <2>1, <2>2, <2>4
    <2>6. QED
      BY <2>1, <2>3, <2>5 DEF ValuesOf
  <1>3. /\ IsFiniteSet(due) /\ due \subseteq Pay
        /\ \A p \in due : p.amount \in Int /\ p.amount >= 0
        /\ \A p, q \in due : f[p] = f[q] => p = q
        /\ \A p \in due : f[p].amount = p.amount
    <2>1. IsFiniteSet(due) /\ due \subseteq Pay
      BY FS_Subset DEF PaysOK
    <2>2. \A p \in due : p.amount \in Int /\ p.amount >= 0
      BY <2>1 DEF Pay
    <2>3. \A p \in due : p \in pays /\ f[p] = order(p)
      OBVIOUS
    <2> HIDE DEF order, f, due
    <2>4. \A p, q \in due : f[p] = f[q] => p = q
      <3> SUFFICES ASSUME NEW p \in due, NEW q \in due, f[p] = f[q] PROVE p = q
        OBVIOUS
      <3>1. order(p) = order(q)
        BY <2>3
      <3>2. Ref(prize, p.card) = Ref(prize, q.card)
        BY <1>2, <3>1
      <3>3. p.card = q.card
        BY <3>2 DEF Ref
      <3>4. QED
        BY <2>3, <3>3 DEF PaysOK
    <2>5. QED
      BY <1>2, <2>1, <2>2, <2>3, <2>4
  <1>4. Sum(N) = Sum(due)
    <2> HIDE DEF f, due, N, order
    <2>1. QED
      BY <1>2, <1>3, SumOfCopies
  <1>5. /\ M = L \cup N /\ L \cap N = {} /\ N \subseteq TxRecord /\ IsFiniteSet(N)
        /\ \A t \in N : t.key.kind = prize
    <2>1. N \subseteq Prizes(prize, pays) /\ M = L \cup N
      BY DEF NewTxs, Posted
    <2>2. L \cap N = {}
      BY DEF NewTxs, HasTx
    <2>3. Prizes(prize, pays) \subseteq TxRecord /\ IsFiniteSet(Prizes(prize, pays))
      BY <1>1, OrdersTyped
    <2> HIDE DEF N, M
    <2>4. QED
      BY <2>1, <2>2, <2>3, PrizeKind, FS_Subset
  <1>6. Sum(PrizeTxs(M)) = Sum(PrizeTxs(L)) + Sum(N) /\ Sum(PrizeTxs(L)) \in Int /\ Sum(N) \in Int
    <2> HIDE DEF N, M
    <2>1. QED
      BY <1>1, <1>5, PrizesPosted
  <1>7. due \subseteq Held(M, undo, pays)
    <2> SUFFICES ASSUME NEW p \in due, NEW t \in M, t.user = p.user, t.key.kind = undo,
                        t.key.ref[2] = p.card
                 PROVE  FALSE
      BY DEF Held, Reversed
    <2>1. t \in L
      BY <1>1, <1>5 DEF PrizeKinds, UndoKinds
    <2>2. HasTx(L, p.user, Ref(prize, p.card))
      BY <2>1 DEF UndoPaid, Pair
    <2>3. QED
      BY <2>2
  <1>8. Sum(due) <= Sum(Held(M, undo, pays)) /\ Sum(Held(M, undo, pays)) \in Int
    <2>1. IsFiniteSet(Held(M, undo, pays)) /\ \A p \in Held(M, undo, pays) : p.amount \in Int /\ p.amount >= 0
      BY FS_Subset DEF Held, PaysOK, Pay
    <2> HIDE DEF due, M
    <2>2. QED
      BY <1>7, <2>1, SumGrows, SumInt
  <1>9. \A p \in pays : p.amount > 0 => HasTx(M, p.user, Ref(prize, p.card))
    <2> SUFFICES ASSUME NEW p \in pays, p.amount > 0, ~ HasTx(L, p.user, Ref(prize, p.card))
                 PROVE  HasTx(M, p.user, Ref(prize, p.card))
      BY DEF HasTx, Posted
    <2>1. Tx(p.user, Ref(prize, p.card), p.amount) \in N
      BY DEF NewTxs, Prizes, Tx
    <2>2. QED
      BY <1>5, <2>1 DEF HasTx, Tx
  <1>10. UndoPaid(M)
    <2> SUFFICES ASSUME NEW t \in M, t.key.kind \in UndoKinds
                 PROVE  /\ t.key.kind = "UNDO_ROW" => HasTx(M, t.user, Ref("PRIZE_ROW", t.key.ref[2]))
                        /\ t.key.kind = "UNDO_COL" => HasTx(M, t.user, Ref("PRIZE_COL", t.key.ref[2]))
      BY DEF UndoPaid, UndoKinds
    <2>1. t \in L
      BY <1>1, <1>5 DEF PrizeKinds, UndoKinds
    <2>2. L \subseteq M
      BY <1>5
    <2> HIDE DEF M
    <2>3. QED
      BY <2>1, <2>2 DEF UndoPaid, HasTx
  <1> HIDE DEF M, N, due
  <1>11. Sum(PrizeTxs(M)) <= Sum(PrizeTxs(L)) + Sum(Held(M, undo, pays))
    BY <1>4, <1>6, <1>8
  <1>12. QED
    BY <1>9, <1>10, <1>11 DEF M

\* An undo takes back at least the shares the players still hold.
LEMMA UndoBatch ==
    ASSUME NEW L, L \subseteq TxRecord, IsFiniteSet(L), UndoPaid(L),
           NEW pays, PaysOK(pays), NEW prize, NEW undo, Pair(prize, undo), NEW n \in Numbers,
           \A p \in pays : p.amount > 0 => HasTx(L, p.user, Ref(prize, p.card))
    PROVE  LET M == Posted(L, Reversals(undo, n, pays))
           IN  /\ Sum(PrizeTxs(M)) + Sum(Held(L, undo, pays)) <= Sum(PrizeTxs(L))
               /\ UndoPaid(M)
               /\ Sum(PrizeTxs(M)) \in Int /\ Sum(PrizeTxs(L)) \in Int
               /\ Sum(Held(L, undo, pays)) \in Int
  <1> DEFINE M == Posted(L, Reversals(undo, n, pays))
             N == NewTxs(L, Reversals(undo, n, pays))
             owed == {p \in pays : p.amount > 0 /\ ~ HasTx(L, p.user, Ref(undo, <<n, p.card>>))}
             f == [p \in owed |-> Tx(p.user, Ref(undo, <<n, p.card>>), - p.amount)]
  <1>1. prize \in PrizeKinds /\ undo \in UndoKinds
    BY DEF Pair, PrizeKinds, UndoKinds
  <1> DEFINE order(p) == Tx(p.user, Ref(undo, <<n, p.card>>), - p.amount)
             pos == {p \in pays : p.amount > 0}
  <1>2. /\ N = ValuesOf(f, owed)
        /\ \A p : order(p).user = p.user /\ order(p).key = Ref(undo, <<n, p.card>>) /\ order(p).amount = - p.amount
    <2>1. \A p : order(p).user = p.user /\ order(p).key = Ref(undo, <<n, p.card>>) /\ order(p).amount = - p.amount
      BY DEF Tx
    <2>2. N = {o \in {order(p) : p \in pos} : ~ HasTx(L, o.user, o.key)}
      BY DEF NewTxs, Reversals
    <2>3. \A p \in owed : f[p] = order(p)
      OBVIOUS
    <2>4. owed = {p \in pos : ~ HasTx(L, p.user, Ref(undo, <<n, p.card>>))}
      OBVIOUS
    <2> HIDE DEF order, f, owed, N, pos
    <2>5. N = {order(p) : p \in owed}
      BY <2>1, <2>2, <2>4
    <2>6. QED
      BY <2>1, <2>3, <2>5 DEF ValuesOf
  <1>3. /\ IsFiniteSet(owed) /\ owed \subseteq Pay
        /\ \A p \in owed : p.amount \in Int /\ p.amount >= 0
        /\ \A p, q \in owed : f[p] = f[q] => p = q
        /\ \A p \in owed : f[p].amount = - p.amount
    <2>1. IsFiniteSet(owed) /\ owed \subseteq Pay
      BY FS_Subset DEF PaysOK
    <2>2. \A p \in owed : p.amount \in Int /\ p.amount >= 0
      BY <2>1 DEF Pay
    <2>3. \A p \in owed : p \in pays /\ f[p] = order(p)
      OBVIOUS
    <2> HIDE DEF order, f, owed
    <2>4. \A p, q \in owed : f[p] = f[q] => p = q
      <3> SUFFICES ASSUME NEW p \in owed, NEW q \in owed, f[p] = f[q] PROVE p = q
        OBVIOUS
      <3>1. order(p) = order(q)
        BY <2>3
      <3>2. Ref(undo, <<n, p.card>>) = Ref(undo, <<n, q.card>>)
        BY <1>2, <3>1
      <3>3. p.card = q.card
        BY <3>2 DEF Ref
      <3>4. QED
        BY <2>3, <3>3 DEF PaysOK
    <2>5. QED
      BY <1>2, <2>1, <2>2, <2>3, <2>4
  <1>4. Sum(N) = - Sum(owed)
    <2> HIDE DEF f, owed, N, order
    <2>1. QED
      BY <1>2, <1>3, SumOfCopies
  <1>5. /\ M = L \cup N /\ L \cap N = {} /\ N \subseteq TxRecord /\ IsFiniteSet(N)
        /\ N \subseteq Reversals(undo, n, pays)
        /\ \A t \in N : t.key.kind = undo
    <2>1. N \subseteq Reversals(undo, n, pays) /\ M = L \cup N
      BY DEF NewTxs, Posted
    <2>2. L \cap N = {}
      BY DEF NewTxs, HasTx
    <2>3. Reversals(undo, n, pays) \subseteq TxRecord /\ IsFiniteSet(Reversals(undo, n, pays))
      BY <1>1, OrdersTyped
    <2> HIDE DEF N, M
    <2>4. QED
      BY <2>1, <2>2, <2>3, ReversalKind, FS_Subset
  <1>6. Sum(PrizeTxs(M)) = Sum(PrizeTxs(L)) + Sum(N) /\ Sum(PrizeTxs(L)) \in Int /\ Sum(N) \in Int
    <2> HIDE DEF N, M
    <2>1. QED
      BY <1>1, <1>5, PrizesPosted
  <1>7. Held(L, undo, pays) \subseteq owed
    <2> SUFFICES ASSUME NEW p \in pays, HasTx(L, p.user, Ref(undo, <<n, p.card>>))
                 PROVE  Reversed(L, undo, p)
      BY DEF Held
    <2>1. PICK t \in L : t.user = p.user /\ t.key = Ref(undo, <<n, p.card>>)
      BY DEF HasTx
    <2>2. QED
      BY <2>1 DEF Reversed, Ref
  <1>8. Sum(Held(L, undo, pays)) <= Sum(owed) /\ Sum(Held(L, undo, pays)) \in Int /\ Sum(owed) \in Int
    <2> HIDE DEF owed, f
    <2>1. /\ IsFiniteSet(owed) /\ IsFiniteSet(Held(L, undo, pays))
          /\ \A p \in owed : p.amount \in Int /\ p.amount >= 0
      BY <1>3, <1>7, FS_Subset
    <2>2. QED
      BY <1>7, <2>1, SumGrows, SumInt
  <1>9. UndoPaid(M)
    <2> SUFFICES ASSUME NEW t \in M
                 PROVE  /\ t.key.kind = "UNDO_ROW" => HasTx(M, t.user, Ref("PRIZE_ROW", t.key.ref[2]))
                        /\ t.key.kind = "UNDO_COL" => HasTx(M, t.user, Ref("PRIZE_COL", t.key.ref[2]))
      BY DEF UndoPaid
    <2>1. L \subseteq M
      BY <1>5
    <2>2. CASE t \in L
      <3> HIDE DEF M
      <3>1. QED
        BY <2>1, <2>2 DEF UndoPaid, HasTx
    <2>3. CASE t \in N
      <3>1. PICK p \in pays : p.amount > 0 /\ t = Tx(p.user, Ref(undo, <<n, p.card>>), - p.amount)
        BY <1>5, <2>3 DEF Reversals
      <3>2. HasTx(L, t.user, Ref(prize, t.key.ref[2])) /\ t.key.kind = undo
        BY <3>1 DEF Tx, Ref
      <3> HIDE DEF M
      <3>3. HasTx(M, t.user, Ref(prize, t.key.ref[2]))
        BY <2>1, <3>2 DEF HasTx
      <3>4. QED
        BY <3>2, <3>3 DEF Pair
    <2>4. QED
      BY <1>5, <2>2, <2>3
  <1> HIDE DEF M, N, owed
  <1>10. Sum(PrizeTxs(M)) + Sum(Held(L, undo, pays)) <= Sum(PrizeTxs(L)) /\ Sum(PrizeTxs(M)) \in Int
    BY <1>4, <1>6, <1>8
  <1>11. QED
    BY <1>6, <1>8, <1>9, <1>10 DEF M

\* The shares that are held, under transactions of other kinds.
LEMMA HeldSame ==
    ASSUME NEW L, NEW M, L \subseteq M, NEW kind, \A t \in M : t \in L \/ t.key.kind # kind,
           NEW pays
    PROVE  Held(M, kind, pays) = Held(L, kind, pays)
  BY DEF Held, Reversed

LEMMA HeldSum ==
    ASSUME NEW pays, PaysOK(pays), NEW L, NEW kind
    PROVE  /\ Sum(Held(L, kind, pays)) \in Int /\ Sum(pays) \in Int
           /\ Sum(Held(L, kind, pays)) >= 0
           /\ Sum(Held(L, kind, pays)) <= Sum(pays)
  <1> DEFINE H == Held(L, kind, pays)
  <1>1. /\ IsFiniteSet(pays) /\ IsFiniteSet(H) /\ H \in SUBSET pays
        /\ \A p \in pays : p.amount \in Int /\ p.amount >= 0
    BY FS_Subset DEF Held, PaysOK, Pay
  <1> HIDE DEF H
  <1>2. Sum(H) \in Int /\ Sum(pays) \in Int /\ Sum(H) <= Sum(pays)
    BY <1>1, SumInt, SumGrows
  <1>3. Sum({}) <= Sum(H)
    BY <1>1, SumGrows, FS_EmptySet
  <1>4. QED
    BY <1>2, <1>3, SumEmpty DEF H

LEMMA PayoutFields ==
    ASSUME Typed
    PROVE  /\ game.payout = [row |-> game.payout.row, col |-> game.payout.col]
           /\ game.payout.row # None => game.payout.row \in RowPayment /\ PaysOK(game.payout.row.pays)
           /\ game.payout.col # None => game.payout.col \in ColPayment /\ PaysOK(game.payout.col.pays)
           /\ game.colAmount \in Nat /\ game.rowAmount \in Nat /\ game.colPaid \in BOOLEAN
           /\ ledger \subseteq TxRecord /\ IsFiniteSet(ledger)
  BY DEF Typed, RowOK, GameRow, Payout

\* Of what is held the sums are integers.
LEMMA HeldInts ==
    ASSUME Typed
    PROVE  Sum(RowHeld(game, ledger)) \in Int /\ Sum(ColHeld(game, ledger)) \in Int
  BY PayoutFields, HeldSum, SumEmpty DEF RowHeld, ColHeld

\* The steps that pay no prize and take none back.
LEMMA KeepsPrizes ==
    ASSUME PrizesHeld, UNCHANGED called, Closed' <=> Closed,
           \A f \in {"status", "payout", "colPaid", "rowAmount", "colAmount"} : game'[f] = game[f],
           ledger \subseteq ledger',
           \A t \in ledger' : t \in ledger \/ t.key.kind \notin PrizeKinds \cup UndoKinds
    PROVE  PrizesHeld'
  <1>1. /\ game'.status = game.status /\ game'.payout = game.payout
        /\ game'.colPaid = game.colPaid
        /\ game'.rowAmount = game.rowAmount /\ game'.colAmount = game.colAmount
    OBVIOUS
  <1>2. Divided(game') /\ (game'.payout.row # None => called' # <<>> /\ game'.payout.row.call = LastCalled')
        /\ (Closed' => game'.payout.row = None /\ game'.payout.col = None)
    BY <1>1 DEF PrizesHeld, Divided, LastCalled
  <1>3. \A u, k : HasTx(ledger, u, k) => HasTx(ledger', u, k)
    BY DEF HasTx
  <1>4. Credited(game', ledger')
    BY <1>1, <1>3 DEF PrizesHeld, Credited
  <1>5. UndoPaid(ledger')
    BY <1>3 DEF PrizesHeld, UndoPaid, UndoKinds
  <1>6. PrizeTxs(ledger') = PrizeTxs(ledger)
    BY DEF PrizeTxs
  <1>7. \A pays, kind : kind \in UndoKinds => Held(ledger', kind, pays) = Held(ledger, kind, pays)
    BY HeldSame
  <1>8. RowHeld(game', ledger') = RowHeld(game, ledger) /\ ColHeld(game', ledger') = ColHeld(game, ledger)
    BY <1>1, <1>7 DEF RowHeld, ColHeld, UndoKinds
  <1>9. Covered(game', ledger')
    BY <1>6, <1>8 DEF PrizesHeld, Covered
  <1>10. QED
    BY <1>2, <1>4, <1>5, <1>9 DEF PrizesHeld

\* A start and a close find no payout and leave none.
LEMMA NoPayout ==
    ASSUME PrizesHeld, game.status = "LOBBY",
           game'.payout = [row |-> None, col |-> None],
           ledger \subseteq ledger',
           \A t \in ledger' : t \in ledger \/ t.key.kind \notin PrizeKinds \cup UndoKinds
    PROVE  PrizesHeld'
  <1>1. /\ game.payout.row = None /\ game.payout.col = None
        /\ game'.payout.row = None /\ game'.payout.col = None
    BY DEF PrizesHeld, Divided
  <1>2. \A u, k : HasTx(ledger, u, k) => HasTx(ledger', u, k)
    BY DEF HasTx
  <1>3. UndoPaid(ledger')
    BY <1>2 DEF PrizesHeld, UndoPaid, UndoKinds
  <1>4. PrizeTxs(ledger') = PrizeTxs(ledger)
    BY DEF PrizeTxs
  <1>5. /\ RowHeld(game, ledger) = {} /\ ColHeld(game, ledger) = {}
        /\ RowHeld(game', ledger') = {} /\ ColHeld(game', ledger') = {}
    BY <1>1 DEF RowHeld, ColHeld
  <1>6. Covered(game', ledger')
    BY <1>4, <1>5 DEF PrizesHeld, Covered
  <1>7. Divided(game') /\ Credited(game', ledger')
    BY <1>1 DEF Divided, Credited
  <1>8. QED
    BY <1>1, <1>3, <1>6, <1>7 DEF PrizesHeld

\* A call that a row wins.
LEMMA RowWon ==
    ASSUME Typed, PrizesHeld, ~ Closed', game.status = "RUNNING",
           NEW n \in Numbers, NEW W \in SUBSET (1..Len(cards)), W # {},
           game' = RowPayout(game, n, W), called' = Append(called, n),
           ledger' = Posted(ledger, Prizes("PRIZE_ROW", Pays(RowTotal(game), W)))
    PROVE  PrizesHeld'
  <1> DEFINE pays == Pays(RowTotal(game), W)
             share == Pays(game.colAmount, W)
             row == [pays |-> pays, call |-> n, withCol |-> ~ game.colPaid]
             taken == [pays |-> share, call |-> n, absorbed |-> TRUE]
             p == [row |-> row, col |-> IF game.colPaid THEN game.payout.col ELSE taken]
  <1>1. RowTotal(game) \in Nat
        /\ RowTotal(game) = game.rowAmount + (IF game.colPaid THEN 0 ELSE game.colAmount)
    BY PayoutFields DEF RowTotal
  <1>2. PaysOK(pays) /\ PaysOK(share) /\ Sum(pays) = RowTotal(game)
    BY <1>1, PaysTyped, PaysAddUp, PayoutFields
  <1>3. row # None /\ taken # None
    <2>1. pays \in SUBSET Pay /\ share \in SUBSET Pay /\ (~ game.colPaid) \in BOOLEAN
      BY <1>2 DEF PaysOK
    <2> HIDE DEF pays, share
    <2>2. row \in RowPayment /\ taken \in ColPayment
      BY <2>1 DEF RowPayment, ColPayment
    <2>3. QED
      BY <2>2, NoneAssumption
  <1>4. /\ game'.status = "ENDED" /\ game'.colPaid = TRUE /\ game'.payout = p
        /\ game'.rowAmount = game.rowAmount /\ game'.colAmount = game.colAmount
    <2>1. game' = [game EXCEPT !.status = "ENDED", !.colPaid = TRUE, !.payout = p]
      BY DEF RowPayout
    <2> HIDE DEF p
    <2>2. QED
      BY <2>1 DEF Typed, RowOK, GameRow
  <1>5. /\ game'.payout.row = row
        /\ game.colPaid => game'.payout.col = game.payout.col
        /\ ~ game.colPaid => game'.payout.col = taken
    BY <1>4
  <1>6. row.pays = pays /\ row.call = n /\ (row.withCol <=> ~ game.colPaid) /\ taken.absorbed
    OBVIOUS
  <1> HIDE DEF row, taken, p, pays, share
  <1>7. game.payout.row = None /\ (~ game.colPaid => game.payout.col = None)
    BY DEF PrizesHeld, Divided
  <1>8. game.payout.col # None => ~ game.payout.col.absorbed
    BY <1>7 DEF PrizesHeld, Divided
  <1>9. Divided(game')
    <2>1. Sum(row.pays) <= game'.rowAmount + (IF row.withCol THEN game'.colAmount ELSE 0)
      BY <1>1, <1>2, <1>4, <1>6, PayoutFields
    <2>2. game'.payout.col # None /\ ~ game'.payout.col.absorbed =>
            Sum(game'.payout.col.pays) <= game'.colAmount
      BY <1>4, <1>5, <1>6 DEF PrizesHeld, Divided
    <2>3. game'.payout.col # None =>
            (game'.payout.col.absorbed <=> game'.payout.row # None /\ game'.payout.row.withCol)
      BY <1>3, <1>5, <1>6, <1>8, PayoutFields
    <2>4. QED
      BY <1>4, <1>5, <2>1, <2>2, <2>3 DEF Divided
  <1>10. called' # <<>> /\ LastCalled' = n
    <2>1. called \in Seq(Numbers)
      BY DEF Typed
    <2>2. Len(called') = Len(called) + 1 /\ called'[Len(called) + 1] = n /\ Len(called) \in Nat
      BY <2>1, AppendProperties, LenProperties
    <2>3. called' # <<>>
      BY <2>2, <2>1
    <2>4. QED
      BY <2>2, <2>3 DEF LastCalled
  <1>11. /\ Sum(PrizeTxs(ledger')) <= Sum(PrizeTxs(ledger)) + Sum(Held(ledger', "UNDO_ROW", pays))
         /\ \A q \in pays : q.amount > 0 => HasTx(ledger', q.user, Ref("PRIZE_ROW", q.card))
         /\ UndoPaid(ledger')
    <2>1. Pair("PRIZE_ROW", "UNDO_ROW") /\ UndoPaid(ledger)
      BY DEF Pair, PrizesHeld
    <2>2. ledger' = Posted(ledger, Prizes("PRIZE_ROW", pays))
      BY DEF pays
    <2>3. QED
      BY <1>2, <2>1, <2>2, PrizeBatch, PayoutFields
  <1>12. ledger \subseteq ledger' /\ \A t \in ledger' : t \in ledger \/ t.key.kind = "PRIZE_ROW"
    BY PostedKeeps, PostedFrom, PrizeKind
  <1>13. Credited(game', ledger')
    <2>1. \A u, k : HasTx(ledger, u, k) => HasTx(ledger', u, k)
      BY <1>12 DEF HasTx
    <2>2. QED
      BY <1>5, <1>6, <1>11, <2>1 DEF Credited, PrizesHeld
  <1>14. RowHeld(game', ledger') = Held(ledger', "UNDO_ROW", pays) /\ RowHeld(game, ledger) = {}
    BY <1>3, <1>5, <1>6, <1>7 DEF RowHeld
  <1>15. ColHeld(game', ledger') = ColHeld(game, ledger)
    <2>1. \A q : Held(ledger', "UNDO_COL", q) = Held(ledger, "UNDO_COL", q)
      BY <1>12, HeldSame
    <2>2. QED
      BY <1>5, <1>6, <1>7, <2>1, PayoutFields DEF ColHeld
  <1>16. Covered(game', ledger')
    <2>1. Sum(PrizeTxs(ledger)) <= Sum(ColHeld(game, ledger))
      BY <1>14, SumEmpty, HeldInts DEF PrizesHeld, Covered
    <2>2. /\ Sum(PrizeTxs(ledger)) \in Int /\ Sum(PrizeTxs(ledger')) \in Int
          /\ Sum(Held(ledger', "UNDO_ROW", pays)) \in Int
      <3>1. IsFiniteSet(ledger') /\ ledger' \subseteq TxRecord
        BY <1>2, OrdersTyped, PostedTyped, PayoutFields DEF PrizeKinds, pays
      <3>2. \A L : L \subseteq TxRecord /\ IsFiniteSet(L) => Sum(PrizeTxs(L)) \in Int
        BY SumInt, FS_Subset DEF PrizeTxs, TxRecord
      <3>3. QED
        BY <1>2, <3>1, <3>2, HeldSum, PayoutFields
    <2>3. QED
      BY <1>11, <1>14, <1>15, <2>1, <2>2, HeldInts DEF Covered
  <1>17. QED
    BY <1>5, <1>6, <1>9, <1>10, <1>11, <1>13, <1>16 DEF PrizesHeld

\* A call that a column wins.
LEMMA ColWon ==
    ASSUME Typed, PrizesHeld, ~ Closed', game.status = "RUNNING", ~ game.colPaid,
           NEW n \in Numbers, NEW W \in SUBSET (1..Len(cards)), W # {},
           game' = ColPayout(game, n, W),
           ledger' = Posted(ledger, Prizes("PRIZE_COL", Pays(game.colAmount, W)))
    PROVE  PrizesHeld'
  <1> DEFINE pays == Pays(game.colAmount, W)
             col == [pays |-> pays, call |-> n, absorbed |-> FALSE]
             p == [game.payout EXCEPT !.col = col]
  <1>1. PaysOK(pays) /\ Sum(pays) = game.colAmount /\ game.colAmount \in Nat
    BY PaysTyped, PaysAddUp, PayoutFields
  <1>2. col # None
    <2>1. pays \in SUBSET Pay
      BY <1>1 DEF PaysOK
    <2> HIDE DEF pays
    <2>2. col \in ColPayment
      BY <2>1 DEF ColPayment
    <2>3. QED
      BY <2>2, NoneAssumption
  <1>3. /\ game'.status = game.status /\ game'.colPaid = TRUE /\ game'.payout = p
        /\ game'.colAmount = game.colAmount
    <2>1. game' = [game EXCEPT !.colPaid = TRUE, !.payout = p]
      BY DEF ColPayout, Typed, RowOK, GameRow
    <2> HIDE DEF p
    <2>2. QED
      BY <2>1 DEF Typed, RowOK, GameRow
  <1>4. game'.payout.row = game.payout.row /\ game'.payout.col = col
    <2> HIDE DEF col
    <2>1. QED
      BY <1>3 DEF Typed, RowOK, GameRow, Payout
  <1>5. col.pays = pays /\ ~ col.absorbed
    OBVIOUS
  <1> HIDE DEF col, p, pays
  <1>6. game.payout.row = None /\ game.payout.col = None
    BY DEF PrizesHeld, Divided
  <1>7. Divided(game')
    BY <1>1, <1>3, <1>4, <1>5, <1>6 DEF Divided
  <1>8. /\ Sum(PrizeTxs(ledger')) <= Sum(PrizeTxs(ledger)) + Sum(Held(ledger', "UNDO_COL", pays))
        /\ \A q \in pays : q.amount > 0 => HasTx(ledger', q.user, Ref("PRIZE_COL", q.card))
        /\ UndoPaid(ledger')
    <2>1. Pair("PRIZE_COL", "UNDO_COL") /\ UndoPaid(ledger)
      BY DEF Pair, PrizesHeld
    <2>2. ledger' = Posted(ledger, Prizes("PRIZE_COL", pays))
      BY DEF pays
    <2>3. QED
      BY <1>1, <2>1, <2>2, PrizeBatch, PayoutFields
  <1>9. Credited(game', ledger')
    BY <1>4, <1>5, <1>6, <1>8 DEF Credited
  <1>10. /\ RowHeld(game', ledger') = {} /\ RowHeld(game, ledger) = {} /\ ColHeld(game, ledger) = {}
         /\ ColHeld(game', ledger') = Held(ledger', "UNDO_COL", pays)
    BY <1>2, <1>4, <1>5, <1>6 DEF RowHeld, ColHeld
  <1>11. Covered(game', ledger')
    <2>1. Sum(PrizeTxs(ledger)) <= 0
      BY <1>10, SumEmpty DEF PrizesHeld, Covered
    <2>2. /\ Sum(PrizeTxs(ledger)) \in Int /\ Sum(PrizeTxs(ledger')) \in Int
          /\ Sum(Held(ledger', "UNDO_COL", pays)) \in Int
      <3>1. IsFiniteSet(ledger') /\ ledger' \subseteq TxRecord
        BY <1>1, OrdersTyped, PostedTyped, PayoutFields DEF PrizeKinds, pays
      <3>2. \A L : L \subseteq TxRecord /\ IsFiniteSet(L) => Sum(PrizeTxs(L)) \in Int
        BY SumInt, FS_Subset DEF PrizeTxs, TxRecord
      <3>3. QED
        BY <1>1, <3>1, <3>2, HeldSum, PayoutFields
    <2>3. /\ Sum(RowHeld(game', ledger')) = 0
          /\ Sum(ColHeld(game', ledger')) = Sum(Held(ledger', "UNDO_COL", pays))
      BY <1>10, SumEmpty
    <2>4. QED
      BY <1>8, <2>1, <2>2, <2>3 DEF Covered
  <1>12. QED
    BY <1>4, <1>6, <1>7, <1>8, <1>9, <1>11 DEF PrizesHeld

\* The row an undo leaves.
LEMMA UndoneFields ==
    ASSUME Typed
    PROVE  /\ Undone.status = (IF UndoesRow THEN "RUNNING" ELSE game.status)
           /\ Undone.colPaid = (IF UndoesShare \/ UndoesCol THEN FALSE ELSE game.colPaid)
           /\ Undone.payout.row = (IF UndoesRow THEN None ELSE game.payout.row)
           /\ Undone.payout.col = (IF UndoesShare \/ UndoesCol THEN None ELSE game.payout.col)
           /\ Undone.rowAmount = game.rowAmount /\ Undone.colAmount = game.colAmount
  BY DEF Undone, Typed, RowOK, GameRow

\* An undo takes the shares of one bucket back before it forgets the bucket.
LEMMA UndoneHeld ==
    ASSUME Typed, PrizesHeld, called # <<>>, game.status # "LOBBY", ~ Closed',
           game' = Undone, ledger' = Posted(ledger, UndoOrders)
    PROVE  PrizesHeld'
  <1>1. game.payout.row # None <=> UndoesRow
    BY DEF PrizesHeld, UndoesRow
  <1>2. game'.payout.row = None
    BY <1>1, UndoneFields
  <1>3. UndoesShare => UndoesRow /\ (game.payout.col # None => game.payout.col.absorbed)
    BY <1>1 DEF UndoesShare, PrizesHeld, Divided
  <1>4. UndoesCol => game.payout.row = None /\ game.payout.col # None /\ ~ game.payout.col.absorbed
    BY <1>1 DEF UndoesCol, PrizesHeld, Divided
  <1>5. ~ UndoesShare /\ ~ UndoesCol =>
           /\ game'.payout.col = game.payout.col
           /\ game.payout.col # None => ~ game.payout.col.absorbed
    <2>1. game.payout.col # None /\ game.payout.col.absorbed => UndoesShare
      BY <1>1 DEF UndoesShare, PrizesHeld, Divided
    <2>2. QED
      BY <2>1, UndoneFields
  <1>6. UndoesShare \/ UndoesCol => game'.payout.col = None
    BY UndoneFields
  <1>7. Divided(game')
    <2>1. game'.status # "LOBBY"
      BY UndoneFields
    <2>2. ~ game'.colPaid => game'.payout.col = None
      BY <1>5, <1>6, UndoneFields DEF PrizesHeld, Divided
    <2>3. game'.payout.col # None =>
            /\ ~ game'.payout.col.absorbed
            /\ Sum(game'.payout.col.pays) <= game'.colAmount
      BY <1>5, <1>6, UndoneFields DEF PrizesHeld, Divided
    <2>4. QED
      BY <1>2, <2>1, <2>2, <2>3 DEF Divided
  <1>8. LastCalled \in Numbers
    BY UndoneTyped
  <1>9. /\ UndoPaid(ledger) /\ Credited(game, ledger) /\ Covered(game, ledger)
        /\ Sum(RowHeld(game, ledger)) \in Int /\ Sum(ColHeld(game, ledger)) \in Int
    BY HeldInts DEF PrizesHeld
  <1>10. RowHeld(game', ledger') = {}
    BY <1>2 DEF RowHeld
  <1>11. ASSUME game.payout.col # None, ~ game.payout.col.absorbed, game'.payout.col = game.payout.col,
                ledger \subseteq ledger'
         PROVE  Credited(game', ledger')
    <2>1. \A u, k : HasTx(ledger, u, k) => HasTx(ledger', u, k)
      BY <1>11 DEF HasTx
    <2>2. QED
      BY <1>2, <1>9, <1>11, <2>1 DEF Credited
  <1>12. Credited(game', ledger')
    <2>1. CASE game'.payout.col = None
      BY <1>2, <2>1 DEF Credited
    <2>2. CASE game'.payout.col # None
      BY <1>5, <1>6, <1>11, <2>2, PostedKeeps
    <2>3. QED
      BY <2>1, <2>2
  <1>13. CASE UndoesRow
    <2> DEFINE pays == game.payout.row.pays
    <2>1. PaysOK(pays) /\ \A p \in pays : p.amount > 0 => HasTx(ledger, p.user, Ref("PRIZE_ROW", p.card))
      BY <1>1, <1>9, <1>13, PayoutFields DEF Credited
    <2>2. ledger' = Posted(ledger, Reversals("UNDO_ROW", LastCalled, pays))
      BY <1>13 DEF UndoOrders
    <2>3. RowHeld(game, ledger) = Held(ledger, "UNDO_ROW", pays)
      BY <1>1, <1>13 DEF RowHeld
    <2>4. Pair("PRIZE_ROW", "UNDO_ROW")
      BY DEF Pair
    <2> HIDE DEF pays
    <2>5. /\ Sum(PrizeTxs(ledger')) + Sum(RowHeld(game, ledger)) <= Sum(PrizeTxs(ledger))
          /\ UndoPaid(ledger')
          /\ Sum(PrizeTxs(ledger')) \in Int /\ Sum(PrizeTxs(ledger)) \in Int
      BY <1>8, <1>9, <2>1, <2>2, <2>3, <2>4, UndoBatch, PayoutFields
    <2>6. ColHeld(game', ledger') = ColHeld(game, ledger)
      <3>1. ledger \subseteq ledger' /\ \A t \in ledger' : t \in ledger \/ t.key.kind = "UNDO_ROW"
        BY <2>2, PostedKeeps, PostedFrom, ReversalKind
      <3>2. \A q : Held(ledger', "UNDO_COL", q) = Held(ledger, "UNDO_COL", q)
        BY <3>1, HeldSame
      <3>3. ~ UndoesCol
        BY <1>13 DEF UndoesCol
      <3>4. QED
        BY <1>3, <1>5, <1>6, <3>2, <3>3 DEF ColHeld
    <2>7. Covered(game', ledger')
      <3>1. Sum(RowHeld(game', ledger')) = 0 /\ Sum(ColHeld(game', ledger')) = Sum(ColHeld(game, ledger))
        BY <1>10, <2>6, SumEmpty
      <3>2. Sum(PrizeTxs(ledger)) <= Sum(RowHeld(game, ledger)) + Sum(ColHeld(game, ledger))
        BY <1>9 DEF Covered
      <3>3. QED
        BY <1>9, <2>5, <3>1, <3>2 DEF Covered
    <2>8. QED
      BY <1>2, <1>7, <1>12, <2>5, <2>7 DEF PrizesHeld
  <1>14. CASE UndoesCol
    <2> DEFINE pays == game.payout.col.pays
    <2>1. PaysOK(pays) /\ \A p \in pays : p.amount > 0 => HasTx(ledger, p.user, Ref("PRIZE_COL", p.card))
      BY <1>4, <1>9, <1>14, PayoutFields DEF Credited
    <2>2. ledger' = Posted(ledger, Reversals("UNDO_COL", LastCalled, pays))
      BY <1>14 DEF UndoOrders, UndoesCol
    <2>3. ColHeld(game, ledger) = Held(ledger, "UNDO_COL", pays) /\ RowHeld(game, ledger) = {}
      BY <1>4, <1>14 DEF ColHeld, RowHeld
    <2>4. Pair("PRIZE_COL", "UNDO_COL")
      BY DEF Pair
    <2> HIDE DEF pays
    <2>5. /\ Sum(PrizeTxs(ledger')) + Sum(ColHeld(game, ledger)) <= Sum(PrizeTxs(ledger))
          /\ UndoPaid(ledger')
          /\ Sum(PrizeTxs(ledger')) \in Int /\ Sum(PrizeTxs(ledger)) \in Int
      BY <1>8, <1>9, <2>1, <2>2, <2>3, <2>4, UndoBatch, PayoutFields
    <2>6. ColHeld(game', ledger') = {}
      BY <1>6, <1>14 DEF ColHeld
    <2>7. Covered(game', ledger')
      <3>1. Sum(RowHeld(game', ledger')) = 0 /\ Sum(ColHeld(game', ledger')) = 0
            /\ Sum(RowHeld(game, ledger)) = 0
        BY <1>10, <2>3, <2>6, SumEmpty
      <3>2. Sum(PrizeTxs(ledger)) <= Sum(RowHeld(game, ledger)) + Sum(ColHeld(game, ledger))
        BY <1>9 DEF Covered
      <3>3. QED
        BY <1>9, <2>5, <3>1, <3>2 DEF Covered
    <2>8. QED
      BY <1>2, <1>6, <1>7, <1>12, <1>14, <2>5, <2>7 DEF PrizesHeld
  <1>15. CASE ~ UndoesRow /\ ~ UndoesCol
    <2>1. ledger' = ledger
      BY <1>15 DEF UndoOrders, Posted, NewTxs
    <2>2. game'.payout.row = game.payout.row /\ game'.payout.col = game.payout.col
      BY <1>1, <1>2, <1>3, <1>5, <1>15
    <2>3. RowHeld(game', ledger') = RowHeld(game, ledger) /\ ColHeld(game', ledger') = ColHeld(game, ledger)
      BY <2>1, <2>2 DEF RowHeld, ColHeld
    <2>4. Covered(game', ledger')
      BY <1>9, <2>1, <2>3 DEF Covered
    <2>5. QED
      BY <1>2, <1>7, <1>9, <1>12, <2>1, <2>4 DEF PrizesHeld
  <1>16. QED
    BY <1>13, <1>14, <1>15

LEMMA StepPrizes ==
    ASSUME Typed, Lifecycle, PrizesHeld, [Next]_vars PROVE PrizesHeld'
  <1>1. ASSUME NEW u \in Users, NEW a \in Withdrawals, Withdraw(u, a) PROVE PrizesHeld'
    <2>1. UNCHANGED <<game, called, events>>
      BY <1>1 DEF Withdraw
    <2>2. ledger \subseteq ledger' /\ \A t \in ledger' : t \in ledger \/ t.key.kind = "WITHDRAW"
      BY <1>1, PostedKeeps, PostedFrom DEF Withdraw, Tx, Ref
    <2>3. \A t \in ledger' : t \in ledger \/ t.key.kind \notin PrizeKinds \cup UndoKinds
      BY <2>2 DEF PrizeKinds, UndoKinds
    <2>4. QED
      BY <2>1, <2>2, <2>3, KeepsPrizes DEF Closed
  <1>2. ASSUME UNCHANGED <<game, called, ledger, events>> PROVE PrizesHeld'
    BY <1>2, KeepsPrizes DEF Closed
  <1>3. ASSUME SelectManual PROVE PrizesHeld'
    <2>1. UNCHANGED <<called, ledger, events>>
      BY <1>3 DEF SelectManual
    <2>2. \A f \in {"status", "payout", "colPaid", "rowAmount", "colAmount"} : game'[f] = game[f]
      BY <1>3 DEF SelectManual, Typed, RowOK, GameRow
    <2>3. QED
      BY <2>1, <2>2, KeepsPrizes DEF Closed
  <1>4. ASSUME NEW s \in Slots, Buy(s) PROVE PrizesHeld'
    <2>1. UNCHANGED called
      BY <1>4 DEF Buy
    <2>2. \A f \in {"status", "payout", "colPaid", "rowAmount", "colAmount"} : game'[f] = game[f]
      BY <1>4 DEF Buy, Typed, RowOK, GameRow
    <2>3. ledger \subseteq ledger' /\ \A t \in ledger' : t \in ledger \/ t.key.kind = "BUY"
      BY <1>4, PostedKeeps, PostedFrom DEF Buy, Tx, Ref
    <2>4. \A t \in ledger' : t \in ledger \/ t.key.kind \notin PrizeKinds \cup UndoKinds
      BY <2>3 DEF PrizeKinds, UndoKinds
    <2>5. Closed' <=> Closed
      BY <1>4 DEF Buy, Closed, Ref
    <2>6. QED
      BY <2>1, <2>2, <2>3, <2>4, <2>5, KeepsPrizes
  <1>5. ASSUME NEW s \in Slots, Start(s) PROVE PrizesHeld'
    <2>1. Row(s) = game /\ \A row : Flushed(s, row) = row
      BY <1>5, LockedRow DEF Start, Lifecycle
    <2>2. game' = Running(game) /\ game.status = "LOBBY" /\ ledger' = ledger
      BY <1>5, <2>1 DEF Start
    <2>3. game'.payout = [row |-> None, col |-> None]
      BY <2>2 DEF Running, Typed, RowOK, GameRow
    <2>4. QED
      BY <2>2, <2>3, NoPayout
  <1>6. ASSUME NEW s \in Slots, Close(s) PROVE PrizesHeld'
    <2> DEFINE refunds == {Tx(purchases[i].user, Ref("LOBBY_REFUND", i), purchases[i].total) :
                             i \in 1..Len(purchases)}
    <2>1. game.status = "LOBBY" /\ ledger' = Posted(ledger, refunds)
      BY <1>6 DEF Close
    <2>2. game'.payout = [row |-> None, col |-> None]
      BY <1>6 DEF Close, Typed, RowOK, GameRow
    <2>3. \A t \in refunds : t.key.kind = "LOBBY_REFUND"
      BY DEF Tx, Ref
    <2> HIDE DEF refunds
    <2>4. ledger \subseteq ledger' /\ \A t \in ledger' : t \in ledger \/ t.key.kind = "LOBBY_REFUND"
      BY <2>1, <2>3, PostedKeeps, PostedFrom
    <2>5. \A t \in ledger' : t \in ledger \/ t.key.kind \notin PrizeKinds \cup UndoKinds
      BY <2>4 DEF PrizeKinds, UndoKinds
    <2>6. QED
      BY <2>1, <2>2, <2>4, <2>5, NoPayout
  <1>7. ASSUME NEW s \in Slots, Call(s) PROVE PrizesHeld'
    <2> DEFINE n == req[s].number
               rowW == RowWinners(s)
               colW == ColWinners(s)
    <2>1. /\ req[s] # Idle /\ Row(s) = game /\ \A row : Flushed(s, row) = row
      BY <1>7, LockedRow DEF Call, Callable, Lifecycle
    <2>2. /\ game.status = "RUNNING" /\ game' = Outcome(s).game
          /\ ledger' = Posted(ledger, Outcome(s).orders) /\ called' = Append(called, n)
      BY <1>7, <2>1 DEF Call, Callable, Drawing
    <2>3. ~ Closed /\ ~ Closed'
      <3>1. ~ Closed
        BY <2>2 DEF Lifecycle
      <3>2. QED
        BY <1>7, <2>1, <3>1, CallOutcome DEF Call, Closed, Ref, Lifecycle
    <2>4. n \in Numbers /\ req[s].ncards \in 0..Len(cards)
      BY <1>7, <2>1 DEF Call, Callable, Typed, ReqsOK, RequestOK, Request
    <2>5. rowW \in SUBSET (1..Len(cards)) /\ colW \in SUBSET (1..Len(cards))
      BY <2>4, CardsLen DEF RowWinners, ColWinners, Winners
    <2>6. CASE rowW # {}
      <3>1. Outcome(s) = [game |-> RowPayout(game, n, rowW),
                          orders |-> Prizes("PRIZE_ROW", Pays(RowTotal(game), rowW)),
                          events |-> {Ref("PRIZE_ROW", 0), Ref("GAME_ENDED", 0)}]
        BY <2>1, <2>6 DEF Outcome
      <3> HIDE DEF rowW, n
      <3>2. QED
        BY <2>2, <2>3, <2>4, <2>5, <2>6, <3>1, RowWon
    <2>7. CASE rowW = {} /\ colW # {}
      <3>1. Outcome(s) = [game |-> ColPayout(game, n, colW),
                          orders |-> Prizes("PRIZE_COL", Pays(game.colAmount, colW)),
                          events |-> {Ref("PRIZE_COL", 0)}]
        BY <2>1, <2>7 DEF Outcome
      <3>2. ~ game.colPaid
        BY <2>1, <2>7 DEF ColWinners
      <3> HIDE DEF rowW, colW, n
      <3>3. QED
        BY <2>2, <2>3, <2>4, <2>5, <2>7, <3>1, <3>2, ColWon
    <2>8. CASE rowW = {} /\ colW = {}
      <3>1. game' = game /\ ledger' = Posted(ledger, {})
        BY <2>1, <2>2, <2>8 DEF Outcome
      <3>2. ledger' = ledger
        BY <3>1 DEF Posted, NewTxs
      <3>3. game.payout.row = None
        BY <2>2 DEF PrizesHeld, Divided
      <3>4. QED
        BY <2>3, <3>1, <3>2, <3>3 DEF PrizesHeld
    <2>9. QED
      BY <2>6, <2>7, <2>8
  <1>8. ASSUME NEW s \in Slots, Undo(s) PROVE PrizesHeld'
    <2>1. called # <<>> /\ game' = Undone /\ ledger' = Posted(ledger, UndoOrders)
      BY <1>8 DEF Undo, Undoable
    <2>2. game.status # "LOBBY" /\ ~ Closed
      BY <2>1 DEF Lifecycle
    <2>3. ~ Closed'
      BY <1>8, <2>2 DEF Undo, Closed, Ref
    <2>4. QED
      BY <2>1, <2>2, <2>3, UndoneHeld
  <1>9. \/ \E u \in Users, a \in Withdrawals : Withdraw(u, a)
        \/ SelectManual
        \/ UNCHANGED <<game, called, ledger, events>>
        \/ \E s \in Slots : Buy(s) \/ Start(s) \/ Close(s) \/ Call(s) \/ Undo(s)
    BY DEF Next, vars, BeginBuy, BeginStart, BeginClose, BeginCall, BeginUndo, Drop,
           CallLost, UndoLost
  <1>10. QED
    BY <1>1, <1>2, <1>3, <1>4, <1>5, <1>6, <1>7, <1>8, <1>9

LEMMA PrizesHeldHolds == "tg" \notin Routes => (Spec => []PrizesHeld)
  <1> SUFFICES ASSUME "tg" \notin Routes PROVE Spec => []PrizesHeld
    OBVIOUS
  <1>1. Init => PrizesHeld
    <2> SUFFICES ASSUME Init PROVE PrizesHeld
      OBVIOUS
    <2>1. game.payout.row = None /\ game.payout.col = None
      BY DEF Init
    <2>2. \A t \in ledger : t.key.kind = "OPENING"
      BY OpeningAssumption DEF Init
    <2>3. PrizeTxs(ledger) = {} /\ RowHeld(game, ledger) = {} /\ ColHeld(game, ledger) = {}
      BY <2>1, <2>2 DEF PrizeTxs, PrizeKinds, UndoKinds, RowHeld, ColHeld
    <2>4. Covered(game, ledger)
      BY <2>3, SumEmpty DEF Covered
    <2>5. QED
      BY <2>1, <2>2, <2>4 DEF PrizesHeld, Divided, Credited, UndoPaid
  <1>2. QED
    BY <1>1, StepPrizes, TypedHolds, LifecycleHolds, PTL DEF Spec

\* However calls and undos of the bot and of the Mini App overlap, repeat and
\* get lost, the players never hold more prize money of a game than its pool:
\* what they hold are shares of the two buckets, and those make up the pool.
THEOREM PoolIsEnough == "tg" \notin Routes => (Spec => []PrizesWithinPool)
  <1> SUFFICES ASSUME "tg" \notin Routes PROVE Spec => []PrizesWithinPool
    OBVIOUS
  <1>1. Typed /\ Lifecycle /\ Pot /\ PrizesHeld => PrizesWithinPool
    <2> SUFFICES ASSUME Typed, Lifecycle, Pot, PrizesHeld PROVE PrizesWithinPool
      OBVIOUS
    <2>1. PrizeNet = Sum(PrizeTxs(ledger))
      BY DEF PrizeNet, NetOf, Sum, PrizeTxs, MapThenSumSet, MapThenFoldSet
    <2>2. /\ Sum(PrizeTxs(ledger)) <= Sum(RowHeld(game, ledger)) + Sum(ColHeld(game, ledger))
          /\ Sum(RowHeld(game, ledger)) \in Int /\ Sum(ColHeld(game, ledger)) \in Int
      BY HeldInts DEF PrizesHeld, Covered
    <2>3. game.pool \in Nat /\ game.rowAmount \in Nat /\ game.colAmount \in Nat /\ Sum(PrizeTxs(ledger)) \in Int
      <3>1. Sum(PrizeTxs(ledger)) \in Int
        BY SumInt, FS_Subset DEF PrizeTxs, TxRecord, Typed
      <3>2. QED
        BY <3>1 DEF Typed, RowOK, GameRow
    <2>4. CASE game.status = "LOBBY" \/ Closed
      <3>1. game.payout.row = None /\ game.payout.col = None
        BY <2>4 DEF PrizesHeld, Divided
      <3>2. Sum(RowHeld(game, ledger)) = 0 /\ Sum(ColHeld(game, ledger)) = 0
        BY <3>1, SumEmpty DEF RowHeld, ColHeld
      <3>3. QED
        BY <2>1, <2>2, <2>3, <3>2 DEF PrizesWithinPool
    <2>5. CASE game.status # "LOBBY" /\ ~ Closed
      <3>1. game.rowAmount + game.colAmount = game.pool
        BY <2>5 DEF Pot, Started
      <3>2. Sum(RowHeld(game, ledger)) <=
              IF game.payout.row = None THEN 0
              ELSE game.rowAmount + (IF game.payout.row.withCol THEN game.colAmount ELSE 0)
        <4>1. CASE game.payout.row = None
          BY <4>1, SumEmpty DEF RowHeld
        <4>2. CASE game.payout.row # None
          <5>1. /\ Sum(Held(ledger, "UNDO_ROW", game.payout.row.pays)) <= Sum(game.payout.row.pays)
                /\ Sum(Held(ledger, "UNDO_ROW", game.payout.row.pays)) \in Int
                /\ Sum(game.payout.row.pays) \in Int
            BY <4>2, PayoutFields, HeldSum
          <5>2. Sum(game.payout.row.pays)
                  <= game.rowAmount + (IF game.payout.row.withCol THEN game.colAmount ELSE 0)
            BY <4>2 DEF PrizesHeld, Divided
          <5>3. RowHeld(game, ledger) = Held(ledger, "UNDO_ROW", game.payout.row.pays)
            BY <4>2 DEF RowHeld
          <5>4. QED
            BY <2>3, <4>2, <5>1, <5>2, <5>3
        <4>3. QED
          BY <4>1, <4>2
      <3>3. Sum(ColHeld(game, ledger)) <=
              IF game.payout.col = None \/ game.payout.col.absorbed THEN 0 ELSE game.colAmount
        <4>1. CASE game.payout.col = None \/ game.payout.col.absorbed
          BY <4>1, SumEmpty DEF ColHeld
        <4>2. CASE game.payout.col # None /\ ~ game.payout.col.absorbed
          <5>1. /\ Sum(Held(ledger, "UNDO_COL", game.payout.col.pays)) <= Sum(game.payout.col.pays)
                /\ Sum(Held(ledger, "UNDO_COL", game.payout.col.pays)) \in Int
                /\ Sum(game.payout.col.pays) \in Int
            BY <4>2, PayoutFields, HeldSum
          <5>2. Sum(game.payout.col.pays) <= game.colAmount
            BY <4>2 DEF PrizesHeld, Divided
          <5>3. ColHeld(game, ledger) = Held(ledger, "UNDO_COL", game.payout.col.pays)
            BY <4>2 DEF ColHeld
          <5>4. QED
            BY <2>3, <4>2, <5>1, <5>2, <5>3
        <4>3. QED
          BY <4>1, <4>2
      <3>4. game.payout.row # None /\ game.payout.row.withCol /\ game.payout.col # None => game.payout.col.absorbed
        BY DEF PrizesHeld, Divided
      <3>5. QED
        BY <2>1, <2>2, <2>3, <3>1, <3>2, <3>3, <3>4 DEF PrizesWithinPool
    <2>6. QED
      BY <2>4, <2>5
  <1>2. QED
    BY <1>1, TypedHolds, LifecycleHolds, PotHolds, PrizesHeldHolds, PTL

-----------------------------------------------------------------------------
(* The board                                                               *)
(*                                                                         *)
(* One administrator at a time: a call sees the board it adds to, so the   *)
(* lines completed by a sequence of calls are those its prefixes complete. *)

OneAtATime == \A s, t \in Slots : s = t

\* The numbers of the first i calls of a sequence, the calls of it that complete a
\* line, and of those the ones before a row.
PrefixOf(q, i)    == {q[j] : j \in 1..i}
LinesOf(q, mode)  == {i \in 1..Len(q) : Winners(Len(cards), PrefixOf(q, i), mode) # {}}
RowsOf(q)         == LinesOf(q, "ROW")
ColsOf(q)         == {i \in LinesOf(q, "COL") : \A r \in RowsOf(q) : i < r}
FirstOf(is)       == CHOOSE i \in is : \A j \in is : i <= j

\* PayoutOfBoard, for a row of games and a sequence of calls. A row took the column
\* bucket along if no column was completed before it.
RowRule(g, q) ==
    /\ g.status = IF RowsOf(q) = {} THEN "RUNNING" ELSE "ENDED"
    /\ g.payout.row = None <=> RowsOf(q) = {}
    /\ RowsOf(q) # {} =>
          /\ RowsOf(q) = {Len(q)}
          /\ g.payout.row.call = q[Len(q)]
          /\ CardsPaid(g.payout.row) = Winners(Len(cards), PrefixOf(q, Len(q)), "ROW")
          /\ Sum(g.payout.row.pays) = g.pool - (IF ColsOf(q) = {} THEN 0 ELSE g.colAmount)
          /\ g.payout.row.withCol <=> ColsOf(q) = {}

Column(g, q, i) ==
    /\ g.payout.col # None
    /\ ~ g.payout.col.absorbed
    /\ g.payout.col.call = q[i]
    /\ CardsPaid(g.payout.col) = Winners(Len(cards), PrefixOf(q, i), "COL")
    /\ Sum(g.payout.col.pays) = g.colAmount

ColRule(g, q) ==
    /\ g.colPaid <=> RowsOf(q) # {} \/ ColsOf(q) # {}
    /\ ColsOf(q) # {} => Column(g, q, FirstOf(ColsOf(q)))
    /\ RowsOf(q) = {} /\ ColsOf(q) = {} => g.payout.col = None

\* A request sees the board and the cards as they are.
Current == \A s \in Slots : req[s] # Idle /\ req[s].op = "call" =>
    req[s].board = Board /\ req[s].ncards = Len(cards)

Distinct == \A i, j \in 1..Len(called) : called[i] = called[j] => i = j

Drawn ==
    /\ Current
    /\ Distinct
    /\ Started => RowRule(game, called) /\ ColRule(game, called)

LEMMA DrawnIsPayout == ASSUME Drawn PROVE PayoutOfBoard
  <1> SUFFICES ASSUME Started PROVE PayoutOfBoard
    BY DEF PayoutOfBoard
  <1>1. /\ Completed("ROW") = RowsOf(called)
        /\ {i \in Completed("COL") : \A r \in Completed("ROW") : i < r} = ColsOf(called)
        /\ \A i : Prefix(i) = PrefixOf(called, i)
    BY DEF Completed, RowsOf, ColsOf, LinesOf, Prefix, PrefixOf
  <1>2. Board = PrefixOf(called, Len(called)) /\ LastCalled = called[Len(called)]
    BY DEF Board, PrefixOf, LastCalled
  <1>3. \A b : SumPaid(b) = Sum(b.pays)
    BY DEF SumPaid, Sum, MapThenSumSet, MapThenFoldSet
  <1>4. RowRule(game, called) /\ ColRule(game, called)
    BY DEF Drawn
  <1>5. QED
    BY <1>1, <1>2, <1>3, <1>4 DEF PayoutOfBoard, RowRule, ColRule, Column, FirstOf

\* The first of some calls.
LEMMA FirstIsFirst ==
    ASSUME NEW is \in SUBSET Nat
    PROVE  /\ is # {} => FirstOf(is) \in is /\ \A j \in is : FirstOf(is) <= j
           /\ \A i \in is : (\A j \in is : i <= j) => FirstOf(is) = i
  <1>1. ASSUME NEW i \in is PROVE \E k \in is : \A j \in is : k <= j
    <2>1. PICK k \in is : \A j \in is : ~ (<<j, k>> \in OpToRel(<, Nat))
      BY <1>1, NatLessThanWellFounded, WFMin
    <2>2. \A j \in is : ~ (j < k)
      BY <2>1 DEF OpToRel
    <2>3. QED
      BY <2>2
  <1>2. ASSUME is # {} PROVE FirstOf(is) \in is /\ \A j \in is : FirstOf(is) <= j
    <2>1. \E k \in is : \A j \in is : k <= j
      BY <1>1, <1>2
    <2>2. QED
      BY <2>1 DEF FirstOf
  <1>3. ASSUME NEW i \in is, \A j \in is : i <= j PROVE FirstOf(is) = i
    <2>1. FirstOf(is) \in is /\ i <= FirstOf(is) /\ FirstOf(is) <= i
      BY <1>2, <1>3
    <2>2. i \in Nat /\ FirstOf(is) \in Nat
      BY <2>1
    <2> HIDE DEF FirstOf
    <2>3. QED
      BY <2>1, <2>2
  <1>4. QED
    BY <1>2, <1>3

\* A call adds a number to the board; what was complete before stays complete after.
LEMMA CallLines ==
    ASSUME NEW q \in Seq(Numbers), NEW n \in Numbers
    PROVE  /\ Len(q) \in Nat
           /\ Append(q, n)[Len(q) + 1] = n /\ Len(Append(q, n)) = Len(q) + 1
           /\ \A i \in 1..Len(q) : /\ Append(q, n)[i] = q[i]
                                   /\ PrefixOf(Append(q, n), i) = PrefixOf(q, i)
           /\ PrefixOf(Append(q, n), Len(q) + 1) = PrefixOf(q, Len(q)) \cup {n}
           /\ \A mode : LinesOf(Append(q, n), mode) = LinesOf(q, mode) \cup
                 {i \in {Len(q) + 1} :
                    Winners(Len(cards), PrefixOf(q, Len(q)) \cup {n}, mode) # {}}
  <1> DEFINE p == Append(q, n)
  <1>1. /\ Len(q) \in Nat /\ Len(p) = Len(q) + 1 /\ p[Len(q) + 1] = n
        /\ \A i \in 1..Len(q) : p[i] = q[i]
    BY AppendProperties, LenProperties
  <1> HIDE DEF p
  <1>2. \A i \in 1..Len(q) : PrefixOf(p, i) = PrefixOf(q, i)
    <2> SUFFICES ASSUME NEW i \in 1..Len(q) PROVE PrefixOf(p, i) = PrefixOf(q, i)
      OBVIOUS
    <2>1. \A j \in 1..i : p[j] = q[j]
      BY <1>1
    <2>2. QED
      BY <2>1 DEF PrefixOf
  <1>3. PrefixOf(p, Len(q) + 1) = PrefixOf(q, Len(q)) \cup {n}
    <2>1. 1..(Len(q) + 1) = 1..Len(q) \cup {Len(q) + 1}
      BY <1>1
    <2>2. QED
      BY <1>1, <2>1 DEF PrefixOf
  <1>4. ASSUME NEW mode
        PROVE  LinesOf(p, mode) = LinesOf(q, mode) \cup
                 {i \in {Len(q) + 1} :
                    Winners(Len(cards), PrefixOf(q, Len(q)) \cup {n}, mode) # {}}
    <2>1. 1..Len(p) = 1..Len(q) \cup {Len(q) + 1}
      BY <1>1
    <2> HIDE DEF PrefixOf, Winners
    <2>2. QED
      BY <1>2, <1>3, <2>1 DEF LinesOf
  <1>5. QED
    BY <1>1, <1>2, <1>3, <1>4 DEF p

\* An undo takes the last call off the board.
LEMMA UndoLines ==
    ASSUME NEW q \in Seq(Numbers), q # <<>>, NEW p, p = SubSeq(q, 1, Len(q) - 1)
    PROVE  /\ Len(q) \in Nat \ {0} /\ p \in Seq(Numbers) /\ Len(p) = Len(q) - 1
           /\ \A i \in 1..Len(p) : p[i] = q[i] /\ PrefixOf(p, i) = PrefixOf(q, i)
           /\ \A mode : LinesOf(p, mode) = LinesOf(q, mode) \ {Len(q)}
  <1>1. Len(q) \in Nat \ {0}
    BY LenProperties, EmptySeq
  <1>2. p \in Seq(Numbers) /\ Len(p) = Len(q) - 1 /\ \A i \in 1..Len(p) : p[i] = q[i]
    <2>1. \A i \in 1..(Len(q) - 1) : q[i] \in Numbers
      BY <1>1, ElementOfSeq
    <2> DEFINE n == Len(q) - 1
    <2>2. n \in Int /\ n >= 0
      BY <1>1
    <2>3. /\ SubSeq(q, 1, n) \in Seq(Numbers)
          /\ Len(SubSeq(q, 1, n)) = IF 1 <= n THEN n - 1 + 1 ELSE 0
          /\ \A i \in 1 .. n - 1 + 1 : SubSeq(q, 1, n)[i] = q[1 + i - 1]
      <3> HIDE DEF n
      <3>1. \A i \in 1..n : q[i] \in Numbers
        BY <2>1 DEF n
      <3>2. QED
        BY <2>2, <3>1, SubSeqProperties
    <2>4. Len(p) = n
      <3>1. p = SubSeq(q, 1, n)
        OBVIOUS
      <3> HIDE DEF n
      <3>2. Len(p) = IF 1 <= n THEN n - 1 + 1 ELSE 0
        BY <2>3, <3>1
      <3>3. (IF 1 <= n THEN n - 1 + 1 ELSE 0) = n
        BY <2>2
      <3>4. QED
        BY <3>2, <3>3
    <2>5. \A i \in 1..n : 1 + i - 1 = i /\ i \in 1 .. n - 1 + 1
      BY <2>2
    <2>6. QED
      BY <2>3, <2>4, <2>5
  <1>3. \A i \in 1..Len(p) : PrefixOf(p, i) = PrefixOf(q, i)
    <2> SUFFICES ASSUME NEW i \in 1..Len(p) PROVE PrefixOf(p, i) = PrefixOf(q, i)
      OBVIOUS
    <2>1. \A j \in 1..i : p[j] = q[j]
      BY <1>1, <1>2
    <2>2. QED
      BY <2>1 DEF PrefixOf
  <1>4. ASSUME NEW mode PROVE LinesOf(p, mode) = LinesOf(q, mode) \ {Len(q)}
    <2>1. 1..Len(p) = (1..Len(q)) \ {Len(q)}
      BY <1>1, <1>2
    <2> HIDE DEF PrefixOf, Winners
    <2>2. QED
      BY <1>3, <2>1 DEF LinesOf
  <1>5. QED
    BY <1>1, <1>2, <1>3, <1>4

\* The payment of a bucket names its winners and adds up.
LEMMA PaidTo ==
    ASSUME Typed, NEW total \in Nat, NEW W \in SUBSET (1..Len(cards)), W # {},
           NEW b, b.pays = Pays(total, W)
    PROVE  CardsPaid(b) = W /\ Sum(b.pays) = total
  <1>1. CardsPaid(b) = W
    <2> DEFINE f == [c \in W |-> [card |-> c, user |-> cards[c].user, amount |-> Share(total, W, c)]]
    <2>1. b.pays = {f[c] : c \in W} /\ \A c \in W : f[c].card = c
      BY DEF Pays
    <2> HIDE DEF f
    <2>2. \A p \in b.pays : p.card \in W
      BY <2>1
    <2>3. \A c \in W : \E p \in b.pays : p.card = c
      BY <2>1
    <2>4. QED
      BY <2>2, <2>3 DEF CardsPaid
  <1>2. QED
    BY <1>1, PaysAddUp

\* The rule for the cards as they are after a step that leaves them alone.
LEMMA RulesPrimed ==
    ASSUME cards' = cards, Current', Distinct',
           Started' => RowRule(game', called') /\ ColRule(game', called')
    PROVE  Drawn'
  <1>1. \A n, b, m : Winners(n, b, m)' = Winners(n, b, m)
    BY DEF Winners
  <1>2. /\ \A q, m : LinesOf(q, m)' = LinesOf(q, m)
        /\ Len(cards)' = Len(cards)
    BY <1>1 DEF LinesOf, PrefixOf
  <1>3. \A q : RowsOf(q)' = RowsOf(q) /\ ColsOf(q)' = ColsOf(q)
    BY <1>2 DEF RowsOf, ColsOf
  <1>4. \A g, q : RowRule(g, q)' = RowRule(g, q) /\ ColRule(g, q)' = ColRule(g, q)
    BY <1>1, <1>2, <1>3 DEF RowRule, ColRule, Column
  <1>5. QED
    BY <1>4 DEF Drawn

\* What a row that wins, and a column, make of the games row.
LEMMA RowPaid ==
    ASSUME Typed, NEW n \in Numbers, NEW W \in SUBSET (1..Len(cards)), W # {}
    PROVE  LET g == RowPayout(game, n, W)
           IN  /\ g.status = "ENDED" /\ g.colPaid = TRUE
               /\ g.colAmount = game.colAmount /\ g.pool = game.pool
               /\ g.payout.row # None /\ g.payout.row.pays = Pays(RowTotal(game), W)
               /\ g.payout.row.call = n
               /\ g.payout.row.withCol <=> ~ game.colPaid
               /\ CardsPaid(g.payout.row) = W /\ Sum(g.payout.row.pays) = RowTotal(game)
               /\ game.colPaid => g.payout.col = game.payout.col
  <1> DEFINE pays == Pays(RowTotal(game), W)
             row == [pays |-> pays, call |-> n, withCol |-> ~ game.colPaid]
             col == IF game.colPaid THEN game.payout.col
                    ELSE [pays |-> Pays(game.colAmount, W), call |-> n, absorbed |-> TRUE]
             g == RowPayout(game, n, W)
  <1>1. RowTotal(game) \in Nat
    BY PayoutFields DEF RowTotal
  <1>2. pays \in SUBSET Pay
    BY <1>1, PaysTyped DEF PaysOK
  <1>3. row # None
    <2>1. row \in RowPayment
      <3> HIDE DEF pays
      <3>1. (~ game.colPaid) \in BOOLEAN
        OBVIOUS
      <3>2. QED
        BY <1>2, <3>1 DEF RowPayment
    <2>2. QED
      BY <2>1, NoneAssumption
  <1>4. CardsPaid(row) = W /\ Sum(row.pays) = RowTotal(game)
    BY <1>1, PaidTo
  <1>5. /\ g.status = "ENDED" /\ g.colPaid = TRUE
        /\ g.colAmount = game.colAmount /\ g.pool = game.pool
        /\ g.payout = [row |-> row, col |-> col]
    <2>1. g = [game EXCEPT !.status = "ENDED", !.colPaid = TRUE,
                           !.payout = [row |-> row, col |-> col]]
      BY DEF RowPayout
    <2> HIDE DEF g, row, col
    <2>2. QED
      BY <2>1 DEF Typed, RowOK, GameRow
  <1>6. g.payout.row = row /\ g.payout.col = col
    BY <1>5
  <1>7. row.pays = pays /\ row.call = n /\ (row.withCol <=> ~ game.colPaid)
    OBVIOUS
  <1> HIDE DEF g, row, pays
  <1>8. QED
    BY <1>3, <1>4, <1>5, <1>6, <1>7 DEF g, pays

LEMMA ColPaid ==
    ASSUME Typed, NEW n \in Numbers, NEW W \in SUBSET (1..Len(cards)), W # {}
    PROVE  LET g == ColPayout(game, n, W)
           IN  /\ g.status = game.status /\ g.colPaid = TRUE
               /\ g.colAmount = game.colAmount /\ g.payout.row = game.payout.row
               /\ g.payout.col # None /\ g.payout.col.pays = Pays(game.colAmount, W)
               /\ g.payout.col.call = n
               /\ ~ g.payout.col.absorbed
               /\ CardsPaid(g.payout.col) = W /\ Sum(g.payout.col.pays) = game.colAmount
  <1> DEFINE pays == Pays(game.colAmount, W)
             col == [pays |-> pays, call |-> n, absorbed |-> FALSE]
             g == ColPayout(game, n, W)
  <1>1. game.colAmount \in Nat
    BY PayoutFields
  <1>2. pays \in SUBSET Pay
    BY <1>1, PaysTyped DEF PaysOK
  <1>3. col # None
    <2>1. col \in ColPayment
      <3> HIDE DEF pays
      <3>1. QED
        BY <1>2 DEF ColPayment
    <2>2. QED
      BY <2>1, NoneAssumption
  <1>4. CardsPaid(col) = W /\ Sum(col.pays) = game.colAmount
    BY <1>1, PaidTo
  <1>5. /\ g.status = game.status /\ g.colPaid = TRUE /\ g.colAmount = game.colAmount
        /\ g.payout.row = game.payout.row /\ g.payout.col = col
    <2>1. g = [game EXCEPT !.colPaid = TRUE, !.payout.col = col]
      BY DEF ColPayout
    <2> HIDE DEF g, col
    <2>2. QED
      BY <2>1 DEF Typed, RowOK, GameRow, Payout
  <1>6. col.pays = pays /\ col.call = n /\ ~ col.absorbed
    OBVIOUS
  <1> HIDE DEF g, col, pays
  <1>7. QED
    BY <1>3, <1>4, <1>5, <1>6 DEF g, pays

\* A request that is over leaves no other under way.
LEMMA NothingUnderWay ==
    ASSUME OneAtATime, Typed, NEW s \in Slots, Done(s) PROVE Current'
  <1>1. \A t \in Slots : req'[t] = Idle
    BY DEF OneAtATime, Typed, Done
  <1>2. QED
    BY <1>1 DEF Current

\* A call: a row ends the game, with the column bucket if it is unpaid; a column is
\* paid if none was.
LEMMA CallRules ==
    ASSUME OneAtATime, Typed, Lifecycle, Pot, Drawn, NEW s \in Slots, Call(s)
    PROVE  Drawn'
  <1> DEFINE n == req[s].number
             q == called
             k == Len(q) + 1
             rowW == RowWinners(s)
             colW == ColWinners(s)
             all(mode) == Winners(Len(cards), PrefixOf(q, Len(q)) \cup {n}, mode)
  <1>1. /\ req[s] # Idle /\ req[s].op = "call" /\ Row(s) = game
        /\ \A row : Flushed(s, row) = row
    BY LockedRow DEF Call, Callable, Lifecycle
  <1>2. /\ game.status = "RUNNING" /\ n \notin Board
        /\ game' = Outcome(s).game /\ called' = Append(q, n) /\ Done(s) /\ cards' = cards
    BY <1>1 DEF Call, Callable, Drawing
  <1>3. ~ Closed /\ Started
    BY <1>2 DEF Lifecycle, Started
  <1>4. /\ n \in Numbers /\ q \in Seq(Numbers)
        /\ req[s].board = PrefixOf(q, Len(q)) /\ req[s].ncards = Len(cards)
    BY <1>1 DEF Typed, ReqsOK, RequestOK, Request, Drawn, Current, Board, PrefixOf
  <1>5. /\ rowW = IF game.payout.row # None THEN {} ELSE all("ROW")
        /\ colW = IF game.colPaid THEN {} ELSE all("COL")
    BY <1>1, <1>4 DEF RowWinners, ColWinners
  <1>6. RowRule(game, q) /\ ColRule(game, q)
    BY <1>3 DEF Drawn
  <1>7. RowsOf(q) = {} /\ game.payout.row = None /\ rowW = all("ROW")
    BY <1>2, <1>5, <1>6 DEF RowRule
  <1>8. ColsOf(q) = LinesOf(q, "COL") /\ ColsOf(q) \subseteq 1..Len(q)
    BY <1>7 DEF ColsOf, LinesOf
  <1>9. /\ Len(q) \in Nat /\ Len(called') = k /\ called'[k] = n
        /\ \A i \in 1..Len(q) : called'[i] = q[i] /\ PrefixOf(called', i) = PrefixOf(q, i)
        /\ PrefixOf(called', k) = PrefixOf(q, Len(q)) \cup {n}
        /\ \A mode : LinesOf(called', mode) = LinesOf(q, mode) \cup {i \in {k} : all(mode) # {}}
    <2> HIDE DEF n, q
    <2>1. called' = Append(q, n)
      BY <1>2
    <2>2. n \in Numbers /\ q \in Seq(Numbers)
      BY <1>4
    <2> HIDE DEF all, k
    <2>3. /\ Len(q) \in Nat
          /\ Append(q, n)[Len(q) + 1] = n /\ Len(Append(q, n)) = Len(q) + 1
          /\ \A i \in 1..Len(q) : /\ Append(q, n)[i] = q[i]
                                  /\ PrefixOf(Append(q, n), i) = PrefixOf(q, i)
          /\ PrefixOf(Append(q, n), Len(q) + 1) = PrefixOf(q, Len(q)) \cup {n}
          /\ \A mode : LinesOf(Append(q, n), mode) = LinesOf(q, mode) \cup
                {i \in {Len(q) + 1} :
                   Winners(Len(cards), PrefixOf(q, Len(q)) \cup {n}, mode) # {}}
      BY <2>2, CallLines, Zenon
    <2>4. QED
      BY <2>1, <2>3, Zenon DEF all, k
  <1>10. k \in Nat /\ k \notin 1..Len(q) /\ \A i \in 1..Len(q) : i < k /\ i \in Nat
    BY <1>9
  <1>11. RowsOf(called') = IF rowW = {} THEN {} ELSE {k}
    BY <1>7, <1>9 DEF RowsOf
  <1>12. /\ rowW # {} => ColsOf(called') = ColsOf(q)
         /\ rowW = {} => ColsOf(called') = ColsOf(q) \cup {i \in {k} : all("COL") # {}}
    <2> HIDE DEF k, rowW, all, q
    <2>1. QED
      BY <1>8, <1>9, <1>10, <1>11 DEF ColsOf
  <1>13. /\ game.colPaid <=> ColsOf(q) # {}
         /\ ColsOf(q) # {} => Column(game, q, FirstOf(ColsOf(q)))
         /\ ColsOf(q) = {} => game.payout.col = None
    BY <1>6, <1>7 DEF ColRule
  <1>14. ColsOf(q) # {} =>
            /\ FirstOf(ColsOf(q)) \in 1..Len(q)
            /\ FirstOf(ColsOf(called')) = FirstOf(ColsOf(q))
    <2> SUFFICES ASSUME ColsOf(q) # {}
                 PROVE  /\ FirstOf(ColsOf(q)) \in 1..Len(q)
                        /\ FirstOf(ColsOf(called')) = FirstOf(ColsOf(q))
      OBVIOUS
    <2> DEFINE f == FirstOf(ColsOf(q))
               C == ColsOf(called')
    <2>1. f \in ColsOf(q) /\ \A j \in ColsOf(q) : f <= j
      BY <1>8, FirstIsFirst
    <2>2. C \in SUBSET Nat /\ \A j \in C : j \in ColsOf(q) \/ j = k
      BY <1>8, <1>10, <1>12
    <2>3. f \in 1..Len(q) /\ f \in C /\ f < k
      BY <1>8, <1>10, <1>12, <2>1
    <2> HIDE DEF f, C, k
    <2>4. f \in Nat /\ \A j \in C : f <= j
      BY <1>10, <2>1, <2>2, <2>3
    <2>5. FirstOf(C) = f
      BY <2>2, <2>3, <2>4, FirstIsFirst
    <2>6. QED
      BY <2>3, <2>5 DEF f, C
  <1>15. Current'
    BY <1>2, NothingUnderWay
  <1>16. Distinct'
    <2>1. \A i \in 1..Len(q) : q[i] # n
      BY <1>2 DEF Board
    <2>2. 1..Len(called') = 1..Len(q) \cup {k}
      BY <1>9
    <2> HIDE DEF k, n, q
    <2>3. QED
      BY <1>9, <2>1, <2>2 DEF Distinct, Drawn, q
  <1>17. /\ game.rowAmount \in Nat /\ game.colAmount \in Nat /\ game.pool \in Nat
         /\ game.colPaid \in BOOLEAN
         /\ game.rowAmount + game.colAmount = game.pool
    BY <1>3 DEF Pot, Typed, RowOK, GameRow
  <1>18. rowW \in SUBSET (1..Len(cards)) /\ colW \in SUBSET (1..Len(cards))
    BY <1>5, <1>7 DEF Winners
  <1>19. CASE rowW # {}
    <2>1. game' = RowPayout(game, n, rowW)
      BY <1>1, <1>2, <1>19 DEF Outcome
    <2>2. /\ game'.status = "ENDED" /\ game'.colPaid = TRUE
          /\ game'.colAmount = game.colAmount /\ game'.pool = game.pool
          /\ game'.payout.row # None /\ game'.payout.row.call = n
          /\ game'.payout.row.withCol <=> ~ game.colPaid
          /\ CardsPaid(game'.payout.row) = rowW
          /\ Sum(game'.payout.row.pays) = RowTotal(game)
          /\ game.colPaid => game'.payout.col = game.payout.col
      <3> HIDE DEF n, rowW
      <3> DEFINE g == RowPayout(game, n, rowW)
      <3>1. n \in Numbers /\ rowW \in SUBSET (1..Len(cards)) /\ rowW # {}
        BY <1>4, <1>18, <1>19
      <3>2. g.payout.row.withCol <=> ~ game.colPaid
        BY <3>1, RowPaid
      <3>3. /\ g.status = "ENDED" /\ g.colPaid = TRUE
            /\ g.colAmount = game.colAmount /\ g.pool = game.pool
            /\ g.payout.row # None /\ g.payout.row.call = n
            /\ CardsPaid(g.payout.row) = rowW /\ Sum(g.payout.row.pays) = RowTotal(game)
        BY ZenonT(30), <3>1, RowPaid
      <3>4. game.colPaid => g.payout.col = game.payout.col
        BY ZenonT(30), <3>1, RowPaid
      <3>5. g = game'
        BY <2>1
      <3> HIDE DEF g
      <3>6. QED
        BY <3>2, <3>3, <3>4, <3>5, Zenon
    <2>3. RowTotal(game) = game.pool - (IF ColsOf(q) = {} THEN 0 ELSE game.colAmount)
      BY <1>13, <1>17 DEF RowTotal
    <2>4. RowRule(game', called')
      <3> HIDE DEF k, n, q, rowW
      <3>1. RowsOf(called') = {k} /\ Len(called') = k /\ ColsOf(called') = ColsOf(q)
        BY <1>9, <1>11, <1>12, <1>19
      <3>2. rowW = Winners(Len(cards), PrefixOf(called', k), "ROW")
        BY <1>7, <1>9 
      <3>3. QED
        BY <1>9, <1>13, <2>2, <2>3, <3>1, <3>2 DEF RowRule
    <2>5. ColRule(game', called')
      <3>1. ColsOf(q) # {} => Column(game', called', FirstOf(ColsOf(called')))
        BY <1>9, <1>13, <1>14, <2>2 DEF Column
      <3>2. QED
        BY <1>11, <1>12, <1>19, <2>2, <3>1 DEF ColRule
    <2>6. QED
      BY <1>2, <1>15, <1>16, <2>4, <2>5, RulesPrimed
  <1>20. CASE rowW = {} /\ colW # {}
    <2>1. game' = ColPayout(game, n, colW)
      BY <1>1, <1>2, <1>20 DEF Outcome
    <2>2. /\ game'.status = game.status /\ game'.colPaid = TRUE
          /\ game'.colAmount = game.colAmount /\ game'.payout.row = game.payout.row
          /\ game'.payout.col # None /\ game'.payout.col.call = n /\ ~ game'.payout.col.absorbed
          /\ CardsPaid(game'.payout.col) = colW
          /\ Sum(game'.payout.col.pays) = game.colAmount
      <3> HIDE DEF n, colW
      <3> DEFINE g == ColPayout(game, n, colW)
      <3>1. n \in Numbers /\ colW \in SUBSET (1..Len(cards)) /\ colW # {}
        BY <1>4, <1>18, <1>20
      <3>2. /\ g.status = game.status /\ g.colPaid = TRUE
            /\ g.colAmount = game.colAmount /\ g.payout.row = game.payout.row
            /\ g.payout.col # None /\ g.payout.col.call = n
        BY ZenonT(30), <3>1, ColPaid
      <3>3. ~ g.payout.col.absorbed
        BY <3>1, ColPaid
      <3>4. CardsPaid(g.payout.col) = colW /\ Sum(g.payout.col.pays) = game.colAmount
        BY ZenonT(30), <3>1, ColPaid
      <3>5. g = game'
        BY <2>1
      <3> HIDE DEF g
      <3>6. QED
        BY <3>2, <3>3, <3>4, <3>5, Zenon
    <2>3. ~ game.colPaid /\ colW = all("COL")
      BY <1>5, <1>20
    <2>4. ColsOf(called') = {k} /\ RowsOf(called') = {}
      BY <1>11, <1>12, <1>13, <1>20, <2>3
    <2>5. FirstOf({k}) = k
      BY <1>10, FirstIsFirst
    <2>6. RowRule(game', called')
      BY <1>2, <1>7, <2>2, <2>4 DEF RowRule
    <2>7. ColRule(game', called')
      <3>1. Column(game', called', k)
        BY <1>9, <2>2, <2>3 DEF Column
      <3>2. QED
        BY <2>2, <2>4, <2>5, <3>1 DEF ColRule
    <2>8. QED
      BY <1>2, <1>15, <1>16, <2>6, <2>7, RulesPrimed
  <1>21. CASE rowW = {} /\ colW = {}
    <2>1. game' = game
      BY <1>1, <1>2, <1>21 DEF Outcome
    <2>2. RowRule(game, called')
      BY <1>2, <1>7, <1>11, <1>21 DEF RowRule
    <2>3. ColsOf(called') # {} <=> ColsOf(q) # {}
      BY <1>5, <1>12, <1>13, <1>21
    <2>4. ColRule(game, called')
      <3>1. ColsOf(q) # {} => Column(game, called', FirstOf(ColsOf(called')))
        BY <1>9, <1>13, <1>14 DEF Column
      <3>2. QED
        BY <1>11, <1>13, <1>21, <2>3, <3>1 DEF ColRule
    <2>5. QED
      BY <1>2, <1>15, <1>16, <2>1, <2>2, <2>4, RulesPrimed
  <1>22. QED
    BY <1>19, <1>20, <1>21

\* An undo: a row that had won gives its bucket back, and the column bucket if it took
\* that along; a column gives its bucket back if the last call completed it first.
LEMMA UndoRules ==
    ASSUME OneAtATime, Typed, Lifecycle, Drawn, NEW s \in Slots, Undo(s)
    PROVE  Drawn'
  <1> DEFINE q == called
             p == called'
             f == FirstOf(ColsOf(q))
  <1>1. /\ q # <<>> /\ game' = Undone /\ cards' = cards /\ Done(s)
        /\ p = SubSeq(q, 1, Len(q) - 1)
    BY DEF Undo, Undoable
  <1>2. ~ Closed /\ game.status # "LOBBY" /\ Started
    BY <1>1 DEF Lifecycle, Started
  <1>3. q \in Seq(Numbers)
    BY DEF Typed
  <1>4. RowRule(game, q) /\ ColRule(game, q) /\ Distinct
    BY <1>2 DEF Drawn
  <1>5. /\ Len(q) \in Nat \ {0} /\ Len(p) = Len(q) - 1
        /\ \A i \in 1..Len(p) : p[i] = q[i] /\ PrefixOf(p, i) = PrefixOf(q, i)
        /\ \A mode : LinesOf(p, mode) = LinesOf(q, mode) \ {Len(q)}
    <2> HIDE DEF q, p
    <2>1. QED
      BY <1>1, <1>3, UndoLines
  <1>6. /\ Undone.status = (IF UndoesRow THEN "RUNNING" ELSE game.status)
        /\ Undone.colPaid = (IF UndoesShare \/ UndoesCol THEN FALSE ELSE game.colPaid)
        /\ Undone.payout.row = (IF UndoesRow THEN None ELSE game.payout.row)
        /\ Undone.payout.col = (IF UndoesShare \/ UndoesCol THEN None ELSE game.payout.col)
        /\ Undone.colAmount = game.colAmount
    BY UndoneFields
  <1>7. RowsOf(p) = {} /\ (RowsOf(q) = {} \/ RowsOf(q) = {Len(q)})
    BY <1>4, <1>5 DEF RowRule, RowsOf
  <1>8. LinesOf(q, "COL") \subseteq 1..Len(q) /\ ColsOf(q) \subseteq LinesOf(q, "COL")
    BY DEF LinesOf, ColsOf
  <1>9. ColsOf(p) = ColsOf(q) \ {Len(q)}
    <2>1. ColsOf(p) = LinesOf(q, "COL") \ {Len(q)}
      BY <1>5, <1>7 DEF ColsOf
    <2>2. CASE RowsOf(q) = {}
      BY <2>1, <2>2 DEF ColsOf
    <2>3. CASE RowsOf(q) = {Len(q)}
      <3>1. \A i \in LinesOf(q, "COL") : i < Len(q) <=> i # Len(q)
        BY <1>5, <1>8
      <3>2. QED
        BY <2>1, <2>3, <3>1 DEF ColsOf
    <2>4. QED
      BY <1>7, <2>2, <2>3
  <1>10. UndoesRow <=> RowsOf(q) # {}
    BY <1>4 DEF UndoesRow, RowRule, LastCalled
  <1>11. RowRule(game', p)
    BY <1>1, <1>4, <1>6, <1>7, <1>10 DEF RowRule
  <1>12. ColsOf(q) # {} => /\ f \in ColsOf(q) /\ f \in 1..Len(q) /\ f \in Nat
                          /\ \A j \in ColsOf(q) : f <= j /\ j <= Len(q) /\ j \in Nat
    <2>1. ColsOf(q) \in SUBSET Nat /\ \A j \in ColsOf(q) : j \in 1..Len(q)
      BY <1>5, <1>8
    <2> HIDE DEF q
    <2>2. QED
      BY <2>1, FirstIsFirst
  <1>13. UndoesShare \/ UndoesCol <=> game.colPaid /\ ColsOf(p) = {}
    <2>1. CASE RowsOf(q) # {}
      <3>1. UndoesRow /\ ~ UndoesCol /\ game.colPaid
        BY <1>4, <1>10, <2>1 DEF UndoesCol, ColRule
      <3>2. ColsOf(p) = ColsOf(q)
        <4>1. Len(q) \notin ColsOf(q)
          BY <1>5, <1>7, <2>1 DEF ColsOf
        <4>2. QED
          BY <1>9, <4>1
      <3>3. UndoesShare <=> ColsOf(q) = {}
        BY <1>4, <2>1, <3>1 DEF UndoesShare, RowRule, ColRule, Column
      <3>4. QED
        BY <3>1, <3>2, <3>3
    <2>2. CASE RowsOf(q) = {} /\ ColsOf(q) = {}
      <3>1. ~ UndoesRow /\ ~ game.colPaid
        BY <1>4, <1>10, <2>2 DEF ColRule
      <3>2. QED
        BY <3>1 DEF UndoesShare, UndoesCol
    <2>3. CASE RowsOf(q) = {} /\ ColsOf(q) # {}
      <3>1. ~ UndoesRow /\ game.colPaid /\ Column(game, q, f)
        BY <1>4, <1>10, <2>3 DEF ColRule
      <3>2. ~ UndoesShare /\ (UndoesCol <=> q[f] = q[Len(q)])
        BY <3>1 DEF UndoesShare, UndoesCol, Column, LastCalled
      <3>3. q[f] = q[Len(q)] <=> f = Len(q)
        BY <1>4, <1>5, <1>12, <2>3 DEF Distinct
      <3>4. f = Len(q) <=> ColsOf(q) \ {Len(q)} = {}
        <4>1. f = Len(q) => \A j \in ColsOf(q) : j = Len(q)
          BY <1>5, <1>12, <2>3
        <4>2. f # Len(q) => f \in ColsOf(q) \ {Len(q)}
          BY <1>12, <2>3
        <4>3. QED
          BY <4>1, <4>2
      <3>5. QED
        BY <1>9, <3>1, <3>2, <3>3, <3>4
    <2>4. QED
      BY <2>1, <2>2, <2>3
  <1>14. ColRule(game', p)
    <2>1. CASE ColsOf(p) = {}
      <3>1. ~ game'.colPaid /\ game'.payout.col = None
        <4>1. CASE game.colPaid
          BY <1>1, <1>6, <1>13, <2>1, <4>1
        <4>2. CASE ~ game.colPaid
          <5>1. game.payout.col = None
            BY <1>4, <4>2 DEF ColRule
          <5>2. QED
            BY <1>1, <1>6, <1>13, <4>2, <5>1
        <4>3. QED
          BY <4>1, <4>2
      <3>2. QED
        BY <1>7, <2>1, <3>1 DEF ColRule
    <2>2. CASE ColsOf(p) # {}
      <3>1. ColsOf(q) # {} /\ game.colPaid /\ Column(game, q, f)
        BY <1>4, <1>9, <2>2 DEF ColRule
      <3>2. game'.colPaid /\ game'.payout.col = game.payout.col /\ game'.colAmount = game.colAmount
        BY <1>1, <1>6, <1>13, <2>2, <3>1
      <3>3. f \in ColsOf(p) /\ f \in 1..Len(p)
        <4>1. PICK j \in ColsOf(q) : j # Len(q)
          BY <1>9, <2>2
        <4>2. f # Len(q)
          BY <1>5, <1>12, <4>1
        <4>3. QED
          BY <1>5, <1>9, <1>12, <3>1, <4>2
      <3>4. FirstOf(ColsOf(p)) = f
        <4>1. ColsOf(p) \in SUBSET Nat /\ \A j \in ColsOf(p) : f <= j
          BY <1>9, <1>12, <3>1
        <4> HIDE DEF f, p
        <4>2. QED
          BY <3>3, <4>1, FirstIsFirst
      <3>5. Column(game', p, f)
        BY <1>5, <3>1, <3>2, <3>3 DEF Column
      <3>6. QED
        BY <1>7, <2>2, <3>2, <3>4, <3>5 DEF ColRule
    <2>3. QED
      BY <2>1, <2>2
  <1>15. Distinct'
    <2>1. \A i \in 1..Len(p) : i \in 1..Len(q)
      BY <1>5
    <2>2. QED
      BY <1>4, <1>5, <2>1 DEF Distinct
  <1>16. Current'
    BY <1>1, NothingUnderWay
  <1>17. QED
    BY <1>1, <1>11, <1>14, <1>15, <1>16, RulesPrimed

\* A game starts with an empty board.
LEMMA StartRules ==
    ASSUME OneAtATime, Typed, Lifecycle, Drawn, NEW s \in Slots, Start(s)
    PROVE  Drawn'
  <1>1. /\ req[s] # Idle /\ Row(s) = game /\ \A row : Flushed(s, row) = row
    BY LockedRow DEF Start, Lifecycle
  <1>2. /\ game.status = "LOBBY" /\ game' = Running(game)
        /\ cards' = cards /\ called' = called /\ Done(s)
    BY <1>1 DEF Start
  <1>3. called = <<>> /\ \A m : LinesOf(called, m) = {}
    BY <1>2 DEF Lifecycle, LinesOf
  <1>4. RowsOf(called) = {} /\ ColsOf(called) = {}
    BY <1>3 DEF RowsOf, ColsOf
  <1>5. /\ game'.status = "RUNNING" /\ game'.colPaid = FALSE
        /\ game'.payout = [row |-> None, col |-> None]
    BY <1>2 DEF Running, Typed, RowOK, GameRow
  <1>6. RowRule(game', called') /\ ColRule(game', called')
    BY <1>2, <1>4, <1>5 DEF RowRule, ColRule
  <1>7. Current' /\ Distinct'
    BY <1>2, NothingUnderWay DEF Drawn, Distinct
  <1>8. QED
    BY <1>2, <1>6, <1>7, RulesPrimed

\* A step that leaves the game alone.
LEMMA KeepsDrawn ==
    ASSUME Drawn, Current', UNCHANGED <<game, cards, called>>, Closed' <=> Closed
    PROVE  Drawn'
  <1>1. Started' <=> Started
    BY DEF Started
  <1>2. Distinct'
    BY DEF Drawn, Distinct
  <1>3. Started' => RowRule(game', called') /\ ColRule(game', called')
    BY <1>1 DEF Drawn
  <1>4. QED
    BY <1>2, <1>3, RulesPrimed

\* A request reads the board as it begins, and nothing is called before it is over.
LEMMA BeginDrawn ==
    ASSUME Typed, Drawn, NEW s \in Slots,
           \/ \E u \in Users, qty \in 1..MaxQty, k \in BuyKeys : BeginBuy(s, u, qty, k)
           \/ \E route \in Routes : BeginStart(s, route)
           \/ BeginClose(s)
           \/ \E route \in Routes, n \in Numbers, k \in CallKeys : BeginCall(s, route, n, k)
           \/ \E k \in UndoKeys : BeginUndo(s, k)
    PROVE  Drawn'
  <1>1. UNCHANGED <<game, cards, called, events>>
    BY DEF BeginBuy, BeginStart, BeginClose, BeginCall, BeginUndo
  <1>2. \A t \in Slots : t # s => req'[t] = req[t]
    BY DEF BeginBuy, BeginStart, BeginClose, BeginCall, BeginUndo, Typed
  <1>3. req'[s].op = "call" => req'[s].board = Board /\ req'[s].ncards = Len(cards)
    BY DEF BeginBuy, BeginStart, BeginClose, BeginCall, BeginUndo, Typed
  <1>4. Current'
    <2>1. Board' = Board /\ Len(cards)' = Len(cards)
      BY <1>1 DEF Board
    <2>2. QED
      BY <1>2, <1>3, <2>1 DEF Drawn, Current
  <1>5. QED
    BY <1>1, <1>4, KeepsDrawn DEF Closed

LEMMA StepDrawn ==
    ASSUME OneAtATime, Typed, Lifecycle, Pot, Drawn, [Next]_vars
    PROVE  Drawn'
  <1>1. ASSUME UNCHANGED <<game, cards, called, events, req>> PROVE Drawn'
    <2>1. Current'
      BY <1>1 DEF Drawn, Current, Board
    <2>2. QED
      BY <1>1, <2>1, KeepsDrawn DEF Closed
  <1>2. ASSUME NEW s \in Slots, Drop(s) \/ CallLost(s) \/ UndoLost(s) PROVE Drawn'
    <2>1. UNCHANGED <<game, cards, called, events>> /\ Done(s)
      BY <1>2 DEF Drop, CallLost, UndoLost
    <2>2. QED
      BY <2>1, NothingUnderWay, KeepsDrawn DEF Closed
  <1>3. ASSUME SelectManual PROVE Drawn'
    <2>1. game'.status = "LOBBY" /\ UNCHANGED <<cards, called, req>>
      BY <1>3 DEF SelectManual, Typed, RowOK, GameRow
    <2>2. Current' /\ Distinct'
      BY <2>1 DEF Drawn, Current, Distinct, Board
    <2>3. QED
      BY <2>1, <2>2, RulesPrimed DEF Started
  <1>4. ASSUME NEW s \in Slots, Buy(s) PROVE Drawn'
    <2>1. game'.status = "LOBBY" /\ called' = called /\ Done(s)
      BY <1>4 DEF Buy, OnSale, Typed, RowOK, GameRow
    <2>2. Current' /\ Distinct' /\ ~ Started'
      BY <2>1, NothingUnderWay DEF Drawn, Distinct, Started
    <2>3. QED
      BY <2>2 DEF Drawn
  <1>5. ASSUME NEW s \in Slots, Close(s) PROVE Drawn'
    <2>1. Closed' /\ called' = called /\ cards' = cards /\ Done(s)
      BY <1>5 DEF Close, Closed
    <2>2. Current' /\ Distinct' /\ ~ Started'
      BY <2>1, NothingUnderWay DEF Drawn, Distinct, Started
    <2>3. QED
      BY <2>2 DEF Drawn
  <1>6. \/ UNCHANGED <<game, cards, called, events, req>>
        \/ SelectManual
        \/ \E s \in Slots :
              \/ \E u \in Users, qty \in 1..MaxQty, k \in BuyKeys : BeginBuy(s, u, qty, k)
              \/ \E route \in Routes : BeginStart(s, route)
              \/ BeginClose(s)
              \/ \E route \in Routes, n \in Numbers, k \in CallKeys : BeginCall(s, route, n, k)
              \/ \E k \in UndoKeys : BeginUndo(s, k)
              \/ Drop(s) \/ CallLost(s) \/ UndoLost(s)
              \/ Buy(s) \/ Start(s) \/ Close(s) \/ Call(s) \/ Undo(s)
    BY DEF Next, vars, Withdraw
  <1>7. QED
    BY <1>1, <1>2, <1>3, <1>4, <1>5, <1>6, BeginDrawn, StartRules, CallRules, UndoRules

LEMMA DrawnHolds ==
    OneAtATime /\ "tg" \notin Routes => (Spec => []Drawn)
  <1> SUFFICES ASSUME OneAtATime, "tg" \notin Routes PROVE Spec => []Drawn
    OBVIOUS
  <1>1. Init => Drawn
    <2> SUFFICES ASSUME Init PROVE Drawn
      OBVIOUS
    <2>1. game.status = "LOBBY" /\ called = <<>> /\ \A s \in Slots : req[s] = Idle
      BY DEF Init
    <2>2. QED
      BY <2>1 DEF Drawn, Current, Distinct, Started
  <1>2. Typed /\ Lifecycle /\ Pot /\ Drawn /\ [Next]_vars => Drawn'
    BY StepDrawn
  <1>3. QED
    BY <1>1, <1>2, TypedHolds, LifecycleHolds, PotHolds, PTL DEF Spec

\* With one request at a time the payout state is the one that the numbers on the board
\* determine, after any calls and undos, lost ones included: the first row ends
\* the game and is won by all the cards that have it, a column before it wins its own bucket,
\* and each bucket is paid to the last unit (_check_and_payout, game_service.py:940).
THEOREM BoardDecides == OneAtATime /\ "tg" \notin Routes => (Spec => []PayoutOfBoard)
  <1>1. Drawn => PayoutOfBoard
    BY DrawnIsPayout
  <1>2. QED
    BY <1>1, DrawnHolds, PTL
=============================================================================
