-------------------------------- MODULE Game --------------------------------
(***************************************************************************)
(* One davarna game: the lobby and its sales, the start, the numbers an    *)
(* administrator calls and takes back, the prizes and the refunds          *)
(* (services/game_service.py with the routes that call it).                *)
(*                                                                         *)
(* A request is a database transaction in two steps, as in Wallet.tla:     *)
(* Begin* is what the route does before it asks for the lock of the games  *)
(* row (authorisation, the lookup in the Redis cache), and it fixes the    *)
(* snapshot of every later plain read; Buy, Start, Close, Call and Undo    *)
(* run under the row lock and commit.  CallLost and UndoLost reach the end *)
(* of the service, where the answer is cached in Redis, and lose the       *)
(* commit that follows.  Drop is every other way to end without effect.    *)
(*                                                                         *)
(* Routes "bot" stands for the routes of the bot, the Mini App and         *)
(* game_router, "tg" for tg_router.py, which loads the games row before    *)
(* the service locks it, keeps the object and so works on a stale row.     *)
(*                                                                         *)
(* The modes AUTO and the worker that draws are left to another module:    *)
(* here the draw mode is MANUAL once it is selected.                       *)
(***************************************************************************)
EXTENDS Ledger, Sequences

CONSTANTS
    Users,          \* players
    Numbers,        \* the numbers that can be called, 1..max_number
    RowCount,       \* rows of a card (DEFAULT_ROWS)
    ColCount,       \* columns of a card (DEFAULT_COLS)
    Grids,          \* the layouts a card can get; one fingerprint each
    Price,          \* card_price
    MaxQty,         \* max_cards_per_purchase
    BuyKeys,        \* idempotency keys of purchases
    CallKeys,       \* idempotency keys of calls
    UndoKeys,       \* idempotency keys of undos
    Opening,        \* the transactions that funded the players beforehand
    Withdrawals,    \* amounts other components take from a wallet meanwhile
    Slots,          \* the requests the server handles at the same time
    Routes,         \* the routes in use
    None, Idle

ASSUME GameAssumption ==
    /\ Numbers \subseteq Nat
    /\ RowCount \in Nat \ {0}
    /\ ColCount \in Nat \ {0}
    /\ Grids \subseteq [1..RowCount -> [1..ColCount -> Numbers]]
    /\ Price \in Nat \ {0}
    /\ MaxQty \in Nat \ {0}
    /\ Withdrawals \subseteq Nat \ {0}
    /\ Routes \subseteq {"bot", "tg"}

VARIABLES
    game,       \* the games row
    purchases,  \* game_purchases, the id is the position
    cards,      \* game_cards, the id is the position
    called,     \* game_called_numbers in the order of their ids
    ledger,     \* wallet_txs
    events,     \* idempotency keys of game_events
    cache,      \* answers to calls and undos cached in Redis
    req         \* req[s]: the request in slot s

vars == <<game, purchases, cards, called, ledger, events, cache, req>>

Ref(kind, ref) == [kind |-> kind, ref |-> ref]

Board == {called[i] : i \in 1..Len(called)}

-----------------------------------------------------------------------------
(* Amounts.  _round_int rounds half up. *)

\* Variant: the rate as a percentage.
CommissionPercent(total) == 10 * total
Commission(total) == (total + 5) \div 10
ColBucket(pool)   == (2 * pool + 3) \div 6

\* Variant: both buckets rounded down.
RowBucketDown(pool) == (2 * pool) \div 3
RowBucket(pool)     == pool - ColBucket(pool)

\* _split_equal over the winning cards in the order of their ids: the first
\* ones get the remainder.
Share(total, winners, c) ==
    LET n == Cardinality(winners)
    IN  total \div n
        + (IF Cardinality({d \in winners : d < c}) < total % n THEN 1 ELSE 0)

(* check_line *)
Line(grid, board, mode) ==
    \/ /\ mode = "ROW"
       /\ \E r \in 1..RowCount : \A c \in 1..ColCount : grid[r][c] \in board
    \/ /\ mode = "COL"
       /\ \E c \in 1..ColCount : \A r \in 1..RowCount : grid[r][c] \in board

\* _winner_cards among the first n cards.
Winners(n, board, mode) == {c \in 1..n : Line(cards[c].grid, board, mode)}

Pays(total, winners) ==
    {[card |-> c, user |-> cards[c].user, amount |-> Share(total, winners, c)] :
        c \in winners}

\* The transactions of a prize or of its reversal; a zero share posts nothing.
Prizes(kind, pays) ==
    {Tx(p.user, Ref(kind, p.card), p.amount) : p \in {q \in pays : q.amount > 0}}
Reversals(kind, n, pays) ==
    {Tx(p.user, Ref(kind, <<n, p.card>>), - p.amount) : p \in {q \in pays : q.amount > 0}}

-----------------------------------------------------------------------------
(* Requests *)

\* tg_router works on the object it loaded; everyone else on the locked row.
Row(s) == IF req[s].route = "tg" THEN req[s].loaded ELSE game

\* SQLAlchemy writes the columns that differ from what was loaded.
Flushed(s, row) ==
    IF req[s].route = "tg"
    THEN [f \in DOMAIN game |-> IF row[f] # req[s].loaded[f] THEN row[f] ELSE game[f]]
    ELSE row

Done(s) == req' = [req EXCEPT ![s] = Idle]

\* The rows of the ledger a request of this kind may look up.
Known(kinds) == {t \in ledger : t.key.kind \in kinds}

BeginBuy(s, u, qty, k) ==
    /\ req[s] = Idle
    /\ req' = [req EXCEPT ![s] =
         [op |-> "buy", route |-> "bot", user |-> u, qty |-> qty, key |-> k,
          known |-> Known({"BUY"})]]
    /\ UNCHANGED <<game, purchases, cards, called, ledger, events, cache>>

BeginStart(s, route) ==
    /\ req[s] = Idle
    /\ route = "tg" => game.status \in {"LOBBY", "RUNNING"}
    /\ req' = [req EXCEPT ![s] =
         [op |-> "start", route |-> route,
          loaded |-> IF route = "tg" THEN game ELSE None]]
    /\ UNCHANGED <<game, purchases, cards, called, ledger, events, cache>>

BeginClose(s) ==
    /\ req[s] = Idle
    /\ req' = [req EXCEPT ![s] = [op |-> "close", route |-> "bot"]]
    /\ UNCHANGED <<game, purchases, cards, called, ledger, events, cache>>

Cached(op, k) == \E e \in cache : e.op = op /\ e.key = k

BeginCall(s, route, n, k) ==
    /\ req[s] = Idle
    /\ ~ Cached("call", k)
    /\ route = "tg" => game.status \in {"LOBBY", "RUNNING"}
    /\ req' = [req EXCEPT ![s] =
         [op |-> "call", route |-> route, number |-> n, key |-> k,
          board |-> Board, ncards |-> Len(cards),
          known |-> Known({"PRIZE_ROW", "PRIZE_COL"}),
          loaded |-> IF route = "tg" THEN game ELSE None]]
    /\ UNCHANGED <<game, purchases, cards, called, ledger, events, cache>>

BeginUndo(s, k) ==
    /\ req[s] = Idle
    /\ ~ Cached("undo", k)
    /\ req' = [req EXCEPT ![s] =
         [op |-> "undo", route |-> "bot", key |-> k,
          known |-> Known({"UNDO_ROW", "UNDO_COL"})]]
    /\ UNCHANGED <<game, purchases, cards, called, ledger, events, cache>>

Drop(s) ==
    /\ req[s] # Idle
    /\ Done(s)
    /\ UNCHANGED <<game, purchases, cards, called, ledger, events, cache>>

-----------------------------------------------------------------------------
(* The lobby *)

\* GameDrawModeService.select_mode with mode MANUAL: it reads the locked row.
SelectManual ==
    /\ game.status = "LOBBY"
    /\ ~ game.modeLocked
    /\ called = <<>>
    /\ game.mode # "MANUAL"
    /\ game' = [game EXCEPT !.mode = "MANUAL"]
    /\ UNCHANGED <<purchases, cards, called, ledger, events, cache, req>>

\* The layouts of qty new cards: none is on a card of this game, and no two
\* are equal (UNIQUE(game_id, fingerprint) with a retry per card).
Hands(qty) ==
    LET free == Grids \ {cards[i].grid : i \in 1..Len(cards)}
    IN  {h \in [1..qty -> free] : \A i, j \in 1..qty : h[i] = h[j] => i = j}

\* Variant: a purchase that does not look at the locked row.
OnSaleAlways == TRUE
OnSale == game.status = "LOBBY" /\ ~ game.locked

\* buy_cards
Buy(s) ==
    /\ req[s] # Idle
    /\ req[s].op = "buy"
    /\ OnSale
    /\ LET r     == req[s]
           total == Price * r.qty
           debit == {Tx(r.user, Ref("BUY", r.key), - total)}
           id    == Len(purchases) + 1
       IN  /\ ~ HasTx(r.known, r.user, Ref("BUY", r.key))
           /\ ~ HasTx(ledger, r.user, Ref("BUY", r.key))
           /\ Affordable(ledger, debit)
           /\ ledger' = Posted(ledger, debit)
           /\ purchases' = Append(purchases, [user |-> r.user, total |-> total])
           /\ \E h \in Hands(r.qty) :
                cards' = cards \o [i \in 1..r.qty |->
                            [grid |-> h[i], user |-> r.user, purchase |-> id]]
           /\ game' = [game EXCEPT
                         !.sold = @ + total,
                         !.commission = @ + Commission(total),
                         !.pool = game.sold + total - (game.commission + Commission(total))]
           /\ events' = events \cup {Ref("CARDS_PURCHASED", id)}
    /\ Done(s)
    /\ UNCHANGED <<called, cache>>

\* start_game; a game that is not in the lobby is returned as it is (Drop).
Running(g) ==
    [g EXCEPT
       !.colAmount = ColBucket(g.pool),
       !.rowAmount = RowBucket(g.pool),
       !.colPaid = FALSE,
       !.payout = [row |-> None, col |-> None],
       !.locked = TRUE,
       !.modeLocked = TRUE,
       !.status = "RUNNING"]

Start(s) ==
    /\ req[s] # Idle
    /\ req[s].op = "start"
    /\ LET g == Row(s)
       IN  /\ g.status = "LOBBY"
           /\ ~ g.locked
           /\ g.mode = "MANUAL"
           /\ g.sold > 0
           /\ game' = Flushed(s, Running(g))
    /\ events' = events \cup {Ref("GAME_STARTED", 0)}
    /\ Done(s)
    /\ UNCHANGED <<purchases, cards, called, ledger, cache>>

\* close_lobby_game
Close(s) ==
    /\ req[s] # Idle
    /\ req[s].op = "close"
    /\ game.status = "LOBBY"
    /\ called = <<>>
    /\ ledger' = Posted(ledger,
                    {Tx(purchases[i].user, Ref("LOBBY_REFUND", i), purchases[i].total) :
                        i \in 1..Len(purchases)})
    /\ game' = [game EXCEPT
                  !.sold = 0, !.commission = 0, !.pool = 0,
                  !.colAmount = 0, !.rowAmount = 0, !.colPaid = FALSE,
                  !.locked = FALSE, !.payout = [row |-> None, col |-> None],
                  !.status = "ENDED"]
    /\ events' = events \cup {Ref("GAME_LOBBY_CLOSED", 0)}
    /\ Done(s)
    /\ UNCHANGED <<purchases, cards, called, cache>>

-----------------------------------------------------------------------------
(* The draw *)

\* The winners of a call.  The board and the cards are plain reads: the
\* snapshot and the number this request has inserted itself.
RowWinners(s) ==
    IF Row(s).payout.row # None THEN {}
    ELSE Winners(req[s].ncards, req[s].board \cup {req[s].number}, "ROW")
ColWinners(s) ==
    IF Row(s).colPaid THEN {}
    ELSE Winners(req[s].ncards, req[s].board \cup {req[s].number}, "COL")

\* Variant: the row takes the column bucket along although it has been paid.
RowTotalWhole(g) == g.rowAmount + g.colAmount
RowTotal(g) == g.rowAmount + (IF g.colPaid THEN 0 ELSE g.colAmount)

\* _check_and_payout: a row wins first and ends the game; it takes the column
\* bucket along when no column has been paid.
RowPayout(g, n, winners) ==
    [g EXCEPT
       !.status = "ENDED",
       !.colPaid = TRUE,
       !.payout =
          [row |-> [pays |-> Pays(RowTotal(g), winners), call |-> n, withCol |-> ~ g.colPaid],
           col |-> IF g.colPaid THEN g.payout.col
                   ELSE [pays |-> Pays(g.colAmount, winners), call |-> n, absorbed |-> TRUE]]]
ColPayout(g, n, winners) ==
    [g EXCEPT
       !.colPaid = TRUE,
       !.payout.col = [pays |-> Pays(g.colAmount, winners), call |-> n, absorbed |-> FALSE]]

\* What a call does to the games row, to the ledger and to the events.
Outcome(s) ==
    LET g == Row(s)
        n == req[s].number
        rowW == RowWinners(s)
        colW == ColWinners(s)
    IN  IF rowW # {} THEN
          [game |-> RowPayout(g, n, rowW),
           orders |-> Prizes("PRIZE_ROW", Pays(RowTotal(g), rowW)),
           events |-> {Ref("PRIZE_ROW", 0), Ref("GAME_ENDED", 0)}]
        ELSE IF colW # {} THEN
          [game |-> ColPayout(g, n, colW),
           orders |-> Prizes("PRIZE_COL", Pays(g.colAmount, colW)),
           events |-> {Ref("PRIZE_COL", 0)}]
        ELSE [game |-> g, orders |-> {}, events |-> {}]

\* Variant: a call that does not look at the status of the locked row.
DrawingAlways(s) == ~ (Row(s).modeLocked /\ Row(s).mode = "AUTO")
Drawing(s) ==
    /\ Row(s).status = "RUNNING"
    /\ ~ (Row(s).modeLocked /\ Row(s).mode = "AUTO")

\* call_number up to the point where its answer is cached.
Callable(s) ==
    /\ req[s] # Idle
    /\ req[s].op = "call"
    /\ Drawing(s)
    /\ req[s].number \notin req[s].board
    /\ req[s].number \notin Board
    /\ Insertable(ledger, req[s].known, Outcome(s).orders)

CacheAnswer(op, k, n) == cache' = cache \cup {[op |-> op, key |-> k, number |-> n]}

Call(s) ==
    /\ Callable(s)
    /\ called' = Append(called, req[s].number)
    /\ game' = Flushed(s, Outcome(s).game)
    /\ ledger' = Posted(ledger, Outcome(s).orders)
    /\ events' = events \cup {Ref("NUMBER_CALLED", req[s].number)} \cup Outcome(s).events
    /\ CacheAnswer("call", req[s].key, req[s].number)
    /\ Done(s)
    /\ UNCHANGED <<purchases, cards>>

CallLost(s) ==
    /\ Callable(s)
    /\ CacheAnswer("call", req[s].key, req[s].number)
    /\ Done(s)
    /\ UNCHANGED <<game, purchases, cards, called, ledger, events>>

LastCalled == called[Len(called)]

UndoesRow == game.payout.row # None /\ game.payout.row.call = LastCalled
UndoesCol ==
    /\ ~ UndoesRow
    /\ game.colPaid
    /\ game.payout.col # None
    /\ game.payout.col.call = LastCalled

\* Variant: the column stays marked as paid when the row goes back.
UndoesShareNever == FALSE

\* The column share goes back together with the row that absorbed it.
UndoesShare ==
    /\ UndoesRow
    /\ \/ game.payout.row.withCol
       \/ /\ game.payout.col # None
          /\ game.payout.col.absorbed
          /\ game.payout.col.call = LastCalled

Undone ==
    [game EXCEPT
       !.status  = IF UndoesRow THEN "RUNNING" ELSE @,
       !.colPaid = IF UndoesShare \/ UndoesCol THEN FALSE ELSE @,
       !.payout  = [row |-> IF UndoesRow THEN None ELSE @.row,
                    col |-> IF UndoesShare \/ UndoesCol THEN None ELSE @.col]]

UndoOrders ==
    IF UndoesRow THEN Reversals("UNDO_ROW", LastCalled, game.payout.row.pays)
    ELSE IF UndoesCol THEN Reversals("UNDO_COL", LastCalled, game.payout.col.pays)
    ELSE {}

\* Variant of Undoable that debits without looking at the balance.
UndoableOverdraft(s) ==
    /\ req[s] # Idle
    /\ req[s].op = "undo"
    /\ called # <<>>
    /\ Insertable(ledger, req[s].known, UndoOrders)

\* undo_last_call up to the point where its answer is cached.  A winner who
\* has spent the prize makes the whole undo fail.
Undoable(s) ==
    /\ req[s] # Idle
    /\ req[s].op = "undo"
    /\ ~ (game.modeLocked /\ game.mode = "AUTO")
    /\ called # <<>>
    /\ Insertable(ledger, req[s].known, UndoOrders)
    /\ Affordable(ledger, UndoOrders)

Undo(s) ==
    /\ Undoable(s)
    /\ called' = SubSeq(called, 1, Len(called) - 1)
    /\ game' = Undone
    /\ ledger' = Posted(ledger, UndoOrders)
    /\ events' = events \cup {Ref("NUMBER_UNDONE", <<LastCalled, req[s].key>>)}
    /\ CacheAnswer("undo", req[s].key, LastCalled)
    /\ Done(s)
    /\ UNCHANGED <<purchases, cards>>

UndoLost(s) ==
    /\ Undoable(s)
    /\ CacheAnswer("undo", req[s].key, LastCalled)
    /\ Done(s)
    /\ UNCHANGED <<game, purchases, cards, called, ledger, events>>

\* Another component debits a player: an approved withdrawal, at most one of
\* each amount.
Withdraw(u, a) ==
    LET debit == {Tx(u, Ref("WITHDRAW", a), - a)}
    IN  /\ NewTxs(ledger, debit) # {}
        /\ Affordable(ledger, debit)
        /\ ledger' = Posted(ledger, debit)
        /\ UNCHANGED <<game, purchases, cards, called, events, cache, req>>

-----------------------------------------------------------------------------
\* create_game has committed: an empty lobby.
Init ==
    /\ game = [status |-> "LOBBY", mode |-> "NONE", modeLocked |-> FALSE,
               sold |-> 0, commission |-> 0, pool |-> 0, locked |-> FALSE,
               colAmount |-> 0, rowAmount |-> 0, colPaid |-> FALSE,
               payout |-> [row |-> None, col |-> None]]
    /\ purchases = <<>>
    /\ cards = <<>>
    /\ called = <<>>
    /\ ledger = Opening
    /\ events = {Ref("GAME_CREATED", 0)}
    /\ cache = {}
    /\ req = [s \in Slots |-> Idle]

Next ==
    \/ SelectManual
    \/ \E u \in Users, a \in Withdrawals : Withdraw(u, a)
    \/ \E s \in Slots :
         \/ \E u \in Users, qty \in 1..MaxQty, k \in BuyKeys : BeginBuy(s, u, qty, k)
         \/ \E route \in Routes : BeginStart(s, route)
         \/ BeginClose(s)
         \/ \E route \in Routes, n \in Numbers, k \in CallKeys : BeginCall(s, route, n, k)
         \/ \E k \in UndoKeys : BeginUndo(s, k)
         \/ Drop(s)
         \/ Buy(s)
         \/ Start(s)
         \/ Close(s)
         \/ Call(s)
         \/ CallLost(s)
         \/ Undo(s)
         \/ UndoLost(s)

Spec == Init /\ [][Next]_vars
-----------------------------------------------------------------------------
(* Types *)

PrizeKinds == {"PRIZE_ROW", "PRIZE_COL"}
UndoKinds  == {"UNDO_ROW", "UNDO_COL"}
CardIds    == Nat \ {0}

TxKey ==
    [kind : {"OPENING"}, ref : {0}]
    \cup [kind : {"BUY"}, ref : BuyKeys]
    \cup [kind : PrizeKinds \cup {"LOBBY_REFUND"}, ref : CardIds]
    \cup [kind : UndoKinds, ref : Numbers \X CardIds]
    \cup [kind : {"WITHDRAW"}, ref : Withdrawals]
TxRecord == [user : Users, key : TxKey, amount : Int]

\* The players come with money: a finite ledger that overdraws nobody.
ASSUME OpeningAssumption ==
    /\ Opening \subseteq TxRecord
    /\ IsFiniteSet(Opening)
    /\ \A t \in Opening : t.key.kind = "OPENING"
    /\ \A u \in Users : Balance(Opening, u) >= 0

Pay == [card : CardIds, user : Users, amount : Nat]
RowPayment == [pays : SUBSET Pay, call : Numbers, withCol : BOOLEAN]
ColPayment == [pays : SUBSET Pay, call : Numbers, absorbed : BOOLEAN]
Payout     == [row : {None} \cup RowPayment, col : {None} \cup ColPayment]

\* The mark of a payout that has not taken place is no payout.
ASSUME NoneAssumption == None \notin RowPayment /\ None \notin ColPayment

GameRow ==
    [status : {"LOBBY", "RUNNING", "ENDED"}, mode : {"NONE", "MANUAL"},
     modeLocked : BOOLEAN, sold : Nat, commission : Nat, pool : Nat,
     locked : BOOLEAN, colAmount : Nat, rowAmount : Nat, colPaid : BOOLEAN,
     payout : Payout]
Request ==
    [op : {"buy"}, route : {"bot"}, user : Users, qty : 1..MaxQty, key : BuyKeys,
     known : SUBSET TxRecord]
    \cup [op : {"start"}, route : Routes, loaded : GameRow \cup {None}]
    \cup [op : {"close"}, route : {"bot"}]
    \cup [op : {"call"}, route : Routes, number : Numbers, key : CallKeys,
          board : SUBSET Numbers, ncards : Nat, known : SUBSET TxRecord,
          loaded : GameRow \cup {None}]
    \cup [op : {"undo"}, route : {"bot"}, key : UndoKeys, known : SUBSET TxRecord]

TypeOK ==
    /\ game \in GameRow
    /\ purchases \in Seq([user : Users, total : Nat \ {0}])
    /\ cards \in Seq([grid : Grids, user : Users, purchase : CardIds])
    /\ called \in Seq(Numbers)
    /\ ledger \in SUBSET TxRecord
    /\ cache \subseteq [op : {"call"}, key : CallKeys, number : Numbers]
                   \cup [op : {"undo"}, key : UndoKeys, number : Numbers]
    /\ req \in [Slots -> Request \cup {Idle}]

-----------------------------------------------------------------------------
(* Properties *)

Closed     == Ref("GAME_LOBBY_CLOSED", 0) \in events
EndedByRow == game.status = "ENDED" /\ ~ Closed
Started    == game.status # "LOBBY" /\ ~ Closed

\* Every payment of the game, in whatever order purchases, the start, the
\* close, calls, undos and withdrawals commit, keeps the promise of the ledger:
\* it is appended once under its key and overdraws nobody.
Promise == INSTANCE LedgerSpec
LedgerKept == Promise!Spec

\* A purchase is refunded, in full and to its buyer, exactly when the lobby was
\* closed, and a game that refunds pays no prize: no race between a purchase,
\* the start and the close leaves a purchase unrefunded, refunds a game that
\* runs, or runs a game that refunded.
RefundXorPrize ==
    /\ \A i \in 1..Len(purchases) :
          Closed <=> Tx(purchases[i].user, Ref("LOBBY_REFUND", i), purchases[i].total) \in ledger
    /\ \A t \in ledger : t.key.kind = "LOBBY_REFUND" => Closed
    /\ Closed => /\ game.status = "ENDED"
                 /\ \A t \in ledger : t.key.kind \notin PrizeKinds

\* Until the lobby is closed the pot of the games row is what the wallets paid
\* for cards less a commission rounded per purchase, and the two prizes of a
\* started game add up to the pool (game_service.py:406, "We keep exact total").
PotMatchesSales == ~ Closed =>
    LET ids == 1..Len(purchases)
    IN  /\ game.sold = - NetOf(ledger, LAMBDA t : t.key.kind = "BUY")
        /\ game.sold = MapThenSumSet(LAMBDA i : purchases[i].total, ids)
        /\ game.commission = MapThenSumSet(LAMBDA i : Commission(purchases[i].total), ids)
        /\ game.pool = game.sold - game.commission
        /\ Started => game.rowAmount + game.colAmount = game.pool

\* Once the game has left the lobby nothing can change what was sold, the cards
\* that compete and the prizes they compete for.
SalesFrozen ==
    [][game.status # "LOBBY" =>
          /\ UNCHANGED <<purchases, cards>>
          /\ \A f \in {"pool", "rowAmount", "colAmount"} : game'[f] = game[f]]_vars

\* A game that was closed in the lobby is never started, called or reopened
\* (davarna-bot/bot/routers/admin_games.py:905).
ClosedForGood == [][Closed => UNCHANGED <<game, purchases, cards, called>>]_vars

PrizeNet == NetOf(ledger, LAMBDA t : t.key.kind \in PrizeKinds \cup UndoKinds)

\* However calls and undos overlap and repeat, the players never hold more
\* prize money of the game than its pool.
PrizesWithinPool == PrizeNet <= game.pool

\* The cards recorded as winners of a bucket.
CardsPaid(bucket) == {p.card : p \in bucket.pays}
SumPaid(bucket)   == MapThenSumSet(LAMBDA p : p.amount, bucket.pays)

\* The calls after which some card has a complete line of the mode.
Prefix(i)       == {called[j] : j \in 1..i}
Completed(mode) == {i \in 1..Len(called) : Winners(Len(cards), Prefix(i), mode) # {}}

\* The rule of _check_and_payout (game_service.py:940): after any history of
\* calls and undos by one administrator at a time, the payout state is the one
\* that the numbers still on the board determine.  The first complete row ends
\* the game and is won by every card that has one; the column bucket goes to
\* the cards with a column at the first call that completed one, if no row was
\* complete by then, and else to the row; each bucket is split to the last unit.
PayoutOfBoard == Started =>
    LET rows == Completed("ROW")
        cols == {i \in Completed("COL") : \A r \in rows : i < r}
        row  == game.payout.row
        col  == game.payout.col
        first(is) == CHOOSE i \in is : \A j \in is : i <= j
    IN  /\ game.status = IF rows = {} THEN "RUNNING" ELSE "ENDED"
        /\ row = None <=> rows = {}
        /\ row # None =>
              /\ rows = {Len(called)}
              /\ row.call = LastCalled
              /\ CardsPaid(row) = Winners(Len(cards), Board, "ROW")
              /\ SumPaid(row) = game.pool - (IF cols = {} THEN 0 ELSE game.colAmount)
        /\ game.colPaid <=> rows \cup cols # {}
        /\ cols # {} =>
              /\ col # None
              /\ ~ col.absorbed
              /\ col.call = called[first(cols)]
              /\ CardsPaid(col) = Winners(Len(cards), Prefix(first(cols)), "COL")
              /\ SumPaid(col) = game.colAmount
        /\ cols = {} /\ rows = {} => col = None

-----------------------------------------------------------------------------
(* What the code says and does not keep (README.md) *)

\* A game that a row has ended has paid its whole pool to the players
\* (game_service.py:404-406).
PaidInFull == EndedByRow => PrizeNet = game.pool

\* An undo takes back a prize that was paid: no card owes money for prizes
\* (game_service.py:842, "rollback row payouts").
NoCardOwes ==
    \A c \in 1..Len(cards) :
        NetOf(ledger, LAMBDA t :
            \/ t.key.kind \in PrizeKinds /\ t.key.ref = c
            \/ t.key.kind \in UndoKinds /\ t.key.ref[2] = c) >= 0

\* A running game has no card with a complete row: the call that completes it
\* ends the game (game_service.py:940, "row win ends game").
NoMissedRow == game.status = "RUNNING" => Winners(Len(cards), Board, "ROW") = {}

\* A row prize is paid for a row whose numbers are on the board.
WinnersHaveRow ==
    EndedByRow => CardsPaid(game.payout.row) \subseteq Winners(Len(cards), Board, "ROW")

\* The sold amount of a game is the sum of its purchases (the check
\* "games sold consistency" of the integrity report).
GamesSoldConsistent ==
    game.sold = MapThenSumSet(LAMBDA i : purchases[i].total, 1..Len(purchases))

\* A call that is answered from the cache has taken place.
AnsweredIsCalled ==
    \A e \in cache : e.op = "call" => Ref("NUMBER_CALLED", e.number) \in events
=============================================================================
