# Davarna in TLA+

Specifications of Davarna, a bingo ("tombola") game played in Telegram with money
from a wallet. A FastAPI process on MySQL and Redis holds the games, the wallets and
the deposits; a Telegram bot and a Mini App are its clients. The modules model what
handlers, workers and pages do when they overlap, are repeated, are lost between two
steps, or work on what they read too early. TLC checks small instances, TLAPS proves
the most important results for every instance.

Contents: [the system](#the-system) · [how it is modelled](#how-the-code-is-modelled)
· [modules](#modules) · [runs](#what-the-runs-show) · [findings](#where-the-code-and-its-documentation-disagree)
· [proofs](#what-is-proved) · [not modelled](#what-is-not-modelled) · [plan](#plan)

## The system

| Component | State | Operations | What makes it correct |
|---|---|---|---|
| Wallet (`services/wallet_service.py`) | `wallets.balance`, `wallet_txs` with UNIQUE(wallet, idempotency key) | credit, debit, get_or_create_wallet; wallet-adjust of `admin_users_router.py` | the balance is the sum of the ledger, is never negative, and a key moves money once |
| Game (`services/game_service.py`) | `games` row with pot, prizes, payout state and draw mode; purchases, cards, called numbers, events; answers in Redis | create, buy, select mode, start, close, call, undo | every card sold competes or is refunded, prizes add up to the pool and follow the numbers on the board |
| Finance (`services/finance_service.py`) | deposit requests with receipts, withdraw requests, gateway payments | create, upload, approve, reject, pay out, initiate, verify, fail | a request is settled once, decisions stand, no credit without a receipt |
| Draw mode, automatic draw (`game_draw_mode_service.py`, `game_auto_draw_*.py`, triggers of migration 0007) | draw mode of the game, control row with the committed sequence and a cursor | select, pause, resume, stop, the worker's cycle | the published sequence is drawn in order, once and to the end |
| Crypto deposits (`crypto_*_service.py`, `crypto_worker.py`) | invoices, transaction hashes | create, claim, cancel, scan, approve, reject, expire | a transfer credits one invoice once, nothing unpaid is credited, an invoice comes to an end |
| Notifier (`davarna-bot/bot/workers/notifier.py`) | a JSON file with subscriptions, cursors and markers; a queue in memory | poll, queue, send, acknowledge | subscribers learn of every number and prize, and once |
| Bot (`davarna-bot/bot/routers`, `services`, `middlewares`) | conversations in Redis, buttons on screens, the file of administrators, monitors and caches in memory | updates of users and administrators, each in a task of its own | what the user confirmed is what is asked of the backend, what is told is what was decided |
| Mini App (`backend/app/static/mini/app.js`, `mini_router.py`) | one page with a cursor per game, timers, a socket | live view, purchases, administration of games, finance, users and roles | a win is announced once, the view shows the game it names |
| Access and settings (RBAC, restrictions, `app_settings`, audit log) | roles, one JSON row per setting | grant, revoke, restrict, correct, edit | a decision stays until another, everything decided is in the log |

Interaction. Games, finance and crypto pay through the wallet, inside their own
database transaction. The routers (`bot_router.py`, `mini_router.py`,
`finance_router.py`, `tg_router.py`, ...) authorise a request, call one service method
and commit. The workers call the same services as administrators do. The notifier and
the Mini App poll the API for the events that games commit; the Mini App also gets them
pushed. The bot decides who is an administrator by a copy of the backend's roles.
Handlers of the backend are synchronous and run in the thread pool of one process,
those of the bot are tasks of one event loop: both overlap.

Hard behaviours, with their lines in `PROJECT.json` under "hazards": lost updates of a
balance or of a JSON row, retries that overlap, lobbies that are sold, started and closed
at once, undo and repetition of winning calls, answers cached before a commit, status
checks on rows that were read before a lock, gateway notices in any order, opposite lock
orders of worker and administrator, the cursor of the worker after a lost commit, an
invoice that expires while its transfer is being confirmed, a crash between queueing and
sending, cursors that several tasks move, buttons and conversations that outlive what they
are about, and answers that arrive after a later one.

## How the code is modelled

**Requests of the backend.** A request is a database transaction. MySQL runs with its
default REPEATABLE READ (`docker-compose.yml`, `db.py` sets nothing else), so

* plain reads return the snapshot of the transaction's *first* plain read, which most
  routes make when they authorise the request;
* `SELECT ... FOR UPDATE` returns the latest committed row and keeps it locked to the
  commit, so what happens between lock and commit is one atomic step;
* SQLAlchemy answers a `FOR UPDATE` query with the object the session already holds
  and does not refresh it: a route that loaded the row before and still refers to it
  makes the service work on the old row, and only columns that differ from what was
  loaded are written (`Flushed`). The routes of the bot and the Mini App drop the game
  they load to check access, so there the lock reads the current row; `tg_router.py`
  keeps it.

Hence the shape of the modules of the backend: `Begin*` takes the snapshot into `req[s]`,
a second action runs the locked part and commits. Requests whose outcome does not depend
on an earlier read are one action. `Drop(s)` is every way to end without effect: a
refusal, an exception with its rollback, a crash of the process before the commit.
`CallLost` and `UndoLost` are crashes and failed commits after the answer has reached
Redis. RedisLock is not modelled: it has a time limit and is released before the commit,
so it excludes nothing that the row lock does not; the models allow more interleavings
than a system in which it always works.

**Money** is a set of transactions `[user, key, amount]` (`Ledger.tla`). `HasTx` is the
lookup of the key, `Posted` appends what is new, `Insertable` is the unique index met by a
transaction whose snapshot is too old, `Affordable` the check of the balance.
`wallets.balance` appears in `Wallet.tla` only; the other modules use the sum of the
ledger, which `BalancesAreSums` and `NoLostUpdate` justify as long as nobody uses
wallet-adjust at the same time.

**The bot.** A handler is one step up to its first call of the backend, and goes on in
another step after the answer; other updates, tasks and the Mini App run in between. The
module with the handler keeps those that wait (`calling`, `errands`, `jobs`, `writes`,
...). Conversations are in Redis and survive a restart, what is in memory does not, and
buttons stay on the screen for ever: they carry what they showed. A call that got no answer
may have been done or not; the client gives up after ten seconds and `retry_async` asks
three times. An update is always possible (users and administrators do what they like), so
what a run explores is bounded by `Loads`, the numbers of updates of each kind in a run.

**The Mini App** is a page that four sources write to: the games the user opens, a poll, a
refresh, pushes. An await between reading and writing the page separates two steps; awaits
that capture nothing are merged. The page also repeats a request once under its key when
the network fails.

Abstracted everywhere: texts, payload layout, times (the idempotency window is a set of aged
requests, the age of an invoice is one of three), and file contents.

## Modules

| Module | Models | Correspondence |
|---|---|---|
| `Ledger` | operators on `wallet_txs` | `WalletService.credit`/`debit` without the column balance |
| `LedgerSpec` | what the wallet promises: appended only, one row for a key, nobody overdrawn | abstract; `Wallet`, `Game` and `Finance` implement it (`Promise == INSTANCE LedgerSpec`, property `LedgerKept`) |
| `Wallet` | the rows `wallets` and `wallet_txs` under concurrent requests | `Begin`: the first read; `Credit`, `Debit`: the locked part; `Adjust` adds wallet-adjust |
| `Game` | one game from the lobby to its end | `game`: the row of `games` (`sold`, `commission`, `pool`, `colAmount`, `rowAmount`, `colPaid`, `payout`: `row_payout_json`/`col_payout_json`); `Buy`, `Start`, `Close`, `Call`, `Undo`: the five service methods with everything they call; `cache`: Redis; route `"tg"`: `tg_router.py` |
| `Finance` | deposits, withdrawals, gateway payments | one action per service method; `BeginUpload`/`Upload` and `BeginReview`/`Approve`/`Reject` are the two halves of their routes |
| `DrawSpec` | what an automatic draw promises: an order fixed before the start, its numbers in that order, each once, none while paused or over | abstract; `AutoDraw` implements it (`Committed == INSTANCE DrawSpec`, property `DrawnAsCommitted`) |
| `AutoDraw` | the automatic draw of one game, see below | `game`, `control`, `called`: the rows of `games`, `game_auto_draws`, `game_called_numbers`; `limit`: the setting max_number; `answers`: Redis; `published`: the commitment in GAME_STARTED; `held`: row locks |
| `Crypto` | invoices, the chain, the worker's cycles | `invoice`: `crypto_deposit_requests`; `cycle[c]`: what a cycle has listed and loaded; `Match`/`Apply`: the two halves of `process_transfer`; the routes of users and administrators are one step, `Create` two |
| `Notifier` | the poll, the sender tasks and the file | `loop`: the coroutine with what it has read; `file`: `notify_store`; `queue`: the queue in memory; `told`: what has reached somebody, with the answers that were lost and the quick restarts; `Crash` |
| `Updates`, `Acl` | what drives the bot; the roles and the bot's copy of them | `Update`, `UpdateCall`: an update, without and with a call; `Fault`: a failure; `acl`: `admin_acl.json`; `reply`: lists of roles on their way |
| `Requests`, `Desk` | conversations of withdrawals, deposits and purchases; the decisions of finance administrators at the bot and in the Mini App | `dialog`, `desk`: FSM state and data; `pages`: buttons on screens; `calling`, `late`: calls; `outbox`: messages a handler still has to send |
| `Monitors` | the live monitors of administrators | `job`: `ADMIN_MONITORS`; `task`: tasks that run |
| `Host`, `Panel` | games at the bot and in the Mini App, several of them in topics | `host`: conversations of administrators; `errands`: handlers that go on after a call; `unsent`: `LIVE_SEND_CACHE`; `acts`: requests of the Mini App; `created`: the keys `app_settings` remembers |
| `Settings` | cards of deposits, switches | `saved`, `switch`: rows of `app_settings`; `writes`: requests that have read a row and will write it; `deposits`: the copy of a card a deposit keeps |
| `Users` | restrictions, corrections of wallets, messages to users | `bans`, `log`: JSON rows; `jobs`: requests; `audit`: the audit log; `passed`: requests of restricted users under way |
| `Bot` | all the modules of the bot together, and its crashes | composition: a step of one module leaves the others alone except where they share the roles, the games or the finance requests |
| `Live` | the live view of the Mini App | `page`: `state` of `app.js`; `job`: its asynchronous functions with what they have read; `seen`: `localStorage`; `announced`: notices shown; `news`: what has happened in the games |
| `MCWallet`, `MCGame`, `MCFinance`, `MCAutoDraw`, `MCCrypto`, `MCNotifier`, `MCBot`, `MCLive` | instances for TLC | |
| `LedgerProofs`, `WalletProofs`, `GameProofs`, `FinanceProofs`, `AutoDrawProofs`, `CryptoProofs`, `BotProofs`, `NoticeProofs` (about `Notifier` and `Live`, which therefore share no names) | theorems | |

Some modules define a variant next to an operation (`DebitUnchecked`, `OnSaleAlways`,
...). No specification uses one: each is a plausible slip, and replacing the operation
by it must make TLC report the property that is meant to catch it ("mutants" in
`PROJECT.json`).

### The automatic draw

Here two rows are locked one after the other, and in opposite orders: a request locks the game
and then the control, a cycle of the worker the control (`LockControl`) and then the game. So the
locks are variables (`held`), `LockGame` is a step of its own, and a request or a cycle that
finds the second row locked waits. When each holds what the other wants, MySQL aborts one:
`Drop` or `Fail`, which stand for every other failure too. The second lock and what follows it up
to the commit are one step, as in the other modules.

* `Ask` is the first read of a route. It matters twice: `select_mode` shuffles as many numbers as
  max_number had then, and a start decides on the control it sees then (`req[s].seen`). The
  `SELECT` of the trigger before the update is a consistent read as well (InnoDB, row-based binary
  log, the default of MySQL 8) and sees the same snapshot; the `UPDATE` of the trigger after it
  (`Activated`) sees the row as it is.
* `SelectAuto`, `SelectManual`, `Start`, `Close`, `Pause`, `Resume`, `Stop` are the service
  methods; `GameAutoDrawService.start` changes nothing and is a `Drop`. `SetLimit` is
  `update_setting`, its check of running games and its write in one step.
* The timer of a control stands for `next_draw_at`: `off` (NULL), `set`, and `due` after `Elapse`.
* `Pick` is the list of due games, read in a session of its own; `LockControl` looks at the
  status again and not at the time. `Draw` is the rest of `_draw_game` with `call_number`;
  `DrawLost` the same with a lost commit after the answer is in Redis; `DrawCached` the cycle
  that is answered from there. Several `Workers` are cycles that overlap: the Redis lock
  expires after eight seconds.
* The SHA-256 of a sequence is taken as the sequence itself, so the check against tampering
  cannot fail, and neither can the other checks of the worker (`AlwaysDrawable`): the branches that
  halt a control are unreachable and have no actions.
* Cards, wallets and prizes are reduced to `Wins`, the rows that end the game. Manual calls and
  undo are refused for a locked AUTO game, and `tg_router.py` knows no draw mode; those are in
  `Game.tla`. At most 25 games are drawn in a cycle; one game is modelled.

### Crypto deposits

A cycle lists the newest transfers of a network, and only while invoices are open. For each it
loads the invoice (`Match`), then locks it and decides on the object it has loaded (`Apply`),
writing the columns that differ; a creation picks its amount in a snapshot from before the
provider was asked for a rate. Requests of users and administrators read under the lock. The
worker retries a failed network in its next cycle and is restarted after a crash. The age of an
invoice is fresh, late (past `expires_at`, within the grace period) or over. The daily limit is
the guard `DailyCount`. Rates are amounts chosen from a set, and a listing holds all transfers
(the code reads 100 or 200). A hash may be claimed again as long as the invoice waits
(`claim_tx_hash`), and nothing keeps a new claim from coming between `Match` and `Apply`: `Spec` has it.
`QuietSpec` is `Spec` without one case of it, in which the invoice is being settled with the hash claimed
before (`Undisturbed`); claims of the same hash, and claims for an invoice matched by memo or
amount, stay.

### The notifier

The loop is one coroutine, so its steps are the stretches between awaits: what it has read
before an await it uses after. The switch of a user runs in between, and so do the calls and undos
of the game. A message to a user goes into the queue, and sender tasks take it from there; a
marker in the file or an acknowledgement follows. A crash empties queue and memory, and may
empty the file when it hits a write. Telegram may deliver a message whose answer is lost: the bot
takes it for a failure (`Notice` with the outcome `"lost"`, `DeliverFails`, `LiveSend` and `EndNotice`
whatever the answer), and a crypto notice, which alone is tried again, then comes twice. After a restart
within three seconds an event still counts as recent (`_is_recent_event_for_runtime`): such a `Crash` is
`quick`. The end of a game is told and marked in two steps (`EndNotice`, `MarkEnded`), and so are the
numbers of the live topic (`LiveSend`, `LiveMark`), so a crash can fall in between. A number that is undone and drawn again is another call,
and a win after an undo has no new event. With two senders the order of messages is not kept, a
subscription while a poll is out may miss a number, and a winner's message is lost in a crash
between queueing and sending.

### The bot

* `Acl`: the backend holds the roles, the bot a file. A task reads the list every 30 seconds, the
  owner's pages read it and change the file at once. A list that was asked for before a change
  can be written after it.
* `Requests`: the repetition of a withdrawal is found by its content while it is pending, with a
  plain read. `Desk`: message and decision are two steps; in the Mini App the message follows the
  commit in the same handler, and a payment is two calls (`/proof`, then `/paid`). A rejection
  that could not learn whose request it is tells nobody. Mini App deposits are put up for review
  without a receipt (`mini_router.py:2799-2810`).
* `Monitors`: a monitor goes on after its starter has lost his role. Tasks are numbered.
* `Host`: administrators share one account of the backend, so keys are shared, too: the key of a
  call is the Telegram message, that of an undo the second it was asked for. Closing an ended game is answered
  200 (`game_service.py:466`). The list of people a link could not be sent to holds ten at most, for
  an hour, in memory. `admin_games_start` has no button and is left out; `admin_call_start`
  says 1..99 while the answer is checked against 1..90.
* `Panel`: a game is created under a key for each click, which `app_settings` remembers; the second
  of two overlapping requests fails on its primary key. Roles are read anew for each request, and an
  administrator manages the games he opened there unless he is a super admin. Refunds are told before
  the commit, once per game by a marker.
* `Settings`: the owner alone edits cards, but his updates run concurrently; pages of the bot always
  write `is_active` true. Deposits without a copy of a card use `_legacy_pick_destination`, which is
  not modelled.
* `Users`: a restriction is checked before the action only. wallet-adjust at the bot carries no key, its message
  is sent before the commit. The time a restriction ends is absolute, so that a stale write never
  prolongs one.

## What the runs show

All configurations check for deadlock, and none stops.

| Run | Bounds | Distinct states | Shows |
|---|---|---|---|
| `MCWallet` | 1 user, 3 keys, amounts 1 and 2, 3 requests at a time | 190,790 | `MovesByPosting`, `LedgerKept`, `TypeOK` (never negative) |
| `MCGameLobby` | 2 users, 2 purchases, 2 requests at a time, 1 call, 1 undo, a withdrawal | 206,048 | `RefundXorPrize`, `PotMatchesSales`, `ClosedForGood` |
| `MCGameRace` | cards of 1 row and 2 columns, 3 calls, 1 undo, 2 requests at a time, a withdrawal of the prize | 362,090 | `PrizesWithinPool`, `LedgerKept`, `TypeOK` |
| `MCGameSerial` | 2 cards of 2 by 2, 4 calls, 2 undos, one request at a time | 175,128 | `PayoutOfBoard` |
| `MCFinance` | 2 withdrawals and 1 payment with 2 requests at a time, or 1 deposit through both kinds of routes with 3; 2 keys besides the bot's | 686,005 | `Settled`, `DepositBacked`, `DecisionsFinal`, `LedgerKept`, `TypeOK` |
| `MCAutoDraw` | 1 request at a time, 2 overlapping cycles, orders of 2 and 3 numbers, max_number 2 or 3, one row to win, 1 lost commit | 59,736 | `NothingSkipped`, `EndsWithRow`, `DrawnToTheEnd`, `TypeOK` |
| `MCAutoDrawRace` | 2 requests and 2 cycles at a time, both orders of 2 numbers, 2 intervals, 1 lost commit | 296,414 | `DrawnAsCommitted`, `AlwaysDrawable` |
| `MCCrypto` | 2 users, 2 invoices and 1 transfer of TON, 1 claim for an invoice, a daily limit of 1, 1 cycle | 321,798 | `Reconciled`, `CreditBacked`, `CreditedForGood`, `SlotFreed`, `TypeOK` |
| `MCNotifier` | 2 calls, 2 undos or switches, 2 users of whom one has blocked the bot, 2 invoices, 2 senders, a queue of 1, 1 failure, lost answer or crash | 842,721 | `ToldOnce`, `NothingMissed`, `DecisionsTold`, `TypeOK` |
| `MCBot` | 23 scenes of up to six updates of the owner, administrators and users, 1 failure or crash | 483,115 | `MonitorOwned`, `ToldAsDecided`, `RefundedAreTold`, `RestrictedAsDecided`, `OneGamePerClick`, `AclFollowsRoles`, `TypeOK` |
| `MCLive` | 2 games, a win in one and then the end of the other, 1 game opened, 1 failure or reload, 1 closed socket | 345,873 | `NoticedOnce`, `ActiveShown`, `LiveTypeOK` |
| `MCFinanceTwice` | 1 deposit, both kinds of routes, 2 requests | – | a counterexample, see below |

Why the bounds suffice. Rows are independent of one another except through the wallet,
so one or two of a kind show what happens; three requests at a time are enough for a
stale reader, the writer that makes it stale and a third that profits. The price 15
makes every rounding bite: the commission of one card is 1.5, rounded to 2, of 13 the
column gets 4.33 and the row the rest; two cards give other remainders. The two layouts
of `MCGame` are chosen so that three calls can win a column for one card, a row and
column at once, and a row for both cards at once, and four calls with two undos can
undo and repeat a win. In `MCGameRace` a number is a whole column, so that two
requests suffice for a column and a row to race. A player can spend a prize before it is
undone (withdrawal of 20).

`PayoutOfBoard` is stated for one administrator at a time: with overlapping calls the
code does not have it (`NoMissedRow` below). `PrizesWithinPool`, `RefundXorPrize` and
`ClosedForGood` hold for every route but `tg_router.py`'s, which no client in the repository
calls although it is mounted (see below).

`MCFinance` explores the deposit and the other requests one at a time (`OneSide`): they share only
the wallet, which deposits make richer. In `MCAutoDraw` the orders of three numbers win with
the second or with the third, the setting makes an order longer or shorter than the limit, and the
two overlapping cycles draw twice in one interval. In `MCAutoDrawRace` a second request changes what the
first has seen. The bound `MaxLost` is one: after a lost commit the cached answer has been used
or has expired, and the state is as before but for the cursor. In `MCCrypto` the transfer pays more than
the invoices ask for, or exactly the second of two for the same amount, whose cents differ. One hash is the case in which
no claim can disturb a cycle; with two hashes and two claims for an invoice (`MCCrypto` with TRON,
`Transfers <- TwoTransfers`, `MaxClaims = 2`, `WalletUsers <- NoUser`, symmetry and
`QuietSpec`) `Reconciled` and `CreditBacked` hold as well, in 904,965 states, and the theorems say so for any number of
both. With two cycles, a claim that disturbs a cycle, or a longer day properties fail (below). `MCNotifier` has one user more than
its queue has places, so that a sender blocks the poll. One fault reaches every bound of `ToldOnce`: a notice
comes twice after a lost answer or a crash before its acknowledgement, the win and the end after a quick restart
before their marker. The scenes of `MCBot` put together what shares state:
roles and monitors; requests and the desk; the lobby, its buyers and the draw at the bot and in
the Mini App; cards and the deposits that copy them; restrictions and the requests they forbid. The
parts of different scenes do not meet, as they have no variable in common but the roles. In `MCLive` one
open, one failure and one reload are what a late answer needs to meet a newer one.

Fairness. The wallet, games and finance assume none: every property there is a safety property, a
request may be dropped at any point, and no user or administrator is obliged to come back.

* The worker runs on its own, and `DrawnToTheEnd` is checked under `FairSpec`: requests under
  way end (`WF` of `Serve`, which includes being dropped), time passes (`WF` of `Elapse`), and of the
  worker `Pick`, `LockControl` and `Work` are strongly fair when they are possible again and
  again. The strong form is what a loop that polls every second justifies against requests of some
  milliseconds: a cycle may find the game locked or fail, and it does not do so at every
  poll for ever. Nothing is assumed of pauses, resumptions, selections or new requests. The property
  excepts what the code does not promise to survive: a pause by an administrator, a lost
  commit (the control may be stopped), and a max_number below the order (the call is refused at every
  poll). With two requests at a time it fails, because a start can race with a stop (below).
* `SlotFreed`: time passes, the crypto worker polls for ever and is not restarted for ever. Scans may
  fail at every poll.
* `NothingMissed`, `DecisionsTold`: the loop of the notifier and its sender tasks take their next step;
  failures and crashes are bounded by `MaxFaults`, calls by `MaxCalls`.
* `AclFollowsRoles`: the loop of `main.py` asks for the roles for ever, answers come, and a handler that
  has its answer goes on.
* `ActiveShown`: answers come, and the timers of the refresh and of the socket run for ever. Nothing is
  assumed of pushes, polls or the user.

## Where the code and its documentation disagree

One run checks a property that a comment states, and TLC shows how the code violates it: in
`MCFinanceTwice` the bot and the Mini App approve one deposit under two keys, one of them on a stale or
reopened row, and the user is credited twice (`finance_service.py:61`, "credit wallet
(idempotent)").

Other such properties have no run of their own. The modules state them under "What the code
says and does not keep". To see one violated, replace the properties of the configuration in
the last column by it, with `SPECIFICATION Spec` unless noted.

**Wallet, games, automatic draw**

| Property | What happens | Configuration |
|---|---|---|
| `BalanceIsLedger` | wallet-adjust reads the wallet before the lock (`admin_users_router.py:925`), and the session answers `FOR UPDATE` with the object it holds: a posting in between stays in `wallet_txs` and is lost from `wallets.balance` (README.md:38, :76) | `MCWallet` with `Adjust = TRUE` |
| `PaidInFull` | win, undo, win again: `PRIZE_ROW:game:card` names no call, the old transaction is found and nothing is paid (game_service.py:995; :404, "We keep exact total by assigning remainder to row") | `MCGameSerial` |
| `NoCardOwes` | win, undo, win with another number, undo: paid once, taken back twice | `MCGameSerial` with `CallKeys <- FiveCalls` |
| `AnsweredIsCalled` | the answer is cached, the commit fails, the retry is told the number was called (game_service.py:650) | `MCGameSerial` |
| `GamesSoldConsistent` | closing a lobby sets the sold amount to 0 and the integrity report (`admin_reports_router.py:218`) counts a mismatch | `MCGameSerial` |
| `NoMissedRow` | two overlapping calls complete a row together, neither snapshot has both numbers, and the game goes on (game_service.py:940, "row win ends game") | `MCGameRace` |
| `WinnersHaveRow` | a call whose snapshot precedes an undo pays a row that is no longer on the board | `MCGameRace` |
| `ClosedForGood` | `tg_router.py` works on the row it loaded before the lock: a refunded game starts | `MCGameLobby` with `Routes = {"tg"}` |
| `PrizesWithinPool` | the same: a column is paid twice | `MCGameRace` with `Routes = {"tg"}` |
| `NotStoppedWhileRunning` | a start, or the trigger behind it, sees the control as it was before a stop: the game runs, its control is STOPPED, and pause, resume and stop refuse (game_auto_draw_service.py:170, game_service.py:375). A lost commit leads there, too: the cached answer of a winning call stops the control of a game that runs (game_service.py:736, game_auto_draw_worker.py:135) | `MCAutoDraw`; `MCAutoDrawRace`, also with `MaxLost = 0` |
| `PublishedIsDrawn` | between the first read of a start and its lock the mode is selected anew: the commitment published is that of the old order | `MCAutoDrawRace` |
| `OrderWithinLimit` | max_number is lowered after the order was chosen; every call of a number beyond it is refused and the worker fails at each poll (settings_router.py:58) | `MCAutoDraw` |

**Finance and crypto**

| Property | What happens | Configuration |
|---|---|---|
| `ApprovalStands` | an upload that began before the approval puts the deposit back to PENDING_REVIEW; a stale rejection rejects it (README.md:545) | `MCFinanceTwice` |
| `FailedFromCreated` | a late notice of failure overwrites VERIFIED (finance_router.py:621, "CREATED → FAILED") | `MCFinanceTwice` with `Payments <- OnePayment` |
| `OnePendingRequest` | the same withdrawal sent twice at once is created twice (finance_service.py:121, "Soft idempotency") | `MCFinanceTwice` with `Deposits <- NoIds`, `Withdrawals <- TwoWithdrawals` |
| `OneOpenPerUser` | a cycle that loaded an invoice before it was cancelled opens it again, while the user has created another | `MCCrypto` with `DailyCount = 2` |
| `OpenAmountsDiffer` | the same, with an invoice of another user that was given the same amount | `MCCrypto` |
| `DecidedForGood` | a cycle that loaded the invoice before it was cancelled or rejected writes what it decided | `MCCrypto` |
| `SeenIsNotForgotten` | an invoice expires while its transfer waits for confirmations | `MCCrypto` |
| `Reconciled`, `CreditedForGood` | without Redis the worker runs without its lock, "relying on database idempotency" (crypto_worker.py:37): two cycles overlap | `MCCrypto` with `Cycles <- TwoCycles` |
| `Reconciled` | another hash is claimed for an invoice between the `Match` and the `Apply` that settle it with the one claimed before, and the credited invoice names a transfer nobody has made | `MCCrypto` with `MaxClaims = 2`, `Transfers <- TwoTransfers` |

**Notifier and bot**

| Property | What happens | Configuration |
|---|---|---|
| `NewNumbersTold` | the cursor a subscriber gets is stale, and his first poll moves it over numbers called since without a message ("from now on", notifications.py:112) | `MCNotifier` |
| `SubscriptionKept` | a crash that tears a write empties the file, and everybody's switch is off | `MCNotifier` |
| `DecisionsTold` | users who cannot be reached fill the page of notices, and nobody behind them is told | `MCNotifier` with `Limit = 1` and `FairSpec` |
| `OnlyWithRole` | a list asked for before a revocation arrives after it; an emptied file blocks nobody (super_admin.py:474) | `MCBot` |
| `OneRequestPerClick`, `ShownIsConfirmed`, `OwnReceipt` | a call given up is done later and repeated (finance_service.py:116); an old button confirms new data (withdraw.py:71, purchase.py:192); a receipt goes to the deposit of another conversation (deposit.py:460) | `MCBot` |
| `OneFinalMessage`, `TryAgainWorks` | two conversations about a payment tell the user twice (admin_finance.py:1987); "try again" is refused by the backend (:2082) | `MCBot` |
| `OwnProof` | the user gets the proof another administrator saved (app.js:8090) | `MCBot` |
| `OneActivePerTopic` | select, then create: two games of a topic (admin_games.py:1186) | `MCBot` |
| `RefundsAsTold` | closing an ended game tells everybody he was refunded (admin_games.py:424) | `MCBot` |
| `UndoneOnce` | two undos within the same second, or a repetition after it (game_service.py:753) | `MCBot` |
| `OneAnnouncement` | the notifier announces a game before its event is flagged (mini_router.py:3994) | `MCBot` |
| `ActiveDestination`, `CardsFollow`, `PaidWhereKept` | deletion leaves inactive cards only (bot_router.py:2046); a deleted card comes back (:2083); the Mini App shows cards listed earlier | `MCBot` |
| `OthersUntouched`, `AdjustedOnce`, `LogComplete`, `ToldOfPosted`, `NothingWhileRestricted` | a decision on another user is lost (admin_users.py:521); a correction is repeated without a key (admin_users_router.py:929), its log line lost (:974), its message sent before a rollback (:985); what has passed the check goes on | `MCBot` |

**Mini App**

| Property | What happens | Configuration |
|---|---|---|
| `WinsAnnounced` | a refresh shows a cached snapshot without a notice and advances the cursor past the win | `MCLive` |
| `NoOldNews` | a poll that captured cursor 0 before the game was shown announces an old win | `MCLive` |
| `LastChoiceShown` | a late answer of a poll, a refresh or an older click selects its game again | `MCLive` |
| `NeverBack` | an answer older than a push is shown after it | `MCLive` |
| `BoughtIsPriced` | price and wallet are checked for one game, the purchase goes to the game selected meanwhile (app.js 4876-4905) | `MCLive` |

## What is proved

Each theorem holds for all users, keys, amounts, cards, numbers, slots, cycles and updates, under the
named assumptions of the modules. Those say what the deployment fixes: amounts are positive,
`None`, `Nil`, `Missing` and `Idle` are not values they could be mistaken for, an order of an automatic
draw is a permutation of `1..n`, users and audiences of notices are finitely many and each audience is
served once, the ledger a run starts with is finite, overdraws nobody and holds opening transactions
only, the games an administrator finds are rows the backend can have made, the cards of the
environment are numbered from 1, and the first roles and those to be granted are roles there are. A
further hypothesis of a theorem is in the table; it excludes what the previous section shows to go
wrong. A property in the second column is checked by a run unless it is marked †.

| Theorem | States | Hypothesis |
|---|---|---|
| `WalletProofs!NeverNegative` | `[]TypeOK`: no wallet is negative | |
| `AtMostOnce` | `[]OnePerKey`†: a key posts once | |
| `NoLostUpdate` | `MovesByPosting` | `Adjust = FALSE` |
| `BalancesAreSums` | `[]BalanceIsLedger`† | `Adjust = FALSE` |
| `WalletIsLedger` | `LedgerKept`: implements `LedgerSpec` | `Adjust = FALSE` |
| `GameProofs!WellTyped` | `[]TypeOK` | |
| `GameIsLedger` | `LedgerKept` | |
| `RefundOrPrize`, `SalesStayFrozen`, `ClosedStaysClosed` | `[]RefundXorPrize`, `SalesFrozen`†, `ClosedForGood` | `"tg" \notin Routes` |
| `PotAddsUp` | `[]PotMatchesSales` | `"tg" \notin Routes` |
| `PoolIsEnough` | `[]PrizesWithinPool` | `"tg" \notin Routes` |
| `BoardDecides` | `[]PayoutOfBoard` | `OneAtATime`, `"tg" \notin Routes` |
| `FinanceProofs!WellTyped` | `[]TypeOK` | |
| `FinanceIsLedger` | `LedgerKept` | |
| `WithdrawnOnce`, `NoCreditWithoutReceipt`, `DecisionsStand` | `[]Settled`, `[]DepositBacked`, `DecisionsFinal` | |
| `BotCreditsOnce` | `[]DepositCreditedOnce`, which `MCFinanceTwice` refutes with both routes | `Routes \subseteq {"bot"}` |
| `AutoDrawProofs!WellTyped`, `WorkerNeverHalts`, `SkipsNothing`, `EndsAtFirstRow` | `[]TypeOK`, `[]AlwaysDrawable`, `[]NothingSkipped`, `[]EndsWithRow` | |
| `ModeHasControl` | `[]ControlOfMode`† | |
| `KeepsPromise` | `DrawnAsCommitted`: implements `DrawSpec` | |
| `CryptoProofs!WellTyped` | `[]TypeOK` | |
| `CreditsAreBacked`, `BooksAgree` | `[]CreditBacked`, `[]Reconciled`, under `QuietSpec`, for any number of claims | `OneCycle` |
| `CreditsStand` | `CreditedForGood`, under `Spec` | `OneCycle` |
| `NoticeProofs!WellTyped`, `NothingTwice` | `[]TypeOK`, `[]ToldOnce` of `Notifier` | |
| `LiveWellTyped`, `AnnouncedOnce` | `[]LiveTypeOK`, `[]NoticedOnce` | |
| `BotProofs!WellTyped` | `[]TypeOK` of `Bot` | |
| `NoStrayMonitor` | `[]MonitorOwned` | |
| `MessagesAreTrue`, `NoRefundUntold`, `ClicksOpenOneGame`, `NobodyHeldBackUnjudged` | `[]ToldAsDecided`, `[]RefundedAreTold`, `[]OneGamePerClick`, `[]RestrictedAsDecided` | |

**Sums** (`LedgerProofs`). A balance and the amounts of a game are folds of the community modules, which choose
one element after the other. The library's theorems on induction take an operator as a
parameter, so the induction is stated in first-order form: the non-empty subsets of a finite set
are well-founded, hence a set of counterexamples has a minimal one (`SubsetInduction`). By it the order of the
elements does not matter (`AddsAny`), and from there follow what a sum becomes when an element is added or
removed, when a set is split or copied under another name, and when its elements are bounded.
`PostingIsHonest` is the lemma the three refinements share: a batch of transactions under distinct
keys that is affordable, or all credits, leaves the ledger appended to, with one row for a
key, and nobody overdrawn.

**Wallet.** `TypeOK` is inductive as it stands: `Debit` subtracts from the balance it has compared,
and a stale balance was one once. `AtMostOnce` follows from `Unposted`, which includes the
unique index; the lookup alone would not do. Without wallet-adjust a request holds the row under the
lock (`ObjectIsRow`), so a step posts one transaction and moves one wallet by its amount (`Moves`), and
`Booked` (every balance is the sum of its ledger) is inductive.

**Game.** `Typed` adds to the types what they need to be kept: a payout names a card once, the
commission never exceeds the sales, a call looks at cards that exist. `Batch` says of every
step that it posts an affordable batch or credits, through `tg_router.py` too. `Lifecycle` ties the status of
the game to its events and to the kinds of its transactions: `RefundXorPrize` alone is not inductive, as
a call could pay a prize in a closed game if nothing said that it is ended and has no payout to reopen, and a
refund must be known not to exist before the close so that all of it is posted. `Pot` says that
the amounts of the row are the sums of the purchases, and that the wallets have paid these. `PrizesHeld` says that
what players hold of prizes is covered by the parts of the pool that are recorded as paid:
`Divided` and `Credited` for a call (the shares of a prize add up, `SharesAddUp`: `_split_equal` gives the
remainder to the last, whatever the rounding), `UndoPaid` and `Covered` for an undo and for the repetition of
a win whose transaction is found and pays nothing.
`Drawn` is for one request at a time: a call sees the board it adds to (`Current`), no number is called twice, and the payout
state follows the rule, with one thing more, that a row took the column bucket along if no column was
complete before it. A call extends the sequence by one prefix (`CallLines`), an undo drops the last
one (`UndoLines`), and what a payout remembers of its call is enough to find the right bucket to take back.

**Finance.** `FinanceInv` is `Tables` (rows are well-formed), `Sessions` (a request remembers a
status the deposit has had, and who saw PENDING_REVIEW saw a receipt), `Receipts`, `Settled` and
`DepositBacked`. The point of `Sessions` is that a status can go back while a receipt stays, so that even a
decision on a stale row is backed. `BotCredits` says that every credit of a deposit has the one key
the bot derives from it. `Typed` adds that only finitely many withdrawals have been opened, without which
the sum of what is reserved for a user would not be a number.

**Automatic draw.** `Inv` is `TypeOK` with `Passed` (the numbers on the board are among those the
cursor has passed, so the loop that skips called numbers never turns, and a list of due games that is out of
date is harmless), `Agree` (mode, interval, status and control fit each other) and `NoLoss` (while no commit is lost, every cached
answer lies behind the cursor). `EndsWithRow` is inductive relative to `Inv`. For the refinement `Locked` says
that a cycle between its two locks holds a control that runs, so no pause comes in between; a `Draw`
appends the number at the cursor (`DrawnNext`), every other step is one of `DrawSpec` or a stutter.

**Crypto.** `Base` (`TypeOK`, and cycles work on transfers and invoices that exist) is inductive whatever
runs. The rest needs that cycles do not overlap (`OneCycle`). `Undecided` says that an invoice a cycle works on
is not credited meanwhile, and `CreditsStand` follows, whatever is claimed. `CryptoInv` is inductive under
`QuietSpec`, which leaves out the one claim the code does not survive (`Reconciled` above): `Faithful` says that
the row a cycle has loaded is still true of the invoice except for what users may change meanwhile, and that
the hash it is settled with stays claimed if it was; `Decided`, `OneInvoice`, `Linked`, `Explained` and `Referenced` relate the invoices, the hashes and the ledger in both directions. `FreeAmount`
shows that the loop that looks for cents finds some.

**Notifier.** A message is told later than it is decided on, so a bound on what has been told is not
inductive. `Load` counts for a user and an item what was told together with what waits in the loop, in the
queue and at sender tasks; taking, delivering, giving up and a crash only let it fall (`Falls`), and only
two steps add to it, a poll that has seen new calls and the report of a win. What bounds it is different
for each kind of notice, and in each case the bound is reached only by what cannot be sent again:

* `NumbersOnce`: a call has at most one message for each turn of the switch (`Turns`: switches turned on less
  those whose answer is not yet written), and uses them all up only if the cursor has passed it. The
  first subscriber sets the cursor back to what was read before, which is why it is a message a turn and not one.
  `Boards` (calls stand on the board in the order they were drawn, and where the poll saw them) makes "passed" a
  place on the board.
* `WinOnce` and `EndOnce`: there is one message, and one more for each quick restart; all of them are used up only by
  what was announced, which means marked in the file, about to be marked, or known to be too old for a
  process that has just started (`Announced`, `Reported`). A quick restart lets an event count as
  recent again, and adds the message it may cost.
* `LiveOnce`: a call is posted in the live topic once and once more for each crash, and uses this up only when
  the marker has passed it.
* `NoticeOnce`: a crypto notice comes once, once more for each crash and once more for each of its deliveries whose
  answer was lost (`Allowed`), and uses this up only when it waits for its acknowledgement or has been flagged by
  the backend. A lost answer raises both sides by one.

That a listing repeats no notice and a poll makes no message twice is `ListingIs` and `JobsForAre`, from what
`FlattenSeq` does with sequences that share nothing (`Flattened`).

**Mini App and bot.** `Remembered`: whatever was announced is in `localStorage`. `LiveTypeOK` also says that the
page polls only without a socket and that its cursor is not behind what it shows; for that `Coherent` adds that
what waits for the snapshot of a game knows which, and that a purchase under way has a game selected. `Monitored`: tasks are
numbered, so a new one is never taken for one that a chat remembers. `BotInv` follows a decision to the
message about it: `Rows`, `Dialogs`, `Calls`, `Talks` and `Mail` say of requests, conversations, calls under way and
messages not yet sent that they agree with what the backend decided. `Refunding` says that a
marker for refunds is set in the step that tells them, `Judged` that a saved restriction is one
somebody decided, including the copies that requests still hold.

The types of the bot need all of these and three more (`Typed`). `Hosting` is about the games of the
administrators: what conversations, errands, pages and remembered failures are about is a game or a
topic there is, and lobbies, calls and refunds of a game fit together (`Coherent`), which an undo
needs, since it sets any drawn game running again. `ChangesTyped` goes through what the bot and the Mini
App do to a row, `HostGrows` says that no game goes away. `Presented` says the same of the requests of the Mini
App; that what `_get_active_game` chooses is a game needs a largest number in a set of numbers
(`LatestExists`, from the well-foundedness of `<`). `Naming` is about the cards of deposits, as sets of
numbered destinations: no list has a number twice, nor has the list a request has read the number it is
about to add. This is inductive only if it is said of the copies that requests hold, because one of
them is what is saved next. The roles are in `AclOK`: what the bot reads from the file or the backend is in normal
form, whatever arrives late.

Model-checked only:

* `DrawnToTheEnd`, `SlotFreed`, `NothingMissed`, `DecisionsTold`, `AclFollowsRoles` and `ActiveShown`:
  liveness under fairness is out of the prover's reach.
* The counterexamples above, which are what they are.

## What is not modelled

* `manual-charge` of `bot_router.py` (3640-3710): it inserts a `wallet_txs` row without the NOT NULL key and
  with a direction the column does not have, so every call is rolled back.
* `create_deposit_with_receipt` (`mini_router.py` 2857-2983), which no client uses. `POST /deposits` of
  the Mini App has no key, so a repetition is a second deposit with a receipt of its own.
* Sessions, tokens, nonces and rate limits. Two facts were met on the way: an answer to `exchange` that is lost
  cannot be asked for again, as its nonce is used up (`mini_security.py` 168, 238), and a late 401 for an
  old token clears the new session (`app.js` 1624).
* Listings of a chain (at most 100 or 200 transfers), provider health, preflight.
* The notifier's feeds for administrators (the cursor of the audit feed moves even if a send fails), its
  digests and adaptive intervals.
* Discount lists, archives, registration, searches, settings other than max_number, the destinations and the switches.
* Lists, filters, reports, help, texts, keyboards, the join gate, updates delivered twice by Telegram, what
  `ThrottlingMiddleware` drops.
* Downgrades of the schema, data migrations, deployment.
* Repetitions by the Mini App other than those of purchases and of creating games.

## Plan

All modules are written and checked, and every safety property that a
passing run checks is proved. What remains model-checked is liveness.
