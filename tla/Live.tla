-------------------------------- MODULE Live --------------------------------
(***************************************************************************)
(* The live view of the Mini App (static/mini/app.js) and what the backend *)
(* serves it from (mini_router.py).                                        *)
(*                                                                         *)
(* The view is fed by four things that know nothing of each other: the     *)
(* user opens a game, a timer polls its events, another timer refreshes    *)
(* the list of games, and the socket, which makes the polling stop, pushes *)
(* snapshots.  Each of them awaits answers between reading the page and    *)
(* writing it, and so does a purchase of cards, which awaits the wallet.   *)
(*                                                                         *)
(* What happens in the games is a sequence, and the position of an event   *)
(* in it is its id.  A snapshot of a game is kept as the id of the last    *)
(* event it knows.  An await that neither reads nor captures anything is   *)
(* no step of its own.  Left out: the session, the cards and the wallet    *)
(* on the page, the view of administrators, and overlapping polls or       *)
(* refreshes, which need an answer slower than the interval.               *)
(*                                                                         *)
(* What the module shares with Notifier.tla by name is prefixed here:      *)
(* NoticeProofs.tla extends both.                                          *)
(***************************************************************************)
EXTENDS Integers, Sequences, FiniteSets, SequencesExt

CONSTANTS
    Games,
    Opens,          \* slots for games being opened
    Tick, Poller,   \* the slots of the two timers
    EventsLimit,    \* LIVE_EVENTS_LIMIT
    Stories,        \* what may happen in the games, as sequences of events
    MaxOpens,       \* games opened and cards bought by the user
    MaxFailures,    \* requests that fail, sockets that close, reloads of the page
    MaxDown,        \* pushes on their way
    Nil

ASSUME LiveAssumption ==
    /\ IsFiniteSet(Games)
    /\ Tick # Poller /\ {Tick, Poller} \cap Opens = {}
    /\ EventsLimit \in Nat \ {0} /\ MaxDown \in Nat \ {0}
    /\ Stories \subseteq Seq([game : Games, kind : {"call", "win", "end"}])
    /\ IsFiniteSet(Stories) /\ Stories # {}
    /\ MaxOpens \in Nat /\ MaxFailures \in Nat
    /\ Nil \notin Games \cup Nat

VARIABLES
    news,       \* what happened: a number is called, the user wins, a game ends
    page,       \* the page's state
    seen,       \* the wins the browser remembers (localStorage)
    job,        \* job[j]: how far an asynchronous function of the page has come
    socket,     \* the socket, as its two ends know it, or Nil
    buying,     \* the purchase under way, or Nil
    announced,  \* announced[e]: how often the win e was announced
    used        \* opens and faults so far

liveVars == <<news, page, seen, job, socket, buying, announced, used>>

PageJobs == Opens \cup {Tick, Poller}
Ids  == 1 .. Max({Len(s) : s \in Stories})

Resting == [pc |-> "idle", game |-> Nil, after |-> 0, upto |-> Nil]
Awaiting(pc, g, after) == [pc |-> pc, game |-> g, after |-> after, upto |-> Nil]
Blank == [game |-> Nil, shown |-> Nil, games |-> {}, polling |-> FALSE, lastWin |-> 0,
          cache |-> [g \in Games |-> Nil], cursor |-> [g \in Games |-> Nil]]

Failure == used.faults < MaxFailures /\ used' = [used EXCEPT !.faults = @ + 1]

-----------------------------------------------------------------------------
(* The backend *)

Now == Len(news)
Events(g, n) == {e \in 1 .. n : news[e].game = g}
Version(g, n) == Max(Events(g, n) \cup {0})
Ended(g, n) == \E e \in Events(g, n) : news[e].kind = "end"
Active == {g \in Games : ~ Ended(g, Now)}
Recent(g, n) == {e \in Events(g, n) : Cardinality(Events(g, n) \cap e .. n) <= EventsLimit}

\* A game goes on, up to its end.
Emit(s) ==
    /\ IsPrefix(news, s) /\ Now < Len(s)
    /\ s[Now + 1].game \in Active
    /\ news' = Append(news, s[Now + 1])
    /\ UNCHANGED <<page, seen, job, socket, buying, announced, used>>

\* game_snapshot, for what job j waits for: one game, or every game of the list.
Read(j) ==
    /\ job[j].pc \notin {"idle", "due"}
    /\ job[j].upto = Nil
    /\ job' = [job EXCEPT ![j].upto = Now]
    /\ UNCHANGED <<news, page, seen, socket, buying, announced, used>>

\* The loop of mini_ws pushes what differs from its last push.
ServerPush ==
    /\ socket # Nil /\ socket.sub # Nil
    /\ Version(socket.sub, Now) # socket.key
    /\ Len(socket.down) < MaxDown
    /\ LET n == Version(socket.sub, Now)
       IN  socket' = [socket EXCEPT !.key = n,
                                    !.down = Append(@, [game |-> socket.sub, upto |-> n])]
    /\ UNCHANGED <<news, page, seen, job, buying, announced, used>>

-----------------------------------------------------------------------------
(* What the page shows *)

\* pushWinnerNotice, for each of the events of a snapshot.
\* Variant: the cursor alone decides.
FreshWinsByCursor(g, upto, after) == {e \in Recent(g, upto) : news[e].kind = "win" /\ e > after}
FreshWins(g, upto, after) ==
    {e \in Recent(g, upto) : /\ news[e].kind = "win"
                             /\ e > after /\ e > page.lastWin
                             /\ e \notin seen}

Cursor(g) == IF page.cursor[g] = Nil THEN 0 ELSE page.cursor[g]

\* renderLiveSnapshot: the game is selected, wins are announced,
\* the cursor moves.
Render(p, g, upto, wins) ==
    /\ page' = [p EXCEPT !.game = g,
                         !.shown = [game |-> g, upto |-> upto],
                         !.cache[g] = upto,
                         !.cursor[g] = Max({Cursor(g), upto}),
                         !.lastWin = Max(wins \cup {@})]
    /\ seen' = seen \cup wins
    /\ announced' = [e \in Ids |-> IF e \in wins THEN announced[e] + 1 ELSE announced[e]]

Subscribe(g) == IF socket = Nil THEN Nil ELSE [socket EXCEPT !.sub = g, !.key = Nil]

\* Without a notice; then the page polls or subscribes, and a subscription, also
\* to the same game, forgets what was pushed.
\* Variant: it polls in any case.
QuietlyPolling(p, g, upto) ==
    Render([p EXCEPT !.polling = TRUE], g, upto, {}) /\ socket' = Subscribe(g)
Quietly(p, g, upto) ==
    Render([p EXCEPT !.polling = socket = Nil], g, upto, {}) /\ socket' = Subscribe(g)

\* With notices, if the page knows the game.
Notifying(g, upto, after) ==
    Render(page, g, upto, IF page.cursor[g] = Nil THEN {} ELSE FreshWins(g, upto, after))

Arrived(j, pc) == job[j].pc = pc /\ job[j].upto # Nil
Got(j) == Version(job[j].game, job[j].upto)

-----------------------------------------------------------------------------
(* openLiveGame *)

Opening(j, g) ==
    /\ job[j].pc = "idle"
    /\ page' = [page EXCEPT !.game = g]
    /\ job' = [job EXCEPT ![j] = Awaiting("open", g, 0)]

Open(j, g) ==
    /\ used.opens < MaxOpens
    /\ g \in page.games
    /\ Opening(j, g)
    /\ used' = [used EXCEPT !.opens = @ + 1]
    /\ UNCHANGED <<news, seen, socket, buying, announced>>

Opened(j) ==
    /\ Arrived(j, "open")
    /\ Quietly(page, job[j].game, Got(j))
    /\ job' = [job EXCEPT ![j] = Resting]
    /\ UNCHANGED <<news, buying, used>>

-----------------------------------------------------------------------------
(* buySelectedGame *)

\* The price is that of the game selected now; the wallet is awaited.
BuyStart ==
    /\ used.opens < MaxOpens
    /\ buying = Nil /\ page.game # Nil
    /\ buying' = page.game
    /\ used' = [used EXCEPT !.opens = @ + 1]
    /\ UNCHANGED <<news, page, seen, job, socket, announced>>

\* The cards bought are of the game selected by then, which is opened.
Buy(j) ==
    /\ buying # Nil
    /\ buying' = Nil
    /\ Opening(j, page.game)
    /\ UNCHANGED <<news, seen, socket, announced, used>>

BuyFails ==
    /\ buying # Nil
    /\ buying' = Nil
    /\ Failure
    /\ UNCHANGED <<news, page, seen, job, socket, announced>>

-----------------------------------------------------------------------------
(* The timer of startEventPolling *)

\* If there are events after the cursor, a snapshot is asked for.
PollEvents ==
    /\ page.polling /\ page.game # Nil
    /\ job[Poller].pc = "idle"
    /\ Version(page.game, Now) > Cursor(page.game)
    /\ job' = [job EXCEPT ![Poller] = Awaiting("poll", page.game, Cursor(page.game))]
    /\ UNCHANGED <<news, page, seen, socket, buying, announced, used>>

Polled ==
    /\ Arrived(Poller, "poll")
    /\ Notifying(job[Poller].game, Got(Poller), job[Poller].after)
    /\ job' = [job EXCEPT ![Poller] = Resting]
    /\ UNCHANGED <<news, socket, buying, used>>

-----------------------------------------------------------------------------
(* The timer of startGlobalRefresh: refreshAutoTick *)

TickStep(pc, next) == job[Tick].pc = pc /\ job' = [job EXCEPT ![Tick] = next]

\* refreshGames takes the list it has if it gets no other.
Refresh(ok) ==
    /\ TickStep("idle", Awaiting("list", Nil, 0))
    /\ IF ok THEN page' = [page EXCEPT !.games = Active] /\ UNCHANGED used
             ELSE Failure /\ UNCHANGED page
    /\ UNCHANGED <<news, seen, socket, buying, announced>>

\* pickAutoLiveGameId: the game selected, or one of the list (a running one before one
\* that has not begun).
Picked == IF page.game \in page.games THEN {page.game} ELSE page.games

\* Variant: what is cached stays.
CachedOnce(got) == [g \in Games |->
    IF g \in got /\ page.cache[g] = Nil THEN Version(g, job[Tick].upto) ELSE page.cache[g]]
Cached(got) == [g \in Games |-> IF g \in got THEN Version(g, job[Tick].upto) ELSE page.cache[g]]

\* The snapshots that came are cached, and syncAutoLiveGame shows the game it picks
\* from the cache, or asks for its snapshot.
TickDue == [Resting EXCEPT !.pc = "due"]
Sync(p, g) ==
    IF p.cache[g] # Nil
    THEN Quietly(p, g, p.cache[g]) /\ TickStep("list", TickDue)
    ELSE /\ page' = p
         /\ TickStep("list", Awaiting("fetch", g, 0))
         /\ UNCHANGED <<seen, announced, socket>>

Refreshed(got) ==
    /\ Arrived(Tick, "list")
    /\ got \subseteq page.games
    /\ IF got = page.games THEN UNCHANGED used ELSE Failure
    /\ LET p == [page EXCEPT !.cache = Cached(got)]
       IN  IF page.games = {}
           THEN TickStep("list", TickDue) /\ UNCHANGED <<page, seen, announced, socket>>
           ELSE \E g \in Picked : Sync(p, g)
    /\ UNCHANGED <<news, buying>>

Fetched ==
    /\ Arrived(Tick, "fetch")
    /\ Quietly(page, job[Tick].game, Got(Tick))
    /\ TickStep("fetch", TickDue)
    /\ UNCHANGED <<news, buying, used>>

\* Without a socket the tick goes on with the selected game.
Watch ==
    /\ TickStep("due", IF page.game = Nil \/ socket # Nil THEN Resting
                       ELSE Awaiting("watch", page.game, Cursor(page.game)))
    /\ UNCHANGED <<news, page, seen, socket, buying, announced, used>>
Watched ==
    /\ Arrived(Tick, "watch")
    /\ Notifying(job[Tick].game, Got(Tick), job[Tick].after)
    /\ TickStep("watch", Resting)
    /\ UNCHANGED <<news, socket, buying, used>>

\* The snapshot of one game does not come: what awaits it is over, or goes on to the
\* rest of the tick.
Fails(j) ==
    /\ job[j].pc \in {"open", "poll", "watch", "fetch"}
    /\ job' = [job EXCEPT ![j] = IF @.pc = "fetch" THEN TickDue ELSE Resting]
    /\ Failure
    /\ UNCHANGED <<news, page, seen, socket, buying, announced>>

-----------------------------------------------------------------------------
(* The socket, at the page *)

\* "connected"
Connect ==
    /\ socket = Nil
    /\ socket' = [sub |-> page.game, key |-> Nil, down |-> <<>>]
    /\ page' = [page EXCEPT !.polling = FALSE]
    /\ UNCHANGED <<news, seen, job, buying, announced, used>>

\* "live_snapshot", which does not concern a page that shows another game
Pushed ==
    /\ socket # Nil /\ socket.down # <<>>
    /\ socket' = [socket EXCEPT !.down = Tail(@)]
    /\ LET push == Head(socket.down)
       IN  IF push.game = page.game
           THEN Notifying(push.game, push.upto, Cursor(push.game))
           ELSE UNCHANGED <<page, seen, announced>>
    /\ UNCHANGED <<news, job, buying, used>>

Disconnect ==
    /\ socket # Nil
    /\ socket' = Nil
    /\ page' = [page EXCEPT !.polling = page.game # Nil]
    /\ Failure
    /\ UNCHANGED <<news, seen, job, buying, announced>>

\* The user opens the page anew; the browser remembers the wins.
Reload ==
    /\ page' = Blank
    /\ job' = [j \in PageJobs |-> Resting]
    /\ socket' = Nil
    /\ buying' = Nil
    /\ Failure
    /\ UNCHANGED <<news, seen, announced>>

-----------------------------------------------------------------------------
LiveInit ==
    /\ news = <<>>
    /\ page = Blank
    /\ seen = {}
    /\ job = [j \in PageJobs |-> Resting]
    /\ socket = Nil
    /\ buying = Nil
    /\ announced = [e \in Ids |-> 0]
    /\ used = [opens |-> 0, faults |-> 0]

User ==
    \/ \E j \in Opens, g \in Games : Open(j, g)
    \/ BuyStart \/ BuyFails
    \/ \E j \in Opens : Buy(j) \/ Opened(j)

Timers ==
    \/ PollEvents \/ Polled
    \/ \E ok \in BOOLEAN : Refresh(ok)
    \/ \E got \in SUBSET Games : Refreshed(got)
    \/ Fetched \/ Watch \/ Watched

Socket == ServerPush \/ Connect \/ Pushed \/ Disconnect

LiveNext ==
    \/ \E s \in Stories : Emit(s)
    \/ \E j \in PageJobs : Read(j) \/ Fails(j)
    \/ User \/ Timers \/ Socket \/ Reload

LiveSpec == LiveInit /\ [][LiveNext]_liveVars

\* Answers come and the timer of the refresh goes on for ever.
LiveFairness ==
    /\ \A j \in PageJobs : WF_liveVars(Read(j))
    /\ \A j \in Opens : WF_liveVars(Opened(j))
    /\ WF_liveVars(Polled) /\ WF_liveVars(Refresh(TRUE)) /\ WF_liveVars(Refreshed(page.games))
    /\ WF_liveVars(Fetched) /\ WF_liveVars(Watch) /\ WF_liveVars(Watched)
LiveFairSpec == LiveSpec /\ LiveFairness
-----------------------------------------------------------------------------
Versions == Ids \cup {0}

LiveTypeOK ==
    /\ \E s \in Stories : IsPrefix(news, s)
    /\ page \in [game : Games \cup {Nil}, shown : [game : Games, upto : Versions] \cup {Nil},
                 games : SUBSET Games, polling : BOOLEAN, lastWin : Versions,
                 cache : [Games -> Versions \cup {Nil}], cursor : [Games -> Versions \cup {Nil}]]
    /\ seen \in SUBSET Ids
    /\ job \in [PageJobs -> [pc : {"idle", "open", "poll", "list", "fetch", "due", "watch"},
                             game : Games \cup {Nil}, after : Versions, upto : Versions \cup {Nil}]]
    /\ socket \in [sub : Games \cup {Nil}, key : Versions \cup {Nil},
                   down : Seq([game : Games, upto : Versions])] \cup {Nil}
    /\ buying \in Games \cup {Nil}
    /\ announced \in [Ids -> Nat]
    \* a page polls only without a socket, and its cursor is not behind what it shows
    /\ page.polling => socket = Nil
    /\ page.shown # Nil => page.cursor[page.shown.game] >= page.shown.upto
    /\ used \in [opens : 0 .. MaxOpens, faults : 0 .. MaxFailures]
-----------------------------------------------------------------------------
(* Properties *)

\* A win is announced once at most, although a poll, a tick and a push may
\* bring it one after the other, each with a cursor of its own, and the
\* page may be loaded anew.
NoticedOnce == \A e \in Ids : announced[e] <= 1

\* When nothing happens any more, the view shows what became of the game
\* it has selected, if the game goes on: whatever was lost, and in whatever order
\* the answers came.
ActiveShown ==
    <>[](page.game \in Active
            => page.shown = [game |-> page.game, upto |-> Version(page.game, Now)])

-----------------------------------------------------------------------------
(* What the code says and does not keep (README.md) *)

\* The cursor of a game the page knows passes a win only with its announcement.
WinsAnnounced ==
    [][\A e \in 1 .. Now :
        LET g == news[e].game IN
        (/\ news[e].kind = "win"
         /\ page.cursor[g] # Nil /\ page'.cursor[g] # Nil
         /\ page.cursor[g] < e /\ e <= page'.cursor[g]) => announced'[e] > 0]_liveVars

\* What is announced is news to the page ("notifyFresh").
NoOldNews ==
    [][\A e \in Ids : announced'[e] > announced[e] => page.cursor[news[e].game] < e]_liveVars

\* The view leaves a game that goes on only if the user opens another.
LastChoiceShown ==
    [][page.game \in Active /\ page'.game \notin {page.game, Nil}
        => \E j \in Opens : Open(j, page'.game)]_liveVars

\* The view of a game never goes back.
NeverBack ==
    [][page.shown # Nil /\ page'.shown # Nil /\ page'.shown.game = page.shown.game
        => page'.shown.upto >= page.shown.upto]_liveVars

\* The cards bought are of the game whose price was compared with the wallet.
BoughtIsPriced == [][\A j \in Opens : Buy(j) => page.game = buying]_liveVars
=============================================================================
