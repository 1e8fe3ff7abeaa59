-------------------------------- MODULE Host --------------------------------
(***************************************************************************)
(* The game administrators at the bot (routers/admin_games.py,             *)
(* routers/admin_draw_mode.py): they open a game for a topic, close its    *)
(* lobby with a reason and refunds, start it, call and undo numbers, and   *)
(* send the link of the live broadcast to the buyers.                      *)
(*                                                                         *)
(* A conversation remembers what it is about, in Redis; the buttons carry  *)
(* the game and stay on the screen.  A handler that goes on after a call   *)
(* of the backend is an errand, and others run meanwhile.  All of them use *)
(* one account of the backend (ApiClient.admin_headers), so that keys are  *)
(* shared.  The backend does a call in one step, except where it reads     *)
(* first and acts on what it has read; how rows are locked, and which call *)
(* wins, is in Game.tla.  Every administrator writes from one chat.  Pages *)
(* that only show something, and the refusal of unreadable input, are left *)
(* out; so is the end of a conversation with somebody who is no longer     *)
(* admitted.                                                               *)
(***************************************************************************)
EXTENDS Acl, Bags

CONSTANTS
    Topics,         \* the topics games are opened for
    Buyers,         \* the users who buy cards
    Numbers,        \* the numbers that are called
    Links,          \* links of broadcasts
    FirstGames,     \* the games there may be at first
    MaxFailed       \* how many failed deliveries a broadcast remembers

\* The row of a game, as far as administrators are concerned.
Row ==
    [topic : Topics, status : {"LOBBY", "RUNNING", "ENDED"}, mode : {None, "MANUAL", "AUTO"},
     buyers : SUBSET Buyers, calls : Seq([number : Nat, ends : BOOLEAN]), link : Links \cup {None},
     refunded : SUBSET Buyers]

ASSUME HostAssumption ==
    /\ None \notin Topics \cup Links \cup {"price", "reason", "number", "url", "MANUAL", "AUTO"}
    /\ Numbers \subseteq Nat
    /\ MaxFailed \in Nat \ {0}
    /\ FirstGames \subseteq Seq(Row)
    /\ \A F \in FirstGames : \A g \in DOMAIN F :
         /\ F[g].refunded = {}
         /\ F[g].status = "LOBBY" => F[g].calls = <<>>
         /\ F[g].status = "RUNNING" => F[g].mode # None /\ F[g].buyers # {}

VARIABLES
    games,      \* games[g]: topic, status, mode, buyers, calls, link, and who was refunded
    host,       \* host[p]: the conversation of an administrator and what it is about
    errands,    \* the handlers that wait for the backend or send messages
    confirms,   \* the pages that ask whether a call is to be undone
    answers,    \* the answers to undo that the backend remembers, and how often it has undone
    unsent,     \* LIVE_SEND_CACHE: who the last broadcast of a game from a chat did not reach
    notice      \* what buyers were told

hostVars == <<games, host, errands, confirms, answers, unsent, notice>>

GameIds == DOMAIN games
Idle    == [state |-> None, about |-> None]

HostInit ==
    /\ games \in FirstGames
    /\ host = [p \in People |-> Idle]
    /\ errands = {}
    /\ confirms = {}
    /\ answers = EmptyBag
    /\ unsent = {}
    /\ notice = {}

\* An update of an administrator, for one of the scenes.
From(p, part) == Update(part) /\ Admitted(p)
Put(p, state, about) == host' = [host EXCEPT ![p] = [state |-> state, about |-> about]]
Errand(p, part, kind, about, todo, data) ==
    errands' = errands \cup {[kind |-> kind, by |-> p, no |-> left[part], about |-> about,
                              todo |-> todo, data |-> data]}

-----------------------------------------------------------------------------
(* Opening a game *)

\* _get_active_game: the newest game of the topic that is not over.
Active(t) ==
    LET open == {g \in GameIds : games[g].topic = t /\ games[g].status # "ENDED"}
    IN  IF open = {} THEN None ELSE CHOOSE g \in open : \A h \in open : h <= g

\* _open_create_price_step drops the conversation there was.
PriceStep(p, t) == Put(p, "price", t)

\* admin_games_ensure_active, admin_games_ensure_topic
EnsureTopic(p, t) ==
    /\ From(p, "create")
    /\ PriceStep(p, t)
    /\ UNCHANGED <<games, errands, confirms, answers, unsent, notice>>

\* The backend looks for a game and then makes one if there was none.
PriceSubmit(p) ==
    /\ host[p].state = "price"
    /\ From(p, "create")
    /\ Errand(p, "create", "create", host[p].about, None, Active(host[p].about))
    /\ UNCHANGED <<games, host, confirms, answers, unsent, notice>>

\* The button that cancels the closing ends the conversation, whatever it is about.
CloseCancel(p) ==
    /\ host[p] # Idle
    /\ From(p, "close")
    /\ Put(p, None, None)
    /\ UNCHANGED <<games, errands, confirms, answers, unsent, notice>>

\* The other cancel buttons and the list of the games.
Leave(p, part) ==
    /\ host[p] # Idle
    /\ From(p, part)
    /\ Put(p, None, None)
    /\ UNCHANGED <<games, errands, confirms, answers, unsent, notice>>

NewGame(t) ==
    [topic |-> t, status |-> "LOBBY", mode |-> None, buyers |-> {}, calls |-> <<>>, link |-> None,
     refunded |-> {}]

\* A purchase, from the bot or the Mini App.
Buy(g, u) ==
    /\ Update("sale")
    /\ games[g].status = "LOBBY"
    /\ games' = [games EXCEPT ![g].buyers = @ \cup {u}]
    /\ UNCHANGED <<host, errands, confirms, answers, unsent, notice>>

-----------------------------------------------------------------------------
(* Closing a lobby *)

CloseStart(p, g) ==
    /\ From(p, "close")
    /\ IF games[g].status = "LOBBY" THEN Put(p, "reason", g) ELSE Put(p, None, None)
    /\ UNCHANGED <<games, errands, confirms, answers, unsent, notice>>

\* The buyers are asked for after the game is closed.
\* Variant: before.
CloseSubmitEarly(p) ==
    /\ host[p].state = "reason"
    /\ From(p, "close")
    /\ Errand(p, "close", "close", host[p].about, games[host[p].about].buyers, None)
    /\ UNCHANGED <<games, host, confirms, answers, unsent, notice>>
CloseSubmit(p) ==
    /\ host[p].state = "reason"
    /\ From(p, "close")
    /\ Errand(p, "close", "close", host[p].about, None, None)
    /\ UNCHANGED <<games, host, confirms, answers, unsent, notice>>

\* The participants of the game, and no more errand if there are none.
ReadBuyers(e) ==
    /\ e \in errands
    /\ e.kind = "notify" /\ e.todo = None
    /\ errands' = (errands \ {e}) \cup
                  (IF games[e.about].buyers = {} THEN {} ELSE {[e EXCEPT !.todo = games[e.about].buyers]})
    /\ Continue
    /\ UNCHANGED <<games, host, confirms, answers, unsent, notice>>

\* _notify_lobby_cancel_refunds, one buyer after the other
TellRefund(e, u, sent) ==
    /\ e \in errands
    /\ e.kind = "notify" /\ e.todo # None /\ u \in e.todo
    /\ IF sent THEN Continue ELSE Fault
    /\ notice' = IF sent THEN notice \cup {[user |-> u, game |-> e.about, what |-> "refund"]} ELSE notice
    /\ errands' = (errands \ {e}) \cup
                  (IF e.todo = {u} THEN {} ELSE {[e EXCEPT !.todo = @ \ {u}]})
    /\ UNCHANGED <<games, host, confirms, answers, unsent>>

-----------------------------------------------------------------------------
(* The draw *)

\* The mode can be changed until the start.
SelectMode(p, g, m) ==
    /\ From(p, "draw")
    /\ games[g].status = "LOBBY"
    /\ games' = [games EXCEPT ![g].mode = m]
    /\ UNCHANGED <<host, errands, confirms, answers, unsent, notice>>

\* start_locked_game: a game that runs already is left as it is; one without cards does
\* not start.
Startable(g) == games[g].status = "LOBBY" /\ games[g].mode # None /\ games[g].buyers # {}
Started(g)   == [games EXCEPT ![g].status = "RUNNING"]
StartGame(g) == Startable(g) /\ games' = Started(g)
StartLocked(p, g) ==
    /\ From(p, "draw")
    /\ StartGame(g)
    /\ UNCHANGED <<host, errands, confirms, answers, unsent, notice>>

CallStart(p, g) ==
    /\ From(p, "draw")
    /\ games[g].status = "RUNNING"
    /\ Put(p, "number", g)
    /\ UNCHANGED <<games, errands, confirms, answers, unsent, notice>>

\* The backend refuses a number that was called, and one of a game that is not drawn by hand.
Callable(g, n) ==
    /\ games[g].status = "RUNNING" /\ games[g].mode = "MANUAL"
    /\ \A i \in DOMAIN games[g].calls : games[g].calls[i].number # n
Called(g, n, ends) ==
    [games EXCEPT ![g].calls = Append(@, [number |-> n, ends |-> ends]),
                  ![g].status = IF ends THEN "ENDED" ELSE @]

\* The conversation ends with the call, or when the game is not running any more.
CallSubmit(p, n, ends, lost) ==
    /\ host[p].state = "number"
    /\ UpdateCall("draw", lost)
    /\ Admitted(p)
    /\ LET g == host[p].about
       IN  /\ games' = IF Callable(g, n) THEN Called(g, n, ends) ELSE games
           /\ host' = IF ~ lost /\ (Callable(g, n) \/ games[g].status # "RUNNING")
                      THEN [host EXCEPT ![p] = Idle] ELSE host
    /\ UNCHANGED <<errands, confirms, answers, unsent, notice>>

\* The page carries the second in which it was opened; two may be opened in one.
UndoConfirm(p, g, s) ==
    /\ From(p, "draw")
    /\ s \in {left["draw"]} \cup {page.second : page \in confirms}
    /\ \A page \in confirms : s <= page.second
    /\ confirms' = confirms \cup {[game |-> g, second |-> s]}
    /\ UNCHANGED <<games, host, errands, answers, unsent, notice>>

\* The backend looks for an answer under the key, and then undoes the last call.
UndoExecute(p, page) ==
    /\ From(p, "draw")
    /\ Errand(p, "draw", "undo", page.game, None, [key |-> page, fresh |-> ~ BagIn(page, answers)])
    /\ UNCHANGED <<games, host, confirms, answers, unsent, notice>>

-----------------------------------------------------------------------------
(* What the backend does, and its answer *)

Closable(g) == games[g].status \in {"LOBBY", "ENDED"}
Drawn(g)    == games[g].calls # <<>> /\ games[g].mode = "MANUAL"
Undoable(e) == e.data.fresh /\ Drawn(e.about)

Ensured(e) == IF e.data = None THEN Append(games, NewGame(e.about)) ELSE games
ClosedLobby(g) ==
    IF games[g].status = "LOBBY"
    THEN [games EXCEPT ![g].status = "ENDED", ![g].refunded = games[g].buyers]
    ELSE games
TakenBack(g) == [games EXCEPT ![g].calls = Front(@), ![g].status = "RUNNING"]

Effect(e) ==
    CASE e.kind = "create" -> Ensured(e)
      [] e.kind = "close"  -> ClosedLobby(e.about)
      [] e.kind = "undo"   -> IF Undoable(e) THEN TakenBack(e.about) ELSE games

Remembered(e) ==
    IF e.kind = "undo" /\ Undoable(e) THEN answers (+) SetToBag({e.data.key}) ELSE answers

\* After the answer the conversation is dropped, whatever it is about by now; a refused
\* reason keeps it.  A closed game has its buyers told.
Answer(e) ==
    /\ e \in errands
    /\ e.kind \in {"create", "close", "undo"}
    /\ games' = Effect(e)
    /\ answers' = Remembered(e)
    /\ errands' = (errands \ {e}) \cup
                  (IF e.kind = "close" /\ Closable(e.about) THEN {[e EXCEPT !.kind = "notify"]} ELSE {})
    /\ host' = IF e.kind = "create" \/ (e.kind = "close" /\ Closable(e.about))
               THEN [host EXCEPT ![e.by] = Idle] ELSE host
    /\ Continue
    /\ UNCHANGED <<confirms, unsent, notice>>

\* No answer: the call has failed, or has been done and its answer is lost.  Without
\* the participants nobody is told.
NoAnswer(e, done) ==
    /\ e \in errands
    /\ e.kind \in {"create", "close", "undo"} \/ (e.kind = "notify" /\ e.todo = None /\ ~ done)
    /\ Fault
    /\ games' = IF done THEN Effect(e) ELSE games
    /\ answers' = IF done THEN Remembered(e) ELSE answers
    /\ errands' = errands \ {e}
    /\ UNCHANGED <<host, confirms, unsent, notice>>

-----------------------------------------------------------------------------
(* The link of the broadcast *)

\* _set_live_send_cache and _get_live_send_cache: a list replaces the one there is.
Missed(p, g) == {x \in unsent : x.by = p /\ x.game = g}
NewList(p, g, U, l) ==
    (unsent \ Missed(p, g)) \cup {[by |-> p, game |-> g, user |-> u, link |-> l] : u \in U}

\* The list is dropped when a new link is about to be set.
LiveSet(p, g) ==
    /\ From(p, "live")
    /\ unsent' = unsent \ Missed(p, g)
    /\ Put(p, "url", g)
    /\ UNCHANGED <<games, errands, confirms, answers, notice>>

LiveSubmit(p, l, lost) ==
    /\ host[p].state = "url"
    /\ UpdateCall("live", lost)
    /\ Admitted(p)
    /\ games' = [games EXCEPT ![host[p].about].link = l]
    /\ host' = IF lost THEN host ELSE [host EXCEPT ![p] = Idle]
    /\ UNCHANGED <<errands, confirms, answers, unsent, notice>>

LiveClear(p, g) ==
    /\ From(p, "live")
    /\ unsent' = unsent \ Missed(p, g)
    /\ games' = [games EXCEPT ![g].link = None]
    /\ Put(p, None, None)
    /\ UNCHANGED <<errands, confirms, answers, notice>>

\* The link and the buyers are read, in this order, before the first message is sent.
LiveSend(p, g) ==
    /\ From(p, "live")
    /\ games[g].link # None /\ games[g].buyers # {}
    /\ Errand(p, "live", "send", g, games[g].buyers, [link |-> games[g].link, failed |-> {}])
    /\ UNCHANGED <<games, host, confirms, answers, unsent, notice>>

\* Only those of the list, and the link of then if there is none any more.
LiveResend(p, g) ==
    \E x \in Missed(p, g) :
        /\ From(p, "live")
        /\ Errand(p, "live", "send", g, {y.user : y \in Missed(p, g)},
                  [link |-> IF games[g].link # None THEN games[g].link ELSE x.link, failed |-> {}])
        /\ UNCHANGED <<games, host, confirms, answers, unsent, notice>>

\* _broadcast_live_link
SendLink(e, u, sent) ==
    /\ e \in errands
    /\ e.kind = "send" /\ u \in e.todo
    /\ IF sent THEN Continue ELSE Fault
    /\ notice' = IF sent THEN notice \cup {[user |-> u, game |-> e.about, what |-> e.data.link]} ELSE notice
    /\ errands' = (errands \ {e}) \cup
                  {[e EXCEPT !.todo = @ \ {u},
                             !.data.failed = IF sent \/ Cardinality(@) >= MaxFailed THEN @ ELSE @ \cup {u}]}
    /\ UNCHANGED <<games, host, confirms, answers, unsent>>

LinkSent(e) ==
    /\ e \in errands
    /\ e.kind = "send" /\ e.todo = {}
    /\ unsent' = NewList(e.by, e.about, e.data.failed, e.data.link)
    /\ errands' = errands \ {e}
    /\ Continue
    /\ UNCHANGED <<games, host, confirms, answers, notice>>

\* An hour later the list is gone.
ListExpires(p, g) ==
    /\ Missed(p, g) # {}
    /\ unsent' = unsent \ Missed(p, g)
    /\ Continue
    /\ UNCHANGED <<games, host, errands, confirms, answers, notice>>

-----------------------------------------------------------------------------

HostCrash ==
    /\ errands' = {}
    /\ unsent' = {}
    /\ UNCHANGED <<games, host, confirms, answers, notice>>

HostNext ==
    \/ \E p \in People :
         \/ PriceSubmit(p) \/ CloseCancel(p) \/ CloseSubmit(p)
         \/ \E part \in {"create", "draw", "live"} : Leave(p, part)
         \/ \E t \in Topics : EnsureTopic(p, t)
         \/ \E n \in Numbers, ends, lost \in BOOLEAN : CallSubmit(p, n, ends, lost)
         \/ \E l \in Links, lost \in BOOLEAN : LiveSubmit(p, l, lost)
         \/ \E page \in confirms : UndoExecute(p, page)
         \/ \E g \in GameIds :
              \/ CloseStart(p, g) \/ StartLocked(p, g) \/ CallStart(p, g)
              \/ LiveSet(p, g) \/ LiveClear(p, g) \/ LiveSend(p, g) \/ LiveResend(p, g) \/ ListExpires(p, g)
              \/ \E m \in {"MANUAL", "AUTO"} : SelectMode(p, g, m)
              \/ \E s \in {left["draw"]} \cup {page.second : page \in confirms} : UndoConfirm(p, g, s)
    \/ \E g \in GameIds, u \in Buyers : Buy(g, u)
    \/ \E e \in errands :
         \/ Answer(e) \/ ReadBuyers(e) \/ LinkSent(e)
         \/ \E done \in BOOLEAN : NoAnswer(e, done)
         \/ \E u \in Buyers, sent \in BOOLEAN : TellRefund(e, u, sent) \/ SendLink(e, u, sent)

-----------------------------------------------------------------------------
(* Properties *)

\* Numbers are called of games that run, and buyers refunded of games that never did.
Coherent(x) ==
    /\ x.refunded \subseteq x.buyers
    /\ x.status = "LOBBY" => x.calls = <<>> /\ x.refunded = {}
    /\ x.status = "RUNNING" => x.mode # None /\ x.refunded = {}
    /\ x.refunded # {} => x.calls = <<>>

Short(U) == IsFiniteSet(U) /\ Cardinality(U) <= MaxFailed

HostOK ==
    /\ games \in Seq(Row) /\ \A g \in GameIds : Coherent(games[g])
    /\ DOMAIN host = People
    /\ \A p \in People :
         /\ host[p].state \in {"reason", "number", "url"} => host[p].about \in GameIds
         /\ host[p].state = "price" => host[p].about \in Topics
    /\ \A e \in errands :
         /\ e.by \in People
         /\ IF e.kind = "create" THEN e.about \in Topics ELSE e.about \in GameIds
         /\ e.kind = "send" => Short(e.data.failed)
    /\ \A page \in confirms : page.game \in GameIds
    /\ \A x \in unsent : x.by \in People /\ x.game \in GameIds
    /\ \A p \in People, g \in GameIds : Short(Missed(p, g))

\* When a lobby has been closed, everybody who had bought a card, and so was refunded,
\* is told, as long as nothing fails: also who bought while the administrator wrote the
\* reason, whoever else closed, started or looked at games meanwhile.
RefundedAreTold ==
    faults = 0 =>
        \A g \in GameIds : \A u \in games[g].refunded :
            \/ [user |-> u, game |-> g, what |-> "refund"] \in notice
            \/ \E e \in errands : e.kind = "notify" /\ e.about = g /\ (e.todo = None \/ u \in e.todo)

\* What the code says and does not keep (README.md).
\* "برای هر تاپیک فقط یک بازی فعال (در انتظار شروع/در حال اجرا) نگه داشته می‌شود"
\* (admin_games.py:1186): two requests find no game and make one each.
OneActivePerTopic ==
    \A g, h \in GameIds :
        g # h /\ games[g].topic = games[h].topic => "ENDED" \in {games[g].status, games[h].status}

\* "مبلغ به کیف پول شما برگشت داده شد" (admin_games.py:424): a game that is over is closed
\* once more without an error, and its buyers are told of a refund there was not.
RefundsAsTold == \A n \in notice : n.what = "refund" => n.user \in games[n.game].refunded

\* A confirmation undoes one call (idem_get before the lock, game_service.py:753-764).
UndoneOnce == \A page \in BagToSet(answers) : answers[page] = 1
=============================================================================
