------------------------------- MODULE Panel -------------------------------
(***************************************************************************)
(* The game administration of the Mini App (mini_router.py, /admin/games), *)
(* on the same games as the bot's.  The backend itself writes to the       *)
(* buyers, and to the group when a game is new; the notifier announces new *)
(* games as well, unless the event says that it has been done.             *)
(*                                                                         *)
(* Opening a game reads first and acts on what it has read; the page       *)
(* repeats a request under its key when the network fails.  The other      *)
(* operations hold the row of the game from its reading to the commit, so  *)
(* each is one step.  Bot and Mini App know administrators by the same     *)
(* roles, but the Mini App reads them anew for each request, and shows and *)
(* lets change a game only to who opened it there, or a super admin.       *)
(***************************************************************************)
EXTENDS Host

VARIABLES
    created,    \* the settings mini_acg:..., one for each click that opened or found a game
    acts,       \* the requests to open a game that the backend works on
    repeats,    \* the pages that got no answer and ask once more
    marked,     \* mini_lobby_refund_notice_sent: the games whose buyers were told of refunds
    announced,  \* the announcements of new games, as often as they were sent
    flagged,    \* the games whose event says that they are announced
    noticed     \* GAME_CREATED_NOTICE: the games the notifier is done with

panelVars == <<created, acts, repeats, marked, announced, flagged, noticed>>

PanelInit ==
    /\ created = {}
    /\ acts = {} /\ repeats = {}
    /\ marked = {}
    /\ announced = EmptyBag
    /\ flagged = {} /\ noticed = {}

\* Games that were opened here are known by who did.
Opened      == {r \in created : ~ r.reused}
HasRole(p)  == p \in Static \cup Supers \/ roles[p] \cap {"ADMIN", "SUPER_ADMIN", "GAME_OPERATOR"} # {}
IsSuper(p)  == p \in Supers \/ "SUPER_ADMIN" \in roles[p]
Manages(p, g) ==
    /\ HasRole(p)
    /\ IsSuper(p) \/ \E r \in Opened : r.game = g /\ r.by = p

-----------------------------------------------------------------------------
(* Opening a game *)

\* A request sees the row of its click and the active game of the topic.
Arrive(p, key, t, attempt) ==
    acts' = acts \cup {[kind |-> "open", by |-> p, key |-> key, topic |-> t, attempt |-> attempt,
                        found |-> \E r \in created : r.key = key, active |-> Active(t), game |-> None]}

MiniOpen(p, t, lost) ==
    /\ UpdateCall("games", lost)
    /\ HasRole(p)
    /\ Arrive(p, left["games"], t, 1)
    /\ repeats' = IF lost THEN repeats \cup {[by |-> p, key |-> left["games"], topic |-> t]} ELSE repeats
    /\ UNCHANGED <<hostVars, created, marked, announced, flagged, noticed>>

\* fetchWithRetry: once more, under the same key.
Again(r) ==
    /\ r \in repeats
    /\ HasRole(r.by)
    /\ Arrive(r.by, r.key, r.topic, 2)
    /\ repeats' = repeats \ {r}
    /\ Continue
    /\ UNCHANGED <<hostVars, created, marked, announced, flagged, noticed>>

\* The request has found its row, or cannot insert it: then its game is not made either.
\* Variant: the row that was committed in between is overwritten.
IsRepeatedUnchecked(x) == x.found
IsRepeated(x) == x.found \/ \E r \in created : r.key = x.key

OpenCommit(x) ==
    /\ x \in acts
    /\ x.kind = "open"
    /\ LET fresh == x.active = None
           game  == IF fresh THEN Len(games) + 1 ELSE x.active
       IN  IF IsRepeated(x)
           THEN acts' = acts \ {x} /\ UNCHANGED <<games, created>>
           ELSE /\ games' = IF fresh THEN Append(games, NewGame(x.topic)) ELSE games
                /\ created' = created \cup {[key |-> x.key, game |-> game, by |-> x.by, reused |-> ~ fresh]}
                /\ acts' = (acts \ {x}) \cup
                           (IF fresh THEN {[x EXCEPT !.kind = "announce", !.game = game]} ELSE {})
    /\ Continue
    /\ UNCHANGED <<host, errands, confirms, answers, unsent, notice>>
    /\ UNCHANGED <<repeats, marked, announced, flagged, noticed>>

\* The notice goes out after the commit, and the event is flagged in a second one.
SendCreated(x, sent) ==
    /\ x \in acts
    /\ x.kind = "announce"
    /\ IF sent THEN Continue ELSE Fault
    /\ announced' = IF sent THEN announced (+) SetToBag({x.game}) ELSE announced
    /\ acts' = (acts \ {x}) \cup (IF sent THEN {[x EXCEPT !.kind = "flag"]} ELSE {})
    /\ UNCHANGED <<hostVars, created, repeats, marked, flagged, noticed>>

FlagEvent(x) ==
    /\ x \in acts
    /\ x.kind = "flag"
    /\ flagged' = flagged \cup {x.game}
    /\ acts' = acts \ {x}
    /\ Continue
    /\ UNCHANGED <<hostVars, created, repeats, marked, announced, noticed>>

\* The notifier comes upon a new game that is not over.
NoticeNew(r) ==
    /\ r \in Opened
    /\ r.game \notin noticed /\ games[r.game].status # "ENDED"
    /\ announced' = IF r.game \in flagged THEN announced ELSE announced (+) SetToBag({r.game})
    /\ noticed' = noticed \cup {r.game}
    /\ Continue
    /\ UNCHANGED <<hostVars, created, acts, repeats, marked, flagged>>

-----------------------------------------------------------------------------
(* Closing a lobby, and the draw *)

\* _mini_notify_lobby_cancel_refunds: what the buyers U are told, once for a game.
RefundNotices(g, U) == IF g \in marked THEN {} ELSE {[user |-> u, game |-> g, what |-> "refund"] : u \in U}

\* The buyers get their message before the commit; a game that is over is closed once more.
MiniClose(p, g, U, committed) ==
    /\ UpdateCall("games", ~ committed \/ U # ClosedLobby(g)[g].refunded)
    /\ Manages(p, g)
    /\ Closable(g)
    /\ U \subseteq ClosedLobby(g)[g].refunded
    /\ games' = IF committed THEN ClosedLobby(g) ELSE games
    /\ notice' = notice \cup RefundNotices(g, U)
    /\ marked' = IF committed THEN marked \cup {g} ELSE marked
    /\ UNCHANGED <<host, errands, confirms, answers, unsent>>
    /\ UNCHANGED <<created, acts, repeats, announced, flagged, noticed>>

\* An operation on the row of a game and nothing else.
Change(p, g, new) ==
    /\ Update("games")
    /\ Manages(p, g)
    /\ games' = new
    /\ UNCHANGED <<host, errands, confirms, answers, unsent, notice, panelVars>>

MiniSelectMode(p, g, m) ==
    /\ games[g].status = "LOBBY"
    /\ Change(p, g, [games EXCEPT ![g].mode = m])

MiniStart(p, g) == Startable(g) /\ Change(p, g, Started(g))

MiniCall(p, g, n, ends) == Callable(g, n) /\ Change(p, g, Called(g, n, ends))

MiniUndo(p, g) == Drawn(g) /\ Change(p, g, TakenBack(g))

-----------------------------------------------------------------------------
(* The link of the broadcast *)

MiniSetLink(p, g, l) == Change(p, g, [games EXCEPT ![g].link = l])

MiniClearLink(p, g) == Change(p, g, [games EXCEPT ![g].link = None])

\* All buyers of the moment; nothing remembers whom the link did not reach.
MiniSendLink(p, g, U) ==
    /\ UpdateCall("games", U # games[g].buyers)
    /\ Manages(p, g)
    /\ games[g].link # None
    /\ U \subseteq games[g].buyers
    /\ notice' = notice \cup {[user |-> u, game |-> g, what |-> games[g].link] : u \in U}
    /\ UNCHANGED <<games, host, errands, confirms, answers, unsent, panelVars>>

-----------------------------------------------------------------------------

PanelNext ==
    \/ \E p \in People :
         \/ \E t \in Topics, lost \in BOOLEAN : MiniOpen(p, t, lost)
         \/ \E g \in GameIds :
              \/ MiniStart(p, g) \/ MiniUndo(p, g) \/ MiniClearLink(p, g)
              \/ \E m \in {"MANUAL", "AUTO"} : MiniSelectMode(p, g, m)
              \/ \E n \in Numbers, ends \in BOOLEAN : MiniCall(p, g, n, ends)
              \/ \E l \in Links : MiniSetLink(p, g, l)
              \/ \E U \in SUBSET Buyers : MiniSendLink(p, g, U) \/ \E committed \in BOOLEAN : MiniClose(p, g, U, committed)
    \/ \E r \in repeats : Again(r)
    \/ \E x \in acts : OpenCommit(x) \/ FlagEvent(x) \/ \E sent \in BOOLEAN : SendCreated(x, sent)
    \/ \E r \in created : NoticeNew(r)

-----------------------------------------------------------------------------
(* Properties *)

PanelOK ==
    /\ \A r \in created : r.game \in GameIds /\ r.by \in People
    /\ \A x \in acts :
         /\ x.by \in People /\ x.topic \in Topics /\ x.active \in GameIds \cup {None}
         /\ x.kind # "open" => x.game \in GameIds
    /\ \A r \in repeats : r.by \in People /\ r.topic \in Topics
    /\ IsABag(announced)
    /\ marked \cup flagged \cup noticed \cup BagToSet(announced) \subseteq GameIds

\* A click opens one game, for one administrator, however often its request is repeated
\* and however the requests run at the same time.
OneGamePerClick == \A q, r \in Opened : q.key = r.key => q.game = r.game

\* What the code does not keep (README.md): the notifier may come by before the event is
\* flagged (mini_router.py:3994-4000, notifier.py:1351-1367).
OneAnnouncement == \A g \in BagToSet(announced) : announced[g] = 1
=============================================================================
