------------------------------ MODULE AutoDraw ------------------------------
(***************************************************************************)
(* The automatic draw of one game: an administrator selects the mode and   *)
(* commits to an order of the numbers, starts, pauses and resumes the      *)
(* draw, and a worker calls the next number when its time has come         *)
(* (game_draw_mode_service.py, game_auto_draw_service.py,                  *)
(* game_auto_draw_worker.py, GameService.start_game and call_number with   *)
(* source AUTO, and the triggers of migration 20260916_0007).              *)
(*                                                                         *)
(* The two rows involved are locked in opposite orders: a request locks    *)
(* the games row and then the game_auto_draws row, the worker the other    *)
(* way round.  Each lock is a step of its own here; MySQL breaks the tie   *)
(* by aborting one of the two (Drop, Fail).  What Game.tla says of cards,  *)
(* wallets and prizes is reduced to Wins: a game ends when the numbers of  *)
(* one of these rows are on the board.                                     *)
(*                                                                         *)
(* The commitment of an order, its SHA-256, stands for the order itself.   *)
(***************************************************************************)
EXTENDS Naturals, Sequences, FiniteSets

CONSTANTS
    Limits,     \* the values of the setting max_number
    Shuffles,   \* the orders the shuffle can produce
    Wins,       \* the rows of the cards that were sold, as sets of numbers
    Intervals,  \* AUTO_DRAW_INTERVALS
    Slots,      \* the requests the server handles at the same time
    Workers,    \* the worker cycles that can overlap (the Redis lock has a TTL)
    MaxLost,    \* bound: commits of the worker that are lost
    None, Idle

Images(q) == {q[i] : i \in 1..Len(q)}

\* A row of game_auto_draws; the timer stands for next_draw_at.
Control ==
    [status : {"ARMED", "RUNNING", "PAUSED", "STOPPED"}, interval : Intervals,
     seq : Shuffles, cursor : Nat, timer : {"off", "set", "due"}]

ASSUME AutoDrawAssumption ==
    /\ Limits \subseteq Nat \ {0}
    /\ \A q \in Shuffles :
          /\ q \in Seq(Nat) /\ Len(q) > 0
          /\ Images(q) = 1..Len(q)
          /\ \A i, j \in 1..Len(q) : q[i] = q[j] => i = j
    /\ Wins \subseteq SUBSET (Nat \ {0})
    /\ {} \notin Wins
    /\ Slots \cap Workers = {}
    /\ MaxLost \in Nat
    /\ None \notin Control \cup Shuffles \cup Slots \cup Workers

VARIABLES
    limit,      \* the setting max_number
    game,       \* the columns of the games row that matter here
    control,    \* the game_auto_draws row, None without one
    called,     \* game_called_numbers in the order of their ids
    answers,    \* the worker's calls whose answer is cached in Redis
    published,  \* the commitment in the event GAME_STARTED
    req,        \* req[s]: the request in slot s
    worker,     \* worker[w]: how far a cycle of the worker has come
    held,       \* held[r]: who has locked the row r
    lost        \* how many commits of the worker were lost

vars == <<limit, game, control, called, answers, published, req, worker, held, lost>>

Board == Images(called)

-----------------------------------------------------------------------------
(* Requests *)

Asked(s, op) == req[s] # Idle /\ req[s].op = op

\* A request under the lock of the games row, and one under both locks.
Serving(s, op)    == Asked(s, op) /\ held.game = s
ServingBoth(s, op) == Serving(s, op) /\ held.control = None

\* Commit or rollback: the request is over and its locks are free.
Done(s) ==
    /\ req' = [req EXCEPT ![s] = Idle]
    /\ held' = [held EXCEPT !.game = IF @ = s THEN None ELSE @]

\* A route reads the setting, and with it fixes the snapshot of the later plain
\* reads, before the service locks the game.  Only these two use what they read.
Asks ==
    {[op |-> "auto", interval |-> i, max |-> limit] : i \in Intervals}
    \cup {[op |-> "start", seen |-> control]}

Ask(s) ==
    /\ req[s] = Idle
    /\ \E r \in Asks : req' = [req EXCEPT ![s] = r]
    /\ UNCHANGED <<limit, game, control, called, answers, published, worker, held, lost>>

LockGame(s) ==
    /\ held.game = None
    /\ held' = [held EXCEPT !.game = s]
    /\ \/ req[s] # Idle /\ UNCHANGED req
       \/ /\ req[s] = Idle
          /\ \E o \in {"manual", "pause", "resume", "stop", "close"} :
                req' = [req EXCEPT ![s] = [op |-> o]]
    /\ UNCHANGED <<limit, game, control, called, answers, published, worker, lost>>

\* A rejection, a no-op, a failure, or the victim of a deadlock.
Drop(s) ==
    /\ req[s] # Idle
    /\ Done(s)
    /\ UNCHANGED <<limit, game, control, called, answers, published, worker, lost>>

\* Variant: the mode can be selected again while the game runs.
SelectableAlways == TRUE
Selectable == game.status = "LOBBY" /\ ~ game.locked /\ called = <<>>

Armed(i, q) ==
    [status |-> "ARMED", interval |-> i, seq |-> q, cursor |-> 0, timer |-> "off"]

\* select_mode AUTO; the same selection again keeps the order (Drop).
SelectAuto(s) ==
    /\ ServingBoth(s, "auto")
    /\ Selectable
    /\ LET i == req[s].interval
       IN  /\ ~ /\ game.mode = "AUTO"
                /\ game.interval = i
                /\ control # None
                /\ control.status = "ARMED"
           /\ \E q \in Shuffles :
                /\ Len(q) = req[s].max
                /\ control' = Armed(i, q)
           /\ game' = [game EXCEPT !.mode = "AUTO", !.interval = i]
    /\ Done(s)
    /\ UNCHANGED <<limit, called, answers, published, worker, lost>>

\* select_mode MANUAL
SelectManual(s) ==
    /\ ServingBoth(s, "manual")
    /\ Selectable
    /\ game.mode = "MANUAL" => control # None
    /\ control' = None
    /\ game' = [game EXCEPT !.mode = "MANUAL", !.interval = None]
    /\ Done(s)
    /\ UNCHANGED <<limit, called, answers, published, worker, lost>>

Ready(c) == c # None /\ c.status = "ARMED" /\ c.interval = game.interval

\* The control that the update of the game activates, if it is still armed.
Activated ==
    IF control # None /\ control.status = "ARMED"
    THEN [control EXCEPT !.status = "RUNNING", !.timer = "set"]
    ELSE control

\* start_game, and the trigger before the update after it, look at the control
\* with plain reads: they see that of the snapshot, and its commitment is
\* published.  The trigger after the update activates the control that is there.
Start(s) ==
    /\ ServingBoth(s, "start")
    /\ game.status = "LOBBY"
    /\ ~ game.locked
    /\ \/ game.mode = "MANUAL" /\ UNCHANGED control
       \/ game.mode = "AUTO" /\ Ready(req[s].seen) /\ control' = Activated
    /\ game' = [game EXCEPT !.status = "RUNNING", !.locked = TRUE]
    /\ published' = IF req[s].seen = None THEN None ELSE req[s].seen.seq
    /\ Done(s)
    /\ UNCHANGED <<limit, called, answers, worker, lost>>

\* close_lobby_game leaves the control alone.
Close(s) ==
    /\ Serving(s, "close")
    /\ game.status = "LOBBY"
    /\ game' = [game EXCEPT !.status = "ENDED"]
    /\ Done(s)
    /\ UNCHANGED <<limit, control, called, answers, published, worker, lost>>

InAutoGame == game.mode = "AUTO" /\ game.locked /\ game.status = "RUNNING"

\* pause
Pause(s) ==
    /\ ServingBoth(s, "pause")
    /\ InAutoGame
    /\ control # None
    /\ control.status = "RUNNING"
    /\ control' = [control EXCEPT !.status = "PAUSED", !.timer = "off"]
    /\ Done(s)
    /\ UNCHANGED <<limit, game, called, answers, published, worker, lost>>

\* Variant of the resumed control: the next draw is not scheduled.
ResumedUntimed == [control EXCEPT !.status = "RUNNING"]
Resumed == [control EXCEPT !.status = "RUNNING", !.timer = "set"]

\* resume
Resume(s) ==
    /\ ServingBoth(s, "resume")
    /\ InAutoGame
    /\ control # None
    /\ control.status = "PAUSED"
    /\ control.cursor < Len(control.seq)
    /\ control' = Resumed
    /\ Done(s)
    /\ UNCHANGED <<limit, game, called, answers, published, worker, lost>>

Stoppable == ~ (game.status = "RUNNING" /\ game.locked)

\* stop
Stop(s) ==
    /\ ServingBoth(s, "stop")
    /\ control # None
    /\ Stoppable
    /\ control' = [control EXCEPT !.status = "STOPPED", !.timer = "off"]
    /\ Done(s)
    /\ UNCHANGED <<limit, game, called, answers, published, worker, lost>>

\* update_setting of max_number, refused while a game is running.
SetLimit(m) ==
    /\ game.status # "RUNNING"
    /\ m # limit
    /\ limit' = m
    /\ UNCHANGED <<game, control, called, answers, published, req, worker, held, lost>>

-----------------------------------------------------------------------------
(* The worker *)

\* The time of the next draw has come.
Elapse ==
    /\ control # None
    /\ control.timer = "set"
    /\ control' = [control EXCEPT !.timer = "due"]
    /\ UNCHANGED <<limit, game, called, answers, published, req, worker, held, lost>>

\* run_once lists the games that are due, in a session of its own.
Pick(w) ==
    /\ worker[w] = "idle"
    /\ control # None
    /\ control.status = "RUNNING"
    /\ control.timer = "due"
    /\ worker' = [worker EXCEPT ![w] = "picked"]
    /\ UNCHANGED <<limit, game, control, called, answers, published, req, held, lost>>

\* _draw_game locks the control, looks at its status and not at its time.
LockControl(w) ==
    /\ worker[w] = "picked"
    /\ held.control = None
    /\ control # None
    /\ control.status = "RUNNING"
    /\ worker' = [worker EXCEPT ![w] = "locked"]
    /\ held' = [held EXCEPT !.control = w]
    /\ UNCHANGED <<limit, game, control, called, answers, published, req, lost>>

Released(w) ==
    /\ worker' = [worker EXCEPT ![w] = "idle"]
    /\ held' = [held EXCEPT !.control = IF @ = w THEN None ELSE @]

\* The control is not running any more, or anything fails and is rolled back.
Fail(w) ==
    /\ worker[w] # "idle"
    /\ Released(w)
    /\ UNCHANGED <<limit, game, control, called, answers, published, req, lost>>

\* The positions of the order that are left to draw, and the next of them.
Remaining == {i \in control.cursor + 1 .. Len(control.seq) : control.seq[i] \notin Board}
NextUp    == CHOOSE i \in Remaining : \A j \in Remaining : i <= j

\* The checks of the worker.  It halts a control that fails one, which cannot
\* happen as long as AlwaysDrawable holds.
Drawable ==
    /\ InAutoGame
    /\ game.interval = control.interval
    /\ Remaining # {}

\* The control after the draw of position i.
Status(i, ended) ==
    IF ended THEN "STOPPED"
    ELSE IF i < Len(control.seq) THEN "RUNNING" ELSE "PAUSED"
Timer(status) == IF status = "RUNNING" THEN "set" ELSE "off"

\* Variants: the cursor stays; the next draw is not scheduled.
AdvancedNot(i, ended) ==
    [control EXCEPT !.status = Status(i, ended), !.timer = Timer(Status(i, ended))]
AdvancedUntimed(i, ended) ==
    [control EXCEPT !.cursor = i, !.status = Status(i, ended), !.timer = "off"]
Advanced(i, ended) ==
    [control EXCEPT !.cursor = i,
                    !.status = Status(i, ended),
                    !.timer = Timer(Status(i, ended))]

\* Variant: the key of the cache has the cursor before the last draw.
AnswerBefore(i, won) == [cursor |-> i - 2, number |-> control.seq[i], won |-> won]
Answer(i, won) == [cursor |-> i - 1, number |-> control.seq[i], won |-> won]

Cached(i) == \E won \in BOOLEAN : Answer(i, won) \in answers

\* Variant: the number just called is not counted.
CompletesBefore(n) == \E row \in Wins : row \subseteq Board
Completes(n) == \E row \in Wins : row \subseteq Board \cup {n}

\* The worker holds the control and gets the game.
Drawing(w) ==
    /\ worker[w] = "locked"
    /\ held.game = None
    /\ Drawable

\* call_number with source AUTO accepts the next number.
Callable(w) ==
    /\ Drawing(w)
    /\ ~ Cached(NextUp)
    /\ control.seq[NextUp] <= limit

Draw(w) ==
    /\ Callable(w)
    /\ LET n   == control.seq[NextUp]
           won == Completes(n)
       IN  /\ called' = Append(called, n)
           /\ game' = [game EXCEPT !.status = IF won THEN "ENDED" ELSE @]
           /\ answers' = answers \cup {Answer(NextUp, won)}
           /\ control' = Advanced(NextUp, won)
    /\ Released(w)
    /\ UNCHANGED <<limit, published, req, lost>>

\* The answer is cached and the commit that follows is lost.
DrawLost(w) ==
    /\ Callable(w)
    /\ lost < MaxLost
    /\ lost' = lost + 1
    /\ answers' = answers \cup {Answer(NextUp, Completes(control.seq[NextUp]))}
    /\ Released(w)
    /\ UNCHANGED <<limit, game, control, called, published, req>>

\* call_number answers from the cache and the worker goes on as if it had called.
DrawCached(w) ==
    /\ Drawing(w)
    /\ Cached(NextUp)
    /\ control' = Advanced(NextUp, Answer(NextUp, TRUE) \in answers)
    /\ Released(w)
    /\ UNCHANGED <<limit, game, called, answers, published, req, lost>>

\* The answers expire (six hours).
Expire ==
    /\ answers # {}
    /\ answers' = {}
    /\ UNCHANGED <<limit, game, control, called, published, req, worker, held, lost>>

-----------------------------------------------------------------------------
\* A lobby without a draw mode whose cards have been sold.
Init ==
    /\ limit \in Limits
    /\ game = [status |-> "LOBBY", mode |-> "NONE", interval |-> None, locked |-> FALSE]
    /\ control = None
    /\ called = <<>>
    /\ answers = {}
    /\ published = None
    /\ req = [s \in Slots |-> Idle]
    /\ worker = [w \in Workers |-> "idle"]
    /\ held = [game |-> None, control |-> None]
    /\ lost = 0

Serve(s) ==
    \/ SelectAuto(s)
    \/ SelectManual(s)
    \/ Start(s)
    \/ Close(s)
    \/ Pause(s)
    \/ Resume(s)
    \/ Stop(s)
    \/ Drop(s)

Work(w) == Draw(w) \/ DrawCached(w)

Next ==
    \/ \E m \in Limits : SetLimit(m)
    \/ \E s \in Slots : Ask(s) \/ LockGame(s) \/ Serve(s)
    \/ Elapse
    \/ Expire
    \/ \E w \in Workers : Pick(w) \/ LockControl(w) \/ Work(w) \/ DrawLost(w) \/ Fail(w)

\* Requests end and time passes.  The worker polls every second and a request
\* takes milliseconds, so that no step of the worker finds the game locked for
\* ever or fails for ever.
Fairness ==
    /\ \A s \in Slots : WF_vars(Serve(s))
    /\ WF_vars(Elapse)
    /\ \A w \in Workers :
          /\ SF_vars(held.game = None /\ Pick(w))
          /\ SF_vars(held.game = None /\ LockControl(w))
          /\ SF_vars(Work(w))

Spec     == Init /\ [][Next]_vars
FairSpec == Spec /\ Fairness
-----------------------------------------------------------------------------
(* Types *)

Numbers == UNION {1..m : m \in Limits}

GameRow ==
    [status : {"LOBBY", "RUNNING", "ENDED"}, mode : {"NONE", "MANUAL", "AUTO"},
     interval : Intervals \cup {None}, locked : BOOLEAN]
Request ==
    [op : {"auto"}, interval : Intervals, max : Limits]
    \cup [op : {"start"}, seen : Control \cup {None}]
    \cup [op : {"manual", "pause", "resume", "stop", "close"}]

TypeOK ==
    /\ limit \in Limits
    /\ game \in GameRow
    /\ control \in Control \cup {None}
    /\ called \in Seq(Numbers)
    /\ answers \subseteq [cursor : Nat, number : Numbers, won : BOOLEAN]
    /\ published \in Shuffles \cup {None}
    /\ req \in [Slots -> Request \cup {Idle}]
    /\ worker \in [Workers -> {"idle", "picked", "locked"}]
    /\ held \in [game : Slots \cup {None}, control : Workers \cup {None}]
    /\ lost \in 0..MaxLost

-----------------------------------------------------------------------------
(* Properties *)

Order == IF control = None THEN None ELSE control.seq

\* What has been drawn, as positions of the order.
Position(q, n) == CHOOSE j \in 1..Len(q) : q[j] = n
Positions == [i \in 1..Len(called) |-> Position(control.seq, called[i])]

DrawStatus == IF control = None THEN "STOPPED" ELSE control.status

Phase ==
    IF game.status = "LOBBY" THEN "lobby"
    ELSE IF DrawStatus = "RUNNING" THEN "open"
    ELSE IF DrawStatus = "PAUSED" THEN "paused"
    ELSE "over"

Committed == INSTANCE DrawSpec WITH
    Orders <- Shuffles, order <- Order, drawn <- Positions, phase <- Phase

\* Whatever requests and worker cycles overlap, fail or lose their commit, the
\* order of a game is fixed when it starts, its numbers come in that order, each
\* once, and none while the draw is paused or over.
DrawnAsCommitted == Committed!Spec

\* As long as no commit is lost the draw skips no number: the board is the part
\* of the order that the cursor has passed.
NothingSkipped ==
    lost = 0 /\ control # None => called = SubSeq(control.seq, 1, control.cursor)

\* A control that runs belongs to a running game it can draw for, so that the
\* worker never has to halt it, and its next draw is scheduled.
AlwaysDrawable ==
    control # None /\ control.status = "RUNNING" => Drawable /\ control.timer # "off"

\* The mode and the interval of the game and its control agree, however
\* selections, stops, starts and closes follow each other.
ControlOfMode ==
    /\ game.mode = "AUTO" <=> control # None
    /\ control # None => control.interval = game.interval
    /\ control # None /\ ~ game.locked =>
          /\ control.status \in {"ARMED", "STOPPED"}
          /\ control.cursor = 0

Complete(board) == \E row \in Wins : row \subseteq board

\* The draw ends the game with the call that completes the first row and with
\* no other, also when the call before it was lost.
EndsWithRow ==
    /\ game.status = "RUNNING" => ~ Complete(Board)
    /\ game.status = "ENDED" /\ called # <<>> =>
          /\ Complete(Board)
          /\ ~ Complete(Images(SubSeq(called, 1, Len(called) - 1)))

\* With one request at a time, a running draw comes to an end, unless an
\* administrator pauses it, a commit is lost, or max_number was lowered after
\* the order was chosen.
DrawnToTheEnd ==
    InAutoGame ~> \/ game.status = "ENDED"
                  \/ DrawStatus = "PAUSED"
                  \/ lost > 0
                  \/ control # None /\ limit < Len(control.seq)

-----------------------------------------------------------------------------
(* What the code says and does not keep (README.md) *)

\* The draw of a running game is paused and never stopped
\* (game_auto_draw_service.py:170, game_auto_draw_worker.py:135).
NotStoppedWhileRunning == InAutoGame => control.status # "STOPPED"

\* The commitment published at the start is that of the order that is drawn.
PublishedIsDrawn == InAutoGame => published = control.seq

\* A running game draws numbers that can be called: max_number is locked
\* meanwhile (settings_router.py:53).
OrderWithinLimit == InAutoGame => Len(control.seq) <= limit
=============================================================================
