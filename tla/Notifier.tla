------------------------------ MODULE Notifier ------------------------------
(***************************************************************************)
(* The notifier of the bot (workers/notifier.py), the file it keeps        *)
(* (services/notify_store.py), the switch of a user                        *)
(* (routers/notifications.py) and the endpoints it polls                   *)
(* (bot_router.py).                                                        *)
(*                                                                         *)
(* One task polls: the numbers of a game for its subscribers, the report   *)
(* of the game for the live topic, the winner and the end, and the crypto  *)
(* invoices somebody has to be told of.  Sender tasks take the messages to *)
(* users from a queue.  Everything else runs between two awaits of the     *)
(* poll: the users' switches, the calls and undos of the game, the         *)
(* decisions on invoices.                                                  *)
(*                                                                         *)
(* One game stands for each: games share nothing but the queue.  A number  *)
(* is the call that drew it, so a number that is undone and drawn again is *)
(* another call.  A crash stops the bot: queue and memory are gone, the    *)
(* file stays, or is empty if the crash hit a write.  What a delivery says *)
(* is left out; what happened to it is not: a message may be delivered     *)
(* although the bot is told that it was not.                               *)
(***************************************************************************)
EXTENDS Integers, Sequences, FiniteSets, SequencesExt

CONSTANTS
    Users,          \* Telegram users
    Blocked,        \* the users who have blocked the bot
    Players,        \* the users who use the switch
    Invoices,       \* crypto invoices, in the order of their ids
    Owner,          \* Owner[i]: the user of invoice i
    Audiences,      \* audiences of crypto notices, in the order they are served
    Limit,          \* invoices in one page of an audience
    Workers,        \* sender tasks
    QueueSize,      \* capacity of the queue
    Threshold,      \* dead_fail_threshold
    MaxCalls,       \* calls of numbers
    MaxMoves,       \* undos of a call and requests for notices, together
    MaxFaults,      \* failures of a request or a delivery, and crashes
    Idle, None

ASSUME NotifierAssumption ==
    /\ IsFiniteSet(Users) /\ Blocked \subseteq Users /\ Players \subseteq Users
    /\ IsFiniteSet(Workers)
    /\ Invoices \subseteq Nat /\ IsFiniteSet(Invoices)
    /\ Owner \in [Invoices -> Users]
    /\ Audiences \in Seq({"admin", "user", "pending", "variance"})
    /\ IsInjective(Audiences) /\ "admin" \in Range(Audiences)
    /\ Limit \in Nat \ {0} /\ QueueSize \in Nat \ {0} /\ Threshold \in Nat \ {0}
    /\ MaxCalls \in Nat /\ MaxMoves \in Nat /\ MaxFaults \in Nat
    /\ None \notin Nat

VARIABLES
    game,       \* the game as the backend knows it
    invoice,    \* invoice[i]: its status and the audiences the backend has flagged
    file,       \* storage/notif_state.json
    mem,        \* what the process remembers
    loop,       \* how far an iteration of notifier_loop has come
    queue,      \* jobs for the sender tasks
    work,       \* work[w]: the job a sender task is delivering
    asked,      \* asked[u]: the calls notif_on has seen before it subscribes u
    told,       \* how often each notice reached somebody, and what may repeat it
    owed,       \* notices nothing excuses from being delivered
    faults      \* failures and crashes so far

vars == <<game, invoice, file, mem, loop, queue, work, asked, told, owed, faults>>

Calls == 1 .. MaxCalls
Win   == 0              \* the notice of the win, beside those of the calls
Emptied == [subs |-> {}, seen |-> 0, live |-> None, prize |-> FALSE, ended |-> FALSE]
Fresh == [warm |-> FALSE, reports |-> FALSE, fails |-> [u \in Users |-> 0], unacked |-> {}]

Fault == faults < MaxFaults /\ faults' = faults + 1
Sound == UNCHANGED faults

Goto(pc) == [pc |-> pc, batch |-> {}, seen |-> <<>>, won |-> FALSE, winner |-> None,
             out |-> <<>>, todo |-> <<>>, notices |-> <<>>]

-----------------------------------------------------------------------------
(* The game and the invoices at the backend *)

Undone == game.undos > 0

\* Nothing excuses a number from reaching those who are subscribed when it is drawn,
\* once the bot has seen a number of the game, unless a poll under way does not
\* know them yet; and the first win from reaching the winner.
Due(c, u) ==
    /\ ~ Undone
    /\ u \in file.subs
    /\ mem.warm
    /\ loop.pc = "state" => u \in loop.batch

\* call_number: the call may complete the row of a user, which emits the events of
\* the win and of the end.  The keys of these events are per game: the win after an
\* undo emits nothing.
Call(winner) ==
    /\ game.made < MaxCalls
    /\ game.winner = None
    /\ LET c == game.made + 1
       IN  /\ game' = [game EXCEPT !.made = c, !.board = Append(@, c), !.winner = winner,
                                   !.won = @ \/ winner # None,
                                   !.recent = @ \/ (winner # None /\ ~ game.won)]
           /\ owed' = owed \cup {<<u, c>> : u \in {v \in Users : Due(c, v)}}
                           \cup (IF winner # None /\ ~ Undone THEN {<<winner, Win>>} ELSE {})
    /\ UNCHANGED <<invoice, file, mem, loop, queue, work, asked, told, faults>>

\* undo_last_call: with the call goes the win it completed.
Undo ==
    /\ game.undos + told.ons < MaxMoves
    /\ game.board # <<>>
    /\ game' = [game EXCEPT !.board = Front(@), !.winner = None, !.undos = @ + 1]
    /\ owed' = {}
    /\ UNCHANGED <<invoice, file, mem, loop, queue, work, asked, told, faults>>

Statuses == {"WAITING_PAYMENT", "NEEDS_REVIEW", "CREDITED", "REJECTED"}
Final == {"CREDITED", "REJECTED"}

\* The worker detects a transfer that settles the invoice, or that leaves it to an
\* administrator.
Detect(i, status) ==
    /\ invoice[i].status = "WAITING_PAYMENT"
    /\ status \in {"NEEDS_REVIEW", "CREDITED"}
    /\ invoice' = [invoice EXCEPT ![i].status = status]
    /\ UNCHANGED <<game, file, mem, loop, queue, work, asked, told, owed, faults>>

\* The routes of administrators decide and count as notice to the administrators.
Decide(i, status) ==
    /\ invoice[i].status \in {"WAITING_PAYMENT", "NEEDS_REVIEW"}
    /\ status = "CREDITED" => invoice[i].status = "NEEDS_REVIEW"
    /\ status \in Final
    /\ invoice' = [invoice EXCEPT ![i].status = status, ![i].flagged = @ \cup {"admin"}]
    /\ UNCHANGED <<game, file, mem, loop, queue, work, asked, told, owed, faults>>

\* bot_crypto_notifications: a page of what an audience has still to be told.
Concerns(a) ==
    CASE a = "admin"    -> {"NEEDS_REVIEW", "CREDITED"}
      [] a = "user"     -> Final
      [] a = "pending"  -> {"WAITING_PAYMENT"}
      [] a = "variance" -> {"NEEDS_REVIEW"}
Untold(a) == {i \in Invoices : invoice[i].status \in Concerns(a) /\ a \notin invoice[i].flagged}

\* The first in the order of their ids.
Page(a) ==
    LET first == {i \in Untold(a) : Cardinality({k \in Untold(a) : k < i}) < Limit}
    IN  CHOOSE page \in [1 .. Cardinality(first) -> first] :
            \A j, k \in DOMAIN page : j < k => page[j] < page[k]
Listing ==
    FlattenSeq([a \in DOMAIN Audiences |->
        [k \in DOMAIN Page(Audiences[a]) |-> <<Audiences[a], Page(Audiences[a])[k]>>]])

-----------------------------------------------------------------------------
(* The switch of a user *)

\* notif_on reads the state of the game, and then the file.
AskOn(u) ==
    /\ asked[u] = Idle
    /\ game.undos + told.ons < MaxMoves
    /\ asked' = [asked EXCEPT ![u] = Len(game.board)]
    /\ told' = [told EXCEPT !.ons = @ + 1]
    /\ UNCHANGED <<game, invoice, file, mem, loop, queue, work, owed, faults>>

\* The first subscriber sets the cursor to what was read.
SwitchOn(u) ==
    /\ asked[u] # Idle
    /\ file' = [file EXCEPT !.subs = @ \cup {u},
                            !.seen = IF file.subs = {} THEN asked[u] ELSE @]
    /\ asked' = [asked EXCEPT ![u] = Idle]
    /\ UNCHANGED <<game, invoice, mem, loop, queue, work, told, owed, faults>>

Numbers(u) == {u} \X Calls

\* notif_off
SwitchOff(u) ==
    /\ u \in file.subs
    /\ file' = [file EXCEPT !.subs = @ \ {u}]
    /\ owed' = owed \ Numbers(u)
    /\ UNCHANGED <<game, invoice, mem, loop, queue, work, asked, told, faults>>

-----------------------------------------------------------------------------
(* notifier_loop: new numbers *)

\* The subscribers are read before the state is asked for.
Poll ==
    /\ loop.pc = "numbers"
    /\ loop' = IF file.subs = {} THEN Goto("report") ELSE [Goto("state") EXCEPT !.batch = file.subs]
    /\ UNCHANGED <<game, invoice, file, mem, queue, work, asked, told, owed, faults>>

JobsFor(calls, users) ==
    LET order == SetToSeq(users)
    IN  FlattenSeq([c \in DOMAIN calls |->
            [k \in DOMAIN order |-> [user |-> order[k], item |-> calls[c]]]])

\* Variant that skips one call too many.
AddedAfter ==
    IF file.seen = 0 /\ ~ mem.warm THEN <<>>
    ELSE SubSeq(game.board, file.seen + 2, Len(game.board))
\* The calls that the answer adds to the cursor; none the first time the process
\* sees a call of the game and has no cursor.
Added ==
    IF file.seen = 0 /\ ~ mem.warm THEN <<>>
    ELSE SubSeq(game.board, file.seen + 1, Len(game.board))

\* The cursor is set before the jobs are put into the queue.
State ==
    /\ loop.pc = "state"
    /\ IF game.board = <<>>
       THEN loop' = Goto("report") /\ UNCHANGED <<file, mem>>
       ELSE /\ file' = [file EXCEPT !.seen = Len(game.board)]
            /\ mem' = [mem EXCEPT !.warm = TRUE]
            /\ loop' = [Goto(IF Added = <<>> THEN "report" ELSE "put")
                          EXCEPT !.out = JobsFor(Added, loop.batch)]
    /\ UNCHANGED <<game, invoice, queue, work, asked, told, owed, faults>>

StateFails ==
    /\ loop.pc = "state"
    /\ Fault
    /\ loop' = Goto("report")
    /\ UNCHANGED <<game, invoice, file, mem, queue, work, asked, told, owed>>

\* Variant without the capacity.
RoomAlways == TRUE
Room == Len(queue) < QueueSize

\* queue.put, which waits for room.
Put(pc, next) ==
    /\ loop.pc = pc
    /\ Room
    /\ queue' = Append(queue, Head(loop.out))
    /\ loop' = IF Len(loop.out) = 1 THEN [loop EXCEPT !.pc = next, !.out = <<>>]
               ELSE [loop EXCEPT !.out = Tail(@)]
    /\ UNCHANGED <<game, invoice, file, mem, work, asked, told, owed, faults>>

-----------------------------------------------------------------------------
(* notifier_loop: the report of a game *)

Report ==
    /\ loop.pc = "report"
    /\ loop' = [Goto("live") EXCEPT !.seen = game.board, !.won = game.won, !.winner = game.winner]
    /\ UNCHANGED <<game, invoice, file, mem, queue, work, asked, told, owed, faults>>

ReportFails ==
    /\ loop.pc = "report"
    /\ Fault
    /\ loop' = Goto("crypto")
    /\ UNCHANGED <<game, invoice, file, mem, queue, work, asked, told, owed>>

\* The live topic gets the calls beyond the marker, one message each; the first
\* report only sets the marker, and it is set again when all are sent.
LiveAdded == IF file.live = None THEN <<>> ELSE SubSeq(loop.seen, file.live + 1, Len(loop.seen))
Live ==
    /\ loop.pc = "live"
    /\ IF LiveAdded = <<>>
       THEN /\ file' = [file EXCEPT !.live = Len(loop.seen)]
            /\ loop' = [loop EXCEPT !.pc = "prize"]
       ELSE /\ loop' = [loop EXCEPT !.pc = "topic", !.todo = LiveAdded]
            /\ UNCHANGED file
    /\ UNCHANGED <<game, invoice, mem, queue, work, asked, told, owed, faults>>

\* Whether Telegram says that it was sent makes no difference.
LiveSend(reached) ==
    /\ loop.pc = "topic"
    /\ loop.todo # <<>>
    /\ IF reached THEN told' = [told EXCEPT !.live[Head(loop.todo)] = @ + 1] /\ Sound
       ELSE Fault /\ UNCHANGED told
    /\ loop' = [loop EXCEPT !.todo = Tail(@)]
    /\ UNCHANGED <<game, invoice, file, mem, queue, work, asked, owed>>

LiveMark ==
    /\ loop.pc = "topic"
    /\ loop.todo = <<>>
    /\ file' = [file EXCEPT !.live = Len(loop.seen)]
    /\ loop' = [loop EXCEPT !.pc = "prize"]
    /\ UNCHANGED <<game, invoice, mem, queue, work, asked, told, owed, faults>>

\* An event that is new to the file is announced unless the process is new to the
\* game and the event older than the process (_is_recent_event_for_runtime, which
\* takes an event of the last 3 seconds before the start as recent).
Announce(marked) == loop.won /\ ~ marked /\ (mem.reports \/ game.recent)

Marked(kind) == file' = [file EXCEPT ![kind] = @ \/ loop.won]
Prize ==
    /\ loop.pc = "prize"
    /\ IF Announce(file.prize) /\ loop.winner # None
       THEN /\ loop' = [loop EXCEPT !.pc = "winner",
                                    !.out = <<[user |-> loop.winner, item |-> Win]>>]
            /\ UNCHANGED file
       ELSE /\ loop' = [loop EXCEPT !.pc = "ended"]
            /\ Marked("prize")
    /\ UNCHANGED <<game, invoice, mem, queue, work, asked, told, owed, faults>>

\* set_event_marker follows the announcement.
MarkPrize ==
    /\ loop.pc = "marked"
    /\ loop' = [loop EXCEPT !.pc = "ended"]
    /\ Marked("prize")
    /\ UNCHANGED <<game, invoice, mem, queue, work, asked, told, owed, faults>>

\* _process_game_lifecycle_reports, for the end of the game.  A report goes to several
\* chats, each of which gets it at most once: it counts if it reached any.
EndNotice(reached) ==
    /\ loop.pc = "ended"
    /\ IF Announce(file.ended) /\ reached
       THEN told' = [told EXCEPT !.ended = @ + 1] /\ Sound
       ELSE /\ IF Announce(file.ended) THEN Fault ELSE reached /\ Sound
            /\ UNCHANGED told
    /\ loop' = [loop EXCEPT !.pc = "reported"]
    /\ UNCHANGED <<game, invoice, file, mem, queue, work, asked, owed>>

\* The marker is set after the report, whatever came of it.
MarkEnded ==
    /\ loop.pc = "reported"
    /\ Marked("ended")
    /\ mem' = [mem EXCEPT !.reports = TRUE]
    /\ loop' = Goto("crypto")
    /\ UNCHANGED <<game, invoice, queue, work, asked, told, owed, faults>>

-----------------------------------------------------------------------------
(* notifier_loop: crypto notices *)

FetchNotices ==
    /\ loop.pc = "crypto"
    /\ loop' = IF Listing = <<>> THEN Goto("numbers")
               ELSE [Goto("notice") EXCEPT !.notices = Listing]
    /\ UNCHANGED <<game, invoice, file, mem, queue, work, asked, told, owed, faults>>

FetchFails ==
    /\ loop.pc = "crypto"
    /\ Fault
    /\ loop' = Goto("numbers")
    /\ UNCHANGED <<game, invoice, file, mem, queue, work, asked, told, owed>>

NextNotice ==
    IF Len(loop.notices) = 1 THEN Goto("numbers")
    ELSE [loop EXCEPT !.pc = "notice", !.notices = Tail(@)]
Reaches(n) == n[1] = "user" => Owner[n[2]] \notin Blocked

\* Variant that sends again what was delivered but not acknowledged.
NeedsSendingAlways(n) == TRUE
\* What was delivered is acknowledged only.
NeedsSending(n) == n \notin mem.unacked

\* Variant: a delivery that fails ends the poll.
AfterFailureAborts == Goto("numbers")
\* A notice that cannot be delivered is passed over until the next poll.
AfterFailure == NextNotice

\* What comes of sending: "lost" is a message that is delivered and whose answer is
\* not, so that the bot takes it for a failure.
Outcomes == {"sent", "lost", "failed"}

\* What an attempt to deliver a notice adds to what has been told: administrators are
\* written to in the topic and then one by one until one answer arrives, each chat
\* once, and the attempt counts if it reached any.
Attempt(n, outcome) ==
    CASE outcome = "sent"   -> [told EXCEPT !.notice[n] = @ + 1]
      [] outcome = "lost"   -> [told EXCEPT !.notice[n] = @ + 1, !.lost[n] = @ + 1]
      [] outcome = "failed" -> told

\* The delivery of a notice: what was not answered is not remembered as delivered.
Notice(outcome) ==
    /\ loop.pc = "notice"
    /\ LET n == Head(loop.notices)
       IN  IF ~ NeedsSending(n)
           THEN /\ outcome = "sent"
                /\ loop' = [loop EXCEPT !.pc = "ack"]
                /\ Sound
                /\ UNCHANGED <<mem, told>>
           ELSE /\ outcome # "failed" => Reaches(n)
                /\ told' = Attempt(n, outcome)
                /\ IF outcome = "sent"
                   THEN /\ mem' = [mem EXCEPT !.unacked = @ \cup {n}]
                        /\ loop' = [loop EXCEPT !.pc = "ack"]
                        /\ Sound
                   ELSE /\ IF Reaches(n) THEN Fault ELSE Sound
                        /\ loop' = AfterFailure
                        /\ UNCHANGED mem
    /\ UNCHANGED <<game, invoice, file, queue, work, asked, owed>>

\* bot_ack_crypto_notification: the flag is set; the answer may be lost.
Ack(ok) ==
    /\ loop.pc = "ack"
    /\ LET n == Head(loop.notices)
       IN  /\ invoice' = [invoice EXCEPT ![n[2]].flagged = @ \cup {n[1]}]
           /\ IF ok THEN mem' = [mem EXCEPT !.unacked = @ \ {n}] /\ Sound
              ELSE Fault /\ UNCHANGED mem
    /\ loop' = NextNotice
    /\ UNCHANGED <<game, file, queue, work, asked, told, owed>>
AckFails ==
    /\ loop.pc = "ack"
    /\ Fault
    /\ loop' = NextNotice
    /\ UNCHANGED <<game, invoice, file, mem, queue, work, asked, told, owed>>

-----------------------------------------------------------------------------
(* The sender tasks *)

Take(w) ==
    /\ work[w] = Idle
    /\ queue # <<>>
    /\ work' = [work EXCEPT ![w] = Head(queue)]
    /\ queue' = Tail(queue)
    /\ UNCHANGED <<game, invoice, file, mem, loop, asked, told, owed, faults>>

Finished(w) ==
    /\ work' = [work EXCEPT ![w] = Idle]
    /\ owed' = owed \ {<<work[w].user, work[w].item>>}

Deliver(w) ==
    /\ work[w] # Idle
    /\ work[w].user \notin Blocked
    /\ told' = [told EXCEPT !.job[<<work[w].user, work[w].item>>] = @ + 1]
    /\ mem' = [mem EXCEPT !.fails[work[w].user] = 0]
    /\ Finished(w)
    /\ UNCHANGED <<game, invoice, file, loop, queue, asked, faults>>

\* A failure that may pass, or an answer that is lost: the message is given up, and the
\* failure counts.
DeliverFails(w, reached) ==
    /\ work[w] # Idle
    /\ work[w].user \notin Blocked
    /\ Fault
    /\ told' = IF reached THEN [told EXCEPT !.job[<<work[w].user, work[w].item>>] = @ + 1]
               ELSE told
    /\ mem' = [mem EXCEPT !.fails[work[w].user] = @ + 1]
    /\ Finished(w)
    /\ UNCHANGED <<game, invoice, file, loop, queue, asked>>

\* A user who cannot be reached loses the subscription at the threshold.
DeadUser(w) ==
    /\ work[w] # Idle
    /\ work[w].user \in Blocked
    /\ LET u == work[w].user
           count == mem.fails[u] + 1
       IN  IF count >= Threshold
           THEN /\ file' = [file EXCEPT !.subs = @ \ {u}]
                /\ mem' = [mem EXCEPT !.fails[u] = 0]
                /\ owed' = owed \ (Numbers(u) \cup {<<u, work[w].item>>})
           ELSE /\ mem' = [mem EXCEPT !.fails[u] = count]
                /\ owed' = owed \ {<<u, work[w].item>>}
                /\ UNCHANGED file
    /\ work' = [work EXCEPT ![w] = Idle]
    /\ UNCHANGED <<game, invoice, loop, queue, asked, told, faults>>

\* Scaling down cancels a task together with its message.
CancelTask(w) ==
    /\ work[w] # Idle
    /\ Fault
    /\ Finished(w)
    /\ UNCHANGED <<game, invoice, file, mem, loop, queue, asked, told>>

\* The bot stops and starts again; quick: within 3 seconds of an event that was recent,
\* which therefore stays so.
Crash(wiped, quick) ==
    /\ Fault
    /\ quick => game.recent
    /\ file' = IF wiped THEN Emptied ELSE file
    /\ mem' = Fresh
    /\ loop' = Goto("numbers")
    /\ queue' = <<>>
    /\ work' = [w \in Workers |-> Idle]
    /\ asked' = [u \in Users |-> Idle]
    /\ game' = [game EXCEPT !.recent = quick]
    /\ told' = [told EXCEPT !.crashes = @ + 1, !.quick = @ + IF quick THEN 1 ELSE 0]
    /\ owed' = {}
    /\ UNCHANGED invoice

-----------------------------------------------------------------------------
Items == Calls \cup {Win}
Notices == Range(Audiences) \X Invoices
Jobs == [user : Users, item : Items]
Places == {"numbers", "state", "put", "report", "live", "topic", "prize", "winner", "marked",
           "ended", "reported", "crypto", "notice", "ack"}

\* The game and the invoices share the loop only.  A behaviour begins with all of
\* the game before it and the invoices settled, or the other way round.
GameAhead ==
    /\ game = [board |-> <<>>, made |-> 0, undos |-> 0, winner |-> None,
               won |-> FALSE, recent |-> FALSE]
    /\ invoice = [i \in Invoices |-> [status |-> "REJECTED", flagged |-> Range(Audiences)]]
InvoicesAhead ==
    /\ game = [board |-> <<>>, made |-> MaxCalls, undos |-> MaxMoves, winner |-> None,
               won |-> FALSE, recent |-> FALSE]
    /\ invoice = [i \in Invoices |-> [status |-> "WAITING_PAYMENT", flagged |-> {}]]

Init ==
    /\ told = [job |-> [p \in Users \X Items |-> 0], live |-> [c \in Calls |-> 0], ended |-> 0,
               notice |-> [n \in Notices |-> 0], lost |-> [n \in Notices |-> 0],
               ons |-> 0, crashes |-> 0, quick |-> 0]
    /\ GameAhead \/ InvoicesAhead
    /\ file = Emptied
    /\ mem = Fresh
    /\ loop = Goto("numbers")
    /\ queue = <<>>
    /\ work = [w \in Workers |-> Idle]
    /\ asked = [u \in Users |-> Idle]
    /\ owed = {}
    /\ faults = 0

Backend ==
    \/ \E winner \in Users \cup {None} : Call(winner)
    \/ Undo
    \/ \E i \in Invoices, status \in Statuses : Detect(i, status) \/ Decide(i, status)

Switches == \E u \in Players : AskOn(u) \/ SwitchOn(u) \/ SwitchOff(u)

Loop ==
    \/ Poll \/ State \/ StateFails \/ Put("put", "report")
    \/ Report \/ ReportFails \/ Live \/ LiveMark
    \/ Prize \/ Put("winner", "marked") \/ MarkPrize \/ MarkEnded
    \/ FetchNotices \/ FetchFails \/ AckFails
    \/ \E reached \in BOOLEAN : LiveSend(reached) \/ EndNotice(reached)
    \/ \E outcome \in Outcomes : Notice(outcome)
    \/ \E ok \in BOOLEAN : Ack(ok)

Sender(w) ==
    \/ Take(w) \/ Deliver(w) \/ DeadUser(w) \/ CancelTask(w)
    \/ \E reached \in BOOLEAN : DeliverFails(w, reached)

Next ==
    \/ Backend \/ Switches \/ Loop
    \/ \E w \in Workers : Sender(w)
    \/ \E wiped \in BOOLEAN, quick \in BOOLEAN : Crash(wiped, quick)

\* The loop survives every exception and the tasks run for ever.
Spec == Init /\ [][Next]_vars
FairSpec == Spec /\ WF_vars(Loop) /\ \A w \in Workers : WF_vars(Sender(w))
-----------------------------------------------------------------------------
TypeOK ==
    /\ game \in [board : Seq(Calls), made : 0 .. MaxCalls, undos : 0 .. MaxMoves,
                 winner : Users \cup {None}, won : BOOLEAN, recent : BOOLEAN]
    /\ invoice \in [Invoices -> [status : Statuses, flagged : SUBSET Range(Audiences)]]
    /\ file \in [subs : SUBSET Users, seen : 0 .. MaxCalls, live : 0 .. MaxCalls \cup {None},
                 prize : BOOLEAN, ended : BOOLEAN]
    /\ mem \in [warm : BOOLEAN, reports : BOOLEAN, fails : [Users -> 0 .. Threshold + MaxFaults],
                unacked : SUBSET Notices]
    /\ loop \in [pc : Places, batch : SUBSET Users, seen : Seq(Calls), won : BOOLEAN,
                 winner : Users \cup {None}, out : Seq(Jobs),
                 todo : Seq(Calls), notices : Seq(Notices)]
    /\ queue \in Seq(Jobs) /\ Len(queue) <= QueueSize
    /\ work \in [Workers -> Jobs \cup {Idle}]
    /\ asked \in [Users -> 0 .. MaxCalls \cup {Idle}]
    /\ told \in [job : [Users \X Items -> Nat], live : [Calls -> Nat], ended : Nat,
                 notice : [Notices -> Nat], lost : [Notices -> Nat], ons : 0 .. MaxMoves,
                 crashes : 0 .. MaxFaults, quick : 0 .. MaxFaults]
    /\ owed \in SUBSET (Users \X Items)
    /\ faults \in 0 .. MaxFaults
-----------------------------------------------------------------------------
(* Properties *)

\* Nothing is told twice but for the reasons the code has, however calls are undone,
\* users switch, tasks race and requests fail: a call to a user as often as somebody
\* has asked for notices (the first subscriber sets the cursor to what he read
\* earlier); the win and the end once more for each restart within 3 seconds of them;
\* a call to the live topic once more for each crash before its marker; a notice of an
\* invoice once more for each crash before its acknowledgement and for each answer of
\* Telegram that was lost (the except clauses of _process_crypto_notifications).
ToldOnce ==
    /\ \A u \in Users : \A c \in Calls : told.job[<<u, c>>] <= told.ons
    /\ \A u \in Users : told.job[<<u, Win>>] <= 1 + told.quick
    /\ told.ended <= 1 + told.quick
    /\ \A c \in Calls : told.live[c] <= 1 + told.crashes
    /\ \A n \in Notices : told.notice[n] <= 1 + told.crashes + told.lost[n]

\* What nothing excuses is delivered, or at least tried: the subscribers get every
\* number, the winner the win.
NothingMissed == owed # {} ~> owed = {}

\* A user who can be reached is told of the decision on every invoice, also behind
\* users who cannot, as long as these do not fill a page.
Unaware == {i \in Invoices :
    /\ invoice[i].status \in Final
    /\ Owner[i] \notin Blocked
    /\ "user" \notin invoice[i].flagged}
DecisionsTold == Unaware # {} ~> Unaware = {}

-----------------------------------------------------------------------------
(* What the code says and does not keep (README.md) *)

\* "From now on I tell you the new numbers" (notif_on): a poll moves the cursor over
\* calls only with their messages.
NewNumbersTold ==
    [][loop.pc = "state" /\ file'.seen > file.seen => Len(loop'.out) >= file'.seen - file.seen]_vars

\* A switch that is on stays on until the user, or the threshold, turns it off.
SubscriptionKept ==
    [][\A u \in Players \ Blocked : u \in file.subs \ file'.subs => SwitchOff(u)]_vars
=============================================================================
