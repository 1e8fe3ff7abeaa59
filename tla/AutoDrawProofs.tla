--------------------------- MODULE AutoDrawProofs ---------------------------
(***************************************************************************)
(* Theorems about AutoDraw.tla for every setting, order, number of cards,  *)
(* requests and worker cycles, and every number of lost commits.           *)
(***************************************************************************)
EXTENDS AutoDraw, SequenceTheorems, TLAPS

-----------------------------------------------------------------------------
(* Types *)

\* An order has numbers, and those within the limit can be drawn.
LEMMA OrderNumbers ==
    ASSUME NEW q \in Shuffles, NEW i \in 1..Len(q)
    PROVE  /\ Len(q) \in Nat
           /\ q[i] \in 1..Len(q)
           /\ \A m \in Limits : q[i] <= m => q[i] \in Numbers
  <1>1. q \in Seq(Nat) /\ Images(q) = 1..Len(q)
    BY AutoDrawAssumption
  <1>2. Len(q) \in Nat /\ q[i] \in 1..Len(q)
    BY <1>1, LenProperties DEF Images
  <1>3. ASSUME NEW m \in Limits, q[i] <= m
        PROVE  q[i] \in 1..m
    BY <1>2, <1>3, AutoDrawAssumption
  <1> QED
    BY <1>2, <1>3 DEF Numbers


-----------------------------------------------------------------------------
(* The invariant *)

\* The numbers drawn are among those the cursor has passed.
Passed ==
    /\ control = None => called = <<>>
    /\ control # None =>
          /\ control.cursor <= Len(control.seq)
          /\ \A k \in 1..Len(called) : \E j \in 1..control.cursor : called[k] = control.seq[j]

\* The two rows agree.
Agree ==
    /\ game.mode = "AUTO" <=> control # None
    /\ control # None => control.interval = game.interval
    /\ game.status = "LOBBY" => ~ game.locked
    /\ game.status = "RUNNING" => game.locked
    /\ ~ game.locked => called = <<>>
    /\ control # None /\ ~ game.locked => control.cursor = 0
    /\ control # None /\ game.status # "RUNNING" => control.status \in {"ARMED", "STOPPED"}
    /\ control # None /\ control.status = "RUNNING" =>
          /\ control.cursor < Len(control.seq)
          /\ control.timer # "off"

\* As long as no commit is lost, the cached answers are behind the cursor.
NoLoss == lost = 0 =>
    /\ control = None => answers = {}
    /\ control # None =>
          /\ \A a \in answers : a.cursor < control.cursor
          /\ Len(called) = control.cursor
          /\ \A k \in 1..Len(called) : called[k] = control.seq[k]

Inv == TypeOK /\ Passed /\ Agree /\ NoLoss

LEMMA ControlTypes ==
    ASSUME TypeOK, control # None
    PROVE  /\ control \in Control
           /\ control.cursor \in Nat
           /\ control.seq \in Shuffles
           /\ control.seq \in Seq(Nat)
           /\ Len(control.seq) \in Nat /\ Len(control.seq) > 0
           /\ Len(called) \in Nat
  <1>1. control \in Control
    BY DEF TypeOK
  <1>2. control.cursor \in Nat /\ control.seq \in Shuffles
    BY <1>1 DEF Control
  <1>3. control.seq \in Seq(Nat) /\ Len(control.seq) > 0
    BY <1>2, AutoDrawAssumption
  <1> QED
    BY <1>1, <1>2, <1>3, LenProperties DEF TypeOK

\* The next number to draw is the one at the cursor.
LEMMA NextAtCursor ==
    ASSUME TypeOK, Passed, control # None
    PROVE  /\ Remaining = control.cursor + 1 .. Len(control.seq)
           /\ Remaining # {} => /\ control.cursor < Len(control.seq)
                                /\ NextUp = control.cursor + 1
                                /\ NextUp \in 1..Len(control.seq)
  <1> USE ControlTypes
  <1>1. ASSUME NEW i \in control.cursor + 1 .. Len(control.seq)
        PROVE  control.seq[i] \notin Board
    <2>1. SUFFICES ASSUME NEW k \in 1..Len(called), control.seq[i] = called[k]
                   PROVE  FALSE
      BY DEF Board, Images
    <2>2. PICK j \in 1..control.cursor : called[k] = control.seq[j]
      BY DEF Passed
    <2>3. i \in 1..Len(control.seq) /\ j \in 1..Len(control.seq) /\ i # j
      BY <2>2 DEF Passed
    <2> QED
      BY <2>1, <2>2, <2>3, AutoDrawAssumption
  <1>2. Remaining = control.cursor + 1 .. Len(control.seq)
    BY <1>1 DEF Remaining
  <1>3. ASSUME Remaining # {}
        PROVE  /\ control.cursor < Len(control.seq)
               /\ NextUp = control.cursor + 1
    <2>1. control.cursor < Len(control.seq)
      BY <1>2, <1>3
    <2>2. control.cursor + 1 \in Remaining /\ \A j \in Remaining : control.cursor + 1 <= j
      BY <1>2, <2>1
    <2>3. \A i \in Remaining : (\A j \in Remaining : i <= j) => i = control.cursor + 1
      BY <1>2, <2>2
    <2> QED
      BY <2>1, <2>2, <2>3 DEF NextUp
  <1> QED
    BY <1>2, <1>3

\* What a draw needs to know of the next number and of the control after it.
LEMMA DrawTypes ==
    ASSUME Inv, NEW w \in Workers, Drawing(w)
    PROVE  /\ control # None
           /\ NextUp = control.cursor + 1
           /\ NextUp \in 1..Len(control.seq)
           /\ \A won : Answer(NextUp, won).cursor = control.cursor
           /\ \A won \in BOOLEAN : control.seq[NextUp] <= limit =>
                 Answer(NextUp, won) \in [cursor : Nat, number : Numbers, won : BOOLEAN]
           /\ \A ended \in BOOLEAN :
                 /\ Advanced(NextUp, ended) \in Control
                 /\ Advanced(NextUp, ended) # None
                 /\ Advanced(NextUp, ended).cursor = NextUp
                 /\ Advanced(NextUp, ended).seq = control.seq
                 /\ Advanced(NextUp, ended).interval = control.interval
                 /\ Advanced(NextUp, ended).status = Status(NextUp, ended)
                 /\ Advanced(NextUp, ended).timer = Timer(Status(NextUp, ended))
                 /\ Status(NextUp, ended) \in {"RUNNING", "PAUSED", "STOPPED"}
  <1>1. control # None /\ Remaining # {}
    BY DEF Inv, Agree, Drawing, Drawable, InAutoGame
  <1>2. NextUp = control.cursor + 1 /\ NextUp \in 1..Len(control.seq)
    BY <1>1, NextAtCursor DEF Inv
  <1>3. control \in Control /\ control.cursor \in Nat /\ control.seq \in Shuffles
    BY <1>1, ControlTypes DEF Inv
  <1>4. ASSUME NEW won \in BOOLEAN, control.seq[NextUp] <= limit
        PROVE  Answer(NextUp, won) \in [cursor : Nat, number : Numbers, won : BOOLEAN]
    <2>1. control.seq[NextUp] \in Numbers
      BY <1>2, <1>3, <1>4, OrderNumbers DEF Inv, TypeOK
    <2> QED
      BY <1>2, <1>3, <2>1 DEF Answer
  <1>5. ASSUME NEW ended \in BOOLEAN
        PROVE  /\ Advanced(NextUp, ended) \in Control
               /\ Advanced(NextUp, ended).cursor = NextUp
               /\ Advanced(NextUp, ended).seq = control.seq
               /\ Advanced(NextUp, ended).interval = control.interval
               /\ Advanced(NextUp, ended).status = Status(NextUp, ended)
               /\ Advanced(NextUp, ended).timer = Timer(Status(NextUp, ended))
               /\ Status(NextUp, ended) \in {"RUNNING", "PAUSED", "STOPPED"}
    <2> DEFINE new == Status(NextUp, ended)
    <2>1. new \in {"RUNNING", "PAUSED", "STOPPED"}
      BY DEF Status
    <2>2. Timer(new) \in {"off", "set", "due"}
      BY DEF Timer
    <2>3. NextUp \in Nat
      BY <1>2, <1>3
    <2> HIDE DEF new
    <2>4. /\ [control EXCEPT !.cursor = NextUp, !.status = new, !.timer = Timer(new)] \in Control
          /\ [control EXCEPT !.cursor = NextUp, !.status = new, !.timer = Timer(new)].cursor = NextUp
          /\ [control EXCEPT !.cursor = NextUp, !.status = new, !.timer = Timer(new)].seq = control.seq
          /\ [control EXCEPT !.cursor = NextUp, !.status = new, !.timer = Timer(new)].interval = control.interval
          /\ [control EXCEPT !.cursor = NextUp, !.status = new, !.timer = Timer(new)].status = new
          /\ [control EXCEPT !.cursor = NextUp, !.status = new, !.timer = Timer(new)].timer = Timer(new)
      BY <1>3, <2>1, <2>2, <2>3 DEF Control
    <2> QED
      BY <2>1, <2>4 DEF Advanced, new
  <1>6. \A won : Answer(NextUp, won).cursor = control.cursor
    BY <1>2, <1>3 DEF Answer
  <1> QED
    BY <1>1, <1>2, <1>4, <1>5, <1>6, AutoDrawAssumption

LEMMA DoneTypes ==
    ASSUME TypeOK, NEW s \in Slots, Done(s)
    PROVE  /\ req' \in [Slots -> Request \cup {Idle}]
           /\ held' \in [game : Slots \cup {None}, control : Workers \cup {None}]
  BY DEF TypeOK, Done

LEMMA ReleasedTypes ==
    ASSUME TypeOK, NEW w \in Workers, Released(w)
    PROVE  /\ worker' \in [Workers -> {"idle", "picked", "locked"}]
           /\ held' \in [game : Slots \cup {None}, control : Workers \cup {None}]
  BY DEF TypeOK, Released

LEMMA TypeStep ==
    ASSUME Inv, [Next]_vars
    PROVE  TypeOK'
  <1> USE DEF Inv
  <1>1. ASSUME NEW m \in Limits, SetLimit(m)
        PROVE  TypeOK'
    BY <1>1 DEF TypeOK, SetLimit
  <1>2. ASSUME NEW s \in Slots, Ask(s)
        PROVE  TypeOK'
    BY <1>2 DEF TypeOK, Ask, Asks, Request
  <1>3. ASSUME NEW s \in Slots, LockGame(s)
        PROVE  TypeOK'
    BY <1>3 DEF TypeOK, LockGame, Request
  <1>4. ASSUME NEW s \in Slots, Serve(s)
        PROVE  TypeOK'
    <2>1. CASE SelectAuto(s)
      <3>1. req[s] \in Request /\ req[s].interval \in Intervals
        BY <2>1 DEF SelectAuto, ServingBoth, Serving, Asked, TypeOK, Request
      <3>2. PICK q \in Shuffles : control' = Armed(req[s].interval, q)
        BY <2>1 DEF SelectAuto
      <3>3. control' \in Control
        BY <3>1, <3>2 DEF Armed, Control
      <3>4. game' \in GameRow
        BY <2>1, <3>1 DEF SelectAuto, TypeOK, GameRow
      <3> QED
        BY <2>1, <3>3, <3>4, DoneTypes DEF TypeOK, SelectAuto
    <2>2. CASE SelectManual(s)
      BY <2>2, DoneTypes DEF TypeOK, SelectManual, GameRow
    <2>3. CASE Start(s)
      <3>1. req[s] \in Request /\ req[s].seen \in Control \cup {None}
        BY <2>3 DEF Start, ServingBoth, Serving, Asked, TypeOK, Request
      <3>2. control' \in Control \cup {None}
        BY <2>3 DEF TypeOK, Start, Activated, Control
      <3>3. published' \in Shuffles \cup {None}
        BY <2>3, <3>1 DEF Start, Control
      <3> QED
        BY <2>3, <3>2, <3>3, DoneTypes DEF TypeOK, Start, GameRow
    <2>4. CASE Close(s)
      BY <2>4, DoneTypes DEF TypeOK, Close, GameRow
    <2>5. CASE Pause(s)
      BY <2>5, DoneTypes DEF TypeOK, Pause, Control
    <2>6. CASE Resume(s)
      BY <2>6, DoneTypes DEF TypeOK, Resume, Resumed, Control
    <2>7. CASE Stop(s)
      BY <2>7, DoneTypes DEF TypeOK, Stop, Control
    <2>8. CASE Drop(s)
      BY <2>8, DoneTypes DEF TypeOK, Drop
    <2> QED
      BY <1>4, <2>1, <2>2, <2>3, <2>4, <2>5, <2>6, <2>7, <2>8 DEF Serve
  <1>5. ASSUME Elapse
        PROVE  TypeOK'
    BY <1>5 DEF TypeOK, Elapse, Control
  <1>6. ASSUME Expire
        PROVE  TypeOK'
    BY <1>6 DEF TypeOK, Expire
  <1>7. ASSUME NEW w \in Workers, Pick(w)
        PROVE  TypeOK'
    BY <1>7 DEF TypeOK, Pick
  <1>8. ASSUME NEW w \in Workers, LockControl(w)
        PROVE  TypeOK'
    BY <1>8 DEF TypeOK, LockControl
  <1>9. ASSUME NEW w \in Workers, Draw(w)
        PROVE  TypeOK'
    <2> DEFINE n   == control.seq[NextUp]
               won == Completes(n)
    <2>1. Drawing(w) /\ n <= limit /\ won \in BOOLEAN
      BY <1>9 DEF Draw, Callable, Completes
    <2>2. control' \in Control /\ Answer(NextUp, won) \in [cursor : Nat, number : Numbers, won : BOOLEAN]
      BY <1>9, <2>1, DrawTypes DEF Draw
    <2>3. n \in Numbers
      BY <2>1, DrawTypes, ControlTypes, OrderNumbers DEF TypeOK
    <2>4. called' \in Seq(Numbers)
      BY <1>9, <2>3, AppendProperties DEF Draw, TypeOK
    <2> QED
      BY <1>9, <2>2, <2>4, ReleasedTypes DEF TypeOK, Draw, GameRow
  <1>10. ASSUME NEW w \in Workers, DrawLost(w)
         PROVE  TypeOK'
    <2> DEFINE won == Completes(control.seq[NextUp])
    <2>1. Drawing(w) /\ control.seq[NextUp] <= limit /\ won \in BOOLEAN
      BY <1>10 DEF DrawLost, Callable, Completes
    <2>2. Answer(NextUp, won) \in [cursor : Nat, number : Numbers, won : BOOLEAN]
      BY <2>1, DrawTypes
    <2> QED
      BY <1>10, <2>2, ReleasedTypes, AutoDrawAssumption DEF TypeOK, DrawLost
  <1>11. ASSUME NEW w \in Workers, DrawCached(w)
         PROVE  TypeOK'
    <2>1. Drawing(w) /\ (Answer(NextUp, TRUE) \in answers) \in BOOLEAN
      BY <1>11 DEF DrawCached
    <2>2. control' = Advanced(NextUp, Answer(NextUp, TRUE) \in answers)
      BY <1>11 DEF DrawCached
    <2>3. control' \in Control
      BY <2>1, <2>2, DrawTypes
    <2> QED
      BY <1>11, <2>3, ReleasedTypes DEF TypeOK, DrawCached
  <1>12. ASSUME NEW w \in Workers, Fail(w)
         PROVE  TypeOK'
    BY <1>12, ReleasedTypes DEF TypeOK, Fail
  <1>13. CASE UNCHANGED vars
    BY <1>13 DEF TypeOK, vars
  <1> QED
    BY <1>1, <1>2, <1>3, <1>4, <1>5, <1>6, <1>7, <1>8, <1>9, <1>10, <1>11, <1>12, <1>13
    DEF Next, Work

-----------------------------------------------------------------------------
(* The steps that touch neither row *)

LEMMA QuietStep ==
    ASSUME Inv, UNCHANGED <<game, control, called, answers, lost>>
    PROVE  Passed' /\ Agree' /\ NoLoss'
  BY DEF Inv, Passed, Agree, NoLoss

\* Each step is quiet, a request that changes a row, the clock, the expiry of
\* the answers, or a draw.
LEMMA Steps ==
    ASSUME [Next]_vars
    PROVE  \/ UNCHANGED <<game, control, called, answers, lost>>
           \/ \E s \in Slots : \/ SelectAuto(s) \/ SelectManual(s)
                               \/ Start(s) \/ Close(s)
                               \/ Pause(s) \/ Resume(s) \/ Stop(s)
           \/ Elapse \/ Expire
           \/ \E w \in Workers : Draw(w) \/ DrawLost(w) \/ DrawCached(w)
  BY DEF Next, vars, SetLimit, Ask, LockGame, Serve, Drop, Pick, LockControl, Fail, Work

LEMMA Turned ==
    ASSUME TypeOK, control # None,
           NEW a \in {"ARMED", "RUNNING", "PAUSED", "STOPPED"},
           NEW b \in {"off", "set", "due"}
    PROVE  LET c == [control EXCEPT !.status = a, !.timer = b]
           IN  /\ c \in Control /\ c # None
               /\ c.seq = control.seq /\ c.cursor = control.cursor
               /\ c.interval = control.interval
  <1> DEFINE c == [control EXCEPT !.status = a, !.timer = b]
  <1>1. control \in Control
    BY ControlTypes
  <1>2. c \in Control
    BY <1>1 DEF Control
  <1>3. c.seq = control.seq /\ c.cursor = control.cursor /\ c.interval = control.interval
    BY <1>1 DEF Control
  <1>4. c # None
    BY <1>2, AutoDrawAssumption
  <1> QED
    BY <1>2, <1>3, <1>4

\* Starts, pauses, resumptions, stops and the clock change no more of a control
\* than its status and its timer.
LEMMA TurnedBy ==
    ASSUME TypeOK, control # None,
           \/ \E s \in Slots : Start(s) \/ Pause(s) \/ Resume(s) \/ Stop(s)
           \/ Elapse
    PROVE  /\ control' \in Control /\ control' # None
           /\ control'.seq = control.seq /\ control'.cursor = control.cursor
           /\ control'.interval = control.interval
           /\ called' = called /\ answers' = answers /\ lost' = lost
  <1>1. ASSUME NEW s \in Slots, Start(s)
        PROVE  \/ control' = control
               \/ control' = [control EXCEPT !.status = "RUNNING", !.timer = "set"]
    BY <1>1 DEF Start, Activated
  <1>2. ASSUME NEW s \in Slots, Pause(s)
        PROVE  control' = [control EXCEPT !.status = "PAUSED", !.timer = "off"]
    BY <1>2 DEF Pause
  <1>3. ASSUME NEW s \in Slots, Resume(s)
        PROVE  control' = [control EXCEPT !.status = "RUNNING", !.timer = "set"]
    BY <1>3 DEF Resume, Resumed
  <1>4. ASSUME NEW s \in Slots, Stop(s)
        PROVE  control' = [control EXCEPT !.status = "STOPPED", !.timer = "off"]
    BY <1>4 DEF Stop
  <1>5. ASSUME Elapse
        PROVE  control' = [control EXCEPT !.timer = "due"]
    BY <1>5 DEF Elapse
  <1>6. called' = called /\ answers' = answers /\ lost' = lost
    BY DEF Start, Pause, Resume, Stop, Elapse
  <1>7. CASE control' = control
    BY <1>6, <1>7, ControlTypes, AutoDrawAssumption
  <1>8. CASE Elapse
    <2>1. control' = [control EXCEPT !.status = control.status, !.timer = "due"]
      BY <1>5, <1>8, ControlTypes DEF Control
    <2>2. control.status \in {"ARMED", "RUNNING", "PAUSED", "STOPPED"}
      BY ControlTypes DEF Control
    <2> QED
      BY <1>6, <2>1, <2>2, Turned
  <1>9. CASE control' # control /\ ~ Elapse
    <2>1. PICK a \in {"RUNNING", "PAUSED", "STOPPED"}, b \in {"off", "set"} :
             control' = [control EXCEPT !.status = a, !.timer = b]
      BY <1>1, <1>2, <1>3, <1>4, <1>9
    <2> QED
      BY <1>6, <2>1, Turned
  <1> QED
    BY <1>7, <1>8, <1>9

\* The control that SelectAuto arms.
LEMMA ArmedBy ==
    ASSUME TypeOK, NEW s \in Slots, SelectAuto(s)
    PROVE  /\ control' \in Control /\ control' # None
           /\ control'.cursor = 0 /\ control'.status = "ARMED"
           /\ control'.interval = req[s].interval
  <1>1. req[s] \in Request /\ req[s].interval \in Intervals
    BY DEF SelectAuto, ServingBoth, Serving, Asked, TypeOK, Request
  <1>2. PICK q \in Shuffles : control' = Armed(req[s].interval, q)
    BY DEF SelectAuto
  <1>3. Armed(req[s].interval, q) \in Control
    BY <1>1 DEF Armed, Control
  <1> QED
    BY <1>2, <1>3, AutoDrawAssumption DEF Armed

LEMMA PassedStep ==
    ASSUME Inv, [Next]_vars
    PROVE  Passed'
  <1> USE DEF Inv
  <1>1. CASE UNCHANGED <<game, control, called, answers, lost>>
    BY <1>1, QuietStep
  <1>2. ASSUME NEW s \in Slots, SelectAuto(s)
        PROVE  Passed'
    <2>1. called' = <<>> /\ Len(<<>>) = 0
      BY <1>2 DEF SelectAuto, Selectable
    <2>2. control' \in Control /\ control' # None /\ control'.cursor = 0
      BY <1>2, ArmedBy
    <2>3. 0 <= Len(control'.seq)
      BY <2>2, AutoDrawAssumption DEF Control
    <2> QED
      BY <2>1, <2>2, <2>3 DEF Passed
  <1>3. ASSUME NEW s \in Slots, SelectManual(s)
        PROVE  Passed'
    BY <1>3 DEF SelectManual, Selectable, Passed
  <1>4. ASSUME NEW s \in Slots, Start(s)
        PROVE  Passed'
    <2>1. CASE control = None
      BY <1>4, <2>1 DEF Start, Activated, Passed
    <2>2. CASE control # None
      BY <1>4, <2>2, TurnedBy DEF Passed
    <2> QED
      BY <2>1, <2>2
  <1>5. ASSUME NEW s \in Slots, Close(s)
        PROVE  Passed'
    BY <1>5 DEF Close, Passed
  <1>6. ASSUME NEW s \in Slots, Pause(s) \/ Resume(s) \/ Stop(s)
        PROVE  Passed'
    <2>1. control # None
      BY <1>6 DEF Pause, Resume, Stop
    <2> QED
      BY <1>6, <2>1, TurnedBy DEF Passed
  <1>7. ASSUME Elapse
        PROVE  Passed'
    <2>1. control # None
      BY <1>7 DEF Elapse
    <2> QED
      BY <1>7, <2>1, TurnedBy DEF Passed
  <1>8. ASSUME Expire
        PROVE  Passed'
    BY <1>8 DEF Expire, Passed
  <1>9. ASSUME NEW w \in Workers, Draw(w)
        PROVE  Passed'
    <2> DEFINE n   == control.seq[NextUp]
               won == Completes(n)
    <2>1. Drawing(w) /\ won \in BOOLEAN
      BY <1>9 DEF Draw, Callable, Completes
    <2>2. /\ control # None
          /\ NextUp = control.cursor + 1
          /\ NextUp \in 1..Len(control.seq)
          /\ control' = Advanced(NextUp, won)
          /\ called' = Append(called, n)
      BY <1>9, <2>1, DrawTypes DEF Draw
    <2>3. /\ control' # None
          /\ control'.cursor = control.cursor + 1
          /\ control'.seq = control.seq
      BY <2>1, <2>2, DrawTypes
    <2>4. called \in Seq(Numbers) /\ n \in Numbers
      BY <1>9, <2>2, ControlTypes, OrderNumbers DEF Draw, Callable, TypeOK
    <2>5. \A k \in 1..Len(called') : called'[k] = IF k <= Len(called) THEN called[k] ELSE n
      BY <2>2, <2>4, AppendProperties
    <2>6. \A k \in 1..Len(called') : \E j \in 1..control.cursor + 1 : called'[k] = control.seq[j]
      <3>1. TAKE k \in 1..Len(called')
      <3>2. CASE k <= Len(called)
        <4>1. k \in 1..Len(called) /\ called'[k] = called[k]
          BY <2>2, <2>4, <2>5, <3>2, AppendProperties
        <4> QED
          BY <2>2, <4>1, ControlTypes DEF Passed
      <3>3. CASE ~ (k <= Len(called))
        <4>1. control.cursor + 1 \in 1..control.cursor + 1
          BY <2>2, ControlTypes
        <4> QED
          BY <2>2, <2>5, <3>3, <4>1
      <3> QED
        BY <3>2, <3>3
    <2> QED
      <3>1. \A k \in 1..Len(called') : \E j \in 1..control'.cursor : called'[k] = control'.seq[j]
        BY <2>3, <2>6
      <3>2. control'.cursor <= Len(control'.seq)
        BY <2>2, <2>3, ControlTypes
      <3> QED
        BY <2>3, <3>1, <3>2 DEF Passed
  <1>10. ASSUME NEW w \in Workers, DrawLost(w)
         PROVE  Passed'
    BY <1>10 DEF DrawLost, Passed
  <1>11. ASSUME NEW w \in Workers, DrawCached(w)
         PROVE  Passed'
    <2>1. Drawing(w) /\ (Answer(NextUp, TRUE) \in answers) \in BOOLEAN
      BY <1>11 DEF DrawCached
    <2>2. /\ control' = Advanced(NextUp, Answer(NextUp, TRUE) \in answers)
          /\ called' = called
      BY <1>11 DEF DrawCached
    <2>3. /\ control # None /\ control' # None
          /\ control'.cursor = control.cursor + 1
          /\ control.cursor + 1 \in 1..Len(control.seq)
          /\ control'.seq = control.seq
      BY <2>1, <2>2, DrawTypes
    <2>4. control.cursor \in Nat /\ \A j \in 1..control.cursor : j \in 1..control.cursor + 1
      BY <2>3, ControlTypes
    <2>5. \A k \in 1..Len(called) : \E j \in 1..control.cursor + 1 : called[k] = control.seq[j]
      BY <2>3, <2>4 DEF Passed
    <2> QED
      <3>0. called' = called /\ control'.cursor = control.cursor + 1 /\ control'.seq = control.seq
        BY <2>2, <2>3
      <3>1. \A k \in 1..Len(called') : \E j \in 1..control'.cursor : called'[k] = control'.seq[j]
        BY <2>5, <3>0
      <3>2. control'.cursor <= Len(control'.seq)
        BY <2>3, ControlTypes
      <3> QED
        BY <2>3, <3>1, <3>2 DEF Passed
  <1> QED
    BY <1>1, <1>2, <1>3, <1>4, <1>5, <1>6, <1>7, <1>8, <1>9, <1>10, <1>11, Steps

LEMMA AgreeStep ==
    ASSUME Inv, [Next]_vars
    PROVE  Agree'
  <1> USE DEF Inv
  <1>1. CASE UNCHANGED <<game, control, called, answers, lost>>
    BY <1>1, QuietStep
  <1>2. ASSUME NEW s \in Slots, SelectAuto(s)
        PROVE  Agree'
    <2>1. /\ control' # None /\ control'.status = "ARMED" /\ control'.cursor = 0
          /\ control'.interval = req[s].interval
      BY <1>2, ArmedBy
    <2>2. /\ game'.mode = "AUTO" /\ game'.interval = req[s].interval
          /\ game'.status = "LOBBY" /\ ~ game'.locked /\ called' = <<>>
      BY <1>2 DEF SelectAuto, Selectable, TypeOK, GameRow
    <2> QED
      BY <2>1, <2>2 DEF Agree
  <1>3. ASSUME NEW s \in Slots, SelectManual(s)
        PROVE  Agree'
    BY <1>3 DEF SelectManual, Selectable, Agree, TypeOK, GameRow
  <1>4. ASSUME NEW s \in Slots, Start(s)
        PROVE  Agree'
    <2>1. /\ game.status = "LOBBY" /\ ~ game.locked /\ called' = called /\ called = <<>>
          /\ game'.status = "RUNNING" /\ game'.locked
          /\ game'.mode = game.mode /\ game'.interval = game.interval
      BY <1>4 DEF Start, Agree, TypeOK, GameRow
    <2>2. CASE control = None
      BY <1>4, <2>1, <2>2 DEF Start, Activated, Agree
    <2>3. CASE control # None
      <3>1. /\ control' # None
            /\ control'.seq = control.seq /\ control'.cursor = control.cursor
            /\ control'.interval = control.interval
        BY <1>4, <2>3, TurnedBy
      <3>2. control.cursor = 0 /\ Len(control.seq) > 0 /\ control.status # "RUNNING"
        BY <2>1, <2>3, ControlTypes DEF Agree
      <3>3. control'.status = "RUNNING" => control'.timer # "off"
        BY <1>4, <2>3, <3>2, ControlTypes DEF Start, Activated, Control
      <3> QED
        BY <2>1, <2>3, <3>1, <3>2, <3>3 DEF Agree
    <2> QED
      BY <2>2, <2>3
  <1>5. ASSUME NEW s \in Slots, Close(s)
        PROVE  Agree'
    BY <1>5 DEF Close, Agree, TypeOK, GameRow
  <1>6. ASSUME NEW s \in Slots, Pause(s)
        PROVE  Agree'
    <2>1. /\ control # None /\ control'.status = "PAUSED"
          /\ game' = game /\ game.locked /\ game.status = "RUNNING"
      BY <1>6, ControlTypes DEF Pause, InAutoGame, Control
    <2> QED
      BY <1>6, <2>1, TurnedBy DEF Agree
  <1>7. ASSUME NEW s \in Slots, Resume(s)
        PROVE  Agree'
    <2>1. /\ control # None /\ control'.status = "RUNNING" /\ control'.timer = "set"
          /\ control.cursor < Len(control.seq)
          /\ game' = game /\ game.locked /\ game.status = "RUNNING"
      BY <1>7, ControlTypes DEF Resume, Resumed, InAutoGame, Control
    <2> QED
      BY <1>7, <2>1, TurnedBy DEF Agree
  <1>8. ASSUME NEW s \in Slots, Stop(s)
        PROVE  Agree'
    <2>1. control # None /\ control'.status = "STOPPED" /\ game' = game
      BY <1>8, ControlTypes DEF Stop, Control
    <2> QED
      BY <1>8, <2>1, TurnedBy DEF Agree
  <1>9. ASSUME Elapse
        PROVE  Agree'
    <2>1. /\ control # None /\ control'.status = control.status /\ control'.timer = "due"
          /\ game' = game
      BY <1>9, ControlTypes DEF Elapse, Control
    <2> QED
      BY <1>9, <2>1, TurnedBy DEF Agree
  <1>10. ASSUME Expire
         PROVE  Agree'
    BY <1>10 DEF Expire, Agree
  <1>11. ASSUME NEW w \in Workers, Draw(w)
         PROVE  Agree'
    <2> DEFINE won == Completes(control.seq[NextUp])
    <2>1. Drawing(w) /\ won \in BOOLEAN /\ InAutoGame
      BY <1>11 DEF Draw, Callable, Completes, Drawing, Drawable
    <2>2. /\ control' = Advanced(NextUp, won)
          /\ game' = [game EXCEPT !.status = IF won THEN "ENDED" ELSE @]
      BY <1>11 DEF Draw
    <2>3. /\ control # None /\ control' # None
          /\ NextUp = control.cursor + 1
          /\ control'.cursor = NextUp
          /\ control'.seq = control.seq
          /\ control'.interval = control.interval
          /\ control'.status = Status(NextUp, won)
          /\ control'.timer = Timer(Status(NextUp, won))
      BY <2>1, <2>2, DrawTypes
    <2>4. /\ game'.mode = "AUTO" /\ game'.locked
          /\ game'.interval = game.interval
          /\ game'.status = IF won THEN "ENDED" ELSE "RUNNING"
      BY <2>1, <2>2 DEF InAutoGame, TypeOK, GameRow
    <2>5. control'.status = "RUNNING" =>
             ~ won /\ control'.cursor < Len(control'.seq) /\ control'.timer # "off"
      BY <2>3 DEF Status, Timer
    <2>6. won => control'.status = "STOPPED"
      BY <2>3 DEF Status
    <2> QED
      BY <2>3, <2>4, <2>5, <2>6 DEF Agree
  <1>12. ASSUME NEW w \in Workers, DrawLost(w)
         PROVE  Agree'
    BY <1>12 DEF DrawLost, Agree
  <1>13. ASSUME NEW w \in Workers, DrawCached(w)
         PROVE  Agree'
    <2> DEFINE won == Answer(NextUp, TRUE) \in answers
    <2>1. Drawing(w) /\ won \in BOOLEAN /\ InAutoGame
      BY <1>13 DEF DrawCached, Drawing, Drawable
    <2>2. control' = Advanced(NextUp, won) /\ game' = game /\ called' = called
      BY <1>13 DEF DrawCached
    <2>3. /\ control # None /\ control' # None
          /\ NextUp = control.cursor + 1
          /\ control'.cursor = NextUp
          /\ control'.seq = control.seq
          /\ control'.interval = control.interval
          /\ control'.status = Status(NextUp, won)
          /\ control'.timer = Timer(Status(NextUp, won))
      BY <2>1, <2>2, DrawTypes
    <2>4. control'.status = "RUNNING" =>
             control'.cursor < Len(control'.seq) /\ control'.timer # "off"
      BY <2>3 DEF Status, Timer
    <2> QED
      BY <2>1, <2>2, <2>3, <2>4 DEF Agree, InAutoGame
  <1> QED
    BY <1>1, <1>2, <1>3, <1>4, <1>5, <1>6, <1>7, <1>8, <1>9, <1>10, <1>11, <1>12, <1>13, Steps

LEMMA NoLossStep ==
    ASSUME Inv, [Next]_vars
    PROVE  NoLoss'
  <1> USE DEF Inv
  <1>1. CASE UNCHANGED <<game, control, called, answers, lost>>
    BY <1>1, QuietStep
  <1>2. ASSUME ~ game.locked, lost = 0
        PROVE  answers = {}
    BY <1>2, ControlTypes DEF Agree, NoLoss, TypeOK
  <1>3. ASSUME NEW s \in Slots, SelectAuto(s)
        PROVE  NoLoss'
    <2>1. control' # None /\ control'.cursor = 0
      BY <1>3, ArmedBy
    <2>2. called' = <<>> /\ Len(<<>>) = 0 /\ answers' = answers /\ lost' = lost /\ ~ game.locked
      BY <1>3 DEF SelectAuto, Selectable
    <2> QED
      BY <1>2, <2>1, <2>2 DEF NoLoss
  <1>4. ASSUME NEW s \in Slots, SelectManual(s)
        PROVE  NoLoss'
    BY <1>2, <1>4 DEF SelectManual, Selectable, NoLoss
  <1>5. ASSUME NEW s \in Slots, Start(s)
        PROVE  NoLoss'
    <2>1. CASE control = None
      BY <1>5, <2>1 DEF Start, Activated, NoLoss
    <2>2. CASE control # None
      BY <1>5, <2>2, TurnedBy DEF NoLoss
    <2> QED
      BY <2>1, <2>2
  <1>6. ASSUME NEW s \in Slots, Close(s)
        PROVE  NoLoss'
    BY <1>6 DEF Close, NoLoss
  <1>7. ASSUME NEW s \in Slots, Pause(s) \/ Resume(s) \/ Stop(s)
        PROVE  NoLoss'
    <2>1. control # None
      BY <1>7 DEF Pause, Resume, Stop
    <2> QED
      BY <1>7, <2>1, TurnedBy DEF NoLoss
  <1>8. ASSUME Elapse
        PROVE  NoLoss'
    <2>1. control # None
      BY <1>8 DEF Elapse
    <2> QED
      BY <1>8, <2>1, TurnedBy DEF NoLoss
  <1>9. ASSUME Expire
        PROVE  NoLoss'
    BY <1>9 DEF Expire, NoLoss
  <1>10. ASSUME NEW w \in Workers, Draw(w)
         PROVE  NoLoss'
    <2> DEFINE n   == control.seq[NextUp]
               won == Completes(n)
    <2>1. Drawing(w) /\ won \in BOOLEAN
      BY <1>10 DEF Draw, Callable, Completes
    <2>2. /\ control' = Advanced(NextUp, won)
          /\ called' = Append(called, n)
          /\ answers' = answers \cup {Answer(NextUp, won)}
          /\ lost' = lost
      BY <1>10 DEF Draw
    <2>3. /\ control # None /\ control' # None
          /\ NextUp = control.cursor + 1
          /\ control'.cursor = control.cursor + 1
          /\ control'.seq = control.seq
          /\ Answer(NextUp, won).cursor = control.cursor
          /\ control.cursor \in Nat
      BY <2>1, <2>2, DrawTypes, ControlTypes
    <2>4. called \in Seq(Numbers) /\ n \in Numbers
      BY <1>10, <2>1, DrawTypes, ControlTypes, OrderNumbers DEF Draw, Callable, TypeOK
    <2>5. ASSUME lost = 0
          PROVE  /\ \A a \in answers' : a.cursor < control'.cursor
                 /\ Len(called') = control'.cursor
                 /\ \A k \in 1..Len(called') : called'[k] = control'.seq[k]
      <3>1. \A a \in answers : a.cursor \in Nat /\ a.cursor < control.cursor
        BY <2>3, <2>5 DEF NoLoss, TypeOK
      <3>2. \A a \in answers' : a.cursor < control'.cursor
        BY <2>2, <2>3, <3>1
      <3>3. Len(called) = control.cursor
        BY <2>3, <2>5 DEF NoLoss
      <3>4. Len(called') = control'.cursor
        BY <2>2, <2>3, <2>4, <3>3, AppendProperties
      <3>5. \A k \in 1..Len(called') : called'[k] = control'.seq[k]
        BY <2>2, <2>3, <2>4, <2>5, <3>3, AppendProperties DEF NoLoss
      <3> QED
        BY <3>2, <3>4, <3>5
    <2> QED
      BY <2>2, <2>3, <2>5 DEF NoLoss
  <1>11. ASSUME NEW w \in Workers, DrawLost(w)
         PROVE  NoLoss'
    BY <1>11 DEF DrawLost, NoLoss, TypeOK
  <1>12. ASSUME NEW w \in Workers, DrawCached(w)
         PROVE  NoLoss'
    <2>1. Drawing(w) /\ Cached(NextUp) /\ lost' = lost
      BY <1>12 DEF DrawCached
    <2>2. PICK won \in BOOLEAN : Answer(NextUp, won) \in answers
      BY <2>1 DEF Cached
    <2>3. control # None /\ Answer(NextUp, won).cursor = control.cursor
      BY <2>1, DrawTypes
    <2>4. lost # 0
      BY <2>2, <2>3, ControlTypes DEF NoLoss
    <2> QED
      BY <2>1, <2>4 DEF NoLoss
  <1> QED
    BY <1>1, <1>3, <1>4, <1>5, <1>6, <1>7, <1>8, <1>9, <1>10, <1>11, <1>12, Steps

-----------------------------------------------------------------------------
(* The theorems *)

LEMMA InvInit ==
    ASSUME Init
    PROVE  Inv
  <1>1. TypeOK
    BY AutoDrawAssumption DEF Init, TypeOK, GameRow
  <1>2. Passed /\ Agree /\ NoLoss
    BY DEF Init, Passed, Agree, NoLoss, TypeOK
  <1> QED
    BY <1>1, <1>2 DEF Inv

LEMMA Invariance == Spec => []Inv
  <1>1. Init => Inv
    BY InvInit
  <1>2. Inv /\ [Next]_vars => Inv'
    BY TypeStep, PassedStep, AgreeStep, NoLossStep DEF Inv
  <1> QED
    BY <1>1, <1>2, PTL DEF Spec

\* The rows, the requests and the cached answers are what the code takes them for.
THEOREM WellTyped == Spec => []TypeOK
  BY Invariance, PTL DEF Inv

\* Whatever requests and cycles overlap and whatever is lost, the worker is never
\* made to halt a draw: a control that runs has a game and numbers left to draw,
\* and its next draw is scheduled (game_auto_draw_worker.py, 78-142).
THEOREM WorkerNeverHalts == Spec => []AlwaysDrawable
  <1>1. ASSUME Inv, control # None, control.status = "RUNNING"
        PROVE  Drawable /\ control.timer # "off"
    <2>1. Remaining # {}
      <3>1. control.cursor + 1 \in control.cursor + 1 .. Len(control.seq)
        BY <1>1, ControlTypes DEF Inv, Agree
      <3> QED
        BY <1>1, <3>1, NextAtCursor DEF Inv
    <2>2. game.status = "RUNNING" /\ game.locked /\ game.mode = "AUTO"
      BY <1>1 DEF Inv, Agree
    <2> QED
      BY <1>1, <2>1, <2>2 DEF Inv, Agree, Drawable, InAutoGame
  <1>2. Inv => AlwaysDrawable
    BY <1>1 DEF AlwaysDrawable
  <1> QED
    BY <1>2, Invariance, PTL

\* Mode, interval and control agree after any selections, stops, starts and closes
\* (game_draw_mode_service.py, 99-144).
THEOREM ModeHasControl == Spec => []ControlOfMode
  <1>1. Inv => ControlOfMode
    BY DEF Inv, Agree, ControlOfMode
  <1> QED
    BY <1>1, Invariance, PTL

\* Unless a commit of the worker is lost, no number of the order is skipped,
\* although the worker works on a list of games that may be out of date and
\* answers of earlier calls stay in Redis (game_auto_draw_worker.py, 131-168).
THEOREM SkipsNothing == Spec => []NothingSkipped
  <1>1. ASSUME Inv, lost = 0, control # None
        PROVE  called = SubSeq(control.seq, 1, control.cursor)
    <2>1. /\ control.seq \in Seq(Nat) /\ control.cursor \in Nat
          /\ control.cursor <= Len(control.seq)
          /\ Len(called) = control.cursor
          /\ \A k \in 1..Len(called) : called[k] = control.seq[k]
      BY <1>1, ControlTypes DEF Inv, Passed, NoLoss
    <2> DEFINE sub == SubSeq(control.seq, 1, control.cursor)
    <2>2. /\ sub \in Seq(Nat) /\ Len(sub) = control.cursor
          /\ \A k \in 1..control.cursor : sub[k] = control.seq[k]
      <3>1. CASE control.cursor = 0
        BY <2>1, <3>1
      <3>2. CASE control.cursor # 0
        BY <2>1, <3>2
      <3> QED
        BY <3>1, <3>2
    <2>3. called \in Seq(Nat)
      <3>1. \A m \in Limits : 1..m \subseteq Nat
        BY AutoDrawAssumption
      <3>2. called \in Seq(Numbers) /\ Numbers \subseteq Nat
        BY <1>1, <3>1 DEF Inv, TypeOK, Numbers
      <3>3. \A k \in 1..Len(called) : called[k] \in Nat
        BY <3>2, ElementOfSeq
      <3> QED
        BY <3>2, <3>3
    <2> HIDE DEF sub
    <2>4. called = sub
      BY <2>1, <2>2, <2>3, SeqEqual
    <2> QED
      BY <2>4 DEF sub
  <1>2. Inv => NothingSkipped
    BY <1>1 DEF NothingSkipped
  <1> QED
    BY <1>2, Invariance, PTL

-----------------------------------------------------------------------------
(* The end of a game *)

LEMMA Appended ==
    ASSUME NEW S, NEW q \in Seq(S), NEW n \in S
    PROVE  /\ Images(Append(q, n)) = Images(q) \cup {n}
           /\ Append(q, n) # <<>>
           /\ SubSeq(Append(q, n), 1, Len(Append(q, n)) - 1) = q
  <1> DEFINE a == Append(q, n)
  <1>1. /\ a \in Seq(S) /\ Len(q) \in Nat /\ Len(a) = Len(q) + 1
        /\ \A i \in 1..Len(q) : a[i] = q[i]
        /\ a[Len(q) + 1] = n
    BY AppendProperties, LenProperties
  <1> HIDE DEF a
  <1>2. Images(a) = Images(q) \cup {n}
    <2>1. 1..Len(a) = 1..Len(q) \cup {Len(q) + 1}
      BY <1>1
    <2> QED
      BY <1>1, <2>1 DEF Images
  <1>3. a # <<>>
    BY <1>1, EmptySeq
  <1>4. SubSeq(a, 1, Len(a) - 1) = q
    <2>1. CASE Len(q) = 0
      BY <1>1, <2>1, EmptySeq, SubSeqProperties
    <2>2. CASE Len(q) > 0
      <3>1. /\ SubSeq(a, 1, Len(q)) \in Seq(S)
            /\ Len(SubSeq(a, 1, Len(q))) = Len(q)
            /\ \A i \in 1..Len(q) : SubSeq(a, 1, Len(q))[i] = a[i]
        BY <1>1, <2>2, SubSeqProperties
      <3>2. SubSeq(a, 1, Len(q)) = q
        BY <1>1, <3>1, SeqEqual
      <3> QED
        BY <1>1, <3>2
    <2> QED
      BY <1>1, <2>1, <2>2
  <1> QED
    BY <1>2, <1>3, <1>4 DEF a

LEMMA EndStep ==
    ASSUME Inv, EndsWithRow, [Next]_vars
    PROVE  EndsWithRow'
  <1> USE DEF Inv
  <1>1. CASE game'.status = game.status /\ called' = called
    BY <1>1 DEF EndsWithRow, Board
  <1>2. ASSUME NEW s \in Slots, Start(s) \/ Close(s)
        PROVE  EndsWithRow'
    <2>1. called' = <<>> /\ game'.status \in {"RUNNING", "ENDED"}
      BY <1>2 DEF Start, Close, Agree, TypeOK, GameRow
    <2>2. Board' = {}
      BY <2>1 DEF Board, Images
    <2>3. ~ Complete({})
      <3>1. ASSUME NEW row \in Wins
            PROVE  ~ (row \subseteq {})
        <4>1. row \subseteq {} => row = {}
          OBVIOUS
        <4> QED
          BY <4>1, AutoDrawAssumption
      <3> QED
        BY <3>1 DEF Complete
    <2> QED
      BY <2>1, <2>2, <2>3 DEF EndsWithRow
  <1>3. ASSUME NEW w \in Workers, Draw(w)
        PROVE  EndsWithRow'
    <2> DEFINE n == control.seq[NextUp]
    <2>1. Drawing(w) /\ game.status = "RUNNING" /\ ~ Complete(Board)
      BY <1>3 DEF Draw, Callable, Drawing, Drawable, InAutoGame, EndsWithRow
    <2>2. called' = Append(called, n) /\ called \in Seq(Numbers) /\ n \in Numbers
      BY <1>3, <2>1, DrawTypes, ControlTypes, OrderNumbers DEF Draw, Callable, TypeOK
    <2>3. /\ Board' = Board \cup {n}
          /\ called' # <<>>
          /\ SubSeq(called', 1, Len(called') - 1) = called
      BY <2>2, Appended DEF Board
    <2>4. game'.status = IF Complete(Board') THEN "ENDED" ELSE "RUNNING"
      BY <1>3, <2>1, <2>3 DEF Draw, Completes, Complete, TypeOK, GameRow
    <2> QED
      BY <2>1, <2>3, <2>4 DEF EndsWithRow, Board
  <1>4. CASE \/ \E s \in Slots : \/ SelectAuto(s) \/ SelectManual(s)
                                 \/ Pause(s) \/ Resume(s) \/ Stop(s)
             \/ Elapse \/ Expire
             \/ \E w \in Workers : DrawLost(w) \/ DrawCached(w)
    BY <1>1, <1>4 DEF SelectAuto, SelectManual, Pause, Resume, Stop, Elapse, Expire,
                      DrawLost, DrawCached, TypeOK, GameRow
  <1> QED
    BY <1>1, <1>2, <1>3, <1>4, Steps

\* A game ends with the number that completes the first row and with no other,
\* also after lost commits and answers from the cache
\* (game_service.py, 714 and 940-1050).
THEOREM EndsAtFirstRow == Spec => []EndsWithRow
  <1>1. Init => EndsWithRow
    BY DEF Init, EndsWithRow
  <1>2. Inv /\ EndsWithRow /\ [Next]_vars => EndsWithRow'
    BY EndStep
  <1> QED
    BY <1>1, <1>2, Invariance, PTL DEF Spec

-----------------------------------------------------------------------------
(* The draw keeps the promise of DrawSpec.tla *)

\* A cycle that has locked a control holds it, and it runs.
Locked ==
    \A w \in Workers : worker[w] = "locked" =>
        held.control = w /\ control # None /\ control.status = "RUNNING"

LEMMA LockedStep ==
    ASSUME Inv, Locked, [Next]_vars
    PROVE  Locked'
  <1> USE DEF Inv
  <1>0. None \notin Workers
    BY AutoDrawAssumption
  <1>1. CASE control' = control /\ held'.control = held.control /\ worker' = worker
    BY <1>1 DEF Locked
  <1>2. ASSUME NEW s \in Slots, Done(s)
        PROVE  held'.control = held.control
    BY <1>2 DEF Done, TypeOK
  <1>3. ASSUME NEW s \in Slots, Serve(s)
        PROVE  Locked'
    <2>1. worker' = worker /\ held'.control = held.control
      BY <1>2, <1>3 DEF Serve, SelectAuto, SelectManual, Start, Close, Pause, Resume, Stop, Drop
    <2>2. control' = control \/ held.control = None
      BY <1>3 DEF Serve, SelectAuto, SelectManual, Start, Close, Pause, Resume, Stop, Drop, ServingBoth
    <2> QED
      BY <1>0, <2>1, <2>2 DEF Locked
  <1>4. CASE Elapse
    <2>1. control # None /\ control' # None /\ control'.status = control.status
      BY <1>4, TurnedBy, ControlTypes DEF Elapse, Control
    <2> QED
      BY <1>4, <2>1 DEF Elapse, Locked
  <1>5. ASSUME NEW w \in Workers, Pick(w)
        PROVE  Locked'
    BY <1>5 DEF Pick, Locked, TypeOK
  <1>6. ASSUME NEW w \in Workers, LockControl(w)
        PROVE  Locked'
    BY <1>0, <1>6 DEF LockControl, Locked, TypeOK
  <1>7. ASSUME NEW w \in Workers, Draw(w) \/ DrawLost(w) \/ DrawCached(w)
        PROVE  Locked'
    <2>1. worker[w] = "locked" /\ held.control = w
      BY <1>7 DEF Draw, DrawLost, DrawCached, Callable, Drawing, Locked
    <2>2. \A v \in Workers : worker'[v] # "locked"
      BY <1>7, <2>1 DEF Draw, DrawLost, DrawCached, Released, Locked, TypeOK
    <2> QED
      BY <2>2 DEF Locked
  <1>8. ASSUME NEW w \in Workers, Fail(w)
        PROVE  Locked'
    BY <1>0, <1>8 DEF Fail, Released, Locked, TypeOK
  <1>9. CASE \/ UNCHANGED vars \/ Expire
             \/ \E m \in Limits : SetLimit(m)
             \/ \E s \in Slots : Ask(s) \/ LockGame(s)
    <2>1. control' = control /\ worker' = worker /\ held'.control = held.control
      BY <1>9 DEF vars, Expire, SetLimit, Ask, LockGame, TypeOK
    <2> QED
      BY <1>1, <2>1
  <1> QED
    BY <1>3, <1>4, <1>5, <1>6, <1>7, <1>8, <1>9 DEF Next, Work

\* A number of an order has one position.
LEMMA PositionOf ==
    ASSUME NEW q \in Shuffles, NEW i \in 1..Len(q)
    PROVE  Position(q, q[i]) = i
  BY AutoDrawAssumption DEF Position

\* The positions drawn are those that the cursor has passed.
LEMMA PositionsPassed ==
    ASSUME Inv, control # None
    PROVE  /\ Positions \in Seq(Nat)
           /\ Len(Positions) = Len(called)
           /\ \A k \in 1..Len(called) : Positions[k] \in 1..control.cursor
           /\ Committed!Last \in 0..control.cursor
  <1>1. Len(called) \in Nat /\ control.cursor \in Nat
    BY ControlTypes DEF Inv
  <1>2. ASSUME NEW k \in 1..Len(called)
        PROVE  Position(control.seq, called[k]) \in 1..control.cursor
    <2>1. PICK j \in 1..control.cursor : called[k] = control.seq[j]
      BY DEF Inv, Passed
    <2>2. control.seq \in Shuffles /\ j \in 1..Len(control.seq)
      BY ControlTypes DEF Inv, Passed
    <2> QED
      BY <2>1, <2>2, PositionOf
  <1>3. /\ Positions \in Seq(Nat)
        /\ Len(Positions) = Len(called)
        /\ \A k \in 1..Len(called) : Positions[k] \in 1..control.cursor
    BY <1>1, <1>2 DEF Positions
  <1>4. Committed!Last \in 0..control.cursor
    <2>1. CASE Positions = <<>>
      BY <1>1, <2>1 DEF Committed!Last
    <2>2. CASE Positions # <<>>
      <3>1. Len(called) \in 1..Len(called)
        BY <1>1, <1>3, <2>2, EmptySeq
      <3> QED
        BY <1>1, <1>3, <2>2, <3>1 DEF Committed!Last
    <2> QED
      BY <2>1, <2>2
  <1> QED
    BY <1>3, <1>4

\* A draw appends the position at the cursor.
LEMMA DrawnNext ==
    ASSUME Inv, NEW w \in Workers, Draw(w)
    PROVE  /\ Positions' = Append(Positions, control.cursor + 1)
           /\ Order' = Order
  <1> DEFINE n   == control.seq[NextUp]
             won == Completes(n)
  <1>1. Drawing(w) /\ won \in BOOLEAN
    BY DEF Draw, Callable, Completes
  <1>2. /\ control # None /\ control' # None
        /\ NextUp = control.cursor + 1
        /\ NextUp \in 1..Len(control.seq)
        /\ control'.seq = control.seq
    BY <1>1, DrawTypes DEF Draw
  <1>3. called \in Seq(Numbers) /\ n \in Numbers /\ called' = Append(called, n)
    BY <1>2, ControlTypes, OrderNumbers DEF Draw, Callable, Inv, TypeOK
  <1>4. /\ Len(called) \in Nat /\ Len(called') = Len(called) + 1
        /\ \A k \in 1..Len(called) : called'[k] = called[k]
        /\ called'[Len(called) + 1] = n
    BY <1>3, AppendProperties, LenProperties
  <1>5. Position(control.seq, n) = control.cursor + 1
    BY <1>2, ControlTypes, PositionOf DEF Inv
  <1> DEFINE a == Append(Positions, control.cursor + 1)
  <1>6. /\ a \in Seq(Nat)
        /\ Len(a) = Len(called) + 1
        /\ \A k \in 1..Len(called) : a[k] = Positions[k]
        /\ a[Len(called) + 1] = control.cursor + 1
    BY <1>2, PositionsPassed, ControlTypes, AppendProperties DEF Inv
  <1>7. Positions' = [k \in 1..Len(called) + 1 |-> Position(control.seq, called'[k])]
    BY <1>2, <1>4 DEF Positions
  <1> HIDE DEF a, n
  <1>8. \A k \in 1..Len(called) + 1 : Position(control.seq, called'[k]) = a[k]
    <2>1. \A k \in 1..Len(called) : Positions[k] = Position(control.seq, called[k])
      BY DEF Positions
    <2>2. \A k \in 1..Len(called) + 1 : k \in 1..Len(called) \/ k = Len(called) + 1
      BY <1>4
    <2> QED
      BY <1>4, <1>5, <1>6, <2>1, <2>2
  <1>9. a = [k \in 1..Len(called) + 1 |-> a[k]]
    BY <1>4, <1>6
  <1>10. Positions' = a
    BY <1>7, <1>8, <1>9
  <1> QED
    BY <1>2, <1>10 DEF Order, a

LEMMA StepKeepsPromise ==
    ASSUME Inv, Locked, [Next]_vars
    PROVE  [Committed!Next]_(Committed!vars)
  <1> USE DEF Inv
  <1> DEFINE Stutter == Order' = Order /\ Positions' = Positions /\ Phase' = Phase
  <1>1. ASSUME UNCHANGED <<control, called>>, UNCHANGED game
        PROVE  Stutter
    BY <1>1 DEF Order, Positions, Phase, DrawStatus
  <1>2. Stutter => UNCHANGED Committed!vars
    BY DEF Committed!vars
  <1>3. ASSUME NEW s \in Slots, SelectAuto(s) \/ SelectManual(s)
        PROVE  Committed!Choose
    <2>1. Phase = "lobby" /\ Phase' = "lobby" /\ called = <<>> /\ called' = <<>>
      BY <1>3 DEF SelectAuto, SelectManual, Selectable, Phase, TypeOK, GameRow
    <2>2. Positions' = Positions
      BY <2>1, EmptySeq DEF Positions
    <2>3. Order' \in Shuffles \cup {None}
      BY <1>3, ArmedBy DEF SelectManual, Order, Control
    <2> QED
      BY <2>1, <2>2, <2>3 DEF Committed!Choose
  <1>4. ASSUME \/ \E s \in Slots : Start(s) \/ Pause(s) \/ Resume(s) \/ Stop(s)
               \/ Elapse,
               control # None
        PROVE  Order' = Order /\ Positions' = Positions
    BY <1>4, TurnedBy DEF Order, Positions
  <1>5. ASSUME NEW s \in Slots, Start(s)
        PROVE  Committed!Open \/ Committed!Turn
    <2>1. Phase = "lobby" /\ game'.status = "RUNNING" /\ game.status = "LOBBY"
      BY <1>5 DEF Start, Phase, TypeOK, GameRow
    <2>2. CASE control = None
      <3>1. control' = None /\ called' = called
        BY <1>5, <2>2 DEF Start, Activated
      <3>2. Order' = Order /\ Positions' = Positions /\ Phase' = "over"
        BY <2>1, <2>2, <3>1 DEF Order, Positions, Phase, DrawStatus
      <3> QED
        BY <2>1, <3>2 DEF Committed!Turn
    <2>3. CASE control # None
      <3>1. Order' = Order /\ Positions' = Positions /\ Order # None /\ control' # None
        BY <1>4, <1>5, <2>3, TurnedBy, ControlTypes, AutoDrawAssumption DEF Order
      <3>2. control'.status \in {"RUNNING", "STOPPED"}
        BY <1>5, <2>1, <2>3, ControlTypes DEF Start, Activated, Agree, Control
      <3>3. Phase' \in {"open", "over"}
        BY <2>1, <3>1, <3>2 DEF Phase, DrawStatus
      <3> QED
        BY <2>1, <3>1, <3>3 DEF Committed!Open, Committed!Turn
    <2> QED
      BY <2>2, <2>3
  <1>6. ASSUME NEW s \in Slots, Close(s)
        PROVE  Committed!Turn
    <2>1. game.status = "LOBBY" /\ game'.status = "ENDED" /\ control' = control /\ called' = called
      BY <1>6 DEF Close, TypeOK, GameRow
    <2>2. Phase = "lobby" /\ Phase' = "over"
      BY <2>1 DEF Phase, DrawStatus, Agree
    <2> QED
      BY <2>1, <2>2 DEF Committed!Turn, Order, Positions
  <1>7. ASSUME NEW s \in Slots, Pause(s) \/ Resume(s)
        PROVE  Committed!Turn
    <2>1. /\ control # None /\ game' = game /\ game.status = "RUNNING"
          /\ \/ control.status = "RUNNING" /\ control'.status = "PAUSED"
             \/ control.status = "PAUSED" /\ control'.status = "RUNNING"
      BY <1>7, ControlTypes DEF Pause, Resume, Resumed, InAutoGame, Control
    <2>2. control' # None /\ Order' = Order /\ Positions' = Positions
      BY <1>4, <1>7, <2>1, TurnedBy
    <2>3. \/ Phase = "open" /\ Phase' = "paused"
          \/ Phase = "paused" /\ Phase' = "open"
      BY <2>1, <2>2 DEF Phase, DrawStatus
    <2> QED
      BY <2>2, <2>3 DEF Committed!Turn
  <1>8. ASSUME NEW s \in Slots, Stop(s)
        PROVE  Stutter
    <2>1. /\ control # None /\ game' = game /\ game.status # "RUNNING"
          /\ control'.status = "STOPPED"
      BY <1>8, ControlTypes DEF Stop, Stoppable, Agree, Control
    <2>2. control' # None /\ Order' = Order /\ Positions' = Positions
      BY <1>4, <1>8, <2>1, TurnedBy
    <2>3. Phase' = Phase
      BY <2>1, <2>2 DEF Phase, DrawStatus, Agree
    <2> QED
      BY <2>2, <2>3
  <1>9. ASSUME Elapse
        PROVE  Stutter
    <2>1. control # None /\ game' = game /\ control'.status = control.status
      BY <1>9, ControlTypes DEF Elapse, Control
    <2>2. control' # None /\ Order' = Order /\ Positions' = Positions
      BY <1>4, <1>9, <2>1, TurnedBy
    <2> QED
      BY <2>1, <2>2 DEF Phase, DrawStatus
  <1>10. ASSUME NEW w \in Workers, Drawing(w)
         PROVE  /\ control # None /\ game.status = "RUNNING" /\ Phase = "open"
                /\ Order = control.seq
    BY <1>10 DEF Drawing, Drawable, InAutoGame, Locked, Phase, DrawStatus, Order
  <1>11. ASSUME NEW w \in Workers, Draw(w)
         PROVE  Committed!Draw
    <2> DEFINE won == Completes(control.seq[NextUp])
    <2>1. Drawing(w) /\ won \in BOOLEAN
      BY <1>11 DEF Draw, Callable, Completes
    <2>2. /\ control' # None
          /\ control'.status \in {"RUNNING", "PAUSED", "STOPPED"}
          /\ control.cursor + 1 \in 1..Len(control.seq)
      BY <1>11, <2>1, DrawTypes DEF Draw
    <2>3. game'.status \in {"RUNNING", "ENDED"}
      BY <1>10, <1>11, <2>1 DEF Draw, TypeOK, GameRow
    <2>4. Phase' \in {"open", "paused", "over"}
      BY <2>2, <2>3 DEF Phase, DrawStatus
    <2>5. control.cursor + 1 \in Committed!Last + 1 .. Len(Order)
      BY <1>10, <2>1, <2>2, PositionsPassed, ControlTypes
    <2>6. Positions' = Append(Positions, control.cursor + 1) /\ Order' = Order
      BY <1>11, DrawnNext
    <2> QED
      BY <1>10, <2>1, <2>4, <2>5, <2>6 DEF Committed!Draw
  <1>12. ASSUME NEW w \in Workers, DrawCached(w)
         PROVE  Stutter \/ Committed!Turn
    <2> DEFINE won == Answer(NextUp, TRUE) \in answers
    <2>1. Drawing(w) /\ won \in BOOLEAN /\ game' = game /\ called' = called
      BY <1>12 DEF DrawCached
    <2>2. /\ control' # None
          /\ control'.seq = control.seq
          /\ control'.status \in {"RUNNING", "PAUSED", "STOPPED"}
      BY <1>12, <2>1, DrawTypes DEF DrawCached
    <2>3. Order' = Order /\ Positions' = Positions
      BY <1>10, <2>1, <2>2 DEF Order, Positions
    <2>4. Phase = "open" /\ Phase' \in {"open", "paused", "over"}
      BY <1>10, <2>1, <2>2 DEF Phase, DrawStatus
    <2> QED
      BY <2>3, <2>4 DEF Committed!Turn
  <1>13. ASSUME Expire \/ \E w \in Workers : DrawLost(w)
         PROVE  Stutter
    BY <1>1, <1>13 DEF Expire, DrawLost
  <1>14. CASE UNCHANGED <<game, control, called, answers, lost>>
    BY <1>1, <1>2, <1>14
  <1> HIDE DEF Stutter
  <1> QED
    BY <1>2, <1>3, <1>5, <1>6, <1>7, <1>8, <1>9, <1>11, <1>12, <1>13, <1>14, Steps
    DEF Committed!Next

\* Whatever requests and cycles overlap, fail or lose their commit, the numbers
\* come in the order that was fixed at the start, each once, and none while the
\* draw is paused or over (game_auto_draw_worker.py, 63-188).
THEOREM KeepsPromise == Spec => DrawnAsCommitted
  <1>1. Init => Inv /\ Locked
    BY InvInit DEF Init, Locked
  <1>2. Inv /\ Locked /\ [Next]_vars => Locked'
    BY LockedStep
  <1>3. Spec => []Locked
    BY <1>1, <1>2, Invariance, PTL DEF Spec
  <1>4. Init => Committed!Init
    <2>1. ASSUME Init
          PROVE  Order = None /\ Positions = <<>> /\ Phase = "lobby"
      <3>1. called = <<>> /\ 1..Len(called) = {}
        BY <2>1 DEF Init
      <3>2. Positions = [i \in {} |-> Position(control.seq, called[i])]
        BY <3>1 DEF Positions
      <3>3. Positions = <<>>
        BY <3>2
      <3> QED
        BY <2>1, <3>3 DEF Init, Order, Phase
    <2> QED
      BY <2>1 DEF Committed!Init
  <1>5. Inv /\ Locked /\ [Next]_vars => [Committed!Next]_(Committed!vars)
    BY StepKeepsPromise
  <1> QED
    BY <1>3, <1>4, <1>5, Invariance, PTL DEF Spec, DrawnAsCommitted, Committed!Spec
=============================================================================
