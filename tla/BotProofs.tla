----------------------------- MODULE BotProofs ------------------------------
(***************************************************************************)
(* Theorems about Bot.tla for any users, administrators, chats and games,  *)
(* any number of updates and faults: the live monitors, the messages about *)
(* decisions, the refunds of a closed lobby, the games a click opens, the  *)
(* restrictions of users, and at last the types of all the state. Each has *)
(* an inductive invariant of its own over the part of the state it is      *)
(* about; the types need all of them.                                      *)
(***************************************************************************)
EXTENDS Bot, FiniteSetTheorems, SequenceTheorems, WellFoundedInduction, TLAPS

-----------------------------------------------------------------------------
(* Live monitors                                                           *)
(*                                                                         *)
(* Tasks are numbered as they are started, so a new one is not confused    *)
(* with one that a chat still remembers.                                   *)

Monitored ==
    /\ started \in Nat
    /\ job \in [Chats -> {None} \cup 1 .. started]
    /\ Running \subseteq 1 .. started
    /\ \A t \in Running : task[t] \in [chat : Chats, game : Watched]
    /\ MonitorOwned

\* Switching a monitor on cancels the one the chat had and remembers the new one.
LEMMA AutoOnMonitored ==
    ASSUME Monitored, NEW p, NEW c \in Chats, NEW g \in Watched, AutoOn(p, c, g)
    PROVE  Monitored'
  <1> USE DEF Running
  <1>1. None \notin Nat
    BY UpdatesAssumption
  <1>2. /\ started' = started + 1
        /\ job' = [job EXCEPT ![c] = started']
        /\ Running' = (Running \ Cancelled(c)) \cup {started'}
        /\ \A t \in Running' : task'[t] = IF t = started' THEN [chat |-> c, game |-> g] ELSE task[t]
    BY DEF AutoOn
  <1>3. started' \in Nat /\ started' \notin 1 .. started /\ 1 .. started' = (1 .. started) \cup {started'}
    BY <1>2 DEF Monitored
  <1>4. job' \in [Chats -> {None} \cup 1 .. started'] /\ Running' \subseteq 1 .. started'
    BY <1>2, <1>3 DEF Monitored
  <1>5. ASSUME NEW t \in Running'
        PROVE  task'[t] \in [chat : Chats, game : Watched] /\ job'[task'[t].chat] = t
    <2>1. CASE t = started'
      BY <1>2, <2>1 DEF Monitored
    <2>2. CASE t # started'
      <3>1. t \in Running /\ t \notin Cancelled(c) /\ task'[t] = task[t]
        BY <1>2, <2>2
      <3>2. task[t] \in [chat : Chats, game : Watched] /\ job[task[t].chat] = t /\ t \in 1 .. started
        BY <3>1 DEF Monitored, MonitorOwned
      <3>3. t # None
        BY <1>1, <3>2 DEF Monitored
      <3>4. task[t].chat # c
        BY <3>1, <3>2, <3>3 DEF Cancelled, MonitorJob
      <3>5. QED
        BY <1>2, <3>1, <3>2, <3>4 DEF Monitored
    <2>3. QED
      BY <2>1, <2>2
  <1>6. QED
    BY <1>3, <1>4, <1>5 DEF Monitored, MonitorOwned

\* Switching off ends the monitor the chat remembers.
LEMMA AutoOffMonitored ==
    ASSUME Monitored, NEW p, NEW c \in Chats, AutoOff(p, c)
    PROVE  Monitored'
  <1> USE DEF Running
  <1>1. /\ started' = started
        /\ job' = [job EXCEPT ![c] = None]
        /\ Running' = Running \ {job[c]}
        /\ \A t \in Running' : task'[t] = task[t]
    BY DEF AutoOff, Keep
  <1>2. job' \in [Chats -> {None} \cup 1 .. started'] /\ Running' \subseteq 1 .. started'
    BY <1>1 DEF Monitored
  <1>3. ASSUME NEW t \in Running'
        PROVE  task'[t] \in [chat : Chats, game : Watched] /\ job'[task'[t].chat] = t
    <2>1. t \in Running /\ t # job[c] /\ job[task[t].chat] = t /\ task[t] \in [chat : Chats, game : Watched]
      BY <1>1 DEF Monitored, MonitorOwned
    <2>2. QED
      BY <1>1, <2>1 DEF Monitored
  <1>4. QED
    BY <1>1, <1>2, <1>3 DEF Monitored, MonitorOwned

\* A monitor that fails is forgotten by its chat, unless it has a newer one.
LEMMA MonitorFailsMonitored ==
    ASSUME Monitored, NEW t \in Running, MonitorFails(t)
    PROVE  Monitored'
  <1> USE DEF Running
  <1>1. /\ started' = started
        /\ job' = [job EXCEPT ![task[t].chat] = IF @ = t THEN None ELSE @]
        /\ Running' = Running \ {t}
        /\ \A u \in Running' : task'[u] = task[u]
    BY DEF MonitorFails, Keep
  <1>2. job' \in [Chats -> {None} \cup 1 .. started'] /\ Running' \subseteq 1 .. started'
    BY <1>1 DEF Monitored
  <1>3. ASSUME NEW u \in Running'
        PROVE  task'[u] \in [chat : Chats, game : Watched] /\ job'[task'[u].chat] = u
    <2>1. u \in Running /\ u # t /\ job[task[u].chat] = u /\ task[u] \in [chat : Chats, game : Watched]
      BY <1>1 DEF Monitored, MonitorOwned
    <2>2. job[task[t].chat] = t /\ task[t].chat \in Chats
      BY DEF Monitored, MonitorOwned
    <2>3. QED
      BY <1>1, <2>1, <2>2 DEF Monitored
  <1>4. QED
    BY <1>1, <1>2, <1>3 DEF Monitored, MonitorOwned

\* Nothing else in the bot starts or ends monitors.
LEMMA StepMonitored ==
    ASSUME Monitored, [Next]_botVars
    PROVE  Monitored'
  <1>1. ASSUME UNCHANGED monitorVars PROVE Monitored'
    BY <1>1 DEF monitorVars, Monitored, MonitorOwned, Running
  <1>2. CASE MonitorsNext
    BY <1>2, AutoOnMonitored, AutoOffMonitored, MonitorFailsMonitored DEF MonitorsNext
  <1>3. ASSUME NEW torn \in BOOLEAN, Crash(torn) PROVE Monitored'
    <2>1. /\ started' = started
          /\ job' = [c \in Chats |-> None]
          /\ Running' = {}
      BY <1>3 DEF Crash, MonitorsCrash, Running
    <2>2. QED
      BY <2>1 DEF Monitored, MonitorOwned
  <1>4. QED
    BY <1>1, <1>2, <1>3 DEF Next, botVars

\* Every monitor that redraws a message is the one its chat can switch off: none runs
\* on for ever and no two write over each other (admin_games.py, ADMIN_MONITORS).
THEOREM NoStrayMonitor == Spec => []MonitorOwned
  <1>1. Init => Monitored
    <2> SUFFICES ASSUME Init PROVE Monitored
      OBVIOUS
    <2>1. started = 0 /\ job = [c \in Chats |-> None] /\ Running = {}
      BY DEF Init, MonitorsInit, Running
    <2>2. QED
      BY <2>1 DEF Monitored, MonitorOwned
  <1>2. Monitored /\ [Next]_botVars => Monitored'
    BY StepMonitored
  <1>3. Monitored => MonitorOwned
    BY DEF Monitored
  <1>4. QED
    BY <1>1, <1>2, <1>3, PTL DEF Spec

-----------------------------------------------------------------------------
(* Decisions and what users are told of them                               *)
(*                                                                         *)
(* A payment is told of when its withdrawal is paid, which it then stays;  *)
(* of the other decisions there are never more messages, sent and to be    *)
(* sent, than decisions.                                                   *)

\* The requests are a sequence of records, of three kinds.
Rows ==
    /\ \E S : request \in Seq(S)
    /\ \A i \in Ids : /\ {"kind", "status", "receipt", "user"} \subseteq DOMAIN request[i]
                      /\ request[i].kind \in {"withdraw", "deposit", "buy"}
                      /\ request[i].user \in Users
                      /\ request[i].receipt \in Ids \cup {None}

\* Of the request n of the requests R.
IsDeposit(R, n) == n \in DOMAIN R /\ R[n].kind = "deposit"
IsPaid(R, n) == n \in DOMAIN R /\ R[n].kind = "withdraw" /\ R[n].status = "PAID"

\* Requests are not deleted, keep their kind, and a paid withdrawal stays paid.
Grows ==
    /\ Ids \subseteq Ids'
    /\ \A i \in Ids : request'[i].kind = request[i].kind
    /\ \A i \in Ids : IsPaid(request, i) => request'[i].status = "PAID"

\* The deposit a conversation or a call is about is one, and the receipt is of one.
DataOK(R, data) ==
    /\ DOMAIN data = Fields
    /\ data["deposit"] # None => IsDeposit(R, data["deposit"])
    /\ data["receipt"] \in DOMAIN R \cup {None}
StateOK(R, state, data) ==
    /\ state \in Steps \cup {None}
    /\ state \in {"w.payee", "w.confirm"} => data["amount"] # None
    /\ state = "w.confirm" => data["payee"] # None
    /\ state \in {"d.receipt", "d.confirm"} => data["deposit"] \in DOMAIN R
    /\ state = "d.confirm" => data["receipt"] \in DOMAIN R
DialogOK(R, d) ==
    /\ DOMAIN d = {"state", "data"}
    /\ DataOK(R, d.data) /\ StateOK(R, d.state, d.data)
CallOK(R, t) ==
    /\ {"user", "kind", "data"} \subseteq DOMAIN t
    /\ t.user \in Users /\ t.kind \in {"withdraw", "deposit", "receipt", "buy"}
    /\ DataOK(R, t.data)
    /\ t.kind = "receipt" => IsDeposit(R, t.data["deposit"])

Dialogs == DOMAIN dialog = Users /\ \A u \in Users : DialogOK(request, dialog[u])
Calls   == (\A t \in calling : CallOK(request, t)) /\ \A x \in late : CallOK(request, x.call)

\* What an administrator's conversation about a receipt remembers.
TalkOK(R, d) ==
    /\ d.state \in {None, "reject", "receipt"}
    /\ d.state \in {"reject", "receipt"} => d.id \in DOMAIN R
    /\ d.state = "receipt" =>
         /\ R[d.id].kind = "withdraw"
         /\ d.seen = "PAID" => IsPaid(R, d.id)

Talks == DOMAIN desk = People /\ \A p \in People : TalkOK(request, desk[p])

MessageOK(R, m) == m.id \in DOMAIN R /\ m.what \in Whats /\ (m.what = "paid" => IsPaid(R, m.id))

Copies(m, b) == IF m \in BagToSet(b) THEN b[m] ELSE 0
About(i, what) == [id |-> i, what |-> what]
Waiting(i, what) == {m \in outbox : m.id = i /\ m.what = what}

Mail ==
    /\ IsFiniteSet(outbox) /\ IsABag(told) /\ IsABag(ruled)
    /\ \A m \in outbox : MessageOK(request, m) /\ m.by \in People
    /\ \A m \in BagToSet(ruled) : m.id \in Ids /\ m.what \in Whats
    /\ \A m \in BagToSet(told) : MessageOK(request, m) /\ m = About(m.id, m.what)
    /\ \A i \in Nat, what \in Whats \ {"paid"} :
         Copies(About(i, what), told) + Cardinality(Waiting(i, what)) <= Copies(About(i, what), ruled)

\* The pages that have saved a proof, and the proofs, are about withdrawals.
Papers ==
    /\ \A x \in paying : x.by \in People
    /\ \A x \in paying \cup proofs : IsKind(x.id, "withdraw")

\* Each call is of a click there was, and has an attempt left.
Clicking ==
    /\ clicks \in Nat
    /\ \A t \in calling : /\ {"click", "tries"} \subseteq DOMAIN t
                          /\ t.click \in 1 .. clicks /\ t.tries \in 1 .. 3

BotInv == Rows /\ Dialogs /\ Calls /\ Clicking /\ Talks /\ Mail /\ Papers

\* A sequence with one element replaced is one of the same length.
LEMMA SeqExcept ==
    ASSUME NEW S, NEW s \in Seq(S), NEW i \in DOMAIN s, NEW v
    PROVE  /\ [s EXCEPT ![i] = v] \in Seq(S \cup {v})
           /\ DOMAIN [s EXCEPT ![i] = v] = DOMAIN s
  <1>1. s \in [1 .. Len(s) -> S] /\ Len(s) \in Nat /\ DOMAIN s = 1 .. Len(s)
    OBVIOUS
  <1>2. [s EXCEPT ![i] = v] \in [1 .. Len(s) -> S \cup {v}]
    BY <1>1
  <1>3. QED
    BY <1>1, <1>2, SeqDef

\* A request whose status or receipt changes: what follows for all of them.
LEMMA ChangedRow ==
    ASSUME Rows, NEW i \in Ids, NEW r,
           {"kind", "status", "receipt", "user"} \subseteq DOMAIN r,
           r.kind = request[i].kind, r.user = request[i].user, r.receipt \in Ids \cup {None},
           IsPaid(request, i) => r.status = "PAID",
           request' = [request EXCEPT ![i] = r]
    PROVE  Rows' /\ Grows /\ request'[i] = r
  <1>1. PICK S : request \in Seq(S)
    BY DEF Rows
  <1>2. request' \in Seq(S \cup {r}) /\ Ids' = Ids
    BY <1>1, SeqExcept DEF Ids
  <1>3. \A k \in Ids : request'[k] = IF k = i THEN r ELSE request[k]
    BY DEF Ids
  <1>4. Rows'
    BY <1>2, <1>3 DEF Rows
  <1>5. QED
    BY <1>2, <1>3, <1>4 DEF Grows, IsPaid, Ids

\* A call that makes a request adds it at the end and leaves the others.
LEMMA MadeRows ==
    ASSUME Rows, NEW t, NEW found, CallOK(request, t), request' = Made(t, found)
    PROVE  /\ Rows' /\ Grows
           /\ t.kind = "deposit" /\ found = {} => IsDeposit(request', Len(request'))
  <1>1. CASE t.kind = "receipt"
    <2> DEFINE n == t.data["deposit"]
               r == [[request[n] EXCEPT !.status = "PENDING_REVIEW"] EXCEPT !.receipt = t.data["receipt"]]
    <2>1. n \in Ids /\ request[n].kind = "deposit"
      BY <1>1 DEF CallOK, IsDeposit, Ids
    <2>2. request' = [request EXCEPT ![n] = r]
      BY <1>1, <2>1 DEF Made, Ids
    <2>3. /\ {"kind", "status", "receipt", "user"} \subseteq DOMAIN r
          /\ r.kind = request[n].kind /\ r.user = request[n].user /\ r.receipt \in Ids \cup {None}
      BY <2>1 DEF Rows, CallOK, DataOK, Ids
    <2>4. ~ IsPaid(request, n)
      BY <2>1 DEF IsPaid
    <2>5. Rows' /\ Grows
      BY <2>1, <2>2, <2>3, <2>4, ChangedRow
    <2>6. QED
      BY <1>1, <2>5
  <1>2. CASE t.kind # "receipt" /\ found # {}
    <2>1. request' = request
      BY <1>2 DEF Made
    <2>2. QED
      BY <1>2, <2>1 DEF Rows, Grows, IsPaid, Ids
  <1>3. CASE t.kind # "receipt" /\ found = {}
    <2> DEFINE r == [kind |-> t.kind, user |-> t.user, content |-> Content(t), click |-> t.click,
                     shown |-> t.page, status |-> FirstStatus(t.kind), receipt |-> None]
    <2>1. request' = Append(request, r)
      BY <1>3 DEF Made
    <2>2. PICK S : request \in Seq(S)
      BY DEF Rows
    <2> HIDE DEF r
    <2>3. /\ request' \in Seq(S \cup {r})
          /\ Ids' = Ids \cup {Len(request')}
          /\ Len(request') = Len(request) + 1 /\ Len(request') \notin Ids
          /\ request'[Len(request')] = r
          /\ \A k \in Ids : request'[k] = request[k]
      BY <2>1, <2>2 DEF Ids
    <2>4. /\ {"kind", "status", "receipt", "user"} \subseteq DOMAIN r
          /\ r.kind = t.kind /\ r.user = t.user /\ r.receipt = None
      BY DEF r
    <2>5. t.kind \in {"withdraw", "deposit", "buy"} /\ t.user \in Users
      BY <1>3 DEF CallOK
    <2>6. Rows'
      BY <2>3, <2>4, <2>5 DEF Rows
    <2>7. Grows
      BY <2>3 DEF Grows, IsPaid
    <2>8. QED
      BY <2>3, <2>4, <2>6, <2>7 DEF IsDeposit
  <1>4. QED
    BY <1>1, <1>2, <1>3

\* What is known of requests stays true as they grow.
LEMMA GrowsKeeps ==
    ASSUME Rows, Grows
    PROVE  /\ \A n : IsDeposit(request, n) => IsDeposit(request', n)
           /\ \A n : IsPaid(request, n) => IsPaid(request', n)
           /\ \A d : DialogOK(request, d) => DialogOK(request', d)
           /\ \A t : CallOK(request, t) => CallOK(request', t)
           /\ \A m : MessageOK(request, m) => MessageOK(request', m)
           /\ \A d : TalkOK(request, d) => TalkOK(request', d)
  <1>1. \A n : IsDeposit(request, n) => IsDeposit(request', n)
    BY DEF IsDeposit, Grows, Ids
  <1>2. \A n : IsPaid(request, n) => IsPaid(request', n)
    BY DEF IsPaid, Grows, Ids
  <1>3. \A d : DialogOK(request, d) => DialogOK(request', d)
    BY <1>1 DEF DialogOK, DataOK, StateOK, Fields, Grows, Ids
  <1>4. \A t : CallOK(request, t) => CallOK(request', t)
    BY <1>1 DEF CallOK, DataOK, Fields, Grows, Ids
  <1>5. \A m : MessageOK(request, m) => MessageOK(request', m)
    BY <1>2 DEF MessageOK, Grows, Whats, Ids
  <1>6. \A d : TalkOK(request, d) => TalkOK(request', d)
    BY <1>2 DEF TalkOK, Grows, Ids
  <1>7. QED
    BY <1>1, <1>2, <1>3, <1>4, <1>5, <1>6

\* Steps that leave the requests alone.
LEMMA SameRows ==
    ASSUME Rows, UNCHANGED request
    PROVE  Rows' /\ Grows
  BY DEF Rows, Grows, IsPaid, Ids

\* Conversations stay in order when requests are only added.
LEMMA SameDialogs ==
    ASSUME Rows, Grows, Dialogs, UNCHANGED dialog
    PROVE  Dialogs'
  BY GrowsKeeps DEF Dialogs

\* A handler replaces the conversation of one user.
LEMMA SetDialog ==
    ASSUME Rows, Grows, Dialogs, NEW u, NEW d,
           u \in Users => DialogOK(request', d), dialog' = [dialog EXCEPT ![u] = d]
    PROVE  Dialogs'
  <1>1. DOMAIN dialog' = Users /\ \A v \in Users : dialog'[v] = IF v = u THEN d ELSE dialog[v]
    BY DEF Dialogs
  <1>2. ASSUME NEW v \in Users PROVE DialogOK(request', dialog'[v])
    <2>1. CASE v = u
      BY <1>1, <2>1
    <2>2. CASE v # u
      BY <1>1, <2>2, GrowsKeeps DEF Dialogs
    <2>3. QED
      BY <2>1, <2>2
  <1>3. QED
    BY <1>1, <1>2 DEF Dialogs, DialogOK

\* A fresh conversation, and one that learns something but not of a deposit.
LEMMA FreshDialog ==
    ASSUME NEW state \in {"w.amount", "d.dest", "b.game"}
    PROVE  DialogOK(request, [Cleared EXCEPT !.state = state]) /\ DialogOK(request, Cleared)
  BY RequestsAssumption DEF DialogOK, DataOK, StateOK, Cleared, NoData, Fields, Steps

\* What the steps of the conversations come to.
LEMMA StatesOK ==
    ASSUME NEW data, DOMAIN data = Fields
    PROVE  /\ \A d : \A state \in {"d.amount", "b.qty", "b.confirm"} : StateOK(request, state, d)
           /\ \A a \in Amounts : StateOK(request, "w.payee", [data EXCEPT !["amount"] = a])
           /\ \A x \in Payees : data["amount"] # None
                                => StateOK(request, "w.confirm", [data EXCEPT !["payee"] = x])
           /\ data["deposit"] \in Ids
                => StateOK(request, "d.confirm", [data EXCEPT !["receipt"] = data["deposit"]])
  BY RequestsAssumption DEF StateOK, Steps, Fields, Ids

\* A step of a conversation that adds one thing to its data.
LEMMA AddKeeps ==
    ASSUME Rows, Dialogs, UNCHANGED request, NEW u \in Users, NEW state,
           NEW f \in Fields \ {"deposit"}, NEW v, Add(u, state, f, v),
           f = "receipt" => v \in Ids,
           StateOK(request, state, [dialog[u].data EXCEPT ![f] = v])
    PROVE  Dialogs'
  <1>1. DialogOK(request, dialog[u])
    BY DEF Dialogs
  <1> DEFINE d == [[dialog[u] EXCEPT !.state = state] EXCEPT !.data = [@ EXCEPT ![f] = v]]
  <1>2. /\ DOMAIN dialog' = Users
        /\ \A w \in Users \ {u} : dialog'[w] = dialog[w]
        /\ dialog'[u] = d
    BY DEF Add, Dialogs
  <1>3. DOMAIN d = {"state", "data"} /\ d.data = [dialog[u].data EXCEPT ![f] = v] /\ d.state = state
    BY <1>1 DEF DialogOK
  <1>4. DialogOK(request, d)
    <2>1. DataOK(request, [dialog[u].data EXCEPT ![f] = v])
      BY <1>1 DEF DialogOK, DataOK, Ids, Fields
    <2> HIDE DEF d
    <2> QED
      BY <1>3, <2>1 DEF DialogOK
  <1>5. QED
    BY <1>2, <1>4, SameRows, GrowsKeeps DEF Dialogs

\* A conversation that goes back to the amount keeps its data.
LEMMA GotoKeeps ==
    ASSUME Rows, Dialogs, UNCHANGED request, NEW u \in Users, Goto(u, "w.amount")
    PROVE  Dialogs'
  <1> DEFINE d == [dialog[u] EXCEPT !.state = "w.amount"]
  <1>1. DialogOK(request, dialog[u])
    BY DEF Dialogs
  <1>2. dialog' = [dialog EXCEPT ![u] = d]
    BY DEF Goto
  <1>3. DialogOK(request, d)
    BY <1>1 DEF DialogOK, StateOK, Steps
  <1>4. QED
    BY <1>2, <1>3, SetDialog, SameRows, GrowsKeeps

\* Calls end, or are like those that were made.
LEMMA FewerCalls ==
    ASSUME Rows, Grows, Calls,
           \A t \in calling' : t \in calling \/ CallOK(request', t),
           \A x \in late' : x \in late \/ CallOK(request', x.call)
    PROVE  Calls'
  BY GrowsKeeps DEF Calls

\* A step in which the backend learns nothing.
LEMMA TalkKeeps ==
    ASSUME Rows, Calls, UNCHANGED <<request, calling, late>>
    PROVE  Rows' /\ Grows /\ Calls'
  BY SameRows, FewerCalls

\* A click takes the data of the conversation along.
LEMMA CallKeeps ==
    ASSUME Rows, Dialogs, Calls, NEW u \in Users, NEW part, NEW page,
           NEW kind \in {"withdraw", "deposit", "receipt", "buy"},
           kind = "receipt" => IsDeposit(request, dialog[u].data["deposit"]),
           Call(u, part, kind, page)
    PROVE  Rows' /\ Grows /\ Dialogs' /\ Calls'
  <1>1. Rows' /\ Grows /\ Dialogs'
    BY SameRows, SameDialogs DEF Call
  <1> DEFINE t == [user |-> u, kind |-> kind, page |-> page, data |-> dialog[u].data,
                   tries |-> IF kind = "withdraw" THEN 3 ELSE 1, click |-> clicks']
  <1>2. CallOK(request, t)
    BY DEF CallOK, Dialogs, DialogOK
  <1>3. calling' = calling \cup {t} /\ late' = late
    BY DEF Call
  <1>4. Calls'
    <2> HIDE DEF t
    <2> QED
      BY <1>1, <1>2, <1>3, FewerCalls, GrowsKeeps
  <1>5. QED
    BY <1>1, <1>4

\* The conversation about a withdrawal (routers/withdraw.py).
LEMMA WithdrawingKeeps ==
    ASSUME Rows, Dialogs, Calls, NEW u \in Users, Withdrawing(u)
    PROVE  Rows' /\ Grows /\ Dialogs' /\ Calls'
  <1>0. /\ DataOK(request, dialog[u].data) /\ DOMAIN dialog[u].data = Fields
        /\ StateOK(request, dialog[u].state, dialog[u].data)
    BY DEF Dialogs, DialogOK, DataOK
  <1>1. CASE StartWithdraw(u) \/ Cancel(u, "withdraw")
    BY <1>1, TalkKeeps, SetDialog, FreshDialog, GrowsKeeps DEF StartWithdraw, Cancel, Talk
  <1>2. ASSUME NEW a \in Amounts, StepAmount(u, a) PROVE Rows' /\ Grows /\ Dialogs' /\ Calls'
    BY <1>2, <1>0, TalkKeeps, AddKeeps, StatesOK DEF StepAmount, Talk, Fields
  <1>3. ASSUME NEW x \in Payees, StepPayee(u, x) PROVE Rows' /\ Grows /\ Dialogs' /\ Calls'
    <2>1. dialog[u].data["amount"] # None
      BY <1>3, <1>0 DEF StepPayee, StateOK
    <2>2. QED
      BY <1>3, <1>0, <2>1, TalkKeeps, AddKeeps, StatesOK DEF StepPayee, Talk, Fields
  <1>4. CASE EditWithdraw(u)
    BY <1>4, TalkKeeps, GotoKeeps DEF EditWithdraw, Talk
  <1>5. ASSUME NEW page \in pages[u], ConfirmWithdraw(u, page) PROVE Rows' /\ Grows /\ Dialogs' /\ Calls'
    BY <1>5, CallKeeps DEF ConfirmWithdraw
  <1>6. QED
    BY <1>1, <1>2, <1>3, <1>4, <1>5 DEF Withdrawing

\* The conversation about a deposit (routers/deposit.py).
LEMMA DepositingKeeps ==
    ASSUME Rows, Dialogs, Calls, NEW u \in Users, Depositing(u)
    PROVE  Rows' /\ Grows /\ Dialogs' /\ Calls'
  <1>0. /\ DataOK(request, dialog[u].data) /\ DOMAIN dialog[u].data = Fields
        /\ StateOK(request, dialog[u].state, dialog[u].data)
    BY DEF Dialogs, DialogOK, DataOK
  <1>1. CASE StartDeposit(u) \/ Cancel(u, "deposit")
    BY <1>1, TalkKeeps, SetDialog, FreshDialog, GrowsKeeps DEF StartDeposit, Cancel, Talk
  <1>2. CASE ChooseDestination(u)
    BY <1>2, <1>0, TalkKeeps, AddKeeps, StatesOK DEF ChooseDestination, Talk, Fields
  <1>3. CASE DepositReceipt(u)
    <2>1. dialog[u].data["deposit"] \in Ids
      BY <1>3, <1>0 DEF DepositReceipt, StateOK, Ids
    <2>2. QED
      BY <1>3, <1>0, <2>1, TalkKeeps, AddKeeps, StatesOK DEF DepositReceipt, Talk, Fields
  <1>4. CASE DepositAmount(u)
    BY <1>4, CallKeeps DEF DepositAmount
  <1>5. ASSUME NEW page \in pages[u], ConfirmDeposit(u, page) PROVE Rows' /\ Grows /\ Dialogs' /\ Calls'
    BY <1>5, <1>0, CallKeeps DEF ConfirmDeposit, DataOK
  <1>6. QED
    BY <1>1, <1>2, <1>3, <1>4, <1>5 DEF Depositing

\* The conversation about a purchase (routers/purchase.py).
LEMMA BuyingKeeps ==
    ASSUME Rows, Dialogs, Calls, NEW u \in Users, Buying(u)
    PROVE  Rows' /\ Grows /\ Dialogs' /\ Calls'
  <1>0. /\ DataOK(request, dialog[u].data) /\ DOMAIN dialog[u].data = Fields
        /\ StateOK(request, dialog[u].state, dialog[u].data)
    BY DEF Dialogs, DialogOK, DataOK
  <1>1. CASE BuyEntry(u)
    BY <1>1, TalkKeeps, SetDialog, FreshDialog, GrowsKeeps DEF BuyEntry, Talk
  <1>2. ASSUME NEW g \in Lots, BuySelectGame(u, g) PROVE Rows' /\ Grows /\ Dialogs' /\ Calls'
    BY <1>2, <1>0, TalkKeeps, AddKeeps, StatesOK DEF BuySelectGame, Talk, Fields
  <1>3. ASSUME NEW page \in pages[u], BuySelectQty(u, page) PROVE Rows' /\ Grows /\ Dialogs' /\ Calls'
    BY <1>3, <1>0, TalkKeeps, AddKeeps, StatesOK DEF BuySelectQty, Talk, Fields
  <1>4. ASSUME NEW page \in pages[u], BuyConfirm(u, page) PROVE Rows' /\ Grows /\ Dialogs' /\ Calls'
    BY <1>4, CallKeeps DEF BuyConfirm
  <1>5. QED
    BY <1>1, <1>2, <1>3, <1>4 DEF Buying

\* What the backend does for a call, answered or not, in time or later.
LEMMA BackendKeeps ==
    ASSUME Rows, Dialogs, Calls
    PROVE  /\ \A t \in calling : Answered(t) => Rows' /\ Grows /\ Dialogs' /\ Calls'
           /\ \A t \in calling : RefusedReceipt(t) => Rows' /\ Grows /\ Dialogs' /\ Calls'
           /\ \A t \in calling, how \in {"failed", "lost", "late"} :
                 Unanswered(t, how) => Rows' /\ Grows /\ Dialogs' /\ Calls'
           /\ \A x \in late : LateCommit(x) => Rows' /\ Grows /\ Dialogs' /\ Calls'
  <1>1. ASSUME NEW t \in calling, Answered(t) PROVE Rows' /\ Grows /\ Dialogs' /\ Calls'
    <2>1. CallOK(request, t) /\ request' = Made(t, Same(t))
      BY <1>1 DEF Answered, Calls
    <2>2. t.kind = "deposit" => Same(t) = {}
      BY DEF Same
    <2>3. Rows' /\ Grows /\ (t.kind = "deposit" => IsDeposit(request', Len(request')))
      BY <2>1, <2>2, MadeRows
    <2> DEFINE d == IF t.kind = "deposit" THEN ForReceipt(dialog[t.user].data, Len(request')) ELSE Cleared
    <2>4. dialog' = [dialog EXCEPT ![t.user] = d]
      BY <1>1 DEF Answered
    <2>5. ASSUME t.user \in Users PROVE DialogOK(request', d)
      <3>1. CASE t.kind = "deposit"
        <4> DEFINE data == [dialog[t.user].data EXCEPT !["deposit"] = Len(request')]
        <4>1. DialogOK(request, dialog[t.user])
          BY <2>5 DEF Dialogs
        <4>2. d = [state |-> "d.receipt", data |-> data]
          BY <3>1 DEF ForReceipt
        <4>3. /\ DOMAIN data = Fields /\ data["deposit"] = Len(request')
              /\ data["receipt"] = dialog[t.user].data["receipt"]
          BY <4>1 DEF DialogOK, DataOK, Fields
        <4>4. dialog[t.user].data["receipt"] \in DOMAIN request' \cup {None}
          BY <2>3, <4>1 DEF DialogOK, DataOK, Grows, Ids
        <4>5. DialogOK(request', [state |-> "d.receipt", data |-> data])
          <5> HIDE DEF data
          <5> QED
            BY <2>3, <3>1, <4>3, <4>4 DEF DialogOK, DataOK, StateOK, IsDeposit, Steps
        <4>6. QED
          BY <4>2, <4>5
      <3>2. CASE t.kind # "deposit"
        BY <3>2, <2>3, FreshDialog, GrowsKeeps
      <3>3. QED
        BY <3>1, <3>2
    <2>6. Dialogs'
      <3> HIDE DEF d
      <3> QED
        BY <2>3, <2>4, <2>5, SetDialog
    <2>7. calling' \subseteq calling /\ late' = late
      BY <1>1 DEF Answered
    <2>8. Calls'
      BY <2>3, <2>7, FewerCalls
    <2>9. QED
      BY <2>3, <2>6, <2>8
  <1>2. ASSUME NEW t \in calling, RefusedReceipt(t) PROVE Rows' /\ Grows /\ Dialogs' /\ Calls'
    BY <1>2, SameRows, SameDialogs, FewerCalls DEF RefusedReceipt
  <1>3. ASSUME NEW t \in calling, NEW how \in {"failed", "lost", "late"}, Unanswered(t, how)
        PROVE  Rows' /\ Grows /\ Dialogs' /\ Calls'
    <2>1. CallOK(request, t)
      BY DEF Calls
    <2>2. Rows' /\ Grows
      BY <1>3, <2>1, MadeRows, SameRows DEF Unanswered
    <2>3. Dialogs'
      BY <1>3, <2>2, SameDialogs, SetDialog, FreshDialog, GrowsKeeps DEF Unanswered
    <2> DEFINE again == [t EXCEPT !.tries = @ - 1]
               given == [call |-> t, found |-> Same(t)]
    <2>4. CallOK(request, again)
      BY <2>1 DEF CallOK
    <2>5. /\ \A c \in calling' : c \in calling \/ c = again
          /\ \A x \in late' : x \in late \/ x.call = t
      BY <1>3 DEF Unanswered
    <2>6. Calls'
      <3> HIDE DEF again
      <3> QED
        BY <2>1, <2>2, <2>4, <2>5, FewerCalls, GrowsKeeps
    <2>7. QED
      BY <2>2, <2>3, <2>6
  <1>4. ASSUME NEW x \in late, LateCommit(x) PROVE Rows' /\ Grows /\ Dialogs' /\ Calls'
    <2>1. Rows' /\ Grows
      BY <1>4, MadeRows DEF LateCommit, Calls
    <2>2. QED
      BY <1>4, <2>1, SameDialogs, FewerCalls DEF LateCommit
  <1>5. QED
    BY <1>1, <1>2, <1>3, <1>4

\* Every step of the users keeps requests, conversations and calls in order.
LEMMA RequestsKeep ==
    ASSUME Rows, Dialogs, Calls, RequestsNext
    PROVE  Rows' /\ Grows /\ Dialogs' /\ Calls'
  BY WithdrawingKeeps, DepositingKeeps, BuyingKeeps, BackendKeeps DEF RequestsNext

-----------------------------------------------------------------------------
(* The desk *)

\* One more copy in a bag is one more of that element and of no other.
LEMMA CopiesAdd ==
    ASSUME NEW b, IsABag(b), NEW x
    PROVE  /\ IsABag(b (+) SetToBag({x}))
           /\ BagToSet(b (+) SetToBag({x})) = BagToSet(b) \cup {x}
           /\ \A y : Copies(y, b) \in Nat
           /\ \A y : Copies(y, b (+) SetToBag({x})) = IF y = x THEN Copies(y, b) + 1 ELSE Copies(y, b)
  BY DEF IsABag, BagToSet, SetToBag, (+), Copies

\* The messages that wait about a request can be counted.
LEMMA WaitingFinite ==
    ASSUME Mail, NEW i, NEW what
    PROVE  IsFiniteSet(Waiting(i, what)) /\ Cardinality(Waiting(i, what)) \in Nat
  <1>1. Waiting(i, what) \in SUBSET outbox
    BY DEF Waiting
  <1>2. QED
    BY <1>1, FS_Subset, FS_CardinalityType DEF Mail

\* Messages that are dropped make no account worse.
LEMMA FewerMessages ==
    ASSUME Rows, Grows, Mail, outbox' \subseteq outbox, UNCHANGED <<told, ruled>>
    PROVE  Mail'
  <1>1. IsFiniteSet(outbox')
    BY FS_Subset DEF Mail
  <1>2. ASSUME NEW i \in Nat, NEW what \in Whats \ {"paid"}
        PROVE  Copies(About(i, what), told) + Cardinality(Waiting(i, what)') <= Copies(About(i, what), ruled)
    <2>1. Waiting(i, what)' \in SUBSET Waiting(i, what)
      BY DEF Waiting
    <2>2. IsFiniteSet(Waiting(i, what)') /\ Cardinality(Waiting(i, what)') <= Cardinality(Waiting(i, what))
      BY <2>1, WaitingFinite, FS_Subset
    <2>3. Cardinality(Waiting(i, what)') \in Nat /\ Cardinality(Waiting(i, what)) \in Nat
      BY <2>2, WaitingFinite, FS_CardinalityType
    <2>4. Copies(About(i, what), told) \in Nat /\ Copies(About(i, what), ruled) \in Nat
      BY CopiesAdd DEF Mail
    <2>5. Copies(About(i, what), told) + Cardinality(Waiting(i, what)) <= Copies(About(i, what), ruled)
      BY DEF Mail
    <2>6. QED
      BY <2>2, <2>3, <2>4, <2>5
  <1>3. /\ \A m \in outbox' : MessageOK(request', m) /\ m.by \in People
        /\ \A m \in BagToSet(told) : MessageOK(request', m) /\ m = About(m.id, m.what)
        /\ \A m \in BagToSet(ruled) : m.id \in Ids' /\ m.what \in Whats
    BY GrowsKeeps DEF Mail, Grows
  <1>4. \A i \in Nat, what \in Whats \ {"paid"} :
            Copies(About(i, what), told') + Cardinality(Waiting(i, what)') <= Copies(About(i, what), ruled')
    BY <1>2
  <1>5. IsABag(told') /\ IsABag(ruled')
    BY DEF Mail
  <1>6. QED
    BY <1>1, <1>3, <1>4, <1>5 DEF Mail, Whats, Waiting

\* A handler replaces the conversation of one administrator.
LEMMA SetTalk ==
    ASSUME Rows, Grows, Talks, NEW p, NEW d, TalkOK(request', d),
           desk' = [desk EXCEPT ![p] = d] \/ desk' = desk
    PROVE  Talks'
  <1>1. DOMAIN desk' = People /\ \A q \in People : desk'[q] = desk[q] \/ desk'[q] = d
    BY DEF Talks
  <1>2. ASSUME NEW q \in People PROVE TalkOK(request', desk'[q])
    BY <1>1, GrowsKeeps DEF Talks
  <1>3. QED
    BY <1>1, <1>2 DEF Talks

\* No conversation is in order whatever requests there are.
LEMMA FreeIsOK == \A R : TalkOK(R, Free)
  BY DeskAssumption DEF TalkOK, Free

\* The desk stays in order when only the users do something.
LEMMA DeskRests ==
    ASSUME Rows, Grows, Talks, Mail, UNCHANGED deskVars
    PROVE  Talks' /\ Mail'
  BY SetTalk, FreeIsOK, FewerMessages DEF deskVars

\* A message that is added for a decision just taken, or about a payment.
LEMMA MoreMessages ==
    ASSUME Rows, Grows, Mail, NEW i \in Nat, NEW what \in Whats, NEW m,
           m.id = i, m.what = what, m.by \in People, MessageOK(request', m),
           outbox' \in {outbox, outbox \cup {m}}, told' = told,
           \/ ruled' = ruled (+) SetToBag({About(i, what)})
           \/ ruled' = ruled /\ what = "paid"
    PROVE  Mail'
  <1>1. IsFiniteSet(outbox')
    BY FS_AddElement DEF Mail
  <1> DEFINE grown == ruled (+) SetToBag({About(i, what)})
  <1>2. /\ IsABag(told) /\ IsABag(ruled) /\ IsABag(grown)
        /\ BagToSet(grown) = BagToSet(ruled) \cup {About(i, what)}
        /\ \A y : Copies(y, grown) = IF y = About(i, what) THEN Copies(y, ruled) + 1 ELSE Copies(y, ruled)
    <2>1. IsABag(told) /\ IsABag(ruled)
      BY DEF Mail
    <2>2. QED
      BY <2>1, CopiesAdd
  <1>3. ruled' = grown \/ (ruled' = ruled /\ what = "paid")
    OBVIOUS
  <1> HIDE DEF grown
  <1>4. ASSUME NEW j \in Nat, NEW w \in Whats \ {"paid"}
        PROVE  Copies(About(j, w), told) + Cardinality(Waiting(j, w)') <= Copies(About(j, w), ruled')
    <2>1. /\ Copies(About(j, w), told) + Cardinality(Waiting(j, w)) <= Copies(About(j, w), ruled)
          /\ Copies(About(j, w), told) \in Nat /\ Copies(About(j, w), ruled) \in Nat
          /\ Cardinality(Waiting(j, w)) \in Nat
      BY WaitingFinite, CopiesAdd DEF Mail
    <2>2. CASE j = i /\ w = what
      <3>1. Copies(About(j, w), ruled') = Copies(About(j, w), ruled) + 1
        BY <1>2, <1>3, <2>2
      <3>2. Waiting(j, w)' = Waiting(j, w) \/ Waiting(j, w)' = Waiting(j, w) \cup {m}
        BY <2>2 DEF Waiting
      <3>3. /\ Cardinality(Waiting(j, w)') \in Nat
            /\ Cardinality(Waiting(j, w)') <= Cardinality(Waiting(j, w)) + 1
        <4>1. IsFiniteSet(Waiting(j, w))
          BY WaitingFinite
        <4>2. Cardinality(Waiting(j, w) \cup {m}) \in {Cardinality(Waiting(j, w)), Cardinality(Waiting(j, w)) + 1}
          BY <4>1, FS_AddElement
        <4>3. Cardinality(Waiting(j, w)') \in {Cardinality(Waiting(j, w)), Cardinality(Waiting(j, w)) + 1}
          BY <3>2, <4>2, Zenon
        <4>4. QED
          BY <2>1, <4>3
      <3>4. QED
        BY <2>1, <3>1, <3>3
    <2>3. CASE ~ (j = i /\ w = what)
      <3>1. About(j, w) # About(i, what)
        BY <2>3 DEF About
      <3>2. Copies(About(j, w), ruled') = Copies(About(j, w), ruled)
        BY <1>2, <1>3, <3>1
      <3>3. Waiting(j, w)' = Waiting(j, w)
        BY <2>3 DEF Waiting
      <3>4. QED
        BY <2>1, <3>2, <3>3
    <2>4. QED
      BY <2>2, <2>3
  <1>5. /\ \A k \in outbox' : MessageOK(request', k) /\ k.by \in People
        /\ \A k \in BagToSet(told) : MessageOK(request', k) /\ k = About(k.id, k.what)
        /\ \A k \in BagToSet(ruled') : k.id \in Ids' /\ k.what \in Whats
    <2>1. About(i, what).id = i /\ About(i, what).what = what /\ i \in Ids'
      BY DEF About, MessageOK, Ids
    <2>2. \A k \in BagToSet(ruled') : k.id \in Ids' /\ k.what \in Whats
      BY <1>2, <1>3, <2>1 DEF Mail, Grows
    <2>3. QED
      BY <2>2, GrowsKeeps DEF Mail
  <1>6. \A j \in Nat, w \in Whats \ {"paid"} :
            Copies(About(j, w), told') + Cardinality(Waiting(j, w)') <= Copies(About(j, w), ruled')
    BY <1>4
  <1>7. QED
    BY <1>1, <1>2, <1>3, <1>5, <1>6 DEF Mail, Whats, Waiting

\* Requests are numbered.
LEMMA IdsAreNaturals == ASSUME Rows PROVE Ids \subseteq Nat
  BY DEF Rows, Ids

\* A decision changes one request and is told once for each time it is made.
LEMMA DecideKeeps ==
    ASSUME Rows, Mail, NEW p \in People, NEW i \in Ids, NEW what \in Whats, NEW from, NEW status,
           NEW via, NEW tells, NEW no,
           "PAID" \notin from,
           what = "paid" => status = "PAID" /\ request[i].kind = "withdraw",
           Decide(p, i, what, from, status, via, tells, no)
    PROVE  Rows' /\ Grows /\ Mail'
  <1> DEFINE r == [request[i] EXCEPT !.status = status]
             m == [by |-> p, id |-> i, what |-> what, via |-> via, no |-> no]
  <1>1. request' = [request EXCEPT ![i] = r]
    BY DEF Decide
  <1>2. /\ {"kind", "status", "receipt", "user"} \subseteq DOMAIN r
        /\ r.kind = request[i].kind /\ r.status = status
        /\ r.user = request[i].user /\ r.receipt \in Ids \cup {None}
    BY DEF Rows
  <1>3. ~ IsPaid(request, i)
    BY DEF Decide, IsPaid
  <1>4. Rows' /\ Grows /\ request'[i] = r
    <2> HIDE DEF r
    <2> QED
      BY <1>1, <1>2, <1>3, ChangedRow
  <1>5. MessageOK(request', m)
    <2>1. i \in DOMAIN request' /\ request'[i].kind = request[i].kind /\ request'[i].status = status
      BY <1>2, <1>4 DEF Grows, Ids
    <2>2. QED
      BY <2>1 DEF MessageOK, IsPaid
  <1>6. /\ outbox' \in {outbox, outbox \cup {m}} /\ told' = told
        /\ ruled' = ruled (+) SetToBag({About(i, what)})
    BY DEF Decide, About
  <1>7. Mail'
    <2>1. m.id = i /\ m.what = what /\ m.by \in People /\ i \in Nat
      BY IdsAreNaturals
    <2> HIDE DEF m
    <2>2. QED
      BY <1>4, <1>5, <1>6, <2>1, MoreMessages
  <1>8. QED
    BY <1>4, <1>7

\* The same for a decision with a call of the backend, from the bot or the Mini App.
LEMMA RuleKeeps ==
    ASSUME Rows, Mail, NEW p \in People, NEW i \in Ids, NEW what \in Whats, NEW from, NEW status, NEW lost,
           "PAID" \notin from,
           what = "paid" => status = "PAID" /\ request[i].kind = "withdraw",
           \/ \E tells : RuleFor(p, i, what, from, status, tells, lost)
           \/ Rule(p, i, what, from, status, lost)
           \/ MiniRule(p, i, what, from, status)
    PROVE  Rows' /\ Grows /\ Mail'
  <1>1. PICK via, tells, no : Decide(p, i, what, from, status, via, tells, no)
    BY DEF Rule, RuleFor, MiniRule
  <1>2. QED
    BY <1>1, DecideKeeps

\* What each action of the desk has to keep.
Kept == Rows' /\ Grows /\ Talks' /\ Mail'

\* The decisions of administrators at the bot (admin_finance.py).
LEMMA DecisionsKeep ==
    ASSUME Rows, Talks, Mail, NEW p \in People, NEW lost \in BOOLEAN
    PROVE  /\ \A i \in Ids : ApproveDeposit(p, i, lost) \/ ApproveWithdraw(p, i, lost) => Kept
           /\ RejectSubmit(p, lost) \/ RejectQuick(p, lost) \/ ReceiptMark(p, lost) => Kept
  <1>1. ASSUME NEW i \in Ids, ApproveDeposit(p, i, lost) PROVE Kept
    <2>1. Rule(p, i, "approve", {"PENDING_REVIEW"}, "APPROVED", lost) /\ desk' = desk
      BY <1>1 DEF ApproveDeposit
    <2>2. Rows' /\ Grows /\ Mail'
      BY <2>1, RuleKeeps DEF Whats
    <2>3. QED
      BY <2>1, <2>2, SetTalk, FreeIsOK DEF Kept
  <1>2. ASSUME NEW i \in Ids, ApproveWithdraw(p, i, lost) PROVE Kept
    <2>1. Rule(p, i, "approve withdraw", {"PENDING"}, "APPROVED", lost) /\ desk' = desk
      BY <1>2 DEF ApproveWithdraw
    <2>2. Rows' /\ Grows /\ Mail'
      BY <2>1, RuleKeeps DEF Whats
    <2>3. QED
      BY <2>1, <2>2, SetTalk, FreeIsOK DEF Kept
  <1>3. ASSUME Rejects(p, lost) PROVE Kept
    <2>1. \E tells : RuleFor(p, desk[p].id, "reject", Rejectable(desk[p].id), "REJECTED", tells, lost)
      BY <1>3 DEF Rejects
    <2>2. desk[p].id \in Ids
      BY <1>3 DEF Rejects, Talks, TalkOK, Ids
    <2>3. "PAID" \notin Rejectable(desk[p].id)
      BY DEF Rejectable, OpenDeposit, OpenWithdraw
    <2>4. Rows' /\ Grows /\ Mail'
      BY <2>1, <2>2, <2>3, RuleKeeps DEF Whats
    <2>5. desk' = [desk EXCEPT ![p] = Free] \/ desk' = desk
      BY <1>3 DEF Rejects
    <2>6. QED
      BY <2>4, <2>5, SetTalk, FreeIsOK DEF Kept
  <1>4. ASSUME ReceiptMark(p, lost) PROVE Kept
    <2>1. Rule(p, desk[p].id, "paid", {"APPROVED"}, "PAID", lost) /\ desk' = desk
      BY <1>4 DEF ReceiptMark
    <2>2. desk[p].id \in Ids /\ request[desk[p].id].kind = "withdraw"
      BY <1>4 DEF ReceiptMark, Talks, TalkOK, Ids
    <2>3. Rows' /\ Grows /\ Mail'
      BY <2>1, <2>2, RuleKeeps DEF Whats
    <2>4. QED
      BY <2>1, <2>3, SetTalk, FreeIsOK DEF Kept
  <1>5. QED
    BY <1>1, <1>2, <1>3, <1>4 DEF RejectSubmit, RejectQuick

\* The decisions of administrators in the Mini App (mini_router.py).
LEMMA MiniDecisionsKeep ==
    ASSUME Rows, Talks, Mail, NEW p \in People, NEW i \in Ids,
           MiniApproveDeposit(p, i) \/ MiniApproveWithdraw(p, i) \/ MiniReject(p, i)
    PROVE  Kept
  <1>1. ASSUME NEW what \in Whats \ {"paid"}, NEW from, NEW status,
               "PAID" \notin from, MiniRule(p, i, what, from, status)
        PROVE  Kept
    <2>1. Rows' /\ Grows /\ Mail'
      BY <1>1, RuleKeeps
    <2>2. desk' = desk
      BY <1>1 DEF MiniRule
    <2>3. QED
      BY <2>1, <2>2, SetTalk, FreeIsOK DEF Kept
  <1>2. CASE MiniApproveDeposit(p, i)
    BY <1>1, <1>2 DEF MiniApproveDeposit, Whats
  <1>3. CASE MiniApproveWithdraw(p, i)
    BY <1>1, <1>3 DEF MiniApproveWithdraw, Whats
  <1>4. CASE MiniReject(p, i)
    <2>1. MiniRule(p, i, "reject", Rejectable(i), "REJECTED")
      BY <1>4 DEF MiniReject
    <2>2. "PAID" \notin Rejectable(i)
      BY DEF Rejectable, OpenDeposit, OpenWithdraw
    <2>3. QED
      BY <1>1, <2>1, <2>2 DEF Whats
  <1>5. QED
    BY <1>2, <1>3, <1>4

\* Payments in the Mini App, with the proof saved first.
LEMMA PaymentsKeep ==
    ASSUME Rows, Talks, Mail, Papers
    PROVE  /\ \A p \in People, i \in Ids, image \in BOOLEAN : SaveProof(p, i, image) => Kept
           /\ \A x \in paying : MiniPaid(x) \/ MiniPaidRefused(x) => Kept
  <1>1. ASSUME UNCHANGED <<request, desk, outbox, ruled, told>> PROVE Kept
    BY <1>1, SameRows, FewerMessages, SetTalk, FreeIsOK DEF Kept
  <1>2. ASSUME NEW p \in People, NEW i \in Ids, NEW image \in BOOLEAN, SaveProof(p, i, image) PROVE Kept
    BY <1>1, <1>2 DEF SaveProof
  <1>3. ASSUME NEW x \in paying, MiniPaidRefused(x) PROVE Kept
    BY <1>1, <1>3 DEF MiniPaidRefused
  <1>4. ASSUME NEW x \in paying, MiniPaid(x) PROVE Kept
    <2>1. /\ Decide(x.by, x.id, "paid", {"APPROVED"}, "PAID", "mini", TRUE, x.no)
          /\ x.id \in Ids /\ request[x.id].kind = "withdraw" /\ desk' = desk /\ x.by \in People
      BY <1>4 DEF MiniPaid, IsKind, Papers
    <2>2. Rows' /\ Grows /\ Mail'
      BY <2>1, DecideKeeps DEF Whats
    <2>3. QED
      BY <2>1, <2>2, SetTalk, FreeIsOK DEF Kept
  <1>5. QED
    BY <1>2, <1>3, <1>4

\* The conversations of administrators about receipts and reasons.
LEMMA ConversationsKeep ==
    ASSUME Rows, Talks, Mail, NEW p \in People
    PROVE  /\ \A i \in Ids : ReceiptStart(p, i) \/ (\E lost : AskReason(p, i, lost)) => Kept
           /\ AdminCancel(p) \/ ReceiptAgain(p) => Kept
  <1>1. ASSUME UNCHANGED <<request, outbox, ruled, told>> PROVE Rows' /\ Grows /\ Mail'
    BY <1>1, SameRows, FewerMessages
  <1>2. ASSUME NEW i \in Ids, NEW lost, AskReason(p, i, lost) PROVE Kept
    <2> DEFINE d == [state |-> "reject", id |-> i, seen |-> IF lost THEN None ELSE "user"]
    <2>1. desk' = [desk EXCEPT ![p] = d] /\ request' = request
      BY <1>2 DEF AskReason
    <2>2. Rows' /\ Grows /\ Mail'
      BY <1>1, <1>2 DEF AskReason
    <2>3. TalkOK(request', d)
      BY <2>1 DEF TalkOK, Ids
    <2>4. QED
      BY <2>1, <2>2, <2>3, SetTalk DEF Kept
  <1>3. ASSUME NEW i \in Ids, ReceiptStart(p, i) PROVE Kept
    <2> DEFINE d == [state |-> "receipt", id |-> i, seen |-> request[i].status]
    <2>1. desk' = [desk EXCEPT ![p] = d] /\ request' = request
      BY <1>3 DEF ReceiptStart
    <2>2. Rows' /\ Grows /\ Mail'
      BY <1>1, <1>3 DEF ReceiptStart
    <2>3. request[i].kind = "withdraw"
      BY <1>3 DEF ReceiptStart, IsKind
    <2>4. TalkOK(request', d)
      BY <2>1, <2>3 DEF TalkOK, Ids, IsPaid
    <2>5. QED
      BY <2>1, <2>2, <2>4, SetTalk DEF Kept
  <1>4. ASSUME AdminCancel(p) PROVE Kept
    <2>1. Rows' /\ Grows /\ Mail'
      BY <1>1, <1>4 DEF AdminCancel
    <2>2. QED
      BY <1>4, <2>1, SetTalk, FreeIsOK DEF AdminCancel, Kept
  <1>5. ASSUME ReceiptAgain(p) PROVE Kept
    <2> DEFINE i == desk[p].id
               m == [by |-> p, id |-> i, what |-> "paid", via |-> "bot", no |-> left["desk"]]
    <2>1. /\ outbox' = outbox \cup {m}
          /\ UNCHANGED <<request, desk, ruled, told>>
      BY <1>5 DEF ReceiptAgain
    <2>2. Rows' /\ Grows
      BY <2>1, SameRows
    <2>3. desk[p].state = "receipt" /\ desk[p].seen = "PAID"
      BY <1>5 DEF ReceiptAgain, NeedsMark
    <2>4. IsPaid(request, i)
      BY <2>3 DEF Talks, TalkOK
    <2>5. i \in Nat /\ "paid" \in Whats
      BY <2>4, IdsAreNaturals DEF IsPaid, Ids, Whats
    <2>6. MessageOK(request', m) /\ m.id = i /\ m.what = "paid" /\ m.by = p
      BY <2>1, <2>4, <2>5 DEF MessageOK, IsPaid
    <2>7. Mail'
      <3> HIDE DEF m, i
      <3> QED
        BY <2>1, <2>2, <2>5, <2>6, MoreMessages
    <2>8. QED
      BY <2>1, <2>2, <2>7, SetTalk, FreeIsOK DEF Kept
  <1>6. QED
    BY <1>2, <1>3, <1>4, <1>5

\* A message that is delivered waits no longer.
LEMMA DeliverKeeps ==
    ASSUME Rows, Talks, Mail, NEW m \in outbox, Deliver(m)
    PROVE  Kept
  <1> DEFINE x == About(m.id, m.what)
             more == told (+) SetToBag({x})
  <1>1. /\ outbox' = outbox \ {m} /\ told' = more /\ UNCHANGED <<request, ruled>>
        /\ desk' = desk \/ desk' = [desk EXCEPT ![m.by] = Free]
    BY DEF Deliver, About
  <1>2. Rows' /\ Grows
    BY <1>1, SameRows
  <1>3. Talks'
    BY <1>1, <1>2, SetTalk, FreeIsOK
  <1>4. MessageOK(request, m) /\ x.id = m.id /\ x.what = m.what
    BY DEF Mail, About
  <1>5. MessageOK(request', x)
    BY <1>1, <1>4 DEF MessageOK
  <1>6. /\ IsABag(told) /\ IsABag(more) /\ BagToSet(more) = BagToSet(told) \cup {x}
        /\ \A y : Copies(y, more) = IF y = x THEN Copies(y, told) + 1 ELSE Copies(y, told)
    <2>1. IsABag(told)
      BY DEF Mail
    <2>2. QED
      BY <2>1, CopiesAdd
  <1> HIDE DEF more
  <1>7. ASSUME NEW j \in Nat, NEW w \in Whats \ {"paid"}
        PROVE  Copies(About(j, w), told') + Cardinality(Waiting(j, w)') <= Copies(About(j, w), ruled)
    <2>1. /\ Copies(About(j, w), told) + Cardinality(Waiting(j, w)) <= Copies(About(j, w), ruled)
          /\ Copies(About(j, w), told) \in Nat /\ Copies(About(j, w), ruled) \in Nat
          /\ Cardinality(Waiting(j, w)) \in Nat /\ IsFiniteSet(Waiting(j, w))
      BY WaitingFinite, CopiesAdd DEF Mail
    <2>2. CASE j = m.id /\ w = m.what
      <3>1. Waiting(j, w)' = Waiting(j, w) \ {m} /\ m \in Waiting(j, w)
        BY <1>1, <2>2 DEF Waiting
      <3>2. Cardinality(Waiting(j, w) \ {m}) = Cardinality(Waiting(j, w)) - 1
        BY <2>1, <3>1, FS_RemoveElement
      <3>3. Cardinality(Waiting(j, w)') = Cardinality(Waiting(j, w)) - 1
        BY <3>1, <3>2, Zenon
      <3>4. Copies(About(j, w), told') = Copies(About(j, w), told) + 1
        BY <1>1, <1>6, <2>2
      <3>5. QED
        BY <2>1, <3>3, <3>4
    <2>3. CASE ~ (j = m.id /\ w = m.what)
      <3>1. Waiting(j, w)' = Waiting(j, w)
        BY <1>1, <2>3 DEF Waiting
      <3>2. About(j, w) # x
        BY <2>3 DEF About
      <3>3. QED
        BY <1>1, <1>6, <2>1, <3>1, <3>2
    <2>4. QED
      BY <2>2, <2>3
  <1>8. \A k \in BagToSet(told') : MessageOK(request', k) /\ k = About(k.id, k.what)
    BY <1>1, <1>2, <1>4, <1>5, <1>6, GrowsKeeps DEF Mail
  <1>9. /\ IsFiniteSet(outbox') /\ \A k \in outbox' : MessageOK(request', k) /\ k.by \in People
        /\ \A k \in BagToSet(ruled') : k.id \in Ids' /\ k.what \in Whats
    BY <1>1, <1>2, GrowsKeeps, FS_RemoveElement DEF Mail, Grows
  <1>10. \A j \in Nat, w \in Whats \ {"paid"} :
            Copies(About(j, w), told') + Cardinality(Waiting(j, w)') <= Copies(About(j, w), ruled')
    BY <1>1, <1>7
  <1>11. IsABag(told') /\ IsABag(ruled')
    BY <1>1, <1>6 DEF Mail
  <1>12. Mail'
    BY <1>8, <1>9, <1>10, <1>11 DEF Mail, Whats, Waiting
  <1>13. QED
    BY <1>2, <1>3, <1>12 DEF Kept

\* Every step of the administrators keeps requests, talks and messages in order.
LEMMA DeskKeeps ==
    ASSUME Rows, Talks, Mail, Papers, DeskNext
    PROVE  Kept
  <1>1. ASSUME NEW m \in outbox, DeliverFails(m) PROVE Kept
    <2>1. outbox' \subseteq outbox /\ UNCHANGED <<request, desk, ruled, told>>
      BY <1>1 DEF DeliverFails
    <2>2. QED
      BY <2>1, SameRows, FewerMessages, SetTalk, FreeIsOK DEF Kept
  <1>2. QED
    BY <1>1, DecisionsKeep, MiniDecisionsKeep, PaymentsKeep, ConversationsKeep, DeliverKeeps DEF DeskNext, RejectDepositStart, RejectWithdrawStart

-----------------------------------------------------------------------------

\* The desk leaves the conversations and calls of users alone.
LEMMA DeskIsQuiet == DeskNext => Quiet
  <1> SUFFICES ASSUME DeskNext PROVE Quiet
    OBVIOUS
  <1>1. ASSUME NEW p, NEW lost, \/ RejectSubmit(p, lost) \/ RejectQuick(p, lost) \/ ReceiptMark(p, lost)
                                \/ \E i \in Ids : \/ RejectDepositStart(p, i, lost)
                                                 \/ RejectWithdrawStart(p, i, lost)
                                                 \/ ApproveDeposit(p, i, lost) \/ ApproveWithdraw(p, i, lost)
        PROVE  Quiet
    BY <1>1 DEF RejectSubmit, RejectQuick, Rejects, ReceiptMark, RejectDepositStart, RejectWithdrawStart,
                AskReason, ApproveDeposit, ApproveWithdraw
  <1>2. ASSUME NEW p, \/ AdminCancel(p) \/ ReceiptAgain(p)
                      \/ \E i \in Ids : \/ ReceiptStart(p, i) \/ MiniApproveDeposit(p, i)
                                       \/ MiniApproveWithdraw(p, i) \/ MiniReject(p, i)
                                       \/ \E image \in BOOLEAN : SaveProof(p, i, image)
        PROVE  Quiet
    BY <1>2 DEF AdminCancel, ReceiptAgain, ReceiptStart, MiniApproveDeposit, MiniApproveWithdraw,
                MiniReject, SaveProof
  <1>3. ASSUME NEW x, MiniPaid(x) \/ MiniPaidRefused(x) \/ Deliver(x) \/ DeliverFails(x)
        PROVE  Quiet
    BY <1>3 DEF MiniPaid, MiniPaidRefused, Deliver, DeliverFails
  <1>4. QED
    BY <1>1, <1>2, <1>3 DEF DeskNext

\* Pages that end, and requests that are added, leave the proofs in order.
LEMMA FewerPapers ==
    ASSUME Papers, Grows, paying' \subseteq paying, UNCHANGED proofs
    PROVE  Papers'
  BY DEF Papers, Grows, IsKind

\* A saved proof is of a withdrawal, which it stays.
LEMMA DeskPapers ==
    ASSUME Papers, Grows, DeskNext
    PROVE  Papers'
  <1>1. ASSUME UNCHANGED proofVars PROVE Papers'
    BY <1>1, FewerPapers DEF proofVars
  <1>2. ASSUME NEW p, NEW lost, \/ RejectSubmit(p, lost) \/ RejectQuick(p, lost) \/ ReceiptMark(p, lost)
                                \/ \E i \in Ids : \/ RejectDepositStart(p, i, lost)
                                                 \/ RejectWithdrawStart(p, i, lost)
                                                 \/ ApproveDeposit(p, i, lost) \/ ApproveWithdraw(p, i, lost)
        PROVE  Papers'
    BY <1>1, <1>2 DEF RejectSubmit, RejectQuick, Rejects, ReceiptMark, RejectDepositStart, RejectWithdrawStart,
                AskReason, ApproveDeposit, ApproveWithdraw, Rule, RuleFor
  <1>3. ASSUME NEW p, \/ AdminCancel(p) \/ ReceiptAgain(p)
                      \/ \E i \in Ids : \/ ReceiptStart(p, i) \/ MiniApproveDeposit(p, i)
                                       \/ MiniApproveWithdraw(p, i) \/ MiniReject(p, i)
        PROVE  Papers'
    BY <1>1, <1>3 DEF AdminCancel, ReceiptAgain, ReceiptStart, MiniApproveDeposit, MiniApproveWithdraw,
                      MiniReject, MiniRule
  <1>4. ASSUME NEW x, MiniPaid(x) \/ MiniPaidRefused(x) \/ Deliver(x) \/ DeliverFails(x)
        PROVE  Papers'
    BY <1>4, FewerPapers DEF MiniPaid, MiniPaidRefused, Deliver, DeliverFails, proofVars
  <1>5. ASSUME NEW p \in People, NEW i \in Ids, NEW image, SaveProof(p, i, image)
        PROVE  Papers'
    <2>1. PICK y : proofs' = (proofs \ {x \in proofs : x.id = i}) \cup {[id |-> i, text |-> p, image |-> y]}
      BY <1>5 DEF SaveProof
    <2>2. paying' = paying \cup {[by |-> p, id |-> i, no |-> left["cash"]]}
      BY <1>5 DEF SaveProof
    <2>3. IsKind(i, "withdraw")' /\ \A n : IsKind(n, "withdraw") => IsKind(n, "withdraw")'
      BY <1>5 DEF SaveProof, IsKind, Grows
    <2>4. QED
      BY <2>1, <2>2, <2>3 DEF Papers
  <1>6. QED
    BY <1>2, <1>3, <1>4, <1>5 DEF DeskNext

\* Calls that end are of clicks there were.
LEMMA SameClicks ==
    ASSUME Clicking, calling' \subseteq calling, UNCHANGED clicks
    PROVE  Clicking'
  BY DEF Clicking

\* A click is new when it makes the bot call, and an attempt that is left is one less.
LEMMA RequestsClick ==
    ASSUME Clicking, RequestsNext
    PROVE  Clicking'
  <1>1. ASSUME NEW u, NEW part, NEW kind, NEW page, Call(u, part, kind, page)
        PROVE  Clicking'
    BY <1>1 DEF Call, Clicking
  <1>2. ASSUME NEW kind, Talk(kind) PROVE Clicking'
    BY <1>2, SameClicks DEF Talk
  <1>3. ASSUME NEW u, Withdrawing(u) \/ Depositing(u) \/ Buying(u)
        PROVE  Clicking'
    BY <1>1, <1>2, <1>3 DEF Withdrawing, StartWithdraw, StepAmount, StepPayee, EditWithdraw, Cancel, ConfirmWithdraw,
              Depositing, StartDeposit, ChooseDestination, DepositAmount, DepositReceipt, ConfirmDeposit,
              Buying, BuyEntry, BuySelectGame, BuySelectQty, BuyConfirm
  <1>4. ASSUME NEW t, Answered(t) \/ RefusedReceipt(t) \/ LateCommit(t)
        PROVE  Clicking'
    BY <1>4, SameClicks DEF Answered, RefusedReceipt, LateCommit
  <1>5. ASSUME NEW t, NEW how, Unanswered(t, how)
        PROVE  Clicking'
    <2> DEFINE again == [t EXCEPT !.tries = @ - 1]
    <2>1. /\ t \in calling /\ clicks' = clicks
          /\ \A c \in calling' : c \in calling \/ (c = again /\ t.tries > 1)
      BY <1>5 DEF Unanswered
    <2>2. /\ {"click", "tries"} \subseteq DOMAIN again
          /\ again.click \in 1 .. clicks /\ (t.tries > 1 => again.tries \in 1 .. 3)
      BY <2>1 DEF Clicking
    <2> HIDE DEF again
    <2>3. QED
      BY <2>1, <2>2 DEF Clicking
  <1>6. QED
    BY <1>3, <1>4, <1>5 DEF RequestsNext

\* At first there are no requests, calls and messages.
LEMMA InitBot ==
    ASSUME Init
    PROVE  BotInv
  <1>1. Rows
    <2>1. request = <<>>
      BY DEF Init, RequestsInit
    <2>2. QED
      BY <2>1 DEF Rows, Ids
  <1>2. Dialogs /\ Calls /\ Clicking
    BY FreshDialog DEF Init, RequestsInit, Dialogs, Calls, Clicking
  <1>3. Talks /\ Papers
    BY FreeIsOK DEF Init, DeskInit, Talks, Papers
  <1>4. Mail
    <2>1. outbox = {} /\ told = EmptyBag /\ ruled = EmptyBag
      BY DEF Init, DeskInit
    <2>2. IsABag(EmptyBag) /\ BagToSet(EmptyBag) = {}
      BY DEF IsABag, BagToSet, EmptyBag, SetToBag
    <2>3. \A i, what : Waiting(i, what) = {}
      BY <2>1 DEF Waiting
    <2>4. QED
      BY <2>1, <2>2, <2>3, FS_EmptySet DEF Mail, Copies
  <1>5. QED
    BY <1>1, <1>2, <1>3, <1>4 DEF BotInv

\* Every step of the bot, a crash among them, keeps the requests in order.
LEMMA StepBot ==
    ASSUME BotInv, [Next]_botVars
    PROVE  BotInv'
  <1> USE DEF BotInv
  <1>1. ASSUME UNCHANGED requestVars PROVE Rows' /\ Grows /\ Dialogs' /\ Calls' /\ Clicking'
    BY <1>1, SameRows, SameDialogs, FewerCalls, SameClicks DEF requestVars
  <1>2. ASSUME Grows, UNCHANGED deskVars PROVE Papers'
    BY <1>2, FewerPapers DEF deskVars, proofVars
  <1>3. CASE UNCHANGED <<requestVars, deskVars>>
    BY <1>1, <1>2, <1>3, DeskRests
  <1>4. CASE RequestsNext /\ UNCHANGED deskVars
    BY <1>2, <1>4, RequestsKeep, RequestsClick, DeskRests
  <1>5. CASE DeskNext
    <2>1. Rows' /\ Grows /\ Talks' /\ Mail'
      BY <1>5, DeskKeeps DEF Kept
    <2>2. UNCHANGED <<dialog, calling, late, clicks>>
      BY <1>5, DeskIsQuiet DEF Quiet
    <2>3. Dialogs' /\ Calls' /\ Clicking'
      BY <2>1, <2>2, SameDialogs, FewerCalls, SameClicks
    <2>4. Papers'
      BY <1>5, <2>1, DeskPapers
    <2>5. QED
      BY <2>1, <2>3, <2>4
  <1>6. ASSUME NEW torn \in BOOLEAN, Crash(torn) PROVE BotInv'
    <2>1. /\ UNCHANGED <<dialog, late, clicks, request, desk, ruled, told, proofVars>>
          /\ calling' = {} /\ outbox' \subseteq outbox
      BY <1>6 DEF Crash, RequestsCrash, DeskCrash
    <2>2. Rows' /\ Grows /\ Dialogs' /\ Calls' /\ Clicking'
      BY <2>1, SameRows, SameDialogs, FewerCalls, SameClicks
    <2>3. Papers'
      BY <2>1, <2>2, FewerPapers DEF proofVars
    <2>4. QED
      BY <2>1, <2>2, <2>3, FewerMessages, SetTalk, FreeIsOK
  <1>7. CASE UNCHANGED botVars
    BY <1>3, <1>7 DEF botVars
  <1>8. QED
    BY <1>3, <1>4, <1>5, <1>6, <1>7 DEF Next

\* What is counted in the bags of the messages is what users were told.
LEMMA MailIsHonest ==
    ASSUME BotInv
    PROVE  ToldAsDecided
  <1>1. ASSUME NEW m \in BagToSet(told)
        PROVE  IF m.what = "paid" THEN request[m.id].status = "PAID"
               ELSE BagIn(m, ruled) /\ told[m] <= ruled[m]
    <2>1. MessageOK(request, m) /\ m = About(m.id, m.what) /\ IsABag(told) /\ IsABag(ruled)
      BY DEF BotInv, Mail
    <2>2. CASE m.what = "paid"
      BY <2>1, <2>2 DEF MessageOK, IsPaid
    <2>3. CASE m.what # "paid"
      <3>1. m.id \in Nat /\ m.what \in Whats \ {"paid"}
        BY <2>1, <2>3, IdsAreNaturals DEF MessageOK, Ids, BotInv
      <3>2. Copies(About(m.id, m.what), told) + Cardinality(Waiting(m.id, m.what))
                <= Copies(About(m.id, m.what), ruled)
        BY <3>1 DEF BotInv, Mail
      <3>3. Copies(m, told) + Cardinality(Waiting(m.id, m.what)) <= Copies(m, ruled)
        BY <2>1, <3>2, Zenon
      <3>4. Cardinality(Waiting(m.id, m.what)) \in Nat
        BY WaitingFinite DEF BotInv
      <3>5. told[m] \in Nat /\ told[m] > 0 /\ Copies(m, told) = told[m]
        BY <2>1 DEF IsABag, BagToSet, Copies
      <3>6. Copies(m, ruled) \in Nat
        BY <2>1, CopiesAdd
      <3>7. Copies(m, ruled) > 0 /\ told[m] <= Copies(m, ruled)
        BY <3>3, <3>4, <3>5, <3>6
      <3>8. QED
        BY <2>3, <3>7 DEF Copies, BagIn
    <2>4. QED
      BY <2>2, <2>3
  <1>2. QED
    BY <1>1 DEF ToldAsDecided

\* Users are told what was decided, of an approval or a rejection never more often than it
\* was made, of a payment only when the withdrawal is paid: whatever several administrators
\* do at once, with conversations of any age, lost answers and crashes (admin_finance.py).
THEOREM MessagesAreTrue == Spec => []ToldAsDecided
  <1>1. Init => BotInv
    BY InitBot
  <1>2. BotInv /\ [Next]_botVars => BotInv'
    BY StepBot
  <1>3. BotInv => ToldAsDecided
    BY MailIsHonest
  <1>4. QED
    BY <1>1, <1>2, <1>3, PTL DEF Spec

-----------------------------------------------------------------------------
(* Refunds                                                                 *)
(*                                                                         *)
(* A refund that nobody was told of has an errand that will tell, which    *)
(* asks for the buyers after the close and so misses nobody.  The Mini App *)
(* tells before it commits; the games it has marked are out of the lobby   *)
(* for good, so that a game that is refunded was not marked before.        *)

Columns == {"topic", "status", "mode", "buyers", "calls", "link", "refunded"}

RowOK(r) == DOMAIN r = Columns /\ r.refunded \subseteq r.buyers

GamesOK == (\E S : games \in Seq(S)) /\ \A g \in GameIds : RowOK(games[g])

\* The buyers are not known before the game is closed.
ErrandOK(e) == {"kind", "about", "todo"} \subseteq DOMAIN e /\ (e.kind = "close" => e.todo = None)

MarkedOK == marked \subseteq GameIds /\ \A g \in marked : games[g].status # "LOBBY"

Refunding ==
    /\ faults \in Nat
    /\ GamesOK
    /\ \A e \in errands : ErrandOK(e)
    /\ MarkedOK
    /\ RefundedAreTold

\* Rows that may change, but for the refunds and back to the lobby.
Stays(old, new) ==
    /\ RowOK(new)
    /\ new.refunded = old.refunded
    /\ old.status # "LOBBY" => new.status # "LOBBY"

GamesStay ==
    /\ \E S : games' \in Seq(S)
    /\ GameIds \subseteq GameIds'
    /\ \A g \in GameIds : Stays(games[g], games'[g])
    /\ \A g \in GameIds' \ GameIds : RowOK(games'[g]) /\ games'[g].refunded = {}

FaultsGrow == faults' \in Nat /\ (faults' = 0 => faults = 0)

\* What makes a handler or a task go on.
Driven ==
    \/ Continue \/ Fault
    \/ \E part : Update(part) \/ \E lost \in BOOLEAN : UpdateCall(part, lost)

\* What tells of refunds.
Tells(e) == e.kind = "notify"

\* Faults are counted and never forgotten.
LEMMA Drives ==
    ASSUME faults \in Nat
    PROVE  /\ \A p : Update(p) => FaultsGrow
           /\ \A p : \A lost \in BOOLEAN : UpdateCall(p, lost) => FaultsGrow /\ (lost => faults' # 0)
           /\ Continue => FaultsGrow
           /\ Fault => FaultsGrow /\ faults' # 0
           /\ Driven => FaultsGrow
  BY DEF Update, UpdateCall, Continue, Fault, FaultsGrow, Driven

\* A step that refunds nobody and drops no errand that tells.
LEMMA NothingRefunded ==
    ASSUME Refunding, FaultsGrow, GamesStay, marked' = marked, notice \subseteq notice',
           \A e \in errands' : ErrandOK(e),
           \A e \in errands : Tells(e) => e \in errands'
    PROVE  Refunding'
  <1>1. GamesOK'
    BY DEF GamesStay, GamesOK, Stays
  <1>2. MarkedOK'
    BY DEF Refunding, MarkedOK, GamesStay, Stays
  <1>3. RefundedAreTold'
    <2> SUFFICES ASSUME faults' = 0, NEW g \in GameIds', NEW u \in games'[g].refunded
                 PROVE  \/ [user |-> u, game |-> g, what |-> "refund"] \in notice'
                        \/ \E e \in errands' : e.kind = "notify" /\ e.about = g /\ (e.todo = None \/ u \in e.todo)
      BY DEF RefundedAreTold
    <2>1. faults = 0 /\ g \in GameIds /\ u \in games[g].refunded
      BY DEF FaultsGrow, GamesStay, Stays
    <2>2. \/ [user |-> u, game |-> g, what |-> "refund"] \in notice
          \/ \E e \in errands : e.kind = "notify" /\ e.about = g /\ (e.todo = None \/ u \in e.todo)
      BY <2>1 DEF Refunding, RefundedAreTold
    <2>3. QED
      BY <2>2 DEF Tells
  <1>4. QED
    BY <1>1, <1>2, <1>3 DEF Refunding, FaultsGrow

\* The row of one game is changed.
LEMMA RowChanged ==
    ASSUME GamesOK, NEW g, NEW r, games' = [games EXCEPT ![g] = r],
           g \in GameIds => Stays(games[g], r)
    PROVE  GamesStay
  <1>1. PICK S : games \in Seq(S)
    BY DEF GamesOK
  <1>2. games \in [1 .. Len(games) -> S] /\ Len(games) \in Nat /\ GameIds = 1 .. Len(games)
    BY <1>1 DEF GameIds
  <1>3. games' \in [1 .. Len(games) -> S \cup {r}]
    BY <1>2
  <1>4. games' \in Seq(S \cup {r}) /\ GameIds' = GameIds
    BY <1>2, <1>3, SeqDef DEF GameIds
  <1>5. \A h \in GameIds : Stays(games[h], games'[h])
    BY <1>2, <1>4 DEF GamesOK, Stays
  <1>6. QED
    BY <1>4, <1>5 DEF GamesStay

\* Steps that leave the games alone.
LEMMA GamesSame == ASSUME GamesOK, games' = games PROVE GamesStay
  BY DEF GamesOK, GamesStay, Stays, GameIds

\* A new game has refunded nobody.
LEMMA GameAdded ==
    ASSUME GamesOK, NEW t, games' = Append(games, NewGame(t))
    PROVE  GamesStay
  <1> DEFINE new == NewGame(t)
  <1>1. PICK S : games \in Seq(S)
    BY DEF GamesOK
  <1>2. RowOK(new) /\ new.refunded = {}
    BY DEF NewGame, RowOK, Columns
  <1> HIDE DEF new
  <1>3. /\ games' \in Seq(S \cup {new})
        /\ GameIds' = GameIds \cup {Len(games) + 1} /\ Len(games) + 1 \notin GameIds
        /\ games'[Len(games) + 1] = new
        /\ \A g \in GameIds : games'[g] = games[g]
    BY <1>1 DEF GameIds, new
  <1>4. QED
    BY <1>2, <1>3 DEF GamesOK, GamesStay, Stays

\* A step with a fault: nothing is promised after it.
LEMMA Failed ==
    ASSUME faults' \in Nat, faults' # 0, GamesOK', MarkedOK', \A e \in errands' : ErrandOK(e)
    PROVE  Refunding'
  BY DEF Refunding, RefundedAreTold

\* Games that stay as they are told keep their marks true.
LEMMA StayedOK ==
    ASSUME GamesOK, MarkedOK, GamesStay, marked' = marked
    PROVE  GamesOK' /\ MarkedOK'
  BY DEF GamesOK, GamesStay, Stays, MarkedOK

\* The changes of a row that an administrator or a buyer can make, but for closing it.
LEMMA RowChanges ==
    ASSUME GamesOK, NEW g
    PROVE  /\ \A u : games[g].status = "LOBBY" /\ games' = [games EXCEPT ![g].buyers = @ \cup {u}] => GamesStay
           /\ \A m : games' = [games EXCEPT ![g].mode = m] => GamesStay
           /\ \A l : games' = [games EXCEPT ![g].link = l] => GamesStay
           /\ games' = Started(g) => GamesStay
           /\ \A n, ends : games' = Called(g, n, ends) => GamesStay
           /\ games' = TakenBack(g) => GamesStay
  <1> DEFINE x == games[g]
  <1>1. g \in GameIds => RowOK(x)
    BY DEF GamesOK
  <1>2. ASSUME NEW u, games' = [games EXCEPT ![g].buyers = @ \cup {u}] PROVE GamesStay
    <2> DEFINE r == [x EXCEPT !.buyers = @ \cup {u}]
    <2>1. games' = [games EXCEPT ![g] = r]
      BY <1>2
    <2>2. g \in GameIds => Stays(x, r)
      BY <1>1 DEF Stays, RowOK, Columns
    <2>3. QED
      BY <2>1, <2>2, RowChanged
  <1>3. ASSUME NEW m, games' = [games EXCEPT ![g].mode = m] PROVE GamesStay
    <2> DEFINE r == [x EXCEPT !.mode = m]
    <2>1. games' = [games EXCEPT ![g] = r]
      BY <1>3
    <2>2. g \in GameIds => Stays(x, r)
      BY <1>1 DEF Stays, RowOK, Columns
    <2>3. QED
      BY <2>1, <2>2, RowChanged
  <1>4. ASSUME NEW l, games' = [games EXCEPT ![g].link = l] PROVE GamesStay
    <2> DEFINE r == [x EXCEPT !.link = l]
    <2>1. games' = [games EXCEPT ![g] = r]
      BY <1>4
    <2>2. g \in GameIds => Stays(x, r)
      BY <1>1 DEF Stays, RowOK, Columns
    <2>3. QED
      BY <2>1, <2>2, RowChanged
  <1>5. CASE games' = Started(g)
    <2> DEFINE r == [x EXCEPT !.status = "RUNNING"]
    <2>1. games' = [games EXCEPT ![g] = r]
      BY <1>5 DEF Started
    <2>2. g \in GameIds => Stays(x, r)
      BY <1>1 DEF Stays, RowOK, Columns
    <2>3. QED
      BY <2>1, <2>2, RowChanged
  <1>6. ASSUME NEW n, NEW ends, games' = Called(g, n, ends) PROVE GamesStay
    <2> DEFINE c == Append(x.calls, [number |-> n, ends |-> ends])
               s == IF ends THEN "ENDED" ELSE x.status
               r == [x EXCEPT !.calls = c, !.status = s]
    <2>1. games' = [games EXCEPT ![g] = r]
      BY <1>6 DEF Called
    <2>2. g \in GameIds => Stays(x, r)
      BY <1>1 DEF Stays, RowOK, Columns
    <2>3. QED
      BY <2>1, <2>2, RowChanged
  <1>7. CASE games' = TakenBack(g)
    <2> DEFINE c == Front(x.calls)
               r == [x EXCEPT !.calls = c, !.status = "RUNNING"]
    <2>1. games' = [games EXCEPT ![g] = r]
      BY <1>7 DEF TakenBack
    <2>2. g \in GameIds => Stays(x, r)
      BY <1>1 DEF Stays, RowOK, Columns
    <2>3. QED
      BY <2>1, <2>2, RowChanged
  <1>8. QED
    BY <1>2, <1>3, <1>4, <1>5, <1>6, <1>7

\* A closed lobby refunds its buyers, and is none any more.
LEMMA Closes ==
    ASSUME GamesOK, NEW g, games' = ClosedLobby(g)
    PROVE  /\ GamesOK' /\ GameIds' = GameIds
           /\ g \in GameIds => games'[g].refunded =
                                (IF games[g].status = "LOBBY" THEN games[g].buyers ELSE games[g].refunded)
           /\ g \in GameIds /\ games[g].status \in {"LOBBY", "ENDED"} => games'[g].status = "ENDED"
           /\ \A h \in GameIds : games[h].status # "LOBBY" => games'[h].status # "LOBBY"
           /\ \A h \in GameIds : h # g => games'[h] = games[h]
  <1>1. CASE games[g].status = "LOBBY"
    <2> DEFINE r == [games[g] EXCEPT !.status = "ENDED", !.refunded = games[g].buyers]
    <2>1. games' = [games EXCEPT ![g] = r]
      BY <1>1 DEF ClosedLobby
    <2>2. PICK S : games \in Seq(S)
      BY DEF GamesOK
    <2>3. games \in [1 .. Len(games) -> S] /\ Len(games) \in Nat /\ GameIds = 1 .. Len(games)
      BY <2>2 DEF GameIds
    <2>4. games' \in [1 .. Len(games) -> S \cup {r}]
      BY <2>1, <2>3
    <2>5. g \in GameIds => RowOK(r) /\ r.refunded = games[g].buyers /\ r.status = "ENDED"
      BY DEF GamesOK, RowOK, Columns
    <2>6. \A h \in GameIds : games'[h] = IF h = g THEN r ELSE games[h]
      BY <2>1, <2>3
    <2> HIDE DEF r
    <2>7. games' \in Seq(S \cup {r}) /\ GameIds' = GameIds
      BY <2>3, <2>4, SeqDef DEF GameIds
    <2>8. GamesOK'
      BY <2>5, <2>6, <2>7 DEF GamesOK
    <2>9. QED
      BY <1>1, <2>5, <2>6, <2>7, <2>8
  <1>2. CASE games[g].status # "LOBBY"
    <2>1. games' = games
      BY <1>2 DEF ClosedLobby
    <2>2. QED
      BY <1>2, <2>1 DEF GamesOK, GameIds
  <1>3. QED
    BY <1>1, <1>2

\* An errand to close asks for the buyers after the close.
LEMMA ErrandAdded ==
    ASSUME Refunding, NEW p, NEW part, NEW kind, NEW about, NEW todo, NEW data,
           kind = "close" => todo = None,
           Errand(p, part, kind, about, todo, data)
    PROVE  errands \subseteq errands' /\ \A e \in errands' : ErrandOK(e)
  BY DEF Errand, Refunding, ErrandOK

\* A handler that changes no game and only starts errands.
LEMMA Handles ==
    ASSUME Refunding, FaultsGrow, UNCHANGED <<games, notice, marked>>,
           \/ errands' = errands
           \/ \E p, part, kind, about, todo, data :
                 (kind = "close" => todo = None) /\ Errand(p, part, kind, about, todo, data)
    PROVE  Refunding'
  <1>1. GamesStay
    BY GamesSame DEF Refunding
  <1>2. errands \subseteq errands' /\ \A e \in errands' : ErrandOK(e)
    BY ErrandAdded DEF Refunding
  <1>3. QED
    BY <1>1, <1>2, NothingRefunded

\* A handler that changes the row of a game and does not close it.
LEMMA Changes ==
    ASSUME Refunding, FaultsGrow, GamesStay, UNCHANGED <<errands, marked>>, notice' = notice
    PROVE  Refunding'
  BY NothingRefunded DEF Refunding

\* The errands that tell of refunds.
LEMMA ReadBuyersRefunds ==
    ASSUME Refunding, marked' = marked, NEW e, ReadBuyers(e)
    PROVE  Refunding'
  <1>1. /\ e \in errands /\ Tells(e) /\ e.todo = None
        /\ UNCHANGED <<games, notice>>
        /\ FaultsGrow
    BY Drives DEF ReadBuyers, Tells, Refunding
  <1> DEFINE B == games[e.about].buyers
             d == [e EXCEPT !.todo = B]
  <1>2. errands' = (errands \ {e}) \cup (IF B = {} THEN {} ELSE {d})
    BY DEF ReadBuyers
  <1>3. ErrandOK(d) /\ Tells(d) /\ d.about = e.about /\ d.todo = B
    BY <1>1 DEF Refunding, ErrandOK, Tells
  <1> HIDE DEF d
  <1>4. \A x \in errands' : ErrandOK(x)
    BY <1>2, <1>3 DEF Refunding
  <1>5. GamesOK' /\ MarkedOK'
    BY <1>1, GamesSame, StayedOK DEF Refunding
  <1>6. RefundedAreTold'
    <2> SUFFICES ASSUME faults' = 0, NEW g \in GameIds', NEW u \in games'[g].refunded
                 PROVE  \/ [user |-> u, game |-> g, what |-> "refund"] \in notice'
                        \/ \E x \in errands' : x.kind = "notify" /\ x.about = g /\ (x.todo = None \/ u \in x.todo)
      BY DEF RefundedAreTold
    <2>1. faults = 0 /\ g \in GameIds /\ u \in games[g].refunded /\ u \in games[g].buyers
      BY <1>1 DEF FaultsGrow, GameIds, Refunding, GamesOK, RowOK
    <2>2. CASE [user |-> u, game |-> g, what |-> "refund"] \in notice
      BY <1>1, <2>2
    <2>3. ASSUME NEW x \in errands, x.kind = "notify", x.about = g, x.todo = None \/ u \in x.todo
          PROVE  \E y \in errands' : y.kind = "notify" /\ y.about = g /\ (y.todo = None \/ u \in y.todo)
      <3>1. CASE x = e
        <4>1. B # {} /\ u \in d.todo
          BY <1>3, <2>1, <2>3, <3>1
        <4>2. QED
          BY <1>2, <1>3, <2>3, <3>1, <4>1 DEF Tells
      <3>2. CASE x # e
        BY <1>2, <2>3, <3>2
      <3>3. QED
        BY <3>1, <3>2
    <2>4. QED
      BY <2>1, <2>2, <2>3 DEF Refunding, RefundedAreTold
  <1>7. QED
    BY <1>1, <1>4, <1>5, <1>6 DEF Refunding, FaultsGrow

\* A buyer who is told is off the list of those to be told, and no other is.
LEMMA TellRefundRefunds ==
    ASSUME Refunding, marked' = marked, NEW e, NEW v, NEW sent \in BOOLEAN, TellRefund(e, v, sent)
    PROVE  Refunding'
  <1>1. /\ e \in errands /\ Tells(e) /\ e.todo # None
        /\ UNCHANGED games
        /\ FaultsGrow
        /\ ~ sent => faults' # 0
    BY Drives DEF TellRefund, Tells, Refunding
  <1> DEFINE rest == e.todo \ {v}
             d == [e EXCEPT !.todo = rest]
  <1>2. errands' = (errands \ {e}) \cup (IF e.todo = {v} THEN {} ELSE {d})
    BY DEF TellRefund
  <1>3. ErrandOK(d) /\ Tells(d) /\ d.about = e.about /\ d.todo = rest
    BY <1>1 DEF Refunding, ErrandOK, Tells
  <1> HIDE DEF d
  <1>4. \A x \in errands' : ErrandOK(x)
    BY <1>2, <1>3 DEF Refunding
  <1>5. GamesOK' /\ MarkedOK'
    BY <1>1, GamesSame, StayedOK DEF Refunding
  <1>6. CASE ~ sent
    BY <1>1, <1>4, <1>5, <1>6, Failed DEF FaultsGrow
  <1>7. CASE sent
    <2>1. notice' = notice \cup {[user |-> v, game |-> e.about, what |-> "refund"]}
      BY <1>7 DEF TellRefund
    <2>2. RefundedAreTold'
      <3> SUFFICES ASSUME faults' = 0, NEW g \in GameIds', NEW u \in games'[g].refunded
                   PROVE  \/ [user |-> u, game |-> g, what |-> "refund"] \in notice'
                          \/ \E x \in errands' : x.kind = "notify" /\ x.about = g /\ (x.todo = None \/ u \in x.todo)
        BY DEF RefundedAreTold
      <3>1. faults = 0 /\ g \in GameIds /\ u \in games[g].refunded
        BY <1>1 DEF FaultsGrow, GameIds
      <3>2. CASE [user |-> u, game |-> g, what |-> "refund"] \in notice
        BY <2>1, <3>2
      <3>3. ASSUME NEW x \in errands, x.kind = "notify", x.about = g, x.todo = None \/ u \in x.todo
            PROVE  \/ [user |-> u, game |-> g, what |-> "refund"] \in notice'
                   \/ \E y \in errands' : y.kind = "notify" /\ y.about = g /\ (y.todo = None \/ u \in y.todo)
        <4>1. CASE x = e /\ u = v
          BY <2>1, <3>3, <4>1
        <4>2. CASE x = e /\ u # v
          <5>1. e.todo # {v} /\ u \in d.todo
            BY <1>1, <1>3, <3>3, <4>2
          <5>2. QED
            BY <1>2, <1>3, <3>3, <4>2, <5>1 DEF Tells
        <4>3. CASE x # e
          BY <1>2, <3>3, <4>3
        <4>4. QED
          BY <4>1, <4>2, <4>3
      <3>4. QED
        BY <3>1, <3>2, <3>3 DEF Refunding, RefundedAreTold
    <2>3. QED
      BY <1>1, <1>4, <1>5, <2>2 DEF Refunding, FaultsGrow
  <1>8. QED
    BY <1>6, <1>7

\* A broadcast of a link, which is no errand that tells.
LEMMA BroadcastRefunds ==
    ASSUME Refunding, marked' = marked, NEW e, LinkSent(e) \/ \E u : \E sent \in BOOLEAN : SendLink(e, u, sent)
    PROVE  Refunding'
  <1>1. /\ e \in errands /\ e.kind = "send"
        /\ UNCHANGED games /\ notice \subseteq notice'
        /\ FaultsGrow
    BY Drives DEF LinkSent, SendLink, Refunding
  <1>2. \E D : errands' = (errands \ {e}) \cup D /\ \A d \in D : ErrandOK(d)
    <2>1. CASE LinkSent(e)
      BY <2>1 DEF LinkSent
    <2>2. ASSUME NEW u, NEW sent \in BOOLEAN, SendLink(e, u, sent)
          PROVE  \E D : errands' = (errands \ {e}) \cup D /\ \A d \in D : ErrandOK(d)
      <3> DEFINE d == [e EXCEPT !.todo = @ \ {u},
                                !.data.failed = IF sent \/ Cardinality(@) >= MaxFailed THEN @ ELSE @ \cup {u}]
      <3>1. errands' = (errands \ {e}) \cup {d}
        BY <2>2 DEF SendLink
      <3>2. DOMAIN d = DOMAIN e /\ d.kind = e.kind
        BY <1>1 DEF Refunding, ErrandOK
      <3> HIDE DEF d
      <3>3. ErrandOK(d)
        BY <1>1, <3>2 DEF Refunding, ErrandOK
      <3>4. \A x \in {d} : ErrandOK(x)
        BY <3>3
      <3> DEFINE D == {d}
      <3>5. errands' = (errands \ {e}) \cup D /\ \A x \in D : ErrandOK(x)
        BY <3>1, <3>4
      <3> HIDE DEF D
      <3>6. QED
        BY <3>5
    <2>3. QED
      BY <2>1, <2>2
  <1>3. /\ \A x \in errands' : ErrandOK(x)
        /\ \A x \in errands : Tells(x) => x \in errands'
    BY <1>1, <1>2 DEF Refunding, Tells
  <1>4. GamesStay
    BY <1>1, GamesSame DEF Refunding
  <1>5. QED
    BY <1>1, <1>3, <1>4, NothingRefunded

\* What the backend does for an errand, and leaves as it was if it is not a close.
LEMMA Effects ==
    ASSUME GamesOK, NEW e, e.kind \in {"create", "undo"}, games' = Effect(e)
    PROVE  GamesStay
  <1>1. CASE e.kind = "create"
    <2>1. games' = Append(games, NewGame(e.about)) \/ games' = games
      BY <1>1 DEF Effect, Ensured
    <2>2. QED
      BY <2>1, GameAdded, GamesSame
  <1>2. CASE e.kind = "undo"
    <2>1. games' = TakenBack(e.about) \/ games' = games
      BY <1>2 DEF Effect
    <2>2. QED
      BY <2>1, RowChanges, GamesSame
  <1>3. QED
    BY <1>1, <1>2

\* The games after any effect, with what the Mini App has marked.
LEMMA EffectOK ==
    ASSUME GamesOK, MarkedOK, marked' = marked, NEW e, e.kind \in {"create", "close", "undo"},
           games' = Effect(e)
    PROVE  GamesOK' /\ MarkedOK'
  <1>1. CASE e.kind = "close"
    <2>1. games' = ClosedLobby(e.about)
      BY <1>1 DEF Effect
    <2>2. QED
      BY <2>1, Closes DEF MarkedOK
  <1>2. CASE e.kind # "close"
    BY <1>2, Effects, StayedOK
  <1>3. QED
    BY <1>1, <1>2

\* The answer to a close leaves an errand to tell the buyers.
LEMMA AnswerRefunds ==
    ASSUME Refunding, marked' = marked, NEW e, Answer(e)
    PROVE  Refunding'
  <1> DEFINE n == [e EXCEPT !.kind = "notify"]
             closed == e.kind = "close" /\ Closable(e.about)
  <1>1. /\ e \in errands /\ e.kind \in {"create", "close", "undo"}
        /\ games' = Effect(e) /\ notice' = notice
        /\ errands' = (errands \ {e}) \cup (IF closed THEN {n} ELSE {})
        /\ FaultsGrow
    BY Drives DEF Answer, Refunding
  <1>2. ErrandOK(n) /\ n.kind = "notify" /\ n.about = e.about /\ n.todo = e.todo
    BY <1>1 DEF Refunding, ErrandOK
  <1> HIDE DEF n
  <1>3. \A x \in errands' : ErrandOK(x)
    BY <1>1, <1>2 DEF Refunding
  <1>4. \A x \in errands : Tells(x) => x \in errands'
    BY <1>1 DEF Tells
  <1>5. CASE e.kind # "close"
    <2>1. GamesStay
      BY <1>1, <1>5, Effects DEF Refunding
    <2>2. QED
      BY <1>1, <1>3, <1>4, <2>1, NothingRefunded
  <1>6. CASE e.kind = "close"
    <2>1. games' = ClosedLobby(e.about)
      BY <1>1, <1>6 DEF Effect
    <2>2. GamesOK' /\ MarkedOK'
      BY <1>1, EffectOK DEF Refunding
    <2>3. RefundedAreTold'
      <3> SUFFICES ASSUME faults' = 0, NEW g \in GameIds', NEW u \in games'[g].refunded
                   PROVE  \/ [user |-> u, game |-> g, what |-> "refund"] \in notice'
                          \/ \E x \in errands' : x.kind = "notify" /\ x.about = g /\ (x.todo = None \/ u \in x.todo)
        BY DEF RefundedAreTold
      <3>1. faults = 0 /\ g \in GameIds
        BY <1>1, <2>1, Closes DEF FaultsGrow, Refunding
      <3>2. CASE g = e.about /\ games[g].status = "LOBBY"
        <4>1. closed /\ e.todo = None
          BY <1>1, <1>6, <3>2 DEF Closable, Refunding, ErrandOK
        <4>2. QED
          BY <1>1, <1>2, <3>2, <4>1
      <3>3. CASE ~ (g = e.about /\ games[g].status = "LOBBY")
        <4>1. u \in games[g].refunded
          BY <2>1, <3>1, <3>3, Closes DEF Refunding
        <4>2. QED
          BY <1>1, <1>4, <3>1, <4>1 DEF Refunding, RefundedAreTold, Tells
      <3>4. QED
        BY <3>2, <3>3
    <2>4. QED
      BY <1>1, <1>3, <2>2, <2>3 DEF Refunding, FaultsGrow
  <1>7. QED
    BY <1>5, <1>6

\* Without an answer something has failed.
LEMMA NoAnswerRefunds ==
    ASSUME Refunding, marked' = marked, NEW e, NEW done \in BOOLEAN, NoAnswer(e, done)
    PROVE  Refunding'
  <1>1. faults' \in Nat /\ faults' # 0 /\ errands' = errands \ {e}
    BY Drives DEF NoAnswer, Refunding, FaultsGrow
  <1>2. \/ games' = games
        \/ e.kind \in {"create", "close", "undo"} /\ games' = Effect(e)
    BY DEF NoAnswer
  <1>3. GamesOK' /\ MarkedOK'
    BY <1>2, EffectOK, GamesSame, StayedOK DEF Refunding
  <1>4. QED
    BY <1>1, <1>3, Failed DEF Refunding

\* Every step of administrators and buyers at the bot.
LEMMA HostRefunds ==
    ASSUME Refunding, HostNext, marked' = marked
    PROVE  Refunding'
  <1>1. ASSUME NEW p \in People, PriceSubmit(p) \/ CloseSubmit(p)
        PROVE  Refunding'
    BY <1>1, Drives, Handles DEF PriceSubmit, CloseSubmit, From, Refunding
  <1>2. ASSUME NEW p \in People, CloseCancel(p) \/ \E part : Leave(p, part)
        PROVE  Refunding'
    BY <1>2, Drives, Handles DEF CloseCancel, Leave, From, Refunding
  <1>3. ASSUME NEW p \in People, NEW t, EnsureTopic(p, t)
        PROVE  Refunding'
    BY <1>3, Drives, Handles DEF EnsureTopic, From, Refunding
  <1>4. ASSUME NEW p \in People, NEW n, NEW ends \in BOOLEAN, NEW lost \in BOOLEAN, CallSubmit(p, n, ends, lost)
        PROVE  Refunding'
    <2>1. games' = games \/ games' = Called(host[p].about, n, ends)
      BY <1>4 DEF CallSubmit
    <2>2. GamesStay
      BY <2>1, GamesSame, RowChanges DEF Refunding
    <2>3. QED
      BY <1>4, <2>2, Drives, Changes DEF CallSubmit, Refunding
  <1>5. ASSUME NEW p \in People, NEW l, NEW lost \in BOOLEAN, LiveSubmit(p, l, lost)
        PROVE  Refunding'
    <2>1. GamesStay
      BY <1>5, RowChanges DEF LiveSubmit, Refunding
    <2>2. QED
      BY <1>5, <2>1, Drives, Changes DEF LiveSubmit, Refunding
  <1>6. ASSUME NEW p \in People, NEW page, UndoExecute(p, page)
        PROVE  Refunding'
    BY <1>6, Drives, Handles DEF UndoExecute, From, Refunding
  <1>7. ASSUME NEW p \in People, NEW g,
               CloseStart(p, g) \/ CallStart(p, g) \/ LiveSet(p, g) \/ ListExpires(p, g)
        PROVE  Refunding'
    BY <1>7, Drives, Handles DEF CloseStart, CallStart, LiveSet, ListExpires, From, Refunding
  <1>8. ASSUME NEW p \in People, NEW g, LiveSend(p, g) \/ LiveResend(p, g)
        PROVE  Refunding'
    BY <1>8, Drives, Handles DEF LiveSend, LiveResend, From, Refunding
  <1>9. ASSUME NEW p \in People, NEW g, StartLocked(p, g) \/ LiveClear(p, g) \/ \E m : SelectMode(p, g, m)
        PROVE  Refunding'
    <2>1. GamesStay
      BY <1>9, RowChanges DEF StartLocked, StartGame, LiveClear, SelectMode, Refunding
    <2>2. QED
      BY <1>9, <2>1, Drives, Changes DEF StartLocked, LiveClear, SelectMode, From, Refunding
  <1>10. ASSUME NEW p \in People, NEW g, NEW s, UndoConfirm(p, g, s)
         PROVE  Refunding'
    BY <1>10, Drives, Handles DEF UndoConfirm, From, Refunding
  <1>11. ASSUME NEW g, NEW u, Buy(g, u)
         PROVE  Refunding'
    <2>1. GamesStay
      BY <1>11, RowChanges DEF Buy, Refunding
    <2>2. QED
      BY <1>11, <2>1, Drives, Changes DEF Buy, Refunding
  <1>12. ASSUME NEW e \in errands, Answer(e) \/ ReadBuyers(e) \/ \E done \in BOOLEAN : NoAnswer(e, done)
         PROVE  Refunding'
    BY <1>12, AnswerRefunds, ReadBuyersRefunds, NoAnswerRefunds
  <1>13. ASSUME NEW e \in errands, NEW u, NEW sent \in BOOLEAN, TellRefund(e, u, sent) \/ SendLink(e, u, sent)
         PROVE  Refunding'
    BY <1>13, TellRefundRefunds, BroadcastRefunds
  <1>14. ASSUME NEW e \in errands, LinkSent(e)
         PROVE  Refunding'
    BY <1>14, BroadcastRefunds
  <1>15. QED
    BY <1>1, <1>2, <1>3, <1>4, <1>5, <1>6, <1>7, <1>8, <1>9, <1>10, <1>11, <1>12, <1>13, <1>14 DEF HostNext

\* The Mini App tells the buyers of a lobby, and commits, or something has failed.
LEMMA MiniCloseRefunds ==
    ASSUME Refunding, NEW p, NEW g \in GameIds, NEW U, NEW committed \in BOOLEAN, MiniClose(p, g, U, committed)
    PROVE  Refunding'
  <1> USE DEF Refunding
  <1>1. /\ FaultsGrow /\ errands' = errands /\ notice' = notice \cup RefundNotices(g, U)
        /\ games[g].status \in {"LOBBY", "ENDED"}
        /\ games' = IF committed THEN ClosedLobby(g) ELSE games
        /\ marked' = IF committed THEN marked \cup {g} ELSE marked
        /\ ~ committed \/ U # ClosedLobby(g)[g].refunded => faults' # 0
    BY Drives DEF MiniClose, Closable
  <1>2. CASE ~ committed
    <2>1. games' = games /\ marked' = marked
      BY <1>1, <1>2
    <2>2. GamesOK' /\ MarkedOK'
      BY <2>1, GamesSame, StayedOK
    <2>3. QED
      BY <1>1, <1>2, <2>2, Failed DEF FaultsGrow
  <1>3. CASE committed
    <2>1. games' = ClosedLobby(g) /\ marked' = marked \cup {g}
      BY <1>1, <1>3
    <2>2. GamesOK' /\ MarkedOK'
      BY <1>1, <2>1, Closes DEF MarkedOK
    <2>3. RefundedAreTold'
      <3> SUFFICES ASSUME faults' = 0, NEW h \in GameIds', NEW u \in games'[h].refunded
                   PROVE  \/ [user |-> u, game |-> h, what |-> "refund"] \in notice'
                          \/ \E x \in errands' : x.kind = "notify" /\ x.about = h /\ (x.todo = None \/ u \in x.todo)
        BY DEF RefundedAreTold
      <3>1. faults = 0 /\ h \in GameIds
        BY <1>1, <2>1, Closes DEF FaultsGrow
      <3>2. CASE h = g /\ games[g].status = "LOBBY"
        <4>1. g \notin marked
          BY <3>2 DEF MarkedOK
        <4>2. u \in U
          BY <1>1, <2>1, <3>2
        <4>3. QED
          BY <1>1, <3>2, <4>1, <4>2 DEF RefundNotices
      <3>3. CASE ~ (h = g /\ games[g].status = "LOBBY")
        <4>1. u \in games[h].refunded
          BY <2>1, <3>1, <3>3, Closes
        <4>2. QED
          BY <1>1, <3>1, <4>1 DEF RefundedAreTold
      <3>4. QED
        BY <3>2, <3>3
    <2>4. QED
      BY <1>1, <2>2, <2>3 DEF FaultsGrow
  <1>4. QED
    BY <1>2, <1>3

\* Every step of administrators in the Mini App.
LEMMA PanelRefunds ==
    ASSUME Refunding, PanelNext
    PROVE  Refunding'
  <1>1. ASSUME NEW p, NEW t, NEW lost \in BOOLEAN, MiniOpen(p, t, lost)
        PROVE  Refunding'
    BY <1>1, Drives, Handles DEF MiniOpen, hostVars, Refunding
  <1>2. ASSUME NEW p, NEW g, NEW new, Change(p, g, new), GamesOK /\ games' = new => GamesStay
        PROVE  Refunding'
    <2>1. GamesStay
      BY <1>2 DEF Change, Refunding
    <2>2. QED
      BY <1>2, <2>1, Drives, Changes DEF Change, panelVars, Refunding
  <1>3. ASSUME NEW p, NEW g,
               \/ MiniStart(p, g) \/ MiniUndo(p, g) \/ MiniClearLink(p, g)
               \/ \E m : MiniSelectMode(p, g, m)
               \/ \E n, ends : MiniCall(p, g, n, ends)
               \/ \E l : MiniSetLink(p, g, l)
        PROVE  Refunding'
    BY <1>2, <1>3, RowChanges DEF MiniStart, MiniUndo, MiniClearLink, MiniSelectMode, MiniCall, MiniSetLink
  <1>4. ASSUME NEW p, NEW g, NEW U, MiniSendLink(p, g, U)
        PROVE  Refunding'
    <2>1. /\ FaultsGrow /\ UNCHANGED <<games, errands, marked>> /\ notice \subseteq notice'
      BY <1>4, Drives DEF MiniSendLink, panelVars, Refunding
    <2>2. QED
      BY <2>1, GamesSame, NothingRefunded DEF Refunding
  <1>5. ASSUME NEW r, Again(r) \/ NoticeNew(r)
        PROVE  Refunding'
    BY <1>5, Drives, Handles DEF Again, NoticeNew, hostVars, Refunding
  <1>6. ASSUME NEW x, FlagEvent(x) \/ \E sent \in BOOLEAN : SendCreated(x, sent)
        PROVE  Refunding'
    BY <1>6, Drives, Handles DEF FlagEvent, SendCreated, hostVars, Refunding
  <1>7. ASSUME NEW x, OpenCommit(x)
        PROVE  Refunding'
    <2>1. games' = games \/ games' = Append(games, NewGame(x.topic))
      BY <1>7 DEF OpenCommit
    <2>2. GamesStay
      BY <2>1, GamesSame, GameAdded DEF Refunding
    <2>3. QED
      BY <1>7, <2>2, Drives, Changes DEF OpenCommit, Refunding
  <1>8. QED
    BY <1>1, <1>3, <1>4, <1>5, <1>6, <1>7, MiniCloseRefunds DEF PanelNext

\* The other parts of the bot touch none of this.
LEMMA OthersRefund ==
    ASSUME Refunding, FaultsGrow, UNCHANGED <<hostVars, panelVars>>
    PROVE  Refunding'
  BY Handles DEF hostVars, panelVars

\* Every step is that of a handler or a task.
LEMMA AllDriven ==
    ASSUME \/ AclNext \/ MonitorsNext \/ RequestsNext \/ DeskNext
           \/ SettingsNext \/ UsersNext \/ HostNext \/ PanelNext
    PROVE  Driven
  <1> USE DEF Driven
  <1>1. CASE AclNext
    BY <1>1 DEF AclNext, AskRoles, Sync, SyncFails, Revoke, Grant, MiniRevoke, MiniGrant, NoteRevoke, NoteGrant
  <1>2. CASE MonitorsNext
    BY <1>2 DEF MonitorsNext, AutoOn, AutoOff, MonitorFails
  <1>3. CASE RequestsNext
    <2>1. ASSUME NEW u, Withdrawing(u) \/ Depositing(u) \/ Buying(u)
          PROVE  Driven
      BY <2>1 DEF Withdrawing, StartWithdraw, StepAmount, StepPayee, EditWithdraw, Cancel, ConfirmWithdraw,
                  Depositing, StartDeposit, ChooseDestination, DepositAmount, DepositReceipt, ConfirmDeposit,
                  Buying, BuyEntry, BuySelectGame, BuySelectQty, BuyConfirm, Talk, Call
    <2>2. ASSUME NEW t, Answered(t) \/ RefusedReceipt(t) \/ LateCommit(t) \/ \E how : Unanswered(t, how)
          PROVE  Driven
      BY <2>2 DEF Answered, RefusedReceipt, LateCommit, Unanswered
    <2>3. QED
      BY <1>3, <2>1, <2>2 DEF RequestsNext
  <1>4. CASE DeskNext
    <2>1. ASSUME NEW p, NEW i, \/ ReceiptStart(p, i)
                               \/ MiniApproveDeposit(p, i) \/ MiniApproveWithdraw(p, i) \/ MiniReject(p, i)
                               \/ \E image : SaveProof(p, i, image)
          PROVE  Driven
      BY <2>1 DEF ReceiptStart, MiniApproveDeposit, MiniApproveWithdraw, MiniReject, SaveProof,
                  MiniRule
    <2>2. ASSUME NEW p, NEW lost \in BOOLEAN,
                 \/ RejectSubmit(p, lost) \/ RejectQuick(p, lost) \/ ReceiptMark(p, lost)
                 \/ \E i : \/ ApproveDeposit(p, i, lost) \/ ApproveWithdraw(p, i, lost)
                         \/ RejectDepositStart(p, i, lost) \/ RejectWithdrawStart(p, i, lost)
          PROVE  Driven
      BY <2>2 DEF RejectSubmit, RejectQuick, Rejects, ReceiptMark, ApproveDeposit, ApproveWithdraw, Rule, RuleFor,
                  RejectDepositStart, RejectWithdrawStart, AskReason
    <2>3. ASSUME NEW x, \/ AdminCancel(x) \/ ReceiptAgain(x) \/ MiniPaid(x) \/ MiniPaidRefused(x)
                        \/ Deliver(x) \/ DeliverFails(x)
          PROVE  Driven
      BY <2>3 DEF AdminCancel, ReceiptAgain, MiniPaid, MiniPaidRefused, Deliver, DeliverFails
    <2>4. QED
      BY <1>4, <2>1, <2>2, <2>3 DEF DeskNext
  <1>5. CASE SettingsNext
    <2>1. ASSUME NEW lost \in BOOLEAN, GiveName(lost) \/ \E w : WriteCards(w, lost)
          PROVE  Driven
      BY <2>1 DEF GiveName, WriteCards
    <2>2. ASSUME NEW x, \/ GiveId(x) \/ PickRole(x) \/ CardSubmit(x) \/ EditCard(x) \/ CardDelete(x)
                        \/ Toggle(x) \/ SetSwitch(x) \/ CallFails(x) \/ BotDeposit(x) \/ MiniDeposit(x)
                        \/ \E c : CardPut(x, c, FALSE)
                        \/ \E on : MiniSwitch(x, on)
          PROVE  Driven
      BY <2>2 DEF GiveId, PickRole, CardSubmit, EditCard, CardDelete, Toggle, SetSwitch, CallFails, BotDeposit,
                  MiniDeposit, CardPut, MiniSwitch, Say
    <2>3. ASSUME Quit \/ AddCard \/ AddAdmin \/ SeePage \/ MiniDepositUnchosen
          PROVE  Driven
      BY <2>3 DEF Quit, AddCard, AddAdmin, SeePage, MiniDepositUnchosen, Say
    <2>4. QED
      BY <1>5, <2>1, <2>2, <2>3 DEF SettingsNext
  <1>6. CASE UsersNext
    <2>1. ASSUME NEW p, \/ Dismiss(p) \/ UnrestrictSubmit(p) \/ AdjustSubmit(p) \/ NotifySubmit(p)
                        \/ \E c : RestrictSubmit(p, c)
                        \/ \E u : \/ MiniUnrestrict(p, u) \/ MiniAdjust(p, u) \/ MiniNotify(p, u)
                               \/ \E c : MiniRestrict(p, u, c)
                               \/ ComposePick(p, u) \/ \E s : OpenFor(p, u, s)
          PROVE  Driven
      BY <2>1 DEF Dismiss, UnrestrictSubmit, AdjustSubmit, NotifySubmit, RestrictSubmit, Submit, ComposePick, OpenFor,
                  MiniUnrestrict, MiniAdjust, MiniNotify, MiniRestrict, MiniSubmit
    <2>2. ASSUME NEW x, \/ JobFails(x) \/ Finish(x) \/ \E b : Tell(x, b) \/ Commit(x, b)
          PROVE  Driven
      BY <2>2 DEF JobFails, Finish, Tell, Commit
    <2>3. ASSUME NEW u, NEW a, NEW inBot, NEW unanswered \in BOOLEAN, Begin(u, a, inBot, unanswered)
          PROVE  Driven
      BY <2>3 DEF Begin
    <2>4. ASSUME TimePasses PROVE Driven
      BY <2>4 DEF TimePasses
    <2>5. QED
      BY <1>6, <2>1, <2>2, <2>3, <2>4 DEF UsersNext
  <1>7. CASE HostNext
    <2>1. ASSUME NEW p, \/ PriceSubmit(p) \/ CloseCancel(p) \/ CloseSubmit(p)
                        \/ \E x : Leave(p, x) \/ EnsureTopic(p, x) \/ UndoExecute(p, x)
          PROVE  Driven
      BY <2>1 DEF PriceSubmit, CloseCancel, CloseSubmit, Leave, EnsureTopic, UndoExecute, From
    <2>2. ASSUME NEW p, NEW x, NEW lost \in BOOLEAN, LiveSubmit(p, x, lost) \/ \E ends : CallSubmit(p, x, ends, lost)
          PROVE  Driven
      BY <2>2 DEF LiveSubmit, CallSubmit
    <2>3. ASSUME NEW p, NEW g,
                 \/ CloseStart(p, g) \/ StartLocked(p, g) \/ CallStart(p, g) \/ LiveSet(p, g) \/ LiveClear(p, g)
                 \/ LiveSend(p, g) \/ LiveResend(p, g) \/ ListExpires(p, g)
                 \/ \E x : SelectMode(p, g, x) \/ UndoConfirm(p, g, x)
          PROVE  Driven
      BY <2>3 DEF CloseStart, StartLocked, CallStart, LiveSet, LiveClear, LiveSend, LiveResend, ListExpires,
                  SelectMode, UndoConfirm, From
    <2>4. ASSUME NEW g, NEW u, Buy(g, u) PROVE Driven
      BY <2>4 DEF Buy
    <2>5. ASSUME NEW e, \/ Answer(e) \/ ReadBuyers(e) \/ LinkSent(e) \/ \E done : NoAnswer(e, done)
                        \/ \E u, sent : TellRefund(e, u, sent) \/ SendLink(e, u, sent)
          PROVE  Driven
      BY <2>5 DEF Answer, ReadBuyers, LinkSent, NoAnswer, TellRefund, SendLink
    <2>6. QED
      BY <1>7, <2>1, <2>2, <2>3, <2>4, <2>5 DEF HostNext
  <1>8. CASE PanelNext
    <2>1. ASSUME NEW p, NEW t, NEW lost \in BOOLEAN, MiniOpen(p, t, lost) PROVE Driven
      BY <2>1 DEF MiniOpen
    <2>2. ASSUME NEW p, NEW g,
                 \/ MiniStart(p, g) \/ MiniUndo(p, g) \/ MiniClearLink(p, g)
                 \/ \E x : MiniSelectMode(p, g, x) \/ MiniSetLink(p, g, x) \/ \E ends : MiniCall(p, g, x, ends)
          PROVE  Driven
      BY <2>2 DEF MiniStart, MiniUndo, MiniClearLink, MiniSelectMode, MiniSetLink, MiniCall, Change
    <2>3. ASSUME NEW p, NEW g, NEW U, NEW committed \in BOOLEAN, MiniSendLink(p, g, U) \/ MiniClose(p, g, U, committed)
          PROVE  Driven
      BY <2>3 DEF MiniSendLink, MiniClose
    <2>4. ASSUME NEW x, \/ Again(x) \/ OpenCommit(x) \/ FlagEvent(x) \/ NoticeNew(x)
                        \/ \E sent : SendCreated(x, sent)
          PROVE  Driven
      BY <2>4 DEF Again, OpenCommit, FlagEvent, NoticeNew, SendCreated
    <2>5. QED
      BY <1>8, <2>1, <2>2, <2>3, <2>4 DEF PanelNext
  <1>9. QED
    BY <1>1, <1>2, <1>3, <1>4, <1>5, <1>6, <1>7, <1>8

\* Every step of the bot, a crash among them.
LEMMA StepRefunds ==
    ASSUME Refunding, [Next]_botVars
    PROVE  Refunding'
  <1>1. CASE /\ AclNext \/ MonitorsNext \/ RequestsNext \/ DeskNext \/ SettingsNext \/ UsersNext
             /\ UNCHANGED <<hostVars, panelVars>>
    BY <1>1, AllDriven, Drives, OthersRefund DEF Refunding
  <1>2. CASE HostNext /\ UNCHANGED panelVars
    BY <1>2, HostRefunds DEF panelVars
  <1>3. CASE PanelNext
    BY <1>3, PanelRefunds
  <1>4. ASSUME NEW torn \in BOOLEAN, Crash(torn) PROVE Refunding'
    <2>1. faults' \in Nat /\ faults' # 0 /\ errands' = {} /\ UNCHANGED <<games, marked>>
      BY <1>4, Drives DEF Crash, HostCrash, panelVars, FaultsGrow, Refunding
    <2>2. GamesOK' /\ MarkedOK'
      BY <2>1, GamesSame, StayedOK DEF Refunding
    <2>3. QED
      BY <2>1, <2>2, Failed
  <1>5. CASE UNCHANGED botVars
    <2>1. FaultsGrow /\ UNCHANGED <<hostVars, panelVars>>
      BY <1>5 DEF botVars, otherVars, FaultsGrow, Refunding
    <2>2. QED
      BY <2>1, OthersRefund
  <1>6. QED
    BY <1>1, <1>2, <1>3, <1>4, <1>5 DEF Next, otherVars

\* Everybody whose purchase the close of a lobby refunds is told, unless something has
\* failed: also who bought while the reason was written, whichever of the bot and the
\* Mini App closes, how often, and whatever else is done to the games
\* (_notify_lobby_cancel_refunds, _mini_notify_lobby_cancel_refunds).
THEOREM NoRefundUntold == Spec => []RefundedAreTold
  <1>1. Init => Refunding
    <2> SUFFICES ASSUME Init PROVE Refunding
      OBVIOUS
    <2>1. faults = 0 /\ games \in FirstGames /\ errands = {} /\ marked = {}
      BY DEF Init, UpdatesInit, HostInit, PanelInit
    <2>2. games \in Seq(Row) /\ \A g \in GameIds : games[g] \in Row /\ games[g].refunded = {}
      BY <2>1, HostAssumption DEF GameIds
    <2>3. GamesOK
      BY <2>2 DEF GamesOK, RowOK, Row, Columns
    <2>4. QED
      BY <2>1, <2>2, <2>3 DEF Refunding, MarkedOK, RefundedAreTold
  <1>2. Refunding => RefundedAreTold
    BY DEF Refunding
  <1>3. QED
    BY <1>1, <1>2, StepRefunds, PTL DEF Spec

-----------------------------------------------------------------------------
(* Games that are opened                                                   *)

\* A click opens one game, however often the page repeats its request, however the
\* requests overlap, and whatever administrators do to the games meanwhile
\* (the primary key of app_settings, mini_router.py:3851).
THEOREM ClicksOpenOneGame == Spec => []OneGamePerClick
  <1>1. Init => OneGamePerClick
    BY DEF Init, PanelInit, OneGamePerClick, Opened
  <1>2. ASSUME OneGamePerClick, [Next]_botVars PROVE OneGamePerClick'
    <2>1. CASE created' = created
      BY <1>2, <2>1 DEF OneGamePerClick, Opened
    <2>2. ASSUME NEW x, OpenCommit(x), created' # created PROVE OneGamePerClick'
      <3>1. PICK g, p, reused : created' = created \cup {[key |-> x.key, game |-> g, by |-> p, reused |-> reused]}
        BY <2>2 DEF OpenCommit
      <3>2. \A r \in created : r.key # x.key
        BY <2>2 DEF OpenCommit, IsRepeated
      <3>3. QED
        BY <1>2, <3>1, <3>2 DEF OneGamePerClick, Opened
    <2>3. CASE PanelNext
      <3>1. ASSUME NEW p, NEW g, \/ MiniStart(p, g) \/ MiniUndo(p, g) \/ MiniClearLink(p, g)
                                 \/ \E m : MiniSelectMode(p, g, m)
                                 \/ \E n, ends : MiniCall(p, g, n, ends)
                                 \/ \E l : MiniSetLink(p, g, l)
                                 \/ \E U : MiniSendLink(p, g, U) \/ \E committed : MiniClose(p, g, U, committed)
            PROVE  OneGamePerClick'
        BY <2>1, <3>1 DEF MiniStart, MiniUndo, MiniClearLink, MiniSelectMode, MiniCall, MiniSetLink, MiniSendLink,
                          MiniClose, Change, panelVars
      <3>2. ASSUME NEW p, NEW t, NEW lost, MiniOpen(p, t, lost) PROVE OneGamePerClick'
        BY <2>1, <3>2 DEF MiniOpen
      <3>3. ASSUME NEW x, Again(x) \/ FlagEvent(x) \/ NoticeNew(x) \/ \E sent : SendCreated(x, sent)
            PROVE  OneGamePerClick'
        BY <2>1, <3>3 DEF Again, FlagEvent, NoticeNew, SendCreated
      <3>4. QED
        BY <2>1, <2>2, <2>3, <3>1, <3>2, <3>3 DEF PanelNext
    <2>4. CASE UNCHANGED panelVars
      BY <2>1, <2>4 DEF panelVars
    <2>5. QED
      BY <1>2, <2>3, <2>4 DEF Next, otherVars, Crash, botVars
  <1>3. QED
    BY <1>1, <1>2, PTL DEF Spec

-----------------------------------------------------------------------------
(* Restrictions                                                            *)
(*                                                                         *)
(* A request writes back what it has read.  What it read was decided when  *)
(* it was read, and the audit log only grows.                              *)

Recorded(u, b, A) == [what |-> "restrict", who |-> u, forbids |-> b.forbids, until |-> b.until] \in A

AsDecided(B, A) ==
    /\ DOMAIN B = Players
    /\ \A u \in Players :
         /\ {"active", "forbids", "until"} \subseteq DOMAIN B[u]
         /\ B[u].active \in BOOLEAN /\ B[u].forbids \subseteq Restrictable
         /\ B[u].active => Recorded(u, B[u], A)

JobOK(j, A) ==
    /\ {"kind", "told", "by", "who"} \subseteq DOMAIN j
    /\ j.by \in People \cup {None} /\ j.who \in Players
    /\ j.kind \in {"restrict", "unrestrict"} => AsDecided(j.data.seen, A)
    /\ j.kind = "restrict" => j.data.forbids \subseteq Restrictable

Judged == AsDecided(bans, audit) /\ \A j \in jobs : JobOK(j, audit)

\* What was decided stays decided while the audit log grows.
LEMMA AuditGrows ==
    ASSUME Judged, audit \subseteq audit',
           bans' = bans \/ AsDecided(bans', audit'),
           \A j \in jobs' : j \in jobs \/ JobOK(j, audit')
    PROVE  Judged'
  <1>1. \A B : AsDecided(B, audit) => AsDecided(B, audit')
    BY DEF AsDecided, Recorded
  <1>2. QED
    BY <1>1 DEF Judged, JobOK

\* A request that restricts or lifts writes what it has read and one entry more.
LEMMA CommitJudged ==
    ASSUME Judged, NEW j, NEW lost, Commit(j, lost)
    PROVE  Judged'
  <1>1. j \in jobs /\ jobs' \subseteq jobs /\ audit \subseteq audit'
    BY DEF Commit
  <1>2. CASE j.kind = "restrict"
    <2> DEFINE B == j.data.seen
               b == [active |-> TRUE, forbids |-> j.data.forbids, until |-> j.data.until]
    <2>1. AsDecided(B, audit)
      BY <1>1, <1>2 DEF Judged, JobOK
    <2>2. bans' = [B EXCEPT ![j.who] = b]
      BY <1>2 DEF Commit, Restricted
    <2>3. Recorded(j.who, b, audit')
      BY <1>2 DEF Commit, Audited, Recorded
    <2>4. /\ {"active", "forbids", "until"} \subseteq DOMAIN b
          /\ b.active \in BOOLEAN /\ b.forbids \subseteq Restrictable
      BY <1>1, <1>2 DEF Judged, JobOK
    <2> HIDE DEF b
    <2>5. AsDecided(bans', audit')
      BY <1>1, <2>1, <2>2, <2>3, <2>4 DEF AsDecided, Recorded
    <2>6. QED
      BY <1>1, <2>5, AuditGrows
  <1>3. CASE j.kind = "unrestrict"
    <2> DEFINE B == j.data.seen
               b == [B[j.who] EXCEPT !.active = FALSE]
    <2>1. AsDecided(B, audit)
      BY <1>1, <1>3 DEF Judged, JobOK
    <2>2. bans' = [B EXCEPT ![j.who] = b]
      BY <1>3 DEF Commit, Lifted
    <2>3. j.who \in Players =>
            /\ b.active = FALSE /\ b.forbids \subseteq Restrictable
            /\ {"active", "forbids", "until"} \subseteq DOMAIN b
      BY <2>1 DEF AsDecided
    <2> HIDE DEF b
    <2>4. AsDecided(bans', audit')
      BY <1>1, <2>1, <2>2, <2>3 DEF AsDecided, Recorded
    <2>5. QED
      BY <1>1, <2>4, AuditGrows
  <1>4. CASE j.kind \notin {"restrict", "unrestrict"}
    <2>1. bans' = bans
      BY <1>4 DEF Commit
    <2>2. QED
      BY <1>1, <2>1, AuditGrows
  <1>5. QED
    BY <1>2, <1>3, <1>4

\* What administrators and users do, about users there are.
Ruling ==
    /\ Judged
    /\ now \in 0 .. EndOfTime
    /\ DOMAIN subject = People
    /\ \A p \in People : subject[p].state # None => subject[p].who \in Players
    /\ IsABag(posted)
    /\ \A x \in passed : x.who \in Players /\ x.what \in Restrictable

Kinds == {"restrict", "unrestrict", "adjust", "notify"}

\* A request that is made has read what is in force.
LEMMA SubmitRuled ==
    ASSUME Ruling, NEW p, NEW u \in Players, NEW kind \in Kinds, NEW by \in People \cup {None},
           NEW no, NEW at, NEW data,
           kind \in {"restrict", "unrestrict"} => data.seen = bans,
           kind = "restrict" => data.forbids \subseteq Restrictable,
           jobs' = jobs \cup {[kind |-> kind, by |-> by, who |-> u, no |-> no, at |-> at,
                               told |-> FALSE, data |-> data]},
           UNCHANGED <<now, bans, subject, posted, log, audit, inbox, passed>>
    PROVE  Ruling'
  <1> DEFINE j == [kind |-> kind, by |-> by, who |-> u, no |-> no, at |-> at, told |-> FALSE, data |-> data]
  <1>1. JobOK(j, audit)
    BY DEF JobOK, Ruling, Judged
  <1>2. jobs' = jobs \cup {j}
    OBVIOUS
  <1> HIDE DEF j
  <1>3. Judged'
    BY <1>1, <1>2, AuditGrows DEF Ruling
  <1>4. QED
    BY <1>3 DEF Ruling

\* Every step of the bot, a crash among them.
LEMMA StepRuled ==
    ASSUME Ruling, [Next]_botVars
    PROVE  Ruling'
  <1>1. ASSUME bans' = bans, audit' = audit, jobs' \subseteq jobs PROVE Judged'
    BY <1>1, AuditGrows DEF Ruling
  <1>2. ASSUME NEW p \in People, NEW kind \in Kinds, NEW data, Submit(p, kind, data),
               kind \in {"restrict", "unrestrict"} => data.seen = bans,
               kind = "restrict" => data.forbids \subseteq Restrictable
        PROVE  Ruling'
    <2>1. subject[p].who \in Players
      BY <1>2, UsersAssumption DEF Submit, Ruling, Kinds
    <2>2. /\ jobs' = jobs \cup {[kind |-> kind, by |-> p, who |-> subject[p].who, no |-> subject[p].no,
                                 at |-> left[Part(kind)], told |-> FALSE, data |-> data]}
          /\ UNCHANGED <<now, bans, subject, posted, log, audit, inbox, passed>>
      BY <1>2 DEF Submit
    <2>3. QED
      BY <1>2, <2>1, <2>2, SubmitRuled
  <1>3. ASSUME NEW p \in People, \/ UnrestrictSubmit(p) \/ AdjustSubmit(p) \/ NotifySubmit(p)
                                 \/ \E c \in Sentences : RestrictSubmit(p, c)
        PROVE  Ruling'
    BY <1>2, <1>3, UsersAssumption DEF UnrestrictSubmit, AdjustSubmit, NotifySubmit, RestrictSubmit, Kinds
  <1>4. ASSUME NEW p, NEW u \in Players, NEW kind \in Kinds, NEW extra, NEW data,
               MiniSubmit(p, u, kind, extra, data),
               kind \in {"restrict", "unrestrict"} => data.seen = bans,
               kind = "restrict" => data.forbids \subseteq Restrictable
        PROVE  Ruling'
    <2>1. /\ jobs' = jobs \cup {[kind |-> kind, by |-> None, who |-> u, no |-> left["members"],
                                 at |-> left["members"], told |-> FALSE, data |-> data]}
          /\ UNCHANGED <<now, bans, subject, posted, log, audit, inbox, passed>>
      BY <1>4 DEF MiniSubmit
    <2>2. QED
      BY <1>4, <2>1, SubmitRuled
  <1>5. ASSUME NEW p, NEW u \in Players, \/ MiniUnrestrict(p, u) \/ MiniAdjust(p, u) \/ MiniNotify(p, u)
                                         \/ \E c \in Sentences : MiniRestrict(p, u, c)
        PROVE  Ruling'
    BY <1>4, <1>5, UsersAssumption DEF MiniUnrestrict, MiniAdjust, MiniNotify, MiniRestrict, Kinds
  <1>6. ASSUME NEW j, NEW sent, Tell(j, sent) PROVE Ruling'
    <2> DEFINE d == [j EXCEPT !.told = TRUE]
    <2>1. /\ j \in jobs /\ j.kind \in {"adjust", "notify"} /\ UNCHANGED <<bans, audit>>
          /\ jobs' \subseteq jobs \cup {d}
      BY <1>6 DEF Tell
    <2>2. DOMAIN d = DOMAIN j /\ d.kind = j.kind /\ d.by = j.by /\ d.who = j.who
      BY <2>1 DEF Ruling, Judged, JobOK
    <2> HIDE DEF d
    <2>3. JobOK(d, audit)
      BY <2>1, <2>2 DEF Ruling, Judged, JobOK
    <2>4. Judged'
      BY <2>1, <2>3, AuditGrows DEF Ruling
    <2>5. QED
      BY <1>6, <2>4 DEF Ruling, Tell
  <1>7. ASSUME NEW j, NEW lost, Commit(j, lost) PROVE Ruling'
    <2>1. Judged'
      BY <1>7, CommitJudged DEF Ruling
    <2>2. subject' = subject \/ subject' = [subject EXCEPT ![j.by] = NoSubject]
      BY <1>7 DEF Commit
    <2>3. DOMAIN subject' = People /\ \A p \in People : subject'[p] = subject[p] \/ subject'[p] = NoSubject
      BY <2>2 DEF Ruling
    <2>4. \A p \in People : subject'[p].state # None => subject'[p].who \in Players
      BY <2>3 DEF Ruling, NoSubject
    <2>5. IsABag(posted')
      BY <1>7, CopiesAdd DEF Commit, Ruling
    <2>6. QED
      BY <1>7, <2>1, <2>3, <2>4, <2>5 DEF Ruling, Commit
  <1>8. ASSUME NEW p \in People, NEW u \in Players, ComposePick(p, u) \/ \E s : OpenFor(p, u, s)
        PROVE  Ruling'
    <2>1. Judged'
      BY <1>1, <1>8 DEF ComposePick, OpenFor
    <2>3. CASE ComposePick(p, u)
      BY <2>1, <2>3 DEF ComposePick, Ruling
    <2>4. ASSUME NEW s, OpenFor(p, u, s) PROVE Ruling'
      BY <2>1, <2>4 DEF OpenFor, Ruling
    <2>5. QED
      BY <1>8, <2>3, <2>4
  <1>9. ASSUME NEW x, JobFails(x) \/ Finish(x) \/ TimePasses PROVE Ruling'
    <2>1. Judged'
      BY <1>1, <1>9 DEF JobFails, Finish, TimePasses
    <2>2. QED
      BY <1>9, <2>1, UsersAssumption DEF Ruling, JobFails, Finish, TimePasses
  <1>10. ASSUME NEW u \in Players, NEW a \in Restrictable, NEW inBot, NEW unanswered,
                Begin(u, a, inBot, unanswered)
         PROVE  Ruling'
    <2>1. Judged'
      BY <1>1, <1>10 DEF Begin
    <2>2. QED
      BY <1>10, <2>1 DEF Ruling, Begin
  <1>11. CASE UsersNext
    <2>1. ASSUME NEW p \in People, Dismiss(p) PROVE Ruling'
      BY <1>1, <2>1 DEF Dismiss, Ruling, NoSubject
    <2>2. QED
      BY <1>3, <1>5, <1>6, <1>7, <1>8, <1>9, <1>10, <1>11, <2>1 DEF UsersNext
  <1>12. CASE UNCHANGED usersVars
    BY <1>1, <1>12 DEF usersVars, Ruling
  <1>13. ASSUME NEW torn \in BOOLEAN, Crash(torn) PROVE Ruling'
    BY <1>1, <1>13 DEF Crash, UsersCrash, Ruling
  <1>14. QED
    BY <1>11, <1>12, <1>13 DEF Next, otherVars, botVars

\* At first nobody is restricted.
LEMMA InitRuled ==
    ASSUME Init
    PROVE  Ruling
  <1>1. Judged
    BY DEF Init, UsersInit, Judged, AsDecided, NotBanned
  <1>2. posted = EmptyBag /\ IsABag(EmptyBag)
    BY DEF Init, UsersInit, IsABag, EmptyBag, SetToBag
  <1>3. QED
    BY <1>1, <1>2, UsersAssumption DEF Init, UsersInit, Ruling, NoSubject

\* A restriction in force was decided by an administrator for this user, these actions
\* and this time, whichever of them wrote the row last and whatever it had read
\* (admin_user_restrict, admin_user_unrestrict, restriction_state_from_record).
THEOREM NobodyHeldBackUnjudged == Spec => []RestrictedAsDecided
  <1>1. Init => Ruling
    BY InitRuled
  <1>2. Ruling => RestrictedAsDecided
    BY DEF Ruling, Judged, AsDecided, Recorded, RestrictedAsDecided, InForce
  <1>3. QED
    BY <1>1, <1>2, StepRuled, PTL DEF Spec

-----------------------------------------------------------------------------
(* The types of the state *)

\* Updates run out and faults are bounded, whatever the bot does.
LEMMA StepUpdates ==
    ASSUME UpdatesOK, [Next]_botVars
    PROVE  UpdatesOK'
  <1>1. ASSUME Driven PROVE UpdatesOK'
    BY <1>1, UpdatesAssumption DEF Driven, Update, UpdateCall, Continue, Fault, UpdatesOK
  <1>2. ASSUME NEW torn \in BOOLEAN, Crash(torn) PROVE Driven
    BY <1>2 DEF Crash, Driven
  <1>3. CASE UNCHANGED botVars
    BY <1>3 DEF botVars, UpdatesOK
  <1>4. QED
    BY <1>1, <1>2, <1>3, AllDriven DEF Next

RolesOf == [People -> SUBSET AllRoles]

\* A list of roles from the backend is read into roles the bot knows.
LEMMA SyncedOK ==
    ASSUME NEW list \in RolesOf
    PROVE  /\ Synced(list) \in [dynamic : SUBSET (People \ (Static \cup Supers)), blocked : SUBSET Static,
                                roles : RolesOf]
           /\ \A p \in People : Synced(list).roles[p] = Normal(Synced(list).roles[p])
  <1> DEFINE R(p) == RolesFrom(list, p)
  <1>1. ASSUME NEW p \in People PROVE R(p) \in SUBSET AllRoles /\ R(p) = Normal(R(p))
    BY DEF RolesFrom, Normal, AllRoles, RolesOf
  <1>2. [p \in People |-> R(p)] \in RolesOf
    BY <1>1 DEF RolesOf
  <1>3. Synced(list).roles = [p \in People |-> R(p)]
    BY DEF Synced
  <1> HIDE DEF R
  <1>4. \A p \in People : Synced(list).roles[p] = Normal(Synced(list).roles[p])
    BY <1>1, <1>3
  <1>5. /\ {p \in People : list[p] # {}} \ (Static \cup Supers) \in SUBSET (People \ (Static \cup Supers))
        /\ Static \ {p \in People : list[p] # {}} \in SUBSET Static
    OBVIOUS
  <1>6. QED
    BY <1>2, <1>4, <1>5 DEF Synced, R

\* A role that is given to somebody is one that can be given.
LEMMA GrantedOK ==
    ASSUME AclOK, NEW p, NEW r \in Grantable, NEW lost, Granted(p, r, lost)
    PROVE  AclOK'
  BY AclAssumption DEF Granted, AclOK

\* The list of administrators (admin_acl.py, super_admin.py, main.py).
LEMMA StepAcl ==
    ASSUME AclOK, AclNext
    PROVE  AclOK'
  <1>1. ASSUME NEW c \in Readers, AskRoles(c) \/ SyncFails(c) PROVE AclOK'
    BY <1>1 DEF AskRoles, SyncFails, AclOK
  <1>2. ASSUME NEW c \in Readers, Sync(c) PROVE AclOK'
    <2>1. reply[c] \in RolesOf /\ acl' \in {acl, Synced(reply[c])}
      BY <1>2 DEF Sync, AclOK, RolesOf
    <2>2. reply' \in [Readers -> [People -> SUBSET AllRoles] \cup {None}] /\ roles' = roles
      BY <1>2 DEF Sync, AclOK
    <2>3. QED
      BY <2>1, <2>2, SyncedOK DEF AclOK, RolesOf
  <1>3. ASSUME NEW p \in People, NEW lost, Revoke(p, lost) PROVE AclOK'
    BY <1>3 DEF Revoke, AclOK
  <1>4. ASSUME NEW p \in People, NEW r \in Grantable, \/ MiniGrant(p, r)
                                                      \/ \E lost \in BOOLEAN : Grant(p, r, lost)
        PROVE  AclOK'
    <2>1. CASE MiniGrant(p, r)
      BY <2>1, AclAssumption DEF MiniGrant, AclOK
    <2>2. ASSUME NEW lost \in BOOLEAN, Grant(p, r, lost) PROVE AclOK'
      BY <2>2, GrantedOK DEF Grant
    <2>3. QED
      BY <1>4, <2>1, <2>2
  <1>5. ASSUME NEW p \in People, NEW R, MiniRevoke(p, R) PROVE AclOK'
    BY <1>5 DEF MiniRevoke, AclOK
  <1>6. ASSUME NEW p \in People, NEW r \in Grantable, NoteGrant(p, r) PROVE AclOK'
    <2> DEFINE new == Normal(acl.roles[p] \cup {r})
    <2>1. new \in SUBSET AllRoles /\ new = Normal(new)
      BY AclAssumption DEF Normal, AclOK, AllRoles
    <2>2. /\ acl'.roles = [acl.roles EXCEPT ![p] = new]
          /\ acl' = [dynamic |-> acl.dynamic \cup ({p} \ (Static \cup Supers)),
                     blocked |-> acl.blocked \ {p}, roles |-> acl'.roles]
          /\ UNCHANGED <<roles, reply>>
      BY <1>6 DEF NoteGrant
    <2> HIDE DEF new
    <2>3. /\ acl'.roles \in [People -> SUBSET AllRoles]
          /\ \A q \in People : acl'.roles[q] = Normal(acl'.roles[q])
      BY <2>1, <2>2 DEF AclOK
    <2>4. QED
      BY <2>2, <2>3 DEF AclOK
  <1>7. ASSUME NEW p \in People, NoteRevoke(p) PROVE AclOK'
    <2>1. CASE p \in Supers
      BY <1>7, <2>1 DEF NoteRevoke, AclOK
    <2>2. CASE p \notin Supers
      <3>1. /\ acl'.roles = [acl.roles EXCEPT ![p] = {}]
            /\ acl' = [dynamic |-> acl.dynamic \ {p},
                       blocked |-> IF p \in Static THEN acl.blocked \cup {p} ELSE acl.blocked \ {p},
                       roles |-> acl'.roles]
            /\ UNCHANGED <<roles, reply>>
        BY <1>7, <2>2 DEF NoteRevoke
      <3>2. /\ acl'.roles \in [People -> SUBSET AllRoles]
            /\ \A q \in People : acl'.roles[q] = Normal(acl'.roles[q])
        BY <3>1 DEF AclOK, Normal
      <3>3. QED
        BY <3>1, <3>2 DEF AclOK
    <2>3. QED
      BY <2>1, <2>2
  <1>8. QED
    BY <1>1, <1>2, <1>3, <1>4, <1>5, <1>6, <1>7 DEF AclNext

\* A crash leaves the file, or an empty one.
LEMMA CrashAcl ==
    ASSUME AclOK, NEW torn, AclCrash(torn)
    PROVE  AclOK'
  BY DEF AclCrash, AclOK, Empty, Normal

\* At first the file is what the first roles say.
LEMMA InitAcl ==
    ASSUME AclInit
    PROVE  AclOK
  <1>1. FirstRoles \in RolesOf
    BY AclAssumption DEF RolesOf
  <1>2. acl.roles = Synced(FirstRoles).roles
    BY DEF AclInit, Synced
  <1>3. /\ acl.roles \in [People -> SUBSET AllRoles]
        /\ \A p \in People : acl.roles[p] = Normal(acl.roles[p])
    BY <1>1, <1>2, SyncedOK DEF RolesOf
  <1>4. acl \in [dynamic : SUBSET (People \ (Static \cup Supers)), blocked : SUBSET Static,
                 roles : [People -> SUBSET AllRoles]]
    BY <1>3 DEF AclInit
  <1>5. QED
    BY <1>3, <1>4, AclAssumption DEF AclInit, AclOK

\* The destinations of the environment are numbered, too.
Naming == SettingsOK /\ Cardinality(EnvPool) \in Nat /\ Cardinality(EnvPool) <= named

\* The destinations of the environment have different numbers, the first ones.
LEMMA EnvNumbered ==
    /\ Cardinality(EnvPool) \in Nat
    /\ \A d \in EnvPool : d.id <= Cardinality(EnvPool) /\ Find(EnvPool, d.id) = {d}
  <1> DEFINE n == Cardinality(EnvPool)
             f == [d \in EnvPool |-> d.id]
  <1>1. IsFiniteSet(EnvPool) /\ n \in Nat /\ {d.id : d \in EnvPool} = 1 .. n
    BY SettingsAssumption, FS_CardinalityType
  <1>2. f \in Surjection(EnvPool, 1 .. n)
    BY <1>1 DEF Surjection
  <1>3. Cardinality(1 .. n) = n
    BY <1>1, FS_Interval
  <1>4. f \in Injection(EnvPool, 1 .. n)
    <2> HIDE DEF f
    <2>1. QED
      BY <1>1, <1>2, <1>3, FS_SurjSameCardinalityImpliesInj
  <1>5. \A d, e \in EnvPool : d.id = e.id => d = e
    BY <1>4 DEF Injection, IsInjective
  <1>6. QED
    BY <1>1, <1>5 DEF Find

\* Saved or of the environment, no two destinations have one number.
LEMMA PoolNumbered == ASSUME Naming PROVE Numbered(Pool)
  <1>1. CASE saved = {}
    <2>1. Pool = EnvPool
      BY <1>1 DEF Pool
    <2>2. \A d \in EnvPool : d.id \in Nat
      BY SettingsAssumption DEF Destinations
    <2>3. QED
      BY <2>1, <2>2, EnvNumbered, SettingsAssumption DEF Numbered, Naming, SettingsOK
  <1>2. CASE saved # {}
    BY <1>2 DEF Pool, Naming, SettingsOK
  <1>3. QED
    BY <1>1, <1>2

\* Names that are given later do not change what is known of the lists.
LEMMA NamedLater ==
    ASSUME named \in Nat, named' \in Nat, named <= named'
    PROVE  /\ \A pool : Numbered(pool) => Numbered(pool)'
           /\ \A w : WriteOK(w) => WriteOK(w)'
  <1>1. ASSUME NEW pool, Numbered(pool) PROVE Numbered(pool)'
    BY <1>1 DEF Numbered, Destinations
  <1>2. ASSUME NEW w, WriteOK(w) PROVE WriteOK(w)'
    <2>1. Numbered(w.seen)'
      BY <1>1, <1>2 DEF WriteOK
    <2>2. QED
      BY <1>2, <2>1 DEF WriteOK
  <1>3. QED
    BY <1>1, <1>2

\* What a request writes.
LEMMA ChangedNumbered ==
    ASSUME NEW w, WriteOK(w), w.kind \in {"add", "edit", "delete"}
    PROVE  Numbered(Changed(w, w.seen))
  <1> DEFINE new == [id |-> w.id, card |-> w.card, active |-> w.active]
             S == w.seen
  <1>1. /\ S \subseteq Destinations
        /\ \A d \in S : d.id <= named /\ \A e \in S : e.id = d.id => e = d
    BY DEF WriteOK, Numbered, Find
  <1>2. w.kind \in {"add", "edit"} => new \in Destinations /\ new.id = w.id
    BY DEF WriteOK, Destinations
  <1> HIDE DEF new
  <1>3. CASE w.kind = "add"
    <2>1. Changed(w, S) = S \cup {new}
      BY <1>3 DEF Changed, new
    <2>2. new.id <= named /\ \A d \in S : d.id # new.id
      BY <1>2, <1>3 DEF WriteOK, Find
    <2>3. QED
      BY <1>1, <1>2, <1>3, <2>1, <2>2 DEF Numbered, Find
  <1>4. CASE w.kind = "edit"
    <2>1. Changed(w, S) = {IF d.id = w.id THEN new ELSE d : d \in S}
      BY <1>4 DEF Changed, new
    <2>2. ASSUME NEW d \in Changed(w, S)
          PROVE  \E e \in S : d.id = e.id /\ d = IF e.id = w.id THEN new ELSE e
      BY <1>2, <1>4, <2>1
    <2>3. \A d, e \in Changed(w, S) : d.id = e.id => d = e
      BY <1>1, <2>2
    <2>4. Changed(w, S) \subseteq Destinations /\ \A d \in Changed(w, S) : d.id <= named
      BY <1>1, <1>2, <1>4, <2>2
    <2>5. QED
      BY <2>3, <2>4 DEF Numbered, Find
  <1>5. CASE w.kind = "delete"
    <2>1. Changed(w, S) \subseteq S
      BY <1>5 DEF Changed
    <2>2. QED
      BY <1>1, <2>1 DEF Numbered, Find
  <1>6. QED
    BY <1>3, <1>4, <1>5

TalkOf == [state : {None, "card", "id", "role", "name"}, edits : Nat \cup {None},
           who : People \cup {None}, role : Grantable \cup {None}]

\* The next step of the owner's conversation.
LEMMA SayOK ==
    ASSUME Naming, NEW new, Say(new), new \in TalkOf,
           new.state = "name" => new.who # None /\ new.role # None
    PROVE  Naming'
  BY NamedLater DEF Say, Naming, SettingsOK, TalkOf

\* A request that has read the list of destinations or a switch.
LEMMA WritesOK ==
    ASSUME Naming, named' \in Nat, named <= named',
           UNCHANGED <<saved, switch, offered>>, talk' = talk \/ talk' = Silent,
           \A w \in writes' : w \in writes \/ WriteOK(w)'
    PROVE  Naming'
  <1>1. Numbered(saved)' /\ \A w \in writes' : WriteOK(w)'
    BY NamedLater DEF Naming, SettingsOK, Numbered
  <1>2. Silent \in TalkOf /\ Silent.state # "name"
    BY SettingsAssumption DEF Silent, TalkOf
  <1>3. QED
    BY <1>1, <1>2 DEF Naming, SettingsOK, TalkOf

\* The owner's conversation, and the one that was dropped.
LEMMA TalkIsOK ==
    ASSUME Naming
    PROVE  /\ talk \in TalkOf /\ Silent \in TalkOf /\ Silent.state = None
           /\ talk.state = "name" => talk.who # None /\ talk.role # None
           /\ None # "name" /\ None \notin Nat
  BY SettingsAssumption, UpdatesAssumption DEF Naming, SettingsOK, TalkOf, Silent

\* The owner's buttons and texts (super_admin.py).
LEMMA TalkingOK ==
    ASSUME Naming
    PROVE  /\ Quit \/ AddCard \/ AddAdmin => Naming'
           /\ \A p \in People : GiveId(p) => Naming'
           /\ \A r \in Grantable : PickRole(r) => Naming'
           /\ \A id \in 1 .. named : EditCard(id) => Naming'
  <1> USE TalkIsOK
  <1>1. CASE Quit
    BY <1>1, SayOK DEF Quit
  <1>2. CASE AddCard
    <2>1. [talk EXCEPT !.state = "card", !.edits = None] \in TalkOf
      BY DEF TalkOf
    <2>2. [talk EXCEPT !.state = "card", !.edits = None].state = "card"
      BY DEF TalkOf
    <2>3. QED
      BY <1>2, <2>1, <2>2, SayOK DEF AddCard
  <1>3. CASE AddAdmin
    <2>1. [talk EXCEPT !.state = "id"] \in TalkOf /\ [talk EXCEPT !.state = "id"].state = "id"
      BY DEF TalkOf
    <2>2. QED
      BY <1>3, <2>1, SayOK DEF AddAdmin
  <1>4. ASSUME NEW p \in People, GiveId(p) PROVE Naming'
    <2> DEFINE d == [talk EXCEPT !.state = "role", !.who = p]
    <2>1. d \in TalkOf /\ d.state = "role"
      BY DEF TalkOf
    <2>2. QED
      BY <1>4, <2>1, SayOK DEF GiveId
  <1>5. ASSUME NEW r \in Grantable, PickRole(r) PROVE Naming'
    <2> DEFINE d == [talk EXCEPT !.state = "name", !.role = r]
    <2>1. d \in TalkOf /\ d.who = talk.who /\ d.role = r
      BY DEF TalkOf
    <2>2. r # None
      BY AclAssumption
    <2>3. QED
      BY <1>5, <2>1, <2>2, SayOK DEF PickRole
  <1>6. ASSUME NEW id \in 1 .. named, EditCard(id) PROVE Naming'
    <2> DEFINE d == [talk EXCEPT !.state = "card", !.edits = id]
    <2>1. id \in Nat
      BY DEF Naming, SettingsOK
    <2>2. d \in TalkOf /\ d.state = "card"
      BY <2>1 DEF TalkOf
    <2>3. QED
      BY <1>6, <2>2, SayOK DEF EditCard
  <1>7. QED
    BY <1>1, <1>2, <1>3, <1>4, <1>5, <1>6

\* Requests that change a destination or a switch, when they have read.
LEMMA ReadsOK ==
    ASSUME Naming
    PROVE  /\ \A id \in 1 .. named, c \in Cards : CardPut(id, c, FALSE) => Naming'
           /\ \A c \in Cards : CardSubmit(c) => Naming'
           /\ \A id \in 1 .. named : CardDelete(id) => Naming'
           /\ \A t \in Switches : Toggle(t) => Naming'
  <1>0. named \in Nat /\ Numbered(Pool)
    BY PoolNumbered DEF Naming, SettingsOK
  <1>1. ASSUME NEW id \in 1 .. named, NEW c \in Cards, CardPut(id, c, FALSE) PROVE Naming'
    <2> DEFINE w == Request("edit", id, c, FALSE)
    <2>1. named' = named /\ \A x \in writes' : x \in writes \/ x = w
      BY <1>1 DEF CardPut, Reads
    <2>2. WriteOK(w)
      BY <1>0 DEF WriteOK, Request
    <2> HIDE DEF w
    <2>3. \A x \in writes' : x \in writes \/ WriteOK(x)'
      BY <1>0, <2>1, <2>2, NamedLater
    <2>4. QED
      BY <1>0, <1>1, <2>1, <2>3, WritesOK DEF CardPut
  <1>2. ASSUME NEW c \in Cards, CardSubmit(c), talk.edits = None PROVE Naming'
    <2> DEFINE w == Request("add", named + 1, c, TRUE)
    <2>1. named' = named + 1 /\ \A x \in writes' : x \in writes \/ x = w
      BY <1>2 DEF CardSubmit, Reads
    <2>2. /\ w.kind = "add" /\ w.active = TRUE /\ w.id = named + 1 /\ w.card = c /\ w.seen = Pool
      BY DEF Request
    <2>3. Numbered(Pool) => \A d \in Pool : d.id # named + 1
      BY <1>0 DEF Numbered, Destinations
    <2>4. PICK W : W = w
      OBVIOUS
    <2>5. WriteOK(W)'
      <3>1. PICK S : S = Pool
        OBVIOUS
      <3>2. Numbered(S)'
        BY <1>0, <2>1, <3>1, NamedLater
      <3>3. W.seen = S /\ Find(S, named + 1) = {}
        BY <1>0, <2>2, <2>3, <2>4, <3>1 DEF Find
      <3>4. /\ W.kind = "add" /\ W.active \in BOOLEAN /\ W.card \in Cards
            /\ W.id \in Nat /\ W.id <= named' /\ Find(W.seen, W.id) = {}
        <4>1. W.kind = "add" /\ W.active = TRUE /\ W.card = c /\ W.id = named + 1
          BY <2>2, <2>4
        <4>2. W.id \in Nat /\ W.id <= named'
          BY <1>0, <2>1, <4>1
        <4>3. Find(W.seen, W.id) = {}
          BY <3>3, <4>1, Zenon
        <4>4. QED
          BY <4>1, <4>2, <4>3
      <3>5. QED
        BY <3>2, <3>3, <3>4 DEF WriteOK
    <2> HIDE DEF w
    <2>6. \A x \in writes' : x \in writes \/ WriteOK(x)'
      BY <2>1, <2>4, <2>5
    <2>7. QED
      BY <1>0, <1>2, <2>1, <2>6, WritesOK DEF CardSubmit
  <1>3. ASSUME NEW c \in Cards, CardSubmit(c), talk.edits # None PROVE Naming'
    <2> DEFINE w == Request("edit", talk.edits, c, TRUE)
    <2>1. named' = named /\ \A x \in writes' : x \in writes \/ x = w
      BY <1>3 DEF CardSubmit, Reads
    <2>2. WriteOK(w)
      BY <1>0, <1>3, TalkIsOK DEF WriteOK, Request, TalkOf
    <2> HIDE DEF w
    <2>3. \A x \in writes' : x \in writes \/ WriteOK(x)'
      BY <1>0, <2>1, <2>2, NamedLater
    <2>4. QED
      BY <1>0, <1>3, <2>1, <2>3, WritesOK DEF CardSubmit
  <1>4. ASSUME NEW id \in 1 .. named, CardDelete(id) PROVE Naming'
    <2> DEFINE w == Request("delete", id, None, FALSE)
    <2>1. named' = named /\ \A x \in writes' : x \in writes \/ x = w
      BY <1>4 DEF CardDelete, Reads
    <2>2. WriteOK(w)
      BY <1>0 DEF WriteOK, Request
    <2> HIDE DEF w
    <2>3. \A x \in writes' : x \in writes \/ WriteOK(x)'
      BY <1>0, <2>1, <2>2, NamedLater
    <2>4. QED
      BY <1>0, <1>4, <2>1, <2>3, WritesOK DEF CardDelete
  <1>5. ASSUME NEW t \in Switches, Toggle(t) PROVE Naming'
    <2> DEFINE w == [kind |-> t, id |-> 0, card |-> None, active |-> ~ switch[t], seen |-> {}]
    <2>1. named' = named /\ \A x \in writes' : x \in writes \/ x = w
      BY <1>5 DEF Toggle
    <2>2. WriteOK(w)
      <3>1. (~ switch[t]) \in BOOLEAN
        OBVIOUS
      <3>2. Numbered({})
        BY DEF Numbered
      <3>3. QED
        BY <3>1, <3>2 DEF WriteOK, Switches
    <2> HIDE DEF w
    <2>3. \A x \in writes' : x \in writes \/ WriteOK(x)'
      BY <1>0, <2>1, <2>2, NamedLater
    <2>4. QED
      BY <1>0, <1>5, <2>1, <2>3, WritesOK DEF Toggle
  <1>6. QED
    BY <1>1, <1>2, <1>3, <1>4, <1>5

\* Every step of the settings.
LEMMA StepSettings ==
    ASSUME Naming, SettingsNext
    PROVE  Naming'
  <1>1. ASSUME NEW lost \in BOOLEAN, GiveName(lost) PROVE Naming'
    <2>1. UNCHANGED <<named, writes, saved, switch, offered>> /\ talk' \in {talk, Silent}
      BY <1>1 DEF GiveName
    <2>2. QED
      BY <2>1, WritesOK DEF Naming, SettingsOK
  <1>2. ASSUME NEW w \in writes, NEW lost \in BOOLEAN, WriteCards(w, lost) PROVE Naming'
    <2>1. /\ UNCHANGED <<named, switch, offered>> /\ talk' \in {talk, Silent}
          /\ writes' \subseteq writes /\ saved' = Changed(w, w.seen)
          /\ w.kind \in {"add", "edit", "delete"}
      BY <1>2 DEF WriteCards, Written
    <2>2. Numbered(Changed(w, w.seen))
      BY <2>1, ChangedNumbered DEF Naming, SettingsOK
    <2>3. Numbered(saved)'
      BY <2>1, <2>2 DEF Numbered
    <2>4. \A x \in writes' : WriteOK(x)'
      BY <2>1, NamedLater DEF Naming, SettingsOK
    <2>5. talk' \in TalkOf /\ (talk'.state = "name" => talk'.who # None /\ talk'.role # None)
      BY <2>1, TalkIsOK
    <2>6. QED
      BY <2>1, <2>3, <2>4, <2>5 DEF Naming, SettingsOK, TalkOf
  <1>3. ASSUME NEW w \in writes, SetSwitch(w) \/ CallFails(w) PROVE Naming'
    <2>1. UNCHANGED <<named, saved, offered, talk>> /\ writes' \subseteq writes
      BY <1>3 DEF SetSwitch, CallFails
    <2>2. w.active \in BOOLEAN
      BY DEF Naming, SettingsOK, WriteOK
    <2>3. switch' \in [Switches -> BOOLEAN]
      BY <1>3, <2>2 DEF SetSwitch, CallFails, Naming, SettingsOK
    <2>4. Numbered(saved)' /\ \A x \in writes' : WriteOK(x)'
      BY <2>1, NamedLater DEF Naming, SettingsOK, Numbered
    <2>5. QED
      BY <2>1, <2>3, <2>4 DEF Naming, SettingsOK
  <1>4. ASSUME NEW t \in Switches, NEW on \in BOOLEAN, MiniSwitch(t, on) PROVE Naming'
    <2>1. UNCHANGED <<named, saved, offered, talk, writes>>
      BY <1>4 DEF MiniSwitch
    <2>2. switch' \in [Switches -> BOOLEAN]
      BY <1>4 DEF MiniSwitch, Naming, SettingsOK
    <2>3. Numbered(saved)' /\ \A x \in writes' : WriteOK(x)'
      BY <2>1, NamedLater DEF Naming, SettingsOK, Numbered
    <2>4. QED
      BY <2>1, <2>2, <2>3 DEF Naming, SettingsOK
  <1>5. CASE SeePage
    <2>1. UNCHANGED <<named, saved, switch, talk, writes>> /\ offered' \subseteq Pool
      BY <1>5 DEF SeePage, ActiveOf
    <2>2. offered' \subseteq Destinations
      BY <2>1, PoolNumbered DEF Numbered
    <2>3. Numbered(saved)' /\ \A x \in writes' : WriteOK(x)'
      BY <2>1, NamedLater DEF Naming, SettingsOK, Numbered
    <2>4. QED
      BY <2>1, <2>2, <2>3 DEF Naming, SettingsOK
  <1>6. ASSUME MiniDepositUnchosen \/ \E o : BotDeposit(o) \/ MiniDeposit(o) PROVE Naming'
    <2>1. UNCHANGED <<named, saved, switch, talk, writes, offered>>
      BY <1>6 DEF MiniDepositUnchosen, BotDeposit, MiniDeposit
    <2>2. QED
      BY <2>1, WritesOK DEF Naming, SettingsOK
  <1>7. QED
    BY <1>1, <1>2, <1>3, <1>4, <1>5, <1>6, TalkingOK, ReadsOK DEF SettingsNext

-----------------------------------------------------------------------------
(* The games of the administrators, and what they do to them *)

\* The newest game of a topic that is not over, if there is one.
LEMMA LatestExists ==
    ASSUME NEW S, NEW n \in Nat, S \subseteq 1 .. n, S # {}
    PROVE  \E g \in S : \A h \in S : h <= g
  <1> DEFINE T == {n - h : h \in S}
  <1>1. T \subseteq Nat /\ T # {}
    <2>1. PICK h \in S : TRUE
      OBVIOUS
    <2>2. n - h \in T
      BY <2>1
    <2>3. ASSUME NEW i \in S PROVE n - i \in Nat
      <3>1. i \in 1 .. n
        OBVIOUS
      <3>2. QED
        BY <3>1
    <2>4. QED
      BY <2>2, <2>3
  <1>2. PICK x \in T : \A y \in T : ~ (<<y, x>> \in OpToRel(<, Nat))
    <2> HIDE DEF T
    <2>1. QED
      BY <1>1, NatLessThanWellFounded, WFMin
  <1>3. \A y \in T : ~ (y < x)
    <2> HIDE DEF T
    <2>1. QED
      BY <1>1, <1>2 DEF OpToRel
  <1>4. PICK g \in S : x = n - g
    BY <1>2
  <1>5. ASSUME NEW h \in S PROVE h <= g
    <2>1. ~ (n - h < n - g)
      BY <1>3, <1>4
    <2>2. QED
      BY <2>1
  <1>6. QED
    BY <1>4, <1>5

GamesTyped == games \in Seq(Row) /\ \A g \in GameIds : Coherent(games[g])
GamesStep  == GamesTyped' /\ GameIds \subseteq GameIds'

\* What _get_active_game finds is a game.
LEMMA LatestIsGame ==
    ASSUME GamesTyped, NEW t
    PROVE  Active(t) \in GameIds \cup {None}
  <1> DEFINE open == {g \in GameIds : games[g].topic = t /\ games[g].status # "ENDED"}
  <1>1. GameIds = 1 .. Len(games) /\ Len(games) \in Nat /\ open \subseteq GameIds
    BY DEF GamesTyped, GameIds
  <1>2. Active(t) = IF open = {} THEN None ELSE CHOOSE g \in open : \A h \in open : h <= g
    BY DEF Active
  <1> HIDE DEF open
  <1>3. open # {} => \E g \in open : \A h \in open : h <= g
    BY <1>1, LatestExists
  <1>4. QED
    BY <1>1, <1>2, <1>3

\* A row that is replaced by a coherent one.
LEMMA RowTyped ==
    ASSUME GamesTyped, NEW g \in GameIds, NEW r \in Row, Coherent(r), games' = [games EXCEPT ![g] = r]
    PROVE  GamesStep
  <1>1. games \in [1 .. Len(games) -> Row] /\ Len(games) \in Nat /\ GameIds = 1 .. Len(games)
    BY DEF GamesTyped, GameIds
  <1>2. games' \in [1 .. Len(games) -> Row]
    BY <1>1
  <1>3. games' \in Seq(Row) /\ GameIds' = GameIds
    BY <1>1, <1>2, SeqDef DEF GameIds
  <1>4. \A h \in GameIds : games'[h] = IF h = g THEN r ELSE games[h]
    BY <1>1
  <1>5. QED
    BY <1>3, <1>4 DEF GamesTyped, GamesStep

\* Steps that leave the games alone.
LEMMA GamesSameTyped == ASSUME GamesTyped, games' = games PROVE GamesStep
  BY DEF GamesTyped, GamesStep, GameIds

\* A new game is numbered next.
LEMMA GameAddedTyped ==
    ASSUME GamesTyped, NEW t \in Topics, games' = Append(games, NewGame(t))
    PROVE  GamesStep /\ Len(games) + 1 \in GameIds'
  <1> DEFINE new == NewGame(t)
  <1>1. new \in Row /\ Coherent(new)
    BY DEF NewGame, Row, Coherent
  <1> HIDE DEF new
  <1>2. /\ games' \in Seq(Row)
        /\ GameIds' = GameIds \cup {Len(games) + 1}
        /\ games'[Len(games) + 1] = new
        /\ \A g \in GameIds : games'[g] = games[g]
    BY <1>1 DEF GamesTyped, GameIds, new
  <1>3. QED
    BY <1>1, <1>2 DEF GamesTyped, GamesStep

\* What administrators and buyers do to a game, and when they can.
LEMMA ChangesTyped ==
    ASSUME GamesTyped, NEW g \in GameIds
    PROVE  /\ \A u \in Buyers : games[g].status = "LOBBY" /\ games' = [games EXCEPT ![g].buyers = @ \cup {u}]
                                => GamesStep
           /\ \A m \in {"MANUAL", "AUTO"} : games[g].status = "LOBBY" /\ games' = [games EXCEPT ![g].mode = m]
                                            => GamesStep
           /\ \A l \in Links \cup {None} : games' = [games EXCEPT ![g].link = l] => GamesStep
           /\ Startable(g) /\ games' = Started(g) => GamesStep
           /\ \A n \in Numbers, ends \in BOOLEAN : Callable(g, n) /\ games' = Called(g, n, ends) => GamesStep
           /\ Drawn(g) /\ games' = TakenBack(g) => GamesStep
           /\ games' = ClosedLobby(g) => GamesStep
  <1> DEFINE x == games[g]
  <1>1. x \in Row /\ Coherent(x)
    BY DEF GamesTyped, GameIds
  <1>2. ASSUME NEW u \in Buyers, x.status = "LOBBY", games' = [games EXCEPT ![g].buyers = @ \cup {u}]
        PROVE  GamesStep
    <2> DEFINE r == [x EXCEPT !.buyers = @ \cup {u}]
    <2>1. games' = [games EXCEPT ![g] = r]
      BY <1>2
    <2>2. r \in Row /\ Coherent(r)
      BY <1>1, <1>2 DEF Row, Coherent
    <2>3. QED
      BY <2>1, <2>2, RowTyped
  <1>3. ASSUME NEW m \in {"MANUAL", "AUTO"}, x.status = "LOBBY", games' = [games EXCEPT ![g].mode = m]
        PROVE  GamesStep
    <2> DEFINE r == [x EXCEPT !.mode = m]
    <2>1. games' = [games EXCEPT ![g] = r]
      BY <1>3
    <2>2. r \in Row /\ Coherent(r)
      BY <1>1, <1>3 DEF Row, Coherent
    <2>3. QED
      BY <2>1, <2>2, RowTyped
  <1>4. ASSUME NEW l \in Links \cup {None}, games' = [games EXCEPT ![g].link = l] PROVE GamesStep
    <2> DEFINE r == [x EXCEPT !.link = l]
    <2>1. games' = [games EXCEPT ![g] = r]
      BY <1>4
    <2>2. r \in Row /\ Coherent(r)
      BY <1>1 DEF Row, Coherent
    <2>3. QED
      BY <2>1, <2>2, RowTyped
  <1>5. ASSUME Startable(g), games' = Started(g) PROVE GamesStep
    <2> DEFINE r == [x EXCEPT !.status = "RUNNING"]
    <2>1. games' = [games EXCEPT ![g] = r]
      BY <1>5 DEF Started
    <2>2. r \in Row /\ Coherent(r)
      BY <1>1, <1>5 DEF Row, Coherent, Startable
    <2>3. QED
      BY <2>1, <2>2, RowTyped
  <1>6. ASSUME NEW n \in Numbers, NEW ends \in BOOLEAN, Callable(g, n), games' = Called(g, n, ends)
        PROVE  GamesStep
    <2> DEFINE c == Append(x.calls, [number |-> n, ends |-> ends])
               s == IF ends THEN "ENDED" ELSE x.status
               r == [x EXCEPT !.calls = c, !.status = s]
    <2>1. games' = [games EXCEPT ![g] = r]
      BY <1>6 DEF Called
    <2>2. n \in Nat /\ x.calls \in Seq([number : Nat, ends : BOOLEAN])
      BY <1>1, HostAssumption DEF Row
    <2>3. c \in Seq([number : Nat, ends : BOOLEAN])
      BY <2>2
    <2>4. x.status = "RUNNING" /\ s \in {"ENDED", "RUNNING"}
      BY <1>6 DEF Callable
    <2> HIDE DEF c, s
    <2>5. r \in Row /\ Coherent(r)
      BY <1>1, <2>3, <2>4 DEF Row, Coherent
    <2>6. QED
      BY <2>1, <2>5, RowTyped
  <1>7. ASSUME Drawn(g), games' = TakenBack(g) PROVE GamesStep
    <2> DEFINE c == Front(x.calls)
               r == [x EXCEPT !.calls = c, !.status = "RUNNING"]
    <2>1. games' = [games EXCEPT ![g] = r]
      BY <1>7 DEF TakenBack
    <2>2. x.calls \in Seq([number : Nat, ends : BOOLEAN]) /\ x.calls # <<>>
      BY <1>1, <1>7 DEF Row, Drawn
    <2>3. c \in Seq([number : Nat, ends : BOOLEAN])
      <3>1. /\ Len(x.calls) \in Nat \ {0}
            /\ \A i \in 1 .. Len(x.calls) : x.calls[i] \in [number : Nat, ends : BOOLEAN]
        BY <2>2, EmptySeq, ElementOfSeq
      <3>2. QED
        BY <2>2, <3>1, SubSeqProperties DEF Front
    <2> HIDE DEF c
    <2>4. r \in Row /\ Coherent(r)
      BY <1>1, <1>7, <2>2, <2>3, HostAssumption DEF Row, Coherent, Drawn
    <2>5. QED
      BY <2>1, <2>4, RowTyped
  <1>8. ASSUME games' = ClosedLobby(g) PROVE GamesStep
    <2>1. CASE x.status = "LOBBY"
      <3> DEFINE r == [x EXCEPT !.status = "ENDED", !.refunded = x.buyers]
      <3>1. games' = [games EXCEPT ![g] = r]
        BY <1>8, <2>1 DEF ClosedLobby
      <3>2. r \in Row /\ Coherent(r)
        BY <1>1, <2>1 DEF Row, Coherent
      <3>3. QED
        BY <3>1, <3>2, RowTyped
    <2>2. CASE x.status # "LOBBY"
      BY <1>8, <2>2, GamesSameTyped DEF ClosedLobby
    <2>3. QED
      BY <2>1, <2>2
  <1>9. QED
    BY <1>2, <1>3, <1>4, <1>5, <1>6, <1>7, <1>8

\* What a conversation and an errand are about.
AboutOK(d) ==
    /\ d.state \in {"reason", "number", "url"} => d.about \in GameIds
    /\ d.state = "price" => d.about \in Topics
Waits(e) ==
    /\ {"kind", "by", "about", "todo", "data"} \subseteq DOMAIN e
    /\ e.by \in People
    /\ IF e.kind = "create" THEN e.about \in Topics ELSE e.about \in GameIds
    /\ e.kind = "send" => "failed" \in DOMAIN e.data /\ Short(e.data.failed)

Hosting ==
    /\ GamesTyped
    /\ DOMAIN host = People /\ \A p \in People : AboutOK(host[p])
    /\ \A e \in errands : Waits(e)
    /\ \A page \in confirms : page.game \in GameIds
    /\ \A x \in unsent : x.by \in People /\ x.game \in GameIds
    /\ \A p, g : Short(Missed(p, g))

\* Games that are added do not change what conversations and errands are about.
LEMMA MoreGames ==
    ASSUME GameIds \subseteq GameIds'
    PROVE  /\ \A d : AboutOK(d) => AboutOK(d)'
           /\ \A e : Waits(e) => Waits(e)'
  BY DEF AboutOK, Waits

\* A part of a short list is short.
LEMMA FewerAreShort ==
    ASSUME NEW U, Short(U), NEW V \in SUBSET U
    PROVE  Short(V)
  <1>1. IsFiniteSet(V) /\ Cardinality(V) <= Cardinality(U) /\ Cardinality(U) \in Nat /\ Cardinality(V) \in Nat
    BY FS_Subset, FS_CardinalityType DEF Short
  <1>2. QED
    BY <1>1, HostAssumption DEF Short

\* What a handler keeps when games change or are added.
LEMMA HostStays ==
    ASSUME Hosting, GamesStep,
           host' = host \/ \E p, d : AboutOK(d) /\ host' = [host EXCEPT ![p] = d],
           \A e \in errands' : e \in errands \/ Waits(e),
           \A page \in confirms' : page \in confirms \/ page.game \in GameIds,
           unsent' \subseteq unsent
    PROVE  Hosting'
  <1>1. GamesTyped' /\ GameIds \subseteq GameIds'
    BY DEF GamesStep
  <1>2. DOMAIN host' = People /\ \A p \in People : AboutOK(host'[p])
    BY DEF Hosting
  <1>3. \A p \in People : AboutOK(host[p])'
    BY <1>1, <1>2 DEF AboutOK
  <1>4. \A e \in errands' : Waits(e)'
    BY <1>1, MoreGames DEF Hosting
  <1>5. /\ \A page \in confirms' : page.game \in GameIds'
        /\ \A x \in unsent' : x.by \in People /\ x.game \in GameIds'
    BY <1>1 DEF Hosting
  <1>6. ASSUME NEW p, NEW g PROVE Short(Missed(p, g)')
    <2>1. Missed(p, g)' \in SUBSET Missed(p, g)
      BY DEF Missed
    <2>2. QED
      BY <2>1, FewerAreShort DEF Hosting
  <1>7. QED
    BY <1>1, <1>2, <1>3, <1>4, <1>5, <1>6 DEF Hosting

\* A handler that changes no game and drops no list.
LEMMA HostHandles ==
    ASSUME Hosting, UNCHANGED games, unsent' \subseteq unsent,
           host' = host \/ \E p, d : AboutOK(d) /\ host' = [host EXCEPT ![p] = d],
           \A e \in errands' : e \in errands \/ Waits(e),
           \A page \in confirms' : page \in confirms \/ page.game \in GameIds
    PROVE  Hosting'
  BY GamesSameTyped, HostStays DEF Hosting

\* A conversation that is put to another step.
LEMMA PutOK ==
    ASSUME NEW p, NEW state, NEW about, Put(p, state, about),
           \/ state = None
           \/ state = "price" /\ about \in Topics
           \/ state \in {"reason", "number", "url"} /\ about \in GameIds
    PROVE  \E q, d : AboutOK(d) /\ host' = [host EXCEPT ![q] = d]
  <1> DEFINE d == [state |-> state, about |-> about]
  <1>1. host' = [host EXCEPT ![p] = d]
    BY DEF Put
  <1>2. AboutOK(d)
    BY HostAssumption DEF AboutOK
  <1> HIDE DEF d
  <1>3. QED
    BY <1>1, <1>2

\* A conversation that is dropped.
LEMMA IdleOK ==
    ASSUME NEW p, host' = [host EXCEPT ![p] = Idle]
    PROVE  \E q, d : AboutOK(d) /\ host' = [host EXCEPT ![q] = d]
  <1>1. AboutOK(Idle)
    BY HostAssumption DEF AboutOK, Idle
  <1>2. QED
    BY <1>1

\* A new errand knows what it is about.
LEMMA ErrandWaits ==
    ASSUME NEW p \in People, NEW part, NEW kind, NEW about, NEW todo, NEW data,
           Errand(p, part, kind, about, todo, data),
           IF kind = "create" THEN about \in Topics ELSE about \in GameIds,
           kind = "send" => "failed" \in DOMAIN data /\ Short(data.failed)
    PROVE  \A e \in errands' : e \in errands \/ Waits(e)
  BY DEF Errand, Waits

\* Nobody is a short list, since one failure is remembered at least.
LEMMA ShortEmpty == Short({})
  BY HostAssumption, FS_EmptySet DEF Short

\* Conversations that only talk.
LEMMA TalksHost ==
    ASSUME Hosting, NEW p \in People
    PROVE  /\ \A t \in Topics : EnsureTopic(p, t) => Hosting'
           /\ CloseCancel(p) => Hosting'
           /\ \A part : Leave(p, part) => Hosting'
           /\ \A g \in GameIds : CloseStart(p, g) \/ CallStart(p, g) \/ LiveSet(p, g) \/ ListExpires(p, g)
                                 => Hosting'
           /\ \A g \in GameIds : \A t : UndoConfirm(p, g, t) => Hosting'
  <1>1. ASSUME NEW t \in Topics, EnsureTopic(p, t) PROVE Hosting'
    BY <1>1, PutOK, HostHandles DEF EnsureTopic, PriceStep
  <1>2. ASSUME CloseCancel(p) PROVE Hosting'
    BY <1>2, PutOK, HostHandles DEF CloseCancel
  <1>3. ASSUME NEW part, Leave(p, part) PROVE Hosting'
    BY <1>3, PutOK, HostHandles DEF Leave
  <1>4. ASSUME NEW g \in GameIds, CloseStart(p, g) PROVE Hosting'
    BY <1>4, PutOK, HostHandles DEF CloseStart
  <1>5. ASSUME NEW g \in GameIds, CallStart(p, g) PROVE Hosting'
    BY <1>5, PutOK, HostHandles DEF CallStart
  <1>6. ASSUME NEW g \in GameIds, LiveSet(p, g) PROVE Hosting'
    BY <1>6, PutOK, HostHandles DEF LiveSet
  <1>7. ASSUME NEW g \in GameIds, ListExpires(p, g) PROVE Hosting'
    BY <1>7, HostHandles DEF ListExpires
  <1>8. ASSUME NEW g \in GameIds, NEW t, UndoConfirm(p, g, t) PROVE Hosting'
    BY <1>8, HostHandles DEF UndoConfirm
  <1>9. QED
    BY <1>1, <1>2, <1>3, <1>4, <1>5, <1>6, <1>7, <1>8

\* Handlers that go on after a call or with messages.
LEMMA ErrandsHost ==
    ASSUME Hosting, NEW p \in People
    PROVE  /\ PriceSubmit(p) \/ CloseSubmit(p) => Hosting'
           /\ \A page \in confirms : UndoExecute(p, page) => Hosting'
           /\ \A g \in GameIds : LiveSend(p, g) \/ LiveResend(p, g) => Hosting'
  <1>1. ASSUME PriceSubmit(p) PROVE Hosting'
    <2>1. host[p].about \in Topics
      BY <1>1 DEF PriceSubmit, Hosting, AboutOK
    <2>2. \A e \in errands' : e \in errands \/ Waits(e)
      BY <1>1, <2>1, ErrandWaits DEF PriceSubmit
    <2>3. QED
      BY <1>1, <2>2, HostHandles DEF PriceSubmit
  <1>2. ASSUME CloseSubmit(p) PROVE Hosting'
    <2>1. host[p].about \in GameIds
      BY <1>2 DEF CloseSubmit, Hosting, AboutOK
    <2>2. \A e \in errands' : e \in errands \/ Waits(e)
      BY <1>2, <2>1, ErrandWaits DEF CloseSubmit
    <2>3. QED
      BY <1>2, <2>2, HostHandles DEF CloseSubmit
  <1>3. ASSUME NEW page \in confirms, UndoExecute(p, page) PROVE Hosting'
    <2>1. page.game \in GameIds
      BY DEF Hosting
    <2>2. \A e \in errands' : e \in errands \/ Waits(e)
      BY <1>3, <2>1, ErrandWaits DEF UndoExecute
    <2>3. QED
      BY <1>3, <2>2, HostHandles DEF UndoExecute
  <1>4. ASSUME NEW g \in GameIds, LiveSend(p, g) PROVE Hosting'
    <2> DEFINE data == [link |-> games[g].link, failed |-> {}]
    <2>1. Errand(p, "live", "send", g, games[g].buyers, data)
      BY <1>4 DEF LiveSend
    <2>2. "failed" \in DOMAIN data /\ Short(data.failed)
      BY ShortEmpty
    <2> HIDE DEF data
    <2>3. \A e \in errands' : e \in errands \/ Waits(e)
      BY <2>1, <2>2, ErrandWaits
    <2>4. QED
      BY <1>4, <2>3, HostHandles DEF LiveSend
  <1>5. ASSUME NEW g \in GameIds, LiveResend(p, g) PROVE Hosting'
    <2>1. PICK x : /\ Errand(p, "live", "send", g, {y.user : y \in Missed(p, g)},
                             [link |-> IF games[g].link # None THEN games[g].link ELSE x.link, failed |-> {}])
                   /\ UNCHANGED <<games, host, confirms, answers, unsent, notice>>
      BY <1>5 DEF LiveResend
    <2> DEFINE data == [link |-> IF games[g].link # None THEN games[g].link ELSE x.link, failed |-> {}]
    <2>2. "failed" \in DOMAIN data /\ Short(data.failed)
      BY ShortEmpty
    <2>3. Errand(p, "live", "send", g, {y.user : y \in Missed(p, g)}, data)
      BY <2>1
    <2> HIDE DEF data
    <2>4. \A e \in errands' : e \in errands \/ Waits(e)
      BY <2>2, <2>3, ErrandWaits
    <2>5. QED
      BY <2>1, <2>4, HostHandles
  <1>6. QED
    BY <1>1, <1>2, <1>3, <1>4, <1>5

\* Handlers that change the row of a game.
LEMMA RowsHost ==
    ASSUME Hosting, NEW p \in People
    PROVE  /\ \A n \in Numbers, ends, lost \in BOOLEAN : CallSubmit(p, n, ends, lost) => Hosting'
           /\ \A l \in Links, lost \in BOOLEAN : LiveSubmit(p, l, lost) => Hosting'
           /\ \A g \in GameIds : StartLocked(p, g) \/ LiveClear(p, g) => Hosting'
           /\ \A g \in GameIds, m \in {"MANUAL", "AUTO"} : SelectMode(p, g, m) => Hosting'
  <1>0. GamesTyped
    BY DEF Hosting
  <1>1. ASSUME NEW n \in Numbers, NEW ends \in BOOLEAN, NEW lost \in BOOLEAN, CallSubmit(p, n, ends, lost)
        PROVE  Hosting'
    <2> DEFINE g == host[p].about
    <2>1. g \in GameIds
      BY <1>1 DEF CallSubmit, Hosting, AboutOK
    <2>2. games' = IF Callable(g, n) THEN Called(g, n, ends) ELSE games
      BY <1>1 DEF CallSubmit
    <2>3. GamesStep
      BY <1>0, <2>1, <2>2, ChangesTyped, GamesSameTyped
    <2>4. host' = host \/ \E q, d : AboutOK(d) /\ host' = [host EXCEPT ![q] = d]
      BY <1>1, IdleOK DEF CallSubmit
    <2>5. QED
      BY <1>1, <2>3, <2>4, HostStays DEF CallSubmit
  <1>2. ASSUME NEW l \in Links, NEW lost \in BOOLEAN, LiveSubmit(p, l, lost) PROVE Hosting'
    <2>1. host[p].about \in GameIds
      BY <1>2 DEF LiveSubmit, Hosting, AboutOK
    <2>2. GamesStep
      BY <1>0, <1>2, <2>1, ChangesTyped DEF LiveSubmit
    <2>3. host' = host \/ \E q, d : AboutOK(d) /\ host' = [host EXCEPT ![q] = d]
      BY <1>2, IdleOK DEF LiveSubmit
    <2>4. QED
      BY <1>2, <2>2, <2>3, HostStays DEF LiveSubmit
  <1>3. ASSUME NEW g \in GameIds, StartLocked(p, g) PROVE Hosting'
    <2>1. GamesStep
      BY <1>0, <1>3, ChangesTyped DEF StartLocked, StartGame
    <2>2. QED
      BY <1>3, <2>1, HostStays DEF StartLocked
  <1>4. ASSUME NEW g \in GameIds, LiveClear(p, g) PROVE Hosting'
    <2>1. GamesStep
      BY <1>0, <1>4, ChangesTyped DEF LiveClear
    <2>2. \E q, d : AboutOK(d) /\ host' = [host EXCEPT ![q] = d]
      BY <1>4, PutOK DEF LiveClear
    <2>3. QED
      BY <1>4, <2>1, <2>2, HostStays DEF LiveClear
  <1>5. ASSUME NEW g \in GameIds, NEW m \in {"MANUAL", "AUTO"}, SelectMode(p, g, m) PROVE Hosting'
    <2>1. GamesStep
      BY <1>0, <1>5, ChangesTyped DEF SelectMode
    <2>2. QED
      BY <1>5, <2>1, HostStays DEF SelectMode
  <1>6. QED
    BY <1>1, <1>2, <1>3, <1>4, <1>5

\* A purchase while the lobby is open.
LEMMA BuyHost ==
    ASSUME Hosting, NEW g \in GameIds, NEW u \in Buyers, Buy(g, u)
    PROVE  Hosting'
  <1>1. GamesStep
    BY ChangesTyped DEF Buy, Hosting
  <1>2. QED
    BY <1>1, HostStays DEF Buy

\* What the backend does for an errand.
LEMMA EffectTyped ==
    ASSUME Hosting, NEW e \in errands, e.kind \in {"create", "close", "undo"}, games' = Effect(e)
    PROVE  GamesStep
  <1>0. GamesTyped /\ Waits(e)
    BY DEF Hosting
  <1>1. CASE e.kind = "create"
    <2>1. e.about \in Topics /\ (games' = games \/ games' = Append(games, NewGame(e.about)))
      BY <1>0, <1>1 DEF Waits, Effect, Ensured
    <2>2. QED
      BY <1>0, <2>1, GamesSameTyped, GameAddedTyped
  <1>2. CASE e.kind = "close"
    <2>1. e.about \in GameIds /\ games' = ClosedLobby(e.about)
      BY <1>0, <1>2 DEF Waits, Effect
    <2>2. QED
      BY <1>0, <2>1, ChangesTyped
  <1>3. CASE e.kind = "undo"
    <2>1. e.about \in GameIds /\ (games' = games \/ (Drawn(e.about) /\ games' = TakenBack(e.about)))
      BY <1>0, <1>3 DEF Waits, Effect, Undoable
    <2>2. QED
      BY <1>0, <2>1, GamesSameTyped, ChangesTyped
  <1>4. QED
    BY <1>1, <1>2, <1>3

\* Calls of the backend that are answered or not.
LEMMA AnswersHost ==
    ASSUME Hosting, NEW e \in errands
    PROVE  /\ Answer(e) => Hosting'
           /\ \A done \in BOOLEAN : NoAnswer(e, done) => Hosting'
  <1>0. Waits(e)
    BY DEF Hosting
  <1>1. ASSUME Answer(e) PROVE Hosting'
    <2> DEFINE n == [e EXCEPT !.kind = "notify"]
    <2>1. GamesStep
      BY <1>1, EffectTyped DEF Answer
    <2>2. host' = host \/ \E q, d : AboutOK(d) /\ host' = [host EXCEPT ![q] = d]
      BY <1>1, IdleOK DEF Answer
    <2>3. \A x \in errands' : x \in errands \/ (x = n /\ e.kind = "close")
      BY <1>1 DEF Answer
    <2>4. e.kind = "close" => Waits(n)
      BY <1>0 DEF Waits
    <2> HIDE DEF n
    <2>5. QED
      BY <1>1, <2>1, <2>2, <2>3, <2>4, HostStays DEF Answer
  <1>2. ASSUME NEW done \in BOOLEAN, NoAnswer(e, done) PROVE Hosting'
    <2>1. games' = games \/ (e.kind \in {"create", "close", "undo"} /\ games' = Effect(e))
      BY <1>2 DEF NoAnswer
    <2>2. GamesStep
      BY <2>1, EffectTyped, GamesSameTyped DEF Hosting
    <2>3. QED
      BY <1>2, <2>2, HostStays DEF NoAnswer
  <1>3. QED
    BY <1>1, <1>2

\* Messages to buyers, one after the other, and the failures that are remembered.
LEMMA TellsHost ==
    ASSUME Hosting, NEW e \in errands
    PROVE  /\ ReadBuyers(e) => Hosting'
           /\ \A u, sent : TellRefund(e, u, sent) => Hosting'
           /\ \A u, sent : SendLink(e, u, sent) => Hosting'
  <1>0. Waits(e)
    BY DEF Hosting
  <1>1. ASSUME NEW todo PROVE Waits([e EXCEPT !.todo = todo])
    BY <1>0 DEF Waits
  <1>2. ASSUME ReadBuyers(e) PROVE Hosting'
    <2> DEFINE d == [e EXCEPT !.todo = games[e.about].buyers]
    <2>1. \A x \in errands' : x \in errands \/ x = d
      BY <1>2 DEF ReadBuyers
    <2>2. Waits(d)
      BY <1>1
    <2> HIDE DEF d
    <2>3. QED
      BY <1>2, <2>1, <2>2, HostHandles DEF ReadBuyers
  <1>3. ASSUME NEW u, NEW sent, TellRefund(e, u, sent) PROVE Hosting'
    <2> DEFINE todo == e.todo \ {u}
               d == [e EXCEPT !.todo = todo]
    <2>1. \A x \in errands' : x \in errands \/ x = d
      BY <1>3 DEF TellRefund
    <2>2. Waits(d)
      <3> HIDE DEF todo
      <3> QED
        BY <1>1
    <2> HIDE DEF d
    <2>3. QED
      BY <1>3, <2>1, <2>2, HostHandles DEF TellRefund
  <1>4. ASSUME NEW u, NEW sent, SendLink(e, u, sent) PROVE Hosting'
    <2> DEFINE old == e.data.failed
               failed == IF sent \/ Cardinality(old) >= MaxFailed THEN old ELSE old \cup {u}
               todo == e.todo \ {u}
               data == [e.data EXCEPT !.failed = failed]
               d == [e EXCEPT !.todo = todo, !.data = data]
    <2>1. e.kind = "send" /\ "failed" \in DOMAIN e.data /\ Short(old)
      BY <1>0, <1>4 DEF SendLink, Waits
    <2>2. Short(failed)
      <3>1. CASE sent \/ Cardinality(old) >= MaxFailed
        BY <2>1, <3>1
      <3>2. CASE ~ (sent \/ Cardinality(old) >= MaxFailed)
        <4>1. /\ IsFiniteSet(old \cup {u})
              /\ Cardinality(old \cup {u}) \in {Cardinality(old), Cardinality(old) + 1}
              /\ Cardinality(old) \in Nat
          BY <2>1, FS_AddElement, FS_CardinalityType DEF Short
        <4>2. Cardinality(old \cup {u}) <= MaxFailed
          BY <3>2, <4>1, HostAssumption
        <4>3. QED
          BY <3>2, <4>1, <4>2 DEF Short
      <3>3. QED
        BY <3>1, <3>2
    <2>3. \A x \in errands' : x \in errands \/ x = d
      BY <1>4 DEF SendLink
    <2>4. "failed" \in DOMAIN data /\ data.failed = failed
      BY <2>1
    <2> HIDE DEF data, failed, todo
    <2>5. /\ DOMAIN d = DOMAIN e /\ d.kind = e.kind /\ d.by = e.by /\ d.about = e.about
          /\ d.data = data
      BY <1>0 DEF Waits
    <2> HIDE DEF d
    <2>6. Waits(d)
      BY <1>0, <2>1, <2>2, <2>4, <2>5 DEF Waits
    <2>7. QED
      BY <1>4, <2>3, <2>6, HostHandles DEF SendLink
  <1>5. QED
    BY <1>2, <1>3, <1>4

\* The list of the failed deliveries replaces the one there was.
LEMMA LinkSentHost ==
    ASSUME Hosting, NEW e \in errands, LinkSent(e)
    PROVE  Hosting'
  <1> DEFINE U == e.data.failed
             l == e.data.link
             f == [u \in U |-> [by |-> e.by, game |-> e.about, user |-> u, link |-> l]]
             new == {[by |-> e.by, game |-> e.about, user |-> u, link |-> l] : u \in U}
  <1>1. /\ e.by \in People /\ e.about \in GameIds /\ Short(U)
        /\ UNCHANGED <<games, host, confirms>> /\ errands' \subseteq errands
        /\ unsent' = (unsent \ Missed(e.by, e.about)) \cup new
    BY DEF Hosting, Waits, LinkSent, NewList
  <1>2. \A x \in unsent' : x.by \in People /\ x.game \in GameIds
    BY <1>1 DEF Hosting
  <1>3. Short(new)
    <2>1. f \in Surjection(U, new)
      BY DEF Surjection
    <2> HIDE DEF f, new
    <2>2. IsFiniteSet(new) /\ Cardinality(new) <= Cardinality(U)
      BY <1>1, <2>1, FS_Surjection DEF Short
    <2>3. Cardinality(new) \in Nat /\ Cardinality(U) \in Nat
      BY <1>1, <2>2, FS_CardinalityType DEF Short
    <2>4. QED
      BY <1>1, <2>2, <2>3, HostAssumption DEF Short
  <1>4. ASSUME NEW p, NEW g PROVE Short(Missed(p, g)')
    <2>1. CASE p = e.by /\ g = e.about
      <3>1. Missed(p, g)' \in SUBSET new
        BY <1>1, <2>1 DEF Missed
      <3>2. QED
        BY <1>3, <3>1, FewerAreShort
    <2>2. CASE ~ (p = e.by /\ g = e.about)
      <3>1. Missed(p, g)' \in SUBSET Missed(p, g)
        BY <1>1, <2>2 DEF Missed
      <3>2. QED
        BY <3>1, FewerAreShort DEF Hosting
    <2>3. QED
      BY <2>1, <2>2
  <1>5. QED
    BY <1>1, <1>2, <1>4 DEF Hosting, GamesTyped, GameIds, AboutOK, Waits

\* Every step of administrators and buyers at the bot.
LEMMA StepHost ==
    ASSUME Hosting, HostNext
    PROVE  Hosting'
  BY TalksHost, ErrandsHost, RowsHost, BuyHost, AnswersHost, TellsHost, LinkSentHost DEF HostNext

\* The Mini App, on the same games.
LEMMA PanelHosts ==
    ASSUME Hosting, PanelNext, \A x \in acts : x.topic \in Topics
    PROVE  Hosting' /\ GameIds \subseteq GameIds'
  <1>0. GamesTyped
    BY DEF Hosting
  <1>1. ASSUME GamesStep, UNCHANGED <<host, errands, confirms, unsent>>
        PROVE  Hosting' /\ GameIds \subseteq GameIds'
    BY <1>1, HostStays DEF GamesStep
  <1>2. ASSUME UNCHANGED hostVars
        PROVE  Hosting' /\ GameIds \subseteq GameIds'
    BY <1>0, <1>1, <1>2, GamesSameTyped DEF hostVars
  <1>3. ASSUME NEW p \in People, NEW t \in Topics, NEW lost, MiniOpen(p, t, lost)
        PROVE  Hosting' /\ GameIds \subseteq GameIds'
    BY <1>2, <1>3 DEF MiniOpen
  <1>4. ASSUME NEW p \in People, NEW g \in GameIds,
               \/ MiniStart(p, g) \/ MiniUndo(p, g) \/ MiniClearLink(p, g)
               \/ \E m \in {"MANUAL", "AUTO"} : MiniSelectMode(p, g, m)
               \/ \E n \in Numbers, ends \in BOOLEAN : MiniCall(p, g, n, ends)
               \/ \E l \in Links : MiniSetLink(p, g, l)
        PROVE  Hosting' /\ GameIds \subseteq GameIds'
    <2>1. UNCHANGED <<host, errands, confirms, unsent>>
      BY <1>4 DEF MiniStart, MiniUndo, MiniClearLink, MiniSelectMode, MiniCall, MiniSetLink, Change
    <2>2. GamesStep
      BY <1>0, <1>4, ChangesTyped
         DEF MiniStart, MiniUndo, MiniClearLink, MiniSelectMode, MiniCall, MiniSetLink, Change
    <2>3. QED
      BY <1>1, <2>1, <2>2
  <1>5. ASSUME NEW p \in People, NEW g \in GameIds, NEW U,
               MiniSendLink(p, g, U) \/ \E committed \in BOOLEAN : MiniClose(p, g, U, committed)
        PROVE  Hosting' /\ GameIds \subseteq GameIds'
    <2>1. /\ UNCHANGED <<host, errands, confirms, unsent>>
          /\ games' = games \/ games' = ClosedLobby(g)
      BY <1>5 DEF MiniSendLink, MiniClose
    <2>2. GamesStep
      BY <1>0, <2>1, ChangesTyped, GamesSameTyped
    <2>3. QED
      BY <1>1, <2>1, <2>2
  <1>6. ASSUME NEW x, \/ Again(x) \/ FlagEvent(x) \/ NoticeNew(x) \/ \E sent : SendCreated(x, sent)
        PROVE  Hosting' /\ GameIds \subseteq GameIds'
    BY <1>2, <1>6 DEF Again, FlagEvent, NoticeNew, SendCreated
  <1>7. ASSUME NEW x \in acts, OpenCommit(x)
        PROVE  Hosting' /\ GameIds \subseteq GameIds'
    <2>1. /\ UNCHANGED <<host, errands, confirms, unsent>>
          /\ games' = games \/ games' = Append(games, NewGame(x.topic))
      BY <1>7 DEF OpenCommit
    <2>2. GamesStep
      BY <1>0, <2>1, GameAddedTyped, GamesSameTyped
    <2>3. QED
      BY <1>1, <2>1, <2>2
  <1>8. QED
    BY <1>3, <1>4, <1>5, <1>6, <1>7 DEF PanelNext

\* No game goes away.
LEMMA HostGrows ==
    ASSUME GamesTyped, HostNext
    PROVE  GameIds \subseteq GameIds'
  <1>1. /\ \A g : \/ games' = Started(g) \/ games' = ClosedLobby(g) \/ games' = TakenBack(g)
                  \/ \E n, ends : games' = Called(g, n, ends)
                  => GameIds' = GameIds
        /\ \A t : games' = Append(games, NewGame(t)) => GameIds \subseteq GameIds'
        /\ games' = games => GameIds' = GameIds
    <2>1. ASSUME NEW g PROVE /\ games' = Started(g) => GameIds' = GameIds
                             /\ games' = ClosedLobby(g) => GameIds' = GameIds
                             /\ games' = TakenBack(g) => GameIds' = GameIds
                             /\ \A n, ends : games' = Called(g, n, ends) => GameIds' = GameIds
      BY DEF Started, ClosedLobby, TakenBack, Called, GameIds
    <2>2. ASSUME NEW t, games' = Append(games, NewGame(t)) PROVE GameIds \subseteq GameIds'
      <3> DEFINE new == NewGame(t)
      <3>1. games \in Seq(Row) /\ games' = Append(games, new)
        BY <2>2 DEF GamesTyped
      <3> HIDE DEF new
      <3>2. QED
        BY <3>1, AppendProperties DEF GameIds
    <2>3. QED
      BY <2>1, <2>2 DEF GameIds
  <1>2. ASSUME NEW e, e.kind \in {"create", "close", "undo"}, games' = Effect(e)
        PROVE  GameIds \subseteq GameIds'
    BY <1>1, <1>2 DEF Effect, Ensured
  <1>3. ASSUME NEW e, \/ Answer(e) \/ ReadBuyers(e) \/ LinkSent(e) \/ \E done \in BOOLEAN : NoAnswer(e, done)
                      \/ \E u, sent : TellRefund(e, u, sent) \/ SendLink(e, u, sent)
        PROVE  GameIds \subseteq GameIds'
    <2>1. games' = games \/ (games' = Effect(e) /\ e.kind \in {"create", "close", "undo"})
      BY <1>3 DEF Answer, ReadBuyers, LinkSent, NoAnswer, TellRefund, SendLink
    <2>2. QED
      BY <1>1, <1>2, <2>1
  <1>4. ASSUME NEW p, \/ PriceSubmit(p) \/ CloseCancel(p) \/ CloseSubmit(p) \/ \E part : Leave(p, part)
                      \/ \E t : EnsureTopic(p, t) \/ \E page : UndoExecute(p, page)
        PROVE  GameIds \subseteq GameIds'
    BY <1>1, <1>4 DEF PriceSubmit, CloseCancel, CloseSubmit, Leave, EnsureTopic, UndoExecute
  <1>5. ASSUME NEW p, NEW x, \/ \E lost : LiveSubmit(p, x, lost) \/ \E ends : CallSubmit(p, x, ends, lost)
        PROVE  GameIds \subseteq GameIds'
    BY <1>1, <1>5 DEF LiveSubmit, CallSubmit, GameIds
  <1>6. ASSUME NEW p, NEW g, \/ CloseStart(p, g) \/ StartLocked(p, g) \/ CallStart(p, g) \/ LiveSet(p, g)
                             \/ LiveClear(p, g) \/ LiveSend(p, g) \/ LiveResend(p, g) \/ ListExpires(p, g)
                             \/ \E x : SelectMode(p, g, x) \/ UndoConfirm(p, g, x)
        PROVE  GameIds \subseteq GameIds'
    BY <1>1, <1>6 DEF CloseStart, StartLocked, StartGame, CallStart, LiveSet, LiveClear, LiveSend, LiveResend,
                      ListExpires, SelectMode, UndoConfirm, GameIds
  <1>7. ASSUME NEW g, NEW u, Buy(g, u) PROVE GameIds \subseteq GameIds'
    BY <1>7 DEF Buy, GameIds
  <1>8. QED
    BY <1>3, <1>4, <1>5, <1>6, <1>7 DEF HostNext

\* What a request to open a game goes by.
ActOK(x) ==
    /\ {"kind", "by", "topic", "active", "game"} \subseteq DOMAIN x
    /\ x.by \in People /\ x.topic \in Topics /\ x.active \in GameIds \cup {None}
    /\ x.kind # "open" => x.game \in GameIds

Presented ==
    /\ \A r \in created : r.game \in GameIds /\ r.by \in People
    /\ \A x \in acts : ActOK(x)
    /\ \A r \in repeats : r.by \in People /\ r.topic \in Topics
    /\ IsABag(announced)
    /\ marked \cup flagged \cup noticed \cup BagToSet(announced) \subseteq GameIds

\* What the Mini App keeps when games are added.
LEMMA PresentedLater ==
    ASSUME Presented, GameIds \subseteq GameIds',
           \A r \in created' : r \in created \/ (r.game \in GameIds' /\ r.by \in People),
           \A x \in acts' : x \in acts \/ ActOK(x)',
           \A r \in repeats' : r \in repeats \/ (r.by \in People /\ r.topic \in Topics),
           announced' = announced \/ \E g \in GameIds : announced' = announced (+) SetToBag({g}),
           \A g \in marked' \cup flagged' \cup noticed' : g \in marked \cup flagged \cup noticed \cup GameIds
    PROVE  Presented'
  <1>1. \A x \in acts' : ActOK(x)'
    BY DEF Presented, ActOK
  <1>2. IsABag(announced') /\ BagToSet(announced') \subseteq GameIds'
    <2>1. CASE announced' = announced
      BY <2>1 DEF Presented
    <2>2. ASSUME NEW g \in GameIds, announced' = announced (+) SetToBag({g})
          PROVE  IsABag(announced') /\ BagToSet(announced') \subseteq GameIds'
      <3>1. /\ IsABag(announced (+) SetToBag({g}))
            /\ BagToSet(announced (+) SetToBag({g})) = BagToSet(announced) \cup {g}
        BY CopiesAdd DEF Presented
      <3>2. QED
        BY <2>2, <3>1 DEF Presented
    <2>3. QED
      BY <2>1, <2>2
  <1>3. QED
    BY <1>1, <1>2 DEF Presented

\* A request that arrives has seen a game there is, or none.
LEMMA ArrivePresented ==
    ASSUME GamesTyped, NEW p \in People, NEW key, NEW t \in Topics, NEW attempt, Arrive(p, key, t, attempt),
           GameIds' = GameIds
    PROVE  \A x \in acts' : x \in acts \/ ActOK(x)'
  <1> DEFINE d == [kind |-> "open", by |-> p, key |-> key, topic |-> t, attempt |-> attempt,
                   found |-> \E r \in created : r.key = key, active |-> Active(t), game |-> None]
  <1>1. acts' = acts \cup {d}
    BY DEF Arrive
  <1>2. d.kind = "open" /\ d.by = p /\ d.topic = t /\ d.active \in GameIds \cup {None}
        /\ {"kind", "by", "topic", "active", "game"} \subseteq DOMAIN d
    BY LatestIsGame
  <1> HIDE DEF d
  <1>3. PICK x : x = d
    OBVIOUS
  <1>4. ActOK(x)'
    BY <1>2, <1>3 DEF ActOK
  <1>5. QED
    BY <1>1, <1>3, <1>4

\* Every step of administrators in the Mini App.
LEMMA StepPresented ==
    ASSUME Presented, GamesTyped, GameIds \subseteq GameIds', PanelNext
    PROVE  Presented'
  <1>1. ASSUME NEW p \in People, NEW t \in Topics, NEW lost, MiniOpen(p, t, lost) PROVE Presented'
    <2>1. GameIds' = GameIds
      BY <1>1 DEF MiniOpen, hostVars, GameIds
    <2>2. \A x \in acts' : x \in acts \/ ActOK(x)'
      BY <1>1, <2>1, ArrivePresented DEF MiniOpen
    <2>3. QED
      BY <1>1, <2>2, PresentedLater DEF MiniOpen
  <1>2. ASSUME NEW r \in repeats, Again(r) PROVE Presented'
    <2>1. GameIds' = GameIds /\ r.by \in People /\ r.topic \in Topics
      BY <1>2 DEF Again, hostVars, GameIds, Presented
    <2>2. \A x \in acts' : x \in acts \/ ActOK(x)'
      BY <1>2, <2>1, ArrivePresented DEF Again
    <2>3. QED
      BY <1>2, <2>2, PresentedLater DEF Again
  <1>3. ASSUME NEW x \in acts, OpenCommit(x) PROVE Presented'
    <2> DEFINE fresh == x.active = None
               game  == IF fresh THEN Len(games) + 1 ELSE x.active
               y     == [x EXCEPT !.kind = "announce", !.game = game]
    <2>0. ActOK(x)
      BY DEF Presented
    <2>1. CASE IsRepeated(x)
      <3>1. UNCHANGED <<created, repeats, announced, marked, flagged, noticed>> /\ acts' \subseteq acts
        BY <1>3, <2>1 DEF OpenCommit
      <3>2. QED
        BY <3>1, PresentedLater
    <2>2. CASE ~ IsRepeated(x)
      <3>1. /\ games' = IF fresh THEN Append(games, NewGame(x.topic)) ELSE games
            /\ created' = created \cup {[key |-> x.key, game |-> game, by |-> x.by, reused |-> ~ fresh]}
            /\ acts' = (acts \ {x}) \cup (IF fresh THEN {y} ELSE {})
            /\ UNCHANGED <<repeats, announced, marked, flagged, noticed>>
        BY <1>3, <2>2 DEF OpenCommit
      <3>2. game \in GameIds'
        BY <2>0, <3>1, GameAddedTyped DEF ActOK
      <3>3. /\ {"kind", "by", "topic", "active", "game"} \subseteq DOMAIN y
            /\ y.by = x.by /\ y.topic = x.topic /\ y.active = x.active /\ y.game = game
        BY <2>0 DEF ActOK
      <3> HIDE DEF game, y
      <3>4. PICK z : z = y
        OBVIOUS
      <3>5. ActOK(z)'
        BY <2>0, <3>2, <3>3, <3>4 DEF ActOK
      <3>6. \A z2 \in acts' : z2 \in acts \/ ActOK(z2)'
        BY <3>1, <3>4, <3>5
      <3>7. \A r \in created' : r \in created \/ (r.game \in GameIds' /\ r.by \in People)
        BY <2>0, <3>1, <3>2 DEF ActOK
      <3>8. QED
        BY <3>1, <3>6, <3>7, PresentedLater
    <2>3. QED
      BY <2>1, <2>2
  <1>4. ASSUME NEW x \in acts, NEW sent \in BOOLEAN, SendCreated(x, sent) PROVE Presented'
    <2> DEFINE y == [x EXCEPT !.kind = "flag"]
    <2>1. ActOK(x) /\ x.kind = "announce" /\ x.game \in GameIds
      BY <1>4 DEF Presented, ActOK, SendCreated
    <2>2. /\ {"kind", "by", "topic", "active", "game"} \subseteq DOMAIN y
          /\ y.by = x.by /\ y.topic = x.topic /\ y.active = x.active /\ y.game = x.game
      BY <2>1 DEF ActOK
    <2>3. \A z \in acts' : z \in acts \/ z = y
      BY <1>4 DEF SendCreated
    <2> HIDE DEF y
    <2>4. PICK z : z = y
      OBVIOUS
    <2>5. ActOK(z)'
      BY <2>1, <2>2, <2>4 DEF ActOK
    <2>6. \A z2 \in acts' : z2 \in acts \/ ActOK(z2)'
      BY <2>3, <2>4, <2>5
    <2>7. QED
      BY <1>4, <2>1, <2>6, PresentedLater DEF SendCreated
  <1>5. ASSUME NEW x \in acts, FlagEvent(x) PROVE Presented'
    <2>1. x.game \in GameIds
      BY <1>5 DEF Presented, ActOK, FlagEvent
    <2>2. QED
      BY <1>5, <2>1, PresentedLater DEF FlagEvent
  <1>6. ASSUME NEW r \in created, NoticeNew(r) PROVE Presented'
    <2>1. r.game \in GameIds
      BY DEF Presented
    <2>2. QED
      BY <1>6, <2>1, PresentedLater DEF NoticeNew
  <1>7. ASSUME NEW p, NEW g \in GameIds,
               \/ MiniStart(p, g) \/ MiniUndo(p, g) \/ MiniClearLink(p, g)
               \/ \E x : MiniSelectMode(p, g, x) \/ MiniSetLink(p, g, x) \/ \E ends : MiniCall(p, g, x, ends)
               \/ \E U : MiniSendLink(p, g, U) \/ \E committed : MiniClose(p, g, U, committed)
        PROVE  Presented'
    <2>1. /\ UNCHANGED <<created, acts, repeats, announced, flagged, noticed>>
          /\ marked' \in {marked, marked \cup {g}}
      BY <1>7 DEF MiniStart, MiniUndo, MiniClearLink, MiniSelectMode, MiniSetLink, MiniCall, Change,
                  MiniSendLink, MiniClose, panelVars
    <2>2. QED
      BY <2>1, PresentedLater
  <1>8. QED
    BY <1>1, <1>2, <1>3, <1>4, <1>5, <1>6, <1>7 DEF PanelNext

\* At first there are the games there may be, and nobody talks about them.
LEMMA InitHosting ==
    ASSUME HostInit, PanelInit
    PROVE  Hosting /\ Presented
  <1>1. games \in FirstGames /\ games \in Seq(Row)
    BY HostAssumption DEF HostInit
  <1>2. \A g \in GameIds : Coherent(games[g])
    BY <1>1, HostAssumption DEF Coherent, GameIds
  <1>3. \A p \in People : AboutOK(host[p])
    BY HostAssumption DEF HostInit, Idle, AboutOK
  <1>4. \A p, g : Missed(p, g) = {}
    BY DEF HostInit, Missed
  <1>5. Hosting
    BY <1>1, <1>2, <1>3, <1>4, ShortEmpty DEF HostInit, Hosting, GamesTyped
  <1>6. IsABag(announced) /\ BagToSet(announced) = {}
    BY DEF PanelInit, IsABag, BagToSet, EmptyBag, SetToBag
  <1>7. Presented
    BY <1>6 DEF PanelInit, Presented
  <1>8. QED
    BY <1>5, <1>7

\* At first no destination is saved and bank deposits are open.
LEMMA InitNaming ==
    ASSUME SettingsInit
    PROVE  Naming
  <1>1. Numbered(saved) /\ Numbered({})
    BY DEF SettingsInit, Numbered
  <1>2. talk \in TalkOf /\ talk.state = None /\ None # "name"
    BY SettingsAssumption DEF SettingsInit, Silent, TalkOf
  <1>3. switch \in [Switches -> BOOLEAN]
    BY DEF SettingsInit
  <1>4. QED
    BY <1>1, <1>2, <1>3, EnvNumbered DEF SettingsInit, Naming, SettingsOK, TalkOf

\* Everything the types are about.
Typed == /\ UpdatesOK /\ AclOK /\ Monitored /\ BotInv /\ Ruling
         /\ Hosting /\ Presented /\ Naming

\* Every step keeps the types of all parts, each with those of the others.
LEMMA StepTyped ==
    ASSUME Typed, [Next]_botVars
    PROVE  Typed'
  <1> USE DEF Typed
  <1>1. UpdatesOK' /\ Monitored' /\ BotInv' /\ Ruling'
    BY StepUpdates, StepMonitored, StepBot, StepRuled
  <1>2. ASSUME UNCHANGED aclVars PROVE AclOK'
    BY <1>2 DEF aclVars, AclOK
  <1>3. ASSUME UNCHANGED settingsVars PROVE Naming'
    BY <1>3, WritesOK DEF settingsVars, Naming, SettingsOK
  <1>4. ASSUME UNCHANGED hostVars PROVE Hosting' /\ GameIds \subseteq GameIds'
    BY <1>4, GamesSameTyped, HostStays DEF hostVars, Hosting, GamesStep
  <1>5. ASSUME UNCHANGED panelVars, GameIds \subseteq GameIds' PROVE Presented'
    BY <1>5, PresentedLater DEF panelVars
  <1>6. CASE UNCHANGED <<aclVars, hostVars, panelVars, settingsVars>>
    BY <1>1, <1>2, <1>3, <1>4, <1>5, <1>6
  <1>7. CASE AclNext /\ UNCHANGED otherVars
    BY <1>1, <1>3, <1>4, <1>5, <1>7, StepAcl DEF otherVars
  <1>8. CASE HostNext /\ UNCHANGED <<aclVars, panelVars, settingsVars>>
    BY <1>1, <1>2, <1>3, <1>5, <1>8, StepHost, HostGrows DEF Hosting
  <1>9. CASE PanelNext /\ UNCHANGED <<aclVars, settingsVars>>
    <2>1. Hosting' /\ GameIds \subseteq GameIds'
      BY <1>9, PanelHosts DEF Presented, ActOK
    <2>2. Presented'
      BY <1>9, <2>1, StepPresented DEF Hosting
    <2>3. QED
      BY <1>1, <1>2, <1>3, <1>9, <2>1, <2>2
  <1>10. CASE SettingsNext /\ UNCHANGED <<hostVars, panelVars>>
    <2>1. Naming'
      BY <1>10, StepSettings
    <2>2. AclOK'
      <3>1. ASSUME NEW lost \in BOOLEAN, GiveName(lost) PROVE AclOK'
        <4>1. talk.role \in Grantable /\ Granted(talk.who, talk.role, lost)
          BY <3>1, TalkIsOK DEF GiveName, TalkOf
        <4>2. QED
          BY <4>1, GrantedOK
      <3>2. ASSUME NEW w, NEW lost, WriteCards(w, lost) PROVE UNCHANGED aclVars
        BY <3>2 DEF WriteCards
      <3>3. ASSUME NEW x, \/ Quit \/ AddCard \/ AddAdmin \/ SeePage \/ MiniDepositUnchosen
                          \/ GiveId(x) \/ PickRole(x) \/ CardSubmit(x) \/ EditCard(x) \/ CardDelete(x)
                          \/ Toggle(x) \/ SetSwitch(x) \/ CallFails(x) \/ BotDeposit(x) \/ MiniDeposit(x)
                          \/ \E c : CardPut(x, c, FALSE) \/ \E on : MiniSwitch(x, on)
            PROVE  UNCHANGED aclVars
        BY <3>3 DEF Quit, AddCard, AddAdmin, SeePage, MiniDepositUnchosen, GiveId, PickRole, CardSubmit, EditCard,
                    CardDelete, Toggle, SetSwitch, CallFails, BotDeposit, MiniDeposit, CardPut, MiniSwitch
      <3>4. QED
        BY <1>2, <1>10, <3>1, <3>2, <3>3 DEF SettingsNext
    <2>3. QED
      BY <1>1, <1>4, <1>5, <1>10, <2>1, <2>2
  <1>11. ASSUME NEW torn \in BOOLEAN, Crash(torn) PROVE Typed'
    <2>1. AclOK'
      BY <1>11, CrashAcl DEF Crash
    <2>2. GameIds' = GameIds /\ GamesStep
      BY <1>11, GamesSameTyped DEF Crash, HostCrash, GameIds, Hosting
    <2>3. Hosting'
      BY <1>11, <2>2, HostStays DEF Crash, HostCrash
    <2>4. Presented'
      BY <1>5, <1>11, <2>2 DEF Crash
    <2>5. Naming'
      BY <1>11, WritesOK DEF Crash, SettingsCrash, Naming, SettingsOK
    <2>6. QED
      BY <1>1, <2>1, <2>3, <2>4, <2>5
  <1>12. QED
    BY <1>6, <1>7, <1>8, <1>9, <1>10, <1>11 DEF Next, otherVars, botVars

\* Every part of the bot has its types, and with them what each part relies on of the
\* others: no conversation, errand, button or request is about a game, a request or a
\* person there is not, a step of a conversation has the data it reads, an administrator
\* has roles the bot can read, no two destinations of deposits have one number, and what
\* a closed lobby, a running game and a broadcast remember fits together.
THEOREM WellTyped == Spec => []TypeOK
  <1>1. Init => Typed
    <2> SUFFICES ASSUME Init PROVE Typed
      OBVIOUS
    <2>1. UpdatesOK
      BY UpdatesAssumption DEF Init, UpdatesInit, UpdatesOK
    <2>2. Monitored
      <3>1. started = 0 /\ job = [c \in Chats |-> None] /\ Running = {}
        BY DEF Init, MonitorsInit, Running
      <3>2. QED
        BY <3>1 DEF Monitored, MonitorOwned
    <2>3. QED
      BY <2>1, <2>2, InitAcl, InitBot, InitRuled, InitHosting, InitNaming DEF Init, Typed
  <1>2. Typed /\ [Next]_botVars => Typed'
    BY StepTyped
  <1>3. Typed => TypeOK
    <2> SUFFICES ASSUME Typed PROVE TypeOK
      OBVIOUS
    <2>1. MonitorsOK /\ UsersOK /\ SettingsOK /\ UpdatesOK /\ AclOK
      BY DEF Typed, Monitored, MonitorsOK, Ruling, Judged, AsDecided, JobOK, UsersOK, Naming
    <2>2. RequestsOK
      BY DEF Typed, BotInv, Rows, Dialogs, DialogOK, DataOK, StateOK, Calls, CallOK, Clicking, RequestsOK, Ids
    <2>3. DeskOK
      BY DEF Typed, BotInv, Talks, TalkOK, Mail, MessageOK, Papers, DeskOK, Ids
    <2>4. HostOK
      BY DEF Typed, Hosting, GamesTyped, AboutOK, Waits, HostOK
    <2>5. PanelOK
      BY DEF Typed, Presented, ActOK, PanelOK
    <2>6. QED
      BY <2>1, <2>2, <2>3, <2>4, <2>5 DEF TypeOK
  <1>4. QED
    BY <1>1, <1>2, <1>3, PTL DEF Spec
=============================================================================
