------------------------------ MODULE Requests ------------------------------
(***************************************************************************)
(* The conversations in which users make requests (routers/withdraw.py,    *)
(* deposit.py, purchase.py): their states and data live in Redis and       *)
(* outlast the bot, their buttons stay on the screen.                      *)
(*                                                                         *)
(* state.clear drops state and data, set_state changes the state alone,    *)
(* update_data adds to the data.  A handler that calls the backend reads   *)
(* the data, calls, and goes on with the answer; the user may do anything  *)
(* meanwhile.  Names and accounts are one value, asked for in one step.    *)
(* What the backend checks of money and of the game is in Finance.tla and  *)
(* Game.tla: here it may refuse, which is a failed call.                   *)
(***************************************************************************)
EXTENDS Acl

CONSTANTS
    Users,          \* the users who make requests
    Amounts,        \* amounts they type
    Payees,         \* names and accounts they type
    Lots            \* the games they buy cards of

Steps == {"w.amount", "w.payee", "w.confirm", "d.dest", "d.amount", "d.receipt", "d.confirm",
          "b.game", "b.qty", "b.confirm"}

ASSUME RequestsAssumption == None \notin Amounts /\ None \notin Payees /\ None \notin Steps

VARIABLES
    dialog,     \* dialog[u]: the state of the conversation and its data
    pages,      \* pages[u]: what the buttons on the screen of u show
    calling,    \* the handlers that wait for the backend
    late,       \* calls the bot has given up and the backend is still busy with
    clicks,     \* updates so far that made the bot call the backend
    request     \* the requests the backend has, in the order they were made

requestVars == <<dialog, pages, calling, late, clicks, request>>

Fields  == {"amount", "payee", "dest", "deposit", "receipt", "price", "total"}
NoData  == [f \in Fields |-> None]
Cleared == [state |-> None, data |-> NoData]
Ids     == DOMAIN request

RequestsInit ==
    /\ dialog = [u \in Users |-> Cleared]
    /\ pages = [u \in Users |-> {}]
    /\ calling = {}
    /\ late = {}
    /\ clicks = 0
    /\ request = <<>>

\* A step of a conversation that only talks with the user.
Talk(kind) == Update(kind) /\ UNCHANGED <<calling, late, clicks, request>>
Goto(u, state) == dialog' = [dialog EXCEPT ![u].state = state]
Add(u, state, f, v) == dialog' = [dialog EXCEPT ![u].state = state, ![u].data[f] = v]
Show(u, page) == pages' = [pages EXCEPT ![u] = @ \cup {page}]

\* A click or a message that makes the bot call the backend with what it has read.
Call(u, part, kind, page) ==
    /\ Update(part)
    /\ clicks' = clicks + 1
    /\ calling' = calling \cup {[user |-> u, kind |-> kind, page |-> page, data |-> dialog[u].data,
                                 tries |-> IF kind = "withdraw" THEN 3 ELSE 1, click |-> clicks']}
    /\ UNCHANGED <<dialog, pages, late, request>>

-----------------------------------------------------------------------------
(* Withdrawals *)

StartWithdraw(u) ==
    /\ Talk("withdraw")
    /\ dialog' = [dialog EXCEPT ![u] = [Cleared EXCEPT !.state = "w.amount"]]
    /\ UNCHANGED pages

StepAmount(u, a) ==
    /\ dialog[u].state = "w.amount"
    /\ Talk("withdraw")
    /\ Add(u, "w.payee", "amount", a)
    /\ UNCHANGED pages

\* step_name, step_card, step_iban, step_account: the summary ends them.
StepPayee(u, x) ==
    /\ dialog[u].state = "w.payee"
    /\ Talk("withdraw")
    /\ Add(u, "w.confirm", "payee", x)
    /\ Show(u, [kind |-> "withdraw", amount |-> dialog[u].data["amount"], payee |-> x])

EditWithdraw(u) ==
    /\ \E page \in pages[u] : page.kind = "withdraw"
    /\ Talk("withdraw")
    /\ Goto(u, "w.amount")
    /\ UNCHANGED pages

\* cancel_withdraw and deposit_cancel
Cancel(u, kind) ==
    /\ dialog[u] # Cleared
    /\ Talk(kind)
    /\ dialog' = [dialog EXCEPT ![u] = Cleared]
    /\ UNCHANGED pages

\* confirm_withdraw goes by the data, whichever summary was clicked and whatever
\* the state; without an amount and a payee it ends in an error.
ConfirmWithdraw(u, page) ==
    /\ page.kind = "withdraw"
    /\ dialog[u].data["amount"] # None /\ dialog[u].data["payee"] # None
    /\ Call(u, "withdraw", "withdraw", page)

-----------------------------------------------------------------------------
(* Deposits *)

StartDeposit(u) ==
    /\ Talk("deposit")
    /\ dialog' = [dialog EXCEPT ![u] = [Cleared EXCEPT !.state = "d.dest"]]
    /\ Show(u, [kind |-> "dest"])

\* The buttons of the destinations work in any state and keep the data.
ChooseDestination(u) ==
    /\ [kind |-> "dest"] \in pages[u]
    /\ Talk("deposit")
    /\ Add(u, "d.amount", "dest", TRUE)
    /\ UNCHANGED pages

DepositAmount(u) ==
    /\ dialog[u].state = "d.amount"
    /\ dialog[u].data["dest"] # None
    /\ Call(u, "deposit", "deposit", [kind |-> "deposit", of |-> None])

\* A photo is the receipt of the deposit it is sent for.
DepositReceipt(u) ==
    /\ dialog[u].state = "d.receipt"
    /\ Talk("deposit")
    /\ Add(u, "d.confirm", "receipt", dialog[u].data["deposit"])
    /\ Show(u, [kind |-> "receipt", of |-> dialog[u].data["deposit"]])

ConfirmDeposit(u, page) ==
    /\ page.kind = "receipt"
    /\ dialog[u].data["deposit"] # None /\ dialog[u].data["receipt"] # None
    /\ Call(u, "deposit", "receipt", page)

-----------------------------------------------------------------------------
(* Purchases *)

BuyEntry(u) ==
    /\ Talk("buy")
    /\ dialog' = [dialog EXCEPT ![u] = [Cleared EXCEPT !.state = "b.game"]]
    /\ UNCHANGED pages

\* The price is that of the game selected last; the buttons carry the game.
BuySelectGame(u, g) ==
    /\ Talk("buy")
    /\ Add(u, "b.qty", "price", g)
    /\ Show(u, [kind |-> "qty", of |-> g])

BuySelectQty(u, page) ==
    /\ page.kind = "qty"
    /\ Talk("buy")
    /\ Add(u, "b.confirm", "total", dialog[u].data["price"])
    /\ Show(u, [kind |-> "buy", of |-> page.of, priced |-> dialog[u].data["price"]])

BuyConfirm(u, page) ==
    /\ page.kind = "buy"
    /\ Call(u, "buy", "buy", page)

-----------------------------------------------------------------------------
(* The backend *)

Content(t) ==
    CASE t.kind = "withdraw" -> [amount |-> t.data["amount"], payee |-> t.data["payee"]]
      [] t.kind = "buy"      -> [game |-> t.page.of]
      [] t.kind = "deposit"  -> [dest |-> TRUE]

\* create_withdraw_request answers with the pending request of the same content.
Same(t) ==
    {i \in Ids : /\ t.kind = "withdraw" /\ request[i].kind = "withdraw" /\ request[i].user = t.user
                 /\ request[i].content = Content(t) /\ request[i].status = "PENDING"}

FirstStatus(kind) ==
    CASE kind = "withdraw" -> "PENDING" [] kind = "deposit" -> "AWAITING_RECEIPT" [] kind = "buy" -> "BOUGHT"

\* What a call does at the backend: it makes a request, unless it has found it
\* already, or adds a receipt.
Made(t, found) ==
    IF t.kind = "receipt"
    THEN [request EXCEPT ![t.data["deposit"]].status = "PENDING_REVIEW",
                         ![t.data["deposit"]].receipt = t.data["receipt"]]
    ELSE IF found # {} THEN request
    ELSE Append(request, [kind |-> t.kind, user |-> t.user, content |-> Content(t), click |-> t.click,
                          shown |-> t.page, status |-> FirstStatus(t.kind), receipt |-> None])

Refused(t) == t.kind = "receipt" /\ request[t.data["deposit"]].status # "AWAITING_RECEIPT"

\* deposit_amount goes on to the receipt of the deposit it has made.
\* Variant: the deposit is not noted.
ForReceiptBare(data, i) == [state |-> "d.receipt", data |-> data]
ForReceipt(data, i)     == [state |-> "d.receipt", data |-> [data EXCEPT !["deposit"] = i]]

\* The answer arrives: the data is dropped, whatever conversation it is of by now,
\* or the deposit is noted in it.
Answered(t) ==
    /\ t \in calling
    /\ ~ Refused(t)
    /\ request' = Made(t, Same(t))
    /\ dialog' = [dialog EXCEPT ![t.user] =
                     IF t.kind = "deposit" THEN ForReceipt(@.data, Len(request')) ELSE Cleared]
    /\ pages' = [pages EXCEPT ![t.user] = @ \ {t.page}]
    /\ calling' = calling \ {t}
    /\ Continue
    /\ UNCHANGED <<late, clicks>>

RefusedReceipt(t) ==
    /\ t \in calling
    /\ Refused(t)
    /\ calling' = calling \ {t}
    /\ Continue
    /\ UNCHANGED <<dialog, pages, late, clicks, request>>

\* No answer: the call failed, its answer is lost, or the bot stops to wait after
\* ten seconds while the backend goes on with what it has read.  retry_async makes
\* three attempts at a withdrawal; a deposit without an answer ends the conversation.
Unanswered(t, how) ==
    /\ t \in calling
    /\ Fault
    /\ how # "failed" => ~ Refused(t)
    /\ request' = IF how = "lost" THEN Made(t, Same(t)) ELSE request
    /\ late' = IF how = "late" THEN late \cup {[call |-> t, found |-> Same(t)]} ELSE late
    /\ calling' = (calling \ {t}) \cup (IF t.tries > 1 THEN {[t EXCEPT !.tries = @ - 1]} ELSE {})
    /\ dialog' = IF t.kind = "deposit" THEN [dialog EXCEPT ![t.user] = Cleared] ELSE dialog
    /\ UNCHANGED <<pages, clicks>>

LateCommit(x) ==
    /\ x \in late
    /\ request' = Made(x.call, x.found)
    /\ late' = late \ {x}
    /\ Continue
    /\ UNCHANGED <<dialog, pages, calling, clicks>>

RequestsCrash == calling' = {} /\ UNCHANGED <<dialog, pages, late, clicks, request>>

Withdrawing(u) ==
    \/ StartWithdraw(u) \/ EditWithdraw(u) \/ Cancel(u, "withdraw")
    \/ \E a \in Amounts : StepAmount(u, a)
    \/ \E x \in Payees : StepPayee(u, x)
    \/ \E page \in pages[u] : ConfirmWithdraw(u, page)
Depositing(u) ==
    \/ StartDeposit(u) \/ ChooseDestination(u) \/ DepositAmount(u) \/ DepositReceipt(u) \/ Cancel(u, "deposit")
    \/ \E page \in pages[u] : ConfirmDeposit(u, page)
Buying(u) ==
    \/ BuyEntry(u) \/ \E g \in Lots : BuySelectGame(u, g)
    \/ \E page \in pages[u] : BuySelectQty(u, page) \/ BuyConfirm(u, page)

RequestsNext ==
    \/ \E u \in Users : Withdrawing(u) \/ Depositing(u) \/ Buying(u)
    \/ \E t \in calling : Answered(t) \/ RefusedReceipt(t) \/ \E how \in {"failed", "lost", "late"} : Unanswered(t, how)
    \/ \E x \in late : LateCommit(x)

-----------------------------------------------------------------------------
(* Properties *)

\* A conversation that waits for the last word has all that the word is about.
RequestsOK ==
    /\ \A u \in Users :
         LET d == dialog[u]
         IN  /\ d.state \in Steps \cup {None} /\ DOMAIN d.data = Fields
             /\ d.state \in {"w.payee", "w.confirm"} => d.data["amount"] # None
             /\ d.state = "w.confirm" => d.data["payee"] # None
             /\ d.state \in {"d.receipt", "d.confirm"} => d.data["deposit"] \in Ids
             /\ d.state = "d.confirm" => d.data["receipt"] \in Ids
    /\ \A t \in calling : t.user \in Users /\ t.click \in 1 .. clicks /\ t.tries \in 1 .. 3
    /\ \A i \in Ids : request[i].user \in Users /\ request[i].receipt \in Ids \cup {None}

\* What the code says and does not keep (README.md).
\* A click makes one request ("Soft idempotency ... if same PENDING request exists in
\* a recent window, return it", finance_service.py:116-117): the next attempt finds
\* no request if an administrator has decided it meanwhile, or if the backend is not
\* done with the one before.
OneRequestPerClick == \A i, j \in Ids : i # j => request[i].click # request[j].click

\* A withdrawal and a purchase are what the page showed that was confirmed (the
\* summary of withdraw.py:71, the page of purchase.py:192-199): the handlers go by the
\* data of the conversation, which an edit or a newer page has changed.
ShownIsConfirmed ==
    \A i \in Ids :
        /\ request[i].kind = "withdraw" =>
              request[i].content = [amount |-> request[i].shown.amount, payee |-> request[i].shown.payee]
        /\ request[i].kind = "buy" => request[i].shown.priced = request[i].content.game

\* The receipt of a deposit is the one sent for it (deposit.py:460-466).
OwnReceipt == \A i \in Ids : request[i].receipt \in {None, i}
=============================================================================
