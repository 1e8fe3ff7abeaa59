-------------------------------- MODULE Desk --------------------------------
(***************************************************************************)
(* The desk of the finance administrators (routers/admin_finance.py): they *)
(* approve and reject deposits, approve, reject and pay withdrawals, and   *)
(* the bot tells the user.  The reasons of a rejection and the receipt of  *)
(* a payment are asked for in a conversation.  The Mini App has the same   *)
(* decisions (mini_router.py), where the backend itself writes to the user *)
(* and the proof of a payment is saved before the payment is marked.       *)
(*                                                                         *)
(* The call of the backend is one step (bot_router.py, finance_service.py; *)
(* how it treats the row is in Finance.tla) and the message to the user    *)
(* another, since answers to the administrator are awaited in between.     *)
(***************************************************************************)
EXTENDS Requests, Bags

ASSUME DeskAssumption == None \notin {"reject", "receipt", "user"}

VARIABLES
    desk,       \* desk[p]: the conversation of an administrator
    outbox,     \* messages to users that handlers are about to send
    ruled,      \* the decisions the backend has taken
    told,       \* the decisions users have been told of, as often as they were
    proofs,     \* the settings of the proofs of payments, one for a withdrawal
    paying,     \* pages of the Mini App that have saved a proof and go on to the payment
    slips       \* the proofs that users got from the Mini App

proofVars == <<proofs, paying, slips>>
deskVars  == <<desk, outbox, ruled, told, proofVars>>

Free == [state |-> None, id |-> None, seen |-> None]

DeskInit ==
    /\ desk = [p \in People |-> Free]
    /\ outbox = {}
    /\ ruled = EmptyBag
    /\ told = EmptyBag
    /\ proofs = {}
    /\ paying = {}
    /\ slips = {}

IsKind(i, kind) == i \in Ids /\ request[i].kind = kind

\* The backend decides request i for p, and somebody goes on to tell the user: the
\* bot, or the route of the Mini App.
Decide(p, i, what, from, status, via, tells, no) ==
    /\ request[i].status \in from
    /\ request' = [request EXCEPT ![i].status = status]
    /\ ruled' = ruled (+) SetToBag({[id |-> i, what |-> what]})
    /\ outbox' = IF tells THEN outbox \cup {[by |-> p, id |-> i, what |-> what, via |-> via, no |-> no]}
                 ELSE outbox
    /\ UNCHANGED told

\* A lost answer leaves the user untold, and a refused call changes nothing.
RuleFor(p, i, what, from, status, tells, lost) ==
    /\ UpdateCall("desk", lost)
    /\ Admitted(p)
    /\ Decide(p, i, what, from, status, "bot", ~ lost /\ tells, left["desk"])
    /\ UNCHANGED proofVars

Rule(p, i, what, from, status, lost) ==
    RuleFor(p, i, what, from, status, what # "approve withdraw", lost)

\* The roles of the backend and of its configuration, without a copy.
InFinance(p) == p \in Static \cup Supers \/ roles[p] \cap {"ADMIN", "SUPER_ADMIN", "FINANCE_ADMIN"} # {}

MiniRule(p, i, what, from, status) ==
    /\ Update("cash")
    /\ InFinance(p)
    /\ Decide(p, i, what, from, status, "mini", what # "approve withdraw", left["cash"])
    /\ UNCHANGED <<desk, proofVars>>

Quiet == UNCHANGED <<dialog, pages, calling, late, clicks>>

-----------------------------------------------------------------------------
(* Decisions *)

ApproveDeposit(p, i, lost) ==
    /\ IsKind(i, "deposit")
    /\ Rule(p, i, "approve", {"PENDING_REVIEW"}, "APPROVED", lost)
    /\ Quiet
    /\ UNCHANGED desk

MiniApproveDeposit(p, i) ==
    /\ IsKind(i, "deposit")
    /\ MiniRule(p, i, "approve", {"PENDING_REVIEW"}, "APPROVED")
    /\ Quiet

\* The user is told of a withdrawal when it is paid or rejected.
ApproveWithdraw(p, i, lost) ==
    /\ IsKind(i, "withdraw")
    /\ Rule(p, i, "approve withdraw", {"PENDING"}, "APPROVED", lost)
    /\ Quiet
    /\ UNCHANGED desk

MiniApproveWithdraw(p, i) ==
    /\ IsKind(i, "withdraw")
    /\ MiniRule(p, i, "approve withdraw", {"PENDING"}, "APPROVED")
    /\ Quiet

\* The conversation asks the backend whose request it is, and goes on without knowing
\* when it gets no answer.
AskReason(p, i, lost) ==
    /\ UpdateCall("desk", lost)
    /\ Admitted(p)
    /\ desk' = [desk EXCEPT ![p] = [state |-> "reject", id |-> i, seen |-> IF lost THEN None ELSE "user"]]
    /\ Quiet
    /\ UNCHANGED <<request, outbox, ruled, told, proofVars>>

RejectDepositStart(p, i, lost)  == IsKind(i, "deposit") /\ AskReason(p, i, lost)
RejectWithdrawStart(p, i, lost) == IsKind(i, "withdraw") /\ AskReason(p, i, lost)

OpenDeposit  == {"PENDING_REVIEW", "AWAITING_RECEIPT"}
OpenWithdraw == {"PENDING"}
Rejectable(i) == IF request[i].kind = "deposit" THEN OpenDeposit ELSE OpenWithdraw

\* A reason that is typed, or one of the buttons.
Rejects(p, lost) ==
    /\ desk[p].state = "reject"
    /\ RuleFor(p, desk[p].id, "reject", Rejectable(desk[p].id), "REJECTED", desk[p].seen # None, lost)
    /\ desk' = IF lost THEN desk ELSE [desk EXCEPT ![p] = Free]
    /\ Quiet

RejectSubmit(p, lost) == Rejects(p, lost)
RejectQuick(p, lost)  == Rejects(p, lost)

MiniReject(p, i) ==
    /\ IsKind(i, "deposit") \/ IsKind(i, "withdraw")
    /\ MiniRule(p, i, "reject", Rejectable(i), "REJECTED")
    /\ Quiet

AdminCancel(p) ==
    /\ desk[p] # Free
    /\ Update("desk")
    /\ Admitted(p)
    /\ desk' = [desk EXCEPT ![p] = Free]
    /\ Quiet
    /\ UNCHANGED <<request, outbox, ruled, told, proofVars>>

-----------------------------------------------------------------------------
(* The payment of a withdrawal and its receipt *)

\* The conversation remembers the status it starts with.
ReceiptStart(p, i) ==
    /\ IsKind(i, "withdraw")
    /\ Update("desk")
    /\ Admitted(p)
    /\ desk' = [desk EXCEPT ![p] = [state |-> "receipt", id |-> i, seen |-> request[i].status]]
    /\ Quiet
    /\ UNCHANGED <<request, outbox, ruled, told, proofVars>>

\* Variant: only a withdrawal that was approved at the start is marked.
NeedsMarkApproved(seen) == seen = "APPROVED"
NeedsMark(seen) == seen # "PAID"

\* The receipt marks the withdrawal as paid, if the conversation does not know that it
\* is, and goes to the user.
ReceiptMark(p, lost) ==
    /\ desk[p].state = "receipt"
    /\ NeedsMark(desk[p].seen)
    /\ Rule(p, desk[p].id, "paid", {"APPROVED"}, "PAID", lost)
    /\ Quiet
    /\ UNCHANGED desk

ReceiptAgain(p) ==
    /\ desk[p].state = "receipt"
    /\ ~ NeedsMark(desk[p].seen)
    /\ Update("desk")
    /\ Admitted(p)
    /\ outbox' = outbox \cup {[by |-> p, id |-> desk[p].id, what |-> "paid", via |-> "bot", no |-> left["desk"]]}
    /\ Quiet
    /\ UNCHANGED <<request, desk, ruled, told, proofVars>>

\* submitWithdrawProofModal saves the proof first: an image that is not sent along is
\* the one there is.  Then it marks the payment, which can be refused by now.
SaveProof(p, i, image) ==
    /\ IsKind(i, "withdraw")
    /\ InFinance(p)
    /\ request[i].status \in {"APPROVED", "PAID"}
    /\ Update("cash")
    /\ LET old == {x \in proofs : x.id = i}
           kept == IF old = {} THEN None ELSE (CHOOSE x \in old : TRUE).image
       IN  proofs' = (proofs \ old) \cup {[id |-> i, text |-> p, image |-> IF image THEN p ELSE kept]}
    /\ paying' = paying \cup {[by |-> p, id |-> i, no |-> left["cash"]]}
    /\ Quiet
    /\ UNCHANGED <<request, desk, outbox, ruled, told, slips>>

MiniPaid(x) ==
    /\ x \in paying
    /\ IsKind(x.id, "withdraw") /\ InFinance(x.by)
    /\ Decide(x.by, x.id, "paid", {"APPROVED"}, "PAID", "mini", TRUE, x.no)
    /\ paying' = paying \ {x}
    /\ Continue
    /\ Quiet
    /\ UNCHANGED <<desk, proofs, slips>>

MiniPaidRefused(x) ==
    /\ x \in paying
    /\ IF request[x.id].status = "APPROVED" /\ InFinance(x.by) THEN Fault ELSE Continue
    /\ paying' = paying \ {x}
    /\ Quiet
    /\ UNCHANGED <<request, desk, outbox, ruled, told, proofs, slips>>

\* A receipt that the bot has sent ends the conversation the administrator is in by now.
\* The Mini App sends the proof that is saved by now.
Deliver(m) ==
    /\ m \in outbox
    /\ outbox' = outbox \ {m}
    /\ told' = told (+) SetToBag({[id |-> m.id, what |-> m.what]})
    /\ desk' = IF m.what = "paid" /\ m.via = "bot" THEN [desk EXCEPT ![m.by] = Free] ELSE desk
    /\ slips' = IF m.what = "paid" /\ m.via = "mini"
                THEN slips \cup {[by |-> m.by, proof |-> x] : x \in {y \in proofs : y.id = m.id}} ELSE slips
    /\ Continue
    /\ Quiet
    /\ UNCHANGED <<request, ruled, proofs, paying>>

DeliverFails(m) ==
    /\ m \in outbox
    /\ Fault
    /\ outbox' = outbox \ {m}
    /\ Quiet
    /\ UNCHANGED <<request, desk, ruled, told, proofVars>>

\* The bot crashes; what the backend is about to send, it sends.
DeskCrash == outbox' = {m \in outbox : m.via = "mini"} /\ UNCHANGED <<desk, ruled, told, proofVars>>

DeskNext ==
    \/ \E p \in People :
         \/ AdminCancel(p) \/ ReceiptAgain(p)
         \/ \E i \in Ids :
              \/ ReceiptStart(p, i)
              \/ MiniApproveDeposit(p, i) \/ MiniApproveWithdraw(p, i) \/ MiniReject(p, i)
              \/ \E image \in BOOLEAN : SaveProof(p, i, image)
         \/ \E lost \in BOOLEAN :
              \/ RejectSubmit(p, lost) \/ RejectQuick(p, lost) \/ ReceiptMark(p, lost)
              \/ \E i \in Ids :
                   \/ ApproveDeposit(p, i, lost) \/ ApproveWithdraw(p, i, lost)
                   \/ RejectDepositStart(p, i, lost) \/ RejectWithdrawStart(p, i, lost)
    \/ \E x \in paying : MiniPaid(x) \/ MiniPaidRefused(x)
    \/ \E m \in outbox : Deliver(m) \/ DeliverFails(m)

-----------------------------------------------------------------------------
(* Properties *)

Whats == {"approve", "approve withdraw", "reject", "paid"}

DeskOK ==
    /\ \A p \in People : /\ desk[p].state \in {None, "reject", "receipt"}
                         /\ desk[p].state # None => desk[p].id \in Ids
    /\ \A m \in outbox : m.by \in People /\ m.id \in Ids /\ m.what \in Whats
    /\ \A x \in paying : x.by \in People
    /\ \A x \in paying \cup proofs : IsKind(x.id, "withdraw")
    /\ \A b \in {ruled, told} : \A m \in BagToSet(b) : m.id \in Ids /\ m.what \in Whats

\* Users are told what the backend has decided and not more often than it has: of an
\* approval or a rejection once for every time it was made, and of a payment only
\* when the withdrawal is paid, whatever the administrators do at the same time and
\* however old the conversation is in which they do it.
ToldAsDecided ==
    \A m \in BagToSet(told) :
        IF m.what = "paid" THEN request[m.id].status = "PAID"
        ELSE BagIn(m, ruled) /\ told[m] <= ruled[m]

\* What the code says and does not keep (README.md).
\* "فقط یک پیام نهایی برای کاربر ارسال می‌شود" (admin_finance.py:1987): two conversations
\* about a paid withdrawal tell the user twice.
OneFinalMessage == \A m \in BagToSet(told) : m.what = "paid" => told[m] = 1

\* "ارسال رسید به کاربر انجام نشد. دوباره تلاش کن." (admin_finance.py:2082): the conversation
\* still has the status it started with, so the next receipt is refused by the backend.
TryAgainWorks ==
    \A p \in People :
        desk[p].state = "receipt" /\ request[desk[p].id].status = "PAID" /\ ~ (\E m \in outbox : m.by = p)
            => desk[p].seen = "PAID"

\* "فیش پرداخت ثبت شد و برداشت پرداخت‌شده شد." (app.js:8090): the proof the user gets is that of
\* the administrator who marked the payment.
OwnProof == \A s \in slips : s.proof.text = s.by /\ s.proof.image \in {None, s.by}
=============================================================================
