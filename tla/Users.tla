------------------------------- MODULE Users --------------------------------
(***************************************************************************)
(* The administrators of users at the bot (routers/admin_users.py) and at  *)
(* the backend (admin_users_router.py): they restrict users and lift       *)
(* restrictions, correct wallets, and write messages to users.  A          *)
(* restriction names actions and may end at a time; requests of the user   *)
(* ask for it first (user_restriction_service.py), and the bot before them *)
(* (middlewares/blocked_user.py).                                          *)
(*                                                                         *)
(* All restrictions are one JSON row of app_settings, and so is the log of *)
(* corrections: a request reads the row and writes all of it, without a    *)
(* lock.  The row of the audit log is written in the transaction of what   *)
(* it records.  The search for users and the pages about one are left out. *)
(***************************************************************************)
EXTENDS Acl, Bags

CONSTANTS
    Players,        \* the users who are restricted and corrected
    Restrictable,   \* what a restriction can forbid
    Sentences,      \* the restrictions that are given: what they forbid, and for how long
    EndOfTime       \* how long the instance looks

ASSUME UsersAssumption ==
    /\ EndOfTime \in Nat
    /\ None \notin Players \cup {"restrict", "unrestrict", "adjust", "notify"}
    /\ \A c \in Sentences : c.forbids \subseteq Restrictable /\ c.minutes \in {None} \cup Nat

VARIABLES
    now,        \* the time
    bans,       \* bans[u]: the record of u in the row of restrictions
    subject,    \* subject[p]: the conversation of an administrator: what to do to whom
    jobs,       \* requests that have read and have yet to write
    posted,     \* corrections in the ledger
    log,        \* the row of corrections
    audit,      \* the rows of the audit log
    inbox,      \* messages users got
    passed      \* requests of users that were found not to be restricted

usersVars == <<now, bans, subject, jobs, posted, log, audit, inbox, passed>>

NoSubject == [state |-> None, who |-> None, no |-> 0]
NotBanned == [active |-> FALSE, forbids |-> {}, until |-> None]

\* The scenes: restrictions, and wallets and messages.
Part(kind) == IF kind \in {"restrict", "unrestrict"} THEN "bans" ELSE "money"

\* restriction_state_from_record: a restriction is over when its time has passed.
InForce(u) == bans[u].active /\ (bans[u].until = None \/ bans[u].until >= now)
Forbidden(u, a) == InForce(u) /\ a \in bans[u].forbids

UsersInit ==
    /\ now = 0
    /\ bans = [u \in Players |-> NotBanned]
    /\ subject = [p \in People |-> NoSubject]
    /\ jobs = {}
    /\ posted = EmptyBag
    /\ log = <<>>
    /\ audit = {}
    /\ inbox = {}
    /\ passed = {}

-----------------------------------------------------------------------------
(* Conversations *)

\* admin_users_restrict_start, ..._unrestrict_start, ..._adjust_start, ..._notify_start
OpenFor(p, u, state) ==
    /\ Update(Part(state)) /\ Admitted(p)
    /\ subject' = [subject EXCEPT ![p] = [state |-> state, who |-> u, no |-> left[Part(state)]]]
    /\ UNCHANGED <<now, bans, jobs, posted, log, audit, inbox, passed>>

\* The panel, the search, the prepared messages and the buttons that cancel.
Dismiss(p) ==
    /\ subject[p] # NoSubject
    /\ Update(Part(subject[p].state)) /\ Admitted(p)
    /\ subject' = [subject EXCEPT ![p] = NoSubject]
    /\ UNCHANGED <<now, bans, jobs, posted, log, audit, inbox, passed>>

\* A message of the conversation calls the backend, which reads.
Submit(p, kind, data) ==
    /\ subject[p].state = kind
    /\ Update(Part(kind)) /\ Admitted(p)
    /\ jobs' = jobs \cup {[kind |-> kind, by |-> p, who |-> subject[p].who, no |-> subject[p].no,
                           at |-> left[Part(kind)], told |-> FALSE, data |-> data]}
    /\ UNCHANGED <<now, bans, subject, posted, log, audit, inbox, passed>>

\* The time of a restriction is absolute when it is stored (_parse_until).
RestrictSubmit(p, c) ==
    Submit(p, "restrict", [seen |-> bans, forbids |-> c.forbids,
                           until |-> IF c.minutes = None THEN None ELSE now + c.minutes])
UnrestrictSubmit(p) == Submit(p, "unrestrict", [seen |-> bans])
AdjustSubmit(p)     == Submit(p, "adjust", [seen |-> log])
NotifySubmit(p)     == Submit(p, "notify", None)

\* The page of the Mini App asks the same of the backend, with no conversation and for
\* an administrator by the roles he has now.
MiniSubmit(p, u, kind, extra, data) ==
    /\ Update("members")
    /\ p \in Static \cup Supers \/ roles[p] \cap ({"ADMIN", "SUPER_ADMIN"} \cup extra) # {}
    /\ jobs' = jobs \cup {[kind |-> kind, by |-> None, who |-> u, no |-> left["members"],
                           at |-> left["members"], told |-> FALSE, data |-> data]}
    /\ UNCHANGED <<now, bans, subject, posted, log, audit, inbox, passed>>

MiniRestrict(p, u, c) ==
    MiniSubmit(p, u, "restrict", {}, [seen |-> bans, forbids |-> c.forbids,
                                      until |-> IF c.minutes = None THEN None ELSE now + c.minutes])
MiniUnrestrict(p, u) == MiniSubmit(p, u, "unrestrict", {}, [seen |-> bans])
MiniAdjust(p, u)     == MiniSubmit(p, u, "adjust", {"FINANCE_ADMIN"}, [seen |-> log])
MiniNotify(p, u)     == MiniSubmit(p, u, "notify", {}, None)

\* A prepared message is sent from the page, and no conversation needed.
ComposePick(p, u) ==
    /\ Update("money") /\ Admitted(p)
    /\ inbox' = inbox \cup {[to |-> u, what |-> "prepared"]}
    /\ UNCHANGED <<now, bans, subject, jobs, posted, log, audit, passed>>

-----------------------------------------------------------------------------
(* What the backend does *)

\* The user is told of a correction, and of nothing else by restrictions, before the
\* transaction ends.  A message that is not sent does not stop a correction.
Tell(j, sent) ==
    /\ j \in jobs
    /\ j.kind \in {"adjust", "notify"} /\ ~ j.told
    /\ IF sent THEN Continue ELSE Fault
    /\ inbox' = IF sent THEN inbox \cup {[to |-> j.who, what |-> j.kind]} ELSE inbox
    /\ jobs' = (jobs \ {j}) \cup (IF sent \/ j.kind = "adjust" THEN {[j EXCEPT !.told = TRUE]} ELSE {})
    /\ UNCHANGED <<now, bans, subject, posted, log, audit, passed>>

\* admin_user_restrict updates the record it found.
\* Variant: a time that is not given leaves the one there is.
RestrictedMerged(j) ==
    [j.data.seen EXCEPT ![j.who] = [active |-> TRUE, forbids |-> j.data.forbids,
                                    until |-> IF j.data.until = None THEN @.until ELSE j.data.until]]
Restricted(j) ==
    [j.data.seen EXCEPT ![j.who] = [active |-> TRUE, forbids |-> j.data.forbids, until |-> j.data.until]]
Lifted(j) == [j.data.seen EXCEPT ![j.who].active = FALSE]

Audited(j) ==
    [what |-> j.kind, who |-> j.who,
     forbids |-> IF j.kind = "restrict" THEN j.data.forbids ELSE {},
     until |-> IF j.kind = "restrict" THEN j.data.until ELSE None]

Correction(j) == [who |-> j.who, by |-> j.by, no |-> j.no]

\* The transaction ends, with all of it.  With the answer the conversation is dropped,
\* whatever it is about by now; without, it goes on.
Commit(j, lost) ==
    /\ j \in jobs
    /\ j.kind \in {"adjust", "notify"} => j.told
    /\ IF lost THEN Fault ELSE Continue
    /\ bans' = CASE j.kind = "restrict"   -> Restricted(j)
                 [] j.kind = "unrestrict" -> Lifted(j)
                 [] OTHER                 -> bans
    /\ posted' = IF j.kind = "adjust" THEN posted (+) SetToBag({Correction(j)}) ELSE posted
    /\ log' = IF j.kind = "adjust" THEN Append(j.data.seen, Correction(j)) ELSE log
    /\ audit' = IF j.kind = "notify" THEN audit ELSE audit \cup {Audited(j)}
    /\ jobs' = jobs \ {j}
    /\ subject' = IF lost \/ j.by = None THEN subject ELSE [subject EXCEPT ![j.by] = NoSubject]
    /\ UNCHANGED <<now, inbox, passed>>

JobFails(j) ==
    /\ j \in jobs
    /\ Fault
    /\ jobs' = jobs \ {j}
    /\ UNCHANGED <<now, bans, subject, posted, log, audit, inbox, passed>>

-----------------------------------------------------------------------------
(* Users *)

\* The bot asks whether the user is restricted at all, and lets him pass when it gets
\* no answer, or when he is one of its administrators; the backend asks for the action.
Begin(u, a, inBot, unanswered) ==
    /\ UpdateCall("player", unanswered)
    /\ unanswered => inBot
    /\ inBot /\ ~ unanswered /\ u \notin Static \cup Supers => ~ InForce(u)
    /\ ~ Forbidden(u, a)
    /\ passed' = passed \cup {[who |-> u, what |-> a]}
    /\ UNCHANGED <<now, bans, subject, jobs, posted, log, audit, inbox>>

\* What the user wanted is done.
Finish(x) ==
    /\ x \in passed
    /\ passed' = passed \ {x}
    /\ Continue
    /\ UNCHANGED <<now, bans, subject, jobs, posted, log, audit, inbox>>

TimePasses ==
    /\ now < EndOfTime
    /\ left["bans"] > 0 \/ left["members"] > 0 \/ jobs # {} \/ passed # {}
    /\ now' = now + 1
    /\ Continue
    /\ UNCHANGED <<bans, subject, jobs, posted, log, audit, inbox, passed>>

-----------------------------------------------------------------------------

UsersCrash == jobs' = {} /\ UNCHANGED <<now, bans, subject, posted, log, audit, inbox, passed>>

UsersNext ==
    \/ \E p \in People :
         \/ Dismiss(p) \/ UnrestrictSubmit(p) \/ AdjustSubmit(p) \/ NotifySubmit(p)
         \/ \E c \in Sentences : RestrictSubmit(p, c)
         \/ \E u \in Players :
              \/ MiniUnrestrict(p, u) \/ MiniAdjust(p, u) \/ MiniNotify(p, u)
              \/ \E c \in Sentences : MiniRestrict(p, u, c)
              \/ ComposePick(p, u) \/ \E s \in {"restrict", "unrestrict", "adjust", "notify"} : OpenFor(p, u, s)
    \/ \E j \in jobs : JobFails(j) \/ \E b \in BOOLEAN : Tell(j, b) \/ Commit(j, b)
    \/ \E u \in Players, a \in Restrictable, inBot, unanswered \in BOOLEAN : Begin(u, a, inBot, unanswered)
    \/ \E x \in passed : Finish(x)
    \/ TimePasses

-----------------------------------------------------------------------------
(* Properties *)

UsersOK ==
    /\ now \in 0 .. EndOfTime
    /\ \A u \in Players : bans[u].active \in BOOLEAN /\ bans[u].forbids \subseteq Restrictable
    /\ DOMAIN subject = People
    /\ \A p \in People : subject[p].state # None => subject[p].who \in Players
    /\ \A j \in jobs : j.by \in People \cup {None} /\ j.who \in Players
    /\ IsABag(posted)
    /\ \A x \in passed : x.who \in Players /\ x.what \in Restrictable

\* A user who is held back is held back by a restriction that an administrator has
\* decided, that names this user, these actions and this time, and that the audit log
\* shows: also when a request that read the restrictions earlier writes them back.
RestrictedAsDecided ==
    \A u \in Players : InForce(u) =>
        [what |-> "restrict", who |-> u, forbids |-> bans[u].forbids, until |-> bans[u].until] \in audit

\* What the code says and does not keep (README.md).
\* "رفع محدودیت شد" and "محدود شد" (admin_users.py:521, 578) are said of one user; the row is
\* written as it was read, and what was decided on another user meanwhile is lost.
OthersUntouched ==
    [][\A j \in jobs \ jobs' : \A u \in Players \ {j.who} : bans'[u] = bans[u]]_<<jobs, bans>>

\* A correction is made once for one conversation: the bot sends no idempotency key, so
\* one that was made and not answered is made again (admin_users_router.py:929-931).
AdjustedOnce == \A x \in BagToSet(posted) : posted[x] = 1

\* The log has every correction (admin_users_router.py:974).
LogComplete == BagCardinality(posted) = Len(log)

\* A message about a correction is about one that is made (admin_users_router.py:985).
ToldOfPosted ==
    \A m \in inbox : m.what = "adjust" =>
        \/ \E x \in BagToSet(posted) : x.who = m.to
        \/ \E j \in jobs : j.who = m.to

\* "حساب شما توسط مدیریت محدود شده است" (user_restriction_service.py:119): what was asked for
\* before the restriction is still done after it.
NothingWhileRestricted == [][\A x \in passed \ passed' : ~ Forbidden(x.who, x.what)]_passed
=============================================================================
