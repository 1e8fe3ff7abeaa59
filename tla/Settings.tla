------------------------------ MODULE Settings ------------------------------
(***************************************************************************)
(* The pages of the owner at the bot (routers/super_admin.py) and the      *)
(* settings they change: the cards that deposits are paid to, and whether  *)
(* deposits by bank and by crypto are open.  The Mini App has switches of  *)
(* its own (mini_router.py).                                               *)
(*                                                                         *)
(* A setting is one JSON row of app_settings.  A request reads it and      *)
(* writes all of it, without a lock, so that two may write what they both  *)
(* have read.  A deposit keeps a copy of the card it was asked for.  Only  *)
(* the owner has these pages, in one conversation; his updates are handled *)
(* at the same time as others.  Pages that only show something, and the    *)
(* refusal of unreadable input, are left out.                              *)
(*                                                                         *)
(* A list of destinations is a set of them: they are numbered as they are  *)
(* named, a new one goes to the end of the list and a change keeps its     *)
(* place, so the list is in the order of the numbers.                      *)
(***************************************************************************)
EXTENDS Acl

CONSTANTS
    Cards,          \* card numbers
    EnvPool,        \* the destinations of the environment, while none are saved
    CryptoReady     \* crypto deposits are configured

Destinations == [id : Nat, card : Cards, active : BOOLEAN]
Switches == {"bank", "crypto"}

ASSUME SettingsAssumption ==
    /\ None \notin Cards \cup {"card", "id", "role", "name"}
    /\ EnvPool \subseteq Destinations /\ IsFiniteSet(EnvPool)
    /\ {d.id : d \in EnvPool} = 1 .. Cardinality(EnvPool)
    /\ CryptoReady \in BOOLEAN

VARIABLES
    saved,      \* the row of the destinations, empty until there is one
    switch,     \* switch[s]: the switch of a kind of deposit
    talk,       \* the conversation of the owner
    writes,     \* requests that have read a row and have yet to write it
    named,      \* destinations named so far: names are new (uuid4)
    offered,    \* the destinations a user sees
    deposits    \* the deposits: the card the user saw, and the copy of the destination

settingsVars == <<saved, switch, talk, writes, named, offered, deposits>>

Silent == [state |-> None, edits |-> None, who |-> None, role |-> None]

\* _deposit_destination_pool
Pool == IF saved = {} THEN EnvPool ELSE saved
ActiveOf(pool) == {d \in pool : d.active}
Find(pool, id) == {d \in pool : d.id = id}
First(pool)    == CHOOSE d \in pool : \A e \in pool : d.id <= e.id

SettingsInit ==
    /\ saved = {}
    /\ switch = [s \in Switches |-> s = "bank"]
    /\ talk = Silent
    /\ writes = {}
    /\ named = Cardinality(EnvPool)
    /\ offered = {}
    /\ deposits = <<>>

-----------------------------------------------------------------------------
(* The conversation of the owner *)

Say(new) ==
    /\ Update("settings")
    /\ talk' = new
    /\ UNCHANGED <<saved, switch, writes, named, offered, deposits>>

\* The lists, and the buttons that cancel.
Quit == talk # Silent /\ Say(Silent) /\ UNCHANGED aclVars

\* What an earlier conversation was about is kept by those that start another.
AddCard == Say([talk EXCEPT !.state = "card", !.edits = None]) /\ UNCHANGED aclVars

EditCard(id) ==
    /\ Find(Pool, id) # {}
    /\ Say([talk EXCEPT !.state = "card", !.edits = id])
    /\ UNCHANGED aclVars

AddAdmin    == Say([talk EXCEPT !.state = "id"]) /\ UNCHANGED aclVars
GiveId(p)   == talk.state = "id" /\ Say([talk EXCEPT !.state = "role", !.who = p]) /\ UNCHANGED aclVars

\* The buttons of the roles stay on the screen: they are for whoever was named last.
PickRole(r) ==
    /\ IF talk.who = None THEN Say(Silent) ELSE Say([talk EXCEPT !.state = "name", !.role = r])
    /\ UNCHANGED aclVars

\* With a name the role is given; the conversation ends when that succeeds.
GiveName(lost) ==
    /\ talk.state = "name" /\ talk.who # None /\ talk.role # None
    /\ UpdateCall("settings", lost)
    /\ Granted(talk.who, talk.role, lost)
    /\ talk' = IF lost THEN talk ELSE Silent
    /\ UNCHANGED <<saved, switch, writes, named, offered, deposits>>

-----------------------------------------------------------------------------
(* Changes of the destinations *)

\* admin_add_, admin_update_ and admin_delete_deposit_destination, of what was read.
Changed(w, pool) ==
    LET new == [id |-> w.id, card |-> w.card, active |-> w.active]
    IN  CASE w.kind = "add"    -> pool \cup {new}
          [] w.kind = "edit"   -> {IF d.id = w.id THEN new ELSE d : d \in pool}
          [] w.kind = "delete" -> {d \in pool : d.id # w.id}

\* An unknown destination, the only active one made inactive, the last one deleted.
Denied(w) ==
    \/ w.kind # "add" /\ Find(w.seen, w.id) = {}
    \/ w.kind = "edit" /\ ~ w.active
       /\ {d.id : d \in ActiveOf(w.seen)} = {w.id}
    \/ w.kind = "delete" /\ Changed(w, w.seen) = {}

Request(kind, id, card, active) ==
    [kind |-> kind, id |-> id, card |-> card, active |-> active, seen |-> Pool]

\* The request reads the row; a refused one changes nothing, and leaves the
\* conversation as it was.
Reads(w) == writes' = IF Denied(w) THEN writes ELSE writes \cup {w}

\* The bot writes cards that are active.
CardSubmit(card) ==
    /\ talk.state = "card"
    /\ Update("settings")
    /\ Reads(IF talk.edits = None THEN Request("add", named + 1, card, TRUE)
             ELSE Request("edit", talk.edits, card, TRUE))
    /\ named' = IF talk.edits = None THEN named + 1 ELSE named
    /\ UNCHANGED <<saved, switch, talk, offered, deposits, aclVars>>

\* Another client of the endpoint.
CardPut(id, card, active) ==
    /\ Update("settings")
    /\ Reads(Request("edit", id, card, active))
    /\ UNCHANGED <<saved, switch, talk, named, offered, deposits, aclVars>>

\* The button stays on the screen, also when its destination is gone.
CardDelete(id) ==
    /\ Update("settings")
    /\ talk' = Silent
    /\ Reads(Request("delete", id, None, FALSE))
    /\ UNCHANGED <<saved, switch, named, offered, deposits, aclVars>>

\* The row is written as it follows from what was read.
Written(w) == Changed(w, w.seen)

\* The request writes; without an answer the conversation goes on.
WriteCards(w, lost) ==
    /\ w \in writes
    /\ w.kind \in {"add", "edit", "delete"}
    /\ IF lost THEN Fault ELSE Continue
    /\ saved' = Written(w)
    /\ writes' = writes \ {w}
    /\ talk' = IF lost \/ w.kind = "delete" THEN talk ELSE Silent
    /\ UNCHANGED <<switch, named, offered, deposits, aclVars>>

-----------------------------------------------------------------------------
(* Switches *)

Allowed(s, on) == on => IF s = "bank" THEN ActiveOf(Pool) # {} ELSE CryptoReady

\* The button of the bot reads the switch and sets the opposite.
Toggle(s) ==
    /\ Update("settings")
    /\ writes' = writes \cup {[kind |-> s, id |-> 0, card |-> None, active |-> ~ switch[s], seen |-> {}]}
    /\ UNCHANGED <<saved, switch, talk, named, offered, deposits, aclVars>>

SetSwitch(w) ==
    /\ w \in writes
    /\ w.kind \in Switches
    /\ Continue
    /\ switch' = IF Allowed(w.kind, w.active) THEN [switch EXCEPT ![w.kind] = w.active] ELSE switch
    /\ writes' = writes \ {w}
    /\ UNCHANGED <<saved, talk, named, offered, deposits, aclVars>>

\* The Mini App says which way.
MiniSwitch(s, on) ==
    /\ Update("settings")
    /\ Allowed(s, on)
    /\ switch' = [switch EXCEPT ![s] = on]
    /\ UNCHANGED <<saved, talk, writes, named, offered, deposits, aclVars>>

\* Nothing comes of a call that fails before the backend has written.
CallFails(w) ==
    /\ w \in writes
    /\ Fault
    /\ writes' = writes \ {w}
    /\ UNCHANGED <<saved, switch, talk, named, offered, deposits, aclVars>>

-----------------------------------------------------------------------------
(* Deposits *)

\* list_deposit_destinations
SeePage ==
    /\ Update("payer")
    /\ offered' = IF switch["bank"] THEN ActiveOf(Pool) ELSE {}
    /\ UNCHANGED <<saved, switch, talk, writes, named, deposits, aclVars>>

\* create_deposit_request of the bot: the answer shows the destination once more.
BotDeposit(o) ==
    /\ Update("payer")
    /\ switch["bank"]
    /\ \E d \in Find(ActiveOf(Pool), o.id) : deposits' = Append(deposits, [shown |-> d.card, kept |-> d])
    /\ UNCHANGED <<saved, switch, talk, writes, named, offered, aclVars>>

\* create_deposit of the Mini App: the user pays to what the page shows.
MiniDeposit(o) ==
    /\ Update("payer")
    /\ switch["bank"]
    /\ \E d \in Find(ActiveOf(Pool), o.id) : deposits' = Append(deposits, [shown |-> o.card, kept |-> d])
    /\ UNCHANGED <<saved, switch, talk, writes, named, offered, aclVars>>

\* Without a choice it is the first one, or none.
MiniDepositUnchosen ==
    /\ Update("payer")
    /\ switch["bank"]
    /\ deposits' = Append(deposits, [shown |-> None,
                                     kept |-> IF ActiveOf(Pool) = {} THEN None ELSE First(ActiveOf(Pool))])
    /\ UNCHANGED <<saved, switch, talk, writes, named, offered, aclVars>>

-----------------------------------------------------------------------------

SettingsCrash == writes' = {} /\ UNCHANGED <<saved, switch, talk, named, offered, deposits>>

SettingsNext ==
    \/ Quit \/ AddCard \/ AddAdmin \/ SeePage \/ MiniDepositUnchosen
    \/ \E lost \in BOOLEAN : GiveName(lost) \/ \E w \in writes : WriteCards(w, lost)
    \/ \E p \in People : GiveId(p)
    \/ \E r \in Grantable : PickRole(r)
    \/ \E c \in Cards : CardSubmit(c)
    \/ \E id \in 1 .. named : EditCard(id) \/ CardDelete(id)
    \/ \E id \in 1 .. named, c \in Cards : CardPut(id, c, FALSE)
    \/ \E s \in Switches : Toggle(s) \/ \E on \in BOOLEAN : MiniSwitch(s, on)
    \/ \E w \in writes : SetSwitch(w) \/ CallFails(w)
    \/ \E o \in offered : BotDeposit(o) \/ MiniDeposit(o)

-----------------------------------------------------------------------------
(* Properties *)

\* A number names one destination: no list has it twice, and no list that a request
\* has read has the number the request adds.
Numbered(pool) ==
    /\ pool \subseteq Destinations
    /\ \A d \in pool : d.id <= named /\ Find(pool, d.id) = {d}

WriteOK(w) ==
    /\ w.kind \in {"add", "edit", "delete"} \cup Switches /\ w.active \in BOOLEAN
    /\ Numbered(w.seen)
    /\ w.kind \in {"add", "edit"} => w.id \in Nat /\ w.card \in Cards
    /\ w.kind = "add" => w.id <= named /\ Find(w.seen, w.id) = {}

SettingsOK ==
    /\ named \in Nat
    /\ Numbered(saved) /\ offered \subseteq Destinations
    /\ switch \in [Switches -> BOOLEAN]
    /\ talk \in [state : {None, "card", "id", "role", "name"}, edits : Nat \cup {None},
                 who : People \cup {None}, role : Grantable \cup {None}]
    /\ talk.state = "name" => talk.who # None /\ talk.role # None
    /\ \A w \in writes : WriteOK(w)

\* What the code says and does not keep (README.md).
\* "at least one active destination is required" (bot_router.py:2046) is said of an edit;
\* a deletion only asks that one is left.
ActiveDestination == ActiveOf(EnvPool) # {} => ActiveOf(Pool) # {}

\* "کارت حذف شد." (bot_router.py:2083): a deleted card comes back with a write of what was
\* read before, and a new one is lost.
Others(pool, id) == {d \in pool : d.id # id}
CardsFollow ==
    [][saved # {} => \E id \in 1 .. named : Others(saved, id) = Others(saved', id)]_<<saved>>

\* "یکی از حساب‌های فعال را انتخاب کن" (mini_router.py:2775): the card the user saw is the one
\* that is kept with the deposit.
PaidWhereKept == \A i \in DOMAIN deposits : deposits[i].shown # None => deposits[i].shown = deposits[i].kept.card
=============================================================================
