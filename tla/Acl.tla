-------------------------------- MODULE Acl --------------------------------
(***************************************************************************)
(* The administrators of the bot.  The backend holds their roles           *)
(* (admin_rbac_router.py); the bot decides by a copy of its own, the file  *)
(* storage/admin_acl.json (services/admin_acl.py), which a task refreshes  *)
(* every 30 seconds (main.py) and the pages of the owner refresh and       *)
(* change (routers/super_admin.py).                                        *)
(*                                                                         *)
(* Names shown for administrators are left out.                            *)
(***************************************************************************)
EXTENDS Updates

CONSTANTS
    People,         \* Telegram users with or without roles
    Supers,         \* settings.super_admin_ids
    Static,         \* settings.admin_ids
    Owner,          \* settings.owner_super_admin_id
    Grantable,      \* the roles that are given in the instance
    FirstRoles      \* FirstRoles[p]: the roles p has at first

AllRoles == {"SUPER_ADMIN", "ADMIN", "GAME_OPERATOR", "FINANCE_ADMIN"}

ASSUME AclAssumption ==
    /\ Supers \subseteq People /\ Static \subseteq People /\ Owner \in Supers
    /\ Grantable \subseteq AllRoles /\ None \notin AllRoles
    /\ FirstRoles \in [People -> SUBSET AllRoles]
    /\ "SUPER_ADMIN" \in FirstRoles[Owner]

VARIABLES
    roles,      \* roles[p]: the rows of user_roles
    acl,        \* the file
    reply,      \* reply[c]: the list of administrators on its way to the loop or to a page
    change      \* the grants and revocations the backend has made and the bot has yet to note

aclVars == <<roles, acl, reply, change>>

Readers == {"loop", "page"}
Normal(R) == IF "SUPER_ADMIN" \in R THEN R \cup {"ADMIN"} ELSE R
Empty == [dynamic |-> {}, blocked |-> {}, roles |-> [p \in People |-> {}]]

\* sync_dynamic_admin_roles: the file follows the list.
RolesFrom(list, p) ==
    IF p \in Supers THEN {"SUPER_ADMIN", "ADMIN"}
    ELSE IF p \in Static /\ list[p] = {} THEN {"ADMIN"}
    ELSE Normal(list[p])

\* Variant: who has left the list keeps the old entry.
SyncedMerged(list) ==
    LET listed == {p \in People : list[p] # {}}
    IN  [dynamic |-> acl.dynamic \cup (listed \ (Static \cup Supers)),
         blocked |-> Static \ listed,
         roles   |-> [p \in People |-> RolesFrom(list, p) \cup acl.roles[p]]]
Synced(list) ==
    LET listed == {p \in People : list[p] # {}}
    IN  [dynamic |-> listed \ (Static \cup Supers),
         blocked |-> Static \ listed,
         roles   |-> [p \in People |-> RolesFrom(list, p)]]

\* is_admin_user, what the handlers go by.
Admitted(p) ==
    \/ p \in Supers
    \/ p \notin acl.blocked /\ p \in Static \cup acl.dynamic

\* The start of the bot waits for a first answer of the backend; when that fails it
\* goes on with the file as it is, which is where AclCrash leads.
AclInit ==
    /\ roles = FirstRoles
    /\ acl = [dynamic |-> {p \in People \ (Static \cup Supers) : FirstRoles[p] # {}},
              blocked |-> {p \in Static : FirstRoles[p] = {}},
              roles   |-> [p \in People |-> RolesFrom(FirstRoles, p)]]
    /\ reply = [c \in Readers |-> None]
    /\ change = {}

-----------------------------------------------------------------------------

\* list_admin_accounts answers the loop, or a page of the owner.
AskRoles(c) ==
    /\ reply[c] = None
    /\ IF c = "page" THEN Update("owner") ELSE Continue
    /\ reply' = [reply EXCEPT ![c] = roles]
    /\ UNCHANGED <<roles, acl, change>>

\* _sync_admin_roles_from_backend keeps the file when the list is empty;
\* _fetch_admin_items does not.
Sync(c) ==
    /\ reply[c] # None
    /\ acl' = IF c = "loop" /\ \A p \in People : reply[c][p] = {} THEN acl ELSE Synced(reply[c])
    /\ reply' = [reply EXCEPT ![c] = None]
    /\ Continue
    /\ UNCHANGED <<roles, change>>

SyncFails(c) ==
    /\ reply[c] # None
    /\ Fault
    /\ reply' = [reply EXCEPT ![c] = None]
    /\ UNCHANGED <<roles, acl, change>>

\* grant_admin_account and revoke_admin_account.  The page of the bot notes the change
\* when it has the answer; an answer that is lost leaves it to the next list.
Noted(op, p, r, lost) == IF lost THEN change ELSE change \cup {[op |-> op, who |-> p, role |-> r]}

Granted(p, r, lost) ==
    /\ p # Owner
    /\ r \in Grantable
    /\ roles' = [roles EXCEPT ![p] = @ \cup {r}]
    /\ change' = Noted("grant", p, r, lost)
    /\ UNCHANGED <<acl, reply>>

Grant(p, r, lost) == UpdateCall("owner", lost) /\ Granted(p, r, lost)

\* The last super admin keeps the role.
OtherSuper(p) == \E q \in People \ {p} : "SUPER_ADMIN" \in roles[q]

Revoke(p, lost) ==
    /\ UpdateCall("owner", lost)
    /\ p # Owner
    /\ "SUPER_ADMIN" \in roles[p] => OtherSuper(p)
    /\ roles' = [roles EXCEPT ![p] = {}]
    /\ change' = Noted("revoke", p, None, lost)
    /\ UNCHANGED <<acl, reply>>

\* The owner at the Mini App, of which the bot hears with the next list.  He may change
\* his own roles as well, all but the one of a super admin, and take single roles away.
MiniGrant(p, r) ==
    /\ Update("owner")
    /\ r \in Grantable
    /\ roles' = [roles EXCEPT ![p] = @ \cup {r}]
    /\ UNCHANGED <<acl, reply, change>>

MiniRevoke(p, R) ==
    /\ Update("owner")
    /\ "SUPER_ADMIN" \in roles[p] \cap R => p # Owner /\ OtherSuper(p)
    /\ roles' = [roles EXCEPT ![p] = @ \ R]
    /\ UNCHANGED <<acl, reply, change>>

\* grant_dynamic_admin and revoke_dynamic_admin
NoteGrant(p, r) ==
    /\ [op |-> "grant", who |-> p, role |-> r] \in change
    /\ acl' = [dynamic |-> acl.dynamic \cup ({p} \ (Static \cup Supers)),
               blocked |-> acl.blocked \ {p},
               roles   |-> [acl.roles EXCEPT ![p] = Normal(@ \cup {r})]]
    /\ change' = change \ {[op |-> "grant", who |-> p, role |-> r]}
    /\ Continue
    /\ UNCHANGED <<roles, reply>>

NoteRevoke(p) ==
    /\ [op |-> "revoke", who |-> p, role |-> None] \in change
    /\ acl' = IF p \in Supers THEN acl
              ELSE [dynamic |-> acl.dynamic \ {p},
                    blocked |-> IF p \in Static THEN acl.blocked \cup {p} ELSE acl.blocked \ {p},
                    roles   |-> [acl.roles EXCEPT ![p] = {}]]
    /\ change' = change \ {[op |-> "revoke", who |-> p, role |-> None]}
    /\ Continue
    /\ UNCHANGED <<roles, reply>>

\* The process ends; in the middle of a write the file is cut, and read as empty.
AclCrash(torn) ==
    /\ torn => change # {} \/ \E c \in Readers : reply[c] # None
    /\ acl' = IF torn THEN Empty ELSE acl
    /\ reply' = [c \in Readers |-> None]
    /\ change' = {}
    /\ UNCHANGED roles

AclNext ==
    \/ \E c \in Readers : AskRoles(c) \/ Sync(c) \/ SyncFails(c)
    \/ \E p \in People, lost \in BOOLEAN : Revoke(p, lost) \/ \E r \in Grantable : Grant(p, r, lost)
    \/ \E p \in People :
         \/ NoteRevoke(p) \/ \E r \in Grantable : NoteGrant(p, r) \/ MiniGrant(p, r)
         \/ \E R \in {AllRoles} \cup {{r} : r \in AllRoles} : MiniRevoke(p, R)

\* The loop of main.py runs for ever.
AclFairness ==
    /\ WF_<<aclVars, left, faults>>(AskRoles("loop"))
    /\ WF_<<aclVars, left, faults>>(Sync("loop"))
    /\ \A p \in People :
         /\ WF_<<aclVars, left, faults>>(NoteRevoke(p))
         /\ \A r \in Grantable : WF_<<aclVars, left, faults>>(NoteGrant(p, r))

-----------------------------------------------------------------------------
(* Properties *)

AclOK ==
    /\ roles \in [People -> SUBSET AllRoles]
    /\ acl \in [dynamic : SUBSET (People \ (Static \cup Supers)), blocked : SUBSET Static,
                roles : [People -> SUBSET AllRoles]]
    /\ \A p \in People : acl.roles[p] = Normal(acl.roles[p])
    /\ reply \in [Readers -> [People -> SUBSET AllRoles] \cup {None}]

Agrees ==
    \A p \in People \ Supers :
        /\ Admitted(p) <=> roles[p] # {}
        /\ Admitted(p) => acl.roles[p] = Normal(roles[p])

\* Once nobody changes roles any more, the bot comes to admit those who have a role
\* and to know which, whatever answers were lost or late and wherever it crashed
\* ("Keep bot admin ACL cache in sync with backend RBAC", main.py:127).
AclFollowsRoles == <>[]Agrees

\* What the code says and does not keep (README.md): who is admitted has a role.
\* "admin.revoke" is applied in the bot at once (super_admin.py:474-475), but a list
\* that was asked for before may arrive after it; and an empty file blocks nobody.
OnlyWithRole == [][\A p \in People : ~ Admitted(p) /\ Admitted(p)' => roles[p] # {}]_acl
=============================================================================
