------------------------------ MODULE Monitors ------------------------------
(***************************************************************************)
(* The live monitors of administrators (routers/admin_games.py): a task    *)
(* per chat redraws a message with the report of a game every three        *)
(* seconds until it is switched off, replaced or fails.  ADMIN_MONITORS    *)
(* remembers the task of a chat.                                           *)
(*                                                                         *)
(* A task is the number it was started under.  A cancelled task ends at    *)
(* its next await, before it changes anything.  What a monitor shows is    *)
(* left out.                                                               *)
(***************************************************************************)
EXTENDS Acl

CONSTANTS
    Chats,          \* the chats administrators write from
    Watched         \* the games there are to watch

VARIABLES
    job,        \* ADMIN_MONITORS: job[c] the task of chat c, or None
    task,       \* task[t]: the chat and the game of a task that runs
    started     \* tasks started so far

monitorVars == <<job, task, started>>

Running == DOMAIN task

MonitorsInit ==
    /\ job = [c \in Chats |-> None]
    /\ task = <<>>
    /\ started = 0

Keep(T) == [t \in T |-> task[t]]

-----------------------------------------------------------------------------

\* _monitor_job: a task that is over does not count.
MonitorJob(c) == IF job[c] \in Running THEN job[c] ELSE None

\* Variant: the task that ran before goes on.
CancelledNone(c) == {}
Cancelled(c) == {MonitorJob(c)} \ {None}

\* admin_monitor_auto_on
AutoOn(p, c, g) ==
    /\ Update("monitor")
    /\ Admitted(p)
    /\ MonitorJob(c) # None => task[MonitorJob(c)].game # g
    /\ started' = started + 1
    /\ task' = [t \in (Running \ Cancelled(c)) \cup {started'} |->
                    IF t = started' THEN [chat |-> c, game |-> g] ELSE task[t]]
    /\ job' = [job EXCEPT ![c] = started']

\* admin_monitor_auto_off
AutoOff(p, c) ==
    /\ Update("monitor")
    /\ Admitted(p)
    /\ job[c] # None
    /\ task' = Keep(Running \ {job[c]})
    /\ job' = [job EXCEPT ![c] = None]
    /\ UNCHANGED started

\* _monitor_loop ends: Telegram refuses the message.  It forgets itself, and not
\* the task that has replaced it.  Every other error is waited out.
MonitorFails(t) ==
    /\ t \in Running
    /\ Fault
    /\ task' = Keep(Running \ {t})
    /\ job' = [job EXCEPT ![task[t].chat] = IF @ = t THEN None ELSE @]
    /\ UNCHANGED started

MonitorsCrash ==
    /\ job' = [c \in Chats |-> None]
    /\ task' = <<>>
    /\ UNCHANGED started

MonitorsNext ==
    \/ \E p \in People, c \in Chats : AutoOff(p, c) \/ \E g \in Watched : AutoOn(p, c, g)
    \/ \E t \in Running : MonitorFails(t)

-----------------------------------------------------------------------------
(* Properties *)

MonitorsOK ==
    /\ job \in [Chats -> {None} \cup 1 .. started]
    /\ Running \subseteq 1 .. started
    /\ \A t \in Running : task[t] \in [chat : Chats, game : Watched]

\* Every monitor that redraws a message is the one its chat can switch off, so no
\* two of them write over each other and none runs on for ever, whichever way they
\* were started, replaced, failed and switched off.
MonitorOwned == \A t \in Running : job[task[t].chat] = t
=============================================================================
