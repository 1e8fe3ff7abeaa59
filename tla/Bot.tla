-------------------------------- MODULE Bot ---------------------------------
(***************************************************************************)
(* The bot: one process whose handlers and tasks share the file of         *)
(* administrators, the conversations in Redis and the backend, with the    *)
(* administration of the Mini App beside it.  A crash of the bot ends its  *)
(* handlers and tasks; the conversations, the file and the backend stay,   *)
(* and the bot starts again.                                               *)
(***************************************************************************)
EXTENDS Monitors, Desk, Panel, Settings, Users

otherVars == <<hostVars, panelVars, settingsVars, usersVars>>
botVars   == <<left, faults, aclVars, monitorVars, requestVars, deskVars, otherVars>>

Init ==
    /\ UpdatesInit /\ AclInit
    /\ MonitorsInit /\ RequestsInit /\ DeskInit
    /\ HostInit /\ PanelInit /\ SettingsInit /\ UsersInit

Crash(torn) ==
    /\ Fault
    /\ AclCrash(torn)
    /\ MonitorsCrash /\ RequestsCrash /\ DeskCrash
    /\ HostCrash /\ SettingsCrash /\ UsersCrash
    /\ UNCHANGED panelVars

Next ==
    \/ AclNext /\ UNCHANGED <<monitorVars, requestVars, deskVars, otherVars>>
    \/ MonitorsNext /\ UNCHANGED <<aclVars, requestVars, deskVars, otherVars>>
    \/ RequestsNext /\ UNCHANGED <<aclVars, monitorVars, deskVars, otherVars>>
    \/ DeskNext /\ UNCHANGED <<aclVars, monitorVars, otherVars>>
    \/ /\ UNCHANGED <<monitorVars, requestVars, deskVars>>
       /\ \/ HostNext /\ UNCHANGED <<aclVars, panelVars, settingsVars, usersVars>>
          \/ PanelNext /\ UNCHANGED <<aclVars, settingsVars, usersVars>>
          \/ SettingsNext /\ UNCHANGED <<hostVars, panelVars, usersVars>>
          \/ UsersNext /\ UNCHANGED <<aclVars, hostVars, panelVars, settingsVars>>
    \/ \E torn \in BOOLEAN : Crash(torn)

Spec     == Init /\ [][Next]_botVars
FairSpec == Spec /\ AclFairness

TypeOK ==
    /\ UpdatesOK /\ AclOK
    /\ MonitorsOK /\ RequestsOK /\ DeskOK
    /\ HostOK /\ PanelOK /\ SettingsOK /\ UsersOK
=============================================================================
