------------------------------ MODULE Updates ------------------------------
(***************************************************************************)
(* What drives the handlers of the bot: the updates Telegram hands to the  *)
(* dispatcher, each handled in a task of its own, and the failures they    *)
(* meet.  A handler is one step up to its first call of the backend, and   *)
(* goes on after the answer; other updates are handled in between.         *)
(***************************************************************************)
EXTENDS Integers, Sequences, FiniteSets, SequencesExt

CONSTANTS
    Parts,          \* the parts of the bot that get updates
    Loads,          \* how many updates each part gets: the cases that are explored
    MaxFaults,      \* lost answers, failed calls and deliveries, and crashes
    None

ASSUME UpdatesAssumption ==
    /\ Loads \subseteq [Parts -> Nat]
    /\ MaxFaults \in Nat
    /\ None \notin Nat

VARIABLES
    left,       \* left[p]: the updates that part p still gets
    faults      \* failures so far

UpdatesInit == left \in Loads /\ faults = 0

UpdatesOK == left \in [Parts -> Nat] /\ faults \in 0 .. MaxFaults

\* An update for part p arrives.
Update(p) ==
    /\ left[p] > 0
    /\ left' = [left EXCEPT ![p] = @ - 1]
    /\ UNCHANGED faults

\* An update whose handler calls the backend at once; the answer may be lost.
UpdateCall(p, lost) ==
    /\ left[p] > 0
    /\ left' = [left EXCEPT ![p] = @ - 1]
    /\ lost => faults < MaxFaults
    /\ faults' = IF lost THEN faults + 1 ELSE faults

\* A handler or a task goes on, and whether something failed it on the way.
Continue == UNCHANGED <<left, faults>>
Fault    == faults < MaxFaults /\ faults' = faults + 1 /\ UNCHANGED left
=============================================================================
