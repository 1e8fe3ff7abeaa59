------------------------------ MODULE DrawSpec ------------------------------
(***************************************************************************)
(* What an automatic draw promises its players: the order of the numbers   *)
(* is chosen and published before the game starts, and from then on the    *)
(* numbers come in that order, none comes twice, and none while the draw   *)
(* is paused or over.                                                      *)
(***************************************************************************)
EXTENDS Sequences, Naturals

CONSTANTS
    Orders,     \* the orders that can be chosen
    None

VARIABLES
    order,      \* the order chosen, None without one
    drawn,      \* the positions of the order drawn so far
    phase       \* "lobby", "open", "paused" or "over"

vars == <<order, drawn, phase>>

Last == IF drawn = <<>> THEN 0 ELSE drawn[Len(drawn)]

Init ==
    /\ order = None
    /\ drawn = <<>>
    /\ phase = "lobby"

Choose ==
    /\ phase = "lobby"
    /\ order' \in Orders \cup {None}
    /\ UNCHANGED <<drawn, phase>>

Open ==
    /\ phase = "lobby"
    /\ order # None
    /\ phase' = "open"
    /\ UNCHANGED <<order, drawn>>

Draw ==
    /\ phase = "open"
    /\ \E i \in Last + 1 .. Len(order) : drawn' = Append(drawn, i)
    /\ phase' \in {"open", "paused", "over"}
    /\ UNCHANGED order

Turn ==
    /\ \/ phase = "open"   /\ phase' \in {"paused", "over"}
       \/ phase = "paused" /\ phase' = "open"
       \/ phase = "lobby"  /\ phase' = "over"
    /\ UNCHANGED <<order, drawn>>

Next == Choose \/ Open \/ Draw \/ Turn

Spec == Init /\ [][Next]_vars
=============================================================================
