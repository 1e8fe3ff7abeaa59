------------------------------- MODULE MCLive -------------------------------
\* Instances of Live.tla for TLC.
EXTENDS Live

CONSTANTS g1, g2, o1

TwoGames == {g1, g2}
Story(g, kind, h, then) == <<[game |-> g, kind |-> kind], [game |-> h, kind |-> then]>>
MCStories == {Story(g1, "win", g2, "end")}
OneSlot  == {o1}
=============================================================================
