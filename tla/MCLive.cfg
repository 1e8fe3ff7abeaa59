CONSTANTS
    g1 = g1  g2 = g2  o1 = o1
    Games <- TwoGames
    Opens <- OneSlot
    Tick = Tick
    Poller = Poller
    EventsLimit = 1
    Stories <- MCStories
    MaxOpens = 1
    MaxFailures = 1
    MaxDown = 1
    Nil = Nil
SPECIFICATION LiveFairSpec
INVARIANTS LiveTypeOK NoticedOnce
PROPERTIES ActiveShown
