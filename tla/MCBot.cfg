SPECIFICATION FairSpec
CONSTANTS
    None = None
    owner = owner
    ali = ali
    sara = sara
    People = {owner, ali, sara}
    Supers = {owner}
    Static = {ali}
    Owner = owner
    Grantable = {"ADMIN", "GAME_OPERATOR"}
    FirstRoles <- FirstRolesMC
    Parts <- AllParts
    Loads <- LoadsMC
    MaxFaults = 1
    Chats = {c1, c2}
    Watched = {g1, g2}
    Users = {u1}
    Amounts = {10, 20}
    Payees = {x1}
    Lots = {g1, g2}
    t1 = t1
    t2 = t2
    b1 = b1
    l1 = l1
    k1 = k1
    Topics = {t1, t2, t3}
    Buyers = {b1, b2}
    Numbers = {1, 3}
    Links = {l1, l2}
    FirstGames <- FirstGamesMC
    MaxFailed = 1
    Cards = {k1, k2}
    EnvPool <- OneCard
    CryptoReady = TRUE
    Players = {v1, v2}
    Restrictable = {"BUY", "DEPOSIT"}
    Sentences <- SentencesMC
    EndOfTime = 1
INVARIANTS
    TypeOK
    MonitorOwned
    ToldAsDecided
    RefundedAreTold
    RestrictedAsDecided
    OneGamePerClick
PROPERTIES
    AclFollowsRoles
