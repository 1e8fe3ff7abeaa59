------------------------------- MODULE MCBot --------------------------------
(* Instances of Bot. *)
EXTENDS Bot, TLC

CONSTANTS owner, ali, sara, t1, t2, b1, l1, k1

Only(load) == [p \in Parts |-> IF p \in DOMAIN load THEN load[p] ELSE 0]
AllParts == {"owner", "monitor", "withdraw", "deposit", "buy", "desk", "create", "close", "draw", "sale",
             "live", "cash", "games", "settings", "payer", "bans", "money", "members", "player"}

FirstRolesMC == (owner :> {"SUPER_ADMIN"}) @@ (ali :> {"ADMIN"}) @@ (sara :> {})
FirstGamesMC ==
    {<<[topic |-> t1, status |-> "LOBBY", mode |-> "MANUAL", buyers |-> {b1}, calls |-> <<>>, link |-> l1,
        refunded |-> {}],
       [topic |-> t2, status |-> "RUNNING", mode |-> "MANUAL", buyers |-> {b1}, link |-> None, refunded |-> {},
        calls |-> <<[number |-> 1, ends |-> FALSE], [number |-> 2, ends |-> FALSE]>>]>>}
OneCard == {[id |-> 1, card |-> k1, active |-> TRUE]}
SentencesMC == {[forbids |-> {"BUY"}, minutes |-> 0], [forbids |-> {"BUY", "DEPOSIT"}, minutes |-> None]}

LoadsMC ==
    {Only("owner" :> 3), Only("owner" :> 1 @@ "monitor" :> 4),
     Only("withdraw" :> 5), Only("withdraw" :> 4 @@ "desk" :> 5), Only("withdraw" :> 4 @@ "cash" :> 3),
     Only("deposit" :> 6 @@ "desk" :> 1), Only("deposit" :> 6 @@ "cash" :> 1),
     Only("buy" :> 5),
     Only("create" :> 4), Only("close" :> 3 @@ "sale" :> 1), Only("close" :> 2 @@ "draw" :> 2 @@ "sale" :> 1),
     Only("draw" :> 4), Only("live" :> 3),
     Only("games" :> 2), Only("games" :> 1 @@ "close" :> 2 @@ "sale" :> 1),
     Only("settings" :> 4 @@ "payer" :> 1), Only("settings" :> 2 @@ "payer" :> 2),
     Only("bans" :> 4), Only("bans" :> 2 @@ "player" :> 1), Only("money" :> 3),
     Only("members" :> 2), Only("bans" :> 2 @@ "members" :> 1), Only("members" :> 1 @@ "player" :> 1)}
=============================================================================
