------------------------------- MODULE MCSite -------------------------------
(***************************************************************************)
(* Instances of Site for TLC: a catalog of three items with odds whose     *)
(* ultra row, as in the live table, has no items; two prices, the second   *)
(* on a big day.  An agenda is one scene: the kinds of requests in it.     *)
(***************************************************************************)
EXTENDS Site, TLC

CONSTANTS b1, b2, b3, c1, c2, u1, w1, w2, home, away, frame, title, dustItem, ninth

Item(id, rarity, kind, slot, cap, grant) ==
  [id |-> id, rarity |-> rarity, kind |-> kind, slot |-> slot, stackCap |-> cap,
   yarnGrant |-> grant, capped |-> FALSE]

MCCatalog ==
  [items |-> << Item(dustItem, "common", "yarn_dust", None, 1, 2),
                Item(title, "common", "cosmetic", "title", 1, 0),
                Item(frame, "rare", "cosmetic", "frame", 2, 0) >>,
   odds |-> << [rarity |-> "common", weight |-> 1], [rarity |-> "ultra", weight |-> 1] >>,
   remaining |-> <<>>]

MCFeeds == {[usd |-> 1, change |-> 0], [usd |-> 2, change |-> 6]}

MCTapeDigest(id, nonce) == IF (id + nonce) % 2 = 0 THEN "long" ELSE "short"

MCInputs ==
  [pull |-> {home, away}, equip |-> {<<"title", title>>, <<"frame", title>>, <<"title", None>>},
   state |-> {None}, inventory |-> {None}, bagwork |-> {1, 2}, mark |-> {u1}, upgrade |-> {u1}]
  @@ ("desk.state" :> {None} @@ "desk.price" :> {None} @@ "hold.finish" :> {}
      @@ "desk.open" :> {"short"} @@ "desk.settle" :> {None}
      @@ "vault.call" :> {"skip", "big"} @@ "tape.flip" :> {"long"})
  @@ [nonce |-> {}, verify |-> {}, logout |-> {}, me |-> {}]

Scene(kinds, browsers, left, horizon, restarts) ==
  [kinds |-> kinds, browsers |-> browsers, left |-> left, horizon |-> horizon,
   restarts |-> restarts, alone |-> FALSE]

Pulls == [Scene({"pull"}, {b3}, 3, 3, 1) EXCEPT !.alone = TRUE]
Quotas == [Scene({"pull"}, {b3}, 5, 1, 1) EXCEPT !.alone = TRUE]
Posts == Scene({"pull", "bagwork"}, {b3}, 3, 2, 0)
Wardrobe == Scene({"pull", "equip", "inventory", "state"}, {b3}, 2, 2, 1)
Mints == Scene({"bagwork", "mark"}, {b1, b2}, 4, 2, 1)
Diamonds == Scene({"bagwork", "mark", "upgrade"}, {b3}, 4, 3, 1)
Rides == Scene({"desk.open", "desk.settle", "desk.state"}, {b3}, 3, 4, 0)
Vault == Scene({"vault.call", "pull"}, {b3}, 3, 1, 0)
VaultDays == Scene({"vault.call"}, {b3}, 2, 2, 0)
Hold == Scene({"hold.finish", "tape.flip", "desk.price"}, {b3}, 3, 1, 1)
Signing == Scene({"nonce", "verify", "me", "logout"}, {b3}, 4, 3, 1)

MCAgendas == {Pulls, Quotas, Posts, VaultDays, Wardrobe, Mints, Diamonds, Rides, Vault, Hold, Signing}
HoldOnly == {Hold}

Symmetric == Permutations({b1, b2}) \cup Permutations(Calls) \cup Permutations(Wallets)
             \cup Permutations({home, away})
=============================================================================
