------------------------------ MODULE GachaOps ------------------------------
(***************************************************************************)
(* The gacha package (packages/gacha) and the functions on one locker      *)
(* (apps/web demo-gacha-session.ts, gacha-demo.ts) as pure operators.      *)
(*                                                                         *)
(* A server seed is fresh for every pull, and an HMAC of it picks the      *)
(* rarity bucket and the item: a seed is the pair of these two draws, and  *)
(* replaying a seed gives the same draws.  Client seeds are left out.      *)
(***************************************************************************)
EXTENDS Integers, Sequences, SequencesExt, FiniteSets

CONSTANTS
  Catalog,       \* [items: sequence of items, odds: sequence of weights, remaining: function]
  Ultras,        \* ids of the 1/1 mints (NINTH_LIFE_PREVIEWS with rarity ultra)
  NinthLifeFrame, NinthLifeMint, \* the rare frame, and the mint its owners are listed under
  PityRareHard, YarnStart, YarnFaucetDaily, YarnCap, \* config.gacha
  ClaimHold, DiamondHold,  \* NFT_CLAIM_HOLD_DAYS, NFT_DIAMOND_HOLD_DAYS
  DiamondBagwork, MaxMarks, \* NFT_DIAMOND_BAGWORK, NFT_MAX_MARKS
  DayLength,     \* ticks of the clock in a day
  ItemDraws,     \* what the second HMAC may give (a 32-bit number in the code)
  None           \* undefined, null: no date, no post, no item

Items == ToSet(Catalog.items)
ItemIds == {i.id : i \in Items}
ItemById(id) == CHOOSE i \in Items : i.id = id

Rarities == {"ultra", "rare", "uncommon", "common"}
Slots == {"frame", "title", "lobby_flair"}
Tiers == {"none", "gold", "diamond"}

ASSUME GachaSetup ==
  /\ Catalog.items \in Seq(Items)
  /\ \A i \in Items : /\ i.rarity \in Rarities /\ i.stackCap \in Nat /\ i.yarnGrant \in Nat
                      /\ i.kind \in {"cosmetic", "yarn_dust"} /\ i.slot \in Slots \cup {None}
                      /\ i.capped \in BOOLEAN
  /\ Catalog.odds \in Seq([rarity : Rarities, weight : Nat])
  /\ {PityRareHard, YarnStart, YarnFaucetDaily, YarnCap} \subseteq Nat
  /\ {ClaimHold, DiamondHold, DiamondBagwork, MaxMarks} \subseteq Nat /\ ClaimHold > 0
  /\ DayLength \in Nat \ {0}
  /\ ItemDraws \subseteq Nat
  /\ NinthLifeMint \notin Ultras

-----------------------------------------------------------------------------
(* Rarity of a pull. *)

WeightUpTo(odds, k) == SumFunctionOnSet([j \in DOMAIN odds |-> odds[j].weight], 1..k)
TotalWeight(odds) == WeightUpTo(odds, Len(odds))

\* The first row whose cumulated weight is above the bucket.
RarityFromBucket(bucket, odds) ==
  odds[CHOOSE k \in DOMAIN odds : WeightUpTo(odds, k - 1) <= bucket /\ bucket < WeightUpTo(odds, k)].rarity

\* filter: the entries of s that are in S, in their order.
Only(s, S) ==
  LET kept[k \in 0..Len(s)] ==
        IF k = 0 THEN <<>> ELSE IF s[k] \in S THEN Append(kept[k - 1], s[k]) ELSE kept[k - 1]
  IN kept[Len(s)]

InSupplyItems(catalog, rarity) ==
  Only(catalog.items,
       {i \in ToSet(catalog.items) :
          /\ i.rarity = rarity
          /\ i.capped => (i.id \notin DOMAIN catalog.remaining \/ catalog.remaining[i.id] > 0)})

FallbackOrder == <<"ultra", "rare", "uncommon", "common">>

\* An empty rarity rolls down to the next one that has items.
ApplyRarityFallback(rarity, catalog) ==
  LET has(k) == InSupplyItems(catalog, FallbackOrder[k]) # <<>>
      start == CHOOSE k \in DOMAIN FallbackOrder : FallbackOrder[k] = rarity
  IN FallbackOrder[CHOOSE k \in start..4 : has(k) /\ \A j \in start..(k - 1) : ~has(j)]

IsRarePlus(rarity) == rarity \in {"rare", "ultra"}

\* Fault: pity waits for one pull more than is published.
ShouldApplyPityLate(before, raw, hard, rareInSupply) ==
  rareInSupply /\ hard > 0 /\ before > hard /\ ~IsRarePlus(raw)

ShouldApplyPity(before, raw, hard, rareInSupply) ==
  rareInSupply /\ hard > 0 /\ before >= hard /\ ~IsRarePlus(raw)

NextPityCounter(before, final) == IF IsRarePlus(final) THEN 0 ELSE before + 1

Seeds == [bucket : 0..(TotalWeight(Catalog.odds) - 1), item : ItemDraws]

RollPull(catalog, before, hard, seed, nonce) ==
  LET raw == ApplyRarityFallback(RarityFromBucket(seed.bucket, catalog.odds), catalog)
      pity == ShouldApplyPity(before, raw, hard, InSupplyItems(catalog, "rare") # <<>>)
      final == ApplyRarityFallback(IF pity THEN "rare" ELSE raw, catalog)
      supply == InSupplyItems(catalog, final)
  IN [rarity |-> final, itemId |-> supply[1 + (seed.item % Len(supply))].id, rawBucket |-> seed.bucket,
      pityApplied |-> pity, after |-> NextPityCounter(before, final),
      supply |-> supply, seed |-> seed, nonce |-> nonce, hard |-> hard, before |-> before]

\* verifyPull: replay the pull from what the receipt states, compare what it claims.
VerifyPull(receipt, catalog) ==
  LET replayed == RollPull(catalog, receipt.before, receipt.hard, receipt.seed, receipt.nonce)
  IN /\ replayed.rawBucket = receipt.rawBucket
     /\ replayed.rarity = receipt.rarity
     /\ replayed.itemId = receipt.itemId
     /\ replayed.supply = receipt.supply

-----------------------------------------------------------------------------
(***************************************************************************)
(* One locker.  "past" is a history of the locker's own line of states: it *)
(* travels with the cookie, and no guard reads it.                         *)
(***************************************************************************)
Day(t) == t \div DayLength

Past == [granted : Nat, dust : Nat, converted : Nat, days : SUBSET Nat]

Locker == [id : Nat, yarn : Nat, nonce : Nat, pity : Nat,
           inventory : [ItemIds -> Nat], equipped : [Slots -> ItemIds \cup {None}],
           lastDay : Nat \cup {None}, lastPost : Nat \cup {None},
           holdStartedAt : Nat \cup {None}, posts : Nat,
           marks : [Ultras -> Tiers], past : Past]

EmptyLocker(id) ==
  [id |-> id, yarn |-> YarnStart, nonce |-> 0, pity |-> 0,
   inventory |-> [i \in ItemIds |-> 0], equipped |-> [s \in Slots |-> None],
   lastDay |-> None, lastPost |-> None, holdStartedAt |-> None, posts |-> 0,
   marks |-> [u \in Ultras |-> "none"],
   past |-> [granted |-> 0, dust |-> 0, converted |-> 0, days |-> {}]]

\* Dust pays its grant; at the stack cap the item becomes one yarn instead.
ApplyEconomy(yarn, inventory, item) ==
  LET dust == IF item.kind = "yarn_dust" THEN item.yarnGrant ELSE 0
      full == inventory[item.id] >= item.stackCap
  IN [yarn |-> yarn + dust + (IF full THEN 1 ELSE 0), dust |-> dust, converted |-> full,
      inventory |-> IF full THEN inventory ELSE [inventory EXCEPT ![item.id] = @ + 1]]

CanPull(l) == l.yarn >= 1

Pulled(l, roll) ==
  LET economy == ApplyEconomy(l.yarn - 1, l.inventory, ItemById(roll.itemId))
  IN [l EXCEPT !.yarn = economy.yarn, !.nonce = roll.nonce, !.pity = roll.after,
               !.inventory = economy.inventory,
               !.past.dust = @ + economy.dust,
               !.past.converted = IF economy.converted THEN @ + 1 ELSE @]

\* applyYarnBonus: nothing at or above the cap; below it the bonus may pass the cap.
YarnBonus(l, amount) ==
  IF amount <= 0 \/ l.yarn >= YarnCap THEN l
  ELSE [l EXCEPT !.yarn = @ + amount, !.past.granted = @ + amount]

\* Fault: only the post is compared, so two posts pay twice on one day.
CanBagworkByPost(l, post, now) == l.lastPost # post

CanBagwork(l, post, now) == l.lastPost # post /\ l.lastDay # Day(now)

\* applyBagworkGrant: the stamp is set whether or not the yarn is at its cap.
Bagworked(l, post, now) ==
  LET paid == IF l.yarn >= YarnCap THEN 0 ELSE YarnFaucetDaily
  IN [l EXCEPT !.lastDay = Day(now), !.lastPost = post, !.posts = @ + 1,
               !.holdStartedAt = IF @ = None THEN now ELSE @,
               !.yarn = @ + paid,
               !.past.granted = @ + paid, !.past.days = @ \cup {Day(now)}]

HoldDaysElapsed(l, now) ==
  IF l.holdStartedAt = None \/ l.holdStartedAt > now THEN 0
  ELSE (now - l.holdStartedAt) \div DayLength

CanClaimRareOrUltra(l, now) == HoldDaysElapsed(l, now) >= ClaimHold

CanCutUltraDiamond(l, now) == HoldDaysElapsed(l, now) >= DiamondHold /\ l.posts >= DiamondBagwork

Marks(l) == {u \in Ultras : l.marks[u] # "none"}

\* Fault: the claim file is not consulted.
CanMarkUnlisted(l, item, claims, now) ==
  /\ item \in Ultras /\ CanClaimRareOrUltra(l, now)
  /\ item \notin Marks(l) /\ Cardinality(Marks(l)) < MaxMarks

\* markDemoUltra's checks and those of markUltraGold.
CanMark(l, item, claims, now) ==
  /\ item \in Ultras
  /\ CanClaimRareOrUltra(l, now)
  /\ item \in Marks(l) \/ item \notin claims
  /\ item \notin Marks(l) /\ Cardinality(Marks(l)) < MaxMarks

Marked(l, item) == [l EXCEPT !.marks[item] = "gold"]

CanUpgrade(l, item, now) ==
  CanCutUltraDiamond(l, now) /\ item \in Ultras /\ l.marks[item] = "gold"

Upgraded(l, item) == [l EXCEPT !.marks[item] = "diamond"]

\* equipDemoGacha; the null item clears the slot.
CanEquip(l, slot, item) ==
  item # None => l.inventory[item] > 0 /\ ItemById(item).slot = slot

Equipped(l, slot, item) == [l EXCEPT !.equipped[slot] = item]

\* The mints toPublicState lists a locker under.
Yours(l) == Marks(l) \cup (IF l.inventory[NinthLifeFrame] > 0 THEN {NinthLifeMint} ELSE {})
=============================================================================
