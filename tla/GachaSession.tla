--------------------------- MODULE GachaSession ---------------------------
(***************************************************************************)
(* Lockers in sealed cookies (demo-gacha-session.ts, gacha-demo.ts, routes *)
(* of api/demo/gacha).  What is shared on the server: the claim file,      *)
(* which survives a restart, and the rate limiter's map, which does not.   *)
(***************************************************************************)
EXTENDS GachaOps, Browser, FiniteSetsExt

CONSTANTS
  Ttl,           \* GACHA_TTL_MS
  Window, MaxHits \* WINDOW_MS, MAX_HITS of the rate limiter

ASSUME GachaSessionSetup ==
  /\ {Ttl, Window, MaxHits} \subseteq Nat /\ MaxHits > 0 /\ None \notin Nat
  /\ Inputs["bagwork"] \subseteq Nat
  /\ Inputs["equip"] \subseteq Slots \X (ItemIds \cup {None})

VARIABLES
  claims,    \* ids in .data/nft-claims.json
  hits,      \* times of the rate limiter, per address and locker
  nextId,    \* the next demoId (random in the code, so always new)
  winner,    \* history: the locker each 1/1 was given to
  torn,      \* history: whether a crash left the claim file unreadable
  served,    \* history: the pulls let through, per address and locker, over all runs
  run        \* history: how often the process has started

limiterVars == <<hits, served, run>>
gachaVars == <<claims, nextId, winner, torn, limiterVars>>

NoRoll == [nonce |-> 0]

\* No more lockers than requests.
LockerIds == 0..Max({a.left : a \in Agendas})

\* clientIp: the address that the headers of a pull name, "unknown" if they name none.
Addresses == Inputs["pull"]
Keys == Addresses \X LockerIds

GachaInit ==
  /\ claims = {}
  /\ hits = [k \in Keys |-> <<>>]
  /\ nextId = 0
  /\ winner = [u \in Ultras |-> None]
  /\ torn = FALSE
  /\ served = [k \in Keys |-> <<>>]
  /\ run = 1

-----------------------------------------------------------------------------
(* The components: each has a busy flag of its own, so that one browser may *)
(* have a pull, a post and a mint in flight together.                       *)
LoadMachine(c, b) == Send(c, b, "state", None) /\ UNCHANGED gachaVars
LoadInventory(c, b) == Send(c, b, "inventory", None) /\ UNCHANGED gachaVars
PressPull(c, b, address) == Send(c, b, "pull", address) /\ UNCHANGED gachaVars
SubmitPost(c, b, post) == Send(c, b, "bagwork", post) /\ UNCHANGED gachaVars
MintAct(c, b, kind, item) == kind \in {"mark", "upgrade"} /\ Send(c, b, kind, item) /\ UNCHANGED gachaVars
PickEquip(c, b, slotItem) == Send(c, b, "equip", slotItem) /\ UNCHANGED gachaVars

GachaSend(c, b) ==
  \/ LoadMachine(c, b) \/ LoadInventory(c, b)
  \/ \E address \in Addresses : PressPull(c, b, address)
  \/ \E post \in Inputs["bagwork"] : SubmitPost(c, b, post)
  \/ \E item \in Ultras, kind \in {"mark", "upgrade"} : MintAct(c, b, kind, item)
  \/ \E slotItem \in Inputs["equip"] : PickEquip(c, b, slotItem)

-----------------------------------------------------------------------------
(* The server. *)

Seal(l) == [locker |-> l, exp |-> now + Ttl]

\* unsealGachaState: a missing or expired cookie is no cookie.
Expired(token) == token = NoCookie \/ now > token.exp

\* loadDemoGacha
Loaded(token) == IF Expired(token) THEN EmptyLocker(nextId) ELSE token.locker

IdsAfter(token) == IF Expired(token) THEN nextId + 1 ELSE nextId

Sent(c) == calls[c].jar["gacha"]
Locked(c) == Loaded(Sent(c))

\* The limiter's key: where the pull comes from, and the demoId of its locker.
Key(c) == <<calls[c].input, Locked(c).id>>

Recent(k) == Only(hits[k], {t \in ToSet(hits[k]) : now - t < Window})

\* Fault: the hit that reaches the limit is let through.
AllowGachaPullOneMore(k) == Len(Recent(k)) <= MaxHits

AllowGachaPull(k) == Len(Recent(k)) < MaxHits

\* An error answer sets no cookie.
GachaRefuse(c) == Refuse(c) /\ nextId' = IdsAfter(Sent(c)) /\ UNCHANGED <<claims, winner, torn>>

\* Fault: the list of claims is read for the answer but never written.
GachaAnswerUnrecorded(c, set, l, roll) ==
  /\ Answer(c, set, roll)
  /\ nextId' = IdsAfter(Sent(c))
  /\ UNCHANGED <<claims, torn>>

\* The answer's cookie and, in toPublicState, the locker's claims on file.
GachaAnswer(c, set, l, roll) ==
  /\ Answer(c, set, roll)
  /\ nextId' = IdsAfter(Sent(c))
  /\ claims' = claims \cup Yours(l)
  /\ UNCHANGED torn

Saved(l) == [gacha |-> Seal(l)]

\* GET state always sets the cookie, GET inventory only a minted one.
ReadLocker(c) ==
  /\ Waiting(c, "state") \/ Waiting(c, "inventory")
  /\ GachaAnswer(c, IF calls[c].kind = "state" \/ Expired(Sent(c)) THEN Saved(Locked(c)) ELSE << >>,
                 Locked(c), NoRoll)
  /\ UNCHANGED <<limiterVars, winner>>

\* The rate limiter lets a pull through before the yarn is looked at.
PullSlowDown(c) ==
  /\ Waiting(c, "pull") /\ ~AllowGachaPull(Key(c))
  /\ hits' = [hits EXCEPT ![Key(c)] = Recent(Key(c))]
  /\ GachaRefuse(c)
  /\ UNCHANGED <<served, run>>

CountPull(k) ==
  /\ hits' = [hits EXCEPT ![k] = Append(Recent(k), now)]
  /\ served' = [served EXCEPT ![k] = Append(@, [at |-> now, run |-> run])]
  /\ UNCHANGED run

PullOutOfYarn(c) ==
  /\ Waiting(c, "pull") /\ AllowGachaPull(Key(c)) /\ ~CanPull(Locked(c))
  /\ CountPull(Key(c))
  /\ GachaRefuse(c)

Roll(l, seed) == RollPull(Catalog, l.pity, PityRareHard, seed, l.nonce + 1)

Pull(c, seed) ==
  /\ Waiting(c, "pull") /\ AllowGachaPull(Key(c)) /\ CanPull(Locked(c))
  /\ LET l == Locked(c) roll == Roll(l, seed)
     IN CountPull(Key(c)) /\ GachaAnswer(c, Saved(Pulled(l, roll)), Pulled(l, roll), roll)
  /\ UNCHANGED winner

\* fetchTweetText is awaited before the cookie is loaded; the post may be unreadable.
Bagwork(c) ==
  /\ Waiting(c, "bagwork")
  /\ CanBagwork(Locked(c), calls[c].input, now)
  /\ LET l == Bagworked(Locked(c), calls[c].input, now) IN GachaAnswer(c, Saved(l), l, NoRoll)
  /\ UNCHANGED <<limiterVars, winner>>

BagworkRefused(c) ==
  /\ Waiting(c, "bagwork")
  /\ GachaRefuse(c)
  /\ UNCHANGED limiterVars

Mark(c) ==
  /\ Waiting(c, "mark")
  /\ LET l == Locked(c) item == calls[c].input
     IN /\ CanMark(l, item, claims, now)
        /\ GachaAnswer(c, Saved(Marked(l, item)), Marked(l, item), NoRoll)
        /\ winner' = [winner EXCEPT ![item] = l.id]
  /\ UNCHANGED limiterVars

Upgrade(c) ==
  /\ Waiting(c, "upgrade")
  /\ CanUpgrade(Locked(c), calls[c].input, now)
  /\ LET l == Upgraded(Locked(c), calls[c].input) IN GachaAnswer(c, Saved(l), l, NoRoll)
  /\ UNCHANGED <<limiterVars, winner>>

NftRefused(c) ==
  /\ \/ Waiting(c, "mark") /\ ~CanMark(Locked(c), calls[c].input, claims, now)
     \/ Waiting(c, "upgrade") /\ ~CanUpgrade(Locked(c), calls[c].input, now)
  /\ GachaRefuse(c)
  /\ UNCHANGED limiterVars

Equip(c) ==
  /\ Waiting(c, "equip")
  /\ CanEquip(Locked(c), calls[c].input[1], calls[c].input[2])
  /\ LET l == Equipped(Locked(c), calls[c].input[1], calls[c].input[2])
     IN GachaAnswer(c, Saved(l), l, NoRoll)
  /\ UNCHANGED <<limiterVars, winner>>

EquipRefused(c) ==
  /\ Waiting(c, "equip")
  /\ ~CanEquip(Locked(c), calls[c].input[1], calls[c].input[2])
  /\ GachaRefuse(c)
  /\ UNCHANGED limiterVars

Serve(c) ==
  \/ ReadLocker(c)
  \/ PullSlowDown(c) \/ PullOutOfYarn(c) \/ \E seed \in Seeds : Pull(c, seed)
  \/ Bagwork(c) \/ BagworkRefused(c)
  \/ Mark(c) \/ Upgrade(c) \/ NftRefused(c)
  \/ Equip(c) \/ EquipRefused(c)

-----------------------------------------------------------------------------
\* What a restart takes from memory: the limiter's map.  The claim file stays.
ForgetHits ==
  /\ hits' = [k \in Keys |-> <<>>]
  /\ run' = run + 1
  /\ UNCHANGED <<served, nextId, winner>>

GachaRestart == ForgetHits /\ UNCHANGED <<claims, torn>>

\* writeFileSync truncates the file before it writes it; what a crash in between
\* leaves is not JSON, and readClaims takes it for an empty list.
TornWrite(c) ==
  /\ \/ Waiting(c, "mark") /\ CanMark(Locked(c), calls[c].input, claims, now)
     \/ Waiting(c, "pull") /\ AllowGachaPull(Key(c)) /\ CanPull(Locked(c)) /\ NinthLifeMint \notin claims
     \/ \E kind \in {"state", "inventory", "bagwork", "equip"} :
          Waiting(c, kind) /\ ~(Yours(Locked(c)) \subseteq claims)
  /\ claims' = {} /\ torn' = TRUE
  /\ ForgetHits

-----------------------------------------------------------------------------
(* Properties.  Held are the lockers of all cookies, wherever they are.     *)

Held == {t.locker : t \in Cookies("gacha")}

\* The register of 1/1 mints keeps its promise (OneOfOne): whatever cookies are in flight,
\* a mint listed as taken is not given again.  A torn write is the loss it allows.
Register == INSTANCE OneOfOne WITH
  owner <- winner, taken <- claims \cap Ultras, lost <- torn

ImplementsOneOfOne == Register!Spec

MarksAreWon ==
  torn \/ \A l \in Held : \A u \in Marks(l) : winner[u] = l.id /\ u \in claims

LockerBooks ==
  \A l \in Held :
    /\ l.yarn + l.nonce = YarnStart + l.past.granted + l.past.dust + l.past.converted
    /\ SumFunction(l.inventory) + l.past.converted = l.nonce

BagworkOncePerDay == \A l \in Held : l.posts = Cardinality(l.past.days)

\* Pulls, dust, full stacks and grants, the desk's included, account for yarn and items of
\* every cookie, stale or not: an answer builds on one earlier cookie as a whole and mixes
\* no two.  And along the states of a locker bagwork counts once per UTC day, although only
\* the last day is kept and the post is fetched before the cookie is read.
LockersAddUp == Held \subseteq Locker /\ LockerBooks /\ BagworkOncePerDay

PityKept == \A l \in Held : l.pity <= PityRareHard /\ l.pity <= l.nonce

GatesEarned ==
  \A l \in Held : \A u \in Marks(l) :
    LET worked == {Day(now) - d : d \in l.past.days}
    IN /\ \E age \in worked : age >= ClaimHold
       /\ l.marks[u] = "diamond" =>
            Cardinality(worked) >= DiamondBagwork /\ \E age \in worked : age >= DiamondHold

ReceiptsVerify ==
  \A c \in Calls : (calls[c].step = "answered" /\ calls[c].kind = "pull") =>
    LET r == calls[c].body
        altered == {[r EXCEPT !.itemId = i] : i \in ItemIds}
                   \cup {[r EXCEPT !.rarity = k] : k \in Rarities}
                   \cup {[r EXCEPT !.rawBucket = k] : k \in 0..(TotalWeight(Catalog.odds) - 1)}
    IN VerifyPull(r, Catalog) /\ \A claim \in altered \ {r} : ~VerifyPull(claim, Catalog)

\* Nobody waits longer for a rare than is published; the receipt of a pull verifies against
\* the catalog, and no receipt that claims another item, rarity or bucket for it does.
PullsAreFair == PityKept /\ ReceiptsVerify

\* A mark in any cookie, also one an answer still carries, was won by that locker and is on
\* file: the claim is written before the cookie is set.  Gold was held for and Diamond was
\* worked for: the days of bagwork the locker went through, not only the counters the gates
\* read, reach back far enough.
MarksAreEarned == MarksAreWon /\ GatesEarned

\* A stretch of Window ticks sees at most MaxHits pulls of one locker from one address for
\* each run of the process in it: the limiter's map is not kept over a restart, which lets
\* MaxHits more through, and no order of pulls, refusals and restarts lets through more.
RateKept ==
  \A k \in Keys : \A j \in DOMAIN served[k] : \A i \in 1..j :
    LET first == served[k][i] last == served[k][j]
    IN j - i >= MaxHits * (last.run - first.run + 1) => last.at - first.at >= Window
=============================================================================
