# Catesino in TLA+

TLA+ models of Catesino (a Next.js casino demo with a custodial USDC side), their
TLC configurations, and proofs that TLAPS checks. Paths below are relative to the
repository's root unless they start with `tla/`.

## 1. The system

| Part | Code | State | Operations |
|------|------|-------|------------|
| Ledger | `packages/ledger/src/ledger.ts` | per user: available, lockedHand, lockedWithdraw, withdrawFrozen; house equity; applied idempotency keys | credit, reverse, freeze, lock bet, settle, request/cancel/complete withdrawal |
| Treasury arithmetic | same file, `computeFreeBalanceAtomic`, `computeBuyAmountAtomic` | none | pure, read the ledger's total liability |
| Custody store | `apps/web/src/lib/custody/user-store.ts` | one ledger per wallet, deposits by signature, withdrawals by id, daily outflow, cool-down flags; all in process memory | record deposit, create/cancel/complete withdrawal |
| Deposit claims | `custody/deposit-service.ts`, `packages/chain/src/deposit-claim.ts`, `rpc-client.ts` | locals of each handler | claim: two RPC calls, for a large deposit four more, evaluation, credit |
| Withdrawals | `custody/withdraw-service.ts`, `packages/chain/src/withdraw-policy.ts` | locals of each handler | request (one await), policy, cancel; approval and sending are left to parts that do not exist yet |
| Blackjack engine | `packages/blackjack/src` | one hand, returned anew by every call | create, hit, stand, double |
| House games | `packages/house-games/src` | the VideoCate hand, returned anew by every call | flip, dice, spin, slots, high card, poker: draw and settle; VideoCate: deal, draw |
| Demo table | `apps/web/src/lib/demo-session.ts`, `apps/web/src/app/api/demo/*` | one table for everybody: ledger, BlackCate hand, VideoCate hand, nonce | deal, action, instant games, videocate deal/draw |
| Gacha package | `packages/gacha/src` | none | roll a pull (odds, supply, pity), apply its economy, verify a receipt, hold and mark rules |
| Gacha sessions | `apps/web/src/lib/demo-gacha-session.ts`, `gacha-demo.ts`, `nft-claims.ts`, `gacha-rate-limit.ts`, `app/api/demo/gacha/*` | per browser a sealed cookie (the locker); in the process a rate limiter's map; on disk the file of claimed 1/1 mints | state, inventory, pull, bagwork, mark, upgrade, equip |
| Trading desk | `lib/desk-session.ts`, `desk-logic.ts`, `desk-api.ts`, `cate-price.ts`, `use-desk.ts`, `components/HoldTable.tsx` | per browser a sealed cookie (the desk) and the round on screen; in the process a price cache | refresh, hold round and its report, ride open/settle, vault call, tape flip |
| Authentication | `apps/web/src/lib/auth`, `packages/chain/src/siws.ts`, `app/api/auth/*` | nonces in memory; per browser a sealed session cookie | issue nonce, verify, log out, who am I |
| Parsing, config, worker, db, UI | `tx-parse.ts`, `schema.ts`, `apps/worker`, `packages/db`, `components` | none | input, stubs and presentation |

How they interact:

- a route calls a service, the service calls the store, the store calls the
  ledger; each is a plain function call;
- within the process the only concurrency is that of Node: a handler runs until it
  awaits, and other handlers run then. Deposit claims await RPC calls, withdrawal
  requests the hot wallet's balance, desk handlers the price feed; the gacha and table
  routes await only their input before they look at state;
- lockers, desks and sessions travel in sealed cookies. A request carries the cookies its
  browser held when it was sent, the answer's cookies replace what the browser holds by then.
  Two requests in flight start from one cookie, the later answer wins, an answer that is lost
  takes its cookies with it, and one whose body is lost still sets them. The desk pays yarn into the locker of the same request;
- ledger, store, nonces, rate limiter and price cache are in memory and lost at a restart.
  The cookies, the claim file and the chain survive it;
- retries are recognised by idempotency keys, at three places: the ledger
  (`appliedKeys`), the store (deposits by signature, withdrawals by key) and the demo
  routes (keys built from the nonce). Lockers and desks have none.

What is hard: state that is read before an await and judged after it; two claims of
one signature; nodes that disagree or forget a transaction; a key that must not be
used up by a failed call; two kinds of lock in one balance; a cap checked at one time and
counted at another; a handler that throws between two ledger calls; a hand whose
card index is rebuilt at every move; stale cookies against a claim file that remembers;
a file rewritten in place by a process that may end; a cached price that a slow fetch sets
back; a ride that is settled by whichever request comes first; a nonce raced for by copies of one
signed message. `PROJECT.json` lists each at its line.

What makes each part correct:

- ledger: no balance is negative, every unit is explained, a key acts once, locks
  are not fungible, a freeze holds;
- treasury: liability and equity account for the money on chain; buys do not
  touch players' money;
- custody: a signature is credited once, to its payer, after it was final; locks are
  the open withdrawals; records explain the accounts; large sends are approved, first ones wait;
  what is queued ends;
- blackjack: cards come from the committed shoe in order, the dealer plays by the
  rule, the payment is what the hands deserve;
- table and house games: every open hand is covered by a lock and finished, no credits appear,
  a VideoCate draw is paid for the best line of the five cards on the table;
- lockers: yarn and items are accounted for in every cookie, a 1/1 mint is given once,
  marks were waited and worked for, no pull waits for a rare longer than published,
  pulls are rationed per address and locker;
- desk: no ride is scored on a price from before it, each ride and each day's vault call counts once;
- sign-in: a nonce is used once and in time, whoever is taken for a wallet has its signature.

## 2. Modules

| Module | Models | Extends / instantiates |
|--------|--------|------------------------|
| `LedgerOps` | checks and effects of ledger operations on one account, as pure operators | |
| `HouseBook` | what a ledger promises: claims that move only with money or play, keys used once | |
| `Ledger` | the ledger with several users | `LedgerOps`, refines `HouseBook` |
| `LedgerOpsProofs` | lemmas about the operators on one account | `LedgerOps`, `TLAPS` |
| `Treasury` | free balance and daily buy on a running ledger | `Ledger` |
| `SumProofs` | lemmas about sums over finite sets | `TLAPS` |
| `LedgerProofs` | theorems about `Ledger` and `Treasury` | `Treasury`, `LedgerOpsProofs`, `SumProofs` |
| `CustodyStore` | the in-memory store | `LedgerOps` |
| `DepositService` | concurrent deposit claims and the chain they look at | `CustodyStore` |
| `WithdrawService` | concurrent withdrawal requests, approval, sending, clock | `CustodyStore` |
| `Custody` | both services on one store, restarts, fairness | both services |
| `CustodyProofs` | theorems about store, withdrawals and deposit claims | `Custody`, `LedgerOpsProofs`, `SumProofs` |
| `BlackjackOps` | the engine as pure operators | |
| `Blackjack` | one hand, every shoe, every line of play | `BlackjackOps` |
| `BlackjackProofs` | theorems about one hand | `Blackjack`, `SumProofs` |
| `HouseGames` | settlements of the instant games, VideoCate, hand ranking and an independent definition of it | |
| `DemoTable` | the shared demo table and its routes | `LedgerOps`, `BlackjackOps`, `HouseGames` |
| `TableProofs` | theorems about the demo table | `DemoTable`, `TLAPS` |
| `GachaOps` | the gacha package and the functions on one locker | |
| `Browser` | cookie jars, requests in flight, clock, loss of answers and of the process | |
| `OneOfOne` | what the register of 1/1 mints promises | |
| `GachaSession` | lockers in cookies, claim file, rate limiter | `GachaOps`, `Browser`, refines `OneOfOne` |
| `DeskOps` | the functions on one desk, rounds of Hold the Line | |
| `DeskSession` | desks in cookies, price cache, handlers split at the fetch | `DeskOps`, `GachaSession` |
| `AuthSession` | nonces, sign-in, sessions | `Browser` |
| `Site` | lockers, desks and sessions on the same browsers and process | `DeskSession`, `AuthSession` |
| `SiteProofs` | lemmas on what each step does to the cookies there are; theorems about sign-in, rides and desks | `Site`, `TLAPS` |
| `GachaProofs` | theorems about lockers, pulls and the register | `SiteProofs`, `SumProofs` |
| `MC*` | instances for TLC | |

An operator marked "Fault" is a plausible mistake in the definition that follows
it. Nothing in the specifications uses it; `PROJECT.json` pairs it with the property
that the mistake breaks.

### Ledger

`users[u]` is `LedgerUserState`, `housePlayEquity` the only equity bucket operations
change, `appliedKeys` the set of used keys. Every exported function is one action: the key
is looked up, the checks follow in the code's order, the effect and the key are written
together. A call that throws changes nothing, so it is not a step. History variables
(`onchain`, `shortfall`, `lost`, `effects`) record what entered custody, what a clamped
reversal forgave, what was lost in play and how often a key acted; no guard reads them.

### Custody

`accounts` and `appliedKeys` are the wallets' ledgers: each wallet has its own, with one
user in it. `withdrawals` is `withdrawalsById` in order of creation. A deposit claim
keeps `step`, the RPC call it waits for, and what each node said: `tx` from
`getTransaction` and `confirmed` from `getSignatureStatuses`, asked at different moments,
as in `loadOne`. The last answer of a look, the evaluation and the credit are one step because
no await lies between them. For a large claim, fetched again from both nodes, the verdict
is taken a second time. The nodes move on their own through absent, pending, final and
failed, and may drop a transaction with its fork.

A withdrawal request keeps the balance, freeze and cool-down flags it read before the
await; `FinishRequest` judges by these and by the store's present outflow, as the code
does. Admins and the send worker are external: they do what `assertDualAdminApproval`
and `assertWithdrawSendAllowed` permit, the gates written for them.

Left out: feature switches (on), syntax checks of addresses and signatures, wording of errors,
session checks of the routes (the wallet is the session's).

### Blackjack, house games, demo table

`drawCard` picks from the remaining multiset by an HMAC of the server seed, so the seed
fixes the order of all cards before the first is dealt. A hand carries that order as `shoe` and
`dealt` counts the draws (`cardIndex`). Suits are dropped and T, J, Q, K are one rank.

In `HouseGames` a seed is the list of rolls its HMACs give, each a number below the number
of choices that are left. Suits matter there. `EvaluateFive` follows `cards-lite.ts`, by counts
of ranks and suits; `BestLinePays` says line by line of the paytable what five cards are
worth, and `VideoDrawIsHonest` compares the two on the hands the table really pays.

Every route of the table is one action. What a throw leaves behind is modelled where a throw leaves
something: a nonce taken by a request that cannot lock its bet (`NonceSpent`), a stake
locked for a pick that is then refused (`InstantBadPick`). A double whose second stake
cannot be locked throws the played hand away: no step.

### Browsers, lockers, desks, sign-in

`jar[b]` holds a browser's cookies. A call is a record that goes through `sent`, for the desk
`fetching`, and `answered`; it carries the jar of its sending. `Receive` puts the answer's
cookies over the present ones, `LoseAnswer` drops them. `DeskReceive` adds that the body may be
lost after the head has set the cookies: the client then saves its round again (`use-desk.ts:133-138`). Handlers that do not await are one step.
`LoseProcess` ends the process: calls in flight fail, memory is lost. `agenda` is a bound and no
code: what kinds of requests there will be, from which browsers, how many, how far the clock goes, how many
restarts. `Cookies(name)` is every value of a cookie there is, in a jar, with a request or with
an answer; properties of lockers and desks speak of all of them, stale ones included.

A locker carries `past`, a history of its own line of states that no guard reads. A server
seed is the pair of draws its HMACs give. The claim file is written by `toPublicState`, while
the answer is made and before the cookie can arrive (`GachaAnswer`). The write truncates the file
first; a process that ends there leaves text that `readClaims` takes for an empty list
(`TornWrite`). The rate limiter is keyed by address and locker (`Key`); a pull carries the address its headers
name, so one locker may pull from several addresses, and a pull without a cookie gets a fresh locker and
with it a fresh list. `ForgetHits` empties the limiter's map at a restart and counts the `run`;
`served`, the history of the pulls let through, is kept, so the quotas of all runs are in it. `hashShort` keeps 64 bits of each half of the key; the model takes them as
free of collisions. Fetching the tweet is a choice of its outcome, before the cookie is looked at.

Every desk handler needs a price. If the cache is not fresh it waits for the feed (`BeginFetch`);
`Tapes` is what the fetch may give: failure, or a price seen somewhere between question and answer and
dated by the question, as `fetchCateTape` dates it. A later answer of an earlier fetch overwrites the cache.
`LoadTime` is the time `loadTickedDesk` reads before the await; the desk that `DeskKeeps` saves is sealed with it, that of a play with the time of the answer. A ride that is due is settled by whatever
request loads the desk (`TickedDesk`). Rounds of Hold the Line run in the browser and are reported with a
few tries (`Persist`, `Retried`, `GiveUpSave`).

A message to sign is the record of the fields it is parsed into, a signature is the wallet that
made it, and a request with one field wrong stands for each way to get it wrong. `consumeNonce`
comes before the check of the signature, so a failed sign-in uses the nonce up as well; origin and missing fields
(`admitted`) are looked at before it. A log-out from a foreign origin is refused and leaves the session (`LogoutRefused`). A session ends at its idle or its absolute time.

Left out: sealing and base58 (a cookie is what was sealed), how an origin is judged, the account that
sign-in opens, HMACs and commitments, the refusal of a client seed that is too long, the kinds `meme_unlock` and
`merch_claim` of the catalog (no guard but the display asks for them; the catalog is a constant, `MCSite` gives it dust, a title and a frame), prices shown and animations.

## 3. Runs

| Run | What it asks | Bounds |
|-----|--------------|--------|
| `ledger` | invariants and refinement of the ledger, the house's books and the daily buy | 2 users, 5 keys, amounts 0..3 with 2 the largest safe one, valid and invalid settlements, 2 buys at half of the free balance, reserve 2 |
| `deposits` | claims racing with each other and the chain | 2 handlers, one transaction with legs of three wallets (one below the minimum, one to a stranger), small and large, two nodes |
| `payouts` | approval, cool-downs, locks, and that every withdrawal ends | fair specification, 1 handler, amounts on each side of both thresholds and at most the per-transaction cap, two requests, first cool-down 1, further ones 2 |
| `custody` | both services with freezes, cancels and restarts | one wallet that may be frozen, one claim handler and a moving primary node, two request handlers, two client keys, one restart |
| `blackjack` | one hand | all shoes of 7 cards over ranks A, 5, 6, 10; bet 3 |
| `demo_table` | the shared table with the results of the house games | 6 shoes, bets 1, 2, 4 on a seed of 5, 3 nonces, 16 plays of instant games, 4 VideoCate seeds with 4 ways to hold |
| `site` | lockers, desks, sign-in and the register | eleven scenes (`MCAgendas`) of two to five requests, two of them in flight at a time except where pulls alone fill the limiter (`Pulls`, `Quotas`: one at a time), clock up to 4, at most one restart; 2 addresses and a limit of 2 pulls; 3 items, 1 mint, pity 2, yarn cap 3, cookies and rate window of 2 ticks; 2 prices; 2 wallets, 2 nonces |

Why the bounds are enough: an invariant of the ledger relates the fields of one user or
one key, so two users show interference, and five keys allow the longest chain that
matters (deposit, lock, settle, request, complete). Claims conflict in pairs over one
signature; the transaction used has legs of several payers, of dust and to a stranger. Two
requests are what a stale snapshot needs. Withdrawal sizes fall on auto, manual and dual.
Seven cards let player and dealer both draw, and A, 5, 6, 10 give naturals, soft and hard
totals, busts and ties; ranks between them add no new comparison. Three nonces let an open
hand, a second game and a refused bet meet. The VideoCate seeds lead from a high pair, a royal
flush, a wheel and two pairs to every way of holding nothing, some or all. The plays of the instant games
stand on both sides of every comparison.

In `site` a stale cookie needs two requests of one browser in flight, the register two browsers (two symmetric ones
in `Mints`), and each of its properties concerns one kind of cookie and few requests. So an agenda is a
scene with the requests that can meet: pulls with pulls (`Pulls` over a whole window; `Quotas` with five pulls, a restart and a clock of 1, which is what two quotas and a pull too many need), with posts and with equipping; posts with marks
and upgrades; rides with refreshes; vault calls with pulls, since the desk pays into the locker; rounds with
restarts; sign-ins with everything of sign-in. Four requests are bagwork, waiting, a mark and a
rival's or a later one. TTLs, windows and pity of 2 put both sides of each edge on a clock of 4. The
proofs of section 4 need none of these bounds.

Deadlock is not checked where the system may rest: in the custody, table and site runs the
bounds on keys, time, nonces and requests are used up, a settled hand takes no action.
In `ledger` freezing is always possible, so deadlock is checked.

Runs that are expected to find a violation, each a statement of the repository's docs, comments or
tests that the code does not keep:

| Run | Statement | What happens |
|-----|-----------|--------------|
| `daily_cap` | outflow of the hot wallet stays within the daily cap | the cap is compared with what was sent, not with what is queued |
| `cooldown` | a further withdrawal respects the cool-down | two requests in flight read the same old flags |
| `stuck` | what is queued and approved is sent | above the per-transaction cap the send gate refuses for ever |
| `bad_pick` | locks are the open stakes | the stake is locked before the pick is checked |
| `hold_unpaid` | a hold round without a mistake is survived and pays | the browser reports the number of all waves as the total, held ones never include baits |

`CooldownHonoured` and `EveryWithdrawalEnds` appear on both sides: they hold with one
request at a time and up to the per-transaction cap, and the violation runs show that
these conditions are needed.

What the models show besides, and no run is spent on:

- after a restart a signature can be credited again, because credited signatures are kept in memory
  (the store's own comment says it is to be replaced by a database). `SignatureCreditedOnce` is
  therefore checked without restarts;
- a retry of a withdrawal request may be refused by the cool-down or the balance the first one used up, because the policy
  runs before the key is looked up (`user-store.ts:181`); it never queues twice;
- a BlackCate hand can be dealt while a VideoCate hand is open, because the deal route looks at its
  own game only;
- dice with a target that is no number always lose, the comparison being false both ways;
- bagwork compares a post with the last one only: A, B, A on three days pays for A twice. What is
  promised and checked is one reward a day;
- `touchSession` (`session.ts:104`) is called by nobody, so the idle time of a session does not slide
  as design v0.2.2:774 describes;
- a restart empties the rate limiter's map, so a locker may pull a second quota in one window; so may a locker
  that comes from a second address. `RateKept` bounds both;
- a round of Hold the Line whose answer loses its body is saved again and counted twice, since the
  request names no round. Nothing in the docs promises otherwise, and `DeskAddsUp` compares the score with the rounds that were counted;
- the amount of a deposit is read twice (`deposit-service.ts:147`) and can not differ: the legs of a landed
  transaction are fixed, in the model as on the chain. What can go stale there is the verdict;
- the guards of `WorkerConfirms` (the send gate, a row it has picked) belong to the external worker; `markWithdrawalSent` itself
  looks only at whether the row is there, sent already and covered by the lock;
- no component calls the equip and inventory routes; they are modelled as any client may call them.

### Fairness

Only `payouts` and `stuck` use it (`FairSpec`). Weak fairness resumes a handler that waits: its
fetch ends, with an answer or an error. Weak fairness of review, approval, pick and
confirmation is an assumption about operators and worker, who are external: what their gates
let them do they do. The clock is strongly fair because the model's clock stops past its
bound while a request is open. Cancelling is the user's choice and has no fairness.
The other specifications state none: an answer may be lost, a browser closed, a hand left on the table.

## 4. Proofs

All theorems hold for every value of the constants that satisfies the named assumptions, which
TLC evaluates in the runs: `LedgerLimits`, `LedgerInputs`, `TreasuryLimits`, `UsersAreFinite`, `StoreBounds`,
`LegsAreTransfers`, `FewLegs`, `FirstViewKnown`, `WithdrawPolicy`, `CustodyBounds`; `ShoeDealsAHand` (the shoe reaches for a
deal; a longer line of play is a step only while its cards last), `TableSetup`; for the site `GachaSetup`, `GachaSessionSetup`,
`DeskSetup`, `DeskSessionSetup`, `AuthSetup`, `BrowserSetup`, `SiteCookies`. The one that carries weight is in
`DeskSessionSetup`: a cached price is given up within a ride's window (15 s and 20 s in the code).

**Lemmas.** `SumProofs` shows that the library's sum over a finite set does add up: the recursion behind it is well
defined, a term can be split off whichever the fold takes first, and from there what a changed term, one more member
or a split into parts does to a sum. It is induction over subsets, put as a least counterexample, since the library's induction
theorems take an operator for the claim. `LedgerOpsProofs` says of each operator that it takes accounts to accounts when the
check before it has passed, and what it does to a claim. The first part of `SiteProofs` says of each step of a browser which
values of a cookie there are after it: those there were, and those the answer sets. The other proofs about the site cite it
and look only at what handlers answer.

**Ledger and treasury** (`LedgerProofs`), for all sets of users, keys, amounts and settlements:

| Theorem | States |
|---------|--------|
| `LedgerTypeCorrect` | `[]TypeOK`: no balance and no lock is ever negative |
| `LedgerKeepsUserBooks` | `[]UserBooks`: what a user can claim is explained by deposits, play and forgiven reversals |
| `LedgerAppliesKeysOnce` | `[]ExactlyOnce` |
| `LedgerSeparatesLocks` | the action property `LockSeparation` |
| `LedgerKeepsFreeze` | the action property `FreezeHolds` |
| `LedgerImplementsBook` | `Book!Spec`, the refinement of `HouseBook` |
| `TreasuryBooksBalance` | `[]BooksBalance`: over all users, liability and house equity are the money on chain and what reversals forgave |
| `DailyBuysSparePlayers` | the action property `BuySparesPlayers` |

One inductive invariant carries them, `IInv == TypeOK /\ UserBooks /\ ExactlyOnce`. The three are proved
together because each keyed action writes an account, a key and history at once, and
because the books of a clamp or a subtraction balance only on natural numbers. The action
properties follow from it in the state before the step. The refinement needs natural claims, and for
`Play` a stake within the claim; it goes action by action: each keyed step maps to one of
`Enter`, `Leave`, `Play`, `Rearrange`, a freeze to a stutter.

`TreasuryInv` adds to `IInv` that the house's equity is what all users lost (`HouseWonWhatUsersLost`); summed over users,
`UserBooks` then gives `BooksBalance`. That the buy spares the players needs neither: it needs that a share of the
free balance, floored and then capped, is no more than the free balance, for every ratio up to one.

**Custody** (`CustodyProofs`), for all wallets, signatures, amounts, policies, any number of
handlers in flight and any number of restarts:

| Theorem | States |
|---------|--------|
| `CustodyTypeCorrect` | `[]StoreTypeOK` |
| `CustodyQueuesKeysOnce` | `[]OneWithdrawalPerKey` |
| `FreezeStopsRequestsInFlight` | the action property `FrozenQueuesNothing` |
| `LargeSendsAreApproved` | `[]LargeSendsApproved` |
| `FirstPayoutsWait` | the action property `FirstPayoutWaits` |
| `LocksMatchRows` | `[]LocksMatchOpenWithdrawals` |
| `RecordsExplainAccounts` | `[]AccountExplainedByRecords` |
| `CooldownsHoldAlone` | the action property `CooldownHonoured`; assumes one request in flight and `Cooldown <= FirstCooldown` |

The inductive invariant `CustodyInv` types the store and the locals that handlers keep across
their awaits. To that come uniqueness of keys among rows, and one clause that none of the checked
properties shows: a request's key that the ledger has applied has a row. Without it
`createWithdrawal`, finding no row, could call a ledger that takes the call for a replay; the
ledger would lock nothing and check nothing, and a row would be queued all the same, for a
frozen account too. The clause holds because row and key are written in one step, and because
keys of deposits, cancellations and completions differ from keys of requests.

`LargeSendsAreApproved` and `FirstPayoutsWait` use `PayoutInv` on top: a row that is cleared has the reviews of its level, by admins who
differ; a row being sent is past its time, and its time is a first cool-down after its creation
unless its wallet has been paid; and a flag "was paid before" that a handler read
before its await is still true after it. The last is why the stale flag does no harm here: it can only be
stale in the direction that waits longer, within one run of the process, and a restart ends the handlers too.

The cool-down fails with two requests in flight (run `cooldown`), so `CooldownsHoldAlone` is about a request that runs
alone. `ReadsInv` says that the last request it read is still the last one when it ends. Its flag "was paid
before" may be stale even so, and then its row waits the first cool-down instead, which has to be the longer (the defaults
of `schema.ts:97-99` are 24 hours and none). The run `payouts` has them the other way round, to let the cool-down bite within
two keys; with a third key it would show why the theorem asks for the order.

Locks and records are sums over all rows and deposits of a wallet. `WalletBooks` says of each wallet that its locked
amount is the sum of its open rows, and its whole claim what it deposited less what was sent. It needs `KeysMatchRows`: while a row is
open neither its cancel key nor its complete key is used, and a signature that is not on record has its deposit key unused. Otherwise the ledger
would take the call for a replay, change nothing, and the row would move all the same. The sums follow from one changed
row, one row more or one deposit more.

**Deposit claims** (`CustodyProofs`):

| Theorem | States | Assumes |
|---------|--------|---------|
| `ClaimsCreditOnce` | `[]SignatureCreditedOnce` | `MaxRestarts = 0` |
| `ClaimAnswersAreTrue` | `[]ClaimOkMeansCredited` | `MaxRestarts = 0` |
| `CreditsRestOnFinality` | `[]CreditsWereFinal` | `InitialFunds = 0` |
| `CreditsAreBacked` | `[]CreditsBackedOnChain`: the credits of a signature are no more than its legs carried | `InitialFunds = 0` |

The first two use `CreditInv` (a signature counted as credited is on record, and each success
answered has its deposit). They speak of one run of the process, since a restart loses the record. The
third uses `FinalInv`: what a handler holds as confirmed its node did call final at some time. That has to be said
of the past, because the node may have dropped the transaction since. It holds across restarts; `InitialFunds = 0`
excludes the funded start of other runs, whose deposit the modelled chain has not seen.

`CreditsAreBacked` carries each deposit back to the legs its claim counted (`DepositsAreClaims`); a sum over some legs of a
transaction is no more than the sum over all.

**Blackjack** (`BlackjackProofs`), for every shoe of ranks, bet and line of play:

| Theorem | States |
|---------|--------|
| `CardsFollowTheShoe` | `[]TableIsPrefixOfShoe` |
| `OpenHandsAreUndecided` | `[]OpenHandIsUndecided` |
| `TotalsAreTheBest` | `[]TotalsAreBest`: for hands of any length and any number of aces |
| `DealersPlayByRule` | `[]DealerPlaysByRule` |
| `HandsPayByStrength` | `[]PaidByStrength` |

`HandSound` is the invariant: the cards on the table are the first of the shoe, each at its place (`FromShoe`), an open hand is one that nothing
has decided (`Undecided`), a settled one was drawn by the rule and paid by strength (`Concluded`). The first part has to say where each card
came from, since `TableIsPrefixOfShoe` alone does not say whose the next card will be. That the dealer stops at
the first total of 17 rests on totals being sums, and on a search for the least number of draws.

**The demo table** (`TableProofs`), for any shoes, seeds, picks, bets and number of requests:

| Theorem | States |
|---------|--------|
| `TableTypes` | `[]TableTypeOK` |
| `StakesStayLocked` | `[]LockedCoversOpenHands`: both open hands have their stakes locked |
| `DemoBooksBalance` | `[]DemoMoneyConserved` |
| `HandsAreFinished` | the action property `OpenHandsAreFinished` |

`TableInv` adds to the properties that no key of a nonce not given out yet is used (`KeysAhead`), and that the keys by which an open hand will be doubled and
settled are unused (`HandInv`). Without these the ledger could skip a settlement as a replay, and the lock of a closed hand would stay.
Two hands share one lock, so `LockedCoversOpenHands` is proved for the sum of their stakes.

**The site** (`SiteProofs`, `GachaProofs`), for any browsers, wallets, requests in flight, lost
answers and restarts:

| Theorem | States | Assumes |
|---------|--------|---------|
| `NoncesSignInOnce` | `[]NonceSignsInOnce` | |
| `SessionsGoBackToSignIns` | `[]SessionsAreSigned` | |
| `RidesMeetLaterPrices` | `[]RidesScoredOnLaterPrice` | |
| `DesksAddUp` | `[]DeskAddsUp` | `NoRideIsNone` |
| `SiteImplementsRegister` | `ImplementsOneOfOne`, the refinement of `OneOfOne` | |
| `MarksInCookiesAreWon` | `[]MarksAreWon` | |
| `PullsStayFair` | `[]PullsAreFair` | `RaresToGive` |
| `MarksInCookiesAreEarned` | `[]MarksAreEarned` | |
| `LockersBalance` | `[]LockersAddUp` | `CommonsToGive` |
| `PullsAreRationed` | `[]RateKept` | |

`NonceInv` keeps apart the nonces in the store and those that signed in, which is why taking a nonce out before
anything is checked makes a race harmless. `SessionInv` carries each session cookie and each answer back to its
sign-in. `RideInv` dates things: a price is seen no earlier than its stamp, and a handler that waits for the feed carries a ride that
began before the fetch. A ride whose window is over then meets a price younger than the cache's
lifetime, so younger than the ride, or one that was fetched after the ride began. `ClaimInv` says of every cookie that its
marks were given to its locker and are on file, and of the file that it lists nothing nobody won and, unless it was
lost, everything somebody did; a stale cookie can then repeat only its own marks, and each step that gives maps to `Give`, a
torn write to `LoseList`, all else to `Relist`. `FairInv` bounds the pity counter of every cookie and says of a receipt in
an answer that it is what `RollPull` gave. `RaresToGive` says that pity is on and a rare item is in supply: without one, the
code cannot keep the published bound and does not claim to.

`BooksInv` balances the books of the desk in every cookie. It rests on `ReportsInv`: reports of rounds hold counts wherever
they wait (in a browser, with a request, with a handler), and `finishHold` clamps what it is sent. The days of the vault are all
up to the desk's last one, and that is not after today, so a call that is let through adds a new day. `NoRideIsNone` says
that "no ride" can be told from a ride.

`SiteTurns` says where the lockers in cookies come from: each is one there was before the step, or what one call made of the locker
it was sent with, on the inputs of the request. An invariant of all lockers then needs to be shown of each call alone, and
holds of stale, resent and lost cookies as well. `WorkInv` is such a one: the counters the gates read say what days of bagwork the
locker went through (as many as posts, one on the day the hold began, none after the last day), and for each mark some of
these days are long enough ago. `GachaSetup` has `ClaimHold > 0` (30 days in `nft-rules.ts:3`): with a hold of no days, a locker that never
worked would pass the gate.

`AccountInv` books every locker: its yarn is the start and what was granted, drawn as dust or converted at a full stack, less a yarn
for each pull; its items are its pulls less the converted ones. Days of bagwork, which are as many as the posts, come from `WorkInv`. With it goes `InputsInv`, which types what waits in requests and handlers. The item a pull books has to be one:
`RollIsItem` follows the roll through `BucketHasRarity` and the fallback, for any odds and any seed. `CommonsToGive` says that a
common item is in supply to fall back to; without one the code has nothing to return.

`RateInv` compares the limiter with `served`, for each address and locker: the times the limiter keeps are the latest ones of
the history, and every pull it no longer keeps is out of the window or of an earlier run. So MaxHits pulls of this run
within a window are a full list, which refuses, and a stretch of the history that sees r restarts holds at most r + 1 quotas. That is what
`RateKept` says, and no more is true: the map does not outlive the process (`gacha-rate-limit.ts:6`). The limiter's filter is
written as a recursive function (`Only`), since the prover expands no `SelectSeq`.

**Only model-checked.** Liveness (`EveryWithdrawalEnds`) is out of the prover's reach. `VideoDrawIsHonest` compares two ways
to rank five cards, which is a finite table and TLC's work. What the runs with `expect` violation show
is false, and no theorem.

## 5. Not modelled, and what is left

Left out for good: parsing and encodings (`tx-parse.ts`, `base58.ts`, `addresses.ts`), reading the
environment (`schema.ts`), the worker and database stubs and the read-only routes, which keep no state that another part
relies on and have no order of steps to get wrong; the components that show the casino's tables, which send one request
after another and display the answer.

Left to prove: that the independent definition of a VideoCate hand and the code's ranking agree on all hands of
five cards, which `VideoDrawIsHonest` checks on those the runs deal.
