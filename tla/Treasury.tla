------------------------------ MODULE Treasury ------------------------------
(***************************************************************************)
(* The house's side of the ledger: total player liability, the free        *)
(* balance and the size of the daily token buy, over a running Ledger.     *)
(* The job that would spend the buy is not in the repository (the worker   *)
(* only serves health checks), so DailyBuy is external: it spends what     *)
(* computeBuyAmountAtomic allows at that moment.                           *)
(***************************************************************************)
EXTENDS Ledger, FiniteSets, Functions

CONSTANTS
  SeedUsdc,       \* house money on chain before any deposit
  ReserveFloor,   \* never part of the free balance
  BuyRatioBps,    \* policy.buyRatio in basis points
  RatioScale,     \* 10000 in the code
  MinDailyBuy, MaxDailyBuy,
  HotBalances,    \* what the buy-hot wallet may hold
  MaxBuys         \* bound: daily buys in a behaviour

ASSUME TreasuryLimits ==
  /\ {SeedUsdc, ReserveFloor, MinDailyBuy, MaxDailyBuy, MaxBuys} \subseteq Nat
  /\ HotBalances \subseteq Nat
  /\ RatioScale \in Nat \ {0}
  /\ BuyRatioBps \in 0..RatioScale

\* The users of a snapshot are the keys of one Map.
ASSUME UsersAreFinite == IsFiniteSet(Users)

VARIABLES
  bought,  \* USDC spent by daily buys
  buys     \* how many there were

treasuryVars == <<vars, bought, buys>>

TotalPlayerLiability == SumFunction(Claims)

\* Fault: the reserve is netted against the liability before it is subtracted.
FreeBalanceReserveInside(house, liability) ==
  LET raw == house - (IF liability > ReserveFloor THEN liability ELSE ReserveFloor)
  IN  IF raw > 0 THEN raw ELSE 0

\* computeFreeBalanceAtomic
FreeBalance(house, liability) ==
  LET raw == house - liability - ReserveFloor
  IN  IF raw > 0 THEN raw ELSE 0

AtMost(limit, x) == IF x > limit THEN limit ELSE x

\* computeBuyAmountAtomic: 0 stands for below_min_or_underfunded.
BuyAmount(free, hot) ==
  LET buy == AtMost(hot, AtMost(MaxDailyBuy, (free * BuyRatioBps) \div RatioScale))
  IN  IF buy < MinDailyBuy THEN 0 ELSE buy

HouseUsdc == SeedUsdc + SumFunction(onchain) - bought

TreasuryInit == Init /\ bought = 0 /\ buys = 0

DailyBuy(hot) ==
  /\ buys < MaxBuys
  /\ buys' = buys + 1
  /\ bought' = bought + BuyAmount(FreeBalance(HouseUsdc, TotalPlayerLiability), hot)
  /\ UNCHANGED vars

LedgerOperation == Next /\ UNCHANGED <<bought, buys>>

TreasuryNext == LedgerOperation \/ \E hot \in HotBalances : DailyBuy(hot)

TreasurySpec == TreasuryInit /\ [][TreasuryNext]_treasuryVars

-----------------------------------------------------------------------------
\* Over all users: liability plus house equity is the money on chain, plus what
\* clamped reversals forgave (docs/design/catesino-design-v0.2.2.md:205-207).
BooksBalance ==
  TotalPlayerLiability + housePlayEquity =
    SumFunction(onchain) + SumFunction(shortfall)

\* A buy that spends anything leaves on chain what the players are owed and the
\* whole reserve, whatever the hands in play (ledger.ts:59-96).
BuySparesPlayers ==
  [][bought' > bought => HouseUsdc' >= TotalPlayerLiability' + ReserveFloor]_treasuryVars
=============================================================================
