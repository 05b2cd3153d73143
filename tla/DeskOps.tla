------------------------------ MODULE DeskOps ------------------------------
(***************************************************************************)
(* The desk's rules (lib/desk-logic.ts) and the functions on one desk      *)
(* (lib/desk-session.ts).  A desk keeps its score, its ride on the price,  *)
(* the day of its last vault call and its count of tape flips; what is     *)
(* only shown (last hold, last flip, streak) is left out.                  *)
(***************************************************************************)
EXTENDS Integers, Sequences, FiniteSets

CONSTANTS
  HoldWaves, MinWicks, MinBaits, \* HOLD_WAVES and the two literals of dealHoldWaves
  RideWindow,          \* DESK_WINDOW_MS
  BigChange,           \* the change in 24 h from which a day is "big"
  TapeDigest(_, _),    \* parity of HMAC(secret, desk id and nonce)
  NoTape, NoRide       \* no price, no position

ASSUME DeskSetup ==
  /\ {HoldWaves, MinWicks, MinBaits, RideWindow, BigChange} \subseteq Nat
  /\ HoldWaves > 0 /\ MinWicks + MinBaits <= HoldWaves

Sides == {"long", "short"}
VaultCalls == {"skip", "buy", "big"}

-----------------------------------------------------------------------------
(* A round of Hold the Line, played in the browser. *)

Before(waves, n, kind) == Cardinality({k \in 1..(n - 1) : waves[k] = kind})
Remaining(n) == HoldWaves - (n - 1)

MustBe(waves, n, kind, least) ==
  Before(waves, n, kind) < least /\ Remaining(n) <= least - Before(waves, n, kind)

HoldDeals ==
  {waves \in [1..HoldWaves -> {"wick", "bait"}] : \A n \in 1..HoldWaves :
     /\ MustBe(waves, n, "wick", MinWicks) => waves[n] = "wick"
     /\ MustBe(waves, n, "bait", MinBaits) /\ ~MustBe(waves, n, "wick", MinWicks)
          => waves[n] = "bait"}

StartHoldRound(waves) == [waves |-> waves, index |-> 1, held |-> 0, phase |-> "live"]

AdvanceHold(round, held) ==
  [round EXCEPT !.held = held, !.index = @ + 1,
                !.phase = IF round.index = Len(round.waves) THEN "clear" ELSE @]

HoldTap(round) ==
  IF round.waves[round.index] = "bait" THEN [round EXCEPT !.phase = "dead"]
  ELSE AdvanceHold(round, round.held + 1)

HoldTimeout(round) ==
  IF round.waves[round.index] = "wick" THEN [round EXCEPT !.phase = "dead"]
  ELSE AdvanceHold(round, round.held)

-----------------------------------------------------------------------------
(* The desk of a cookie.  "past" is a history of the desk's own line of     *)
(* states; no guard reads it.                                               *)

EmptyDesk(id) ==
  [id |-> id, conviction |-> 0, ride |-> NoRide, vaultDay |-> -1, tapeNonce |-> 0,
   lastHoldYarn |-> -1, lastVaultYarn |-> -1,
   past |-> [opened |-> 0, ended |-> [v \in {"win", "push", "lose"} |-> 0],
             vaultDays |-> {}, vaultHits |-> 0, vaultCalls |-> 0, tapeHits |-> 0,
             held |-> 0, cleared |-> 0]]

Clamp(n, low, high) == IF n < low THEN low ELSE IF n > high THEN high ELSE n

\* finishHold's verdict: survived, and every wave counted as held.
HoldSurvived(result) ==
  LET total == Clamp(result.total, 1, HoldWaves)
  IN result.survived /\ Clamp(result.held, 0, total) = total

HoldYarn(desk, result, today) ==
  IF HoldSurvived(result) /\ desk.lastHoldYarn # today THEN 1 ELSE 0

HoldFinished(desk, result, today) ==
  LET held == Clamp(result.held, 0, Clamp(result.total, 1, HoldWaves))
      survived == HoldSurvived(result)
  IN [desk EXCEPT !.conviction = @ + held * 3 + (IF survived THEN 15 ELSE 0),
                  !.lastHoldYarn = IF HoldYarn(desk, result, today) = 1 THEN today ELSE @,
                  !.past.held = @ + held,
                  !.past.cleared = IF survived THEN @ + 1 ELSE @]

RideOpen(desk) == desk.ride # NoRide /\ ~desk.ride.settled

\* openPosition at the price of the tape the handler holds.
RideOpened(desk, side, tape, time) ==
  [desk EXCEPT !.ride = [side |-> side, entry |-> tape.usd, startedAt |-> time,
                         endsAt |-> time + RideWindow, settled |-> FALSE, exitSeen |-> time],
               !.past.opened = @ + 1]

\* deskRideVerdict: unequal prices of the model differ by more than DESK_FLAT_EPS.
RideVerdict(side, entry, exit) ==
  IF exit = entry THEN "push"
  ELSE IF (side = "long") = (exit > entry) THEN "win" ELSE "lose"

RideScore(verdict) == CASE verdict = "win" -> 25 [] verdict = "push" -> 8 [] OTHER -> 5

\* settlePosition, for a ride whose window is over.
RideSettled(desk, tape) ==
  LET verdict == RideVerdict(desk.ride.side, desk.ride.entry, tape.usd)
  IN [desk EXCEPT !.conviction = @ + RideScore(verdict),
                  !.ride.settled = TRUE, !.ride.exitSeen = tape.seen,
                  !.past.ended[verdict] = @ + 1]

\* settleIfDue
RideDue(desk, tape, time) == RideOpen(desk) /\ time >= desk.ride.endsAt /\ tape # NoTape
SettledIfDue(desk, tape, time) == IF RideDue(desk, tape, time) THEN RideSettled(desk, tape) ELSE desk

VaultOutcome(change) ==
  IF change >= BigChange THEN "big" ELSE IF change > 0 THEN "buy" ELSE "skip"

VaultYarn(desk, pick, tape, today) ==
  IF pick = VaultOutcome(tape.change) /\ desk.lastVaultYarn # today THEN 1 ELSE 0

\* callVault, once per UTC day.
VaultCalled(desk, pick, tape, today) ==
  LET won == pick = VaultOutcome(tape.change)
  IN [desk EXCEPT !.conviction = @ + (IF won THEN 30 ELSE 8), !.vaultDay = today,
                  !.lastVaultYarn = IF VaultYarn(desk, pick, tape, today) = 1 THEN today ELSE @,
                  !.past.vaultDays = @ \cup {today}, !.past.vaultCalls = @ + 1,
                  !.past.vaultHits = IF won THEN @ + 1 ELSE @]

TapeFlipped(desk, side) ==
  LET nonce == desk.tapeNonce + 1
      won == side = TapeDigest(desk.id, nonce)
  IN [desk EXCEPT !.tapeNonce = nonce, !.conviction = @ + (IF won THEN 15 ELSE 5),
                  !.past.tapeHits = IF won THEN @ + 1 ELSE @]
=============================================================================
