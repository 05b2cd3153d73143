---------------------------- MODULE BlackjackOps ----------------------------
(***************************************************************************)
(* packages/blackjack: totals, outcome, settlement and the moves of one    *)
(* hand, as pure operators (the engine returns a new hand every time).     *)
(*                                                                         *)
(* Every card of a hand is a function of the committed server seed and of  *)
(* how many cards were drawn before it, so the seed fixes the order of the *)
(* whole shoe.  A hand carries that order; it does not matter how it came  *)
(* about.  Suits do not matter either, nor which of T, J, Q, K a ten is.   *)
(***************************************************************************)
EXTENDS Integers, Sequences, FiniteSetsExt, Functions

Ace == 1
Ten == 10

Aces(cards) == Cardinality({i \in DOMAIN cards : cards[i] = Ace})
CardValue(c) == IF c = Ace THEN 11 ELSE c

\* Fault: at most one ace is counted down.
HandTotalOneAce(cards) ==
  LET high == SumFunction([i \in DOMAIN cards |-> CardValue(cards[i])])
  IN  IF high > 21 /\ Aces(cards) > 0 THEN high - 10 ELSE high

\* handTotal: aces count 11 and are counted down one by one while over 21.
HandTotal(cards) ==
  LET high == SumFunction([i \in DOMAIN cards |-> CardValue(cards[i])])
      enough == {k \in 0..Aces(cards) : high - 10 * k <= 21}
  IN  high - 10 * Min(enough \cup {Aces(cards)})

IsBlackjack(cards) == Len(cards) = 2 /\ HandTotal(cards) = 21
IsBust(cards) == HandTotal(cards) > 21

\* Fault: a natural that meets a natural is paid all the same.
ResolveOutcomePaysNaturals(player, dealer) ==
  CASE IsBust(player) -> "player_bust"
    [] IsBlackjack(player) -> "player_blackjack"
    [] ~IsBust(player) /\ ~IsBlackjack(player) /\ IsBlackjack(dealer) -> "dealer_blackjack"
    [] OTHER -> IF IsBust(dealer) \/ HandTotal(player) > HandTotal(dealer) THEN "player_win"
                ELSE IF HandTotal(player) < HandTotal(dealer) THEN "player_lose" ELSE "push"

\* resolveOutcome
ResolveOutcome(player, dealer) ==
  CASE IsBust(player) -> "player_bust"
    [] IsBlackjack(player) /\ IsBlackjack(dealer) -> "push"
    [] IsBlackjack(player) /\ ~IsBlackjack(dealer) -> "player_blackjack"
    [] ~IsBust(player) /\ ~IsBlackjack(player) /\ IsBlackjack(dealer) -> "dealer_blackjack"
    [] OTHER -> IF IsBust(dealer) \/ HandTotal(player) > HandTotal(dealer) THEN "player_win"
                ELSE IF HandTotal(player) < HandTotal(dealer) THEN "player_lose" ELSE "push"

\* settlementFromOutcome: what the player is credited beyond the stake, at 3:2
\* for a natural, rounded down.
NetWin(outcome, bet) ==
  CASE outcome = "player_blackjack" -> (bet * 3) \div 2
    [] outcome = "player_win" -> bet
    [] outcome = "push" -> 0
    [] OTHER -> -bet

SettlementFromOutcome(outcome, bet) ==
  [bet |-> bet, credit |-> bet + NetWin(outcome, bet), houseDelta |-> -NetWin(outcome, bet)]

-----------------------------------------------------------------------------
NoSettlement == [bet |-> 0, credit |-> 0, houseDelta |-> 0]

Settled(h) ==
  [h EXCEPT !.phase = "settled",
            !.outcome = ResolveOutcome(h.player, h.dealer),
            !.settlement = SettlementFromOutcome(ResolveOutcome(h.player, h.dealer), h.bet)]

\* Fault: the dealer looks for a blackjack under an ace only.
DealerPeeksAceOnly(h) == h.dealer[1] = Ace /\ IsBlackjack(h.dealer)

\* The peek, on an ace or a ten: a dealer's blackjack ends the hand at once.
DealerPeeks(h) == h.dealer[1] \in {Ace, Ten} /\ IsBlackjack(h.dealer)

\* createHand: player, dealer, player, dealer; naturals are settled at once.
CreateHand(bet, shoe) ==
  LET h == [phase |-> "player_turn", bet |-> bet, shoe |-> shoe, dealt |-> 4,
            player |-> <<shoe[1], shoe[3]>>, dealer |-> <<shoe[2], shoe[4]>>,
            doubled |-> FALSE, outcome |-> "none", settlement |-> NoSettlement]
  IN  IF DealerPeeks(h) \/ IsBlackjack(h.player) THEN Settled(h) ELSE h

NextCard(h) == h.shoe[h.dealt + 1]
TakeCard(h) == [h EXCEPT !.player = Append(@, NextCard(h)), !.dealt = @ + 1]

\* Fault: the dealer draws again on 17.
StandingDrawsOver17(h) ==
  {n \in 0..(Len(h.shoe) - h.dealt) :
     HandTotal(h.dealer \o SubSeq(h.shoe, h.dealt + 1, h.dealt + n)) > 17}

\* Draws with which the dealer may stop.  Dealer stands on every 17.
StandingDraws(h) ==
  {n \in 0..(Len(h.shoe) - h.dealt) :
     HandTotal(h.dealer \o SubSeq(h.shoe, h.dealt + 1, h.dealt + n)) >= 17}

\* Fault: the dealer draws from where the shoe stood before the player's card.
FinishDealerStaleIndex(h) ==
  LET n == IF IsBust(h.player) THEN 0 ELSE Min(StandingDraws(h))
  IN  Settled([h EXCEPT !.dealer = @ \o SubSeq(h.shoe, h.dealt, h.dealt + n - 1),
                        !.dealt = @ + n])

\* finishDealer: nothing is drawn against a player who is bust.
FinishDealer(h) ==
  LET n == IF IsBust(h.player) THEN 0 ELSE Min(StandingDraws(h))
  IN  Settled([h EXCEPT !.dealer = @ \o SubSeq(h.shoe, h.dealt + 1, h.dealt + n),
                        !.dealt = @ + n])

\* Bound: a model shoe is short, a move that would run out of it is left out (the
\* code's shoe has 312 cards and a hand never runs out of it).
ShoeLasts(h) == IsBust(h.player) \/ StandingDraws(h) # {}

\* applyAction
HitHand(h) == IF IsBust(TakeCard(h).player) THEN FinishDealer(TakeCard(h)) ELSE TakeCard(h)
StandHand(h) == FinishDealer(h)

CanDouble(h) == Len(h.player) = 2 /\ ~h.doubled
Doubled(h) == [TakeCard(h) EXCEPT !.doubled = TRUE, !.bet = 2 * @]
DoubleHand(h) == FinishDealer(Doubled(h))

CanHit(h) == h.phase = "player_turn" /\ h.dealt < Len(h.shoe)
CanFinish(h) == h.phase = "player_turn" /\ ShoeLasts(h)
CanDoubleHand(h) == CanHit(h) /\ CanDouble(h) /\ ShoeLasts(Doubled(h))
=============================================================================
