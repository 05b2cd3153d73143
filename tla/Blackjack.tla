------------------------------ MODULE Blackjack ------------------------------
(***************************************************************************)
(* One hand of BlackCate from deal to settlement, over every order of the  *)
(* shoe and every sequence of the player's moves.                          *)
(***************************************************************************)
EXTENDS BlackjackOps

CONSTANTS
  Ranks,       \* ranks in the shoe, among 1 (ace) to 10
  ShoeLength,  \* bound: cards of the model's shoe
  Bets

ASSUME ShoeDealsAHand ==
  /\ Ranks \subseteq Ace..Ten
  /\ ShoeLength \in Nat /\ ShoeLength >= 4
  /\ Bets \subseteq Nat \ {0}

VARIABLE hand

Shoes == [1..ShoeLength -> Ranks]
BlackjackInit == \E bet \in Bets, shoe \in Shoes : hand = CreateHand(bet, shoe)

Hit == CanHit(hand) /\ (IsBust(TakeCard(hand).player) => ShoeLasts(TakeCard(hand)))
       /\ hand' = HitHand(hand)
Stand == CanFinish(hand) /\ hand' = StandHand(hand)
Double == CanDoubleHand(hand) /\ hand' = DoubleHand(hand)

BlackjackNext == Hit \/ Stand \/ Double

BlackjackSpec == BlackjackInit /\ [][BlackjackNext]_hand

-----------------------------------------------------------------------------
\* What is on the table is the shoe from its first card on, in order, whatever the
\* moves were: no card is drawn twice or skipped, so the revealed seed explains the
\* hand (engine.ts:102-274, where cardIndex and the multiset are kept by hand).
TableIsPrefixOfShoe ==
  <<hand.player[1], hand.dealer[1], hand.player[2], hand.dealer[2]>>
      \o SubSeq(hand.player, 3, Len(hand.player))
      \o SubSeq(hand.dealer, 3, Len(hand.dealer))
    = SubSeq(hand.shoe, 1, hand.dealt)

\* While the player may act there is something to decide: nobody has a natural, the
\* player is not bust and the dealer has not drawn (engine.ts:146-164).
OpenHandIsUndecided ==
  hand.phase = "player_turn" =>
    /\ ~IsBlackjack(hand.player) /\ ~IsBlackjack(hand.dealer)
    /\ ~IsBust(hand.player)
    /\ Len(hand.dealer) = 2

\* A total is the best reading of the cards: the highest that is not over 21, with
\* at most one ace as 11, the lowest if all are over (cards.ts:52-71).
Readings(cards) ==
  LET low == SumFunction(cards)
  IN  {low} \cup (IF Aces(cards) > 0 THEN {low + 10} ELSE {})

BestReading(cards) ==
  LET fitting == {t \in Readings(cards) : t <= 21}
  IN  IF fitting = {} THEN Min(Readings(cards)) ELSE Max(fitting)

TotalsAreBest ==
  HandTotal(hand.player) = BestReading(hand.player)
    /\ HandTotal(hand.dealer) = BestReading(hand.dealer)

\* The dealer draws to 17 and stops there, soft or hard, and draws nothing once the
\* hand is decided without him (engine.ts:249-262).
DealerPlaysByRule ==
  hand.phase = "settled" =>
    LET dealer == hand.dealer
        untouched == IsBust(hand.player) \/ IsBlackjack(hand.player) \/ IsBlackjack(dealer)
    IN  /\ untouched => Len(dealer) = 2
        /\ ~untouched =>
             /\ BestReading(dealer) >= 17
             /\ \A n \in 2..(Len(dealer) - 1) : BestReading(SubSeq(dealer, 1, n)) < 17

\* What is paid is what a table compares: a bust is worth nothing, a natural beats
\* any other 21, the higher total wins, equals push (settlement.ts:62-81).
Strength(cards) ==
  IF BestReading(cards) > 21 THEN 0
  ELSE IF Len(cards) = 2 /\ BestReading(cards) = 21 THEN 22 ELSE BestReading(cards)

PaidByStrength ==
  hand.phase = "settled" =>
    LET mine == Strength(hand.player)
        theirs == Strength(hand.dealer)
        s == hand.settlement
    IN  /\ mine < theirs \/ mine = 0 => s.credit = 0
        /\ mine = theirs /\ mine # 0 => s.credit = hand.bet
        /\ mine > theirs => s.credit = hand.bet + (IF mine = 22 THEN (3 * hand.bet) \div 2 ELSE hand.bet)
        /\ s.bet = hand.bet /\ s.houseDelta = hand.bet - s.credit
=============================================================================
