--------------------------- MODULE BlackjackProofs ---------------------------
(***************************************************************************)
(* Proofs about a hand of BlackCate, for every shoe, bet and order of the  *)
(* player's moves: the totals, where the cards come from, how the dealer   *)
(* plays and what is paid.                                                 *)
(***************************************************************************)
EXTENDS Blackjack, SumProofs, SequenceTheorems

-----------------------------------------------------------------------------
(* Totals. *)

CardRanks == Ace..Ten

Low(cards) == SumFunction(cards)
High(cards) == SumFunction([i \in DOMAIN cards |-> CardValue(cards[i])])

\* With every ace as 11 the total is ten more for each ace, and no card is worth nothing.
LEMMA AcesCountTenMore ==
  ASSUME NEW cards \in Seq(CardRanks)
  PROVE  /\ Low(cards) \in Nat /\ Aces(cards) \in Nat
         /\ High(cards) = Low(cards) + 10 * Aces(cards)
         /\ Low(cards) >= Len(cards) /\ Len(cards) >= Aces(cards)
<1> DEFINE S == DOMAIN cards
           aces == {i \in S : cards[i] = Ace}
           values == [i \in S |-> CardValue(cards[i])]
           low(s) == SumFunctionOnSet(cards, s)
           high(s) == SumFunctionOnSet(values, s)
           count(s) == Cardinality(s)
           Good == {s \in SUBSET S :
                      high(s) = low(s) + 10 * count(s \cap aces) /\ low(s) >= count(s)}
<1>1. S = 1..Len(cards) /\ Len(cards) \in Nat /\ \A i \in S : cards[i] \in 1..10
  BY DEF CardRanks, Ace, Ten
<1>2. IsFiniteSet(S) /\ count(S) = Len(cards)
  <2> DEFINE n == Len(cards)
  <2>1. n \in Nat /\ S = 1..n BY <1>1
  <2> HIDE DEF n
  <2>2. IsFiniteSet(1..n) /\ Cardinality(1..n) = n BY <2>1, CountTo
  <2>3. QED BY <2>1, <2>2 DEF n
<1>3. \A s \in SUBSET S : /\ IsFiniteSet(s) /\ IsFiniteSet(s \cap aces)
                          /\ count(s) \in Nat /\ count(s \cap aces) \in Nat
  BY <1>2, FS_Subset, FS_CardinalityType
<1>4. \A i \in S : cards[i] \in Nat /\ values[i] \in Int
  BY <1>1 DEF CardValue, Ace
<1>5. \A s \in SUBSET S : low(s) \in Nat /\ high(s) \in Int
  <2> HIDE DEF values
  <2>1. QED BY <1>3, <1>4, SumIsNat, SumIsInt
<1>6. ASSUME NEW s \in SUBSET S, \A t \in SUBSET s : t # s => t \in Good PROVE s \in Good
  <2>1. CASE s = {}
    <3>1. low({}) = 0 /\ high({}) = 0 /\ count({}) = 0 /\ {} \cap aces = {}
      BY SumOverNone, FS_EmptySet
    <3> HIDE DEF low, high, count
    <3>2. QED BY <2>1, <3>1
  <2>2. CASE s # {}
    <3>1. PICK e \in s : TRUE BY <2>2
    <3> DEFINE t == s \ {e}
    <3>2. t \in Good /\ t \in SUBSET S BY <1>6, <3>1
    <3>a. /\ IsFiniteSet(s) /\ \A x \in s : cards[x] \in Int /\ values[x] \in Int
          /\ IsFiniteSet(s \cap aces) /\ Cardinality(s) \in Nat /\ Cardinality(s \cap aces) \in Nat
      <4>1. \A x \in s : cards[x] \in Int /\ values[x] \in Int BY <1>4
      <4>2. QED BY <1>3, <4>1
    <3>3. low(s) = cards[e] + low(t)
      <4>1. \A x \in s : cards[x] \in Int BY <3>a
      <4>2. QED BY <3>a, <3>1, <4>1, SumSplits
    <3>4. high(s) = values[e] + high(t)
      <4> HIDE DEF values
      <4>1. QED BY <3>a, <3>1, SumSplits
    <3>5. count(s) = count(t) + 1
      <4>1. Cardinality(s \ {e}) = Cardinality(s) - 1 BY <3>1, <3>a, FS_RemoveElement
      <4>2. QED BY <3>a, <4>1
    <3>6. count(s \cap aces) = count(t \cap aces) + (IF cards[e] = Ace THEN 1 ELSE 0)
      <4>1. CASE cards[e] = Ace
        <5>1. t \cap aces = (s \cap aces) \ {e} /\ e \in s \cap aces BY <3>1, <4>1
        <5>2. Cardinality((s \cap aces) \ {e}) = Cardinality(s \cap aces) - 1
          BY <3>a, <5>1, FS_RemoveElement
        <5> DEFINE k == Cardinality(s \cap aces)
        <5>3. k \in Nat /\ count(t \cap aces) = k - 1 BY <3>a, <5>1, <5>2
        <5> HIDE DEF k
        <5>4. k = (k - 1) + 1 BY <5>3
        <5>5. QED BY <4>1, <5>3, <5>4 DEF k
      <4>2. CASE cards[e] # Ace
        <5>1. t \cap aces = s \cap aces BY <3>1, <4>2
        <5>2. count(s \cap aces) = count(s \cap aces) + 0 BY <3>a
        <5>3. QED BY <4>2, <5>1, <5>2
      <4>3. QED BY <4>1, <4>2
    <3>7. values[e] = cards[e] + 10 * (IF cards[e] = Ace THEN 1 ELSE 0)
      BY <1>1, <3>1 DEF CardValue, Ace
    <3>8. cards[e] \in Nat /\ cards[e] >= 1 /\ values[e] \in Int
      <4>1. cards[e] \in Nat /\ cards[e] >= 1 BY <1>1, <1>4, <3>1, SMTT(20)
      <4>2. QED BY <3>7, <4>1
    <3>9. /\ high(t) = low(t) + 10 * count(t \cap aces) /\ low(t) >= count(t)
          /\ low(t) \in Nat /\ high(t) \in Int /\ count(t) \in Nat /\ count(t \cap aces) \in Nat
      BY <1>3, <1>5, <3>2
    <3> HIDE DEF low, high, count, t, values, aces
    <3>10. high(s) = low(s) + 10 * count(s \cap aces)
      <4>1. CASE cards[e] = Ace
        <5>1. /\ values[e] = cards[e] + 10 /\ count(s \cap aces) = count(t \cap aces) + 1
          BY <3>6, <3>7, <3>8, <4>1
        <5>2. QED BY <3>3, <3>4, <3>8, <3>9, <5>1
      <4>2. CASE cards[e] # Ace
        <5>1. /\ values[e] = cards[e] /\ count(s \cap aces) = count(t \cap aces)
          BY <3>6, <3>7, <3>8, <3>9, <4>2
        <5>2. QED BY <3>3, <3>4, <3>8, <3>9, <5>1
      <4>3. QED BY <4>1, <4>2
    <3>11. low(s) >= count(s) BY <3>3, <3>5, <3>8, <3>9
    <3>12. QED BY <3>10, <3>11
  <2>3. QED BY <2>1, <2>2
<1>7. S \in Good
  <2> HIDE DEF Good
  <2>1. QED BY <1>2, <1>6, SubsetInduction
<1>8. S \cap aces = aces OBVIOUS
<1>9. Low(cards) = low(S) /\ High(cards) = high(S) /\ Aces(cards) = count(aces)
  BY DEF Low, High, Aces, SumFunction
<1>10. count(aces) <= count(S)
  BY <1>2, FS_Subset
<1> HIDE DEF low, high, count, values, aces
<1>11. QED BY <1>2, <1>3, <1>5, <1>7, <1>8, <1>9, <1>10

\* The total the code finds by counting aces down is the best reading.
LEMMA TotalIsBest ==
  ASSUME NEW cards \in Seq(CardRanks)
  PROVE  /\ HandTotal(cards) = BestReading(cards)
         /\ HandTotal(cards) = IF Aces(cards) > 0 /\ Low(cards) + 10 <= 21
                               THEN Low(cards) + 10 ELSE Low(cards)
         /\ HandTotal(cards) \in Nat
<1> DEFINE low == Low(cards)
           A == Aces(cards)
           high == High(cards)
           enough == {k \in 0..A : high - 10 * k <= 21}
           best == IF A > 0 /\ low + 10 <= 21 THEN low + 10 ELSE low
<1>1. low \in Nat /\ A \in Nat /\ high = low + 10 * A /\ low >= A
  <2>1. Len(cards) \in Nat OBVIOUS
  <2>2. /\ Low(cards) \in Nat /\ Aces(cards) \in Nat
        /\ High(cards) = Low(cards) + 10 * Aces(cards)
        /\ Low(cards) >= Len(cards) /\ Len(cards) >= Aces(cards)
    BY AcesCountTenMore
  <2> HIDE DEF low, A, high
  <2>3. QED BY <2>1, <2>2 DEF low, A, high
<1>2. HandTotal(cards) = high - 10 * Min(enough \cup {A})
  BY DEF HandTotal, High
<1>3. BestReading(cards) =
        LET fitting == {t \in {low} \cup (IF A > 0 THEN {low + 10} ELSE {}) : t <= 21}
        IN  IF fitting = {} THEN Min({low} \cup (IF A > 0 THEN {low + 10} ELSE {})) ELSE Max(fitting)
  BY DEF BestReading, Readings, Low
<1> HIDE DEF low, A, high
<1>4. high - 10 * Min(enough \cup {A}) = best
  <2>1. CASE A = 0
    <3>1. enough \cup {A} = {0} BY <1>1, <2>1
    <3>2. Min({0}) = 0 BY LeastIs
    <3>3. Min(enough \cup {A}) = 0 BY <3>1, <3>2
    <3> HIDE DEF enough
    <3>4. QED BY <1>1, <2>1, <3>3
  <2>2. CASE A > 0 /\ low + 10 <= 21
    <3>1. A - 1 \in enough \cup {A} /\ enough \cup {A} \subseteq Nat BY <1>1, <2>2
    <3>2. \A k \in enough \cup {A} : A - 1 <= k
      BY <1>1, <2>2
    <3> HIDE DEF enough
    <3>3. Min(enough \cup {A}) = A - 1 BY <3>1, <3>2, LeastIs
    <3>4. QED BY <1>1, <2>2, <3>3
  <2>3. CASE A > 0 /\ ~(low + 10 <= 21)
    <3>1. A \in enough \cup {A} /\ enough \cup {A} \subseteq Nat BY <1>1, <2>3
    <3>2. \A k \in enough \cup {A} : A <= k
      BY <1>1, <2>3
    <3> HIDE DEF enough
    <3>3. Min(enough \cup {A}) = A BY <3>1, <3>2, LeastIs
    <3>4. QED BY <1>1, <2>3, <3>3
  <2>4. QED BY <1>1, <2>1, <2>2, <2>3
<1>5. BestReading(cards) = best
  <2> DEFINE readings == {low} \cup (IF A > 0 THEN {low + 10} ELSE {})
             fitting == {t \in readings : t <= 21}
  <2>1. BestReading(cards) = IF fitting = {} THEN Min(readings) ELSE Max(fitting)
    BY <1>3
  <2>2. CASE A > 0 /\ low + 10 <= 21
    <3>1. fitting = {low, low + 10} BY <1>1, <2>2
    <3>2. Max({low, low + 10}) = low + 10 BY <1>1 DEF Max
    <3>3. QED BY <2>1, <2>2, <3>1, <3>2
  <2>3. CASE ~(A > 0 /\ low + 10 <= 21) /\ low <= 21
    <3>1. fitting = {low} BY <1>1, <2>3
    <3>2. Max({low}) = low BY <1>1 DEF Max
    <3>3. QED BY <2>1, <2>3, <3>1, <3>2
  <2>4. CASE low > 21
    <3>1. fitting = {} BY <1>1, <2>4
    <3>2. readings \subseteq Nat /\ low \in readings /\ \A y \in readings : low <= y BY <1>1
    <3> HIDE DEF readings
    <3>3. Min(readings) = low BY <3>2, LeastIs
    <3>4. QED BY <1>1, <2>1, <2>4, <3>1, <3>3
  <2>5. QED BY <1>1, <2>2, <2>3, <2>4
<1>6. best \in Nat BY <1>1
<1>7. QED BY <1>2, <1>4, <1>5, <1>6 DEF low, A

-----------------------------------------------------------------------------
(* What is paid. *)

Outcomes == {"none", "player_bust", "push", "player_blackjack", "dealer_blackjack",
             "player_win", "player_lose"}

PaysByStrength(player, dealer, bet, s) ==
  LET mine == Strength(player)
      theirs == Strength(dealer)
  IN  /\ mine < theirs \/ mine = 0 => s.credit = 0
      /\ mine = theirs /\ mine # 0 => s.credit = bet
      /\ mine > theirs => s.credit = bet + (IF mine = 22 THEN (3 * bet) \div 2 ELSE bet)
      /\ s.bet = bet /\ s.houseDelta = bet - s.credit

\* What Strength makes of a total of n cards, and how the grade is read back.
StrengthFor(total, n) == IF total > 21 THEN 0 ELSE IF n = 2 /\ total = 21 THEN 22 ELSE total

Graded(strength, total, n) ==
  /\ strength \in 0..22
  /\ total > 21 <=> strength = 0
  /\ (n = 2 /\ total = 21) <=> strength = 22
  /\ strength \in 1..21 => strength = total

LEMMA StrengthIsGraded ==
  ASSUME NEW total \in Nat, total > 0, NEW n \in Nat
  PROVE  Graded(StrengthFor(total, n), total, n)
<1> DEFINE strength == StrengthFor(total, n)
<1>1. CASE total > 21
  <2>1. strength = 0 BY <1>1 DEF StrengthFor
  <2>2. QED BY <1>1, <2>1 DEF Graded
<1>2. CASE n = 2 /\ total = 21
  <2>1. strength = 22 BY <1>2 DEF StrengthFor
  <2>2. QED BY <1>2, <2>1 DEF Graded
<1>3. CASE total <= 21 /\ ~(n = 2 /\ total = 21)
  <2>1. strength = total BY <1>3 DEF StrengthFor
  <2>2. QED BY <1>3, <2>1 DEF Graded
<1>4. QED BY <1>1, <1>2, <1>3

LEMMA StrengthIs ==
  ASSUME NEW cards \in Seq(CardRanks), Len(cards) >= 2
  PROVE  LET strength == Strength(cards)
             total == HandTotal(cards)
         IN  /\ strength \in 0..22 /\ total \in Nat
             /\ IsBust(cards) <=> strength = 0
             /\ IsBlackjack(cards) <=> strength = 22
             /\ strength \in 1..21 => strength = total
<1> DEFINE total == HandTotal(cards)
<1>1. total \in Nat /\ total = BestReading(cards)
  BY TotalIsBest
<1>2. total > 0
  <2> DEFINE low == Low(cards)
  <2>1. low \in Nat /\ low >= Len(cards) /\ Len(cards) \in Nat BY AcesCountTenMore
  <2>2. total = low + 10 \/ total = low BY TotalIsBest
  <2> HIDE DEF low, total
  <2>3. QED BY <2>1, <2>2
<1> DEFINE n == Len(cards)
           strength == Strength(cards)
<1>3. strength = StrengthFor(total, n)
  BY <1>1 DEF Strength, StrengthFor
<1>4. IsBust(cards) <=> total > 21 BY DEF IsBust
<1>5. IsBlackjack(cards) <=> n = 2 /\ total = 21 BY DEF IsBlackjack
<1>6. n \in Nat OBVIOUS
<1> HIDE DEF n, total, strength
<1>7. Graded(strength, total, n)
  <2>1. Graded(StrengthFor(total, n), total, n) BY <1>1, <1>2, <1>6, StrengthIsGraded, Zenon
  <2>2. QED BY <1>3, <2>1, Zenon
<1>8. QED BY <1>1, <1>4, <1>5, <1>7, ZenonT(60) DEF total, strength, Graded

OutcomeOf(mine, theirs, p, d) ==
  CASE mine = 0 -> "player_bust"
    [] mine = 22 /\ theirs = 22 -> "push"
    [] mine = 22 /\ ~(theirs = 22) -> "player_blackjack"
    [] mine # 0 /\ ~(mine = 22) /\ theirs = 22 -> "dealer_blackjack"
    [] OTHER -> IF theirs = 0 \/ p > d THEN "player_win"
                ELSE IF p < d THEN "player_lose" ELSE "push"

Nets(outcome, bet, half, net) ==
  /\ outcome = "player_blackjack" => net = half
  /\ outcome = "player_win" => net = bet
  /\ outcome = "push" => net = 0
  /\ outcome \in {"player_bust", "dealer_blackjack", "player_lose"} => net = -bet

Reads(strength, total) ==
  strength \in 0..22 /\ total \in Nat /\ (strength \in 1..21 => strength = total)

\* The first of the outcome's conditions that holds, and what it nets, compare strengths.
LEMMA OutcomeCompares ==
  ASSUME NEW mine, NEW theirs, NEW p, NEW d, Reads(mine, p), Reads(theirs, d),
         NEW bet \in Nat, NEW half \in Nat, NEW net, Nets(OutcomeOf(mine, theirs, p, d), bet, half, net)
  PROVE  /\ OutcomeOf(mine, theirs, p, d) \in Outcomes /\ net \in Int
         /\ mine < theirs \/ mine = 0 => net = -bet
         /\ mine = theirs /\ mine # 0 => net = 0
         /\ mine > theirs => net = IF mine = 22 THEN half ELSE bet
<1> DEFINE outcome == OutcomeOf(mine, theirs, p, d)
<1> USE DEF Reads
<1>1. CASE mine = 0
  <2>1. outcome = "player_bust" BY <1>1 DEF OutcomeOf
  <2>2. net = -bet BY <2>1 DEF Nets
  <2>3. QED BY <1>1, <2>1, <2>2 DEF Outcomes, Nets
<1>2. CASE mine = 22
  <2>1. outcome = IF theirs = 22 THEN "push" ELSE "player_blackjack" BY <1>2 DEF OutcomeOf
  <2>2. QED BY <1>2, <2>1 DEF Outcomes, Nets
<1>3. CASE mine \in 1..21 /\ theirs = 22
  <2>1. outcome = "dealer_blackjack" BY <1>3 DEF OutcomeOf
  <2>2. net = -bet BY <2>1 DEF Nets
  <2>3. QED BY <1>3, <2>1, <2>2 DEF Outcomes, Nets
<1>4. CASE mine \in 1..21 /\ theirs \in 0..21
  <2>1. outcome = IF mine > theirs THEN "player_win"
                  ELSE IF mine < theirs THEN "player_lose" ELSE "push"
    BY <1>4 DEF OutcomeOf
  <2>2. QED BY <1>4, <2>1 DEF Outcomes, Nets
<1>5. QED BY <1>1, <1>2, <1>3, <1>4

\* The outcome's cases and the credit of each are the comparison of two strengths.
LEMMA SettlementPays ==
  ASSUME NEW player \in Seq(CardRanks), Len(player) >= 2,
         NEW dealer \in Seq(CardRanks), Len(dealer) >= 2, NEW bet \in Nat
  PROVE  LET outcome == ResolveOutcome(player, dealer)
             s == SettlementFromOutcome(outcome, bet)
         IN  /\ outcome \in Outcomes
             /\ s \in [bet: Int, credit: Int, houseDelta: Int]
             /\ PaysByStrength(player, dealer, bet, s)
<1> DEFINE outcome == ResolveOutcome(player, dealer)
           s == SettlementFromOutcome(outcome, bet)
           p == HandTotal(player)
           d == HandTotal(dealer)
           mine == Strength(player)
           theirs == Strength(dealer)
           half == (3 * bet) \div 2
           net == NetWin(outcome, bet)
<1>1. /\ mine \in 0..22 /\ p \in Nat /\ (IsBust(player) <=> mine = 0)
      /\ (IsBlackjack(player) <=> mine = 22)
      /\ (mine \in 1..21 => mine = p)
  BY StrengthIs
<1>2. /\ theirs \in 0..22 /\ d \in Nat /\ (IsBust(dealer) <=> theirs = 0)
      /\ (IsBlackjack(dealer) <=> theirs = 22)
      /\ (theirs \in 1..21 => theirs = d)
  BY StrengthIs
<1>3. outcome = OutcomeOf(mine, theirs, p, d)
  BY <1>1, <1>2 DEF ResolveOutcome, OutcomeOf
<1>4. half \in Nat /\ (bet * 3) \div 2 = half
  <2>1. bet * 3 = 3 * bet /\ 3 * bet \in Nat OBVIOUS
  <2>2. QED BY <2>1
<1>5. s = [bet |-> bet, credit |-> bet + net, houseDelta |-> -net]
  BY DEF SettlementFromOutcome
<1>6. Nets(outcome, bet, half, net)
  BY <1>4 DEF NetWin, Nets
<1> HIDE DEF outcome, s, p, d, mine, theirs, half, net
<1>7. /\ outcome \in Outcomes /\ net \in Int
      /\ mine < theirs \/ mine = 0 => net = -bet
      /\ mine = theirs /\ mine # 0 => net = 0
      /\ mine > theirs => net = IF mine = 22 THEN half ELSE bet
  <2>1. Reads(mine, p) /\ Reads(theirs, d) /\ half \in Nat
    BY <1>1, <1>2, <1>4 DEF Reads
  <2>2. Nets(OutcomeOf(mine, theirs, p, d), bet, half, net) BY <1>3, <1>6
  <2>3. /\ OutcomeOf(mine, theirs, p, d) \in Outcomes /\ net \in Int
        /\ mine < theirs \/ mine = 0 => net = -bet
        /\ mine = theirs /\ mine # 0 => net = 0
        /\ mine > theirs => net = IF mine = 22 THEN half ELSE bet
    BY <2>1, <2>2, OutcomeCompares
  <2>4. QED BY <1>3, <2>3
<1>8. s.bet = bet /\ s.credit = bet + net /\ s.houseDelta = -net
      /\ s \in [bet: Int, credit: Int, houseDelta: Int]
  BY <1>5, <1>7
<1>9. PaysByStrength(player, dealer, bet, s)
  <2>1. /\ mine < theirs \/ mine = 0 => s.credit = 0
        /\ mine = theirs /\ mine # 0 => s.credit = bet
        /\ mine > theirs => s.credit = bet + (IF mine = 22 THEN half ELSE bet)
        /\ s.houseDelta = bet - s.credit
    BY <1>4, <1>7, <1>8
  <2>2. QED BY <1>8, <2>1 DEF PaysByStrength, half, mine, theirs
<1>10. QED BY <1>7, <1>8, <1>9 DEF s, outcome

-----------------------------------------------------------------------------
(* Hands, and where their cards come from. *)

HandRecord ==
  [phase: {"player_turn", "settled"}, bet: Nat, shoe: Shoes, dealt: Nat,
   player: Seq(CardRanks), dealer: Seq(CardRanks), doubled: BOOLEAN, outcome: Outcomes,
   settlement: [bet: Int, credit: Int, houseDelta: Int]]

FromShoe(h) ==
  /\ h \in HandRecord
  /\ Len(h.player) >= 2 /\ Len(h.dealer) >= 2
  /\ h.dealt = Len(h.player) + Len(h.dealer) /\ h.dealt <= ShoeLength
  /\ h.player[1] = h.shoe[1] /\ h.player[2] = h.shoe[3]
  /\ h.dealer[1] = h.shoe[2] /\ h.dealer[2] = h.shoe[4]
  /\ \A i \in 3..Len(h.player) : h.player[i] = h.shoe[i + 2]
  /\ \A i \in 3..Len(h.dealer) : h.dealer[i] = h.shoe[Len(h.player) + i]

LEMMA ShoesDeal ==
  ASSUME NEW shoe \in Shoes
  PROVE  /\ shoe \in Seq(CardRanks) /\ Len(shoe) = ShoeLength
         /\ \A i \in 1..ShoeLength : shoe[i] \in CardRanks
<1>1. Ranks \subseteq CardRanks /\ ShoeLength \in Nat BY ShoeDealsAHand DEF CardRanks
<1>2. \A i \in 1..ShoeLength : shoe[i] \in CardRanks BY <1>1 DEF Shoes
<1>3. shoe \in [1..ShoeLength -> CardRanks] BY <1>1, <1>2 DEF Shoes
<1>4. QED BY <1>1, <1>2, <1>3

LEMMA SettledHand ==
  ASSUME NEW h, FromShoe(h)
  PROVE  LET g == Settled(h)
         IN  /\ FromShoe(g) /\ g.phase = "settled"
             /\ g.player = h.player /\ g.dealer = h.dealer
             /\ PaysByStrength(g.player, g.dealer, g.bet, g.settlement)
<1> DEFINE outcome == ResolveOutcome(h.player, h.dealer)
           s == SettlementFromOutcome(outcome, h.bet)
           g == Settled(h)
<1>1. /\ h \in HandRecord /\ h.player \in Seq(CardRanks) /\ h.dealer \in Seq(CardRanks) /\ h.bet \in Nat
      /\ Len(h.player) >= 2 /\ Len(h.dealer) >= 2
  BY DEF FromShoe, HandRecord
<1>2. /\ outcome \in Outcomes /\ s \in [bet: Int, credit: Int, houseDelta: Int]
      /\ PaysByStrength(h.player, h.dealer, h.bet, s)
  BY <1>1, SettlementPays
<1>3. g = [h EXCEPT !.phase = "settled", !.outcome = outcome, !.settlement = s]
  BY DEF Settled
<1> HIDE DEF outcome, s, g
<1>4. /\ g \in HandRecord /\ g.phase = "settled" /\ g.player = h.player /\ g.dealer = h.dealer
      /\ g.bet = h.bet /\ g.shoe = h.shoe /\ g.dealt = h.dealt /\ g.settlement = s
  BY <1>1, <1>2, <1>3 DEF HandRecord
<1>5. FromShoe(g) BY <1>4 DEF FromShoe
<1>6. QED BY <1>2, <1>4, <1>5 DEF g

\* The dealer's cards after n draws.
Drawn(h, n) == h.dealer \o SubSeq(h.shoe, h.dealt + 1, h.dealt + n)

LEMMA DrawnCards ==
  ASSUME NEW h, FromShoe(h), NEW n \in Nat, h.dealt + n <= ShoeLength
  PROVE  /\ Drawn(h, n) \in Seq(CardRanks) /\ Len(Drawn(h, n)) = Len(h.dealer) + n
         /\ \A i \in 1..(Len(h.dealer) + n) :
              Drawn(h, n)[i] = IF i <= Len(h.dealer) THEN h.dealer[i]
                               ELSE h.shoe[h.dealt + (i - Len(h.dealer))]
<1> DEFINE shoe == h.shoe
           dealer == h.dealer
           dealt == h.dealt
           more == SubSeq(shoe, dealt + 1, dealt + n)
           cards == dealer \o more
<1>1. /\ shoe \in Shoes /\ dealer \in Seq(CardRanks) /\ dealt \in Nat
      /\ ShoeLength \in Nat /\ dealt + n <= ShoeLength
  BY ShoeDealsAHand DEF FromShoe, HandRecord
<1>2. \A i \in 1..ShoeLength : shoe[i] \in CardRanks BY <1>1, ShoesDeal
<1> HIDE DEF shoe, dealer, dealt
<1>3. /\ more \in Seq(CardRanks)
      /\ Len(more) = (IF dealt + 1 <= dealt + n THEN (dealt + n) - (dealt + 1) + 1 ELSE 0)
      /\ \A i \in 1..((dealt + n) - (dealt + 1) + 1) : more[i] = shoe[(dealt + 1) + i - 1]
  <2>1. \A i \in (dealt + 1)..(dealt + n) : shoe[i] \in CardRanks BY <1>1, <1>2
  <2>2. dealt + 1 \in Int /\ dealt + n \in Int BY <1>1
  <2>3. QED BY <2>1, <2>2, SubSeqProperties
<1>4. Len(more) = n /\ \A i \in 1..n : more[i] = shoe[dealt + i]
  <2>1. \A i \in 1..n : (dealt + 1) + i - 1 = dealt + i BY <1>1
  <2>2. (dealt + n) - (dealt + 1) + 1 = n BY <1>1
  <2>3. Len(more) = n BY <1>1, <1>3
  <2>4. \A i \in 1..n : more[i] = shoe[(dealt + 1) + i - 1] BY <1>3, <2>2
  <2>5. QED BY <2>1, <2>3, <2>4
<1> HIDE DEF more
<1>5. /\ cards \in Seq(CardRanks) /\ Len(cards) = Len(dealer) + Len(more)
      /\ \A i \in 1..(Len(dealer) + Len(more)) :
           cards[i] = IF i <= Len(dealer) THEN dealer[i] ELSE more[i - Len(dealer)]
  BY <1>1, <1>3, ConcatProperties
<1>6. Len(dealer) \in Nat BY <1>1
<1>7. \A i \in 1..(Len(dealer) + n) :
        cards[i] = IF i <= Len(dealer) THEN dealer[i] ELSE shoe[dealt + (i - Len(dealer))]
  <2> SUFFICES ASSUME NEW i \in 1..(Len(dealer) + n), i > Len(dealer)
               PROVE  cards[i] = shoe[dealt + (i - Len(dealer))]
    BY <1>4, <1>5, <1>6
  <2>1. cards[i] = more[i - Len(dealer)] BY <1>4, <1>5, <1>6
  <2>2. i - Len(dealer) \in 1..n BY <1>6
  <2>3. QED BY <1>4, <2>1, <2>2
<1>8. QED BY <1>4, <1>5, <1>7 DEF Drawn, more, shoe, dealer, dealt

LEMMA DrawnPrefix ==
  ASSUME NEW h, FromShoe(h), NEW n \in Nat, h.dealt + n <= ShoeLength, NEW m \in Nat, m <= n
  PROVE  SubSeq(Drawn(h, n), 1, Len(h.dealer) + m) = Drawn(h, m)
<1> DEFINE long == Drawn(h, n)
           short == Drawn(h, m)
           k == Len(h.dealer)
           sub == SubSeq(long, 1, k + m)
<1>1. h.dealer \in Seq(CardRanks) /\ h.dealt \in Nat /\ ShoeLength \in Nat
  BY ShoeDealsAHand DEF FromShoe, HandRecord
<1>2. k \in Nat /\ h.dealt + m <= ShoeLength BY <1>1
<1>3. /\ long \in Seq(CardRanks) /\ Len(long) = k + n
      /\ \A i \in 1..(k + n) : long[i] = IF i <= k THEN h.dealer[i] ELSE h.shoe[h.dealt + (i - k)]
  BY DrawnCards
<1>4. /\ short \in Seq(CardRanks) /\ Len(short) = k + m
      /\ \A i \in 1..(k + m) : short[i] = IF i <= k THEN h.dealer[i] ELSE h.shoe[h.dealt + (i - k)]
  BY <1>2, DrawnCards
<1> HIDE DEF long, short, k
<1>5. \A i \in 1..(k + m) : long[i] = short[i] /\ long[i] \in CardRanks
  <2>1. \A i \in 1..(k + m) : i \in 1..(k + n) BY <1>2
  <2>2. \A i \in 1..(k + n) : long[i] \in CardRanks BY <1>2, <1>3, ElementOfSeq
  <2>3. QED BY <1>3, <1>4, <2>1, <2>2
<1>6. /\ sub \in Seq(CardRanks) /\ Len(sub) = (IF 1 <= k + m THEN (k + m) - 1 + 1 ELSE 0)
      /\ \A i \in 1..((k + m) - 1 + 1) : sub[i] = long[1 + i - 1]
  <2>1. 1 \in Int /\ k + m \in Int BY <1>2
  <2>2. QED BY <1>5, <2>1, SubSeqProperties
<1> HIDE DEF sub
<1>7. Len(sub) = k + m /\ \A i \in 1..(k + m) : sub[i] = short[i]
  <2>1. (k + m) - 1 + 1 = k + m /\ k + m \in Nat BY <1>2
  <2>2. Len(sub) = k + m BY <1>6, <2>1
  <2>3. \A i \in 1..(k + m) : 1 + i - 1 = i BY <1>2
  <2>4. \A i \in 1..(k + m) : sub[i] = long[i] BY <1>6, <2>1, <2>3
  <2>5. QED BY <1>5, <2>2, <2>4
<1>8. sub = short BY <1>4, <1>6, <1>7, SeqEqual
<1>9. QED BY <1>8 DEF sub, short, long, k

LEMMA DrawnNone ==
  ASSUME NEW h, FromShoe(h)
  PROVE  Drawn(h, 0) = h.dealer
<1> DEFINE none == Drawn(h, 0)
           dealer == h.dealer
<1>1. dealer \in Seq(CardRanks) /\ Len(dealer) \in Nat /\ h.dealt \in Nat /\ ShoeLength \in Nat
      /\ h.dealt + 0 <= ShoeLength
  BY ShoeDealsAHand DEF FromShoe, HandRecord
<1>2. /\ none \in Seq(CardRanks) /\ Len(none) = Len(dealer) + 0
      /\ \A i \in 1..(Len(dealer) + 0) : i <= Len(dealer) => none[i] = dealer[i]
  BY <1>1, DrawnCards
<1> HIDE DEF none, dealer
<1>3. Len(none) = Len(dealer) /\ \A i \in 1..Len(none) : none[i] = dealer[i]
  BY <1>1, <1>2
<1>4. none = dealer BY <1>1, <1>2, <1>3, SeqEqual
<1>5. QED BY <1>4 DEF none, dealer

\* The player's next card comes from where the shoe stands, while the dealer has two.
LEMMA TakenHand ==
  ASSUME NEW h, FromShoe(h), Len(h.dealer) = 2, h.dealt < Len(h.shoe)
  PROVE  LET g == TakeCard(h)
         IN  /\ FromShoe(g) /\ g.dealer = h.dealer /\ g.bet = h.bet /\ g.phase = h.phase
             /\ Len(g.player) = Len(h.player) + 1 /\ g.shoe = h.shoe /\ g.dealt = h.dealt + 1
<1> DEFINE g == TakeCard(h)
           card == h.shoe[h.dealt + 1]
           player == h.player
           longer == Append(player, card)
<1>1. /\ h \in HandRecord /\ player \in Seq(CardRanks) /\ h.dealt \in Nat /\ h.shoe \in Shoes
      /\ ShoeLength \in Nat /\ Len(player) \in Nat /\ Len(player) >= 2
      /\ h.dealt = Len(player) + 2
  BY ShoeDealsAHand DEF FromShoe, HandRecord
<1>2. Len(h.shoe) = ShoeLength /\ h.dealt < ShoeLength /\ card \in CardRanks
  <2>1. Len(h.shoe) = ShoeLength /\ \A i \in 1..ShoeLength : h.shoe[i] \in CardRanks
    BY <1>1, ShoesDeal
  <2>2. h.dealt + 1 \in 1..ShoeLength BY <1>1, <2>1
  <2>3. QED BY <2>1, <2>2
<1>3. g = [h EXCEPT !.player = longer, !.dealt = h.dealt + 1]
  BY <1>1 DEF TakeCard, NextCard, HandRecord
<1> HIDE DEF card, player
<1>4. /\ longer \in Seq(CardRanks) /\ Len(longer) = Len(player) + 1
      /\ \A i \in 1..Len(player) : longer[i] = player[i]
      /\ longer[Len(player) + 1] = card
  BY <1>1, <1>2, AppendProperties
<1> HIDE DEF g, longer
<1>5. /\ g \in HandRecord /\ g.player = longer /\ g.dealt = h.dealt + 1 /\ g.dealer = h.dealer
      /\ g.bet = h.bet /\ g.phase = h.phase /\ g.shoe = h.shoe
  <2>1. h.dealt + 1 \in Nat BY <1>1
  <2>2. QED BY <1>1, <1>3, <1>4, <2>1 DEF HandRecord
<1>6. \A i \in 3..Len(longer) : longer[i] = h.shoe[i + 2]
  <2>1. \A i \in 3..Len(player) : player[i] = h.shoe[i + 2] BY DEF FromShoe, player
  <2>2. longer[Len(player) + 1] = h.shoe[(Len(player) + 1) + 2]
    <3>1. h.dealt + 1 = (Len(player) + 1) + 2 BY <1>1
    <3>2. QED BY <1>4, <3>1 DEF card
  <2>3. \A i \in 3..Len(longer) : i \in 3..Len(player) \/ i = Len(player) + 1 BY <1>1, <1>4
  <2>4. \A i \in 3..Len(player) : longer[i] = player[i] BY <1>1, <1>4
  <2>5. QED BY <2>1, <2>2, <2>3, <2>4
<1>7. FromShoe(g)
  <2>1. longer[1] = player[1] /\ longer[2] = player[2] BY <1>1, <1>4
  <2>2. /\ Len(longer) >= 2 /\ g.dealt = Len(longer) + 2 /\ g.dealt <= ShoeLength
    BY <1>1, <1>2, <1>4, <1>5
  <2>3. \A i \in 3..2 : FALSE OBVIOUS
  <2>4. QED BY <1>5, <1>6, <2>1, <2>2, <2>3 DEF FromShoe, player
<1>8. QED BY <1>4, <1>5, <1>7 DEF g, player

-----------------------------------------------------------------------------
(* How the dealer plays. *)

PlaysByRule(player, dealer) ==
  LET untouched == IsBust(player) \/ IsBlackjack(player) \/ IsBlackjack(dealer)
  IN  /\ untouched => Len(dealer) = 2
      /\ ~untouched =>
           /\ BestReading(dealer) >= 17
           /\ \A n \in 2..(Len(dealer) - 1) : BestReading(SubSeq(dealer, 1, n)) < 17

Concluded(h) ==
  /\ FromShoe(h) /\ h.phase = "settled"
  /\ PlaysByRule(h.player, h.dealer)
  /\ PaysByStrength(h.player, h.dealer, h.bet, h.settlement)

LEMMA DealerDraws ==
  ASSUME NEW h, FromShoe(h), Len(h.dealer) = 2, NEW n \in Nat, h.dealt + n <= ShoeLength
  PROVE  LET g == [h EXCEPT !.dealer = @ \o SubSeq(h.shoe, h.dealt + 1, h.dealt + n), !.dealt = @ + n]
         IN  /\ FromShoe(g) /\ g.player = h.player /\ g.dealer = Drawn(h, n) /\ g.bet = h.bet
<1> DEFINE g == [h EXCEPT !.dealer = @ \o SubSeq(h.shoe, h.dealt + 1, h.dealt + n), !.dealt = @ + n]
           cards == Drawn(h, n)
<1>1. /\ h \in HandRecord /\ h.dealt \in Nat /\ ShoeLength \in Nat /\ Len(h.player) \in Nat
      /\ h.dealt = Len(h.player) + 2 /\ h.player \in Seq(CardRanks)
  BY ShoeDealsAHand DEF FromShoe, HandRecord
<1>2. /\ cards \in Seq(CardRanks) /\ Len(cards) = 2 + n
      /\ \A i \in 1..(2 + n) : cards[i] = IF i <= 2 THEN h.dealer[i] ELSE h.shoe[h.dealt + (i - 2)]
  <2> DEFINE two == Len(h.dealer)
  <2>1. /\ cards \in Seq(CardRanks) /\ Len(cards) = two + n
        /\ \A i \in 1..(two + n) :
             cards[i] = IF i <= two THEN h.dealer[i] ELSE h.shoe[h.dealt + (i - two)]
    BY DrawnCards
  <2>2. two = 2 OBVIOUS
  <2> HIDE DEF cards, two
  <2>3. QED BY <2>1, <2>2
<1>3. g = [h EXCEPT !.dealer = cards, !.dealt = h.dealt + n]
  BY <1>1 DEF Drawn, HandRecord
<1> HIDE DEF g, cards
<1>4. /\ g \in HandRecord /\ g.dealer = cards /\ g.dealt = h.dealt + n /\ g.player = h.player
      /\ g.bet = h.bet /\ g.shoe = h.shoe
  <2>1. h.dealt + n \in Nat BY <1>1
  <2>2. QED BY <1>1, <1>2, <1>3, <2>1 DEF HandRecord
<1>5. \A i \in 3..Len(cards) : cards[i] = h.shoe[Len(h.player) + i]
  <2>1. \A i \in 3..Len(cards) : i \in 1..(2 + n) /\ ~(i <= 2) BY <1>2
  <2>2. \A i \in 3..Len(cards) : h.dealt + (i - 2) = Len(h.player) + i BY <1>1
  <2>3. QED BY <1>2, <2>1, <2>2
<1>6. cards[1] = h.dealer[1] /\ cards[2] = h.dealer[2] BY <1>2
<1>7. Len(cards) >= 2 /\ g.dealt = Len(h.player) + Len(cards)
  <2> DEFINE p == Len(h.player)
  <2>1. p \in Nat /\ g.dealt = (p + 2) + n /\ Len(cards) = 2 + n BY <1>1, <1>2, <1>4
  <2> HIDE DEF p
  <2>2. Len(cards) >= 2 /\ g.dealt = p + Len(cards) BY <2>1
  <2>3. QED BY <2>2 DEF p
<1>8. FromShoe(g) BY <1>4, <1>5, <1>6, <1>7 DEF FromShoe
<1>9. QED BY <1>4, <1>8 DEF g, cards

LEMMA FinishedHand ==
  ASSUME NEW h, FromShoe(h), Len(h.dealer) = 2, ~IsBlackjack(h.player), ~IsBlackjack(h.dealer),
         ShoeLasts(h)
  PROVE  Concluded(FinishDealer(h))
<1> DEFINE standing == StandingDraws(h)
           n == IF IsBust(h.player) THEN 0 ELSE Min(standing)
           g == [h EXCEPT !.dealer = @ \o SubSeq(h.shoe, h.dealt + 1, h.dealt + n), !.dealt = @ + n]
<1>1. /\ h.dealt \in Nat /\ ShoeLength \in Nat /\ Len(h.shoe) = ShoeLength /\ h.dealt <= ShoeLength
      /\ h.dealer \in Seq(CardRanks)
  BY ShoeDealsAHand, ShoesDeal DEF FromShoe, HandRecord
<1>2. standing = {k \in 0..(ShoeLength - h.dealt) : HandTotal(Drawn(h, k)) >= 17}
  BY <1>1 DEF StandingDraws, Drawn
<1>3. /\ n \in Nat /\ h.dealt + n <= ShoeLength
      /\ ~IsBust(h.player) => /\ HandTotal(Drawn(h, n)) >= 17
                              /\ \A k \in Nat : k < n => ~(HandTotal(Drawn(h, k)) >= 17)
  <2>1. CASE IsBust(h.player)
    BY <1>1, <2>1
  <2>2. CASE ~IsBust(h.player)
    <3>1. standing # {} BY <2>2 DEF ShoeLasts
    <3>2. standing \subseteq Nat BY <1>2
    <3>3. n = Min(standing) BY <2>2
    <3> HIDE DEF n, standing
    <3>4. n \in standing /\ \A k \in standing : n <= k BY <3>1, <3>2, <3>3, MinOfNats
    <3>5. n \in 0..(ShoeLength - h.dealt) /\ HandTotal(Drawn(h, n)) >= 17 BY <1>2, <3>4
    <3>6. \A k \in Nat : k < n => k \in 0..(ShoeLength - h.dealt) /\ ~(n <= k) BY <1>1, <3>5
    <3>7. \A k \in Nat : k < n => ~(HandTotal(Drawn(h, k)) >= 17) BY <1>2, <3>4, <3>6
    <3>8. n \in Nat /\ h.dealt + n <= ShoeLength BY <1>1, <3>5
    <3>9. QED BY <3>5, <3>7, <3>8
  <2>3. QED BY <2>1, <2>2
<1>4. FinishDealer(h) = Settled(g)
  BY DEF FinishDealer
<1>5. n = 0 => Drawn(h, n) = h.dealer
  BY DrawnNone
<1>6. IsBust(h.player) => n = 0 OBVIOUS
<1> HIDE DEF n
<1>7. FromShoe(g) /\ g.player = h.player /\ g.dealer = Drawn(h, n) /\ g.bet = h.bet
  BY <1>3, DealerDraws
<1> HIDE DEF g
<1>8. LET s == Settled(g)
      IN  /\ FromShoe(s) /\ s.phase = "settled" /\ s.player = g.player /\ s.dealer = g.dealer
          /\ PaysByStrength(s.player, s.dealer, s.bet, s.settlement)
  BY <1>7, SettledHand
<1> DEFINE dealer == Drawn(h, n)
<1>9. dealer \in Seq(CardRanks) /\ Len(dealer) = 2 + n
  <2>1. dealer \in Seq(CardRanks) /\ Len(dealer) = Len(h.dealer) + n
    <3>1. n \in Nat /\ h.dealt + n <= ShoeLength BY <1>3
    <3>2. QED BY <3>1, DrawnCards, ZenonT(60)
  <2>2. QED BY <2>1
<1>10. PlaysByRule(h.player, dealer)
  <2>1. CASE IsBust(h.player)
    <3>1. Len(dealer) = 2 BY <1>5, <1>6, <2>1
    <3> HIDE DEF dealer
    <3>2. QED BY <2>1, <3>1 DEF PlaysByRule
  <2>2. CASE ~IsBust(h.player)
    <3>1. ~IsBlackjack(dealer)
      <4>1. CASE n = 0 BY <1>5, <4>1
      <4>2. CASE n # 0
        <5>1. Len(dealer) # 2 BY <1>3, <1>9, <4>2
        <5>2. QED BY <5>1 DEF IsBlackjack
      <4>3. QED BY <4>1, <4>2
    <3>2. BestReading(dealer) >= 17 BY <1>3, <1>9, <2>2, TotalIsBest
    <3>3. ASSUME NEW k \in 2..(Len(dealer) - 1) PROVE BestReading(SubSeq(dealer, 1, k)) < 17
      <4> DEFINE m == k - 2
      <4>1. m \in Nat /\ m < n /\ m <= n /\ k = 2 + m BY <1>3, <1>9
      <4> HIDE DEF m
      <4>2. SubSeq(dealer, 1, k) = Drawn(h, m) BY <1>3, <4>1, DrawnPrefix
      <4>3. ~(HandTotal(Drawn(h, m)) >= 17) BY <1>3, <2>2, <4>1
      <4>4. Drawn(h, m) \in Seq(CardRanks)
        <5>1. h.dealt + m <= ShoeLength BY <1>1, <1>3, <4>1
        <5>2. QED BY <4>1, <5>1, DrawnCards
      <4> DEFINE total == HandTotal(Drawn(h, m))
      <4>5. total \in Nat /\ total = BestReading(Drawn(h, m)) BY <4>4, TotalIsBest
      <4> HIDE DEF total
      <4>6. total < 17 BY <4>3, <4>5 DEF total
      <4>7. QED BY <4>2, <4>5, <4>6
    <3> HIDE DEF dealer
    <3>4. QED BY <2>2, <3>1, <3>2, <3>3 DEF PlaysByRule
  <2>3. QED BY <2>1, <2>2
<1>11. QED BY <1>4, <1>7, <1>8, <1>10 DEF Concluded

-----------------------------------------------------------------------------
(* The deal, and the moves. *)

\* Two cards are never over 21, and are 21 as an ace and a ten only: the peek sees it.
LEMMA TwoCards ==
  ASSUME NEW cards \in Seq(CardRanks), Len(cards) = 2
  PROVE  /\ ~IsBust(cards)
         /\ IsBlackjack(cards) => cards[1] \in {Ace, Ten}
<1> DEFINE a == cards[1]
           b == cards[2]
           low == Low(cards)
           aces == Aces(cards)
           total == HandTotal(cards)
<1>1. DOMAIN cards = {1, 2} /\ a \in 1..10 /\ b \in 1..10
  <2>1. DOMAIN cards = 1..2 BY LenProperties
  <2>2. cards[1] \in CardRanks /\ cards[2] \in CardRanks BY ElementOfSeq
  <2>3. CardRanks = 1..10 BY DEF CardRanks, Ace, Ten
  <2>4. 1..2 = {1, 2} OBVIOUS
  <2>5. QED BY <2>1, <2>2, <2>3, <2>4
<1>2. low = a + b
  <2>1. IsFiniteSet({}) /\ IsFiniteSet({1}) BY FS_EmptySet, FS_Singleton
  <2>2. cards[1] \in Int /\ cards[2] \in Int BY <1>1
  <2>3. SumFunctionOnSet(cards, {} \cup {1}) = SumFunctionOnSet(cards, {}) + cards[1]
    BY <2>1, <2>2, SumWithOneMore
  <2>4. SumFunctionOnSet(cards, {1} \cup {2}) = SumFunctionOnSet(cards, {1}) + cards[2]
    <3>1. 2 \notin {1} /\ \A x \in {1} : cards[x] \in Int BY <2>2
    <3>2. QED BY <2>1, <2>2, <3>1, SumWithOneMore
  <2>5. {} \cup {1} = {1} /\ {1} \cup {2} = {1, 2} OBVIOUS
  <2>6. SumFunctionOnSet(cards, {1, 2}) = 0 + cards[1] + cards[2]
    BY <2>3, <2>4, <2>5, SumOverNone
  <2>7. QED BY <1>1, <2>6 DEF Low, SumFunction
<1>3. aces > 0 <=> (a = 1 \/ b = 1)
  <2> DEFINE S == {i \in DOMAIN cards : cards[i] = Ace}
  <2>1. IsFiniteSet({1, 2}) /\ S \subseteq {1, 2}
    <3>1. IsFiniteSet({1} \cup {2}) BY FS_Singleton, FS_AddElement
    <3>2. {1} \cup {2} = {1, 2} OBVIOUS
    <3>3. QED BY <1>1, <3>1, <3>2
  <2>2. IsFiniteSet(S) BY <2>1, FS_Subset
  <2>3. Cardinality(S) \in Nat /\ (Cardinality(S) = 0 <=> S = {}) BY <2>2, FS_EmptySet, FS_CardinalityType
  <2>4. S # {} <=> (a = 1 \/ b = 1) BY <1>1 DEF Ace
  <2>5. aces = Cardinality(S) BY DEF Aces
  <2> HIDE DEF S, aces
  <2>6. QED BY <2>3, <2>4, <2>5
<1>4. total = IF aces > 0 /\ low + 10 <= 21 THEN low + 10 ELSE low
  BY TotalIsBest
<1>5. (IsBust(cards) <=> total > 21) /\ (IsBlackjack(cards) => total = 21)
  BY DEF IsBust, IsBlackjack
<1> HIDE DEF low, aces, total, a, b
<1>6. total <= 21 /\ (total = 21 => a = 1 \/ a = 10)
  BY <1>1, <1>2, <1>3, <1>4
<1>7. total \in Nat BY <1>1, <1>2, <1>4
<1>8. ~IsBust(cards) /\ (IsBlackjack(cards) => a = 1 \/ a = 10)
  BY <1>5, <1>6, <1>7
<1>9. QED BY <1>8 DEF a, Ace, Ten

Undecided(h) ==
  /\ ~IsBlackjack(h.player) /\ ~IsBlackjack(h.dealer)
  /\ ~IsBust(h.player)
  /\ Len(h.dealer) = 2

HandSound(h) ==
  /\ FromShoe(h)
  /\ h.phase = "player_turn" => Undecided(h)
  /\ h.phase = "settled" => Concluded(h)

LEMMA CreatedHand ==
  ASSUME NEW bet \in Nat, NEW shoe \in Shoes
  PROVE  HandSound(CreateHand(bet, shoe))
<1> DEFINE player == <<shoe[1], shoe[3]>>
           dealer == <<shoe[2], shoe[4]>>
           h == [phase |-> "player_turn", bet |-> bet, shoe |-> shoe, dealt |-> 4,
                 player |-> player, dealer |-> dealer,
                 doubled |-> FALSE, outcome |-> "none", settlement |-> NoSettlement]
<1>1. ShoeLength \in Nat /\ ShoeLength >= 4 /\ \A i \in 1..ShoeLength : shoe[i] \in CardRanks
  BY ShoeDealsAHand, ShoesDeal
<1>2. {shoe[1], shoe[2], shoe[3], shoe[4]} \subseteq CardRanks
  BY <1>1
<1>3. /\ player \in Seq(CardRanks) /\ Len(player) = 2 /\ player[1] = shoe[1] /\ player[2] = shoe[3]
      /\ dealer \in Seq(CardRanks) /\ Len(dealer) = 2 /\ dealer[1] = shoe[2] /\ dealer[2] = shoe[4]
  BY <1>2
<1>4. CreateHand(bet, shoe) = IF DealerPeeks(h) \/ IsBlackjack(h.player) THEN Settled(h) ELSE h
  BY DEF CreateHand
<1> HIDE DEF player, dealer
<1>5. h \in HandRecord
  BY <1>3 DEF HandRecord, Outcomes, NoSettlement
<1>6. /\ h.player = player /\ h.dealer = dealer /\ h.shoe = shoe /\ h.dealt = 4
      /\ h.phase = "player_turn"
  OBVIOUS
<1> HIDE DEF h
<1>7. FromShoe(h)
  <2>1. Len(h.player) = 2 /\ Len(h.dealer) = 2 BY <1>3, <1>6
  <2>2. h.dealt = Len(h.player) + Len(h.dealer) /\ h.dealt <= ShoeLength
    <3>1. 4 = 2 + 2 /\ 4 <= ShoeLength BY <1>1
    <3>2. QED BY <1>6, <2>1, <3>1
  <2>3. 3..2 = {} OBVIOUS
  <2>4. QED BY <1>3, <1>5, <1>6, <2>1, <2>2, <2>3 DEF FromShoe
<1>8. DealerPeeks(h) = IsBlackjack(dealer)
  <2>1. IsBlackjack(dealer) => dealer[1] \in {Ace, Ten} BY <1>3, TwoCards
  <2>2. IsBlackjack(dealer) \in BOOLEAN BY DEF IsBlackjack
  <2>3. QED BY <1>6, <2>1, <2>2 DEF DealerPeeks
<1>9. CASE DealerPeeks(h) \/ IsBlackjack(h.player)
  <2> DEFINE g == Settled(h)
  <2>1. /\ FromShoe(g) /\ g.phase = "settled" /\ g.player = player /\ g.dealer = dealer
        /\ PaysByStrength(g.player, g.dealer, g.bet, g.settlement)
    BY <1>6, <1>7, SettledHand
  <2>2. PlaysByRule(player, dealer)
    BY <1>3, <1>6, <1>8, <1>9 DEF PlaysByRule
  <2>3. CreateHand(bet, shoe) = g BY <1>4, <1>9
  <2> HIDE DEF g
  <2>4. Concluded(g) BY <2>1, <2>2 DEF Concluded
  <2>5. QED BY <2>1, <2>3, <2>4 DEF HandSound
<1>10. CASE ~(DealerPeeks(h) \/ IsBlackjack(h.player))
  <2>1. ~IsBust(player) BY <1>3, TwoCards
  <2>2. Undecided(h) BY <1>3, <1>6, <1>8, <1>10, <2>1 DEF Undecided
  <2>3. CreateHand(bet, shoe) = h BY <1>4, <1>10
  <2>4. QED BY <1>6, <1>7, <2>2, <2>3 DEF HandSound
<1>11. QED BY <1>9, <1>10

LEMMA ThreeCards ==
  ASSUME NEW cards \in Seq(CardRanks), Len(cards) >= 3
  PROVE  ~IsBlackjack(cards)
<1>1. Len(cards) \in Nat BY LenProperties
<1> DEFINE n == Len(cards)
<1>2. n \in Nat /\ n >= 3 BY <1>1
<1> HIDE DEF n
<1>3. n # 2 BY <1>2
<1>4. QED BY <1>3 DEF IsBlackjack, n

LEMMA MovedHand ==
  ASSUME HandSound(hand), hand.phase = "player_turn"
  PROVE  /\ hand.dealt < Len(hand.shoe) /\ (IsBust(TakeCard(hand).player) => ShoeLasts(TakeCard(hand)))
              => HandSound(HitHand(hand))
         /\ ShoeLasts(hand) => HandSound(StandHand(hand))
         /\ hand.dealt < Len(hand.shoe) /\ ShoeLasts(Doubled(hand)) => HandSound(DoubleHand(hand))
<1> DEFINE g == TakeCard(hand)
<1>1. FromShoe(hand) /\ Undecided(hand) /\ Len(hand.dealer) = 2 BY DEF HandSound, Undecided
<1>2. ASSUME hand.dealt < Len(hand.shoe)
      PROVE  /\ FromShoe(g) /\ g.dealer = hand.dealer /\ g.phase = "player_turn" /\ Len(g.dealer) = 2
             /\ g.player \in Seq(CardRanks) /\ ~IsBlackjack(g.player) /\ ~IsBlackjack(g.dealer)
             /\ g \in HandRecord
  <2>1. /\ FromShoe(g) /\ g.dealer = hand.dealer /\ g.phase = "player_turn"
        /\ Len(g.player) = Len(hand.player) + 1
    BY <1>1, <1>2, TakenHand
  <2>2. Len(hand.player) \in Nat /\ Len(hand.player) >= 2 BY <1>1 DEF FromShoe, HandRecord
  <2> HIDE DEF g
  <2>3. g.player \in Seq(CardRanks) /\ Len(g.player) >= 3 BY <2>1, <2>2 DEF FromShoe, HandRecord
  <2>4. ~IsBlackjack(g.player) BY <2>3, ThreeCards
  <2>5. QED BY <1>1, <2>1, <2>3, <2>4 DEF Undecided, FromShoe
<1>3. ASSUME NEW h, Concluded(h) PROVE HandSound(h)
  BY <1>3 DEF Concluded, HandSound
<1>4. ASSUME hand.dealt < Len(hand.shoe), IsBust(g.player) => ShoeLasts(g)
      PROVE  HandSound(HitHand(hand))
  <2> HIDE DEF g
  <2>1. CASE IsBust(g.player)
    <3>1. Concluded(FinishDealer(g)) BY <1>2, <1>4, <2>1, FinishedHand
    <3>2. HitHand(hand) = FinishDealer(g) BY <2>1 DEF HitHand, g
    <3>3. QED BY <1>3, <3>1, <3>2
  <2>2. CASE ~IsBust(g.player)
    <3>1. HitHand(hand) = g BY <2>2 DEF HitHand, g
    <3>2. HandSound(g) BY <1>2, <1>4, <2>2 DEF HandSound, Undecided
    <3>3. QED BY <3>1, <3>2
  <2>3. QED BY <2>1, <2>2
<1>5. ASSUME ShoeLasts(hand) PROVE HandSound(StandHand(hand))
  <2>1. Concluded(FinishDealer(hand)) BY <1>1, <1>5, FinishedHand DEF Undecided
  <2>2. QED BY <1>3, <2>1 DEF StandHand
<1>6. ASSUME hand.dealt < Len(hand.shoe), ShoeLasts(Doubled(hand)) PROVE HandSound(DoubleHand(hand))
  <2> DEFINE d == Doubled(hand)
  <2>1. d = [g EXCEPT !.doubled = TRUE, !.bet = 2 * g.bet] BY DEF Doubled
  <2> HIDE DEF d, g
  <2>2. g \in HandRecord /\ FromShoe(g) BY <1>2, <1>6
  <2>3. /\ d \in HandRecord /\ d.player = g.player /\ d.dealer = g.dealer /\ d.shoe = g.shoe
        /\ d.dealt = g.dealt
    <3>1. 2 * g.bet \in Nat BY <2>2 DEF HandRecord
    <3>2. QED BY <2>1, <2>2, <3>1 DEF HandRecord
  <2>4. FromShoe(d) BY <2>2, <2>3 DEF FromShoe
  <2>5. Concluded(FinishDealer(d)) BY <1>2, <1>6, <2>3, <2>4, FinishedHand DEF d
  <2>6. QED BY <1>3, <2>5 DEF DoubleHand, d
<1>7. QED BY <1>4, <1>5, <1>6

-----------------------------------------------------------------------------
(* The specification. *)

LEMMA DealtHands == BlackjackInit => HandSound(hand)
<1> SUFFICES ASSUME NEW bet \in Bets, NEW shoe \in Shoes, hand = CreateHand(bet, shoe)
             PROVE  HandSound(hand)
  BY DEF BlackjackInit
<1>1. bet \in Nat BY ShoeDealsAHand
<1>2. QED BY <1>1, CreatedHand

LEMMA HandMoves == HandSound(hand) /\ [BlackjackNext]_hand => HandSound(hand')
<1> SUFFICES ASSUME HandSound(hand), [BlackjackNext]_hand PROVE HandSound(hand')
  OBVIOUS
<1>1. CASE Hit
  <2>1. /\ hand.phase = "player_turn" /\ hand.dealt < Len(hand.shoe)
        /\ IsBust(TakeCard(hand).player) => ShoeLasts(TakeCard(hand))
        /\ hand' = HitHand(hand)
    BY <1>1 DEF Hit, CanHit
  <2>2. QED BY <2>1, MovedHand
<1>2. CASE Stand
  <2>1. hand.phase = "player_turn" /\ ShoeLasts(hand) /\ hand' = StandHand(hand)
    BY <1>2 DEF Stand, CanFinish
  <2>2. QED BY <2>1, MovedHand
<1>3. CASE Double
  <2>1. /\ hand.phase = "player_turn" /\ hand.dealt < Len(hand.shoe) /\ ShoeLasts(Doubled(hand))
        /\ hand' = DoubleHand(hand)
    BY <1>3 DEF Double, CanDoubleHand, CanHit
  <2>2. QED BY <2>1, MovedHand
<1>4. CASE UNCHANGED hand
  BY <1>4
<1>5. QED BY <1>1, <1>2, <1>3, <1>4 DEF BlackjackNext

LEMMA HandsStaySound == BlackjackSpec => []HandSound(hand)
<1>1. HandSound(hand) /\ [BlackjackNext]_hand => HandSound(hand)'
  <2>1. HandSound(hand)' <=> HandSound(hand')
    BY DEF HandSound, FromShoe, Undecided, Concluded, PlaysByRule, PaysByStrength,
           HandRecord, CardRanks, Shoes, Outcomes
  <2>2. QED BY <2>1, HandMoves
<1>2. QED BY <1>1, DealtHands, PTL DEF BlackjackSpec

-----------------------------------------------------------------------------
(* Where the cards come from. *)

LEMMA FromTheThird ==
  ASSUME NEW cards \in Seq(CardRanks), Len(cards) >= 2
  PROVE  LET rest == SubSeq(cards, 3, Len(cards))
         IN  /\ rest \in Seq(CardRanks) /\ Len(rest) = Len(cards) - 2
             /\ \A i \in 1..(Len(cards) - 2) : rest[i] = cards[i + 2]
<1> DEFINE n == Len(cards)
           rest == SubSeq(cards, 3, n)
<1>1. n \in Nat /\ n >= 2 BY LenProperties
<1>2. \A i \in 3..n : cards[i] \in CardRanks
  <2>1. \A i \in 3..n : i \in 1..n BY <1>1
  <2>2. QED BY <2>1, ElementOfSeq
<1> HIDE DEF n
<1>3. /\ rest \in Seq(CardRanks) /\ Len(rest) = (IF 3 <= n THEN n - 3 + 1 ELSE 0)
      /\ \A i \in 1..(n - 3 + 1) : rest[i] = cards[3 + i - 1]
  <2>1. 3 \in Int /\ n \in Int BY <1>1
  <2>2. QED BY <1>2, <2>1, SubSeqProperties
<1> HIDE DEF rest
<1>4. Len(rest) = n - 2 BY <1>1, <1>3
<1>5. \A i \in 1..(n - 2) : rest[i] = cards[i + 2]
  <2>1. n - 3 + 1 = n - 2 BY <1>1
  <2>2. \A i \in 1..(n - 2) : 3 + i - 1 = i + 2 BY <1>1
  <2>3. QED BY <1>3, <2>1, <2>2
<1>6. QED BY <1>3, <1>4, <1>5 DEF rest, n

LEMMA TableFollowsShoe ==
  ASSUME FromShoe(hand)
  PROVE  TableIsPrefixOfShoe
<1> DEFINE player == hand.player
           dealer == hand.dealer
           shoe == hand.shoe
           P == Len(player)
           D == Len(dealer)
           first == <<player[1], dealer[1], player[2], dealer[2]>>
           mine == SubSeq(player, 3, P)
           his == SubSeq(dealer, 3, D)
           table == first \o mine \o his
           dealt == SubSeq(shoe, 1, hand.dealt)
<1>1. /\ player \in Seq(CardRanks) /\ dealer \in Seq(CardRanks) /\ shoe \in Shoes
      /\ P \in Nat /\ D \in Nat /\ ShoeLength \in Nat /\ P >= 2 /\ D >= 2
      /\ hand.dealt = P + D /\ P + D <= ShoeLength
  BY ShoeDealsAHand DEF FromShoe, HandRecord
<1>2. /\ player[1] = shoe[1] /\ player[2] = shoe[3] /\ dealer[1] = shoe[2] /\ dealer[2] = shoe[4]
      /\ \A i \in 3..P : player[i] = shoe[i + 2]
      /\ \A i \in 3..D : dealer[i] = shoe[P + i]
  BY DEF FromShoe
<1>3. \A i \in 1..ShoeLength : shoe[i] \in CardRanks BY <1>1, ShoesDeal
<1>4. /\ first \in Seq(CardRanks) /\ Len(first) = 4
      /\ first[1] = shoe[1] /\ first[2] = shoe[2] /\ first[3] = shoe[3] /\ first[4] = shoe[4]
  <2>1. 1 \in 1..ShoeLength /\ 2 \in 1..ShoeLength /\ 3 \in 1..ShoeLength /\ 4 \in 1..ShoeLength
    BY ShoeDealsAHand
  <2>2. shoe[1] \in CardRanks /\ shoe[2] \in CardRanks /\ shoe[3] \in CardRanks /\ shoe[4] \in CardRanks
    BY <1>3, <2>1
  <2>3. QED BY <1>2, <2>2
<1>5. /\ mine \in Seq(CardRanks) /\ Len(mine) = P - 2
      /\ \A i \in 1..(P - 2) : mine[i] = player[i + 2]
  BY <1>1, FromTheThird
<1>6. /\ his \in Seq(CardRanks) /\ Len(his) = D - 2
      /\ \A i \in 1..(D - 2) : his[i] = dealer[i + 2]
  BY <1>1, FromTheThird
<1>7. /\ dealt \in Seq(CardRanks) /\ Len(dealt) = P + D /\ \A i \in 1..(P + D) : dealt[i] = shoe[i]
  <2> DEFINE n == hand.dealt
  <2> HIDE DEF n, shoe, P, D
  <2>1. n \in Nat /\ n >= 1 /\ n <= ShoeLength /\ n = P + D BY <1>1 DEF n
  <2>7. \A i \in 1..n : i \in 1..ShoeLength BY <1>1, <2>1
  <2>2. \A i \in 1..n : shoe[i] \in CardRanks BY <1>3, <2>7
  <2>3. /\ SubSeq(shoe, 1, n) \in Seq(CardRanks)
        /\ Len(SubSeq(shoe, 1, n)) = (IF 1 <= n THEN n - 1 + 1 ELSE 0)
        /\ \A i \in 1..(n - 1 + 1) : SubSeq(shoe, 1, n)[i] = shoe[1 + i - 1]
    <3>1. 1 \in Int /\ n \in Int BY <2>1
    <3>2. QED BY <2>2, <3>1, SubSeqProperties
  <2>4. n - 1 + 1 = n /\ \A i \in 1..n : 1 + i - 1 = i BY <2>1
  <2>5. Len(SubSeq(shoe, 1, n)) = n /\ \A i \in 1..n : SubSeq(shoe, 1, n)[i] = shoe[i]
    BY <2>1, <2>3, <2>4
  <2>6. QED BY <2>1, <2>3, <2>5 DEF n, shoe
<1> HIDE DEF player, dealer, shoe, P, D, first, mine, his, dealt
<1>8. /\ first \o mine \in Seq(CardRanks) /\ Len(first \o mine) = P + 2
      /\ \A i \in 1..(P + 2) : (first \o mine)[i] = shoe[i]
  <2> DEFINE both == first \o mine
             F == Len(first)
             M == Len(mine)
  <2>1. /\ both \in Seq(CardRanks) /\ Len(both) = F + M
        /\ \A i \in 1..(F + M) : both[i] = IF i <= F THEN first[i] ELSE mine[i - F]
    BY <1>4, <1>5, ConcatProperties
  <2>2. F = 4 /\ M = P - 2 BY <1>4, <1>5
  <2> HIDE DEF both, F, M
  <2>3. F + M = P + 2 BY <1>1, <2>2
  <2>4. ASSUME NEW i \in 1..(P + 2) PROVE both[i] = shoe[i]
    <3>1. CASE i <= 4
      <4>1. i = 1 \/ i = 2 \/ i = 3 \/ i = 4 BY <3>1, <1>1
      <4>2. both[i] = first[i] BY <2>1, <2>2, <2>3, <3>1
      <4>3. QED BY <1>4, <4>1, <4>2
    <3>2. CASE ~(i <= 4)
      <4>1. both[i] = mine[i - 4] BY <2>1, <2>2, <2>3, <3>2
      <4>2. i - 4 \in 1..(P - 2) /\ (i - 4) + 2 \in 3..P /\ ((i - 4) + 2) + 2 = i BY <1>1, <3>2
      <4>3. mine[i - 4] = player[(i - 4) + 2] BY <1>5, <4>2
      <4>4. player[(i - 4) + 2] = shoe[((i - 4) + 2) + 2] BY <1>2, <4>2
      <4>5. QED BY <4>1, <4>2, <4>3, <4>4
    <3>3. QED BY <3>1, <3>2
  <2>5. QED BY <2>1, <2>3, <2>4 DEF both
<1>9. /\ table \in Seq(CardRanks) /\ Len(table) = P + D
      /\ \A i \in 1..(P + D) : table[i] = shoe[i]
  <2> DEFINE both == first \o mine
             B == Len(both)
             H == Len(his)
  <2>1. /\ table \in Seq(CardRanks) /\ Len(table) = B + H
        /\ \A i \in 1..(B + H) : table[i] = IF i <= B THEN both[i] ELSE his[i - B]
    <3>1. both \in Seq(CardRanks) /\ his \in Seq(CardRanks) BY <1>6, <1>8
    <3>2. table = both \o his BY DEF table
    <3> HIDE DEF both, table
    <3>3. QED BY <3>1, <3>2, ConcatProperties
  <2>2. B = P + 2 /\ H = D - 2 /\ \A i \in 1..(P + 2) : both[i] = shoe[i] BY <1>6, <1>8
  <2> HIDE DEF both, B, H, table
  <2>3. B + H = P + D BY <1>1, <2>2
  <2>4. ASSUME NEW i \in 1..(P + D) PROVE table[i] = shoe[i]
    <3>1. CASE i <= B
      <4>1. i \in 1..(P + 2) BY <1>1, <2>2, <3>1
      <4>2. table[i] = both[i] BY <2>1, <2>3, <3>1
      <4>3. QED BY <2>2, <4>1, <4>2
    <3>2. CASE ~(i <= B)
      <4> DEFINE j == i - (P + 2)
      <4>1. table[i] = his[j] BY <2>1, <2>2, <2>3, <3>2
      <4>2. j \in 1..(D - 2) /\ j + 2 \in 3..D /\ P + (j + 2) = i BY <1>1, <2>2, <3>2
      <4> HIDE DEF j
      <4>3. his[j] = dealer[j + 2] BY <1>6, <4>2
      <4>4. dealer[j + 2] = shoe[P + (j + 2)] BY <1>2, <4>2
      <4>5. QED BY <4>1, <4>2, <4>3, <4>4
    <3>3. QED BY <3>1, <3>2
  <2>5. QED BY <2>1, <2>3, <2>4
<1> HIDE DEF table
<1>10. table = dealt
  BY <1>7, <1>9, SeqEqual
<1>11. QED BY <1>10 DEF TableIsPrefixOfShoe, table, dealt, first, mine, his, player, dealer, shoe, P, D

-----------------------------------------------------------------------------
(* The theorems. *)

\* Whatever the shoe and the moves, the cards on the table are the shoe's, from its
\* first on, each once and in order: engine.ts keeps cardIndex and the drawn cards by
\* hand over deal, hit, double and the dealer's draws (engine.ts:102-274).
THEOREM CardsFollowTheShoe == BlackjackSpec => []TableIsPrefixOfShoe
<1>1. HandSound(hand) => TableIsPrefixOfShoe BY TableFollowsShoe DEF HandSound
<1>2. QED BY <1>1, HandsStaySound, PTL

\* A hand still open to the player is one that nothing has decided: the peek and the
\* natural end it at the deal, a bust at the hit (engine.ts:146-164, 190-215).
THEOREM OpenHandsAreUndecided == BlackjackSpec => []OpenHandIsUndecided
<1>1. HandSound(hand) => OpenHandIsUndecided BY DEF HandSound, Undecided, OpenHandIsUndecided
<1>2. QED BY <1>1, HandsStaySound, PTL

\* Counting aces down one by one while over 21 finds the best reading of any hand of
\* any length, with any number of aces (cards.ts:52-71).
THEOREM TotalsAreTheBest == BlackjackSpec => []TotalsAreBest
<1>1. HandSound(hand) => TotalsAreBest
  <2> SUFFICES ASSUME HandSound(hand) PROVE TotalsAreBest
    OBVIOUS
  <2>1. hand.player \in Seq(CardRanks) /\ hand.dealer \in Seq(CardRanks)
    BY DEF HandSound, FromShoe, HandRecord
  <2>2. HandTotal(hand.player) = BestReading(hand.player) BY <2>1, TotalIsBest
  <2>3. HandTotal(hand.dealer) = BestReading(hand.dealer) BY <2>1, TotalIsBest
  <2>4. QED BY <2>2, <2>3 DEF TotalsAreBest
<1>2. QED BY <1>1, HandsStaySound, PTL

\* The dealer draws exactly until he stands on 17, and not at all against a hand that
\* is decided without him (engine.ts:249-262).
THEOREM DealersPlayByRule == BlackjackSpec => []DealerPlaysByRule
<1>1. HandSound(hand) => DealerPlaysByRule
  BY DEF HandSound, Concluded, PlaysByRule, DealerPlaysByRule
<1>2. QED BY <1>1, HandsStaySound, PTL

\* A settled hand pays what comparing the two hands says, for every bet: naturals 3:2
\* rounded down, wins even, pushes back, and the house takes the rest
\* (settlement.ts:62-81).
THEOREM HandsPayByStrength == BlackjackSpec => []PaidByStrength
<1>1. HandSound(hand) => PaidByStrength
  BY DEF HandSound, Concluded, PaysByStrength, PaidByStrength
<1>2. QED BY <1>1, HandsStaySound, PTL
=============================================================================
