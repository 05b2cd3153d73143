----------------------------- MODULE HouseGames -----------------------------
(***************************************************************************)
(* The house games of packages/house-games as pure operators: CateFlip,    *)
(* CateDice, CateSpin, HighCate, CateSlots, CatePoker, and the two steps   *)
(* of VideoCate.                                                           *)
(*                                                                         *)
(* Every draw is a hash of the round's seeds taken modulo the number of    *)
(* outcomes (rollInt).  The hashes are inputs here: the sequence "rolls".  *)
(***************************************************************************)
EXTENDS Integers, Sequences, FiniteSets, SequencesExt

CONSTANT NotANumber  \* what Number() makes of a target that is none

\* A settlement by the total credit: 0 loses the stake.
Credited(bet, credit) == [bet |-> bet, credit |-> credit, houseDelta |-> bet - credit]

Roll(rolls, k, outcomes) == rolls[k] % outcomes

-----------------------------------------------------------------------------
(* Cards and poker hands (cards-lite.ts). *)

DeckRanks == <<14, 2, 3, 4, 5, 6, 7, 8, 9, 10, 11, 12, 13>>

FullDeck ==
  [k \in 1..52 |-> [rank |-> DeckRanks[1 + ((k - 1) \div 4)], suit |-> 1 + ((k - 1) % 4)]]

\* drawCards: without replacement, from the deck without "exclude".
DrawCards(rolls, count, exclude) ==
  LET pool == SelectSeq(FullDeck, LAMBDA card : card \notin exclude)
      after[i \in 0..count] ==
        IF i = 0 THEN [pool |-> pool, out |-> <<>>]
        ELSE LET before == after[i - 1]
                 k == 1 + Roll(rolls, i, Len(before.pool))
             IN [pool |-> RemoveAt(before.pool, k), out |-> Append(before.out, before.pool[k])]
  IN after[count].out

Ranks(cards) == {cards[i].rank : i \in DOMAIN cards}
OfRank(cards, rank) == Cardinality({i \in DOMAIN cards : cards[i].rank = rank})

\* The rank that comes first when ranks are sorted by how many there are, then by value.
Leads(cards, ranks) ==
  CHOOSE r \in ranks : \A s \in ranks :
    OfRank(cards, r) > OfRank(cards, s) \/ (OfRank(cards, r) = OfRank(cards, s) /\ r >= s)

\* Fault: the highest card decides whether a pair is jacks or better.
JacksOrBetterTopCard(cards, first) == \E rank \in Ranks(cards) : rank >= 11

JacksOrBetter(cards, first) == first >= 11

EvaluateFive(cards) ==
  LET flush == \A i \in 1..5 : cards[i].suit = cards[1].suit
      straight == /\ Cardinality(Ranks(cards)) = 5
                  /\ \/ \E low \in Ranks(cards) : Ranks(cards) = low..(low + 4)
                     \/ Ranks(cards) = {2, 3, 4, 5, 14}
      first == Leads(cards, Ranks(cards))
      others == Ranks(cards) \ {first}
      c0 == OfRank(cards, first)
      c1 == IF others = {} THEN 0 ELSE OfRank(cards, Leads(cards, others))
  IN CASE flush /\ Ranks(cards) = 10..14 -> "royal_flush"
       [] flush /\ straight /\ Ranks(cards) # 10..14 -> "straight_flush"
       [] c0 = 4 -> "four_kind"
       [] c0 = 3 /\ c1 = 2 -> "full_house"
       [] flush /\ ~straight -> "flush"
       [] straight /\ ~flush -> "straight"
       [] c0 = 3 /\ c1 # 2 -> "three_kind"
       [] c0 = 2 /\ c1 = 2 -> "two_pair"
       [] c0 = 2 /\ c1 # 2 /\ JacksOrBetter(cards, first) -> "jacks_or_better"
       [] OTHER -> "high_card"

JobCreditMult ==
  [royal_flush |-> 250, straight_flush |-> 50, four_kind |-> 25, full_house |-> 9, flush |-> 6,
   straight |-> 4, three_kind |-> 3, two_pair |-> 2, jacks_or_better |-> 2, high_card |-> 0]

StudCreditMult ==
  [JobCreditMult EXCEPT !.royal_flush = 100, !.four_kind = 20, !.full_house = 8, !.flush = 5]

-----------------------------------------------------------------------------
(* VideoCate (videocate.ts). *)

DealVideoCate(bet, seed, nonce) ==
  [phase |-> "hold", bet |-> bet, nonce |-> nonce, seed |-> seed,
   cards |-> DrawCards(seed.deal, 5, {}), held |-> {}]

\* Held cards stay in their places, the others are replaced in order; what was dealt
\* does not come back.  Paid by the final five.
DrawVideoCate(video, held) ==
  LET drawn == DrawCards(video.seed.redraw, 5 - Cardinality(held), ToSet(video.cards))
      final == [i \in 1..5 |-> IF i \in held THEN video.cards[i]
                               ELSE drawn[Cardinality(1..i \ held)]]
      mult == JobCreditMult[EvaluateFive(final)]
  IN [phase |-> "settled", bet |-> video.bet, nonce |-> video.nonce, seed |-> video.seed,
      cards |-> final, held |-> held, mult |-> mult,
      settlement |-> Credited(video.bet, video.bet * mult)]

-----------------------------------------------------------------------------
(* The instant games: whether a game takes a pick, and what it credits.     *)

InstantGames == {"cateflip", "catedice", "catespin", "highcate", "cateslots", "catepoker"}

FlipCredit(bet, pick, rolls) ==
  LET result == IF Roll(rolls, 1, 2) = 0 THEN "heads" ELSE "tails"
  IN IF result = pick THEN 2 * bet ELSE 0

\* A target that is no number passes every comparison that would refuse it, and loses.
DiceTaken(pick) ==
  /\ pick.mode \in {"over", "under"}
  /\ pick.target = NotANumber \/ pick.target \in 2..98

DiceCredit(bet, pick, rolls) ==
  LET roll == 1 + Roll(rolls, 1, 100)
      chance == IF pick.mode = "over" THEN 100 - pick.target ELSE pick.target - 1
      won == IF pick.mode = "over" THEN roll > pick.target ELSE roll < pick.target
  IN IF pick.target # NotANumber /\ won THEN (bet * (9900 \div chance)) \div 100 ELSE 0

EuropeanRed == {1, 3, 5, 7, 9, 12, 14, 16, 18, 19, 21, 23, 25, 27, 30, 32, 34, 36}

SpinCredit(bet, pick, rolls) ==
  LET number == Roll(rolls, 1, 37)
      color == IF number = 0 THEN "green" ELSE IF number \in EuropeanRed THEN "red" ELSE "black"
  IN IF color # pick THEN 0 ELSE IF pick = "green" THEN 36 * bet ELSE 2 * bet

HighCateCredit(bet, pick, rolls) ==
  LET total == 2 + Roll(rolls, 1, 6) + Roll(rolls, 2, 6)
  IN CASE pick = "low" /\ total \in 2..6 -> 2 * bet
       [] pick = "high" /\ total \in 8..12 -> 2 * bet
       [] pick = "seven" /\ total = 7 -> 5 * bet
       [] OTHER -> 0

ReelStrip == <<"RUG", "RUG", "RUG", "PAW", "PAW", "PAW", "MOON", "MOON", "GOLD", "GOLD",
               "CAT", "CAT", "CATE">>

TripleMult == [CATE |-> 25, CAT |-> 12, GOLD |-> 8, MOON |-> 5, PAW |-> 3, RUG |-> 0]

SlotsCredit(bet, rolls) ==
  LET reels == [k \in 1..3 |-> ReelStrip[1 + Roll(rolls, k, 13)]]
  IN CASE reels[1] = reels[2] /\ reels[2] = reels[3] -> bet * TripleMult[reels[1]]
       [] reels[1] = reels[2] /\ reels[2] # reels[3] /\ reels[1] \in {"CATE", "CAT", "GOLD"}
            -> (bet * 3) \div 2
       [] OTHER -> 0

PokerCredit(bet, rolls) == bet * StudCreditMult[EvaluateFive(DrawCards(rolls, 5, {}))]

\* The picks the route lets through to a game, and the game takes.
PickTaken(game, pick) ==
  CASE game = "cateflip" -> pick \in {"heads", "tails"}
    [] game = "catedice" -> DiceTaken(pick)
    [] game = "catespin" -> pick \in {"red", "black", "green"}
    [] game = "highcate" -> pick \in {"high", "low", "seven"}
    [] OTHER -> TRUE

InstantSettlement(bet, game, pick, rolls) ==
  Credited(bet, CASE game = "cateflip" -> FlipCredit(bet, pick, rolls)
                  [] game = "catedice" -> DiceCredit(bet, pick, rolls)
                  [] game = "catespin" -> SpinCredit(bet, pick, rolls)
                  [] game = "highcate" -> HighCateCredit(bet, pick, rolls)
                  [] game = "cateslots" -> SlotsCredit(bet, rolls)
                  [] game = "catepoker" -> PokerCredit(bet, rolls))

-----------------------------------------------------------------------------
(* What the paytable says a hand holds, each line on its own.              *)

Alike(cards, S) == \A i, j \in S : cards[i].rank = cards[j].rank
Groups(n) == {S \in SUBSET (1..5) : Cardinality(S) = n}

IsFlush(cards) == \A i, j \in 1..5 : cards[i].suit = cards[j].suit
IsStraight(cards) ==
  \E low \in 1..10 : Ranks(cards) = {IF rank = 1 THEN 14 ELSE rank : rank \in low..(low + 4)}

Holds(cards, line) ==
  CASE line = "royal_flush" -> IsFlush(cards) /\ Ranks(cards) = 10..14
    [] line = "straight_flush" -> IsFlush(cards) /\ IsStraight(cards)
    [] line = "four_kind" -> \E S \in Groups(4) : Alike(cards, S)
    [] line = "full_house" -> \E S \in Groups(3) : Alike(cards, S) /\ Alike(cards, (1..5) \ S)
    [] line = "flush" -> IsFlush(cards)
    [] line = "straight" -> IsStraight(cards)
    [] line = "three_kind" -> \E S \in Groups(3) : Alike(cards, S)
    [] line = "two_pair" -> \E S, T \in Groups(2) :
         S \cap T = {} /\ Alike(cards, S) /\ Alike(cards, T) /\ ~Alike(cards, S \cup T)
    [] line = "jacks_or_better" -> \E S \in Groups(2) :
         Alike(cards, S) /\ \A i \in S : cards[i].rank >= 11
    [] line = "high_card" -> TRUE

\* The best line of the table a hand is good for.
BestLinePays(cards, mult) ==
  /\ \E line \in DOMAIN JobCreditMult : Holds(cards, line) /\ JobCreditMult[line] = mult
  /\ \A line \in DOMAIN JobCreditMult : Holds(cards, line) => JobCreditMult[line] <= mult
=============================================================================
