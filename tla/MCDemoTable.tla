---------------------------- MODULE MCDemoTable ----------------------------
(***************************************************************************)
(* A seed of a few bets, so that bets and doubles are sometimes refused.   *)
(* The shoes deal a player's natural, two naturals, a dealer's natural, a  *)
(* bust, a push and a hand worth doubling.                                 *)
(***************************************************************************)
EXTENDS DemoTable

MCShoes ==
  { <<1, 5, 10, 6, 10, 5>>,    \* natural
    <<1, 10, 10, 1, 5, 5>>,    \* both natural
    <<10, 10, 9, 1, 5, 5>>,    \* dealer natural
    <<10, 10, 5, 8, 9, 5>>,    \* hit and be bust, or stand and lose
    <<10, 10, 10, 10, 5, 5>>,  \* push
    <<6, 6, 5, 10, 10, 10>> }  \* double: 21 against a dealer who is bust

MCBetInputs == {1, 2, 4}

\* Rolls that draw the wanted cards from the deck without "exclude".
RollsFor(cards, exclude) ==
  [i \in DOMAIN cards |->
    LET gone == exclude \cup {cards[j] : j \in 1..(i - 1)}
        pool == SelectSeq(FullDeck, LAMBDA card : card \notin gone)
    IN (CHOOSE k \in DOMAIN pool : pool[k] = cards[i]) - 1]

Cards(ranks, suits) == [i \in DOMAIN ranks |-> [rank |-> ranks[i], suit |-> suits[i]]]

VideoSeed(deal, redraw) ==
  [deal |-> RollsFor(deal, {}), redraw |-> RollsFor(redraw, {deal[i] : i \in DOMAIN deal})]

\* From a pair of tens with an ace to a full house, from a royal flush to nothing, from
\* ace to five to a flush, from jacks up to four jacks.
MCVideoSeeds ==
  { VideoSeed(Cards(<<10, 10, 14, 5, 7>>, <<1, 2, 3, 4, 1>>), Cards(<<10, 7, 7, 2, 3>>, <<3, 2, 3, 2, 2>>)),
    VideoSeed(Cards(<<14, 13, 12, 11, 10>>, <<1, 1, 1, 1, 1>>), Cards(<<9, 2, 4, 6, 8>>, <<1, 2, 3, 4, 2>>)),
    VideoSeed(Cards(<<14, 2, 3, 4, 5>>, <<1, 1, 1, 1, 2>>), Cards(<<9, 6, 6, 9, 9>>, <<1, 1, 2, 2, 3>>)),
    VideoSeed(Cards(<<11, 11, 4, 4, 2>>, <<1, 2, 3, 4, 1>>), Cards(<<11, 11, 3, 3, 3>>, <<3, 4, 1, 2, 3>>)) }

MCHelds == {{}, {1, 2}, {1, 2, 3, 4}, 1..5}

Play(game, pick, rolls) == [game |-> game, pick |-> pick, rolls |-> rolls]
Dice(mode, target, roll) == Play("catedice", [mode |-> mode, target |-> target], <<roll - 1>>)

MCPlays ==
  { Play("cateflip", "heads", <<0>>), Play("cateflip", "edge", <<0>>),
    Dice("over", 50, 51), Dice("over", 50, 50), Dice("under", 2, 1), Dice("over", 99, 100),
    Dice("over", NotANumber, 100),
    Play("catespin", "red", <<1>>), Play("catespin", "green", <<0>>), Play("catespin", "black", <<0>>),
    Play("highcate", "low", <<2, 3>>), Play("highcate", "seven", <<2, 3>>),
    Play("cateslots", "none", <<12, 12, 0>>), Play("cateslots", "none", <<12, 12, 12>>),
    Play("cateslots", "none", <<0, 0, 0>>),
    Play("catepoker", "none", RollsFor(Cards(<<9, 9, 9, 5, 7>>, <<1, 2, 3, 4, 1>>), {})) }
=============================================================================
