----------------------------- MODULE MCBlackjack -----------------------------
(***************************************************************************)
(* Ranks that reach every outcome: naturals, soft and hard totals, busts   *)
(* of either side, pushes.  The odd bet makes the 3:2 payout round.        *)
(***************************************************************************)
EXTENDS Blackjack

MCRanks == {1, 5, 6, 10}
MCBets == {3}
=============================================================================
