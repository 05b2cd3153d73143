------------------------------ MODULE MCLedger ------------------------------
(***************************************************************************)
(* A small ledger and its house for TLC: unsafe amounts (0 and one above   *)
(* the maximum) and invalid settlements are among the inputs, so that the  *)
(* checks that throw are exercised, and daily buys at half of the free     *)
(* balance happen between any two ledger operations.                       *)
(***************************************************************************)
EXTENDS Treasury, TLC

MCAmounts == 0..3
MCHotBalances == {1, 5}

MCSettlements ==
  { [bet |-> b, credit |-> c, houseDelta |-> d] :
      b \in 0..2, c \in {-1, 0, 1, 3, 4}, d \in {-2, -1, 0, 1, 2} }

Symmetry == Permutations(Users) \cup Permutations(Keys)
=============================================================================
