------------------------------ MODULE MCCustody ------------------------------
(***************************************************************************)
(* Instances of Custody for TLC.                                           *)
(***************************************************************************)
EXTENDS Custody, TLC

CONSTANTS w1, w2, w3, s1, p1, p2, p3

\* One transaction that pays the platform from two wallets, 3 from w1 and 2 from
\* w2, dust from w3, and pays somebody else besides.
MCLegs == {l \in
  { [leg |-> 1, sig |-> s1, source |-> w1, amount |-> 1, toPlatform |-> TRUE],
    [leg |-> 2, sig |-> s1, source |-> w1, amount |-> 2, toPlatform |-> TRUE],
    [leg |-> 3, sig |-> s1, source |-> w1, amount |-> 2, toPlatform |-> FALSE],
    [leg |-> 4, sig |-> s1, source |-> w2, amount |-> 2, toPlatform |-> TRUE],
    [leg |-> 5, sig |-> s1, source |-> w3, amount |-> 1, toPlatform |-> TRUE] }
  : l.source \in Wallets}

NoLegs == {}

Symmetric == Permutations({p1, p2})
=============================================================================
