----------------------------- MODULE OneOfOne -----------------------------
(***************************************************************************)
(* What the register of 1/1 mints promises (nft-claims.ts, "1/1" in        *)
(* gacha-mints.ts): a mint that is listed as taken is not given again, and *)
(* so it is given once, unless the register itself was lost.               *)
(***************************************************************************)
CONSTANTS Ultras, None

VARIABLES
  owner,   \* who won each mint, first or, after a loss, last
  taken,   \* the mints the public list shows as won
  lost     \* whether the list was ever lost

registerVars == <<owner, taken, lost>>

Init == owner = [u \in Ultras |-> None] /\ taken = {} /\ lost = FALSE

Won == {u \in Ultras : owner[u] # None}

\* A free mint is given to somebody; winners seen again are listed again.
Give(u) ==
  /\ u \notin taken
  /\ lost \/ owner[u] = None
  /\ owner'[u] # None /\ owner' = [owner EXCEPT ![u] = owner'[u]]
  /\ {u} \cup taken \subseteq taken' /\ taken' \subseteq {u} \cup Won
  /\ UNCHANGED lost

Relist == taken \subseteq taken' /\ taken' \subseteq Won /\ UNCHANGED <<owner, lost>>

LoseList == taken' = {} /\ lost' = TRUE /\ UNCHANGED owner

Next == Relist \/ LoseList \/ \E u \in Ultras : Give(u)

Spec == Init /\ [][Next]_registerVars
=============================================================================
