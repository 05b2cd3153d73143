------------------------------ MODULE HouseBook ------------------------------
(***************************************************************************)
(* What the ledger promises, without saying how balances are split:  a     *)
(* player's claim on the house changes only when money enters or leaves    *)
(* custody or when a stake is settled against the house, and each          *)
(* idempotency key has at most one effect.  Locking a bet or requesting a  *)
(* withdrawal only reorders a claim ("Liability unchanged" in ledger.ts).  *)
(***************************************************************************)
EXTENDS Integers

CONSTANTS Users, Keys, MaxCreditMult

VARIABLES
  claim,   \* what each user is owed
  house,   \* what the house has won, net, from play
  done     \* keys whose operation has taken effect

bookVars == <<claim, house, done>>

Init ==
  /\ claim = [u \in Users |-> 0]
  /\ house = 0
  /\ done = {}

Use(k) == k \notin done /\ done' = done \cup {k}

\* Only u's claim moves, and it stays a claim.
Moves(u) ==
  /\ claim'[u] \in Nat
  /\ claim' = [claim EXCEPT ![u] = claim'[u]]

\* Money enters custody for u.
Enter(u) == Moves(u) /\ claim'[u] > claim[u] /\ UNCHANGED house

\* Money leaves custody for u, or an entry is undone: never more than is owed.
Leave(u) == Moves(u) /\ claim'[u] <= claim[u] /\ UNCHANGED house

\* A stake the user owns is played: the house takes it and pays a credit.
Play(u) ==
  /\ Moves(u)
  /\ house' - house = claim[u] - claim'[u]
  /\ \E bet \in 1..claim[u] :
       LET credit == claim'[u] - claim[u] + bet
       IN  0 <= credit /\ credit <= bet * MaxCreditMult

\* A claim changes form: nothing a player or the house is owed moves.
Rearrange == UNCHANGED <<claim, house>>

Next ==
  \E u \in Users, k \in Keys :
    /\ Use(k)
    /\ Enter(u) \/ Leave(u) \/ Play(u) \/ Rearrange

Spec == Init /\ [][Next]_bookVars
=============================================================================
