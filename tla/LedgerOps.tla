------------------------------ MODULE LedgerOps ------------------------------
(***************************************************************************)
(* The balance arithmetic of packages/ledger/src/ledger.ts, one user at a  *)
(* time.  An account is the LedgerUserState record of the code; every      *)
(* exported operation is an enabling condition (the check that throws) and *)
(* a result (the assignments that follow it).  The state machines that     *)
(* move accounts (Ledger, Custody, DemoTable) all use these operators.     *)
(***************************************************************************)
EXTENDS Integers

CONSTANTS
  MaxAtomicAmount,  \* MAX_ATOMIC_AMOUNT of packages/config (10^21 in the code)
  MaxCreditMult     \* MAX_SETTLEMENT_CREDIT_MULT (1000 in the code)

ASSUME LedgerLimits == MaxAtomicAmount \in Nat /\ MaxCreditMult \in Nat

Account ==
  [available: Nat, lockedHand: Nat, lockedWithdraw: Nat, withdrawFrozen: BOOLEAN]

\* What getOrCreate puts in the map for a user it has not met.
NewAccount ==
  [available |-> 0, lockedHand |-> 0, lockedWithdraw |-> 0, withdrawFrozen |-> FALSE]

\* available + lockedTotal: what the platform owes the user.
LiabilityOf(b) == b.available + b.lockedHand + b.lockedWithdraw

\* assertSafeAtomicAmount
SafeAmount(a) == a \in Int /\ 0 < a /\ a <= MaxAtomicAmount

(***************************************************************************)
(* A settlement splits the locked stake between player and house.          *)
(***************************************************************************)
\* Fault: a settlement whose two halves need not add up to the stake.
ValidSettlementUnbalanced(s) ==
  /\ SafeAmount(s.bet)
  /\ 0 <= s.credit
  /\ s.credit <= s.bet * MaxCreditMult

\* assertValidSettlement
ValidSettlement(s) ==
  /\ SafeAmount(s.bet)
  /\ 0 <= s.credit
  /\ s.credit <= s.bet * MaxCreditMult
  /\ s.credit + s.houseDelta = s.bet

-----------------------------------------------------------------------------
Deposited(b, a) == [b EXCEPT !.available = @ + a]

\* Fault: a reversal that freezes but leaves the balance spendable.
ReversedUnclamped(b, a) ==
  IF b.available >= a
  THEN [b EXCEPT !.available = @ - a]
  ELSE [b EXCEPT !.withdrawFrozen = TRUE]

\* Fault: a clamped reversal that forgets to freeze withdrawals.
ReversedWithoutFreeze(b, a) ==
  IF b.available >= a
  THEN [b EXCEPT !.available = @ - a]
  ELSE [b EXCEPT !.available = 0]

\* A reversal that the available balance cannot cover is clamped and freezes.
Reversed(b, a) ==
  IF b.available >= a
  THEN [b EXCEPT !.available = @ - a]
  ELSE [b EXCEPT !.available = 0, !.withdrawFrozen = TRUE]

CanLockBet(b, a) == b.available >= a

BetLocked(b, a) == [b EXCEPT !.available = @ - a, !.lockedHand = @ + a]

\* Fault: a settlement that trusts the game's bet.
CanSettleUnchecked(b, s) == TRUE

CanSettle(b, s) == b.lockedHand >= s.bet

HandSettled(b, s) ==
  [b EXCEPT !.lockedHand = @ - s.bet, !.available = @ + s.credit]

\* Fault: the balance was checked by the caller's policy, so not again here.
CanRequestWithdrawTrustsPolicy(b, a) == ~b.withdrawFrozen

\* Fault: the freeze was checked by the caller's policy, so not again here.
CanRequestWithdrawIgnoresFreeze(b, a) == b.available >= a

CanRequestWithdraw(b, a) == ~b.withdrawFrozen /\ b.available >= a

WithdrawLocked(b, a) ==
  [b EXCEPT !.available = @ - a, !.lockedWithdraw = @ + a]

\* Fault: off by one, the last withdrawal of a lock is refused.
CanReleaseWithdrawStrict(b, a) == b.lockedWithdraw > a

\* cancelWithdraw and completeWithdraw check the withdraw lock and no other.
CanReleaseWithdraw(b, a) == b.lockedWithdraw >= a

WithdrawCancelled(b, a) ==
  [b EXCEPT !.lockedWithdraw = @ - a, !.available = @ + a]

\* Fault: one fungible lock, of which the hand's part is used first.
WithdrawCompletedAnyLock(b, a) ==
  LET fromHand == IF b.lockedHand < a THEN b.lockedHand ELSE a
  IN  [b EXCEPT !.lockedHand = @ - fromHand, !.lockedWithdraw = @ - (a - fromHand)]

WithdrawCompleted(b, a) == [b EXCEPT !.lockedWithdraw = @ - a]
=============================================================================
