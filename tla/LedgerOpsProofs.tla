-------------------------- MODULE LedgerOpsProofs --------------------------
(***************************************************************************)
(* Lemmas about the balance arithmetic of LedgerOps, for every limit.      *)
(* Whatever is built on accounts cites them.                               *)
(***************************************************************************)
EXTENDS LedgerOps, TLAPS

(***************************************************************************)
(* The operations take accounts to accounts: no balance goes negative when *)
(* the check the code makes has passed.                                    *)
(***************************************************************************)
LEMMA AccountsStayAccounts ==
  ASSUME NEW b \in Account, NEW a \in Nat
  PROVE  /\ Deposited(b, a) \in Account
         /\ Reversed(b, a) \in Account
         /\ CanLockBet(b, a) => BetLocked(b, a) \in Account
         /\ CanRequestWithdraw(b, a) => WithdrawLocked(b, a) \in Account
         /\ CanReleaseWithdraw(b, a) =>
              WithdrawCancelled(b, a) \in Account /\ WithdrawCompleted(b, a) \in Account
<1>1. Deposited(b, a) \in Account
  BY DEF Account, Deposited
<1>2. Reversed(b, a) \in Account
  <2>1. CASE b.available >= a
    BY <2>1 DEF Account, Reversed
  <2>2. CASE ~(b.available >= a)
    BY <2>2 DEF Account, Reversed
  <2> QED  BY <2>1, <2>2
<1>3. CanLockBet(b, a) => BetLocked(b, a) \in Account
  <2>1. b.available >= a => b.available - a \in Nat
    BY DEF Account
  <2>2. b.lockedHand + a \in Nat
    BY DEF Account
  <2> QED  BY <2>1, <2>2 DEF Account, CanLockBet, BetLocked
<1>4. CanRequestWithdraw(b, a) => WithdrawLocked(b, a) \in Account
  <2>1. b.available >= a => b.available - a \in Nat
    BY DEF Account
  <2>2. b.lockedWithdraw + a \in Nat
    BY DEF Account
  <2> QED  BY <2>1, <2>2 DEF Account, CanRequestWithdraw, WithdrawLocked
<1>5. CanReleaseWithdraw(b, a) => WithdrawCancelled(b, a) \in Account
  <2>1. b.lockedWithdraw >= a => b.lockedWithdraw - a \in Nat
    BY DEF Account
  <2>2. b.available + a \in Nat
    BY DEF Account
  <2> QED  BY <2>1, <2>2 DEF Account, CanReleaseWithdraw, WithdrawCancelled
<1>6. CanReleaseWithdraw(b, a) => WithdrawCompleted(b, a) \in Account
  BY DEF Account, CanReleaseWithdraw, WithdrawCompleted
<1> QED  BY <1>1, <1>2, <1>3, <1>4, <1>5, <1>6

\* What each operation does to the user's claim on the house.
LEMMA LiabilityChanges ==
  ASSUME NEW b \in Account, NEW a \in Nat
  PROVE  /\ LiabilityOf(b) \in Nat
         /\ LiabilityOf(Deposited(b, a)) = LiabilityOf(b) + a
         /\ LiabilityOf(Reversed(b, a)) =
              LiabilityOf(b) - (IF b.available >= a THEN a ELSE b.available)
         /\ LiabilityOf(BetLocked(b, a)) = LiabilityOf(b)
         /\ LiabilityOf(WithdrawLocked(b, a)) = LiabilityOf(b)
         /\ LiabilityOf(WithdrawCancelled(b, a)) = LiabilityOf(b)
         /\ LiabilityOf(WithdrawCompleted(b, a)) = LiabilityOf(b) - a
<1>1. LiabilityOf(b) \in Nat
  BY DEF Account, LiabilityOf
<1>2. LiabilityOf(Deposited(b, a)) = LiabilityOf(b) + a
  BY DEF Account, LiabilityOf, Deposited
<1>3. LiabilityOf(Reversed(b, a)) =
        LiabilityOf(b) - (IF b.available >= a THEN a ELSE b.available)
  BY DEF Account, LiabilityOf, Reversed
<1>4. LiabilityOf(BetLocked(b, a)) = LiabilityOf(b)
  BY DEF Account, LiabilityOf, BetLocked
<1>5. LiabilityOf(WithdrawLocked(b, a)) = LiabilityOf(b)
  BY DEF Account, LiabilityOf, WithdrawLocked
<1>6. LiabilityOf(WithdrawCancelled(b, a)) = LiabilityOf(b)
  BY DEF Account, LiabilityOf, WithdrawCancelled
<1>7. LiabilityOf(WithdrawCompleted(b, a)) = LiabilityOf(b) - a
  BY DEF Account, LiabilityOf, WithdrawCompleted
<1> QED  BY <1>1, <1>2, <1>3, <1>4, <1>5, <1>6, <1>7

LEMMA SettlementChanges ==
  ASSUME NEW b \in Account, NEW s \in [bet: Int, credit: Int, houseDelta: Int],
         ValidSettlement(s), CanSettle(b, s)
  PROVE  /\ s.bet \in Nat /\ s.credit \in Nat
         /\ HandSettled(b, s) \in Account
         /\ LiabilityOf(HandSettled(b, s)) = LiabilityOf(b) - s.bet + s.credit
<1>1. s.bet \in Nat /\ s.credit \in Nat
  BY LedgerLimits DEF ValidSettlement, SafeAmount
<1>2. b.lockedHand - s.bet \in Nat /\ b.available + s.credit \in Nat
  BY <1>1 DEF Account, CanSettle
<1>3. HandSettled(b, s) \in Account
  BY <1>2 DEF Account, HandSettled
<1>4. LiabilityOf(HandSettled(b, s)) = LiabilityOf(b) - s.bet + s.credit
  BY <1>1 DEF Account, HandSettled, LiabilityOf
<1> QED  BY <1>1, <1>3, <1>4
=============================================================================
