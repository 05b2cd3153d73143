---------------------------- MODULE LedgerProofs ----------------------------
(***************************************************************************)
(* Proofs about Ledger, for any users, keys, amounts and limits.           *)
(*                                                                         *)
(* All results come from one inductive invariant,                          *)
(* IInv == TypeOK /\ UserBooks /\ ExactlyOnce.  Every keyed action changes *)
(* one account, one key and some history, so each proof has one step per   *)
(* operation of the ledger.                                                *)
(***************************************************************************)
EXTENDS Treasury, LedgerOpsProofs, SumProofs

IInv == TypeOK /\ UserBooks /\ ExactlyOnce

(***************************************************************************)
(* The invariant.                                                          *)
(***************************************************************************)
LEMMA SafeAmountsAreNat ==
  ASSUME NEW a \in Amounts, SafeAmount(a)
  PROVE  a \in Nat
BY LedgerInputs DEF SafeAmount

LEMMA SetUserEffect ==
  ASSUME TypeOK, NEW u \in Users, NEW b \in Account, SetUser(u, b)
  PROVE  /\ users' \in [Users -> Account]
         /\ users'[u] = b
         /\ \A v \in Users \ {u} : users'[v] = users[v]
BY DEF TypeOK, SetUser

LEMMA MarkAppliedEffect ==
  ASSUME TypeOK, ExactlyOnce, NEW k \in Keys, ~WasApplied(k), MarkApplied(k)
  PROVE  /\ appliedKeys' \in SUBSET Keys
         /\ effects' \in [Keys -> Nat]
         /\ ExactlyOnce'
BY DEF TypeOK, ExactlyOnce, WasApplied, MarkApplied

\* A step that makes b the account of u and adds d, e and f to u's history.
Posting(u, b, d, e, f) ==
  /\ SetUser(u, b)
  /\ onchain' = [onchain EXCEPT ![u] = @ + d]
  /\ shortfall' = [shortfall EXCEPT ![u] = @ + e]
  /\ lost' = [lost EXCEPT ![u] = @ + f]

\* A posting whose history matches the change of the account keeps the books.
LEMMA BooksStep ==
  ASSUME TypeOK, UserBooks, NEW u \in Users, NEW b \in Account,
         NEW d \in Int, NEW e \in Nat, NEW f \in Int, Posting(u, b, d, e, f),
         LiabilityOf(b) = LiabilityOf(users[u]) + d + e - f
  PROVE  /\ onchain' \in [Users -> Int]
         /\ shortfall' \in [Users -> Nat]
         /\ lost' \in [Users -> Int]
         /\ UserBooks'
<1>1. /\ onchain' \in [Users -> Int]
      /\ shortfall' \in [Users -> Nat]
      /\ lost' \in [Users -> Int]
  BY DEF TypeOK, Posting
<1>2. ASSUME NEW v \in Users
      PROVE  LiabilityOf(users'[v]) + lost'[v] = onchain'[v] + shortfall'[v]
  <2>1. LiabilityOf(users[v]) \in Int
    BY DEF TypeOK, Account, LiabilityOf
  <2>2. LiabilityOf(users[v]) + lost[v] = onchain[v] + shortfall[v]
    BY DEF UserBooks
  <2>3. CASE v = u
    BY <2>1, <2>2, <2>3, SetUserEffect DEF TypeOK, Posting
  <2>4. CASE v # u
    BY <2>2, <2>4, SetUserEffect DEF TypeOK, Posting
  <2> QED  BY <2>3, <2>4
<1> QED  BY <1>1, <1>2 DEF UserBooks

LEMMA InitInv == Init => IInv
BY DEF Init, IInv, TypeOK, UserBooks, ExactlyOnce, NewAccount, Account, LiabilityOf

\* Every keyed operation keeps the invariant.  Each step names the account the
\* operation writes and the history it adds, and BooksStep does the rest.
LEMMA KeyedInv ==
  ASSUME IInv, NEW u \in Users, NEW k \in Keys, KeyedStep(u, k)
  PROVE  IInv'
<1> USE DEF IInv
<1>u. users[u] \in Account
  BY DEF TypeOK
<1>h. /\ onchain = [onchain EXCEPT ![u] = @ + 0]
      /\ shortfall = [shortfall EXCEPT ![u] = @ + 0]
      /\ lost = [lost EXCEPT ![u] = @ + 0]
  BY DEF TypeOK
<1>1. ASSUME NEW a \in Amounts, CreditDeposit(u, a, k)
      PROVE  IInv'
  <2> DEFINE b == Deposited(users[u], a)
  <2>1. a \in Nat /\ ~WasApplied(k) /\ MarkApplied(k) /\ SetUser(u, b)
    BY <1>1, SafeAmountsAreNat DEF CreditDeposit
  <2>2. b \in Account /\ LiabilityOf(b) = LiabilityOf(users[u]) + a + 0 - 0
    BY <1>u, <2>1, AccountsStayAccounts, LiabilityChanges
  <2>3. UserBooks' /\ onchain' \in [Users -> Int] /\ shortfall' \in [Users -> Nat]
                   /\ lost' \in [Users -> Int]
    <3>1. Posting(u, b, a, 0, 0)
      BY <1>1, <1>h DEF CreditDeposit, Posting
    <3> HIDE DEF b
    <3> QED  BY <2>1, <2>2, <3>1, BooksStep
  <2> HIDE DEF b
  <2>4. housePlayEquity' \in Int
    BY <1>1 DEF CreditDeposit, TypeOK
  <2> QED  BY <2>1, <2>2, <2>3, <2>4, SetUserEffect, MarkAppliedEffect DEF TypeOK
<1>2. ASSUME NEW a \in Amounts, ReverseDeposit(u, a, k)
      PROVE  IInv'
  <2> DEFINE b == Reversed(users[u], a)
             e == IF users[u].available >= a THEN 0 ELSE a - users[u].available
  <2>1. a \in Nat /\ ~WasApplied(k) /\ MarkApplied(k) /\ SetUser(u, b)
    BY <1>2, SafeAmountsAreNat DEF ReverseDeposit
  <2>2. b \in Account
    BY <1>u, <2>1, AccountsStayAccounts
  <2>3. -a \in Int /\ e \in Nat
    BY <1>u, <2>1 DEF Account
  <2>4. LiabilityOf(b) = LiabilityOf(users[u]) + (-a) + e - 0
    BY <1>u, <2>1, LiabilityChanges DEF Account
  <2>5. UserBooks' /\ onchain' \in [Users -> Int] /\ shortfall' \in [Users -> Nat]
                   /\ lost' \in [Users -> Int]
    <3>1. onchain' = [onchain EXCEPT ![u] = @ + (-a)]
      BY <1>2, <2>1 DEF ReverseDeposit, TypeOK
    <3>2. Posting(u, b, -a, e, 0)
      BY <1>2, <1>h, <3>1 DEF ReverseDeposit, Posting
    <3> HIDE DEF b, e
    <3> QED  BY <2>2, <2>3, <2>4, <3>2, BooksStep
  <2> HIDE DEF b, e
  <2>6. housePlayEquity' \in Int
    BY <1>2 DEF ReverseDeposit, TypeOK
  <2> QED  BY <2>1, <2>2, <2>5, <2>6, SetUserEffect, MarkAppliedEffect DEF TypeOK
<1>3. ASSUME NEW a \in Amounts, LockBet(u, a, k)
      PROVE  IInv'
  <2> DEFINE b == BetLocked(users[u], a)
  <2>1. a \in Nat /\ ~WasApplied(k) /\ MarkApplied(k) /\ SetUser(u, b) /\ CanLockBet(users[u], a)
    BY <1>3, SafeAmountsAreNat DEF LockBet
  <2>2. b \in Account /\ LiabilityOf(b) = LiabilityOf(users[u]) + 0 + 0 - 0
    <3>1. LiabilityOf(users[u]) \in Nat /\ LiabilityOf(b) = LiabilityOf(users[u])
      BY <1>u, <2>1, LiabilityChanges
    <3>2. b \in Account BY <1>u, <2>1, AccountsStayAccounts
    <3> HIDE DEF b
    <3>3. QED BY <3>1, <3>2
  <2>3. UserBooks' /\ onchain' \in [Users -> Int] /\ shortfall' \in [Users -> Nat]
                   /\ lost' \in [Users -> Int]
    <3>1. Posting(u, b, 0, 0, 0)
      BY <1>3, <1>h DEF LockBet, Posting
    <3> HIDE DEF b
    <3> QED  BY <2>1, <2>2, <3>1, BooksStep
  <2> HIDE DEF b
  <2>4. housePlayEquity' \in Int
    BY <1>3 DEF LockBet, TypeOK
  <2> QED  BY <2>1, <2>2, <2>3, <2>4, SetUserEffect, MarkAppliedEffect DEF TypeOK
<1>4. ASSUME NEW a \in Amounts, RequestWithdraw(u, a, k)
      PROVE  IInv'
  <2> DEFINE b == WithdrawLocked(users[u], a)
  <2>1. a \in Nat /\ ~WasApplied(k) /\ MarkApplied(k) /\ SetUser(u, b) /\ CanRequestWithdraw(users[u], a)
    BY <1>4, SafeAmountsAreNat DEF RequestWithdraw
  <2>2. b \in Account /\ LiabilityOf(b) = LiabilityOf(users[u]) + 0 + 0 - 0
    <3>1. LiabilityOf(users[u]) \in Nat /\ LiabilityOf(b) = LiabilityOf(users[u])
      BY <1>u, <2>1, LiabilityChanges
    <3>2. b \in Account BY <1>u, <2>1, AccountsStayAccounts
    <3> HIDE DEF b
    <3>3. QED BY <3>1, <3>2
  <2>3. UserBooks' /\ onchain' \in [Users -> Int] /\ shortfall' \in [Users -> Nat]
                   /\ lost' \in [Users -> Int]
    <3>1. Posting(u, b, 0, 0, 0)
      BY <1>4, <1>h DEF RequestWithdraw, Posting
    <3> HIDE DEF b
    <3> QED  BY <2>1, <2>2, <3>1, BooksStep
  <2> HIDE DEF b
  <2>4. housePlayEquity' \in Int
    BY <1>4 DEF RequestWithdraw, TypeOK
  <2> QED  BY <2>1, <2>2, <2>3, <2>4, SetUserEffect, MarkAppliedEffect DEF TypeOK
<1>5. ASSUME NEW a \in Amounts, CancelWithdraw(u, a, k)
      PROVE  IInv'
  <2> DEFINE b == WithdrawCancelled(users[u], a)
  <2>1. a \in Nat /\ ~WasApplied(k) /\ MarkApplied(k) /\ SetUser(u, b) /\ CanReleaseWithdraw(users[u], a)
    BY <1>5, SafeAmountsAreNat DEF CancelWithdraw
  <2>2. b \in Account /\ LiabilityOf(b) = LiabilityOf(users[u]) + 0 + 0 - 0
    <3>1. LiabilityOf(users[u]) \in Nat /\ LiabilityOf(b) = LiabilityOf(users[u])
      BY <1>u, <2>1, LiabilityChanges
    <3>2. b \in Account BY <1>u, <2>1, AccountsStayAccounts
    <3> HIDE DEF b
    <3>3. QED BY <3>1, <3>2
  <2>3. UserBooks' /\ onchain' \in [Users -> Int] /\ shortfall' \in [Users -> Nat]
                   /\ lost' \in [Users -> Int]
    <3>1. Posting(u, b, 0, 0, 0)
      BY <1>5, <1>h DEF CancelWithdraw, Posting
    <3> HIDE DEF b
    <3> QED  BY <2>1, <2>2, <3>1, BooksStep
  <2> HIDE DEF b
  <2>4. housePlayEquity' \in Int
    BY <1>5 DEF CancelWithdraw, TypeOK
  <2> QED  BY <2>1, <2>2, <2>3, <2>4, SetUserEffect, MarkAppliedEffect DEF TypeOK
<1>6. ASSUME NEW a \in Amounts, CompleteWithdraw(u, a, k)
      PROVE  IInv'
  <2> DEFINE b == WithdrawCompleted(users[u], a)
  <2>1. /\ a \in Nat /\ ~WasApplied(k) /\ MarkApplied(k) /\ SetUser(u, b)
        /\ CanReleaseWithdraw(users[u], a)
    BY <1>6, SafeAmountsAreNat DEF CompleteWithdraw
  <2>2. b \in Account /\ LiabilityOf(b) = LiabilityOf(users[u]) + (-a) + 0 - 0
    <3>1. b \in Account
      BY <1>u, <2>1, AccountsStayAccounts
    <3>2. LiabilityOf(b) = LiabilityOf(users[u]) - a /\ LiabilityOf(users[u]) \in Nat
      BY <1>u, <2>1, LiabilityChanges
    <3> QED  BY <2>1, <3>1, <3>2
  <2>3. UserBooks' /\ onchain' \in [Users -> Int] /\ shortfall' \in [Users -> Nat]
                   /\ lost' \in [Users -> Int]
    <3>1. Posting(u, b, -a, 0, 0)
      BY <1>6, <1>h, <2>1 DEF CompleteWithdraw, TypeOK, Posting
    <3>2. -a \in Int
      BY <2>1
    <3> HIDE DEF b
    <3> QED  BY <2>1, <2>2, <3>1, <3>2, BooksStep
  <2> HIDE DEF b
  <2>4. housePlayEquity' \in Int
    BY <1>6 DEF CompleteWithdraw, TypeOK
  <2> QED  BY <2>1, <2>2, <2>3, <2>4, SetUserEffect, MarkAppliedEffect DEF TypeOK
<1>7. ASSUME NEW s \in Settlements, SettleHand(u, s, k)
      PROVE  IInv'
  <2> DEFINE b == HandSettled(users[u], s)
  <2>1. s \in [bet: Int, credit: Int, houseDelta: Int]
    BY LedgerInputs
  <2>2. /\ ValidSettlement(s) /\ CanSettle(users[u], s)
        /\ ~WasApplied(k) /\ MarkApplied(k) /\ SetUser(u, b)
    BY <1>7 DEF SettleHand
  <2>3. /\ s.bet \in Nat /\ s.credit \in Nat /\ b \in Account
        /\ LiabilityOf(b) = LiabilityOf(users[u]) - s.bet + s.credit
    BY <1>u, <2>1, <2>2, SettlementChanges
  <2>4. /\ s.bet - s.credit \in Int
        /\ LiabilityOf(b) = LiabilityOf(users[u]) + 0 + 0 - (s.bet - s.credit)
    BY <1>u, <2>1, <2>3, LiabilityChanges
  <2>5. UserBooks' /\ onchain' \in [Users -> Int] /\ shortfall' \in [Users -> Nat]
                   /\ lost' \in [Users -> Int]
    <3>1. lost' = [lost EXCEPT ![u] = @ + (s.bet - s.credit)]
      BY <1>7, <2>3 DEF SettleHand, TypeOK
    <3>2. Posting(u, b, 0, 0, s.bet - s.credit)
      BY <1>7, <1>h, <3>1 DEF SettleHand, Posting
    <3> HIDE DEF b
    <3> QED  BY <2>3, <2>4, <3>2, BooksStep
  <2> HIDE DEF b
  <2>6. housePlayEquity' \in Int
    BY <1>7, <2>1 DEF SettleHand, TypeOK
  <2> QED  BY <2>2, <2>3, <2>5, <2>6, SetUserEffect, MarkAppliedEffect DEF TypeOK
<1> QED  BY <1>1, <1>2, <1>3, <1>4, <1>5, <1>6, <1>7 DEF KeyedStep

LEMMA FreezeInv ==
  ASSUME IInv, NEW u \in Users, NEW frozen \in BOOLEAN, SetWithdrawFrozen(u, frozen)
  PROVE  IInv'
<1> DEFINE b == [users[u] EXCEPT !.withdrawFrozen = frozen]
<1>1. b \in Account /\ LiabilityOf(b) = LiabilityOf(users[u])
  BY DEF IInv, TypeOK, Account, LiabilityOf
<1>2. SetUser(u, b) /\ UNCHANGED <<housePlayEquity, appliedKeys, effects, onchain, shortfall, lost>>
  BY DEF SetWithdrawFrozen
<1> HIDE DEF b
<1>3. users' \in [Users -> Account]
      /\ \A v \in Users : LiabilityOf(users'[v]) = LiabilityOf(users[v])
  BY <1>1, <1>2, SetUserEffect DEF IInv
<1> QED  BY <1>2, <1>3 DEF IInv, TypeOK, UserBooks, ExactlyOnce

LEMMA NextInv == IInv /\ [Next]_vars => IInv'
<1>1. ASSUME IInv, UNCHANGED vars
      PROVE  IInv'
  BY <1>1 DEF vars, IInv, TypeOK, UserBooks, ExactlyOnce
<1>2. ASSUME IInv, Next
      PROVE  IInv'
  BY <1>2, KeyedInv, FreezeInv DEF Next
<1> QED  BY <1>1, <1>2

LEMMA InvariantHolds == Spec => []IInv
BY InitInv, NextInv, PTL DEF Spec

\* No balance, and no lock, ever goes below zero: the ledger's checks are enough
\* whatever amounts and settlements its callers pass (ledger.ts:224,279,308,331,357).
THEOREM LedgerTypeCorrect == Spec => []TypeOK
BY InvariantHolds, PTL DEF IInv

\* For every user the account explains the money: what is owed plus what the
\* house won is what is on chain plus what clamped reversals forgave.
THEOREM LedgerKeepsUserBooks == Spec => []UserBooks
BY InvariantHolds, PTL DEF IInv

\* A key takes effect exactly once if it is recorded, and never otherwise.
THEOREM LedgerAppliesKeysOnce == Spec => []ExactlyOnce
BY InvariantHolds, PTL DEF IInv

(***************************************************************************)
(* The action properties follow from the invariant, operation by           *)
(* operation.                                                              *)
(***************************************************************************)
LEMMA OtherUsersUntouched ==
  ASSUME IInv, NEW u \in Users, (\E k \in Keys : KeyedStep(u, k))
                                \/ (\E frozen \in BOOLEAN : SetWithdrawFrozen(u, frozen))
  PROVE  \A v \in Users \ {u} :
           /\ users'[v] = users[v]
           /\ onchain'[v] = onchain[v]
           /\ shortfall'[v] = shortfall[v]
BY DEF IInv, TypeOK, KeyedStep, CreditDeposit, ReverseDeposit, LockBet, RequestWithdraw,
       CancelWithdraw, CompleteWithdraw, SettleHand, SetWithdrawFrozen, SetUser

\* What every operation does to the fields the action properties are about.
LEMMA LockSeparationStep ==
  ASSUME IInv, NEW u \in Users, NEW k \in Keys, KeyedStep(u, k)
  PROVE  WithdrawLockReleased(u)
<1>u. users[u] \in Account /\ onchain[u] \in Int
  BY DEF IInv, TypeOK
<1>e. \A b : SetUser(u, b) => users'[u] = b
  BY DEF IInv, TypeOK, SetUser
<1>g. ASSUME users'[u].lockedWithdraw \in Nat,
             users'[u].lockedWithdraw >= users[u].lockedWithdraw
      PROVE  WithdrawLockReleased(u)
  BY <1>g, <1>u DEF Account, WithdrawLockReleased
<1>1. ASSUME NEW a \in Amounts, CreditDeposit(u, a, k)
      PROVE  WithdrawLockReleased(u)
  <2>1. users'[u] = Deposited(users[u], a)
    BY <1>1, <1>e DEF CreditDeposit
  <2>2. users'[u].lockedWithdraw = users[u].lockedWithdraw
    BY <2>1, <1>u DEF Deposited, Account
  <2> QED  BY <2>2, <1>u, <1>g DEF Account
<1>2. ASSUME NEW a \in Amounts, ReverseDeposit(u, a, k)
      PROVE  WithdrawLockReleased(u)
  <2>1. users'[u] = Reversed(users[u], a)
    BY <1>2, <1>e DEF ReverseDeposit
  <2>2. users'[u].lockedWithdraw = users[u].lockedWithdraw
    BY <2>1, <1>u DEF Reversed, Account
  <2> QED  BY <2>2, <1>u, <1>g DEF Account
<1>3. ASSUME NEW a \in Amounts, LockBet(u, a, k)
      PROVE  WithdrawLockReleased(u)
  <2>1. users'[u] = BetLocked(users[u], a)
    BY <1>3, <1>e DEF LockBet
  <2>2. users'[u].lockedWithdraw = users[u].lockedWithdraw
    BY <2>1, <1>u DEF BetLocked, Account
  <2> QED  BY <2>2, <1>u, <1>g DEF Account
<1>4. ASSUME NEW a \in Amounts, RequestWithdraw(u, a, k)
      PROVE  WithdrawLockReleased(u)
  <2>1. a \in Nat /\ users'[u] = WithdrawLocked(users[u], a)
    BY <1>4, <1>e, SafeAmountsAreNat DEF RequestWithdraw
  <2>2. users'[u].lockedWithdraw = users[u].lockedWithdraw + a
    BY <2>1, <1>u DEF WithdrawLocked, Account
  <2> QED  BY <2>1, <2>2, <1>u, <1>g DEF Account
<1>5. ASSUME NEW a \in Amounts, CancelWithdraw(u, a, k)
      PROVE  WithdrawLockReleased(u)
  <2>1. a \in Nat /\ users'[u] = WithdrawCancelled(users[u], a)
    BY <1>5, <1>e, SafeAmountsAreNat DEF CancelWithdraw
  <2>2. /\ users'[u].lockedWithdraw = users[u].lockedWithdraw - a
        /\ users'[u].available = users[u].available + a
        /\ users'[u].lockedHand = users[u].lockedHand
    BY <2>1, <1>u DEF WithdrawCancelled, Account
  <2> QED  BY <2>1, <2>2, <1>u DEF Account, WithdrawLockReleased
<1>6. ASSUME NEW a \in Amounts, CompleteWithdraw(u, a, k)
      PROVE  WithdrawLockReleased(u)
  <2>1. a \in Nat /\ SetUser(u, WithdrawCompleted(users[u], a))
    BY <1>6, SafeAmountsAreNat DEF CompleteWithdraw
  <2>2. onchain'[u] = onchain[u] - a
    BY <1>6 DEF CompleteWithdraw, IInv, TypeOK
  <2> QED  BY <2>1, <2>2, <1>u, <1>e DEF WithdrawCompleted, Account, WithdrawLockReleased
<1>7. ASSUME NEW s \in Settlements, SettleHand(u, s, k)
      PROVE  WithdrawLockReleased(u)
  <2>1. users'[u] = HandSettled(users[u], s)
    BY <1>7, <1>e DEF SettleHand
  <2>2. users'[u].lockedWithdraw = users[u].lockedWithdraw
    BY <2>1, <1>u DEF HandSettled, Account
  <2> QED  BY <2>2, <1>u, <1>g DEF Account
<1> QED  BY <1>1, <1>2, <1>3, <1>4, <1>5, <1>6, <1>7 DEF KeyedStep

\* Bets and withdrawals never borrow each other's locks, in any step of any
\* user (ledger.ts:14-17, 264-266, 341-344).
THEOREM LedgerSeparatesLocks == Spec => LockSeparation
<1>1. ASSUME IInv, Next, NEW v \in Users
      PROVE  WithdrawLockReleased(v)
  <2>1. PICK u \in Users : \/ \E k \in Keys : KeyedStep(u, k)
                           \/ \E frozen \in BOOLEAN : SetWithdrawFrozen(u, frozen)
    BY <1>1 DEF Next
  <2>2. CASE v # u
    <3>1. users'[v] = users[v] /\ users[v].lockedWithdraw \in Nat
      BY <1>1, <2>1, <2>2, OtherUsersUntouched DEF IInv, TypeOK, Account
    <3> QED  BY <3>1 DEF WithdrawLockReleased
  <2>3. CASE v = u /\ \E k \in Keys : KeyedStep(u, k)
    BY <1>1, <2>3, LockSeparationStep
  <2>4. CASE v = u /\ \E frozen \in BOOLEAN : SetWithdrawFrozen(u, frozen)
    BY <1>1, <2>4 DEF SetWithdrawFrozen, SetUser, WithdrawLockReleased, IInv, TypeOK, Account
  <2> QED  BY <2>1, <2>2, <2>3, <2>4
<1>2. IInv /\ [Next]_vars => [\A u \in Users : WithdrawLockReleased(u)]_vars
  BY <1>1
<1> QED  BY <1>2, InvariantHolds, PTL DEF Spec, LockSeparation

\* An operation that forgives nothing and locks nothing for withdrawal keeps the
\* freeze, whatever else it does.
LEMMA FreezeKeptStep ==
  ASSUME IInv, NEW u \in Users, NEW k \in Keys, KeyedStep(u, k)
  PROVE  FreezeKept(u)
<1>u. users[u] \in Account /\ shortfall[u] \in Nat
  BY DEF IInv, TypeOK
<1>e. \A b : SetUser(u, b) => users'[u] = b
  BY DEF IInv, TypeOK, SetUser
<1>g. ASSUME shortfall' = shortfall,
             users'[u].lockedWithdraw \in Int,
             users'[u].lockedWithdraw <= users[u].lockedWithdraw
      PROVE  FreezeKept(u)
  BY <1>g, <1>u DEF FreezeKept
<1>1. ASSUME NEW a \in Amounts, CreditDeposit(u, a, k)
      PROVE  FreezeKept(u)
  <2>1. users'[u] = Deposited(users[u], a) /\ shortfall' = shortfall
    BY <1>1, <1>e DEF CreditDeposit
  <2>2. users'[u].lockedWithdraw = users[u].lockedWithdraw
    BY <2>1, <1>u DEF Deposited, Account
  <2> QED  BY <2>1, <2>2, <1>u, <1>g DEF Account
<1>2. ASSUME NEW a \in Amounts, ReverseDeposit(u, a, k)
      PROVE  FreezeKept(u)
  <2>1. users'[u] = Reversed(users[u], a)
    BY <1>2, <1>e DEF ReverseDeposit
  <2>2. users'[u].lockedWithdraw = users[u].lockedWithdraw
    BY <2>1, <1>u DEF Reversed, Account
  <2>3. CASE users[u].available >= a
    <3>1. shortfall'[u] = shortfall[u]
      BY <1>2, <2>3, <1>u DEF ReverseDeposit, IInv, TypeOK
    <3> QED  BY <2>2, <3>1, <1>u DEF FreezeKept, Account
  <2>4. CASE ~(users[u].available >= a)
    <3>1. users'[u].withdrawFrozen
      BY <2>1, <2>4, <1>u DEF Reversed, Account
    <3> QED  BY <2>2, <3>1, <1>u DEF FreezeKept, Account
  <2> QED  BY <2>3, <2>4
<1>3. ASSUME NEW a \in Amounts, LockBet(u, a, k)
      PROVE  FreezeKept(u)
  <2>1. users'[u] = BetLocked(users[u], a) /\ shortfall' = shortfall
    BY <1>3, <1>e DEF LockBet
  <2>2. users'[u].lockedWithdraw = users[u].lockedWithdraw
    BY <2>1, <1>u DEF BetLocked, Account
  <2> QED  BY <2>1, <2>2, <1>u, <1>g DEF Account
<1>4. ASSUME NEW a \in Amounts, RequestWithdraw(u, a, k)
      PROVE  FreezeKept(u)
  BY <1>4, <1>u DEF RequestWithdraw, CanRequestWithdraw, FreezeKept
<1>5. ASSUME NEW a \in Amounts, CancelWithdraw(u, a, k)
      PROVE  FreezeKept(u)
  <2>1. a \in Nat /\ users'[u] = WithdrawCancelled(users[u], a) /\ shortfall' = shortfall
    BY <1>5, <1>e, SafeAmountsAreNat DEF CancelWithdraw
  <2>2. users'[u].lockedWithdraw = users[u].lockedWithdraw - a
    BY <2>1, <1>u DEF WithdrawCancelled, Account
  <2> QED  BY <2>1, <2>2, <1>u, <1>g DEF Account
<1>6. ASSUME NEW a \in Amounts, CompleteWithdraw(u, a, k)
      PROVE  FreezeKept(u)
  <2>1. a \in Nat /\ users'[u] = WithdrawCompleted(users[u], a) /\ shortfall' = shortfall
    BY <1>6, <1>e, SafeAmountsAreNat DEF CompleteWithdraw
  <2>2. users'[u].lockedWithdraw = users[u].lockedWithdraw - a
    BY <2>1, <1>u DEF WithdrawCompleted, Account
  <2> QED  BY <2>1, <2>2, <1>u, <1>g DEF Account
<1>7. ASSUME NEW s \in Settlements, SettleHand(u, s, k)
      PROVE  FreezeKept(u)
  <2>1. users'[u] = HandSettled(users[u], s) /\ shortfall' = shortfall
    BY <1>7, <1>e DEF SettleHand
  <2>2. users'[u].lockedWithdraw = users[u].lockedWithdraw
    BY <2>1, <1>u DEF HandSettled, Account
  <2> QED  BY <2>1, <2>2, <1>u, <1>g DEF Account
<1> QED  BY <1>1, <1>2, <1>3, <1>4, <1>5, <1>6, <1>7 DEF KeyedStep

\* A reversal that could not be covered leaves its user frozen, and nothing new is
\* locked for withdrawal from a frozen user, in any step of any user
\* (ledger.ts:165-190, 305-307).
THEOREM LedgerKeepsFreeze == Spec => FreezeHolds
<1>1. ASSUME IInv, Next, NEW v \in Users
      PROVE  FreezeKept(v)
  <2>1. PICK u \in Users : \/ \E k \in Keys : KeyedStep(u, k)
                           \/ \E frozen \in BOOLEAN : SetWithdrawFrozen(u, frozen)
    BY <1>1 DEF Next
  <2>2. CASE v # u
    <3>1. /\ users'[v] = users[v] /\ shortfall'[v] = shortfall[v]
          /\ users[v].lockedWithdraw \in Nat /\ shortfall[v] \in Nat
      BY <1>1, <2>1, <2>2, OtherUsersUntouched DEF IInv, TypeOK, Account
    <3> QED  BY <3>1 DEF FreezeKept
  <2>3. CASE v = u /\ \E k \in Keys : KeyedStep(u, k)
    BY <1>1, <2>3, FreezeKeptStep
  <2>4. CASE v = u /\ \E frozen \in BOOLEAN : SetWithdrawFrozen(u, frozen)
    BY <1>1, <2>4 DEF SetWithdrawFrozen, SetUser, FreezeKept, IInv, TypeOK, Account
  <2> QED  BY <2>1, <2>2, <2>3, <2>4
<1>2. IInv /\ [Next]_vars => [\A u \in Users : FreezeKept(u)]_vars
  BY <1>1
<1> QED  BY <1>2, InvariantHolds, PTL DEF Spec, FreezeHolds

(***************************************************************************)
(* Refinement: every step of the ledger is a step of HouseBook or leaves   *)
(* the claims, the house's winnings and the used keys as they are.         *)
(***************************************************************************)
LEMMA ClaimsAfter ==
  ASSUME IInv, NEW u \in Users, NEW b \in Account, SetUser(u, b)
  PROVE  /\ Claims' = [Claims EXCEPT ![u] = LiabilityOf(b)]
         /\ Claims'[u] = LiabilityOf(b) /\ Claims[u] = LiabilityOf(users[u])
         /\ Book!Moves(u)
<1>1. LiabilityOf(b) \in Nat
  BY DEF Account, LiabilityOf
<1>2. \A v \in Users : users'[v] = IF v = u THEN b ELSE users[v]
  BY SetUserEffect DEF IInv
<1>3. Claims' = [Claims EXCEPT ![u] = LiabilityOf(b)]
  BY <1>2 DEF Claims
<1>4. Claims'[u] = LiabilityOf(b) /\ Claims[u] = LiabilityOf(users[u])
  BY <1>2 DEF Claims
<1> QED  BY <1>1, <1>3, <1>4 DEF Book!Moves

LEMMA KeyUsed ==
  ASSUME NEW k \in Keys, ~WasApplied(k), MarkApplied(k)
  PROVE  Book!Use(k)
BY DEF WasApplied, MarkApplied, Book!Use

\* An operation that keeps the liability and the equity rearranges the claim.
LEMMA RearrangeStep ==
  ASSUME IInv, NEW u \in Users, NEW b \in Account, SetUser(u, b),
         LiabilityOf(b) = LiabilityOf(users[u]), UNCHANGED housePlayEquity
  PROVE  Book!Rearrange
<1>1. \A v \in Users : LiabilityOf(users'[v]) = LiabilityOf(users[v])
  BY SetUserEffect DEF IInv
<1> QED  BY <1>1 DEF Book!Rearrange, Claims

LEMMA KeyedStepsAreBookSteps ==
  ASSUME IInv, NEW u \in Users, NEW k \in Keys, KeyedStep(u, k)
  PROVE  Book!Use(k) /\ (Book!Enter(u) \/ Book!Leave(u) \/ Book!Play(u) \/ Book!Rearrange)
<1>u. users[u] \in Account
  BY DEF IInv, TypeOK
<1>1. ASSUME NEW a \in Amounts, CreditDeposit(u, a, k)
      PROVE  Book!Use(k) /\ Book!Enter(u)
  <2> DEFINE b == Deposited(users[u], a)
  <2>1. a \in Nat /\ 0 < a /\ ~WasApplied(k) /\ MarkApplied(k) /\ SetUser(u, b)
    BY <1>1, SafeAmountsAreNat DEF CreditDeposit, SafeAmount
  <2>2. b \in Account /\ LiabilityOf(b) = LiabilityOf(users[u]) + a
        /\ LiabilityOf(users[u]) \in Nat
    BY <1>u, <2>1, AccountsStayAccounts, LiabilityChanges
  <2>3. Book!Moves(u) /\ Claims'[u] > Claims[u]
    <3> HIDE DEF b
    <3>1. Claims'[u] = LiabilityOf(b) /\ Claims[u] = LiabilityOf(users[u]) /\ Book!Moves(u)
      BY <2>1, <2>2, ClaimsAfter
    <3> QED  BY <2>1, <2>2, <3>1
  <2> QED  BY <1>1, <2>1, <2>3, KeyUsed DEF CreditDeposit, Book!Enter
<1>2. ASSUME NEW a \in Amounts, ReverseDeposit(u, a, k)
      PROVE  Book!Use(k) /\ Book!Leave(u)
  <2> DEFINE b == Reversed(users[u], a)
  <2>1. a \in Nat /\ ~WasApplied(k) /\ MarkApplied(k) /\ SetUser(u, b)
    BY <1>2, SafeAmountsAreNat DEF ReverseDeposit
  <2>2. b \in Account /\ LiabilityOf(b) <= LiabilityOf(users[u])
    <3>1. b \in Account
      BY <1>u, <2>1, AccountsStayAccounts
    <3>2. LiabilityOf(b) =
            LiabilityOf(users[u]) - (IF users[u].available >= a THEN a ELSE users[u].available)
          /\ LiabilityOf(users[u]) \in Nat
      BY <1>u, <2>1, LiabilityChanges
    <3> QED  BY <1>u, <2>1, <3>1, <3>2 DEF Account
  <2>3. Book!Moves(u) /\ Claims'[u] <= Claims[u]
    <3> HIDE DEF b
    <3> QED  BY <2>1, <2>2, ClaimsAfter
  <2> QED  BY <1>2, <2>1, <2>3, KeyUsed DEF ReverseDeposit, Book!Leave
<1>3. ASSUME NEW a \in Amounts, LockBet(u, a, k)
      PROVE  Book!Use(k) /\ Book!Rearrange
  <2> DEFINE b == BetLocked(users[u], a)
  <2>1. /\ a \in Nat /\ ~WasApplied(k) /\ MarkApplied(k) /\ SetUser(u, b)
        /\ CanLockBet(users[u], a) /\ UNCHANGED housePlayEquity
    BY <1>3, SafeAmountsAreNat DEF LockBet
  <2>2. b \in Account /\ LiabilityOf(b) = LiabilityOf(users[u])
    BY <1>u, <2>1, AccountsStayAccounts, LiabilityChanges
  <2> HIDE DEF b
  <2> QED  BY <2>1, <2>2, RearrangeStep, KeyUsed
<1>4. ASSUME NEW a \in Amounts, RequestWithdraw(u, a, k)
      PROVE  Book!Use(k) /\ Book!Rearrange
  <2> DEFINE b == WithdrawLocked(users[u], a)
  <2>1. /\ a \in Nat /\ ~WasApplied(k) /\ MarkApplied(k) /\ SetUser(u, b)
        /\ CanRequestWithdraw(users[u], a) /\ UNCHANGED housePlayEquity
    BY <1>4, SafeAmountsAreNat DEF RequestWithdraw
  <2>2. b \in Account /\ LiabilityOf(b) = LiabilityOf(users[u])
    BY <1>u, <2>1, AccountsStayAccounts, LiabilityChanges
  <2> HIDE DEF b
  <2> QED  BY <2>1, <2>2, RearrangeStep, KeyUsed
<1>5. ASSUME NEW a \in Amounts, CancelWithdraw(u, a, k)
      PROVE  Book!Use(k) /\ Book!Rearrange
  <2> DEFINE b == WithdrawCancelled(users[u], a)
  <2>1. /\ a \in Nat /\ ~WasApplied(k) /\ MarkApplied(k) /\ SetUser(u, b)
        /\ CanReleaseWithdraw(users[u], a) /\ UNCHANGED housePlayEquity
    BY <1>5, SafeAmountsAreNat DEF CancelWithdraw
  <2>2. b \in Account /\ LiabilityOf(b) = LiabilityOf(users[u])
    BY <1>u, <2>1, AccountsStayAccounts, LiabilityChanges
  <2> HIDE DEF b
  <2> QED  BY <2>1, <2>2, RearrangeStep, KeyUsed
<1>6. ASSUME NEW a \in Amounts, CompleteWithdraw(u, a, k)
      PROVE  Book!Use(k) /\ Book!Leave(u)
  <2> DEFINE b == WithdrawCompleted(users[u], a)
  <2>1. /\ a \in Nat /\ ~WasApplied(k) /\ MarkApplied(k) /\ SetUser(u, b)
        /\ CanReleaseWithdraw(users[u], a)
    BY <1>6, SafeAmountsAreNat DEF CompleteWithdraw
  <2>2. b \in Account /\ LiabilityOf(b) <= LiabilityOf(users[u])
    <3>1. b \in Account
      BY <1>u, <2>1, AccountsStayAccounts
    <3>2. LiabilityOf(b) = LiabilityOf(users[u]) - a /\ LiabilityOf(users[u]) \in Nat
      BY <1>u, <2>1, LiabilityChanges
    <3> QED  BY <2>1, <3>1, <3>2
  <2>3. Book!Moves(u) /\ Claims'[u] <= Claims[u]
    <3> HIDE DEF b
    <3> QED  BY <2>1, <2>2, ClaimsAfter
  <2> QED  BY <1>6, <2>1, <2>3, KeyUsed DEF CompleteWithdraw, Book!Leave
<1>7. ASSUME NEW s \in Settlements, SettleHand(u, s, k)
      PROVE  Book!Use(k) /\ Book!Play(u)
  <2> DEFINE b == HandSettled(users[u], s)
  <2>1. s \in [bet: Int, credit: Int, houseDelta: Int]
    BY LedgerInputs
  <2>2. /\ ValidSettlement(s) /\ CanSettle(users[u], s) /\ SetUser(u, b)
        /\ ~WasApplied(k) /\ MarkApplied(k)
        /\ housePlayEquity' = housePlayEquity + s.houseDelta
    BY <1>7 DEF SettleHand
  <2>3. /\ s.bet \in Nat /\ s.credit \in Nat /\ b \in Account
        /\ LiabilityOf(b) = LiabilityOf(users[u]) - s.bet + s.credit
        /\ LiabilityOf(users[u]) \in Nat
    BY <1>u, <2>1, <2>2, SettlementChanges, LiabilityChanges
  <2>4. /\ 0 < s.bet /\ s.bet <= LiabilityOf(users[u])
        /\ s.credit <= s.bet * MaxCreditMult
        /\ s.houseDelta = s.bet - s.credit
    BY <1>u, <2>1, <2>2, <2>3
       DEF ValidSettlement, SafeAmount, CanSettle, Account, LiabilityOf
  <2>5. Book!Moves(u) /\ Claims[u] = LiabilityOf(users[u])
        /\ Claims'[u] = Claims[u] - s.bet + s.credit
    <3> HIDE DEF b
    <3> QED  BY <2>2, <2>3, ClaimsAfter
  <2>6. housePlayEquity' - housePlayEquity = Claims[u] - Claims'[u]
    <3>1. housePlayEquity \in Int
      BY DEF IInv, TypeOK
    <3> QED  BY <2>1, <2>2, <2>3, <2>4, <2>5, <3>1
  <2>7. s.bet \in 1..Claims[u] /\ Claims'[u] - Claims[u] + s.bet = s.credit
    BY <2>1, <2>3, <2>4, <2>5
  <2>8. \E bet \in 1..Claims[u] :
          LET credit == Claims'[u] - Claims[u] + bet
          IN  0 <= credit /\ credit <= bet * MaxCreditMult
    BY <2>3, <2>4, <2>7
  <2> QED  BY <2>2, <2>5, <2>6, <2>8, KeyUsed DEF Book!Play
<1> QED  BY <1>1, <1>2, <1>3, <1>4, <1>5, <1>6, <1>7 DEF KeyedStep

\* The ledger implements the book of claims: locking a bet, or requesting or
\* cancelling a withdrawal, never changes what the platform owes, and every
\* other change is one the book allows (ledger.ts:208-211, 289-292, 341-344).
THEOREM LedgerImplementsBook == Spec => ImplementsBook
<1>1. Init => Book!Init
  BY DEF Init, Book!Init, Claims, NewAccount, LiabilityOf
<1>2. ASSUME IInv, [Next]_vars
      PROVE  [Book!Next]_Book!bookVars
  <2>1. CASE UNCHANGED vars
    BY <2>1 DEF vars, Claims, Book!bookVars
  <2>2. ASSUME NEW u \in Users, NEW k \in Keys, KeyedStep(u, k)
        PROVE  Book!Next
    BY <1>2, <2>2, KeyedStepsAreBookSteps DEF Book!Next
  <2>3. ASSUME NEW u \in Users, NEW frozen \in BOOLEAN, SetWithdrawFrozen(u, frozen)
        PROVE  UNCHANGED Book!bookVars
    <3> DEFINE b == [users[u] EXCEPT !.withdrawFrozen = frozen]
    <3>1. b \in Account /\ LiabilityOf(b) = LiabilityOf(users[u])
      BY <1>2 DEF IInv, TypeOK, Account, LiabilityOf
    <3>2. SetUser(u, b) /\ UNCHANGED <<housePlayEquity, appliedKeys>>
      BY <2>3 DEF SetWithdrawFrozen
    <3> HIDE DEF b
    <3>3. Book!Rearrange
      BY <1>2, <3>1, <3>2, RearrangeStep
    <3> QED  BY <3>2, <3>3 DEF Book!Rearrange, Book!bookVars
  <2> QED  BY <1>2, <2>1, <2>2, <2>3 DEF Next
<1> QED  BY <1>1, <1>2, InvariantHolds, PTL DEF Spec, ImplementsBook, Book!Spec

-----------------------------------------------------------------------------
(***************************************************************************)
(* The house's side.  What the house has won is what its users have lost,  *)
(* so the books of all users add up to the books of the platform.          *)
(***************************************************************************)
HouseWonWhatUsersLost == housePlayEquity = SumFunction(lost)

TreasuryInv == IInv /\ HouseWonWhatUsersLost /\ bought \in Int

LEMMA SumOfUsers ==
  ASSUME NEW f \in [Users -> Int] PROVE SumFunction(f) = SumFunctionOnSet(f, Users) /\ SumFunction(f) \in Int
BY UsersAreFinite, SumIsInt DEF SumFunction

LEMMA TreasuryInitInv == TreasuryInit => TreasuryInv
<1> SUFFICES ASSUME TreasuryInit PROVE TreasuryInv
  OBVIOUS
<1>1. IInv BY InitInv DEF TreasuryInit
<1>2. lost = [u \in Users |-> 0] /\ housePlayEquity = 0 /\ bought = 0 BY DEF TreasuryInit, Init
<1>3. SumFunction(lost) = 0
  <2>1. lost \in [Users -> Int] BY <1>2
  <2>2. SumFunction(lost) = SumFunctionOnSet(lost, Users) BY <2>1, SumOfUsers
  <2>3. \A u \in Users : lost[u] \in Int /\ lost[u] = lost[u] + lost[u] BY <1>2
  <2>4. SumFunctionOnSet(lost, Users) = SumFunctionOnSet(lost, Users) + SumFunctionOnSet(lost, Users)
    BY <2>3, UsersAreFinite, SumOfSums
  <2>5. SumFunctionOnSet(lost, Users) \in Int BY <2>1, <2>2, SumOfUsers
  <2>6. \A x \in Int : x = x + x => x = 0 OBVIOUS
  <2>7. QED BY <2>2, <2>4, <2>5, <2>6
<1>4. QED BY <1>1, <1>2, <1>3 DEF TreasuryInv, HouseWonWhatUsersLost

\* Only a settlement moves what a user has lost, and it gives the house its share.
LEMMA HouseWonStep ==
  ASSUME IInv, HouseWonWhatUsersLost, Next
  PROVE  HouseWonWhatUsersLost'
<1>1. CASE UNCHANGED <<housePlayEquity, lost>> BY <1>1 DEF HouseWonWhatUsersLost
<1>2. ASSUME NEW u \in Users, NEW s \in Settlements, NEW k \in Keys, SettleHand(u, s, k)
      PROVE  HouseWonWhatUsersLost'
  <2>1. s.bet \in Int /\ s.credit \in Int /\ s.houseDelta \in Int /\ s.credit + s.houseDelta = s.bet
    BY <1>2, LedgerInputs DEF SettleHand, ValidSettlement
  <2>2. lost \in [Users -> Int] /\ lost' = [lost EXCEPT ![u] = lost[u] + s.bet - s.credit]
    BY <1>2 DEF SettleHand, IInv, TypeOK
  <2>3. lost' \in [Users -> Int] /\ lost'[u] = lost[u] + s.houseDelta BY <2>1, <2>2
  <2>4. SumFunctionOnSet(lost', Users) = SumFunctionOnSet(lost, Users) - lost[u] + lost'[u]
    <3>1. /\ \A v \in Users : lost[v] \in Int
          /\ lost'[u] \in Int
          /\ \A v \in Users \ {u} : lost'[v] = lost[v]
      BY <2>2, <2>3
    <3>2. QED BY <3>1, UsersAreFinite, SumOfChangedTerm
  <2>5. /\ SumFunction(lost) = SumFunctionOnSet(lost, Users) /\ SumFunction(lost) \in Int
        /\ SumFunction(lost') = SumFunctionOnSet(lost', Users)
    BY <2>2, <2>3, SumOfUsers
  <2>6. housePlayEquity' = housePlayEquity + s.houseDelta BY <1>2 DEF SettleHand
  <2>7. lost[u] \in Int BY <2>2
  <2>8. SumFunction(lost') = SumFunction(lost) + s.houseDelta BY <2>1, <2>3, <2>4, <2>5, <2>7
  <2>9. QED BY <2>6, <2>8 DEF HouseWonWhatUsersLost
<1>3. ASSUME NEW u \in Users, NEW k \in Keys, NEW a \in Amounts,
             \/ CreditDeposit(u, a, k) \/ ReverseDeposit(u, a, k) \/ LockBet(u, a, k)
             \/ RequestWithdraw(u, a, k) \/ CancelWithdraw(u, a, k) \/ CompleteWithdraw(u, a, k)
      PROVE  UNCHANGED <<housePlayEquity, lost>>
  BY <1>3 DEF CreditDeposit, ReverseDeposit, LockBet, RequestWithdraw, CancelWithdraw, CompleteWithdraw
<1>4. ASSUME NEW u \in Users, NEW frozen \in BOOLEAN, SetWithdrawFrozen(u, frozen)
      PROVE  UNCHANGED <<housePlayEquity, lost>>
  BY <1>4 DEF SetWithdrawFrozen
<1>5. QED BY <1>1, <1>2, <1>3, <1>4 DEF Next, KeyedStep

\* The four sums of the books, as numbers.
LEMMA SumsOfBooks ==
  ASSUME IInv
  PROVE  /\ SumFunction(Claims) \in Int /\ SumFunction(lost) \in Int
         /\ SumFunction(onchain) \in Int /\ SumFunction(shortfall) \in Int
         /\ SumFunction(Claims) + SumFunction(lost) = SumFunction(onchain) + SumFunction(shortfall)
<1> DEFINE both == [u \in Users |-> Claims[u] + lost[u]]
<1>1. /\ Claims \in [Users -> Int] /\ lost \in [Users -> Int]
      /\ onchain \in [Users -> Int] /\ shortfall \in [Users -> Int]
  BY DEF IInv, TypeOK, Claims, Account, LiabilityOf
<1>2. \A u \in Users : both[u] = onchain[u] + shortfall[u]
  BY DEF IInv, UserBooks, Claims
<1>3. \A u \in Users : both[u] = Claims[u] + lost[u] OBVIOUS
<1> HIDE DEF both
<1>4. SumFunctionOnSet(both, Users) = SumFunctionOnSet(Claims, Users) + SumFunctionOnSet(lost, Users)
  BY <1>1, <1>3, UsersAreFinite, SumOfSums
<1>5. SumFunctionOnSet(both, Users) = SumFunctionOnSet(onchain, Users) + SumFunctionOnSet(shortfall, Users)
  BY <1>1, <1>2, UsersAreFinite, SumOfSums
<1>6. QED BY <1>1, <1>4, <1>5, SumOfUsers

LEMMA DailyBuyType ==
  ASSUME TreasuryInv, NEW hot \in HotBalances
  PROVE  BuyAmount(FreeBalance(HouseUsdc, TotalPlayerLiability), hot) \in Nat
<1>1. HouseUsdc \in Int /\ TotalPlayerLiability \in Int
  BY SumsOfBooks, TreasuryLimits DEF TreasuryInv, HouseUsdc, TotalPlayerLiability
<1> DEFINE free == FreeBalance(HouseUsdc, TotalPlayerLiability)
<1>2. free \in Nat BY <1>1, TreasuryLimits DEF FreeBalance
<1> HIDE DEF free
<1>3. (free * BuyRatioBps) \div RatioScale \in Int BY <1>2, TreasuryLimits
<1>4. BuyAmount(free, hot) \in Nat
  BY <1>2, <1>3, TreasuryLimits DEF BuyAmount, AtMost
<1>5. QED BY <1>4 DEF free

LEMMA TreasuryStepInv == TreasuryInv /\ [TreasuryNext]_treasuryVars => TreasuryInv'
<1> SUFFICES ASSUME TreasuryInv, [TreasuryNext]_treasuryVars PROVE TreasuryInv'
  OBVIOUS
<1>1. IInv' BY NextInv DEF TreasuryInv, TreasuryNext, LedgerOperation, DailyBuy, treasuryVars
<1>2. CASE LedgerOperation
  BY <1>1, <1>2, HouseWonStep DEF TreasuryInv, LedgerOperation
<1>3. ASSUME NEW hot \in HotBalances, DailyBuy(hot) PROVE TreasuryInv'
  BY <1>1, <1>3, DailyBuyType DEF TreasuryInv, DailyBuy, HouseWonWhatUsersLost, vars
<1>4. CASE UNCHANGED treasuryVars
  BY <1>1, <1>4 DEF TreasuryInv, HouseWonWhatUsersLost, vars, treasuryVars
<1>5. QED BY <1>2, <1>3, <1>4 DEF TreasuryNext

LEMMA TreasuryInvHolds == TreasurySpec => []TreasuryInv
BY TreasuryInitInv, TreasuryStepInv, PTL DEF TreasurySpec

\* Over all users: liability plus house equity is the money on chain plus what clamped
\* reversals forgave (ledger.ts:126-211), however many users there are.
THEOREM TreasuryBooksBalance == TreasurySpec => []BooksBalance
<1>1. TreasuryInv => BooksBalance
  BY SumsOfBooks DEF TreasuryInv, HouseWonWhatUsersLost, BooksBalance, TotalPlayerLiability
<1>2. QED BY <1>1, TreasuryInvHolds, PTL

\* A part of a sum that is no more than all of it.
LEMMA PartOfWhole ==
  ASSUME NEW x \in Nat, NEW part \in Nat, NEW whole \in Nat \ {0}, part <= whole
  PROVE  (x * part) \div whole <= x
<1>1. x * part <= x * whole OBVIOUS
<1>2. x * part \in Nat OBVIOUS
<1> DEFINE y == x * part
<1> HIDE DEF y
<1>3. QED BY <1>1, <1>2 DEF y

\* A daily buy that spends anything leaves what players are owed and the reserve
\* (ledger.ts:59-96), for every limit, ratio and balance of the hot wallet.
THEOREM DailyBuysSparePlayers == TreasurySpec => BuySparesPlayers
<1>1. ASSUME TreasuryInv, NEW hot \in HotBalances, DailyBuy(hot), bought' > bought
      PROVE  HouseUsdc' >= TotalPlayerLiability' + ReserveFloor
  <2> DEFINE free == FreeBalance(HouseUsdc, TotalPlayerLiability)
             buy == BuyAmount(free, hot)
  <2>1. HouseUsdc \in Int /\ TotalPlayerLiability \in Int /\ SumFunction(onchain) \in Int /\ bought \in Int
    BY <1>1, SumsOfBooks, TreasuryLimits DEF TreasuryInv, HouseUsdc, TotalPlayerLiability
  <2>2. free \in Nat BY <2>1, TreasuryLimits DEF FreeBalance
  <2>3. buy \in Nat BY <1>1, DailyBuyType
  <2>4. bought' = bought + buy /\ UNCHANGED vars BY <1>1 DEF DailyBuy
  <2>5. HouseUsdc' = HouseUsdc - buy /\ TotalPlayerLiability' = TotalPlayerLiability
    BY <2>1, <2>3, <2>4, TreasuryLimits DEF HouseUsdc, TotalPlayerLiability, Claims, vars
  <2>6. buy <= free
    <3>1. (free * BuyRatioBps) \div RatioScale <= free /\ (free * BuyRatioBps) \div RatioScale \in Int
      BY <2>2, PartOfWhole, TreasuryLimits
    <3> HIDE DEF free
    <3>2. QED BY <2>2, <3>1, TreasuryLimits DEF BuyAmount, AtMost
  <2>7. buy > 0 BY <1>1, <2>1, <2>3, <2>4
  <2>8. HouseUsdc - TotalPlayerLiability - ReserveFloor >= buy
    BY <2>1, <2>3, <2>6, <2>7, TreasuryLimits DEF FreeBalance
  <2> HIDE DEF buy, free
  <2>9. QED BY <2>1, <2>3, <2>5, <2>8, TreasuryLimits
<1>2. ASSUME TreasuryInv, [TreasuryNext]_treasuryVars
      PROVE  bought' > bought => HouseUsdc' >= TotalPlayerLiability' + ReserveFloor
  <2>1. CASE UNCHANGED bought BY <1>2, <2>1 DEF TreasuryInv
  <2>2. QED BY <1>1, <1>2, <2>1 DEF TreasuryNext, LedgerOperation, treasuryVars
<1>3. QED BY <1>2, TreasuryInvHolds, PTL DEF TreasurySpec, BuySparesPlayers
=============================================================================
