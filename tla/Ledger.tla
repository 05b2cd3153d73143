------------------------------- MODULE Ledger -------------------------------
(***************************************************************************)
(* packages/ledger/src/ledger.ts: one LedgerSnapshot, its users, its house *)
(* equity and its idempotency keys.  Every exported operation that changes *)
(* the snapshot is an action.  A call that throws and a replay of an       *)
(* applied key change nothing, so they are stuttering steps: the action's  *)
(* guard is exactly "the call is neither".                                 *)
(*                                                                         *)
(* Every caller in the repository passes an idempotency key; the key-less  *)
(* form of the operations is not modelled.                                 *)
(***************************************************************************)
EXTENDS LedgerOps

CONSTANTS
  Users,        \* user ids
  Keys,         \* idempotency keys; all operations and users share one set
  Amounts,      \* amounts callers pass, safe or not
  Settlements   \* settlements game code passes, valid or not

ASSUME LedgerInputs ==
  /\ Amounts \subseteq Int
  /\ Settlements \subseteq [bet: Int, credit: Int, houseDelta: Int]

VARIABLES
  users,            \* LedgerSnapshot.users (a missing entry is a NewAccount)
  housePlayEquity,  \* LedgerSnapshot.equity.housePlayEquity
  appliedKeys       \* LedgerSnapshot.appliedKeys

(***************************************************************************)
(* History, read by no guard: how often each key took effect, what each    *)
(* user really has in custody on chain, how much of a reorged deposit      *)
(* could not be taken back, and what the user has lost to the house.       *)
(***************************************************************************)
VARIABLES effects, onchain, shortfall, lost

snapshot == <<users, housePlayEquity, appliedKeys>>
vars == <<users, housePlayEquity, appliedKeys, effects, onchain, shortfall, lost>>

TypeOK ==
  /\ users \in [Users -> Account]
  /\ housePlayEquity \in Int
  /\ appliedKeys \in SUBSET Keys
  /\ effects \in [Keys -> Nat]
  /\ onchain \in [Users -> Int]
  /\ shortfall \in [Users -> Nat]
  /\ lost \in [Users -> Int]

\* createLedger
Init ==
  /\ users = [u \in Users |-> NewAccount]
  /\ housePlayEquity = 0
  /\ appliedKeys = {}
  /\ effects = [k \in Keys |-> 0]
  /\ onchain = [u \in Users |-> 0]
  /\ shortfall = [u \in Users |-> 0]
  /\ lost = [u \in Users |-> 0]

-----------------------------------------------------------------------------
WasApplied(k) == k \in appliedKeys

MarkApplied(k) ==
  /\ appliedKeys' = appliedKeys \cup {k}
  /\ effects' = [effects EXCEPT ![k] = @ + 1]

SetUser(u, b) == users' = [users EXCEPT ![u] = b]

CreditDeposit(u, a, k) ==
  /\ SafeAmount(a)
  /\ ~WasApplied(k)
  /\ SetUser(u, Deposited(users[u], a))
  /\ MarkApplied(k)
  /\ onchain' = [onchain EXCEPT ![u] = @ + a]
  /\ UNCHANGED <<housePlayEquity, shortfall, lost>>

\* The chain has taken back the whole deposit, whatever the account can cover.
ReverseDeposit(u, a, k) ==
  /\ SafeAmount(a)
  /\ ~WasApplied(k)
  /\ SetUser(u, Reversed(users[u], a))
  /\ MarkApplied(k)
  /\ onchain' = [onchain EXCEPT ![u] = @ - a]
  /\ shortfall' = [shortfall EXCEPT
       ![u] = @ + (IF users[u].available >= a THEN 0 ELSE a - users[u].available)]
  /\ UNCHANGED <<housePlayEquity, lost>>

SetWithdrawFrozen(u, frozen) ==
  /\ SetUser(u, [users[u] EXCEPT !.withdrawFrozen = frozen])
  /\ UNCHANGED <<housePlayEquity, appliedKeys, effects, onchain, shortfall, lost>>

LockBet(u, a, k) ==
  /\ SafeAmount(a)
  /\ ~WasApplied(k)
  /\ CanLockBet(users[u], a)
  /\ SetUser(u, BetLocked(users[u], a))
  /\ MarkApplied(k)
  /\ UNCHANGED <<housePlayEquity, onchain, shortfall, lost>>

\* Fault: the house's side of the settlement is not booked.
SettleHandPlayerSideOnly(u, s, k) ==
  /\ ValidSettlement(s)
  /\ ~WasApplied(k)
  /\ CanSettle(users[u], s)
  /\ SetUser(u, HandSettled(users[u], s))
  /\ MarkApplied(k)
  /\ lost' = [lost EXCEPT ![u] = @ + s.bet - s.credit]
  /\ UNCHANGED <<housePlayEquity, onchain, shortfall>>

SettleHand(u, s, k) ==
  /\ ValidSettlement(s)
  /\ ~WasApplied(k)
  /\ CanSettle(users[u], s)
  /\ SetUser(u, HandSettled(users[u], s))
  /\ housePlayEquity' = housePlayEquity + s.houseDelta
  /\ MarkApplied(k)
  /\ lost' = [lost EXCEPT ![u] = @ + s.bet - s.credit]
  /\ UNCHANGED <<onchain, shortfall>>

\* Fault: the key is recorded before the checks, so a failed call burns it.
RequestWithdrawMarksFirst(u, a, k) ==
  /\ SafeAmount(a)
  /\ ~WasApplied(k)
  /\ appliedKeys' = appliedKeys \cup {k}
  /\ IF CanRequestWithdraw(users[u], a)
     THEN /\ SetUser(u, WithdrawLocked(users[u], a))
          /\ effects' = [effects EXCEPT ![k] = @ + 1]
     ELSE UNCHANGED <<users, effects>>
  /\ UNCHANGED <<housePlayEquity, onchain, shortfall, lost>>

RequestWithdraw(u, a, k) ==
  /\ SafeAmount(a)
  /\ ~WasApplied(k)
  /\ CanRequestWithdraw(users[u], a)
  /\ SetUser(u, WithdrawLocked(users[u], a))
  /\ MarkApplied(k)
  /\ UNCHANGED <<housePlayEquity, onchain, shortfall, lost>>

CancelWithdraw(u, a, k) ==
  /\ SafeAmount(a)
  /\ ~WasApplied(k)
  /\ CanReleaseWithdraw(users[u], a)
  /\ SetUser(u, WithdrawCancelled(users[u], a))
  /\ MarkApplied(k)
  /\ UNCHANGED <<housePlayEquity, onchain, shortfall, lost>>

CompleteWithdraw(u, a, k) ==
  /\ SafeAmount(a)
  /\ ~WasApplied(k)
  /\ CanReleaseWithdraw(users[u], a)
  /\ SetUser(u, WithdrawCompleted(users[u], a))
  /\ MarkApplied(k)
  /\ onchain' = [onchain EXCEPT ![u] = @ - a]
  /\ UNCHANGED <<housePlayEquity, shortfall, lost>>

KeyedStep(u, k) ==
  \/ \E a \in Amounts :
       \/ CreditDeposit(u, a, k)
       \/ ReverseDeposit(u, a, k)
       \/ LockBet(u, a, k)
       \/ RequestWithdraw(u, a, k)
       \/ CancelWithdraw(u, a, k)
       \/ CompleteWithdraw(u, a, k)
  \/ \E s \in Settlements : SettleHand(u, s, k)

Next ==
  \E u \in Users :
    \/ \E k \in Keys : KeyedStep(u, k)
    \/ \E frozen \in BOOLEAN : SetWithdrawFrozen(u, frozen)

Spec == Init /\ [][Next]_vars

-----------------------------------------------------------------------------
(***************************************************************************)
(* Properties                                                              *)
(***************************************************************************)

\* Each user's account accounts for every unit: what the platform owes the
\* user plus what the house has won from the user is what the user has on
\* chain, plus what a clamped reversal let the user keep (ledger.ts:165-190).
UserBooks ==
  \A u \in Users : LiabilityOf(users[u]) + lost[u] = onchain[u] + shortfall[u]

\* A key that is recorded as applied took effect exactly once, and a key whose
\* call failed is still free for a retry (ledger.ts:131-137).
ExactlyOnce ==
  \A k \in Keys : effects[k] = IF k \in appliedKeys THEN 1 ELSE 0

\* Hand locks and withdraw locks are never fungible (ledger.ts:14-17): the
\* withdraw lock only shrinks into available (cancel) or out of custody
\* (sent), by the same amount and without touching the hand lock.
WithdrawLockReleased(u) ==
  LET released == users[u].lockedWithdraw - users'[u].lockedWithdraw
  IN  released > 0 =>
        /\ users'[u].lockedHand = users[u].lockedHand
        /\ \/ users'[u].available = users[u].available + released
           \/ /\ onchain'[u] = onchain[u] - released
              /\ users'[u].available = users[u].available

LockSeparation == [][\A u \in Users : WithdrawLockReleased(u)]_vars

\* A reversal the user cannot cover leaves the user frozen, and while frozen
\* nothing new is locked for withdrawal (ledger.ts:165-190, 305-307).
FreezeKept(u) ==
  /\ shortfall'[u] > shortfall[u] => users'[u].withdrawFrozen
  /\ users[u].withdrawFrozen => users'[u].lockedWithdraw <= users[u].lockedWithdraw

FreezeHolds == [][\A u \in Users : FreezeKept(u)]_vars

\* The ledger implements the abstract book of claims.
Claims == [u \in Users |-> LiabilityOf(users[u])]

Book == INSTANCE HouseBook WITH
  claim <- Claims,
  house <- housePlayEquity,
  done <- appliedKeys

\* Liability moves only when money enters or leaves custody or a stake is
\* settled; locking and unlocking leave it unchanged (ledger.ts:208-211,
\* 289-292, 341-344).
ImplementsBook == Book!Spec
=============================================================================
