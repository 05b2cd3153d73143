---------------------------- MODULE CustodyStore ----------------------------
(***************************************************************************)
(* apps/web/src/lib/custody/user-store.ts: the in-memory store behind the  *)
(* real-money routes.  Each wallet owns a ledger with a single user, the   *)
(* wallet itself, so a wallet's ledger is one account and one set of       *)
(* applied keys.  Every operation runs to its end without an await; the    *)
(* services (DepositService, WithdrawService) call it from their last      *)
(* asynchronous step.                                                      *)
(***************************************************************************)
EXTENDS LedgerOps, Sequences, FiniteSetsExt, Functions

CONSTANTS
  Wallets,     \* wallet public keys; a user's id is the wallet
  Sigs,        \* transaction signatures
  ClientKeys,  \* idempotency keys clients send
  Horizon,     \* bound: last time at which a request may start
  DayLength    \* length of a UTC day, in model time

ASSUME StoreBounds == Horizon \in Nat /\ DayLength \in Nat \ {0}

VARIABLES
  accounts,      \* wallet -> the account in the wallet's ledger
  appliedKeys,   \* wallet -> appliedKeys of that ledger
  deposits,      \* depositsBySig: credited deposits
  withdrawals,   \* withdrawalsById, in order of id
  hotOutflow,    \* hotDailyOutflow: day -> amount sent
  lastRequest,   \* wallet -> lastWithdrawRequestedAtMs
  hasCompleted,  \* wallets with hasCompletedWithdraw
  now            \* Date.now()

storeVars == <<accounts, appliedKeys, deposits, withdrawals, hotOutflow,
               lastRequest, hasCompleted>>

NoTime == -1     \* a null timestamp

Statuses == {"pending", "approved", "sending", "sent", "cancelled"}
OpenStatuses == {"pending", "approved", "sending"}
Levels == {"auto", "manual", "dual_admin"}

\* utcDateKey
DayOf(t) == t \div DayLength
Today == DayOf(now)

StoreTypeOK ==
  /\ accounts \in [Wallets -> Account]
  /\ \A d \in deposits :
       d.wallet \in Wallets /\ SafeAmount(d.amount)
  /\ \A i \in DOMAIN withdrawals :
       LET r == withdrawals[i]
       IN  r.wallet \in Wallets /\ SafeAmount(r.amount) /\ r.status \in Statuses
           /\ r.level \in Levels /\ r.createdAt <= r.availableAt
  /\ \A w \in Wallets : lastRequest[w] \in Nat \cup {NoTime}
  /\ hasCompleted \subseteq Wallets
  /\ now \in Nat

\* A store nobody has used yet: root().
EmptyStore ==
  /\ accounts = [w \in Wallets |-> NewAccount]
  /\ appliedKeys = [w \in Wallets |-> {}]
  /\ deposits = {}
  /\ withdrawals = << >>
  /\ hotOutflow = << >>
  /\ lastRequest = [w \in Wallets |-> NoTime]
  /\ hasCompleted = {}

StoreInit == EmptyStore /\ now = 0

\* getHotDailyOutflow: a day nothing was sent on is not in the map.
OutflowOn(day) == IF day \in DOMAIN hotOutflow THEN hotOutflow[day] ELSE 0

-----------------------------------------------------------------------------
\* One ledger call that passes its checks: an applied key makes it a no-op.
LedgerApply(w, key, b) ==
  IF key \in appliedKeys[w]
  THEN UNCHANGED <<accounts, appliedKeys>>
  ELSE /\ accounts' = [accounts EXCEPT ![w] = b]
       /\ appliedKeys' = [appliedKeys EXCEPT ![w] = @ \cup {key}]

DepositKey(sig) == <<"deposit", sig>>
CancelKey(id) == <<"cancel", id>>
CompleteKey(id) == <<"complete", id>>

\* Fault: looked up under the idempotency key, stored under the signature.
IsDepositCreditedByKey(sig) == \E d \in deposits : d.sig = DepositKey(sig)

IsDepositCredited(sig) == \E d \in deposits : d.sig = sig

RecordDepositCredit(w, sig, a) ==
  IF IsDepositCredited(sig)
  THEN UNCHANGED storeVars
  ELSE /\ LedgerApply(w, DepositKey(sig), Deposited(accounts[w], a))
       /\ deposits' = deposits \cup {[sig |-> sig, wallet |-> w, amount |-> a]}
       /\ UNCHANGED <<withdrawals, hotOutflow, lastRequest, hasCompleted>>

\* The record createWithdrawal finds for an idempotency key, if there is one.
WithKey(key) == {i \in DOMAIN withdrawals : withdrawals[i].key = key}

\* createWithdrawal does not throw: the key is known, or the ledger accepts.
CanCreateWithdrawal(w, a, key) ==
  \/ WithKey(key) # {}
  \/ key \in appliedKeys[w]
  \/ CanRequestWithdraw(accounts[w], a)

\* Fault: only the ledger knows the key, the row is added on every retry.
CreateWithdrawalWithoutLookup(w, a, level, availableAt, key) ==
  /\ LedgerApply(w, key, WithdrawLocked(accounts[w], a))
  /\ lastRequest' = [lastRequest EXCEPT ![w] = now]
  /\ withdrawals' = Append(withdrawals,
       [wallet |-> w, amount |-> a, status |-> "pending", level |-> level,
        availableAt |-> availableAt, createdAt |-> now, key |-> key])
  /\ UNCHANGED <<deposits, hotOutflow, hasCompleted>>

CreateWithdrawal(w, a, level, availableAt, key) ==
  IF WithKey(key) # {}
  THEN UNCHANGED storeVars
  ELSE /\ LedgerApply(w, key, WithdrawLocked(accounts[w], a))
       /\ lastRequest' = [lastRequest EXCEPT ![w] = now]
       /\ withdrawals' = Append(withdrawals,
            [wallet |-> w, amount |-> a, status |-> "pending", level |-> level,
             availableAt |-> availableAt, createdAt |-> now, key |-> key])
       /\ UNCHANGED <<deposits, hotOutflow, hasCompleted>>

SetStatus(id, status) ==
  withdrawals' = [withdrawals EXCEPT ![id].status = status]

\* Fault: the status is not looked at, the ledger's lock check has to do.
CancelUserWithdrawalAnyStatus(w, id) ==
  LET r == withdrawals[id]
  IN  /\ r.wallet = w
      /\ CancelKey(id) \in appliedKeys[w] \/ CanReleaseWithdraw(accounts[w], r.amount)
      /\ LedgerApply(w, CancelKey(id), WithdrawCancelled(accounts[w], r.amount))
      /\ SetStatus(id, "cancelled")
      /\ UNCHANGED <<deposits, hotOutflow, lastRequest, hasCompleted>>

CancelUserWithdrawal(w, id) ==
  LET r == withdrawals[id]
  IN  /\ r.wallet = w
      /\ r.status = "pending"
      /\ CancelKey(id) \in appliedKeys[w] \/ CanReleaseWithdraw(accounts[w], r.amount)
      /\ LedgerApply(w, CancelKey(id), WithdrawCancelled(accounts[w], r.amount))
      /\ SetStatus(id, "cancelled")
      /\ UNCHANGED <<deposits, hotOutflow, lastRequest, hasCompleted>>

MarkWithdrawalSent(id) ==
  LET r == withdrawals[id]
      w == r.wallet
  IN  /\ r.status # "sent"
      /\ CompleteKey(id) \in appliedKeys[w] \/ CanReleaseWithdraw(accounts[w], r.amount)
      /\ LedgerApply(w, CompleteKey(id), WithdrawCompleted(accounts[w], r.amount))
      /\ SetStatus(id, "sent")
      /\ hasCompleted' = hasCompleted \cup {w}
      /\ hotOutflow' = [d \in DOMAIN hotOutflow \cup {Today} |->
                          OutflowOn(d) + (IF d = Today THEN r.amount ELSE 0)]
      /\ UNCHANGED <<deposits, lastRequest>>

-----------------------------------------------------------------------------
AmountOf == [id \in DOMAIN withdrawals |-> withdrawals[id].amount]
AmountIn == [d \in deposits |-> d.amount]

DepositsOf(w) == {d \in deposits : d.wallet = w}

WithdrawalsOf(w, statuses) ==
  {i \in DOMAIN withdrawals :
     withdrawals[i].wallet = w /\ withdrawals[i].status \in statuses}

\* A wallet's withdraw lock is exactly its open withdrawals: no request, retry,
\* cancellation or send leaves a lock without a row or a row without a lock
\* (docs/design/catesino-design-v0.2.2.md:914).
LocksMatchOpenWithdrawals ==
  \A w \in Wallets :
    accounts[w].lockedWithdraw = SumFunctionOnSet(AmountOf, WithdrawalsOf(w, OpenStatuses))

\* What the platform owes a wallet is what was credited less what was sent: the
\* records and the ledger tell the same story (user-store.ts:115-143, 248-264).
AccountExplainedByRecords ==
  \A w \in Wallets :
    LiabilityOf(accounts[w]) =
      SumFunctionOnSet(AmountIn, DepositsOf(w))
        - SumFunctionOnSet(AmountOf, WithdrawalsOf(w, {"sent"}))

\* One idempotency key never queues two withdrawals, also when its retries are
\* in flight together (user-store.ts:181-186).
OneWithdrawalPerKey ==
  \A i, j \in DOMAIN withdrawals : withdrawals[i].key = withdrawals[j].key => i = j
=============================================================================
