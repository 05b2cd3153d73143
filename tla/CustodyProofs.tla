---------------------------- MODULE CustodyProofs ----------------------------
(***************************************************************************)
(* Proofs about Custody, for any wallets, signatures, handlers, amounts    *)
(* and limits, any number of requests in flight, any transactions and any  *)
(* behaviour of the two RPC nodes.                                         *)
(*                                                                         *)
(* The inductive invariant of the first part types the store and the locals *)
(* of the handlers, and says two things about idempotency keys: no two     *)
(* withdrawals share one, and a request's key that the ledger has applied  *)
(* has a withdrawal.  Without the second a retry could queue a row the     *)
(* ledger never locked for, frozen account or not.  The second part is     *)
(* about claims: what is credited, once, and on what evidence.  The third  *)
(* is the books of the store: rows, deposits and accounts, which are kept  *)
(* apart and changed together.  The last is about a request that runs      *)
(* alone, and so decides on what still holds.                              *)
(***************************************************************************)
EXTENDS Custody, LedgerOpsProofs, SumProofs, FiniteSetTheorems

RequestKeys == {RequestKey(w, ck) : w \in Wallets, ck \in ClientKeys}

Row == [wallet: Wallets, amount: Amounts, status: Statuses, level: Levels,
        availableAt: Nat, createdAt: Nat, key: RequestKeys]

RowsOK ==
  /\ withdrawals \in Seq(Row)
  /\ \A i \in DOMAIN withdrawals : withdrawals[i].createdAt <= withdrawals[i].availableAt
  /\ OneWithdrawalPerKey

LedgersOK ==
  /\ accounts \in [Wallets -> Account]
  /\ DOMAIN appliedKeys = Wallets
  /\ \A w \in Wallets, k \in RequestKeys : k \in appliedKeys[w] => WithKey(k) # {}

StoreInv ==
  /\ RowsOK
  /\ LedgersOK
  /\ \A d \in deposits : d.wallet \in Wallets /\ SafeAmount(d.amount)
  /\ lastRequest \in [Wallets -> Nat \cup {NoTime}]
  /\ hasCompleted \subseteq Wallets
  /\ now \in Nat

Snapshot == [active: {TRUE}, wallet: Wallets, amount: Amounts, key: RequestKeys,
             available: Nat, frozen: BOOLEAN, hasPrior: BOOLEAN, last: Nat \cup {NoTime}]

ClaimLocals == [step: Nat, wallet: Wallets, sig: Sigs,
                tx: [Nodes -> {"absent", "failed", "landed"}], confirmed: [Nodes -> BOOLEAN]]

HandlersOK ==
  /\ requests \in [Requests -> {Resting} \cup Snapshot]
  /\ claims \in [Claims -> ClaimLocals]

CustodyInv == StoreInv /\ HandlersOK

(***************************************************************************)
(* Keys of different kinds differ.                                         *)
(***************************************************************************)
LEMMA KeyKindsDiffer ==
  ASSUME NEW k \in RequestKeys, NEW x
  PROVE  k # DepositKey(x) /\ k # CancelKey(x) /\ k # CompleteKey(x)
<1>1. PICK w \in Wallets, ck \in ClientKeys : k = <<"request", w, ck>>
  BY DEF RequestKeys, RequestKey
<1>2. Len(k) = 3 /\ Len(DepositKey(x)) = 2 /\ Len(CancelKey(x)) = 2 /\ Len(CompleteKey(x)) = 2
  BY <1>1 DEF DepositKey, CancelKey, CompleteKey
<1> QED  BY <1>2

\* A call to the ledger under a key that is no request's.
LEMMA OtherLedgerCall ==
  ASSUME LedgersOK, NEW w \in Wallets, NEW key, key \notin RequestKeys, NEW b,
         key \notin appliedKeys[w] => b \in Account,
         LedgerApply(w, key, b),
         \A k \in RequestKeys : WithKey(k) # {} => WithKey(k)' # {}
  PROVE  LedgersOK'
<1>1. CASE key \in appliedKeys[w]
  BY <1>1 DEF LedgersOK, LedgerApply
<1>2. CASE key \notin appliedKeys[w]
  <2>1. /\ accounts' = [accounts EXCEPT ![w] = b]
        /\ appliedKeys' = [appliedKeys EXCEPT ![w] = @ \cup {key}]
        /\ b \in Account
    BY <1>2 DEF LedgerApply
  <2>2. accounts' \in [Wallets -> Account] /\ DOMAIN appliedKeys' = Wallets
    BY <2>1 DEF LedgersOK
  <2>3. ASSUME NEW v \in Wallets, NEW k \in RequestKeys, k \in appliedKeys'[v]
        PROVE  WithKey(k)' # {}
    <3>1. k \in appliedKeys[v]
      BY <2>1, <2>3 DEF LedgersOK
    <3> QED  BY <3>1 DEF LedgersOK
  <2> QED  BY <2>2, <2>3 DEF LedgersOK
<1> QED  BY <1>1, <1>2

\* A new status changes no key and no time of a row.
LEMMA StatusStep ==
  ASSUME RowsOK, NEW id \in DOMAIN withdrawals, NEW status \in Statuses, SetStatus(id, status)
  PROVE  /\ RowsOK'
         /\ DOMAIN withdrawals' = DOMAIN withdrawals
         /\ \A k : WithKey(k)' = WithKey(k)
<1>1. withdrawals[id] \in Row /\ DOMAIN withdrawals = 1..Len(withdrawals)
  BY DEF RowsOK
<1>2. [withdrawals[id] EXCEPT !.status = status] \in Row
  BY <1>1 DEF Row
<1>3. withdrawals' = [withdrawals EXCEPT ![id] = [withdrawals[id] EXCEPT !.status = status]]
  BY DEF SetStatus
<1>4. withdrawals' \in Seq(Row) /\ DOMAIN withdrawals' = DOMAIN withdrawals
  BY <1>2, <1>3 DEF RowsOK
<1>5. \A i \in DOMAIN withdrawals :
         /\ withdrawals'[i].key = withdrawals[i].key
         /\ withdrawals'[i].createdAt = withdrawals[i].createdAt
         /\ withdrawals'[i].availableAt = withdrawals[i].availableAt
  BY <1>1, <1>3 DEF Row, RowsOK
<1> QED  BY <1>4, <1>5 DEF RowsOK, OneWithdrawalPerKey, WithKey

(***************************************************************************)
(* The operations of the store.                                            *)
(***************************************************************************)
LEMMA DepositStoreStep ==
  ASSUME StoreInv, now' = now, NEW w \in Wallets, NEW sig, NEW a, SafeAmount(a),
         RecordDepositCredit(w, sig, a)
  PROVE  StoreInv'
<1>1. CASE IsDepositCredited(sig)
  <2>1. UNCHANGED <<accounts, appliedKeys, deposits, withdrawals, hotOutflow, lastRequest, hasCompleted>>
    BY <1>1 DEF RecordDepositCredit, storeVars
  <2> QED  BY <2>1 DEF StoreInv, RowsOK, LedgersOK, OneWithdrawalPerKey, WithKey
<1>2. CASE ~IsDepositCredited(sig)
  <2>1. /\ LedgerApply(w, DepositKey(sig), Deposited(accounts[w], a))
        /\ deposits' = deposits \cup {[sig |-> sig, wallet |-> w, amount |-> a]}
        /\ UNCHANGED <<withdrawals, hotOutflow, lastRequest, hasCompleted>>
    BY <1>2 DEF RecordDepositCredit
  <2>2. RowsOK' /\ \A k : WithKey(k)' = WithKey(k)
    BY <2>1 DEF StoreInv, RowsOK, OneWithdrawalPerKey, WithKey
  <2>3. DepositKey(sig) \notin RequestKeys
    BY KeyKindsDiffer
  <2>4. Deposited(accounts[w], a) \in Account
    BY AccountsStayAccounts DEF StoreInv, LedgersOK, SafeAmount
  <2>5. LedgersOK'
    BY <2>1, <2>2, <2>3, <2>4, OtherLedgerCall DEF StoreInv
  <2>6. \A d \in deposits' : d.wallet \in Wallets /\ SafeAmount(d.amount)
    BY <2>1 DEF StoreInv
  <2> QED  BY <2>1, <2>2, <2>5, <2>6 DEF StoreInv
<1> QED  BY <1>1, <1>2

\* The row createWithdrawal adds.
NewRow(w, a, level, availableAt, key) ==
  [wallet |-> w, amount |-> a, status |-> "pending", level |-> level,
   availableAt |-> availableAt, createdAt |-> now, key |-> key]

LEMMA RowsGrow ==
  ASSUME RowsOK, now \in Nat, NEW w \in Wallets, NEW a \in Amounts, NEW level \in Levels,
         NEW availableAt \in Nat, now <= availableAt, NEW key \in RequestKeys, WithKey(key) = {},
         withdrawals' = Append(withdrawals, NewRow(w, a, level, availableAt, key))
  PROVE  RowsOK' /\ WithKey(key)' # {} /\ \A k : WithKey(k) # {} => WithKey(k)' # {}
<1> DEFINE row == NewRow(w, a, level, availableAt, key)
           n == Len(withdrawals)
<1>1. row \in Row /\ row.key = key /\ row.createdAt <= row.availableAt
  BY DEF NewRow, Row, Statuses
<1> HIDE DEF row
<1>2. /\ n \in Nat /\ DOMAIN withdrawals = 1..n
      /\ withdrawals' \in Seq(Row) /\ DOMAIN withdrawals' = 1..(n + 1)
      /\ withdrawals'[n + 1] = row
      /\ \A i \in 1..n : withdrawals'[i] = withdrawals[i]
  BY <1>1 DEF RowsOK, row
<1> HIDE DEF n
<1>3. \A i \in 1..n : withdrawals[i].key # key
  BY <1>2 DEF WithKey
<1>4. \A i \in 1..(n + 1) : i \in 1..n \/ i = n + 1
  BY <1>2
<1>5. OneWithdrawalPerKey'
  BY <1>1, <1>2, <1>3, <1>4 DEF RowsOK, OneWithdrawalPerKey
<1>6. \A i \in DOMAIN withdrawals' : withdrawals'[i].createdAt <= withdrawals'[i].availableAt
  BY <1>1, <1>2, <1>4 DEF RowsOK
<1>7. n + 1 \in WithKey(key)'
  BY <1>1, <1>2 DEF WithKey
<1>8. ASSUME NEW k, NEW i \in WithKey(k)
      PROVE  i \in WithKey(k)'
  BY <1>2, <1>8 DEF WithKey
<1> QED  BY <1>2, <1>5, <1>6, <1>7, <1>8 DEF RowsOK

LEMMA CreateStoreStep ==
  ASSUME StoreInv, now' = now, NEW w \in Wallets, NEW a \in Amounts, NEW level \in Levels,
         NEW availableAt \in Nat, now <= availableAt, NEW key \in RequestKeys,
         CanCreateWithdrawal(w, a, key), CreateWithdrawal(w, a, level, availableAt, key)
  PROVE  StoreInv'
<1>1. CASE WithKey(key) # {}
  <2>1. UNCHANGED <<accounts, appliedKeys, deposits, withdrawals, hotOutflow, lastRequest, hasCompleted>>
    BY <1>1 DEF CreateWithdrawal, storeVars
  <2> QED  BY <2>1 DEF StoreInv, RowsOK, LedgersOK, OneWithdrawalPerKey, WithKey
<1>2. CASE WithKey(key) = {}
  <2>1. /\ LedgerApply(w, key, WithdrawLocked(accounts[w], a))
        /\ lastRequest' = [lastRequest EXCEPT ![w] = now]
        /\ withdrawals' = Append(withdrawals, NewRow(w, a, level, availableAt, key))
        /\ UNCHANGED <<deposits, hotOutflow, hasCompleted>>
    BY <1>2 DEF CreateWithdrawal, NewRow
  <2>2. key \notin appliedKeys[w]
    BY <1>2 DEF StoreInv, LedgersOK
  <2>3. CanRequestWithdraw(accounts[w], a)
    BY <1>2, <2>2 DEF CanCreateWithdrawal
  <2>4. accounts[w] \in Account /\ a \in Nat
    BY WithdrawPolicy DEF StoreInv, LedgersOK, SafeAmount
  <2>5. WithdrawLocked(accounts[w], a) \in Account
    BY <2>3, <2>4, AccountsStayAccounts
  <2>6. /\ accounts' = [accounts EXCEPT ![w] = WithdrawLocked(accounts[w], a)]
        /\ appliedKeys' = [appliedKeys EXCEPT ![w] = @ \cup {key}]
    BY <2>1, <2>2 DEF LedgerApply
  <2>7. RowsOK' /\ WithKey(key)' # {} /\ \A k : WithKey(k) # {} => WithKey(k)' # {}
    BY <1>2, <2>1, RowsGrow DEF StoreInv
  <2>8. accounts' \in [Wallets -> Account] /\ DOMAIN appliedKeys' = Wallets
    BY <2>5, <2>6 DEF StoreInv, LedgersOK
  <2>9. ASSUME NEW v \in Wallets, NEW k \in RequestKeys, k \in appliedKeys'[v]
        PROVE  WithKey(k)' # {}
    <3>1. k \in appliedKeys[v] \/ k = key
      BY <2>6, <2>9 DEF StoreInv, LedgersOK
    <3> QED  BY <2>7, <3>1 DEF StoreInv, LedgersOK
  <2> QED  BY <2>1, <2>7, <2>8, <2>9 DEF StoreInv, LedgersOK
<1> QED  BY <1>1, <1>2

LEMMA CancelStoreStep ==
  ASSUME StoreInv, now' = now, NEW w \in Wallets, NEW id \in DOMAIN withdrawals,
         CancelUserWithdrawal(w, id)
  PROVE  StoreInv'
<1> DEFINE a == withdrawals[id].amount
<1>1. /\ CancelKey(id) \in appliedKeys[w] \/ CanReleaseWithdraw(accounts[w], a)
      /\ LedgerApply(w, CancelKey(id), WithdrawCancelled(accounts[w], a))
      /\ SetStatus(id, "cancelled")
      /\ UNCHANGED <<deposits, hotOutflow, lastRequest, hasCompleted>>
  BY DEF CancelUserWithdrawal
<1>2. withdrawals[id] \in Row
  BY DEF StoreInv, RowsOK
<1>3. a \in Nat /\ accounts[w] \in Account
  BY <1>2, WithdrawPolicy DEF StoreInv, LedgersOK, Row, SafeAmount
<1>4. CancelKey(id) \notin appliedKeys[w] => WithdrawCancelled(accounts[w], a) \in Account
  BY <1>1, <1>3, AccountsStayAccounts
<1>5. RowsOK' /\ \A k : WithKey(k)' = WithKey(k)
  BY <1>1, StatusStep DEF StoreInv, Statuses
<1>6. CancelKey(id) \notin RequestKeys
  BY KeyKindsDiffer
<1> HIDE DEF a
<1>7. LedgersOK'
  BY <1>1, <1>4, <1>5, <1>6, OtherLedgerCall DEF StoreInv
<1> QED  BY <1>1, <1>5, <1>7 DEF StoreInv

LEMMA SentStoreStep ==
  ASSUME StoreInv, now' = now, NEW id \in DOMAIN withdrawals, MarkWithdrawalSent(id)
  PROVE  StoreInv'
<1> DEFINE a == withdrawals[id].amount
           w == withdrawals[id].wallet
<1>1. /\ CompleteKey(id) \in appliedKeys[w] \/ CanReleaseWithdraw(accounts[w], a)
      /\ LedgerApply(w, CompleteKey(id), WithdrawCompleted(accounts[w], a))
      /\ SetStatus(id, "sent")
      /\ hasCompleted' = hasCompleted \cup {w}
      /\ UNCHANGED <<deposits, lastRequest>>
  BY DEF MarkWithdrawalSent
<1>2. withdrawals[id] \in Row
  BY DEF StoreInv, RowsOK
<1>3. w \in Wallets /\ a \in Amounts
  BY <1>2 DEF Row
<1> HIDE DEF a, w
<1>4. a \in Nat /\ accounts[w] \in Account
  BY <1>3, WithdrawPolicy DEF StoreInv, LedgersOK, SafeAmount
<1>5. CompleteKey(id) \notin appliedKeys[w] => WithdrawCompleted(accounts[w], a) \in Account
  BY <1>1, <1>4, AccountsStayAccounts
<1>6. RowsOK' /\ \A k : WithKey(k)' = WithKey(k)
  BY <1>1, StatusStep DEF StoreInv, Statuses
<1>7. CompleteKey(id) \notin RequestKeys
  BY KeyKindsDiffer
<1>8. LedgersOK'
  BY <1>1, <1>3, <1>5, <1>6, <1>7, OtherLedgerCall DEF StoreInv
<1> QED  BY <1>1, <1>3, <1>6, <1>8 DEF StoreInv

\* A step that leaves the store alone; the clock may move on.
LEMMA StoreIdle ==
  ASSUME StoreInv, UNCHANGED storeVars, now' \in Nat
  PROVE  StoreInv'
<1>1. UNCHANGED <<accounts, appliedKeys, deposits, withdrawals, lastRequest, hasCompleted>>
  BY DEF storeVars
<1> QED  BY <1>1 DEF StoreInv, RowsOK, LedgersOK, OneWithdrawalPerKey, WithKey

\* A store nobody has used is in order, and so is one with a deposit per wallet.
LEMMA FreshStore ==
  ASSUME accounts \in [Wallets -> Account], DOMAIN appliedKeys = Wallets,
         \A w \in Wallets, k \in RequestKeys : k \notin appliedKeys[w],
         \A d \in deposits : d.wallet \in Wallets /\ SafeAmount(d.amount),
         withdrawals = << >>, lastRequest = [w \in Wallets |-> NoTime],
         hasCompleted = {}, now \in Nat
  PROVE  StoreInv
<1>1. DOMAIN withdrawals = {} /\ withdrawals \in Seq(Row)
  OBVIOUS
<1> QED  BY <1>1 DEF StoreInv, RowsOK, LedgersOK, OneWithdrawalPerKey

LEMMA InitEstablishes == Init => CustodyInv
<1> SUFFICES ASSUME Init PROVE CustodyInv
  OBVIOUS
<1>1. NewAccount \in Account /\ now \in Nat
  BY DEF NewAccount, Account, Init
<1>2. StoreInv
  <2>1. CASE InitialFunds = 0
    <3>1. EmptyStore
      BY <2>1 DEF Init
    <3> QED  BY <1>1, <3>1, FreshStore DEF EmptyStore
  <2>2. CASE InitialFunds # 0
    <3>1. FundedStore
      BY <2>2 DEF Init
    <3>2. InitialFunds \in Nat /\ SafeAmount(InitialFunds)
      BY <2>2, CustodyBounds, LedgerLimits DEF SafeAmount
    <3>3. accounts \in [Wallets -> Account]
      BY <1>1, <3>1, <3>2, AccountsStayAccounts DEF FundedStore
    <3>4. \A w \in Wallets, k \in RequestKeys : k \notin appliedKeys[w]
      BY <3>1, KeyKindsDiffer DEF FundedStore
    <3>5. \A d \in deposits : d.wallet \in Wallets /\ SafeAmount(d.amount)
      BY <3>1, <3>2 DEF FundedStore
    <3> QED  BY <1>1, <3>1, <3>3, <3>4, <3>5, FreshStore DEF FundedStore
  <2> QED  BY <2>1, <2>2
<1>3. requests \in [Requests -> {Resting} \cup Snapshot]
  BY DEF Init, WithdrawInit
<1>4. \A w \in Wallets, s \in Sigs : Idle(w, s) \in ClaimLocals
  BY DEF Idle, ClaimLocals
<1>5. claims \in [Claims -> ClaimLocals]
  BY <1>4 DEF Init, DepositInit
<1> QED  BY <1>2, <1>3, <1>5 DEF CustodyInv, HandlersOK

(***************************************************************************)
(* The steps of deposit claims.                                            *)
(***************************************************************************)
\* The answer of a node changes no local that says who claims what.
LEMMA AnsweredKeeps ==
  ASSUME NEW c \in ClaimLocals
  PROVE  /\ Answered(c) \in ClaimLocals
         /\ Answered(c).wallet = c.wallet
         /\ Answered(c).sig = c.sig
<1> DEFINE node == RpcCalls[c.step][1]
           view == chain[node][c.sig]
           seen == IF view \in {"absent", "failed"} THEN view ELSE "landed"
<1>1. CASE RpcCalls[c.step][2] = "tx"
  <2>1. Answered(c) = [c EXCEPT !.tx = [c.tx EXCEPT ![node] = seen]]
    BY <1>1 DEF Answered, ClaimLocals
  <2>2. seen \in {"absent", "failed", "landed"}
    OBVIOUS
  <2> HIDE DEF seen, node
  <2>3. [c.tx EXCEPT ![node] = seen] \in [Nodes -> {"absent", "failed", "landed"}]
    BY <2>2 DEF ClaimLocals
  <2> QED  BY <2>1, <2>3 DEF ClaimLocals
<1>2. CASE ~(RpcCalls[c.step][2] = "tx")
  <2>1. Answered(c) = [c EXCEPT !.confirmed = [c.confirmed EXCEPT ![node] = view = "final"]]
    BY <1>2 DEF Answered, ClaimLocals
  <2>2. (view = "final") \in BOOLEAN
    OBVIOUS
  <2> HIDE DEF view, node
  <2>3. [c.confirmed EXCEPT ![node] = view = "final"] \in [Nodes -> BOOLEAN]
    BY <2>2, Zenon DEF ClaimLocals
  <2> QED  BY <2>1, <2>3 DEF ClaimLocals
<1> QED  BY <1>1, <1>2

\* Ending a claim leaves the locals of an idle handler.
LEMMA FinishKeeps ==
  ASSUME claims \in [Claims -> ClaimLocals], NEW p \in Claims, NEW reply, Finish(p, reply)
  PROVE  claims' \in [Claims -> ClaimLocals]
<1>1. Idle(claims[p].wallet, claims[p].sig) \in ClaimLocals
  BY DEF Idle, ClaimLocals
<1> QED  BY <1>1 DEF Finish

LEMMA RpcAnswersKeeps ==
  ASSUME CustodyInv, NEW p \in Claims, RpcAnswers(p), UNCHANGED withdrawVars
  PROVE  CustodyInv'
<1> DEFINE c == Answered(claims[p])
<1>1. /\ c \in ClaimLocals /\ c.wallet = claims[p].wallet /\ c.sig = claims[p].sig
      /\ claims \in [Claims -> ClaimLocals]
  BY AnsweredKeeps DEF CustodyInv, HandlersOK
<1>2. now' = now /\ requests' = requests /\ StoreInv /\ now \in Nat
  BY DEF RpcAnswers, withdrawVars, CustodyInv, StoreInv
<1>3. \/ KeepFetching(p, c)
      \/ ClaimAccepted(c.wallet, c.sig, c.tx["primary"] = "landed",
            IF c.step = FirstLookDone THEN c.confirmed["primary"] ELSE AllConfirmed(c))
           /\ CreditAndFinish(p, c)
      \/ \E reply \in {"error", "rejected"} : Refuse(p, reply)
  BY DEF RpcAnswers
<1> HIDE DEF c
<1>4. CASE KeepFetching(p, c)
  <2>1. StoreInv'
    BY <1>2, <1>4, StoreIdle DEF KeepFetching
  <2>2. [c EXCEPT !.step = @ + 1] \in ClaimLocals
    BY <1>1 DEF ClaimLocals
  <2>3. claims' \in [Claims -> ClaimLocals]
    BY <1>1, <1>4, <2>2 DEF KeepFetching
  <2> QED  BY <1>2, <2>1, <2>3 DEF CustodyInv, HandlersOK
<1>5. CASE /\ ClaimAccepted(c.wallet, c.sig, c.tx["primary"] = "landed",
                 IF c.step = FirstLookDone THEN c.confirmed["primary"] ELSE AllConfirmed(c))
           /\ CreditAndFinish(p, c)
  <2>1. SafeAmount(ClaimTotal(c.wallet, c.sig)) /\ c.wallet \in Wallets
    BY <1>1, <1>5 DEF ClaimAccepted, ClaimLocals
  <2>2. StoreInv'
    BY <1>2, <1>5, <2>1, DepositStoreStep DEF CreditAndFinish
  <2>3. claims' \in [Claims -> ClaimLocals]
    BY <1>1, <1>5, FinishKeeps DEF CreditAndFinish
  <2> QED  BY <1>2, <2>2, <2>3 DEF CustodyInv, HandlersOK
<1>6. CASE \E reply \in {"error", "rejected"} : Refuse(p, reply)
  <2>1. StoreInv'
    BY <1>2, <1>6, StoreIdle DEF Refuse
  <2>2. claims' \in [Claims -> ClaimLocals]
    BY <1>1, <1>6, FinishKeeps DEF Refuse
  <2> QED  BY <1>2, <2>1, <2>2 DEF CustodyInv, HandlersOK
<1> QED  BY <1>3, <1>4, <1>5, <1>6

LEMMA DepositKeeps == CustodyInv /\ Deposit => CustodyInv'
<1> SUFFICES ASSUME CustodyInv, DepositStep, UNCHANGED withdrawVars
             PROVE  CustodyInv'
  BY DEF Deposit
<1>1. requests' = requests /\ StoreInv /\ now \in Nat /\ claims \in [Claims -> ClaimLocals]
  BY DEF withdrawVars, CustodyInv, StoreInv, HandlersOK
<1>2. ASSUME NEW p \in Claims, NEW w \in Wallets, NEW sig \in Sigs, StartClaim(p, w, sig)
      PROVE  CustodyInv'
  <2>1. StoreInv'
    BY <1>1, <1>2, StoreIdle DEF StartClaim
  <2>2. [Idle(w, sig) EXCEPT !.step = 1] \in ClaimLocals
    BY DEF Idle, ClaimLocals
  <2>3. claims' \in [Claims -> ClaimLocals]
    BY <1>1, <1>2, <2>2 DEF StartClaim
  <2> QED  BY <1>1, <2>1, <2>3 DEF CustodyInv, HandlersOK
<1>3. ASSUME NEW p \in Claims, RpcAnswers(p)
      PROVE  CustodyInv'
  BY <1>3, RpcAnswersKeeps
<1>4. ASSUME NEW p \in Claims, RpcFails(p)
      PROVE  CustodyInv'
  <2>1. StoreInv'
    BY <1>1, <1>4, StoreIdle DEF RpcFails, Refuse
  <2>2. claims' \in [Claims -> ClaimLocals]
    BY <1>1, <1>4, FinishKeeps DEF RpcFails, Refuse
  <2> QED  BY <1>1, <2>1, <2>2 DEF CustodyInv, HandlersOK
<1>5. ASSUME NEW n \in Nodes, NEW sig \in Sigs, ChainMoves(n, sig)
      PROVE  CustodyInv'
  <2>1. StoreInv' /\ claims' = claims
    BY <1>1, <1>5, StoreIdle DEF ChainMoves
  <2> QED  BY <1>1, <2>1 DEF CustodyInv, HandlersOK
<1> QED  BY <1>2, <1>3, <1>4, <1>5 DEF DepositStep

(***************************************************************************)
(* The steps of withdrawals.                                               *)
(***************************************************************************)
\* Admins and worker move a row from status to status.
LEMMA StatusStoreStep ==
  ASSUME StoreInv, NEW id \in DOMAIN withdrawals, NEW status \in Statuses,
         SetStatus(id, status), now' = now,
         UNCHANGED <<accounts, appliedKeys, deposits, hotOutflow, lastRequest, hasCompleted>>
  PROVE  StoreInv'
<1>1. RowsOK' /\ \A k : WithKey(k)' = WithKey(k)
  BY StatusStep DEF StoreInv
<1>2. LedgersOK'
  BY <1>1 DEF StoreInv, LedgersOK
<1> QED  BY <1>1, <1>2 DEF StoreInv

\* What a handler reads before its await has the types it decides on afterwards.
LEMMA StartRequestKeeps ==
  ASSUME CustodyInv, NEW p \in Requests, NEW w \in Wallets, NEW a \in Amounts,
         NEW ck \in ClientKeys, StartRequest(p, w, a, ck), claims' = claims
  PROVE  CustodyInv'
<1> DEFINE snapshot ==
      [active |-> TRUE, wallet |-> w, amount |-> a, key |-> RequestKey(w, ck),
       available |-> accounts[w].available, frozen |-> accounts[w].withdrawFrozen,
       hasPrior |-> w \in hasCompleted, last |-> lastRequest[w]]
<1>1. accounts[w] \in Account /\ lastRequest[w] \in Nat \cup {NoTime} /\ now \in Nat
  BY DEF CustodyInv, StoreInv, LedgersOK
<1>2. RequestKey(w, ck) \in RequestKeys
  BY DEF RequestKeys
<1>3. (w \in hasCompleted) \in BOOLEAN
  OBVIOUS
<1>4. snapshot \in Snapshot
  BY <1>1, <1>2, <1>3 DEF Snapshot, Account
<1>5. requests' = [requests EXCEPT ![p] = snapshot]
  BY DEF StartRequest
<1> HIDE DEF snapshot
<1>6. requests' \in [Requests -> {Resting} \cup Snapshot]
  BY <1>4, <1>5 DEF CustodyInv, HandlersOK
<1>7. StoreInv'
  BY <1>1, StoreIdle DEF StartRequest, CustodyInv
<1> QED  BY <1>6, <1>7 DEF CustodyInv, HandlersOK

\* A handler that ends leaves a resting one.
LEMMA EndRequestKeeps ==
  ASSUME HandlersOK, NEW p \in Requests, NEW reply, EndRequest(p, reply), claims' = claims
  PROVE  HandlersOK'
BY DEF HandlersOK, EndRequest

LEMMA FinishRequestKeeps ==
  ASSUME CustodyInv, NEW p \in Requests, NEW hot \in HotBalances, FinishRequest(p, hot),
         claims' = claims
  PROVE  CustodyInv'
<1> DEFINE r == requests[p]
<1>1. StoreInv /\ HandlersOK /\ now \in Nat /\ now' = now
  BY DEF CustodyInv, StoreInv, FinishRequest
<1>2. r \in Snapshot
  <2>1. r.active /\ r \in {Resting} \cup Snapshot
    BY <1>1 DEF FinishRequest, HandlersOK
  <2> QED  BY <2>1 DEF Resting
<1>3. HandlersOK'
  BY <1>1, EndRequestKeeps DEF FinishRequest
<1>4. \/ /\ CanCreateWithdrawal(r.wallet, r.amount, r.key)
         /\ CreateWithdrawal(r.wallet, r.amount, LevelOf(r.amount), AvailableAt(r), r.key)
      \/ UNCHANGED storeVars
  BY DEF FinishRequest
<1> HIDE DEF r
<1>5. CASE /\ CanCreateWithdrawal(r.wallet, r.amount, r.key)
           /\ CreateWithdrawal(r.wallet, r.amount, LevelOf(r.amount), AvailableAt(r), r.key)
  <2>1. r.wallet \in Wallets /\ r.amount \in Amounts /\ r.key \in RequestKeys
    BY <1>2 DEF Snapshot
  <2>2. LevelOf(r.amount) \in Levels
    BY DEF LevelOf, Levels
  <2>3. AvailableAt(r) \in Nat /\ now <= AvailableAt(r)
    BY <1>1, WithdrawPolicy DEF AvailableAt
  <2>4. StoreInv'
    BY <1>1, <1>5, <2>1, <2>2, <2>3, CreateStoreStep
  <2> QED  BY <1>3, <2>4 DEF CustodyInv
<1>6. CASE UNCHANGED storeVars
  BY <1>1, <1>3, <1>6, StoreIdle DEF CustodyInv
<1> QED  BY <1>4, <1>5, <1>6

LEMMA WithdrawKeeps == CustodyInv /\ Withdraw => CustodyInv'
<1> SUFFICES ASSUME CustodyInv, WithdrawStep, claims' = claims
             PROVE  CustodyInv'
  BY DEF Withdraw, depositVars
<1>1. StoreInv /\ HandlersOK /\ now \in Nat
  BY DEF CustodyInv, StoreInv
<1>2. requests' = requests => HandlersOK'
  BY <1>1 DEF HandlersOK
<1>3. ASSUME NEW p \in Requests, NEW w \in Wallets, NEW a \in Amounts, NEW ck \in ClientKeys,
             StartRequest(p, w, a, ck)
      PROVE  CustodyInv'
  BY <1>3, StartRequestKeeps
<1>4. ASSUME NEW p \in Requests, NEW hot \in HotBalances, FinishRequest(p, hot)
      PROVE  CustodyInv'
  BY <1>4, FinishRequestKeeps
<1>5. ASSUME NEW p \in Requests, HotBalanceFails(p)
      PROVE  CustodyInv'
  BY <1>1, <1>5, StoreIdle, EndRequestKeeps DEF HotBalanceFails, CustodyInv
<1>6. ASSUME NEW id \in DOMAIN withdrawals, NEW w \in Wallets, UserCancels(w, id)
      PROVE  CustodyInv'
  <2>1. now' = now /\ requests' = requests /\ CancelUserWithdrawal(w, id)
    BY <1>6 DEF UserCancels, withdrawVars
  <2> QED  BY <1>1, <1>2, <2>1, CancelStoreStep DEF CustodyInv
<1>7. ASSUME NEW id \in DOMAIN withdrawals, NEW admin \in Admins, Review(id, admin)
      PROVE  CustodyInv'
  <2>1. UNCHANGED storeVars /\ now' = now /\ requests' = requests
    BY <1>7 DEF Review
  <2> QED  BY <1>1, <1>2, <2>1, StoreIdle DEF CustodyInv
<1>8. ASSUME NEW id \in DOMAIN withdrawals, Approve(id) \/ WorkerPicks(id)
      PROVE  CustodyInv'
  <2>1. PICK status \in Statuses : SetStatus(id, status)
    BY <1>8 DEF Approve, WorkerPicks, Statuses
  <2>2. /\ UNCHANGED <<accounts, appliedKeys, deposits, hotOutflow, lastRequest, hasCompleted>>
        /\ now' = now /\ requests' = requests
    BY <1>8 DEF Approve, WorkerPicks, withdrawVars
  <2> QED  BY <1>1, <1>2, <2>1, <2>2, StatusStoreStep DEF CustodyInv
<1>9. ASSUME NEW id \in DOMAIN withdrawals, WorkerConfirms(id)
      PROVE  CustodyInv'
  <2>1. now' = now /\ requests' = requests /\ MarkWithdrawalSent(id)
    BY <1>9 DEF WorkerConfirms, withdrawVars
  <2> QED  BY <1>1, <1>2, <2>1, SentStoreStep DEF CustodyInv
<1>10. ASSUME NEW w \in Freezable, NEW frozen \in BOOLEAN, SupportFreezes(w, frozen)
       PROVE  CustodyInv'
  <2>1. /\ accounts' = [accounts EXCEPT ![w] = [accounts[w] EXCEPT !.withdrawFrozen = frozen]]
        /\ UNCHANGED <<appliedKeys, deposits, withdrawals, hotOutflow, lastRequest,
                       hasCompleted, now, requests>>
    BY <1>10 DEF SupportFreezes, withdrawVars
  <2>2. \A b \in Account : [b EXCEPT !.withdrawFrozen = frozen] \in Account
    BY DEF Account
  <2>3. accounts' \in [Wallets -> Account]
    BY <1>1, <2>1, <2>2 DEF StoreInv, LedgersOK
  <2>4. StoreInv'
    BY <1>1, <2>1, <2>3 DEF StoreInv, RowsOK, LedgersOK, OneWithdrawalPerKey, WithKey
  <2> QED  BY <1>2, <2>1, <2>4 DEF CustodyInv
<1>11. ASSUME Tick
       PROVE  CustodyInv'
  <2>1. UNCHANGED storeVars /\ now' \in Nat /\ requests' = requests
    BY <1>1, <1>11 DEF Tick, withdrawVars
  <2> QED  BY <1>1, <1>2, <2>1, StoreIdle DEF CustodyInv
<1> QED  BY <1>3, <1>4, <1>5, <1>6, <1>7, <1>8, <1>9, <1>10, <1>11 DEF WithdrawStep

(***************************************************************************)
(* A restart leaves an empty store and idle handlers.                      *)
(***************************************************************************)
LEMMA RestartKeeps == CustodyInv /\ Restart => CustodyInv'
<1> SUFFICES ASSUME CustodyInv, Restart PROVE CustodyInv'
  OBVIOUS
<1>1. accounts' \in [Wallets -> Account] /\ DOMAIN appliedKeys' = Wallets
  BY DEF Restart, LoseAccounts, NewAccount, Account
<1>2. /\ \A w \in Wallets, k \in RequestKeys : k \notin appliedKeys'[w]
      /\ lastRequest' \in [Wallets -> Nat \cup {NoTime}]
      /\ hasCompleted' = {}
  BY DEF Restart, LoseAccounts
<1>3. deposits' = {} /\ withdrawals' = << >> /\ now' \in Nat
  BY DEF Restart, LoseHandlers, CustodyInv, StoreInv
<1>4. withdrawals' \in Seq(Row) /\ DOMAIN withdrawals' = {}
  BY <1>3
<1>5. StoreInv'
  BY <1>1, <1>2, <1>3, <1>4 DEF StoreInv, RowsOK, LedgersOK, OneWithdrawalPerKey
<1>6. \A c \in ClaimLocals : Idle(c.wallet, c.sig) \in ClaimLocals
  BY DEF Idle, ClaimLocals
<1>7. claims' \in [Claims -> ClaimLocals]
  BY <1>6 DEF Restart, LoseHandlers, CustodyInv, HandlersOK
<1>8. requests' \in [Requests -> {Resting} \cup Snapshot]
  BY DEF Restart, LoseHandlers
<1> QED  BY <1>5, <1>7, <1>8 DEF CustodyInv, HandlersOK

LEMMA NextKeeps == CustodyInv /\ [Next]_vars => CustodyInv'
<1> SUFFICES ASSUME CustodyInv, [Next]_vars PROVE CustodyInv'
  OBVIOUS
<1>1. CASE UNCHANGED vars
  <2>1. UNCHANGED storeVars /\ now' = now /\ now \in Nat /\ claims' = claims /\ requests' = requests
    BY <1>1 DEF vars, depositVars, withdrawVars, CustodyInv, StoreInv
  <2> QED  BY <2>1, StoreIdle DEF CustodyInv, HandlersOK
<1> QED  BY <1>1, DepositKeeps, WithdrawKeeps, RestartKeeps DEF Next

LEMMA InvariantHolds == Spec => []CustodyInv
BY InitEstablishes, NextKeeps, PTL DEF Spec

-----------------------------------------------------------------------------
\* The store keeps its types through every interleaving of requests, claims,
\* cancellations, sends, freezes and restarts: no balance goes negative, and every
\* row and deposit names a wallet and an amount the ledger accepts (user-store.ts).
THEOREM CustodyTypeCorrect == Spec => []StoreTypeOK
<1>1. CustodyInv => StoreTypeOK
  <2> SUFFICES ASSUME StoreInv PROVE StoreTypeOK
    BY DEF CustodyInv
  <2>1. ASSUME NEW i \in DOMAIN withdrawals
        PROVE  LET r == withdrawals[i]
               IN  r.wallet \in Wallets /\ SafeAmount(r.amount) /\ r.status \in Statuses
                   /\ r.level \in Levels /\ r.createdAt <= r.availableAt
    <3>1. withdrawals[i] \in Row /\ withdrawals[i].createdAt <= withdrawals[i].availableAt
      BY DEF StoreInv, RowsOK
    <3> QED  BY <3>1, WithdrawPolicy DEF Row
  <2> QED  BY <2>1 DEF StoreInv, LedgersOK, StoreTypeOK
<1> QED  BY <1>1, InvariantHolds, PTL

\* createWithdrawal looks its key up and queues the row in one step, so however many
\* retries of a request are in flight, one row answers for the key
\* (user-store.ts:181-232).
THEOREM CustodyQueuesKeysOnce == Spec => []OneWithdrawalPerKey
<1>1. CustodyInv => OneWithdrawalPerKey
  BY DEF CustodyInv, StoreInv, RowsOK
<1> QED  BY <1>1, InvariantHolds, PTL

\* Only a request that ends in createWithdrawal queues a row.
LEMMA OthersQueueNothing ==
  ASSUME CustodyInv,
         \/ Deposit \/ Restart
         \/ \E id \in DOMAIN withdrawals, status \in Statuses : SetStatus(id, status)
         \/ withdrawals' = withdrawals
  PROVE  DOMAIN withdrawals' \subseteq DOMAIN withdrawals
<1>1. CASE Deposit
  <2>1. withdrawals' = withdrawals
    BY <1>1 DEF Deposit, DepositStep, StartClaim, RpcAnswers, KeepFetching, CreditAndFinish,
         RecordDepositCredit, Refuse, RpcFails, ChainMoves, storeVars
  <2> QED  BY <2>1
<1>2. CASE Restart
  <2>1. DOMAIN withdrawals' = {}
    BY <1>2 DEF Restart
  <2> QED  BY <2>1
<1>3. CASE \E id \in DOMAIN withdrawals, status \in Statuses : SetStatus(id, status)
  BY <1>3 DEF SetStatus
<1>4. CASE withdrawals' = withdrawals
  BY <1>4
<1> QED  BY <1>1, <1>2, <1>3, <1>4

\* createWithdrawal queues a row for an account that is not frozen at that moment.
LEMMA CreateChecksFreeze ==
  ASSUME StoreInv, NEW w \in Wallets, NEW a \in Amounts, NEW level, NEW availableAt,
         NEW key \in RequestKeys,
         CanCreateWithdrawal(w, a, key), CreateWithdrawal(w, a, level, availableAt, key),
         NEW id \in DOMAIN withdrawals', Queues(id)
  PROVE  ~accounts[withdrawals'[id].wallet].withdrawFrozen
<1> DEFINE row == NewRow(w, a, level, availableAt, key)
<1>1. WithKey(key) = {}
  BY DEF Queues, CreateWithdrawal, storeVars
<1>2. key \notin appliedKeys[w]
  BY <1>1 DEF StoreInv, LedgersOK
<1>3. ~accounts[w].withdrawFrozen
  BY <1>1, <1>2 DEF CanCreateWithdrawal, CanRequestWithdraw
<1>4. withdrawals' = Append(withdrawals, row) /\ row.wallet = w
  BY <1>1 DEF CreateWithdrawal, NewRow
<1> HIDE DEF row
<1>5. Len(withdrawals) \in Nat /\ DOMAIN withdrawals = 1..Len(withdrawals)
  BY DEF StoreInv, RowsOK
<1>6. id = Len(withdrawals) + 1 /\ withdrawals'[id] = row
  BY <1>4, <1>5 DEF Queues, StoreInv, RowsOK
<1> QED  BY <1>3, <1>4, <1>6

\* The step that queues a row is the end of a request.
LEMMA FinishQueues ==
  ASSUME CustodyInv, [Next]_vars, NEW id \in DOMAIN withdrawals', Queues(id)
  PROVE  \E p \in Requests, hot \in HotBalances : FinishRequest(p, hot)
<1>1. ~(DOMAIN withdrawals' \subseteq DOMAIN withdrawals)
  BY DEF Queues
<1>2. Withdraw
  BY <1>1, OthersQueueNothing DEF Next, vars, storeVars
<1>3. /\ withdrawals' # withdrawals
      /\ ~\E i \in DOMAIN withdrawals, status \in Statuses : SetStatus(i, status)
  BY <1>1, OthersQueueNothing
<1> QED  BY <1>2, <1>3 DEF Withdraw, WithdrawStep, StartRequest, HotBalanceFails, UserCancels,
           CancelUserWithdrawal, Review, Approve, WorkerPicks, WorkerConfirms,
           MarkWithdrawalSent, SupportFreezes, Tick, storeVars, Statuses

\* A step that queues a row queues it for an account that is not frozen.
LEMMA FreezeStep ==
  ASSUME CustodyInv, [Next]_vars, NEW id \in DOMAIN withdrawals', Queues(id)
  PROVE  ~accounts[withdrawals'[id].wallet].withdrawFrozen
<1>1. PICK p \in Requests, hot \in HotBalances : FinishRequest(p, hot)
  BY FinishQueues
<1> DEFINE r == requests[p]
<1>2. r \in Snapshot
  <2>1. r.active /\ r \in {Resting} \cup Snapshot
    BY <1>1 DEF FinishRequest, CustodyInv, HandlersOK
  <2> QED  BY <2>1 DEF Resting
<1>3. /\ CanCreateWithdrawal(r.wallet, r.amount, r.key)
      /\ CreateWithdrawal(r.wallet, r.amount, LevelOf(r.amount), AvailableAt(r), r.key)
  BY <1>1 DEF FinishRequest, Queues, storeVars
<1> HIDE DEF r
<1>4. r.wallet \in Wallets /\ r.amount \in Amounts /\ r.key \in RequestKeys
  BY <1>2 DEF Snapshot
<1> QED  BY <1>3, <1>4, CreateChecksFreeze DEF CustodyInv

\* The policy decides on the flag the handler read before its await; the ledger looks
\* again when the row is queued.  So a freeze holds for the requests in flight as
\* well, provided no key is applied without a row, which is what lets a call past
\* the ledger's check (withdraw-service.ts:94-149, ledger.ts:284-300).
THEOREM FreezeStopsRequestsInFlight == Spec => FrozenQueuesNothing
<1>1. CustodyInv /\ [Next]_vars =>
        [\A id \in DOMAIN withdrawals' :
           Queues(id) => ~accounts[withdrawals'[id].wallet].withdrawFrozen]_<<storeVars, now>>
  BY FreezeStep
<1> QED  BY <1>1, InvariantHolds, PTL DEF Spec, FrozenQueuesNothing

-----------------------------------------------------------------------------
(***************************************************************************)
(* Payouts: who approved what is sent, and how long the first one waits.   *)
(* A request judges the wait by whether the wallet had been paid when it   *)
(* was read, before the await; that flag can only become true meanwhile.   *)
(***************************************************************************)
Cleared == {"approved", "sending", "sent"}

\* A row r with its reviews s, as many and as different as its amount asks for.
RowReviewed(r, s) ==
  /\ r.level = LevelOf(r.amount)
  /\ \A i, j \in DOMAIN s : s[i] = s[j] => i = j
  /\ r.status \in Cleared => Len(s) = ReviewsNeeded(r.level)

\* A row of a wallet that was never paid waits; one that is being sent has waited.
RowWaits(r) ==
  /\ r.status = "sending" => now >= r.availableAt
  /\ r.wallet \in hasCompleted \/ r.availableAt >= r.createdAt + FirstCooldown

PayoutInv ==
  /\ reviews \in [DOMAIN withdrawals -> Seq(Admins)]
  /\ \A id \in DOMAIN withdrawals : RowReviewed(withdrawals[id], reviews[id]) /\ RowWaits(withdrawals[id])
  /\ \A p \in Requests : requests[p].active /\ requests[p].hasPrior => requests[p].wallet \in hasCompleted

\* Handlers that go on as they were, end, or begin on a flag that is true.
RequestsKept ==
  \A p \in Requests :
    \/ requests'[p] = requests[p] \/ requests'[p] = Resting
    \/ requests'[p].hasPrior => requests'[p].wallet \in hasCompleted

LEMMA RowsStay ==
  ASSUME CustodyInv, PayoutInv, UNCHANGED <<withdrawals, reviews>>, RequestsKept,
         now' \in Nat, now <= now', hasCompleted \subseteq hasCompleted'
  PROVE  PayoutInv'
<1>1. ASSUME NEW id \in DOMAIN withdrawals
      PROVE  RowReviewed(withdrawals[id], reviews[id])' /\ RowWaits(withdrawals[id])'
  <2>1. RowReviewed(withdrawals[id], reviews[id]) /\ RowWaits(withdrawals[id])
    BY DEF PayoutInv
  <2>2. withdrawals[id] \in Row /\ now \in Nat
    BY DEF CustodyInv, StoreInv, RowsOK
  <2> QED  BY <2>1, <2>2 DEF RowReviewed, RowWaits, Row
<1>2. \A p \in Requests : requests'[p].active /\ requests'[p].hasPrior => requests'[p].wallet \in hasCompleted'
  BY DEF PayoutInv, RequestsKept, Resting
<1> QED  BY <1>1, <1>2 DEF PayoutInv

LEMMA StatusMoves ==
  ASSUME CustodyInv, PayoutInv, NEW id \in DOMAIN withdrawals, NEW status, SetStatus(id, status),
         UNCHANGED <<reviews, requests, now>>, hasCompleted \subseteq hasCompleted',
         status = "sending" => now >= withdrawals[id].availableAt,
         status \in Cleared => Len(reviews[id]) = ReviewsNeeded(withdrawals[id].level)
  PROVE  PayoutInv'
<1>1. withdrawals[id] \in Row
  BY DEF CustodyInv, StoreInv, RowsOK
<1>2. /\ withdrawals' = [withdrawals EXCEPT ![id] = [withdrawals[id] EXCEPT !.status = status]]
      /\ DOMAIN withdrawals' = DOMAIN withdrawals
  BY DEF SetStatus
<1>3. ASSUME NEW i \in DOMAIN withdrawals, i # id
      PROVE  RowReviewed(withdrawals[i], reviews[i])' /\ RowWaits(withdrawals[i])'
  <2>1. RowReviewed(withdrawals[i], reviews[i]) /\ RowWaits(withdrawals[i]) /\ withdrawals'[i] = withdrawals[i]
    BY <1>2, <1>3 DEF PayoutInv
  <2> QED  BY <2>1 DEF RowReviewed, RowWaits
<1>4. RowReviewed(withdrawals[id], reviews[id])' /\ RowWaits(withdrawals[id])'
  <2>1. RowReviewed(withdrawals[id], reviews[id]) /\ RowWaits(withdrawals[id])
    BY DEF PayoutInv
  <2>2. /\ withdrawals'[id].status = status
        /\ withdrawals'[id].level = withdrawals[id].level
        /\ withdrawals'[id].amount = withdrawals[id].amount
        /\ withdrawals'[id].wallet = withdrawals[id].wallet
        /\ withdrawals'[id].availableAt = withdrawals[id].availableAt
        /\ withdrawals'[id].createdAt = withdrawals[id].createdAt
    BY <1>1, <1>2 DEF Row, CustodyInv, StoreInv, RowsOK
  <2> QED  BY <2>1, <2>2 DEF RowReviewed, RowWaits
<1> QED  BY <1>2, <1>3, <1>4 DEF PayoutInv

\* The row a request queues: nobody reviewed it, and it waits unless its wallet was paid.
LEMMA FinishKeepsPayouts ==
  ASSUME CustodyInv, PayoutInv, NEW p \in Requests, NEW hot \in HotBalances, FinishRequest(p, hot)
  PROVE  PayoutInv'
<1>1. PICK r : r = requests[p]
  OBVIOUS
<1>2. /\ r \in Snapshot /\ now \in Nat /\ now' = now /\ DOMAIN withdrawals = 1..Len(withdrawals)
      /\ withdrawals \in Seq(Row) /\ Len(withdrawals) \in Nat
      /\ r.hasPrior => r.wallet \in hasCompleted
  <2>1. r.active /\ r \in {Resting} \cup Snapshot
    BY <1>1 DEF FinishRequest, CustodyInv, HandlersOK
  <2>2. r \in Snapshot
    BY <2>1 DEF Resting
  <2> QED  BY <1>1, <2>1, <2>2 DEF PayoutInv, CustodyInv, StoreInv, RowsOK, FinishRequest
<1>3. RequestsKept
  BY DEF RequestsKept, FinishRequest, EndRequest, CustodyInv, HandlersOK
<1>4. CASE withdrawals' = withdrawals /\ hasCompleted' = hasCompleted
  <2>1. reviews' = reviews
    <3>1. CASE reviews' = reviews
      BY <3>1
    <3>2. CASE reviews' = [id \in DOMAIN withdrawals' |->
                             IF id \in DOMAIN reviews THEN reviews[id] ELSE << >>]
      BY <1>4, <3>2 DEF PayoutInv
    <3> QED  BY <3>1, <3>2 DEF FinishRequest
  <2> QED  BY <1>2, <1>3, <1>4, <2>1, RowsStay
<1>5. CASE ~(withdrawals' = withdrawals /\ hasCompleted' = hasCompleted)
  <2>1. PICK row : row = NewRow(r.wallet, r.amount, LevelOf(r.amount), AvailableAt(r), r.key)
    OBVIOUS
  <2>2. /\ withdrawals' = Append(withdrawals, row) /\ hasCompleted' = hasCompleted
        /\ reviews' = [id \in DOMAIN withdrawals' |-> IF id \in DOMAIN reviews THEN reviews[id] ELSE << >>]
    BY <1>1, <1>5, <2>1 DEF FinishRequest, CreateWithdrawal, NewRow, storeVars
  <2>3. /\ DOMAIN withdrawals' = 1..(Len(withdrawals) + 1)
        /\ withdrawals'[Len(withdrawals) + 1] = row
        /\ \A id \in DOMAIN withdrawals : withdrawals'[id] = withdrawals[id]
    BY <1>2, <2>2
  <2>4. ASSUME NEW id \in DOMAIN withdrawals
        PROVE  RowReviewed(withdrawals[id], reviews[id])' /\ RowWaits(withdrawals[id])'
    <3>1. RowReviewed(withdrawals[id], reviews[id]) /\ RowWaits(withdrawals[id])
      BY DEF PayoutInv
    <3>2. withdrawals'[id] = withdrawals[id] /\ reviews'[id] = reviews[id]
      BY <1>2, <2>2, <2>3 DEF PayoutInv
    <3> QED  BY <1>2, <2>2, <3>1, <3>2 DEF RowReviewed, RowWaits
  <2>5. RowReviewed(row, << >>) /\ RowWaits(row)
    <3>1. /\ row.wallet = r.wallet /\ row.amount = r.amount /\ row.level = LevelOf(r.amount)
          /\ row.status = "pending" /\ row.createdAt = now /\ row.availableAt = AvailableAt(r)
      BY <2>1 DEF NewRow
    <3>2. ~r.hasPrior => AvailableAt(r) = now + FirstCooldown
      BY DEF AvailableAt
    <3>3. RowWaits(row)
      BY <1>2, <3>1, <3>2, WithdrawPolicy DEF RowWaits
    <3>4. RowReviewed(row, << >>)
      BY <3>1 DEF RowReviewed, Cleared
    <3> QED  BY <3>3, <3>4
  <2>6. reviews'[Len(withdrawals) + 1] = << >>
    BY <1>2, <2>2, <2>3 DEF PayoutInv
  <2>7. \A id \in DOMAIN withdrawals' : RowReviewed(withdrawals[id], reviews[id])' /\ RowWaits(withdrawals[id])'
    <3> SUFFICES ASSUME NEW id \in DOMAIN withdrawals'
                 PROVE  RowReviewed(withdrawals'[id], reviews'[id]) /\ RowWaits(withdrawals[id])'
      BY DEF RowReviewed
    <3>1. CASE id \in DOMAIN withdrawals
      BY <2>4, <3>1 DEF RowReviewed
    <3>2. CASE id = Len(withdrawals) + 1
      <4>1. withdrawals'[id] = row /\ reviews'[id] = << >>
        BY <2>3, <2>6, <3>2
      <4>2. RowWaits(withdrawals[id])'
        BY <1>2, <2>2, <2>5, <4>1 DEF RowWaits
      <4> QED  BY <2>5, <4>1, <4>2
    <3> QED  BY <1>2, <2>3, <3>1, <3>2
  <2>8. reviews' \in [DOMAIN withdrawals' -> Seq(Admins)]
    BY <2>2 DEF PayoutInv
  <2>9. \A q \in Requests : requests'[q].active /\ requests'[q].hasPrior => requests'[q].wallet \in hasCompleted'
    BY <1>3, <2>2 DEF PayoutInv, RequestsKept, Resting
  <2> QED  BY <2>7, <2>8, <2>9 DEF PayoutInv
<1> QED  BY <1>4, <1>5

LEMMA ReviewKeepsPayouts ==
  ASSUME CustodyInv, PayoutInv, NEW id \in DOMAIN withdrawals, NEW admin \in Admins, Review(id, admin)
  PROVE  PayoutInv'
<1>1. /\ withdrawals[id].status = "pending" /\ reviews[id] \in Seq(Admins)
      /\ reviews' = [reviews EXCEPT ![id] = Append(reviews[id], admin)]
      /\ \A i \in DOMAIN reviews[id] : reviews[id][i] # admin
      /\ UNCHANGED <<withdrawals, hasCompleted, now, requests>>
  BY DEF Review, PayoutInv, RowReviewed, storeVars
<1>2. \A i, j \in DOMAIN Append(reviews[id], admin) :
        Append(reviews[id], admin)[i] = Append(reviews[id], admin)[j] => i = j
  <2>1. \A i, j \in DOMAIN reviews[id] : reviews[id][i] = reviews[id][j] => i = j
    BY DEF PayoutInv, RowReviewed
  <2> QED  BY <1>1, <2>1
<1>3. RowReviewed(withdrawals[id], Append(reviews[id], admin))
  BY <1>1, <1>2 DEF PayoutInv, RowReviewed, Cleared
<1>4. \A i \in DOMAIN withdrawals : RowReviewed(withdrawals[i], reviews'[i])
  BY <1>1, <1>3 DEF PayoutInv
<1> QED  BY <1>1, <1>4 DEF PayoutInv, RowReviewed, RowWaits

LEMMA DepositKeepsPayouts ==
  ASSUME CustodyInv, PayoutInv, Deposit
  PROVE  PayoutInv'
<1>1. UNCHANGED <<withdrawals, hasCompleted, now, requests, reviews>>
  BY DEF Deposit, DepositStep, StartClaim, RpcAnswers, KeepFetching, CreditAndFinish,
         RecordDepositCredit, Refuse, RpcFails, ChainMoves, storeVars, withdrawVars
<1> QED  BY <1>1, RowsStay DEF RequestsKept, CustodyInv, StoreInv

LEMMA WithdrawKeepsPayouts ==
  ASSUME CustodyInv, PayoutInv, WithdrawStep
  PROVE  PayoutInv'
<1>1. now \in Nat /\ requests \in [Requests -> {Resting} \cup Snapshot] /\ DOMAIN withdrawals = 1..Len(withdrawals)
  BY DEF CustodyInv, StoreInv, HandlersOK, RowsOK
<1>2. ASSUME NEW p \in Requests, NEW w \in Wallets, NEW a \in Amounts, NEW ck \in ClientKeys,
             StartRequest(p, w, a, ck)
      PROVE  PayoutInv'
  <2>1. RequestsKept
    BY <1>1, <1>2 DEF StartRequest, RequestsKept
  <2> QED  BY <1>1, <1>2, <2>1, RowsStay DEF StartRequest, storeVars
<1>3. ASSUME NEW p \in Requests, HotBalanceFails(p)
      PROVE  PayoutInv'
  <2>1. RequestsKept
    BY <1>1, <1>3 DEF HotBalanceFails, EndRequest, RequestsKept
  <2> QED  BY <1>1, <1>3, <2>1, RowsStay DEF HotBalanceFails, storeVars
<1>4. ASSUME NEW id \in DOMAIN withdrawals, NEW w \in Wallets, UserCancels(w, id)
      PROVE  PayoutInv'
  BY <1>4, StatusMoves DEF UserCancels, CancelUserWithdrawal, withdrawVars, Cleared
<1>5. ASSUME NEW id \in DOMAIN withdrawals, Approve(id)
      PROVE  PayoutInv'
  BY <1>5, StatusMoves DEF Approve, withdrawVars
<1>6. ASSUME NEW id \in DOMAIN withdrawals, WorkerPicks(id)
      PROVE  PayoutInv'
  <2>1. withdrawals[id].status = "approved" /\ now >= withdrawals[id].availableAt
    BY <1>6 DEF WorkerPicks
  <2>2. Len(reviews[id]) = ReviewsNeeded(withdrawals[id].level)
    BY <2>1 DEF PayoutInv, RowReviewed, Cleared
  <2> QED  BY <1>6, <2>1, <2>2, StatusMoves DEF WorkerPicks, withdrawVars
<1>7. ASSUME NEW id \in DOMAIN withdrawals, WorkerConfirms(id)
      PROVE  PayoutInv'
  <2>1. withdrawals[id].status = "sending" /\ SetStatus(id, "sent") /\ hasCompleted \subseteq hasCompleted'
        /\ UNCHANGED <<reviews, requests, now>>
    BY <1>7 DEF WorkerConfirms, MarkWithdrawalSent, withdrawVars
  <2>2. Len(reviews[id]) = ReviewsNeeded(withdrawals[id].level)
    BY <2>1 DEF PayoutInv, RowReviewed, Cleared
  <2> QED  BY <2>1, <2>2, StatusMoves
<1>8. ASSUME NEW w \in Freezable, NEW frozen \in BOOLEAN, SupportFreezes(w, frozen)
      PROVE  PayoutInv'
  BY <1>1, <1>8, RowsStay DEF SupportFreezes, withdrawVars, RequestsKept
<1>9. ASSUME Tick PROVE PayoutInv'
  BY <1>1, <1>9, RowsStay DEF Tick, storeVars, withdrawVars, RequestsKept
<1> QED  BY <1>2, <1>3, <1>4, <1>5, <1>6, <1>7, <1>8, <1>9, FinishKeepsPayouts, ReviewKeepsPayouts
         DEF WithdrawStep

LEMMA PayoutInvInit == Init => PayoutInv
<1> SUFFICES ASSUME Init PROVE PayoutInv
  OBVIOUS
<1>1. withdrawals = << >> /\ reviews = << >> /\ requests = [p \in Requests |-> Resting]
  BY DEF Init, EmptyStore, FundedStore, WithdrawInit
<1> QED  BY <1>1 DEF PayoutInv, Resting

LEMMA PayoutInvStep == CustodyInv /\ PayoutInv /\ [Next]_vars => PayoutInv'
<1> SUFFICES ASSUME CustodyInv, PayoutInv, [Next]_vars PROVE PayoutInv'
  OBVIOUS
<1>1. CASE UNCHANGED vars
  <2>1. UNCHANGED <<withdrawals, hasCompleted, now, requests, reviews>> /\ now \in Nat
    BY <1>1 DEF vars, storeVars, withdrawVars, CustodyInv, StoreInv
  <2> QED  BY <2>1, RowsStay DEF RequestsKept
<1>2. CASE Restart
  <2>1. withdrawals' = << >> /\ reviews' = << >> /\ requests' = [p \in Requests |-> Resting]
    BY <1>2 DEF Restart, LoseHandlers
  <2> QED  BY <2>1 DEF PayoutInv, Resting
<1> QED  BY <1>1, <1>2, DepositKeepsPayouts, WithdrawKeepsPayouts DEF Next, Withdraw

\* What is cleared for sending has one approval from ManualThreshold on and two, of
\* different admins, from DualThreshold on (withdraw-policy.ts, evaluateWithdrawRequest,
\* assertDualAdminApproval).
THEOREM LargeSendsAreApproved == Spec => []LargeSendsApproved
<1>1. CustodyInv /\ PayoutInv => LargeSendsApproved
  <2> SUFFICES ASSUME CustodyInv, PayoutInv, NEW id \in DOMAIN withdrawals,
                      withdrawals[id].status \in Cleared
               PROVE  LET admins == {reviews[id][i] : i \in DOMAIN reviews[id]}
                      IN  /\ withdrawals[id].amount >= ManualThreshold => admins # {}
                          /\ withdrawals[id].amount >= DualThreshold => Cardinality(admins) >= 2
    BY DEF LargeSendsApproved, Cleared
  <2>1. PICK s : s = reviews[id]
    OBVIOUS
  <2>2. PICK admins : admins = {s[i] : i \in DOMAIN s}
    OBVIOUS
  <2>3. /\ withdrawals[id].amount \in Nat
        /\ s \in Seq(Admins) /\ Len(s) = ReviewsNeeded(LevelOf(withdrawals[id].amount))
        /\ \A i, j \in DOMAIN s : s[i] = s[j] => i = j
    <3>1. withdrawals[id] \in Row
      BY DEF CustodyInv, StoreInv, RowsOK
    <3>2. withdrawals[id].amount \in Nat
      BY <3>1, WithdrawPolicy DEF Row, SafeAmount
    <3>3. RowReviewed(withdrawals[id], s) /\ s \in Seq(Admins)
      BY <2>1 DEF PayoutInv
    <3> QED  BY <3>2, <3>3 DEF RowReviewed
  <2>4. ASSUME withdrawals[id].amount >= ManualThreshold PROVE admins # {}
    <3>1. Len(s) >= 1
      BY <2>3, <2>4, WithdrawPolicy DEF LevelOf, ReviewsNeeded
    <3>2. 1 \in DOMAIN s
      BY <2>3, <3>1
    <3> QED  BY <2>2, <3>2
  <2>5. ASSUME withdrawals[id].amount >= DualThreshold PROVE Cardinality(admins) >= 2
    <3>1. Len(s) = 2 /\ DOMAIN s = {1, 2}
      BY <2>3, <2>5 DEF LevelOf, ReviewsNeeded
    <3>2. admins = {s[1]} \cup {s[2]} /\ s[1] # s[2]
      BY <2>2, <2>3, <3>1
    <3>3. IsFiniteSet({s[1]}) /\ Cardinality({s[1]}) = 1
      BY FS_Singleton
    <3>4. Cardinality(admins) = 2
      BY <3>2, <3>3, FS_AddElement
    <3> QED  BY <3>4
  <2> QED  BY <2>1, <2>2, <2>4, <2>5
<1> QED  BY <1>1, InvariantHolds, PayoutInvInit, PayoutInvStep, PTL DEF Spec

\* Only the worker's confirmation marks a wallet as paid.
LEMMA FirstPaidByWorker ==
  ASSUME CustodyInv, [Next]_vars, NEW w \in hasCompleted' \ hasCompleted
  PROVE  \E id \in DOMAIN withdrawals : WorkerConfirms(id) /\ withdrawals[id].wallet = w
<1>1. ~(hasCompleted' \subseteq hasCompleted)
  OBVIOUS
<1>2. ~Deposit /\ ~Restart /\ ~UNCHANGED vars
  BY <1>1 DEF Deposit, DepositStep, StartClaim, RpcAnswers, KeepFetching, CreditAndFinish,
         RecordDepositCredit, Refuse, RpcFails, ChainMoves, storeVars, Restart, LoseAccounts, vars
<1>3. PICK id \in DOMAIN withdrawals : WorkerConfirms(id)
  BY <1>1, <1>2 DEF Next, Withdraw, WithdrawStep, StartRequest, FinishRequest, CreateWithdrawal,
         HotBalanceFails, UserCancels, CancelUserWithdrawal, Review, Approve, WorkerPicks,
         SupportFreezes, Tick, storeVars
<1> QED  BY <1>3 DEF WorkerConfirms, MarkWithdrawalSent

\* The first money to leave for a wallet waited FirstCooldown, although the handler that
\* queued it read before its await whether the wallet had been paid
\* (withdraw-policy.ts, evaluateWithdrawRequest; user-store.ts, markWithdrawalSent).
THEOREM FirstPayoutsWait == Spec => FirstPayoutWaits
<1>1. ASSUME CustodyInv, PayoutInv, [Next]_vars, NEW w \in hasCompleted' \ hasCompleted
      PROVE  \E id \in DOMAIN withdrawals :
               /\ withdrawals[id].wallet = w
               /\ withdrawals[id].status # "sent" /\ withdrawals'[id].status = "sent"
               /\ now >= withdrawals[id].createdAt + FirstCooldown
  <2>1. PICK id \in DOMAIN withdrawals : WorkerConfirms(id) /\ withdrawals[id].wallet = w
    BY <1>1, FirstPaidByWorker
  <2>2. withdrawals[id].status = "sending" /\ SetStatus(id, "sent")
    BY <2>1 DEF WorkerConfirms, MarkWithdrawalSent
  <2>3. withdrawals[id] \in Row /\ withdrawals'[id].status = "sent" /\ now \in Nat
    <3>1. withdrawals[id] \in Row /\ now \in Nat
      BY <1>1 DEF CustodyInv, StoreInv, RowsOK
    <3>2. withdrawals'[id] = [withdrawals[id] EXCEPT !.status = "sent"]
      BY <2>2 DEF SetStatus
    <3> QED  BY <3>1, <3>2 DEF Row
  <2>4. RowWaits(withdrawals[id])
    BY <1>1 DEF PayoutInv
  <2>5. now >= withdrawals[id].availableAt /\ withdrawals[id].availableAt >= withdrawals[id].createdAt + FirstCooldown
    BY <1>1, <2>1, <2>2, <2>4 DEF RowWaits
  <2>6. now >= withdrawals[id].createdAt + FirstCooldown
    BY <2>3, <2>5, WithdrawPolicy DEF Row
  <2> QED  BY <2>1, <2>2, <2>3, <2>6
<1>2. CustodyInv /\ PayoutInv /\ [Next]_vars =>
        [\A w \in hasCompleted' \ hasCompleted :
           \E id \in DOMAIN withdrawals :
             /\ withdrawals[id].wallet = w
             /\ withdrawals[id].status # "sent" /\ withdrawals'[id].status = "sent"
             /\ now >= withdrawals[id].createdAt + FirstCooldown]_<<storeVars, now>>
  BY <1>1
<1> QED  BY <1>2, InvariantHolds, PayoutInvInit, PayoutInvStep, PTL DEF Spec, FirstPayoutWaits

-----------------------------------------------------------------------------
(***************************************************************************)
(* Deposit claims.                                                         *)
(*                                                                         *)
(* A restart forgets what was credited, so what is said of a signature's   *)
(* credits is said of one run of the process: MaxRestarts = 0.  What is    *)
(* said of finality holds across restarts, for a store that starts empty.  *)
(***************************************************************************)

(***************************************************************************)
(* Credits and answers.                                                    *)
(***************************************************************************)
AnswerBacked(p) ==
  claimReply[p] = "ok" =>
    \E d \in deposits :
      /\ d.sig = claims[p].sig
      /\ d.wallet = claims[p].wallet
      /\ d.amount = ClaimTotal(d.wallet, d.sig)

\* A signature that was credited is on record, which is what stops the next claim.
CreditInv ==
  /\ restarts = 0
  /\ credits \in [Sigs -> {0, 1}]
  /\ \A sig \in Sigs : credits[sig] = 1 => IsDepositCredited(sig)
  /\ DOMAIN claimReply = Claims
  /\ \A p \in Claims : AnswerBacked(p)

\* A step that keeps every deposit on record and credits nothing.
LEMMA NoCreditKeeps ==
  ASSUME CreditInv, deposits' = deposits, credits' = credits, restarts' = restarts,
         DOMAIN claimReply' = Claims,
         \A p \in Claims :
           \/ claimReply'[p] # "ok"
           \/ /\ claimReply'[p] = claimReply[p]
              /\ claims'[p].sig = claims[p].sig /\ claims'[p].wallet = claims[p].wallet
  PROVE  CreditInv'
<1>1. \A p \in Claims : AnswerBacked(p)'
  BY DEF CreditInv, AnswerBacked
<1> QED  BY <1>1 DEF CreditInv, IsDepositCredited

LEMMA CreditKeeps ==
  ASSUME CustodyInv, CreditInv, NEW p \in Claims, NEW c \in ClaimLocals,
         c.wallet = claims[p].wallet, c.sig = claims[p].sig, restarts' = restarts,
         ~IsDepositCredited(c.sig), CreditAndFinish(p, c)
  PROVE  CreditInv'
<1> DEFINE d == [sig |-> c.sig, wallet |-> c.wallet, amount |-> ClaimTotal(c.wallet, c.sig)]
<1>1. /\ deposits' = deposits \cup {d}
      /\ d \notin deposits
  BY DEF CreditAndFinish, RecordDepositCredit, IsDepositCredited
<1>2. d.sig = c.sig /\ d.wallet = c.wallet /\ d.amount = ClaimTotal(d.wallet, d.sig)
  OBVIOUS
<1>3. credits' = [credits EXCEPT ![c.sig] = @ + 1]
  BY <1>1 DEF CreditAndFinish
<1> HIDE DEF d
<1>4. c.sig \in Sigs /\ credits[c.sig] = 0
  BY DEF ClaimLocals, CreditInv
<1>5. credits' \in [Sigs -> {0, 1}]
  BY <1>3, <1>4 DEF CreditInv
<1>6. \A sig \in Sigs : credits'[sig] = 1 => IsDepositCredited(sig)'
  BY <1>1, <1>2, <1>3, <1>4 DEF CreditInv, IsDepositCredited
<1>7. /\ claims' = [claims EXCEPT ![p] = Idle(c.wallet, c.sig)]
      /\ claimReply' = [claimReply EXCEPT ![p] = "ok"]
      /\ claims \in [Claims -> ClaimLocals]
  BY DEF CreditAndFinish, Finish, CustodyInv, HandlersOK
<1>8. ASSUME NEW q \in Claims
      PROVE  AnswerBacked(q)'
  <2>1. CASE q = p
    BY <1>1, <1>2, <1>7, <2>1 DEF AnswerBacked, Idle
  <2>2. CASE q # p
    BY <1>1, <1>7, <2>2 DEF CreditInv, AnswerBacked
  <2> QED  BY <2>1, <2>2
<1> QED  BY <1>5, <1>6, <1>7, <1>8 DEF CreditInv

LEMMA CreditStep ==
  ASSUME MaxRestarts = 0, CustodyInv, CreditInv, [Next]_vars
  PROVE  CreditInv'
<1> USE DEF CreditInv
<1>1. claims \in [Claims -> ClaimLocals]
  BY DEF CustodyInv, HandlersOK
<1>2. CASE Restart
  BY <1>2 DEF Restart
<1>3. CASE Withdraw
  <2>1. UNCHANGED <<claims, claimReply, credits, restarts>>
    BY <1>3 DEF Withdraw, depositVars
  <2>2. deposits' = deposits
    BY <1>3 DEF Withdraw, WithdrawStep, StartRequest, FinishRequest, CreateWithdrawal,
         HotBalanceFails, UserCancels, CancelUserWithdrawal, Review, Approve, WorkerPicks,
         WorkerConfirms, MarkWithdrawalSent, SupportFreezes, Tick, storeVars
  <2> QED  BY <2>1, <2>2, NoCreditKeeps
<1>4. CASE UNCHANGED vars
  BY <1>4, NoCreditKeeps DEF vars, storeVars, depositVars
<1>5. CASE Deposit
  <2>0. restarts' = restarts
    BY <1>5 DEF Deposit
  <2>1. ASSUME NEW p \in Claims, NEW w \in Wallets, NEW sig \in Sigs, StartClaim(p, w, sig)
        PROVE  CreditInv'
    BY <1>1, <2>0, <2>1, NoCreditKeeps DEF StartClaim, storeVars
  <2>2. ASSUME NEW p \in Claims, NEW reply \in {"error", "rejected"}, Refuse(p, reply)
        PROVE  CreditInv'
    <3>1. /\ UNCHANGED <<deposits, credits>>
          /\ claimReply' = [claimReply EXCEPT ![p] = reply]
          /\ claims' = [claims EXCEPT ![p] = Idle(claims[p].wallet, claims[p].sig)]
      BY <2>2 DEF Refuse, Finish, storeVars
    <3> QED  BY <1>1, <2>0, <3>1, NoCreditKeeps
  <2>3. ASSUME NEW p \in Claims, RpcAnswers(p)
        PROVE  CreditInv'
    <3> DEFINE c == Answered(claims[p])
    <3>1. c \in ClaimLocals /\ c.wallet = claims[p].wallet /\ c.sig = claims[p].sig
      BY <1>1, AnsweredKeeps
    <3>2. \/ KeepFetching(p, c)
          \/ ~IsDepositCredited(c.sig) /\ CreditAndFinish(p, c)
          \/ \E reply \in {"error", "rejected"} : Refuse(p, reply)
      BY <2>3 DEF RpcAnswers, ClaimAccepted
    <3> HIDE DEF c
    <3>3. CASE KeepFetching(p, c)
      <4>1. /\ UNCHANGED <<deposits, credits, claimReply>>
            /\ claims' = [claims EXCEPT ![p] = [c EXCEPT !.step = @ + 1]]
        BY <3>3 DEF KeepFetching, storeVars
      <4>2. [c EXCEPT !.step = @ + 1].sig = c.sig /\ [c EXCEPT !.step = @ + 1].wallet = c.wallet
        BY <3>1 DEF ClaimLocals
      <4> QED  BY <1>1, <2>0, <3>1, <4>1, <4>2, NoCreditKeeps
    <3>4. CASE ~IsDepositCredited(c.sig) /\ CreditAndFinish(p, c)
      BY <2>0, <3>1, <3>4, CreditKeeps
    <3> QED  BY <2>2, <3>2, <3>3, <3>4
  <2>4. ASSUME NEW p \in Claims, RpcFails(p)
        PROVE  CreditInv'
    BY <2>2, <2>4 DEF RpcFails
  <2>5. ASSUME NEW n \in Nodes, NEW sig \in Sigs, ChainMoves(n, sig)
        PROVE  CreditInv'
    BY <2>0, <2>5, NoCreditKeeps DEF ChainMoves, storeVars
  <2> QED  BY <1>5, <2>1, <2>3, <2>4, <2>5 DEF Deposit, DepositStep
<1> QED  BY <1>2, <1>3, <1>4, <1>5 DEF Next

LEMMA CreditInit == Init => CreditInv
<1> SUFFICES ASSUME Init PROVE CreditInv
  OBVIOUS
<1>1. restarts = 0 /\ credits \in [Sigs -> {0, 1}] /\ \A sig \in Sigs : credits[sig] # 1
  BY DEF Init, DepositInit
<1>2. DOMAIN claimReply = Claims /\ \A p \in Claims : claimReply[p] # "ok"
  BY DEF Init, DepositInit
<1> QED  BY <1>1, <1>2 DEF CreditInv, AnswerBacked

LEMMA CreditInvHolds ==
  ASSUME MaxRestarts = 0
  PROVE  Spec => []CreditInv
<1>1. CustodyInv /\ CreditInv /\ [Next]_vars => CreditInv'
  BY CreditStep
<1> QED  BY <1>1, CreditInit, InvariantHolds, PTL DEF Spec

-----------------------------------------------------------------------------
\* In one run of the process a signature is credited at most once, however many claims
\* for it wait on an RPC node together: the last look at the record and the credit
\* have no await between them (deposit-claim.ts:125-129, user-store.ts:121-143).
THEOREM ClaimsCreditOnce ==
  ASSUME MaxRestarts = 0
  PROVE  Spec => []SignatureCreditedOnce
<1>1. CreditInv => SignatureCreditedOnce
  BY DEF CreditInv, SignatureCreditedOnce
<1> QED  BY <1>1, CreditInvHolds, PTL

\* In one run of the process a claim that was answered with success has its own
\* wallet's deposit on record (deposit-service.ts:160-189, user-store.ts:121-125).
THEOREM ClaimAnswersAreTrue ==
  ASSUME MaxRestarts = 0
  PROVE  Spec => []ClaimOkMeansCredited
<1>1. CreditInv => ClaimOkMeansCredited
  BY DEF CreditInv, AnswerBacked, ClaimOkMeansCredited
<1> QED  BY <1>1, CreditInvHolds, PTL

-----------------------------------------------------------------------------
(***************************************************************************)
(* Finality.  What a claim holds as confirmed, its node did call final.    *)
(***************************************************************************)
ChainInv ==
  /\ chain \in [Nodes -> [Sigs -> Views]]
  /\ everFinal \in [Nodes -> SUBSET Sigs]
  /\ \A n \in Nodes, sig \in Sigs : chain[n][sig] = "final" => sig \in everFinal[n]

ConfirmedWasFinal(c) ==
  /\ c.step \in 0..SecondLookDone
  /\ \A n \in Nodes : c.confirmed[n] => c.sig \in everFinal[n]

FinalInv ==
  /\ ChainInv
  /\ \A p \in Claims : ConfirmedWasFinal(claims[p])
  /\ CreditsWereFinal

\* A step that credits nothing and leaves the chain alone.
LEMMA ChainIdle ==
  ASSUME FinalInv, UNCHANGED <<chain, everFinal>>, deposits' \subseteq deposits,
         \A p \in Claims : ConfirmedWasFinal(claims'[p])
  PROVE  FinalInv'
BY DEF FinalInv, ChainInv, ConfirmedWasFinal, CreditsWereFinal

LEMMA IdleConfirmsNothing ==
  ASSUME NEW w, NEW sig
  PROVE  ConfirmedWasFinal(Idle(w, sig))
BY DEF ConfirmedWasFinal, Idle, SecondLookDone

LEMMA AnsweredConfirmsFinal ==
  ASSUME ChainInv, NEW c \in ClaimLocals, ConfirmedWasFinal(c), c.step # 0
  PROVE  ConfirmedWasFinal(Answered(c)) /\ Answered(c).step = c.step
<1> DEFINE node == RpcCalls[c.step][1]
           final == chain[node][c.sig] = "final"
           view == chain[node][c.sig]
           seen == IF view \in {"absent", "failed"} THEN view ELSE "landed"
<1>1. c.step \in 1..6
  BY DEF ClaimLocals, ConfirmedWasFinal, SecondLookDone
<1>2. node \in Nodes
  BY <1>1 DEF RpcCalls, Nodes
<1>3. final => c.sig \in everFinal[node]
  BY <1>2 DEF ChainInv, ClaimLocals
<1>4. CASE RpcCalls[c.step][2] = "tx"
  <2>1. Answered(c) = [c EXCEPT !.tx = [c.tx EXCEPT ![node] = seen]]
    BY <1>4 DEF Answered, ClaimLocals
  <2> HIDE DEF seen, node
  <2>2. /\ Answered(c).confirmed = c.confirmed /\ Answered(c).sig = c.sig
        /\ Answered(c).step = c.step
    BY <2>1 DEF ClaimLocals
  <2> QED  BY <2>2 DEF ConfirmedWasFinal
<1>5. CASE ~(RpcCalls[c.step][2] = "tx")
  <2>1. Answered(c) = [c EXCEPT !.confirmed = [c.confirmed EXCEPT ![node] = final]]
    BY <1>5 DEF Answered, ClaimLocals
  <2> HIDE DEF final, node
  <2>2. /\ Answered(c).confirmed = [c.confirmed EXCEPT ![node] = final]
        /\ Answered(c).sig = c.sig /\ Answered(c).step = c.step
    BY <2>1 DEF ClaimLocals
  <2>3. ASSUME NEW n \in Nodes, Answered(c).confirmed[n]
        PROVE  c.sig \in everFinal[n]
    <3>1. CASE n = node
      <4>1. Answered(c).confirmed[n] = final
        BY <2>2, <3>1, <1>2, Zenon DEF ClaimLocals
      <4> QED  BY <4>1, <1>3, <2>3, <3>1, Zenon
    <3>2. CASE n # node
      <4>1. Answered(c).confirmed[n] = c.confirmed[n]
        BY <2>2, <3>2, Zenon DEF ClaimLocals
      <4> QED  BY <4>1, <2>3, Zenon DEF ConfirmedWasFinal
    <3> QED  BY <3>1, <3>2
  <2> QED  BY <2>2, <2>3 DEF ConfirmedWasFinal
<1> QED  BY <1>4, <1>5

LEMMA RpcAnswersFinal ==
  ASSUME CustodyInv, FinalInv, NEW p \in Claims, RpcAnswers(p)
  PROVE  FinalInv'
<1> DEFINE c == Answered(claims[p])
<1>1. claims \in [Claims -> ClaimLocals] /\ ChainInv /\ ConfirmedWasFinal(claims[p])
  BY DEF CustodyInv, HandlersOK, FinalInv
<1>2. claims[p].step # 0 /\ UNCHANGED <<chain, everFinal>>
  BY DEF RpcAnswers
<1>3. c \in ClaimLocals /\ ConfirmedWasFinal(c)
  BY <1>1, <1>2, AnsweredKeeps, AnsweredConfirmsFinal
<1>4. \/ c.step # SecondLookDone /\ KeepFetching(p, c)
      \/ /\ CreditAndFinish(p, c)
         /\ c.confirmed["primary"]
         /\ RequireSecondaryRpc(c.wallet, c.sig) => c.confirmed["secondary"]
      \/ \E reply \in {"error", "rejected"} : Refuse(p, reply)
  BY DEF RpcAnswers, ClaimAccepted, AllConfirmed, FirstLookDone, SecondLookDone
<1> HIDE DEF c
<1>5. \A reply : Finish(p, reply) => \A q \in Claims : ConfirmedWasFinal(claims'[q])
  BY <1>1, IdleConfirmsNothing DEF Finish, FinalInv
<1>6. CASE c.step # SecondLookDone /\ KeepFetching(p, c)
  <2> DEFINE d == [c EXCEPT !.step = @ + 1]
  <2>1. d.step = c.step + 1 /\ d.sig = c.sig /\ d.confirmed = c.confirmed
    BY <1>3 DEF ClaimLocals
  <2>2. c.step \in 0..6 /\ c.step # 6
    BY <1>3, <1>6 DEF ConfirmedWasFinal, SecondLookDone
  <2>3. deposits' = deposits /\ claims' = [claims EXCEPT ![p] = d]
    BY <1>6 DEF KeepFetching, storeVars
  <2> HIDE DEF d
  <2>4. ConfirmedWasFinal(d)
    BY <1>3, <2>1, <2>2 DEF ConfirmedWasFinal, SecondLookDone
  <2>5. \A q \in Claims : ConfirmedWasFinal(claims'[q])
    BY <1>1, <2>3, <2>4 DEF FinalInv
  <2> QED  BY <1>2, <2>3, <2>5, ChainIdle
<1>7. CASE /\ CreditAndFinish(p, c)
           /\ c.confirmed["primary"]
           /\ RequireSecondaryRpc(c.wallet, c.sig) => c.confirmed["secondary"]
  <2>1. /\ c.sig \in everFinal["primary"]
        /\ ClaimTotal(c.wallet, c.sig) >= SecondaryThreshold => c.sig \in everFinal["secondary"]
    BY <1>3, <1>7 DEF ConfirmedWasFinal, RequireSecondaryRpc, Nodes
  <2> DEFINE d == [sig |-> c.sig, wallet |-> c.wallet, amount |-> ClaimTotal(c.wallet, c.sig)]
  <2>2. d.sig = c.sig /\ d.amount = ClaimTotal(c.wallet, c.sig)
    OBVIOUS
  <2>3. deposits' = deposits \/ deposits' = deposits \cup {d}
    BY <1>7 DEF CreditAndFinish, RecordDepositCredit, storeVars
  <2> HIDE DEF d
  <2>4. CreditsWereFinal'
    BY <1>2, <2>1, <2>2, <2>3 DEF FinalInv, CreditsWereFinal
  <2>5. \A q \in Claims : ConfirmedWasFinal(claims'[q])
    BY <1>5, <1>7 DEF CreditAndFinish
  <2> QED  BY <1>1, <1>2, <2>4, <2>5 DEF FinalInv, ChainInv, ConfirmedWasFinal
<1>8. CASE \E reply \in {"error", "rejected"} : Refuse(p, reply)
  <2>1. deposits' = deposits
    BY <1>8 DEF Refuse, storeVars
  <2>2. \A q \in Claims : ConfirmedWasFinal(claims'[q])
    BY <1>5, <1>8 DEF Refuse
  <2> QED  BY <1>2, <2>1, <2>2, ChainIdle
<1> QED  BY <1>4, <1>6, <1>7, <1>8

LEMMA ChainMovesFinal ==
  ASSUME CustodyInv, FinalInv, NEW n \in Nodes, NEW sig \in Sigs, ChainMoves(n, sig)
  PROVE  FinalInv'
<1>1. PICK v \in NextViews(chain[n][sig]) :
        /\ chain' = [chain EXCEPT ![n] = [chain[n] EXCEPT ![sig] = v]]
        /\ everFinal' = IF v = "final" THEN [everFinal EXCEPT ![n] = @ \cup {sig}] ELSE everFinal
        /\ deposits' = deposits /\ claims' = claims
  BY DEF ChainMoves, storeVars
<1>2. chain[n][sig] \in Views /\ chain[n] \in [Sigs -> Views]
  BY DEF FinalInv, ChainInv
<1>3. v \in Views
  BY <1>2 DEF NextViews, Views
<1>4. /\ everFinal' \in [Nodes -> SUBSET Sigs]
      /\ \A m \in Nodes : everFinal[m] \subseteq everFinal'[m]
      /\ v = "final" => sig \in everFinal'[n]
  BY <1>1 DEF FinalInv, ChainInv
<1>5. chain' \in [Nodes -> [Sigs -> Views]]
  BY <1>1, <1>2, <1>3 DEF FinalInv, ChainInv
<1>6. ASSUME NEW m \in Nodes, NEW s \in Sigs, chain'[m][s] = "final"
      PROVE  s \in everFinal'[m]
  <2>1. CASE m = n /\ s = sig
    <3>1. chain'[m][s] = v
      BY <1>1, <1>2, <2>1 DEF FinalInv, ChainInv
    <3> QED  BY <1>4, <1>6, <2>1, <3>1
  <2>2. CASE ~(m = n /\ s = sig)
    <3>1. chain'[m][s] = chain[m][s]
      BY <1>1, <1>2, <2>2 DEF FinalInv, ChainInv
    <3> QED  BY <1>4, <1>6, <3>1 DEF FinalInv, ChainInv
  <2> QED  BY <2>1, <2>2
<1>7. ChainInv'
  BY <1>4, <1>5, <1>6 DEF ChainInv
<1>8. \A p \in Claims : ConfirmedWasFinal(claims[p])'
  BY <1>1, <1>4 DEF FinalInv, ConfirmedWasFinal
<1>9. CreditsWereFinal'
  BY <1>1, <1>4 DEF FinalInv, CreditsWereFinal, Nodes
<1> QED  BY <1>7, <1>8, <1>9 DEF FinalInv

LEMMA FinalStep == CustodyInv /\ FinalInv /\ [Next]_vars => FinalInv'
<1> SUFFICES ASSUME CustodyInv, FinalInv, [Next]_vars PROVE FinalInv'
  OBVIOUS
<1>1. claims \in [Claims -> ClaimLocals] /\ \A p \in Claims : ConfirmedWasFinal(claims[p])
  BY DEF CustodyInv, HandlersOK, FinalInv
<1>2. CASE Restart
  <2>1. deposits' = {} /\ UNCHANGED <<chain, everFinal>>
    BY <1>2 DEF Restart, LoseHandlers
  <2>2. \A p \in Claims : ConfirmedWasFinal(claims'[p])
    BY <1>2, IdleConfirmsNothing DEF Restart, LoseHandlers
  <2> QED  BY <2>1, <2>2, ChainIdle
<1>3. CASE Withdraw
  <2>1. UNCHANGED <<claims, chain, everFinal>>
    BY <1>3 DEF Withdraw, depositVars
  <2>2. deposits' = deposits
    BY <1>3 DEF Withdraw, WithdrawStep, StartRequest, FinishRequest, CreateWithdrawal,
         HotBalanceFails, UserCancels, CancelUserWithdrawal, Review, Approve, WorkerPicks,
         WorkerConfirms, MarkWithdrawalSent, SupportFreezes, Tick, storeVars
  <2> QED  BY <1>1, <2>1, <2>2, ChainIdle
<1>4. CASE UNCHANGED vars
  BY <1>1, <1>4, ChainIdle DEF vars, storeVars, depositVars
<1>5. CASE Deposit
  <2>1. ASSUME NEW p \in Claims, NEW w \in Wallets, NEW sig \in Sigs, StartClaim(p, w, sig)
        PROVE  FinalInv'
    <3>1. ConfirmedWasFinal([Idle(w, sig) EXCEPT !.step = 1])
      BY DEF ConfirmedWasFinal, Idle, SecondLookDone
    <3>2. \A q \in Claims : ConfirmedWasFinal(claims'[q])
      BY <1>1, <2>1, <3>1 DEF StartClaim
    <3> QED  BY <2>1, <3>2, ChainIdle DEF StartClaim, storeVars
  <2>2. ASSUME NEW p \in Claims, RpcAnswers(p)
        PROVE  FinalInv'
    BY <2>2, RpcAnswersFinal
  <2>3. ASSUME NEW p \in Claims, RpcFails(p)
        PROVE  FinalInv'
    <3>1. \A q \in Claims : ConfirmedWasFinal(claims'[q])
      BY <1>1, <2>3, IdleConfirmsNothing DEF RpcFails, Refuse, Finish
    <3> QED  BY <2>3, <3>1, ChainIdle DEF RpcFails, Refuse, storeVars
  <2>4. ASSUME NEW n \in Nodes, NEW sig \in Sigs, ChainMoves(n, sig)
        PROVE  FinalInv'
    BY <2>4, ChainMovesFinal
  <2> QED  BY <1>5, <2>1, <2>2, <2>3, <2>4 DEF Deposit, DepositStep
<1> QED  BY <1>2, <1>3, <1>4, <1>5 DEF Next

LEMMA FinalInit ==
  ASSUME InitialFunds = 0
  PROVE  Init => FinalInv
<1> SUFFICES ASSUME Init PROVE FinalInv
  OBVIOUS
<1>1. deposits = {}
  BY DEF Init, EmptyStore
<1>2. ChainInv
  BY FirstViewKnown DEF Init, DepositInit, ChainInv
<1>3. \A p \in Claims : ConfirmedWasFinal(claims[p])
  BY IdleConfirmsNothing DEF Init, DepositInit
<1> QED  BY <1>1, <1>2, <1>3 DEF FinalInv, CreditsWereFinal

\* Whatever the nodes answer and however the chain moves between their answers, no
\* deposit is on record that the primary node never called final, and none from
\* SecondaryThreshold on that the secondary never did (deposit-service.ts:67-159).
THEOREM CreditsRestOnFinality ==
  ASSUME InitialFunds = 0
  PROVE  Spec => []CreditsWereFinal
<1>1. FinalInv => CreditsWereFinal
  BY DEF FinalInv
<1> QED  BY <1>1, FinalInit, FinalStep, InvariantHolds, PTL DEF Spec

-----------------------------------------------------------------------------
(***************************************************************************)
(* The books of the store.  Rows, deposits and accounts are kept apart and *)
(* changed together; an applied key makes the ledger skip its part, so the *)
(* books only hold if a cancel, complete or deposit key is applied when    *)
(* its row or deposit says so and never before.                            *)
(***************************************************************************)
KeysMatchRows ==
  /\ \A w \in Wallets, id \in Nat :
       /\ CancelKey(id) \in appliedKeys[w] =>
            id \in DOMAIN withdrawals /\ withdrawals[id].status = "cancelled"
       /\ CompleteKey(id) \in appliedKeys[w] =>
            id \in DOMAIN withdrawals /\ withdrawals[id].status = "sent"
  /\ \A w \in Wallets, sig \in Sigs : DepositKey(sig) \in appliedKeys[w] => IsDepositCredited(sig)

RowsSum(w, statuses) == SumFunctionOnSet(AmountOf, WithdrawalsOf(w, statuses))

WalletBooks(w) ==
  /\ IsFiniteSet(DepositsOf(w))
  /\ accounts[w].lockedWithdraw = RowsSum(w, OpenStatuses)
  /\ LiabilityOf(accounts[w]) = SumFunctionOnSet(AmountIn, DepositsOf(w)) - RowsSum(w, {"sent"})

BooksInv == KeysMatchRows /\ \A w \in Wallets : WalletBooks(w)
LEMMA RowAmounts ==
  ASSUME RowsOK, NEW i \in DOMAIN withdrawals
  PROVE  withdrawals[i] \in Row /\ withdrawals[i].amount \in Nat
<1>1. withdrawals[i] \in Row BY DEF RowsOK
<1>2. withdrawals[i].amount \in Nat BY <1>1, WithdrawPolicy DEF Row, SafeAmount
<1>3. QED BY <1>1, <1>2

LEMMA RowSumsAreNats ==
  ASSUME RowsOK, NEW w, NEW S
  PROVE  /\ IsFiniteSet(WithdrawalsOf(w, S))
         /\ \A i \in WithdrawalsOf(w, S) : AmountOf[i] \in Nat
         /\ RowsSum(w, S) \in Nat
<1>1. Len(withdrawals) \in Nat /\ DOMAIN withdrawals = 1..Len(withdrawals)
  BY DEF RowsOK
<1>2. IsFiniteSet(WithdrawalsOf(w, S))
  <2>1. IsFiniteSet(1..Len(withdrawals)) BY <1>1, FS_Interval
  <2>2. WithdrawalsOf(w, S) \subseteq 1..Len(withdrawals) BY <1>1 DEF WithdrawalsOf
  <2>3. QED BY <2>1, <2>2, FS_Subset
<1>3. \A i \in WithdrawalsOf(w, S) : AmountOf[i] \in Nat
  BY RowAmounts DEF WithdrawalsOf, AmountOf
<1>4. QED BY <1>2, <1>3, SumIsNat DEF RowsSum

\* A new status takes the row out of some sums and into others.
LEMMA StatusSums ==
  ASSUME RowsOK, NEW id \in DOMAIN withdrawals, NEW status \in Statuses, SetStatus(id, status),
         NEW w, NEW S
  PROVE  /\ withdrawals[id].amount \in Nat
         /\ withdrawals'[id].status = status /\ withdrawals'[id].wallet = withdrawals[id].wallet
         /\ \A i \in DOMAIN withdrawals : i # id => withdrawals'[i] = withdrawals[i]
         /\ RowsSum(w, S)' = RowsSum(w, S)
              - (IF id \in WithdrawalsOf(w, S) THEN withdrawals[id].amount ELSE 0)
              + (IF id \in WithdrawalsOf(w, S)' THEN withdrawals[id].amount ELSE 0)
<1>1. withdrawals[id] \in Row /\ withdrawals[id].amount \in Nat
  BY RowAmounts
<1>2. /\ DOMAIN withdrawals' = DOMAIN withdrawals
      /\ withdrawals'[id] = [withdrawals[id] EXCEPT !.status = status]
      /\ \A i \in DOMAIN withdrawals : i # id => withdrawals'[i] = withdrawals[i]
  BY DEF SetStatus
<1>3. /\ withdrawals'[id].status = status /\ withdrawals'[id].wallet = withdrawals[id].wallet
      /\ withdrawals'[id].amount = withdrawals[id].amount
  BY <1>1, <1>2 DEF Row
<1>4. AmountOf' = AmountOf
  BY <1>2, <1>3 DEF AmountOf
<1>5. WithdrawalsOf(w, S)' \ {id} = WithdrawalsOf(w, S) \ {id}
  BY <1>2 DEF WithdrawalsOf
<1>6. RowsOK' BY StatusStep
<1> DEFINE old == WithdrawalsOf(w, S)
           new == WithdrawalsOf(w, S)'
           others == SumFunctionOnSet(AmountOf, old \ {id})
<1>7. IsFiniteSet(old) /\ \A i \in old : AmountOf[i] \in Int
  BY RowSumsAreNats
<1>8. IsFiniteSet(new) /\ \A i \in new : AmountOf[i] \in Int
  <2>1. IsFiniteSet(old \ {id}) BY <1>7, FS_RemoveElement
  <2>2. new \subseteq (old \ {id}) \cup {id} BY <1>5
  <2>3. IsFiniteSet(new) BY <2>1, <2>2, FS_AddElement, FS_Subset
  <2>4. AmountOf[id] \in Int BY <1>1 DEF AmountOf
  <2>5. QED BY <1>7, <2>2, <2>3, <2>4
<1>9. others \in Int BY <1>7, FS_RemoveElement, SumIsInt
<1>10. AmountOf[id] = withdrawals[id].amount BY DEF AmountOf
<1>11. RowsSum(w, S) = others + (IF id \in old THEN withdrawals[id].amount ELSE 0)
  <2> HIDE DEF old
  <2>1. SumFunctionOnSet(AmountOf, old) = others + (IF id \in old THEN AmountOf[id] ELSE 0)
    BY <1>7, SumLessOne
  <2>2. QED BY <1>10, <2>1 DEF RowsSum, old
<1>12. RowsSum(w, S)' = others + (IF id \in new THEN withdrawals[id].amount ELSE 0)
  <2>0. new \ {id} = old \ {id} BY <1>5
  <2> HIDE DEF new, old
  <2>1. SumFunctionOnSet(AmountOf, new) =
          SumFunctionOnSet(AmountOf, new \ {id}) + (IF id \in new THEN AmountOf[id] ELSE 0)
    BY <1>8, SumLessOne
  <2>2. RowsSum(w, S)' = SumFunctionOnSet(AmountOf, new) BY <1>4 DEF RowsSum, new
  <2>3. QED BY <1>10, <2>0, <2>1, <2>2
<1> HIDE DEF others
<1>13. QED BY <1>1, <1>2, <1>3, <1>9, <1>11, <1>12

\* A row that is queued is in the sums of its wallet's pending withdrawals.
LEMMA QueuedSums ==
  ASSUME RowsOK, NEW row \in Row, withdrawals' = Append(withdrawals, row), NEW w, NEW S
  PROVE  RowsSum(w, S)' = RowsSum(w, S)
           + (IF row.wallet = w /\ row.status \in S THEN row.amount ELSE 0)
<1> DEFINE n == Len(withdrawals) + 1
           old == WithdrawalsOf(w, S)
           new == WithdrawalsOf(w, S)'
<1>1. /\ Len(withdrawals) \in Nat /\ DOMAIN withdrawals = 1..Len(withdrawals)
      /\ DOMAIN withdrawals' = 1..n /\ n \notin DOMAIN withdrawals /\ withdrawals'[n] = row
      /\ \A i \in DOMAIN withdrawals : withdrawals'[i] = withdrawals[i]
  BY DEF RowsOK
<1>2. DOMAIN withdrawals' = DOMAIN withdrawals \cup {n} BY <1>1
<1> HIDE DEF n
<1>3. new = IF row.wallet = w /\ row.status \in S THEN old \cup {n} ELSE old
  BY <1>1, <1>2 DEF WithdrawalsOf
<1>4. \A i \in old : AmountOf'[i] = AmountOf[i]
  BY <1>1, <1>2 DEF WithdrawalsOf, AmountOf
<1>5. AmountOf'[n] = row.amount /\ row.amount \in Nat
  BY <1>1, <1>2, WithdrawPolicy DEF AmountOf, Row, SafeAmount
<1>6. IsFiniteSet(old) /\ (\A i \in old : AmountOf[i] \in Int) /\ n \notin old /\ RowsSum(w, S) \in Nat
  <2>1. n \notin old BY <1>1 DEF WithdrawalsOf
  <2>2. QED BY <2>1, RowSumsAreNats
<1>7. SumFunctionOnSet(AmountOf', old) = RowsSum(w, S)
  <2> HIDE DEF old
  <2>1. SumFunctionOnSet(AmountOf', old) = SumFunctionOnSet(AmountOf, old) BY <1>4, <1>6, SumOfSameTerms
  <2>2. QED BY <2>1 DEF RowsSum, old
<1>8. RowsSum(w, S)' = SumFunctionOnSet(AmountOf', new) BY DEF RowsSum
<1> HIDE DEF old, new
<1>9. CASE row.wallet = w /\ row.status \in S
  <2>1. SumFunctionOnSet(AmountOf', old \cup {n}) = SumFunctionOnSet(AmountOf', old) + AmountOf'[n]
    BY <1>4, <1>5, <1>6, SumWithOneMore
  <2>2. QED BY <1>3, <1>5, <1>7, <1>8, <1>9, <2>1
<1>10. CASE ~(row.wallet = w /\ row.status \in S)
  BY <1>3, <1>6, <1>7, <1>8, <1>10
<1>11. QED BY <1>9, <1>10

\* Keys of different calls differ.
LEMMA CallKeysDiffer ==
  ASSUME NEW x, NEW y
  PROVE  /\ DepositKey(x) # CancelKey(y) /\ DepositKey(x) # CompleteKey(y)
         /\ CancelKey(x) # CompleteKey(y)
         /\ DepositKey(x) = DepositKey(y) => x = y
         /\ CancelKey(x) = CancelKey(y) => x = y
         /\ CompleteKey(x) = CompleteKey(y) => x = y
BY DEF DepositKey, CancelKey, CompleteKey

\* The books depend on rows, deposits, keys and accounts, not on who is frozen.
LEMMA BooksIdle ==
  ASSUME BooksInv, UNCHANGED <<appliedKeys, deposits, withdrawals>>,
         \A w \in Wallets : /\ accounts'[w].lockedWithdraw = accounts[w].lockedWithdraw
                            /\ LiabilityOf(accounts'[w]) = LiabilityOf(accounts[w])
  PROVE  BooksInv'
<1>1. KeysMatchRows' BY DEF BooksInv, KeysMatchRows, IsDepositCredited
<1>2. ASSUME NEW w \in Wallets PROVE WalletBooks(w)'
  <2>1. WalletBooks(w) BY DEF BooksInv
  <2>2. /\ DepositsOf(w)' = DepositsOf(w) /\ AmountIn' = AmountIn /\ AmountOf' = AmountOf
        /\ \A S : WithdrawalsOf(w, S)' = WithdrawalsOf(w, S)
    BY DEF DepositsOf, AmountIn, AmountOf, WithdrawalsOf
  <2>3. RowsSum(w, OpenStatuses)' = RowsSum(w, OpenStatuses) /\ RowsSum(w, {"sent"})' = RowsSum(w, {"sent"})
    BY <2>2 DEF RowsSum
  <2>4. QED BY <2>1, <2>2, <2>3 DEF WalletBooks
<1>3. QED BY <1>1, <1>2 DEF BooksInv

LEMMA CreditedSumIsNat ==
  ASSUME StoreInv, NEW w, IsFiniteSet(DepositsOf(w))
  PROVE  /\ \A d \in DepositsOf(w) : AmountIn[d] \in Nat
         /\ SumFunctionOnSet(AmountIn, DepositsOf(w)) \in Nat
<1>1. \A d \in DepositsOf(w) : AmountIn[d] \in Nat BY DEF StoreInv, AmountIn, DepositsOf, SafeAmount
<1>2. QED BY <1>1, SumIsNat

\* A credit adds a deposit to the wallet's books and the amount to its balance.
LEMMA DepositBooks ==
  ASSUME StoreInv, BooksInv, NEW w \in Wallets, NEW sig \in Sigs, NEW a, SafeAmount(a),
         RecordDepositCredit(w, sig, a)
  PROVE  BooksInv'
<1>1. CASE IsDepositCredited(sig)
  <2>1. UNCHANGED <<appliedKeys, deposits, withdrawals, accounts>>
    BY <1>1 DEF RecordDepositCredit, storeVars
  <2>2. QED BY <2>1, BooksIdle
<1>2. CASE ~IsDepositCredited(sig)
  <2> DEFINE d == [sig |-> sig, wallet |-> w, amount |-> a]
  <2>1. /\ LedgerApply(w, DepositKey(sig), Deposited(accounts[w], a))
        /\ deposits' = deposits \cup {d} /\ d \notin deposits
        /\ withdrawals' = withdrawals
    BY <1>2 DEF RecordDepositCredit, IsDepositCredited
  <2>2. /\ DepositKey(sig) \notin appliedKeys[w] /\ DOMAIN appliedKeys = Wallets
        /\ accounts \in [Wallets -> Account] /\ a \in Nat
    BY <1>2 DEF BooksInv, KeysMatchRows, StoreInv, LedgersOK, SafeAmount
  <2>3. /\ accounts' = [accounts EXCEPT ![w] = Deposited(accounts[w], a)]
        /\ appliedKeys' = [appliedKeys EXCEPT ![w] = @ \cup {DepositKey(sig)}]
    BY <2>1, <2>2 DEF LedgerApply
  <2>4. d.sig = sig /\ d.wallet = w /\ d.amount = a OBVIOUS
  <2> HIDE DEF d
  <2>5. KeysMatchRows'
    <3>1. ASSUME NEW v \in Wallets, NEW id \in Nat
          PROVE  /\ CancelKey(id) \in appliedKeys'[v] => CancelKey(id) \in appliedKeys[v]
                 /\ CompleteKey(id) \in appliedKeys'[v] => CompleteKey(id) \in appliedKeys[v]
      BY <2>2, <2>3, CallKeysDiffer
    <3>2. \A v \in Wallets, s \in Sigs :
            DepositKey(s) \in appliedKeys'[v] => DepositKey(s) \in appliedKeys[v] \/ s = sig
      BY <2>2, <2>3, CallKeysDiffer
    <3>3. \A s \in Sigs : IsDepositCredited(s) \/ s = sig => IsDepositCredited(s)'
      BY <2>1, <2>4 DEF IsDepositCredited
    <3>4. QED BY <2>1, <3>1, <3>2, <3>3 DEF BooksInv, KeysMatchRows
  <2>6. ASSUME NEW v \in Wallets PROVE WalletBooks(v)'
    <3>1. WalletBooks(v) BY DEF BooksInv
    <3>2. RowsSum(v, OpenStatuses)' = RowsSum(v, OpenStatuses) /\ RowsSum(v, {"sent"})' = RowsSum(v, {"sent"})
      BY <2>1 DEF RowsSum, AmountOf, WithdrawalsOf
    <3>3. DepositsOf(v)' = IF v = w THEN DepositsOf(v) \cup {d} ELSE DepositsOf(v)
      BY <2>1, <2>4 DEF DepositsOf
    <3>4. /\ \A e \in DepositsOf(v) : AmountIn'[e] = AmountIn[e]
          /\ AmountIn'[d] = a
      BY <2>1, <2>4 DEF DepositsOf, AmountIn
    <3>5. /\ IsFiniteSet(DepositsOf(v)) /\ d \notin DepositsOf(v)
          /\ \A e \in DepositsOf(v) : AmountIn[e] \in Int
          /\ SumFunctionOnSet(AmountIn, DepositsOf(v)) \in Int
      <4>1. IsFiniteSet(DepositsOf(v)) /\ d \notin DepositsOf(v) BY <2>1, <3>1 DEF WalletBooks, DepositsOf
      <4>2. QED BY <4>1, CreditedSumIsNat
    <3>6. IsFiniteSet(DepositsOf(v)') BY <3>3, <3>5, FS_AddElement
    <3> DEFINE old == DepositsOf(v)
    <3> HIDE DEF old
    <3>7. SumFunctionOnSet(AmountIn', old) = SumFunctionOnSet(AmountIn, old)
      BY <3>4, <3>5, SumOfSameTerms DEF old
    <3>8. CASE v = w
      <4>1. SumFunctionOnSet(AmountIn', old \cup {d}) = SumFunctionOnSet(AmountIn', old) + AmountIn'[d]
        BY <2>2, <3>4, <3>5, SumWithOneMore DEF old
      <4>2. SumFunctionOnSet(AmountIn, DepositsOf(v))' = SumFunctionOnSet(AmountIn, DepositsOf(v)) + a
        BY <3>3, <3>4, <3>7, <3>8, <4>1 DEF old
      <4>3. accounts'[v] = Deposited(accounts[v], a) /\ accounts[v] \in Account BY <2>2, <2>3, <3>8
      <4>4. accounts'[v].lockedWithdraw = accounts[v].lockedWithdraw BY <4>3 DEF Deposited, Account
      <4>5. LiabilityOf(accounts'[v]) = LiabilityOf(accounts[v]) + a BY <2>2, <4>3, LiabilityChanges
      <4>6. RowsSum(v, {"sent"}) \in Nat BY RowSumsAreNats DEF StoreInv
      <4>7. LiabilityOf(accounts'[v]) = SumFunctionOnSet(AmountIn, DepositsOf(v))' - RowsSum(v, {"sent"})
        BY <2>2, <3>1, <3>5, <4>2, <4>5, <4>6 DEF WalletBooks
      <4>8. QED BY <3>1, <3>2, <3>6, <4>4, <4>7 DEF WalletBooks
    <3>9. CASE v # w
      <4>1. accounts'[v] = accounts[v] BY <2>2, <2>3, <3>9
      <4>2. SumFunctionOnSet(AmountIn, DepositsOf(v))' = SumFunctionOnSet(AmountIn, DepositsOf(v))
        BY <3>3, <3>7, <3>9 DEF old
      <4>3. QED BY <3>1, <3>2, <3>6, <4>1, <4>2 DEF WalletBooks
    <3>10. QED BY <3>8, <3>9
  <2>7. QED BY <2>5, <2>6 DEF BooksInv
<1>3. QED BY <1>1, <1>2

\* What stays of the books when no deposit is added.
LEMMA CreditsStay ==
  ASSUME BooksInv, deposits' = deposits, NEW w \in Wallets
  PROVE  /\ IsFiniteSet(DepositsOf(w)')
         /\ SumFunctionOnSet(AmountIn, DepositsOf(w))' = SumFunctionOnSet(AmountIn, DepositsOf(w))
         /\ \A sig : IsDepositCredited(sig)' <=> IsDepositCredited(sig)
<1>1. WalletBooks(w) BY DEF BooksInv
<1>2. DepositsOf(w)' = DepositsOf(w) /\ AmountIn' = AmountIn BY DEF DepositsOf, AmountIn
<1>3. \A sig : IsDepositCredited(sig)' <=> IsDepositCredited(sig) BY DEF IsDepositCredited
<1>4. QED BY <1>1, <1>2, <1>3 DEF WalletBooks

\* A queued row is locked for, in its wallet's ledger, in the same step.
LEMMA CreateBooks ==
  ASSUME StoreInv, BooksInv, NEW w \in Wallets, NEW a \in Amounts, NEW level \in Levels,
         NEW availableAt \in Nat, NEW key \in RequestKeys,
         CanCreateWithdrawal(w, a, key), CreateWithdrawal(w, a, level, availableAt, key)
  PROVE  BooksInv'
<1>1. CASE WithKey(key) # {}
  <2>1. UNCHANGED <<appliedKeys, deposits, withdrawals, accounts>>
    BY <1>1 DEF CreateWithdrawal, storeVars
  <2>2. QED BY <2>1, BooksIdle
<1>2. CASE WithKey(key) = {}
  <2> DEFINE row == NewRow(w, a, level, availableAt, key)
  <2>1. /\ LedgerApply(w, key, WithdrawLocked(accounts[w], a))
        /\ withdrawals' = Append(withdrawals, row)
        /\ deposits' = deposits
    BY <1>2 DEF CreateWithdrawal, NewRow
  <2>2. /\ key \notin appliedKeys[w] /\ DOMAIN appliedKeys = Wallets
        /\ accounts \in [Wallets -> Account] /\ a \in Nat /\ RowsOK
    BY <1>2, WithdrawPolicy DEF StoreInv, LedgersOK, SafeAmount
  <2>3. /\ accounts' = [accounts EXCEPT ![w] = WithdrawLocked(accounts[w], a)]
        /\ appliedKeys' = [appliedKeys EXCEPT ![w] = @ \cup {key}]
    BY <2>1, <2>2 DEF LedgerApply
  <2>4. row \in Row /\ row.wallet = w /\ row.status = "pending" /\ row.amount = a
    BY DEF NewRow, Row, Statuses, StoreInv
  <2> HIDE DEF row
  <2>5. /\ DOMAIN withdrawals \subseteq DOMAIN withdrawals'
        /\ \A i \in DOMAIN withdrawals : withdrawals'[i] = withdrawals[i]
    BY <2>1, <2>2 DEF RowsOK
  <2>6. KeysMatchRows'
    <3>1. ASSUME NEW v \in Wallets, NEW k, k \notin RequestKeys, k \in appliedKeys'[v]
          PROVE  k \in appliedKeys[v]
      BY <2>2, <2>3, <3>1
    <3>2. ASSUME NEW v \in Wallets, NEW id \in Nat
          PROVE  /\ CancelKey(id) \in appliedKeys'[v] => CancelKey(id) \in appliedKeys[v]
                 /\ CompleteKey(id) \in appliedKeys'[v] => CompleteKey(id) \in appliedKeys[v]
      BY <3>1, KeyKindsDiffer
    <3>3. \A v \in Wallets, s \in Sigs : DepositKey(s) \in appliedKeys'[v] => DepositKey(s) \in appliedKeys[v]
      BY <3>1, KeyKindsDiffer
    <3>4. \A s \in Sigs : IsDepositCredited(s)' <=> IsDepositCredited(s) BY <2>1, CreditsStay
    <3>5. QED BY <2>5, <3>2, <3>3, <3>4 DEF BooksInv, KeysMatchRows
  <2>7. ASSUME NEW v \in Wallets PROVE WalletBooks(v)'
    <3>1. WalletBooks(v) BY DEF BooksInv
    <3>2. RowsSum(v, {"sent"})' = RowsSum(v, {"sent"}) /\ RowsSum(v, {"sent"}) \in Nat
      <4>1. RowsSum(v, {"sent"})' = RowsSum(v, {"sent"}) + (IF row.wallet = v /\ row.status \in {"sent"} THEN row.amount ELSE 0)
        BY <2>1, <2>2, <2>4, QueuedSums
      <4>2. RowsSum(v, {"sent"}) \in Nat BY <2>2, RowSumsAreNats
      <4>3. QED BY <2>4, <4>1, <4>2
    <3>3. RowsSum(v, OpenStatuses)' = RowsSum(v, OpenStatuses) + (IF v = w THEN a ELSE 0)
      <4>1. RowsSum(v, OpenStatuses)' = RowsSum(v, OpenStatuses) + (IF row.wallet = v /\ row.status \in OpenStatuses THEN row.amount ELSE 0)
        BY <2>1, <2>2, <2>4, QueuedSums
      <4>2. QED BY <2>4, <4>1 DEF OpenStatuses
    <3>4. RowsSum(v, OpenStatuses) \in Nat BY <2>2, RowSumsAreNats
    <3>5. /\ accounts'[v].lockedWithdraw = accounts[v].lockedWithdraw + (IF v = w THEN a ELSE 0)
          /\ LiabilityOf(accounts'[v]) = LiabilityOf(accounts[v])
      <4>1. CASE v = w
        <5>1. accounts'[v] = WithdrawLocked(accounts[v], a) /\ accounts[v] \in Account BY <2>2, <2>3, <4>1
        <5>2. LiabilityOf(accounts'[v]) = LiabilityOf(accounts[v]) BY <2>2, <5>1, LiabilityChanges
        <5>3. accounts'[v].lockedWithdraw = accounts[v].lockedWithdraw + a BY <5>1 DEF WithdrawLocked, Account
        <5>4. QED BY <4>1, <5>2, <5>3
      <4>2. CASE v # w
        <5>1. accounts'[v] = accounts[v] /\ accounts[v].lockedWithdraw \in Nat BY <2>2, <2>3, <4>2 DEF Account
        <5>2. QED BY <4>2, <5>1
      <4>3. QED BY <4>1, <4>2
    <3>6. /\ IsFiniteSet(DepositsOf(v)')
          /\ SumFunctionOnSet(AmountIn, DepositsOf(v))' = SumFunctionOnSet(AmountIn, DepositsOf(v))
      BY <2>1, CreditsStay
    <3>7. QED BY <3>1, <3>2, <3>3, <3>4, <3>5, <3>6 DEF WalletBooks
  <2>8. QED BY <2>6, <2>7 DEF BooksInv
<1>3. QED BY <1>1, <1>2

\* A row goes from status to status and its wallet's ledger along with it.
LEMMA MoveBooks ==
  ASSUME StoreInv, BooksInv, NEW id \in DOMAIN withdrawals, NEW status \in Statuses,
         SetStatus(id, status), deposits' = deposits,
         withdrawals[id].status \in OpenStatuses,
         NEW opened \in Nat, opened = IF status \in OpenStatuses THEN 0 ELSE withdrawals[id].amount,
         NEW paid \in Nat, paid = IF status = "sent" THEN withdrawals[id].amount ELSE 0,
         \A v \in Wallets :
           /\ accounts'[v].lockedWithdraw =
                accounts[v].lockedWithdraw - (IF v = withdrawals[id].wallet THEN opened ELSE 0)
           /\ LiabilityOf(accounts'[v]) =
                LiabilityOf(accounts[v]) - (IF v = withdrawals[id].wallet THEN paid ELSE 0),
         \A v \in Wallets : \A k : k \in appliedKeys'[v] =>
           \/ k \in appliedKeys[v]
           \/ status = "cancelled" /\ k = CancelKey(id)
           \/ status = "sent" /\ k = CompleteKey(id)
  PROVE  BooksInv'
<1>1. RowsOK BY DEF StoreInv
<1>2. /\ withdrawals'[id].status = status /\ withdrawals'[id].wallet = withdrawals[id].wallet
      /\ \A i \in DOMAIN withdrawals : i # id => withdrawals'[i] = withdrawals[i]
      /\ withdrawals[id].amount \in Nat
  BY <1>1, StatusSums
<1>3. DOMAIN withdrawals' = DOMAIN withdrawals BY <1>1, StatusStep
<1>4. KeysMatchRows'
  <2>1. ASSUME NEW v \in Wallets, NEW i \in Nat, CancelKey(i) \in appliedKeys'[v]
        PROVE  i \in DOMAIN withdrawals' /\ withdrawals'[i].status = "cancelled"
    <3>1. CancelKey(i) \in appliedKeys[v] \/ (status = "cancelled" /\ i = id)
      BY <2>1, CallKeysDiffer
    <3>2. CASE CancelKey(i) \in appliedKeys[v]
      <4>1. i \in DOMAIN withdrawals /\ withdrawals[i].status = "cancelled"
        BY <3>2 DEF BooksInv, KeysMatchRows
      <4>2. QED BY <1>2, <1>3, <4>1 DEF OpenStatuses
    <3>3. QED BY <1>2, <1>3, <3>1, <3>2
  <2>2. ASSUME NEW v \in Wallets, NEW i \in Nat, CompleteKey(i) \in appliedKeys'[v]
        PROVE  i \in DOMAIN withdrawals' /\ withdrawals'[i].status = "sent"
    <3>1. CompleteKey(i) \in appliedKeys[v] \/ (status = "sent" /\ i = id)
      BY <2>2, CallKeysDiffer
    <3>2. CASE CompleteKey(i) \in appliedKeys[v]
      <4>1. i \in DOMAIN withdrawals /\ withdrawals[i].status = "sent"
        BY <3>2 DEF BooksInv, KeysMatchRows
      <4>2. QED BY <1>2, <1>3, <4>1 DEF OpenStatuses
    <3>3. QED BY <1>2, <1>3, <3>1, <3>2
  <2>3. ASSUME NEW v \in Wallets, NEW s \in Sigs, DepositKey(s) \in appliedKeys'[v]
        PROVE  IsDepositCredited(s)'
    <3>1. DepositKey(s) \in appliedKeys[v] BY <2>3, CallKeysDiffer
    <3>2. IsDepositCredited(s) BY <3>1 DEF BooksInv, KeysMatchRows
    <3>3. QED BY <2>3, <3>2, CreditsStay
  <2>4. QED BY <2>1, <2>2, <2>3 DEF KeysMatchRows
<1>5. ASSUME NEW v \in Wallets PROVE WalletBooks(v)'
  <2> DEFINE a == withdrawals[id].amount
             mine == withdrawals[id].wallet = v
  <2>1. WalletBooks(v) BY DEF BooksInv
  <2>2. \A S : /\ id \in WithdrawalsOf(v, S) <=> mine /\ withdrawals[id].status \in S
               /\ id \in WithdrawalsOf(v, S)' <=> mine /\ status \in S
    BY <1>2, <1>3 DEF WithdrawalsOf
  <2>3. RowsSum(v, OpenStatuses) \in Nat /\ RowsSum(v, {"sent"}) \in Nat /\ a \in Nat
    BY <1>1, <1>2, RowSumsAreNats
  <2>4. RowsSum(v, OpenStatuses)' = RowsSum(v, OpenStatuses) - (IF mine THEN opened ELSE 0)
    <3>1. RowsSum(v, OpenStatuses)' = RowsSum(v, OpenStatuses)
            - (IF id \in WithdrawalsOf(v, OpenStatuses) THEN a ELSE 0)
            + (IF id \in WithdrawalsOf(v, OpenStatuses)' THEN a ELSE 0)
      BY <1>1, StatusSums
    <3> HIDE DEF a, mine
    <3>2. QED BY <2>2, <2>3, <3>1 DEF a
  <2>5. RowsSum(v, {"sent"})' = RowsSum(v, {"sent"}) + (IF mine THEN paid ELSE 0)
    <3>1. RowsSum(v, {"sent"})' = RowsSum(v, {"sent"})
            - (IF id \in WithdrawalsOf(v, {"sent"}) THEN a ELSE 0)
            + (IF id \in WithdrawalsOf(v, {"sent"})' THEN a ELSE 0)
      BY <1>1, StatusSums
    <3>2. withdrawals[id].status # "sent" BY DEF OpenStatuses
    <3> HIDE DEF a, mine
    <3>3. QED BY <2>2, <2>3, <3>1, <3>2 DEF a
  <2>6. /\ IsFiniteSet(DepositsOf(v)')
        /\ SumFunctionOnSet(AmountIn, DepositsOf(v))' = SumFunctionOnSet(AmountIn, DepositsOf(v))
        /\ SumFunctionOnSet(AmountIn, DepositsOf(v)) \in Nat
    BY <2>1, CreditsStay, CreditedSumIsNat DEF WalletBooks
  <2> HIDE DEF a
  <2>7. QED BY <2>1, <2>3, <2>4, <2>5, <2>6 DEF WalletBooks
<1>6. QED BY <1>4, <1>5 DEF BooksInv

\* A cancelled row gives its amount back; its key is new, because the row was pending.
LEMMA CancelBooks ==
  ASSUME StoreInv, BooksInv, NEW w \in Wallets, NEW id \in DOMAIN withdrawals,
         CancelUserWithdrawal(w, id)
  PROVE  BooksInv'
<1>1. PICK a : a = withdrawals[id].amount OBVIOUS
<1>2. /\ withdrawals[id].wallet = w /\ withdrawals[id].status = "pending" /\ SetStatus(id, "cancelled")
      /\ CancelKey(id) \in appliedKeys[w] \/ CanReleaseWithdraw(accounts[w], a)
      /\ LedgerApply(w, CancelKey(id), WithdrawCancelled(accounts[w], a))
      /\ deposits' = deposits
  BY <1>1 DEF CancelUserWithdrawal
<1>3. id \in Nat /\ a \in Nat
  BY <1>1, RowAmounts DEF StoreInv, RowsOK
<1>4. CancelKey(id) \notin appliedKeys[w] BY <1>2, <1>3 DEF BooksInv, KeysMatchRows
<1>5. /\ accounts' = [accounts EXCEPT ![w] = WithdrawCancelled(accounts[w], a)]
      /\ appliedKeys' = [appliedKeys EXCEPT ![w] = @ \cup {CancelKey(id)}]
      /\ CanReleaseWithdraw(accounts[w], a)
      /\ accounts \in [Wallets -> Account] /\ DOMAIN appliedKeys = Wallets
  BY <1>2, <1>4 DEF LedgerApply, StoreInv, LedgersOK
<1>6. \A v \in Wallets : \A k : k \in appliedKeys'[v] => k \in appliedKeys[v] \/ k = CancelKey(id)
  BY <1>5
<1>7. ASSUME NEW v \in Wallets
      PROVE  /\ accounts'[v].lockedWithdraw = accounts[v].lockedWithdraw - (IF v = w THEN a ELSE 0)
             /\ LiabilityOf(accounts'[v]) = LiabilityOf(accounts[v]) - (IF v = w THEN 0 ELSE 0)
  <2>1. LiabilityOf(accounts[v]) \in Nat /\ accounts[v] \in Account
    BY <1>3, <1>5, LiabilityChanges
  <2>2. CASE v = w
    <3>1. accounts'[v] = WithdrawCancelled(accounts[v], a) BY <1>5, <2>2
    <3>2. LiabilityOf(accounts'[v]) = LiabilityOf(accounts[v]) BY <1>3, <2>1, <3>1, LiabilityChanges
    <3>3. accounts'[v].lockedWithdraw = accounts[v].lockedWithdraw - a
      BY <2>1, <3>1 DEF WithdrawCancelled, Account
    <3>4. QED BY <2>1, <2>2, <3>2, <3>3
  <2>3. CASE v # w
    <3>1. accounts'[v] = accounts[v] BY <1>5, <2>3
    <3>2. accounts[v].lockedWithdraw \in Nat BY <2>1 DEF Account
    <3>3. QED BY <2>1, <2>3, <3>1, <3>2
  <2>4. QED BY <2>2, <2>3
<1>8. "cancelled" \in Statuses /\ "cancelled" \notin OpenStatuses /\ "pending" \in OpenStatuses
  BY DEF Statuses, OpenStatuses
<1>9. 0 = (IF "cancelled" = "sent" THEN withdrawals[id].amount ELSE 0) OBVIOUS
<1>10. QED BY <1>1, <1>2, <1>3, <1>6, <1>7, <1>8, <1>9, MoveBooks

\* A sent row takes its amount off the books.
LEMMA SentBooks ==
  ASSUME StoreInv, BooksInv, NEW id \in DOMAIN withdrawals,
         withdrawals[id].status = "sending", MarkWithdrawalSent(id)
  PROVE  BooksInv'
<1>1. PICK a, w : a = withdrawals[id].amount /\ w = withdrawals[id].wallet OBVIOUS
<1>2. /\ SetStatus(id, "sent")
      /\ CompleteKey(id) \in appliedKeys[w] \/ CanReleaseWithdraw(accounts[w], a)
      /\ LedgerApply(w, CompleteKey(id), WithdrawCompleted(accounts[w], a))
      /\ deposits' = deposits
  BY <1>1 DEF MarkWithdrawalSent
<1>3. id \in Nat /\ a \in Nat /\ w \in Wallets
  BY <1>1, RowAmounts DEF StoreInv, RowsOK, Row
<1>4. CompleteKey(id) \notin appliedKeys[w] BY <1>2, <1>3 DEF BooksInv, KeysMatchRows
<1>5. /\ accounts' = [accounts EXCEPT ![w] = WithdrawCompleted(accounts[w], a)]
      /\ appliedKeys' = [appliedKeys EXCEPT ![w] = @ \cup {CompleteKey(id)}]
      /\ CanReleaseWithdraw(accounts[w], a)
      /\ accounts \in [Wallets -> Account] /\ DOMAIN appliedKeys = Wallets
  BY <1>2, <1>4 DEF LedgerApply, StoreInv, LedgersOK
<1>6. \A v \in Wallets : \A k : k \in appliedKeys'[v] => k \in appliedKeys[v] \/ k = CompleteKey(id)
  BY <1>3, <1>5
<1>7. ASSUME NEW v \in Wallets
      PROVE  /\ accounts'[v].lockedWithdraw = accounts[v].lockedWithdraw - (IF v = w THEN a ELSE 0)
             /\ LiabilityOf(accounts'[v]) = LiabilityOf(accounts[v]) - (IF v = w THEN a ELSE 0)
  <2>1. LiabilityOf(accounts[v]) \in Nat /\ accounts[v] \in Account
    BY <1>3, <1>5, LiabilityChanges
  <2>2. CASE v = w
    <3>1. accounts'[v] = WithdrawCompleted(accounts[v], a) BY <1>5, <2>2
    <3>2. LiabilityOf(accounts'[v]) = LiabilityOf(accounts[v]) - a BY <1>3, <2>1, <3>1, LiabilityChanges
    <3>3. accounts'[v].lockedWithdraw = accounts[v].lockedWithdraw - a
      BY <2>1, <3>1 DEF WithdrawCompleted, Account
    <3>4. QED BY <2>1, <2>2, <3>2, <3>3
  <2>3. CASE v # w
    <3>1. accounts'[v] = accounts[v] BY <1>5, <2>3
    <3>2. accounts[v].lockedWithdraw \in Nat BY <2>1 DEF Account
    <3>3. QED BY <2>1, <2>3, <3>1, <3>2
  <2>4. QED BY <2>2, <2>3
<1>8. "sent" \in Statuses /\ "sent" \notin OpenStatuses /\ "sending" \in OpenStatuses
  BY DEF Statuses, OpenStatuses
<1>9. QED BY <1>1, <1>2, <1>3, <1>6, <1>7, <1>8, MoveBooks

\* Admins and worker move a row among the statuses it is locked for in.
LEMMA OpenRowBooks ==
  ASSUME StoreInv, BooksInv, NEW id \in DOMAIN withdrawals, NEW status \in OpenStatuses,
         withdrawals[id].status \in OpenStatuses, SetStatus(id, status),
         UNCHANGED <<accounts, appliedKeys, deposits>>
  PROVE  BooksInv'
<1>1. ASSUME NEW v \in Wallets
      PROVE  /\ accounts'[v].lockedWithdraw =
                  accounts[v].lockedWithdraw - (IF v = withdrawals[id].wallet THEN 0 ELSE 0)
             /\ LiabilityOf(accounts'[v]) =
                  LiabilityOf(accounts[v]) - (IF v = withdrawals[id].wallet THEN 0 ELSE 0)
  <2>1. accounts[v] \in Account BY DEF StoreInv, LedgersOK
  <2>2. accounts[v].lockedWithdraw \in Nat /\ LiabilityOf(accounts[v]) \in Nat
    BY <2>1 DEF Account, LiabilityOf
  <2>3. QED BY <2>2
<1>2. status \in Statuses /\ status # "sent" BY DEF Statuses, OpenStatuses
<1>3. /\ 0 = (IF status \in OpenStatuses THEN 0 ELSE withdrawals[id].amount)
      /\ 0 = (IF status = "sent" THEN withdrawals[id].amount ELSE 0)
  BY <1>2
<1>4. \A v \in Wallets : \A k : k \in appliedKeys'[v] => k \in appliedKeys[v] OBVIOUS
<1>5. QED BY <1>1, <1>2, <1>3, <1>4, MoveBooks

\* The books of a store nobody has used.
NothingBooked ==
  /\ accounts = [w \in Wallets |-> NewAccount]
  /\ appliedKeys = [w \in Wallets |-> {}]
  /\ deposits = {}
  /\ withdrawals = << >>

LEMMA EmptyBooks == NothingBooked => BooksInv
<1> SUFFICES ASSUME NothingBooked PROVE BooksInv
  OBVIOUS
<1> USE DEF NothingBooked
<1>1. KeysMatchRows BY DEF KeysMatchRows
<1>2. ASSUME NEW w \in Wallets PROVE WalletBooks(w)
  <2>1. DepositsOf(w) = {} /\ \A S : WithdrawalsOf(w, S) = {} BY DEF DepositsOf, WithdrawalsOf
  <2>2. accounts[w].lockedWithdraw = 0 /\ LiabilityOf(accounts[w]) = 0
    BY DEF NewAccount, LiabilityOf
  <2>3. IsFiniteSet(DepositsOf(w)) BY <2>1, FS_EmptySet
  <2>4. RowsSum(w, OpenStatuses) = 0 /\ RowsSum(w, {"sent"}) = 0 BY <2>1, SumOverNone DEF RowsSum
  <2>5. SumFunctionOnSet(AmountIn, DepositsOf(w)) = 0 BY <2>1, SumOverNone
  <2>6. QED BY <2>2, <2>3, <2>4, <2>5 DEF WalletBooks
<1>3. QED BY <1>1, <1>2 DEF BooksInv

LEMMA EmptiedBooks == NothingBooked' => BooksInv'
BY EmptyBooks, PTL

\* And of one with a deposit per wallet.
LEMMA FundedBooks ==
  ASSUME FundedStore, InitialFunds \in Nat
  PROVE  BooksInv
<1>1. KeysMatchRows
  <2>1. ASSUME NEW w \in Wallets, NEW id
        PROVE  CancelKey(id) \notin appliedKeys[w] /\ CompleteKey(id) \notin appliedKeys[w]
    BY CallKeysDiffer DEF FundedStore
  <2>2. ASSUME NEW w \in Wallets, NEW sig \in Sigs, DepositKey(sig) \in appliedKeys[w]
        PROVE  IsDepositCredited(sig)
    <3>1. sig = FundingSig(w) BY <2>2, CallKeysDiffer DEF FundedStore
    <3> DEFINE d == [sig |-> FundingSig(w), wallet |-> w, amount |-> InitialFunds]
    <3>2. d \in deposits /\ d.sig = sig BY <3>1 DEF FundedStore
    <3> HIDE DEF d
    <3>3. QED BY <3>2 DEF IsDepositCredited
  <2>3. QED BY <2>1, <2>2 DEF KeysMatchRows
<1>2. ASSUME NEW w \in Wallets PROVE WalletBooks(w)
  <2> DEFINE d == [sig |-> FundingSig(w), wallet |-> w, amount |-> InitialFunds]
  <2>1. d \in deposits /\ d.wallet = w /\ d.amount = InitialFunds BY DEF FundedStore
  <2>2. DepositsOf(w) = {d} /\ \A S : WithdrawalsOf(w, S) = {} BY DEF FundedStore, DepositsOf, WithdrawalsOf
  <2> HIDE DEF d
  <2>3. accounts[w].lockedWithdraw = 0 /\ LiabilityOf(accounts[w]) = InitialFunds
    BY DEF FundedStore, NewAccount, LiabilityOf, Deposited
  <2>4. IsFiniteSet(DepositsOf(w)) BY <2>2, FS_Singleton
  <2>5. RowsSum(w, OpenStatuses) = 0 /\ RowsSum(w, {"sent"}) = 0 BY <2>2, SumOverNone DEF RowsSum
  <2>6. AmountIn[d] = InitialFunds BY <2>1 DEF AmountIn
  <2>7. SumFunctionOnSet(AmountIn, {} \cup {d}) = SumFunctionOnSet(AmountIn, {}) + AmountIn[d]
    <3>1. AmountIn[d] \in Int /\ IsFiniteSet({}) /\ d \notin {} BY <2>6, FS_EmptySet
    <3> HIDE DEF AmountIn
    <3>2. QED BY <3>1, SumWithOneMore
  <2>8. SumFunctionOnSet(AmountIn, DepositsOf(w)) = InitialFunds
    <3>1. {} \cup {d} = {d} OBVIOUS
    <3>2. QED BY <2>2, <2>6, <2>7, <3>1, SumOverNone
  <2>9. QED BY <2>3, <2>4, <2>5, <2>8 DEF WalletBooks
<1>3. QED BY <1>1, <1>2 DEF BooksInv

LEMMA BooksInit == Init => BooksInv
BY EmptyBooks, FundedBooks, CustodyBounds DEF Init, EmptyStore, NothingBooked

LEMMA BooksStep == CustodyInv /\ BooksInv /\ [Next]_vars => BooksInv'
<1> SUFFICES ASSUME CustodyInv, BooksInv, [Next]_vars PROVE BooksInv'
  OBVIOUS
<1>1. StoreInv /\ claims \in [Claims -> ClaimLocals] /\ requests \in [Requests -> {Resting} \cup Snapshot]
  BY DEF CustodyInv, HandlersOK
<1>2. CASE UNCHANGED storeVars BY <1>2, BooksIdle DEF storeVars
<1>3. CASE UNCHANGED vars BY <1>2, <1>3 DEF vars
<1>4. CASE Restart
  <2>1. NothingBooked' BY <1>4 DEF Restart, LoseAccounts, NothingBooked
  <2>2. QED BY <2>1, EmptiedBooks
<1>5. ASSUME NEW p \in Claims, RpcAnswers(p) PROVE BooksInv'
  <2> DEFINE c == Answered(claims[p])
  <2>1. c \in ClaimLocals BY <1>1, AnsweredKeeps
  <2>2. \/ UNCHANGED storeVars
        \/ /\ SafeAmount(ClaimTotal(c.wallet, c.sig))
           /\ RecordDepositCredit(c.wallet, c.sig, ClaimTotal(c.wallet, c.sig))
    BY <1>5 DEF RpcAnswers, KeepFetching, CreditAndFinish, Refuse, ClaimAccepted
  <2>3. c.wallet \in Wallets /\ c.sig \in Sigs BY <2>1 DEF ClaimLocals
  <2> HIDE DEF c
  <2>4. QED BY <1>1, <1>2, <2>2, <2>3, DepositBooks
<1>6. CASE Deposit
  BY <1>2, <1>5, <1>6 DEF Deposit, DepositStep, StartClaim, RpcFails, Refuse, ChainMoves
<1>7. ASSUME NEW p \in Requests, NEW hot \in HotBalances, FinishRequest(p, hot) PROVE BooksInv'
  <2> DEFINE r == requests[p]
  <2>1. r \in Snapshot
    <3>1. r.active /\ r \in {Resting} \cup Snapshot BY <1>1, <1>7 DEF FinishRequest
    <3>2. QED BY <3>1 DEF Resting
  <2>2. \/ UNCHANGED storeVars
        \/ /\ CanCreateWithdrawal(r.wallet, r.amount, r.key)
           /\ CreateWithdrawal(r.wallet, r.amount, LevelOf(r.amount), AvailableAt(r), r.key)
    BY <1>7 DEF FinishRequest
  <2> HIDE DEF r
  <2>3. r.wallet \in Wallets /\ r.amount \in Amounts /\ r.key \in RequestKeys BY <2>1 DEF Snapshot
  <2>4. LevelOf(r.amount) \in Levels BY DEF LevelOf, Levels
  <2>5. AvailableAt(r) \in Nat BY <1>1, WithdrawPolicy DEF AvailableAt, StoreInv
  <2>6. QED BY <1>1, <1>2, <2>2, <2>3, <2>4, <2>5, CreateBooks
<1>8. ASSUME NEW id \in DOMAIN withdrawals, NEW w \in Wallets, UserCancels(w, id) PROVE BooksInv'
  BY <1>1, <1>8, CancelBooks DEF UserCancels
<1>9. ASSUME NEW id \in DOMAIN withdrawals, Approve(id) \/ WorkerPicks(id) PROVE BooksInv'
  <2>1. PICK status \in OpenStatuses : SetStatus(id, status) /\ withdrawals[id].status \in OpenStatuses
    BY <1>9 DEF Approve, WorkerPicks, OpenStatuses
  <2>2. UNCHANGED <<accounts, appliedKeys, deposits>> BY <1>9 DEF Approve, WorkerPicks
  <2>3. QED BY <1>1, <2>1, <2>2, OpenRowBooks
<1>10. ASSUME NEW id \in DOMAIN withdrawals, WorkerConfirms(id) PROVE BooksInv'
  BY <1>1, <1>10, SentBooks DEF WorkerConfirms
<1>11. ASSUME NEW w \in Freezable, NEW frozen \in BOOLEAN, SupportFreezes(w, frozen) PROVE BooksInv'
  <2>1. /\ accounts' = [accounts EXCEPT ![w] = [accounts[w] EXCEPT !.withdrawFrozen = frozen]]
        /\ UNCHANGED <<appliedKeys, deposits, withdrawals>>
    BY <1>11 DEF SupportFreezes
  <2>2. \A v \in Wallets : accounts[v] \in Account BY <1>1 DEF StoreInv, LedgersOK
  <2>3. ASSUME NEW v \in Wallets
        PROVE  /\ accounts'[v].lockedWithdraw = accounts[v].lockedWithdraw
               /\ LiabilityOf(accounts'[v]) = LiabilityOf(accounts[v])
    <3>1. accounts'[v] = accounts[v] \/ accounts'[v] = [accounts[v] EXCEPT !.withdrawFrozen = frozen]
      BY <1>1, <2>1 DEF StoreInv, LedgersOK
    <3>2. QED BY <2>2, <3>1 DEF Account, LiabilityOf
  <2>4. QED BY <2>1, <2>3, BooksIdle
<1>12. CASE Withdraw
  BY <1>2, <1>7, <1>8, <1>9, <1>10, <1>11, <1>12
     DEF Withdraw, WithdrawStep, StartRequest, HotBalanceFails, Review, Tick
<1>13. QED BY <1>3, <1>4, <1>6, <1>12 DEF Next

LEMMA BooksHold == Spec => []BooksInv
BY BooksInit, BooksStep, InvariantHolds, PTL DEF Spec

\* Whatever requests, retries, cancellations, sends and restarts are interleaved, the
\* withdraw lock of a wallet is the sum of its open withdrawals
\* (user-store.ts:181-264).
THEOREM LocksMatchRows == Spec => []LocksMatchOpenWithdrawals
<1>1. BooksInv => LocksMatchOpenWithdrawals
  BY DEF BooksInv, WalletBooks, RowsSum, LocksMatchOpenWithdrawals
<1>2. QED BY <1>1, BooksHold, PTL

\* And what it is owed is the sum of its credited deposits less the sum of what was
\* sent to it (user-store.ts:115-143, 248-264).
THEOREM RecordsExplainAccounts == Spec => []AccountExplainedByRecords
<1>1. BooksInv => AccountExplainedByRecords
  BY DEF BooksInv, WalletBooks, RowsSum, AccountExplainedByRecords
<1>2. QED BY <1>1, BooksHold, PTL

-----------------------------------------------------------------------------
(***************************************************************************)
(* What is on record was paid in.                                          *)
(***************************************************************************)
DepositsAreClaims ==
  \A d \in deposits : d.sig \in Sigs /\ d.amount = ClaimTotal(d.wallet, d.sig)

LEMMA ClaimsBacked == DepositsAreClaims => CreditsBackedOnChain
<1> SUFFICES ASSUME DepositsAreClaims, NEW d \in deposits
             PROVE  LET paidIn == {l \in Legs : l.sig = d.sig /\ l.toPlatform}
                    IN  /\ d.amount <= SumFunctionOnSet(LegAmount, paidIn)
                        /\ d.amount = SumFunctionOnSet(LegAmount, {l \in paidIn : l.source = d.wallet})
  BY DEF CreditsBackedOnChain
<1> DEFINE paidIn == {l \in Legs : l.sig = d.sig /\ l.toPlatform}
           own == {l \in paidIn : l.source = d.wallet}
<1>1. IsFiniteSet(paidIn)
  <2>1. IsFiniteSet({l \in Legs : l.sig = d.sig}) BY FewLegs DEF DepositsAreClaims
  <2>2. paidIn \subseteq {l \in Legs : l.sig = d.sig} OBVIOUS
  <2>3. QED BY <2>1, <2>2, FS_Subset
<1>2. \A l \in paidIn : LegAmount[l] \in Nat BY LegsAreTransfers DEF LegAmount
<1>3. own = MatchedLegs(d.wallet, d.sig) BY DEF MatchedLegs
<1>4. d.amount = SumFunctionOnSet(LegAmount, own) BY <1>3 DEF DepositsAreClaims, ClaimTotal
<1>5. own \subseteq paidIn OBVIOUS
<1> HIDE DEF paidIn, own
<1>6. SumFunctionOnSet(LegAmount, own) <= SumFunctionOnSet(LegAmount, paidIn)
  BY <1>1, <1>2, <1>5, SumOfFewer
<1>7. QED BY <1>4, <1>6 DEF paidIn, own

LEMMA DepositsAreClaimsStep == CustodyInv /\ DepositsAreClaims /\ [Next]_vars => DepositsAreClaims'
<1> SUFFICES ASSUME CustodyInv, DepositsAreClaims, [Next]_vars PROVE DepositsAreClaims'
  OBVIOUS
<1>1. claims \in [Claims -> ClaimLocals] BY DEF CustodyInv, HandlersOK
<1>2. CASE deposits' = deposits BY <1>2 DEF DepositsAreClaims
<1>3. CASE UNCHANGED storeVars BY <1>2, <1>3 DEF storeVars
<1>4. CASE UNCHANGED vars BY <1>3, <1>4 DEF vars
<1>5. CASE Restart BY <1>5 DEF Restart, DepositsAreClaims
<1>6. CASE Withdraw
  BY <1>2, <1>6 DEF Withdraw, WithdrawStep, StartRequest, FinishRequest, CreateWithdrawal,
     HotBalanceFails, UserCancels, CancelUserWithdrawal, Review, Approve, WorkerPicks,
     WorkerConfirms, MarkWithdrawalSent, SupportFreezes, Tick, storeVars
<1>7. ASSUME NEW p \in Claims, RpcAnswers(p) PROVE DepositsAreClaims'
  <2> DEFINE c == Answered(claims[p])
             d == [sig |-> c.sig, wallet |-> c.wallet, amount |-> ClaimTotal(c.wallet, c.sig)]
  <2>1. c \in ClaimLocals BY <1>1, AnsweredKeeps
  <2>2. deposits' = deposits \/ deposits' = deposits \cup {d}
    BY <1>7 DEF RpcAnswers, KeepFetching, CreditAndFinish, Refuse, RecordDepositCredit, storeVars
  <2>3. d.sig \in Sigs /\ d.amount = ClaimTotal(d.wallet, d.sig) BY <2>1 DEF ClaimLocals
  <2> HIDE DEF d
  <2>4. QED BY <2>2, <2>3 DEF DepositsAreClaims
<1>8. CASE Deposit
  BY <1>3, <1>7, <1>8 DEF Deposit, DepositStep, StartClaim, RpcFails, Refuse, ChainMoves
<1>9. QED BY <1>4, <1>5, <1>6, <1>8 DEF Next

\* A wallet is credited with the sum of its own transfers to the platform, and all
\* wallets of one transaction together with no more than it paid in: claims race, nodes
\* disagree and forks drop transactions, but amounts come from the legs alone
\* (deposit-claim.ts:121-126, user-store.ts:115-143).
THEOREM CreditsAreBacked ==
  ASSUME InitialFunds = 0
  PROVE  Spec => []CreditsBackedOnChain
<1>1. Init => DepositsAreClaims BY DEF Init, EmptyStore, DepositsAreClaims
<1>2. QED BY <1>1, ClaimsBacked, DepositsAreClaimsStep, InvariantHolds, PTL DEF Spec

-----------------------------------------------------------------------------
(***************************************************************************)
(* The cool-down between withdrawals.  A request decides on the time of    *)
(* the last one it read before its await.  With two requests in flight     *)
(* that time may be stale, and the cool-down is not honoured; a request    *)
(* that runs alone finds at its end what it read at its start.             *)
(***************************************************************************)
OneAtATime == \A p, q \in Requests : p = q

ReadsInv ==
  /\ \A p \in Requests : requests[p].active => requests[p].last = lastRequest[requests[p].wallet]
  /\ \A w \in Wallets : lastRequest[w] <= now

LEMMA ReadsStay ==
  ASSUME ReadsInv, CustodyInv, UNCHANGED <<requests, lastRequest>>, now' \in Nat, now <= now'
  PROVE  ReadsInv'
<1>1. \A w \in Wallets : lastRequest[w] \in Nat \cup {NoTime} /\ lastRequest[w] <= now /\ now \in Nat
  BY DEF ReadsInv, CustodyInv, StoreInv
<1>2. \A w \in Wallets : lastRequest[w] <= now'
  BY <1>1 DEF NoTime
<1> QED  BY <1>2 DEF ReadsInv

\* A request that ends was the only one: nothing read is left to grow stale.
LEMMA AloneReadsNothing ==
  ASSUME ReadsInv, CustodyInv, OneAtATime, NEW p \in Requests, NEW reply, EndRequest(p, reply),
         now' = now,
         lastRequest' = lastRequest \/ \E w \in Wallets : lastRequest' = [lastRequest EXCEPT ![w] = now]
  PROVE  ReadsInv'
<1>1. \A q \in Requests : ~requests'[q].active
  BY DEF OneAtATime, EndRequest, CustodyInv, HandlersOK, Resting
<1>2. \A w \in Wallets : lastRequest'[w] <= now'
  BY DEF ReadsInv, CustodyInv, StoreInv
<1> QED  BY <1>1, <1>2 DEF ReadsInv

\* Every step of the withdrawals leaves a request in flight with what is true.
LEMMA WithdrawKeepsReads ==
  ASSUME ReadsInv, CustodyInv, OneAtATime, WithdrawStep
  PROVE  ReadsInv'
<1>1. now \in Nat /\ requests \in [Requests -> {Resting} \cup Snapshot]
  BY DEF CustodyInv, StoreInv, HandlersOK
<1>2. ASSUME NEW p \in Requests, NEW w \in Wallets, NEW a \in Amounts, NEW ck \in ClientKeys,
             StartRequest(p, w, a, ck)
      PROVE  ReadsInv'
  <2>1. /\ requests'[p].last = lastRequest[w] /\ requests'[p].wallet = w
        /\ lastRequest' = lastRequest /\ now' = now
    BY <1>1, <1>2 DEF StartRequest, storeVars
  <2> QED  BY <2>1 DEF ReadsInv, OneAtATime
<1>3. ASSUME NEW p \in Requests, NEW hot \in HotBalances, FinishRequest(p, hot)
      PROVE  ReadsInv'
  <2>1. PICK reply : EndRequest(p, reply)
    BY <1>3 DEF FinishRequest
  <2>2. requests[p].active /\ requests[p] \in {Resting} \cup Snapshot /\ now' = now
    BY <1>1, <1>3 DEF FinishRequest
  <2>3. requests[p].wallet \in Wallets
    <3>1. requests[p] \in Snapshot
      BY <2>2 DEF Resting
    <3> QED  BY <3>1 DEF Snapshot
  <2>4. \/ lastRequest' = lastRequest
        \/ lastRequest' = [lastRequest EXCEPT ![requests[p].wallet] = now]
    BY <1>3 DEF FinishRequest, CreateWithdrawal, storeVars
  <2> QED  BY <2>1, <2>2, <2>3, <2>4, AloneReadsNothing
<1>4. ASSUME NEW p \in Requests, HotBalanceFails(p)
      PROVE  ReadsInv'
  BY <1>4, AloneReadsNothing DEF HotBalanceFails, storeVars
<1>5. ASSUME NEW id \in DOMAIN withdrawals,
             \/ \E w \in Wallets : UserCancels(w, id)
             \/ \E admin \in Admins : Review(id, admin)
             \/ Approve(id) \/ WorkerPicks(id) \/ WorkerConfirms(id)
      PROVE  ReadsInv'
  <2>1. UNCHANGED <<requests, lastRequest, now>>
    BY <1>5 DEF UserCancels, CancelUserWithdrawal, Review, Approve, WorkerPicks, WorkerConfirms,
         MarkWithdrawalSent, withdrawVars, storeVars
  <2> QED  BY <1>1, <2>1, ReadsStay
<1>6. ASSUME (\E w \in Freezable, frozen \in BOOLEAN : SupportFreezes(w, frozen)) \/ Tick
      PROVE  ReadsInv'
  <2>1. UNCHANGED <<requests, lastRequest>> /\ (now' = now \/ now' = now + 1)
    BY <1>6 DEF SupportFreezes, Tick, withdrawVars, storeVars
  <2> QED  BY <1>1, <2>1, ReadsStay
<1> QED  BY <1>2, <1>3, <1>4, <1>5, <1>6 DEF WithdrawStep

LEMMA ReadsInvStep ==
  ASSUME OneAtATime, CustodyInv, ReadsInv, [Next]_vars
  PROVE  ReadsInv'
<1>1. CASE UNCHANGED vars
  <2>1. UNCHANGED <<requests, lastRequest, now>> /\ now \in Nat
    BY <1>1 DEF vars, storeVars, withdrawVars, CustodyInv, StoreInv
  <2> QED  BY <2>1, ReadsStay
<1>2. CASE Deposit
  <2>1. UNCHANGED <<requests, lastRequest, now>> /\ now \in Nat
    BY <1>2 DEF Deposit, DepositStep, StartClaim, RpcAnswers, KeepFetching, CreditAndFinish,
         RecordDepositCredit, Refuse, RpcFails, ChainMoves, storeVars, withdrawVars, CustodyInv, StoreInv
  <2> QED  BY <2>1, ReadsStay
<1>3. CASE Restart
  <2>1. /\ requests' = [p \in Requests |-> Resting] /\ lastRequest' = [w \in Wallets |-> NoTime]
        /\ now' \in Nat
    BY <1>3 DEF Restart, LoseAccounts, LoseHandlers, CustodyInv, StoreInv
  <2> QED  BY <2>1 DEF ReadsInv, Resting, NoTime
<1> QED  BY <1>1, <1>2, <1>3, WithdrawKeepsReads DEF Next, Withdraw

\* The policy of a request that read the present state: its row is payable no sooner
\* than Cooldown after the request before it, whether or not its wallet was paid
\* meanwhile.
LEMMA CooldownStep ==
  ASSUME Cooldown <= FirstCooldown, CustodyInv, ReadsInv, [Next]_vars,
         NEW id \in DOMAIN withdrawals', Queues(id), lastRequest[withdrawals'[id].wallet] # NoTime
  PROVE  withdrawals'[id].availableAt >= lastRequest[withdrawals'[id].wallet] + Cooldown
<1>1. PICK p \in Requests, hot \in HotBalances : FinishRequest(p, hot)
  BY FinishQueues
<1> DEFINE r == requests[p]
           row == NewRow(r.wallet, r.amount, LevelOf(r.amount), AvailableAt(r), r.key)
           since == lastRequest[r.wallet]
<1>2. r.active /\ r \in Snapshot
  <2>1. r.active /\ r \in {Resting} \cup Snapshot
    BY <1>1 DEF FinishRequest, CustodyInv, HandlersOK
  <2> QED  BY <2>1 DEF Resting
<1>3. PolicyAccepts(r, hot) /\ withdrawals' = Append(withdrawals, row)
  BY <1>1 DEF FinishRequest, CreateWithdrawal, NewRow, Queues, storeVars
<1>4. row.wallet = r.wallet /\ row.availableAt = AvailableAt(r)
  BY DEF NewRow
<1>5. r.wallet \in Wallets /\ r.last = since
  BY <1>2 DEF Snapshot, ReadsInv
<1>6. since \in Nat \cup {NoTime} /\ since <= now /\ now \in Nat
  BY <1>5 DEF ReadsInv, CustodyInv, StoreInv
<1>7. Cooldown \in Nat /\ FirstCooldown \in Nat
  BY WithdrawPolicy
<1>8. ~CoolingDown(r)
  BY <1>3 DEF PolicyAccepts
<1> HIDE DEF row
<1>9. withdrawals'[id] = row
  BY <1>3 DEF Queues, CustodyInv, StoreInv, RowsOK
<1>10. since # NoTime
  BY <1>4, <1>9
<1> HIDE DEF since
<1>11. AvailableAt(r) >= since + Cooldown
  <2>1. CASE r.hasPrior
    <3>1. now >= since + Cooldown
      <4>1. Cooldown = 0 \/ ~(now < since + Cooldown)
        BY <1>5, <1>7, <1>8, <1>10, <2>1 DEF CoolingDown
      <4> QED  BY <1>6, <1>7, <1>10, <4>1 DEF NoTime
    <3>2. AvailableAt(r) = now
      BY <2>1 DEF AvailableAt
    <3> QED  BY <3>1, <3>2
  <2>2. CASE ~r.hasPrior
    <3>1. now + FirstCooldown >= since + Cooldown
      BY <1>6, <1>7, <1>10 DEF NoTime
    <3>2. AvailableAt(r) = now + FirstCooldown
      BY <2>2 DEF AvailableAt
    <3> QED  BY <3>1, <3>2
  <2> QED  BY <2>1, <2>2
<1> QED  BY <1>4, <1>9, <1>11 DEF since

\* A request that runs alone honours the cool-down, provided the first one is the
\* longer (24 hours against none in schema.ts:97-99): the flag that the wallet was
\* never paid may be stale, but then the row waits the first cool-down
\* (withdraw-policy.ts:106, 181-201).
THEOREM CooldownsHoldAlone ==
  ASSUME OneAtATime, Cooldown <= FirstCooldown
  PROVE  Spec => CooldownHonoured
<1>1. Init => ReadsInv
  BY DEF Init, EmptyStore, FundedStore, WithdrawInit, ReadsInv, Resting, NoTime
<1>2. CustodyInv /\ ReadsInv /\ [Next]_vars => ReadsInv'
  BY ReadsInvStep
<1>3. CustodyInv /\ ReadsInv /\ [Next]_vars =>
        [\A id \in DOMAIN withdrawals' :
           LET w == withdrawals'[id].wallet
           IN  Queues(id) /\ w \in hasCompleted /\ lastRequest[w] # NoTime
                 => withdrawals'[id].availableAt >= lastRequest[w] + Cooldown]_<<storeVars, now>>
  BY CooldownStep
<1> QED  BY <1>1, <1>2, <1>3, InvariantHolds, PTL DEF Spec, CooldownHonoured
=============================================================================
