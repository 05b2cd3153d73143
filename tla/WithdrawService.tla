--------------------------- MODULE WithdrawService ---------------------------
(***************************************************************************)
(* Withdrawals: requestUserWithdraw of custody/withdraw-service.ts with    *)
(* the policy of packages/chain/src/withdraw-policy.ts, the cancellation   *)
(* and the completion of custody/user-store.ts.                            *)
(*                                                                         *)
(* A request reads the user's balance and flags, awaits the balance of the *)
(* hot wallet, and then decides on what it read before the await.          *)
(*                                                                         *)
(* Nothing in the repository sends a withdrawal yet: the send worker and   *)
(* the admin desk are external, and do what the gates written for them     *)
(* (assertWithdrawSendAllowed, assertDualAdminApproval) let them do.       *)
(***************************************************************************)
EXTENDS CustodyStore

CONSTANTS
  Requests,         \* request handlers that may run at the same time
  Amounts,          \* amounts users ask for, as the ledger accepts them
  HotBalances,      \* answers to the question what the hot wallet holds
  Admins,
  Freezable,        \* wallets support looks at
  FirstCooldown,    \* withdrawFirstCooldownHours
  Cooldown,         \* withdrawCooldownMinutes
  ManualThreshold, DualThreshold, PerTxCap, DailyCap

ASSUME WithdrawPolicy ==
  /\ \A a \in Amounts : SafeAmount(a)
  /\ {FirstCooldown, Cooldown, ManualThreshold, DualThreshold, PerTxCap, DailyCap} \subseteq Nat
  /\ HotBalances \subseteq Nat
  /\ ManualThreshold <= DualThreshold

VARIABLES
  requests,     \* handler -> its locals, with what it read of the store
  requestReply, \* handler -> last answer sent
  reviews       \* external: withdrawal -> admins that approved it, in order

withdrawVars == <<requests, requestReply, reviews>>

RequestKey(w, ck) == <<"request", w, ck>>     \* withdrawIdempotencyKey

\* No request is being handled: a fresh handler.
Resting == [active |-> FALSE]

WithdrawInit ==
  /\ requests = [p \in Requests |-> Resting]
  /\ requestReply = [p \in Requests |-> "none"]
  /\ reviews = << >>

-----------------------------------------------------------------------------
\* The handler up to its await: the checked amount and the snapshot of
\* userBalances and getUserFlags.
StartRequest(p, w, a, ck) ==
  /\ ~requests[p].active
  /\ now <= Horizon
  /\ requests' = [requests EXCEPT ![p] =
       [active |-> TRUE, wallet |-> w, amount |-> a, key |-> RequestKey(w, ck),
        available |-> accounts[w].available, frozen |-> accounts[w].withdrawFrozen,
        hasPrior |-> w \in hasCompleted, last |-> lastRequest[w]]]
  /\ requestReply' = [requestReply EXCEPT ![p] = "none"]
  /\ UNCHANGED <<storeVars, now, reviews>>

(***************************************************************************)
(* evaluateWithdrawRequest                                                 *)
(***************************************************************************)
\* Fault: the thresholds are tried in the wrong order.
LevelOfManualFirst(a) ==
  IF a >= ManualThreshold THEN "manual"
  ELSE IF a >= DualThreshold THEN "dual_admin" ELSE "auto"

LevelOf(a) ==
  IF a >= DualThreshold THEN "dual_admin"
  ELSE IF a >= ManualThreshold THEN "manual" ELSE "auto"

\* Fault: the cooldown is counted from a request the handler never reads.
CoolingDownNever(r) == r.hasPrior /\ r.last = NoTime /\ now < Cooldown

CoolingDown(r) ==
  Cooldown > 0 /\ r.hasPrior /\ r.last # NoTime /\ now < r.last + Cooldown

\* Fault: the two cooldowns are exchanged.
AvailableAtExchanged(r) == IF r.hasPrior THEN now + FirstCooldown ELSE now

AvailableAt(r) == IF r.hasPrior THEN now ELSE now + FirstCooldown

PolicyAccepts(r, hot) ==
  /\ ~r.frozen
  /\ r.amount <= r.available
  /\ ~CoolingDown(r)
  /\ OutflowOn(Today) + r.amount <= DailyCap
  /\ LevelOf(r.amount) = "auto" => r.amount <= PerTxCap /\ r.amount <= hot

EndRequest(p, reply) ==
  /\ requests' = [requests EXCEPT ![p] = Resting]
  /\ requestReply' = [requestReply EXCEPT ![p] = reply]

\* The hot balance arrives: policy and createWithdrawal run without an await.
FinishRequest(p, hot) ==
  LET r == requests[p]
  IN  /\ r.active
      /\ \/ /\ PolicyAccepts(r, hot)
            /\ CanCreateWithdrawal(r.wallet, r.amount, r.key)
            /\ CreateWithdrawal(r.wallet, r.amount, LevelOf(r.amount), AvailableAt(r), r.key)
            /\ reviews' = [id \in DOMAIN withdrawals' |->
                             IF id \in DOMAIN reviews THEN reviews[id] ELSE << >>]
            /\ EndRequest(p, "ok")
         \/ /\ ~(PolicyAccepts(r, hot) /\ CanCreateWithdrawal(r.wallet, r.amount, r.key))
            /\ EndRequest(p, "rejected")
            /\ UNCHANGED <<storeVars, reviews>>
      /\ UNCHANGED now

HotBalanceFails(p) ==
  /\ requests[p].active
  /\ EndRequest(p, "error")
  /\ UNCHANGED <<storeVars, now, reviews>>

UserCancels(w, id) ==
  /\ CancelUserWithdrawal(w, id)
  /\ UNCHANGED <<now, withdrawVars>>

-----------------------------------------------------------------------------
(***************************************************************************)
(* External: admins and worker, held to the gates written for them.        *)
(***************************************************************************)
ReviewsNeeded(level) == CASE level = "auto" -> 0 [] level = "manual" -> 1 [] OTHER -> 2

\* One admin signs; assertDualAdminApproval wants two that differ.
Review(id, admin) ==
  LET r == withdrawals[id]
  IN  /\ r.status = "pending"
      /\ Len(reviews[id]) < ReviewsNeeded(r.level)
      /\ \A i \in DOMAIN reviews[id] : reviews[id][i] # admin
      /\ reviews' = [reviews EXCEPT ![id] = Append(@, admin)]
      /\ UNCHANGED <<storeVars, now, requests, requestReply>>

Approve(id) ==
  /\ withdrawals[id].status = "pending"
  /\ Len(reviews[id]) = ReviewsNeeded(withdrawals[id].level)
  /\ SetStatus(id, "approved")
  /\ UNCHANGED <<accounts, appliedKeys, deposits, hotOutflow, lastRequest, hasCompleted,
                 now, withdrawVars>>

\* assertWithdrawSendAllowed, for the record's own destination and a simulation
\* that succeeds.
SendAllowed(r) == r.status \in {"approved", "sending"} /\ r.amount <= PerTxCap

WorkerPicks(id) ==
  /\ withdrawals[id].status = "approved"
  /\ SendAllowed(withdrawals[id])
  /\ now >= withdrawals[id].availableAt
  /\ SetStatus(id, "sending")
  /\ UNCHANGED <<accounts, appliedKeys, deposits, hotOutflow, lastRequest, hasCompleted,
                 now, withdrawVars>>

WorkerConfirms(id) ==
  /\ SendAllowed(withdrawals[id])
  /\ withdrawals[id].status = "sending"
  /\ MarkWithdrawalSent(id)
  /\ UNCHANGED <<now, withdrawVars>>

\* Support freezes or unfreezes a wallet (setWithdrawFrozen).
SupportFreezes(w, frozen) ==
  /\ accounts[w].withdrawFrozen # frozen
  /\ accounts' = [accounts EXCEPT ![w].withdrawFrozen = frozen]
  /\ UNCHANGED <<appliedKeys, deposits, withdrawals, hotOutflow, lastRequest, hasCompleted,
                 now, withdrawVars>>

\* The clock; after Horizon it runs on until every cooldown is over.
Tick ==
  /\ \/ now < Horizon
     \/ now < Horizon + FirstCooldown /\ \A p \in Requests : ~requests[p].active
  /\ now' = now + 1
  /\ UNCHANGED <<storeVars, withdrawVars>>

WithdrawStep ==
  \/ \E p \in Requests :
       \/ \E w \in Wallets, a \in Amounts, ck \in ClientKeys : StartRequest(p, w, a, ck)
       \/ \E hot \in HotBalances : FinishRequest(p, hot)
       \/ HotBalanceFails(p)
  \/ \E id \in DOMAIN withdrawals :
       \/ \E w \in Wallets : UserCancels(w, id)
       \/ \E admin \in Admins : Review(id, admin)
       \/ Approve(id)
       \/ WorkerPicks(id)
       \/ WorkerConfirms(id)
  \/ \E w \in Freezable, frozen \in BOOLEAN : SupportFreezes(w, frozen)
  \/ Tick
-----------------------------------------------------------------------------
\* Queueing: the row a step adds to withdrawalsById, if it adds one.
Queues(id) == id \in DOMAIN withdrawals' \ DOMAIN withdrawals

\* A freeze stops withdrawals at once, the requests included that read the flag
\* before it was set and still wait for the hot balance: the policy decides on the
\* stale flag, the ledger on the present one (withdraw-service.ts:94-95, ledger.ts:293).
FrozenQueuesNothing ==
  [][\A id \in DOMAIN withdrawals' :
       Queues(id) => ~accounts[withdrawals'[id].wallet].withdrawFrozen]_<<storeVars, now>>

\* The first money to leave for a wallet leaves no sooner than FirstCooldown after
\* it was asked for (design v0.2.2:1138, withdraw-policy.ts:181-201).
FirstPayoutWaits ==
  [][\A w \in hasCompleted' \ hasCompleted :
       \E id \in DOMAIN withdrawals :
         /\ withdrawals[id].wallet = w
         /\ withdrawals[id].status # "sent" /\ withdrawals'[id].status = "sent"
         /\ now >= withdrawals[id].createdAt + FirstCooldown]_<<storeVars, now>>

\* Once a wallet has been paid, a further withdrawal is never payable sooner than
\* Cooldown after the request before it (withdraw-policy.ts:106).
CooldownHonoured ==
  [][\A id \in DOMAIN withdrawals' :
       LET w == withdrawals'[id].wallet
       IN  Queues(id) /\ w \in hasCompleted /\ lastRequest[w] # NoTime
             => withdrawals'[id].availableAt >= lastRequest[w] + Cooldown]_<<storeVars, now>>

\* What is cleared for sending was approved by as many different admins as its
\* amount asks for: one from ManualThreshold, two from DualThreshold
\* (design v0.2.2:1139-1140).
LargeSendsApproved ==
  \A id \in DOMAIN withdrawals :
    LET r == withdrawals[id]
        admins == {reviews[id][i] : i \in DOMAIN reviews[id]}
    IN  r.status \in {"approved", "sending", "sent"} =>
          /\ r.amount >= ManualThreshold => admins # {}
          /\ r.amount >= DualThreshold => Cardinality(admins) >= 2

\* What leaves the hot wallet on one day stays within the daily cap
\* (design v0.2.2:1151, withdraw-policy.ts:108).
OutflowWithinDailyCap == \A day \in DOMAIN hotOutflow : hotOutflow[day] <= DailyCap

\* Liveness: what is queued is sent or cancelled at last, provided admins and worker
\* do what the gates let them do.
EveryWithdrawalEnds ==
  \A id \in 1..Cardinality(Wallets \X ClientKeys) :
    id \in DOMAIN withdrawals
      ~> id \in DOMAIN withdrawals /\ withdrawals[id].status \notin OpenStatuses
=============================================================================
