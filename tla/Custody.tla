------------------------------- MODULE Custody -------------------------------
(***************************************************************************)
(* The real-money side of apps/web: deposit claims and withdrawals over    *)
(* the one in-memory store of custody/user-store.ts.  Node runs one        *)
(* handler at a time and changes handlers only at an await, so a step is   *)
(* what a handler does from one await to the next.  A restart loses the    *)
(* store and every handler; the chain and the clock are not ours to lose.  *)
(***************************************************************************)
EXTENDS DepositService, WithdrawService

CONSTANTS
  InitialFunds,  \* what every wallet has been credited at the start
  MaxRestarts    \* bound: restarts of the process

ASSUME CustodyBounds == InitialFunds \in 0..MaxAtomicAmount /\ MaxRestarts \in Nat

VARIABLE restarts

vars == <<storeVars, now, depositVars, withdrawVars, restarts>>

\* A deposit credited before the first step; its signature is not claimed again.
FundingSig(w) == <<"funding", w>>

\* The store after every wallet has claimed a deposit of InitialFunds, the empty
\* store if that is nothing.
FundedStore ==
  /\ accounts = [w \in Wallets |-> Deposited(NewAccount, InitialFunds)]
  /\ appliedKeys = [w \in Wallets |-> {DepositKey(FundingSig(w))}]
  /\ deposits = {[sig |-> FundingSig(w), wallet |-> w, amount |-> InitialFunds] : w \in Wallets}
  /\ withdrawals = << >>
  /\ hotOutflow = << >>
  /\ lastRequest = [w \in Wallets |-> NoTime]
  /\ hasCompleted = {}

Init ==
  /\ IF InitialFunds = 0 THEN EmptyStore ELSE FundedStore
  /\ now = 0
  /\ DepositInit
  /\ WithdrawInit
  /\ restarts = 0

LoseHandlers ==
  /\ claims' = [p \in Claims |-> Idle(claims[p].wallet, claims[p].sig)]
  /\ requests' = [p \in Requests |-> Resting]
  /\ UNCHANGED <<now, chain, claimReply, everFinal, credits, requestReply>>

LoseAccounts ==
  /\ accounts' = [w \in Wallets |-> NewAccount]
  /\ appliedKeys' = [w \in Wallets |-> {}]
  /\ lastRequest' = [w \in Wallets |-> NoTime]
  /\ hasCompleted' = {}

\* Fault: deposits survive a restart, the accounts they were credited to do not.
RestartKeepsDeposits ==
  /\ restarts < MaxRestarts
  /\ restarts' = restarts + 1
  /\ LoseAccounts
  /\ withdrawals' = << >>
  /\ hotOutflow' = << >>
  /\ reviews' = << >>
  /\ LoseHandlers
  /\ UNCHANGED deposits

Restart ==
  /\ restarts < MaxRestarts
  /\ restarts' = restarts + 1
  /\ LoseAccounts
  /\ deposits' = {}
  /\ withdrawals' = << >>
  /\ hotOutflow' = << >>
  /\ reviews' = << >>
  /\ LoseHandlers

Deposit == DepositStep /\ UNCHANGED <<withdrawVars, restarts>>
Withdraw == WithdrawStep /\ UNCHANGED <<depositVars, restarts>>

Next == Deposit \/ Withdraw \/ Restart

Spec == Init /\ [][Next]_vars

-----------------------------------------------------------------------------
(***************************************************************************)
(* Fairness.  A handler that waits is resumed: its call ends, with an      *)
(* answer or an error.  Time passes (strongly fair: past Horizon the       *)
(* model's clock waits for open requests).  Admins review and the worker   *)
(* sends what their gates allow (an assumption about external parts).      *)
(***************************************************************************)
HandlersResume ==
  \A p \in Requests :
    WF_vars(((\E hot \in HotBalances : FinishRequest(p, hot)) \/ HotBalanceFails(p))
            /\ UNCHANGED <<depositVars, restarts>>)

OperatorsWork ==
  \A id \in 1..Cardinality(Wallets \X ClientKeys) :
    /\ WF_vars(/\ id \in DOMAIN withdrawals
               /\ \E admin \in Admins : Review(id, admin)
               /\ UNCHANGED <<depositVars, restarts>>)
    /\ WF_vars(id \in DOMAIN withdrawals /\ Approve(id) /\ UNCHANGED <<depositVars, restarts>>)
    /\ WF_vars(id \in DOMAIN withdrawals /\ WorkerPicks(id) /\ UNCHANGED <<depositVars, restarts>>)
    /\ WF_vars(id \in DOMAIN withdrawals /\ WorkerConfirms(id) /\ UNCHANGED <<depositVars, restarts>>)

FairSpec ==
  Spec /\ HandlersResume /\ OperatorsWork /\ SF_vars(Tick /\ UNCHANGED <<depositVars, restarts>>)
=============================================================================
