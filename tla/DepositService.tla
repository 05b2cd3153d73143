--------------------------- MODULE DepositService ---------------------------
(***************************************************************************)
(* Deposit claims: claimDeposit of custody/deposit-service.ts with the     *)
(* verification of packages/chain (deposit-claim.ts, rpc-client.ts).       *)
(*                                                                         *)
(* A claim is a request handler that awaits one RPC call after another;    *)
(* other handlers, and the chain, move between any two of them.  Feature   *)
(* flags, addresses and RPC configuration are set: the handlers' earlier   *)
(* returns change nothing.                                                 *)
(***************************************************************************)
EXTENDS CustodyStore

CONSTANTS
  Claims,              \* claim handlers that may run at the same time
  Legs,                \* transfers of the transactions, see below
  MinDeposit,          \* minDepositAtomic
  SecondaryThreshold,  \* secondaryRpcThresholdAtomic
  InitialView,         \* what an RPC node says of a signature at first
  MovingNodes          \* bound: the RPC nodes whose view of the chain changes

\* toPlatform: the cluster's USDC mint and the platform's deposit account.
ASSUME LegsAreTransfers ==
  Legs \subseteq [leg: Nat, sig: Sigs, source: Wallets, amount: Nat, toPlatform: BOOLEAN]

\* A transaction lists its transfers.
ASSUME FewLegs == \A sig \in Sigs : IsFiniteSet({l \in Legs : l.sig = sig})

Nodes == {"primary", "secondary"}
Views == {"absent", "failed", "pending", "final"}

ASSUME FirstViewKnown == InitialView \in Views

VARIABLES
  chain,       \* node -> signature -> what the node answers about it
  claims,      \* handler -> its locals; step 0 is idle
  claimReply   \* handler -> last answer sent

\* History: signatures a node has ever called final; credits per signature.
VARIABLES everFinal, credits

depositVars == <<chain, claims, claimReply, everFinal, credits>>

(***************************************************************************)
(* The RPC calls of one claim, in order: a first look at the primary, and  *)
(* for a large claim the primary again and then the secondary.             *)
(***************************************************************************)
RpcCalls == << <<"primary", "tx">>, <<"primary", "status">>,
               <<"primary", "tx">>, <<"primary", "status">>,
               <<"secondary", "tx">>, <<"secondary", "status">> >>
FirstLookDone == 2
SecondLookDone == 6

\* tx: what the node returned as the transaction; confirmed: whether it reported
\* at least minConfirmations.
Idle(w, sig) ==
  [step |-> 0, wallet |-> w, sig |-> sig,
   tx |-> [n \in Nodes |-> "absent"], confirmed |-> [n \in Nodes |-> FALSE]]

DepositInit ==
  /\ chain = [n \in Nodes |-> [s \in Sigs |-> InitialView]]
  /\ \E w \in Wallets, s \in Sigs : claims = [p \in Claims |-> Idle(w, s)]
  /\ claimReply = [p \in Claims |-> "none"]
  /\ everFinal = [n \in Nodes |-> IF InitialView = "final" THEN Sigs ELSE {}]
  /\ credits = [s \in Sigs |-> 0]

-----------------------------------------------------------------------------
(***************************************************************************)
(* The chain as a node sees it: a transaction lands or fails, gathers      *)
(* confirmations, and may be dropped with the fork it was on.              *)
(***************************************************************************)
NextViews(v) ==
  CASE v = "absent"  -> {"failed", "pending"}
    [] v = "pending" -> {"absent", "final"}
    [] v = "final"   -> {"absent"}
    [] v = "failed"  -> {}

ChainMoves(n, sig) ==
  /\ n \in MovingNodes
  /\ \E v \in NextViews(chain[n][sig]) :
       /\ chain' = [chain EXCEPT ![n][sig] = v]
       /\ everFinal' = IF v = "final" THEN [everFinal EXCEPT ![n] = @ \cup {sig}] ELSE everFinal
       /\ UNCHANGED <<storeVars, now, claims, claimReply, credits>>

-----------------------------------------------------------------------------
(***************************************************************************)
(* evaluateDepositClaim                                                    *)
(***************************************************************************)
\* Only legs of the session's own wallet into the platform's account count.
\* Fault: every leg into the platform's account counts for whoever claims.
MatchedLegsAnySource(w, sig) == {l \in Legs : l.sig = sig /\ l.toPlatform}

MatchedLegs(w, sig) ==
  {l \in Legs : l.sig = sig /\ l.toPlatform /\ l.source = w}

LegAmount == [l \in Legs |-> l.amount]
ClaimTotal(w, sig) == SumFunctionOnSet(LegAmount, MatchedLegs(w, sig))

\* Fault: recordDepositCredit is trusted to notice a second claim.
ClaimAcceptedAgain(w, sig, landed, confirmed) ==
  /\ landed
  /\ confirmed
  /\ MatchedLegs(w, sig) # {}
  /\ ClaimTotal(w, sig) >= MinDeposit
  /\ SafeAmount(ClaimTotal(w, sig))

ClaimAccepted(w, sig, landed, confirmed) ==
  /\ ~IsDepositCredited(sig)
  /\ landed
  /\ confirmed
  /\ MatchedLegs(w, sig) # {}
  /\ \A l \in MatchedLegs(w, sig) : SafeAmount(l.amount)
  /\ ClaimTotal(w, sig) >= MinDeposit
  /\ SafeAmount(ClaimTotal(w, sig))

RequireSecondaryRpc(w, sig) == ClaimTotal(w, sig) >= SecondaryThreshold

StartClaim(p, w, sig) ==
  /\ claims[p].step = 0
  /\ claims' = [claims EXCEPT ![p] = [Idle(w, sig) EXCEPT !.step = 1]]
  /\ claimReply' = [claimReply EXCEPT ![p] = "none"]
  /\ UNCHANGED <<storeVars, now, chain, everFinal, credits>>

\* The handler ends with a reply.
Finish(p, reply) ==
  /\ claims' = [claims EXCEPT ![p] = Idle(claims[p].wallet, claims[p].sig)]
  /\ claimReply' = [claimReply EXCEPT ![p] = reply]

\* The locals after the RPC call the handler is waiting for is answered.
Answered(c) ==
  LET node == RpcCalls[c.step][1]
      view == chain[node][c.sig]
  IN  IF RpcCalls[c.step][2] = "tx"
      THEN [c EXCEPT !.tx[node] =
                  IF view \in {"absent", "failed"} THEN view ELSE "landed"]
      ELSE [c EXCEPT !.confirmed[node] = view = "final"]

\* fetchDepositTransaction throws when the two nodes disagree: on success, or
\* on the legs, which are there exactly when the transaction is, failed or not.
NodesAgree(c) == c.tx["primary"] = c.tx["secondary"]

\* Fault: the second node's confirmations are fetched and not looked at.
AllConfirmedPrimaryOnly(c) == c.confirmed["primary"]

AllConfirmed(c) == c.confirmed["primary"] /\ c.confirmed["secondary"]

CreditAndFinish(p, c) ==
  /\ RecordDepositCredit(c.wallet, c.sig, ClaimTotal(c.wallet, c.sig))
  /\ credits' = IF deposits' # deposits THEN [credits EXCEPT ![c.sig] = @ + 1] ELSE credits
  /\ Finish(p, "ok")

Refuse(p, reply) == Finish(p, reply) /\ UNCHANGED <<storeVars, credits>>

KeepFetching(p, c) ==
  /\ claims' = [claims EXCEPT ![p] = [c EXCEPT !.step = @ + 1]]
  /\ UNCHANGED <<storeVars, credits, claimReply>>

\* The last answer of a look and everything the handler does before it awaits
\* again: evaluation and credit are one step.
RpcAnswers(p) ==
  LET c == Answered(claims[p])
      accepted == ClaimAccepted(c.wallet, c.sig, c.tx["primary"] = "landed",
                    IF c.step = FirstLookDone THEN c.confirmed["primary"] ELSE AllConfirmed(c))
  IN  /\ claims[p].step # 0
      /\ \/ /\ c.step \notin {FirstLookDone, SecondLookDone}
            /\ KeepFetching(p, c)
         \/ /\ c.step = FirstLookDone
            /\ accepted
            /\ IF RequireSecondaryRpc(c.wallet, c.sig)
               THEN KeepFetching(p, c)
               ELSE CreditAndFinish(p, c)
         \/ /\ c.step = SecondLookDone
            /\ NodesAgree(c)
            /\ accepted
            /\ CreditAndFinish(p, c)
         \/ /\ c.step = SecondLookDone
            /\ ~NodesAgree(c)
            /\ Refuse(p, "error")
         \/ /\ c.step \in {FirstLookDone, SecondLookDone}
            /\ c.step = SecondLookDone => NodesAgree(c)
            /\ ~accepted
            /\ Refuse(p, "rejected")
      /\ UNCHANGED <<now, chain, everFinal>>

\* The RPC call fails: the handler answers 502.
RpcFails(p) ==
  /\ claims[p].step # 0
  /\ Refuse(p, "error")
  /\ UNCHANGED <<now, chain, everFinal>>

DepositStep ==
  \/ \E p \in Claims :
       \/ \E w \in Wallets, sig \in Sigs : StartClaim(p, w, sig)
       \/ RpcAnswers(p)
       \/ RpcFails(p)
  \/ \E n \in Nodes, sig \in Sigs : ChainMoves(n, sig)

-----------------------------------------------------------------------------
\* A signature is credited at most once, to one wallet, however many claims for
\* it are in flight and whichever of its sources claims (deposit-claim.ts:125-129).
SignatureCreditedOnce == \A sig \in Sigs : credits[sig] <= 1

\* A claim that is answered with success has credited its own wallet with its own
\* legs: nobody is told ok on another wallet's record (user-store.ts:121-125).
ClaimOkMeansCredited ==
  \A p \in Claims :
    claimReply[p] = "ok" =>
      \E d \in deposits :
        /\ d.sig = claims[p].sig
        /\ d.wallet = claims[p].wallet
        /\ d.amount = ClaimTotal(d.wallet, d.sig)

\* Nothing is credited that the primary node never called final, and nothing
\* large that the secondary never did (deposit-service.ts:67-159).
CreditsWereFinal ==
  \A d \in deposits :
    /\ d.sig \in everFinal["primary"]
    /\ d.amount >= SecondaryThreshold => d.sig \in everFinal["secondary"]

\* Credits never exceed what their transactions paid into the platform's account,
\* and a wallet is credited only from transactions it paid in (deposit-claim.ts:121-126).
CreditsBackedOnChain ==
  \A d \in deposits :
    LET paidIn == {l \in Legs : l.sig = d.sig /\ l.toPlatform}
    IN  /\ d.amount <= SumFunctionOnSet(LegAmount, paidIn)
        /\ d.amount = SumFunctionOnSet(LegAmount, {l \in paidIn : l.source = d.wallet})
=============================================================================
