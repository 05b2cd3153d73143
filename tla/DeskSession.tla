---------------------------- MODULE DeskSession ----------------------------
(***************************************************************************)
(* The desk games: a sealed cookie per browser (desk-api.ts, route         *)
(* demo/desk/action), the price cache of the process (cate-price.ts), the  *)
(* polling client (use-desk.ts) and rounds of Hold the Line played in the  *)
(* browser (HoldTable.tsx).  Yarn a desk wins goes into the gacha cookie   *)
(* of the same request.                                                    *)
(*                                                                         *)
(* Every handler first needs a price.  Without a fresh one in the cache it *)
(* awaits the feed, and other handlers and the clock run in between.       *)
(***************************************************************************)
EXTENDS DeskOps, GachaSession

CONSTANTS
  TapeTtl,    \* TTL_MS of the cache
  Feeds,      \* external: what the feed may answer, [usd, change]
  SaveTries   \* the tries of HoldTable's persist

ASSUME DeskSessionSetup ==
  /\ TapeTtl \in Nat /\ TapeTtl <= RideWindow /\ SaveTries \in Nat \ {0}
  /\ \A f \in Feeds : f.usd \in Nat \ {0} /\ f.change \in Int

VARIABLES
  tape,      \* the cache: a price, when its fetch began, when the feed saw it
  nextDesk,  \* the next deskId (random in the code, so always new)
  rounds,    \* the round of Hold the Line on screen, per browser
  saves      \* finished rounds that HoldTable still has to report

deskVars == <<tape, nextDesk, rounds, saves>>

NoRound == [phase |-> "idle"]

DeskInit ==
  /\ tape = NoTape
  /\ nextDesk = 0
  /\ rounds = [b \in Browsers |-> NoRound]
  /\ saves = [b \in Browsers |-> {}]

-----------------------------------------------------------------------------
(* The client. *)

Refresh(c, b) == Send(c, b, "desk.state", None) /\ UNCHANGED <<gachaVars, deskVars>>
RefreshTape(c, b) == Send(c, b, "desk.price", None) /\ UNCHANGED <<gachaVars, deskVars>>

Act(c, b, kind, input) ==
  /\ kind \in {"desk.open", "desk.settle", "vault.call", "tape.flip"}
  /\ Send(c, b, kind, input)
  /\ UNCHANGED <<gachaVars, deskVars>>

SavingHold(b) == \E c \in Calls : calls[c] # Idle /\ calls[c].browser = b /\ calls[c].kind = "hold.finish"

\* The start button; bounded like a request.
StartRound(b, waves) ==
  /\ rounds[b].phase # "live"
  /\ rounds[b].phase = "idle" \/ ~SavingHold(b)
  /\ "hold.finish" \in agenda.kinds /\ b \in agenda.browsers /\ agenda.left > 0
  /\ agenda' = [agenda EXCEPT !.left = @ - 1]
  /\ rounds' = [rounds EXCEPT ![b] = StartHoldRound(waves)]
  /\ UNCHANGED <<jar, calls, now, gachaVars, tape, nextDesk, saves>>

\* A beat ends with a tap or a timeout; a round that is over is handed to persist.
Beat(b, after) ==
  /\ rounds' = [rounds EXCEPT ![b] = after]
  /\ saves' = IF after.phase = "live" THEN saves
              ELSE [saves EXCEPT ![b] = @ \cup
                {[survived |-> after.phase = "clear", held |-> after.held,
                  total |-> Len(after.waves), tries |-> 1]}]
  /\ UNCHANGED <<browserVars, gachaVars, tape, nextDesk>>

Tap(b) == rounds[b].phase = "live" /\ Beat(b, HoldTap(rounds[b]))
BeatTimeout(b) == rounds[b].phase = "live" /\ Beat(b, HoldTimeout(rounds[b]))

Persist(c, b, save) ==
  /\ ~SavingHold(b)
  /\ Send(c, b, "hold.finish", save)
  /\ saves' = [saves EXCEPT ![b] = @ \ {save}]
  /\ UNCHANGED <<gachaVars, tape, nextDesk, rounds>>

\* What persist does with calls that failed: it tries again, SaveTries times in all.
Retried(failed) ==
  [b \in Browsers |-> saves[b] \cup
    {[calls[c].input EXCEPT !.tries = @ + 1] :
       c \in {d \in failed : /\ calls[d] # Idle /\ calls[d].browser = b /\ calls[d].kind = "hold.finish"
                             /\ calls[d].input.tries < SaveTries}}]

\* The cookies arrive with the head of the answer; its body may still be lost, and then the
\* client takes the save for failed although the desk has counted it.
DeskReceive(c) ==
  Receive(c) /\ saves' \in {saves, Retried({c})} /\ UNCHANGED <<tape, nextDesk, rounds>>

DeskLoseAnswer(c) == LoseAnswer(c) /\ saves' = Retried({c}) /\ UNCHANGED <<tape, nextDesk, rounds>>

\* While another action keeps the client busy, act returns null and the tries run out.
GiveUpSave(b, save) ==
  /\ \E c \in Calls : calls[c] # Idle /\ calls[c].browser = b
  /\ saves' = [saves EXCEPT ![b] = @ \ {save}]
  /\ UNCHANGED <<browserVars, gachaVars, tape, nextDesk, rounds>>

DeskSend(c, b) ==
  \/ Refresh(c, b) \/ RefreshTape(c, b)
  \/ \E kind \in {"desk.open", "desk.settle", "vault.call", "tape.flip"} :
       \E input \in Inputs[kind] : Act(c, b, kind, input)
  \/ \E save \in saves[b] : Persist(c, b, save)

Play(b) ==
  \/ \E waves \in HoldDeals : StartRound(b, waves)
  \/ Tap(b) \/ BeatTimeout(b)
  \/ \E save \in saves[b] : GiveUpSave(b, save)

-----------------------------------------------------------------------------
(* The price. *)

DeskKinds == {"desk.state", "desk.price", "hold.finish", "desk.open", "desk.settle",
              "vault.call", "tape.flip"}

CacheFresh == tape # NoTape /\ now - tape.at < TapeTtl

BeginFetch(c) ==
  /\ calls[c].step = "sent" /\ calls[c].kind \in DeskKinds
  /\ ~CacheFresh
  /\ calls' = [calls EXCEPT ![c] =
       [step |-> "fetching", browser |-> @.browser, kind |-> @.kind, input |-> @.input,
        jar |-> @.jar, began |-> now]]
  /\ UNCHANGED <<jar, now, agenda, gachaVars, deskVars>>

\* Fault: a price is stamped when it arrives, not when it was asked for.
TapesAtArrival(c) ==
  IF calls[c].step = "sent" THEN {tape}
  ELSE {NoTape} \cup {[usd |-> f.usd, change |-> f.change, at |-> now, seen |-> s] :
                        f \in Feeds, s \in {calls[c].began, now}}

\* What fetchCateTape hands to a handler: the cached price, or the feed's, seen somewhere
\* between question and answer and stamped with the question's time, or a failure.
Tapes(c) ==
  IF calls[c].step = "sent" THEN {tape}
  ELSE {NoTape} \cup {[usd |-> f.usd, change |-> f.change, at |-> calls[c].began, seen |-> s] :
                        f \in Feeds, s \in {calls[c].began, now}}

\* Handler c goes on with price t; a fetched one is cached, whichever fetch began first.
GotTape(c, t) ==
  /\ calls[c].step = "fetching" \/ (calls[c].step = "sent" /\ CacheFresh)
  /\ tape' = IF t = NoTape THEN tape ELSE t

-----------------------------------------------------------------------------
(* The server. *)

\* nowMs of loadTickedDesk, read before the price is awaited.
LoadTime(c) == IF calls[c].step = "fetching" THEN calls[c].began ELSE now

SealDesk(d, time) == [desk |-> [state |-> d, exp |-> time + Ttl]]

DeskExpired(c) == calls[c].jar["desk"] = NoCookie \/ LoadTime(c) > calls[c].jar["desk"].exp
LoadedDesk(c) == IF DeskExpired(c) THEN EmptyDesk(nextDesk) ELSE calls[c].jar["desk"].state

\* loadTickedDesk: a ride that was due before the price came is settled and saved.
TickedDesk(c, t) == SettledIfDue(LoadedDesk(c), t, LoadTime(c))
Ticked(c, t) == RideDue(LoadedDesk(c), t, LoadTime(c))

DeskUnchanged == UNCHANGED <<claims, limiterVars, winner, torn, rounds, saves>>

\* The answer with a desk sealed at some time, and grantDeskYarn into the request's locker.
SealedAnswer(c, desk, yarn, time) ==
  LET l == Locked(c)
      fed == YarnBonus(l, yarn)
      paid == fed.yarn > l.yarn
  IN /\ Answer(c, IF paid THEN Over(Saved(fed), SealDesk(desk, time)) ELSE SealDesk(desk, time), NoRoll)
     /\ nextId' = IF paid THEN IdsAfter(Sent(c)) ELSE nextId
     /\ nextDesk' = IF DeskExpired(c) THEN nextDesk + 1 ELSE nextDesk
     /\ DeskUnchanged

\* The answer of a play: the route saves the desk itself.
DeskAnswer(c, desk, yarn) == SealedAnswer(c, desk, yarn, now)

\* An answer that moves nothing but a ride that was due: its cookie goes out with errors
\* too, and is sealed with the time at which the desk was loaded.
DeskKeeps(c, t) ==
  IF Ticked(c, t) THEN SealedAnswer(c, TickedDesk(c, t), 0, LoadTime(c))
  ELSE Refuse(c) /\ UNCHANGED <<nextId, nextDesk>> /\ DeskUnchanged

Handling(c, kind, t) == calls[c].step # "idle" /\ calls[c].kind = kind /\ GotTape(c, t)

DeskPrice(c, t) ==
  Handling(c, "desk.price", t) /\ Refuse(c) /\ UNCHANGED <<nextId, nextDesk>> /\ DeskUnchanged

FinishHold(c, t) ==
  LET desk == TickedDesk(c, t) result == calls[c].input
  IN /\ Handling(c, "hold.finish", t)
     /\ DeskAnswer(c, HoldFinished(desk, result, Day(now)), HoldYarn(desk, result, Day(now)))

CanOpenRide(c, t) == t # NoTape /\ ~RideOpen(TickedDesk(c, t))

OpenRide(c, t) ==
  /\ Handling(c, "desk.open", t) /\ CanOpenRide(c, t)
  /\ DeskAnswer(c, RideOpened(TickedDesk(c, t), calls[c].input, t, now), 0)

\* Fault: a ride that was settled while the desk was loaded is settled again.
CanSettleRideAgain(c, t) ==
  LET desk == TickedDesk(c, t)
  IN /\ t # NoTape /\ desk.ride # NoRide /\ now >= desk.ride.endsAt

CanSettleRide(c, t) ==
  LET desk == TickedDesk(c, t)
  IN /\ ~Ticked(c, t) /\ RideOpen(desk)
     /\ t # NoTape /\ now >= desk.ride.endsAt

SettleRide(c, t) ==
  /\ Handling(c, "desk.settle", t) /\ CanSettleRide(c, t)
  /\ DeskAnswer(c, RideSettled(TickedDesk(c, t), t), 0)

CanCallVault(c, t) == t # NoTape /\ TickedDesk(c, t).vaultDay # Day(now)

CallVault(c, t) ==
  LET desk == TickedDesk(c, t) pick == calls[c].input
  IN /\ Handling(c, "vault.call", t) /\ CanCallVault(c, t)
     /\ DeskAnswer(c, VaultCalled(desk, pick, t, Day(now)), VaultYarn(desk, pick, t, Day(now)))

FlipTape(c, t) ==
  Handling(c, "tape.flip", t) /\ DeskAnswer(c, TapeFlipped(TickedDesk(c, t), calls[c].input), 0)

\* A ride that was settled by the load, or before, is answered and saved as it is.
RideAnswered(c, t) ==
  LET desk == TickedDesk(c, t)
  IN /\ Handling(c, "desk.settle", t)
     /\ desk.ride # NoRide /\ ~RideOpen(desk)
     /\ DeskAnswer(c, desk, 0)

\* The state route, and plays that are refused.
DeskUnmoved(c, t) ==
  /\ \/ Handling(c, "desk.state", t)
     \/ Handling(c, "desk.open", t) /\ ~CanOpenRide(c, t)
     \/ Handling(c, "desk.settle", t) /\ ~CanSettleRide(c, t)
          /\ (TickedDesk(c, t).ride = NoRide \/ RideOpen(TickedDesk(c, t)))
     \/ Handling(c, "vault.call", t) /\ ~CanCallVault(c, t)
  /\ DeskKeeps(c, t)

ServeDesk(c) ==
  \/ BeginFetch(c)
  \/ /\ calls[c].step \in {"sent", "fetching"} /\ calls[c].kind \in DeskKinds
     /\ \E t \in Tapes(c) :
          \/ DeskUnmoved(c, t) \/ DeskPrice(c, t) \/ FinishHold(c, t) \/ OpenRide(c, t)
          \/ SettleRide(c, t) \/ RideAnswered(c, t) \/ CallVault(c, t) \/ FlipTape(c, t)

\* A restart loses the cache; the rounds are played in the browsers, and their reports fail.
DeskRestart == tape' = NoTape /\ saves' = Retried(Calls) /\ UNCHANGED <<nextDesk, rounds>>

-----------------------------------------------------------------------------
(* Properties.  Desks are the desks of all cookies, wherever they are.      *)

Desks == {d.state : d \in Cookies("desk")}

\* A ride is never scored on a price from before it was opened, although prices come from a
\* cache, slow fetches overwrite newer ones, and the ride is settled by whichever request
\* comes first after its window.
RidesScoredOnLaterPrice ==
  \A d \in Desks : d.ride # NoRide /\ d.ride.settled => d.ride.exitSeen >= d.ride.startedAt

Score(past, flips) ==
  25 * past.ended["win"] + 8 * past.ended["push"] + 5 * past.ended["lose"]
  + 30 * past.vaultHits + 8 * (past.vaultCalls - past.vaultHits)
  + 15 * past.tapeHits + 5 * (flips - past.tapeHits)
  + 3 * past.held + 15 * past.cleared

\* A desk's score is what its own plays earned: each ride counted once although loading may
\* settle it before the request does, the vault once per UTC day, every flip by its nonce.
DeskAddsUp ==
  \A d \in Desks :
    /\ d.past.ended["win"] + d.past.ended["push"] + d.past.ended["lose"]
         = d.past.opened - (IF RideOpen(d) THEN 1 ELSE 0)
    /\ d.past.vaultCalls = Cardinality(d.past.vaultDays)
    /\ d.conviction = Score(d.past, d.tapeNonce)

\* A round in which every wick was held and every bait left alone is recorded as survived.
ClearedHoldIsSurvived ==
  \A c \in Calls : (calls[c].step = "answered" /\ calls[c].kind = "hold.finish" /\ calls[c].input.survived)
    => calls[c].set["desk"].state.past.cleared > 0
=============================================================================
