------------------------------ MODULE DemoTable ------------------------------
(***************************************************************************)
(* The demo table of apps/web: one shared in-memory table (demo-session.ts)*)
(* behind the routes api/demo/{deal,action,instant,videocate}.  A handler  *)
(* awaits only the request body, before it looks at the table, so each     *)
(* request is one step; what a step leaves behind when it throws half way  *)
(* is modelled with it.                                                    *)
(***************************************************************************)
EXTENDS LedgerOps, BlackjackOps, HouseGames

CONSTANTS
  Seed,          \* the demo credit, usdcToAtomic(100)
  MinBet, MaxBet,
  BetInputs,     \* amounts requests name
  Shoes,         \* orders of the shoe a seed may fix
  VideoSeeds,    \* what a seed of VideoCate draws: [deal, redraw], sequences of rolls
  Helds,         \* sets of places a player may hold
  Plays,         \* rounds of the instant games: [game, pick, rolls]
  MaxNonce       \* bound: bets in a behaviour

ASSUME TableSetup ==
  /\ {Seed, MinBet, MaxBet, MaxNonce} \subseteq Nat
  /\ MinBet > 0
  /\ BetInputs \subseteq Int
  /\ Helds \subseteq SUBSET (1..5)
  /\ \A play \in Plays : play.game \in InstantGames /\ play.rolls \in Seq(Nat)
  /\ \A play \in Plays : play.game = "cateslots" => Len(play.rolls) = 3

VARIABLES
  books,   \* table.ledger: the demo user's account, house equity, applied keys
  hand,    \* table.hand with the nonce of its handId, or NoHand
  video,   \* table.videoCate, or NoVideo
  nonce    \* table.nonce

tableVars == <<books, hand, video, nonce>>

NoHand == [phase |-> "none", nonce |-> 0]
NoVideo == [phase |-> "none", nonce |-> 0]

HandOpen == hand.phase = "player_turn"
VideoOpen == video.phase = "hold"

TableTypeOK ==
  /\ books.account \in Account
  /\ books.house \in Int
  /\ hand.phase \in {"none", "player_turn", "settled"}
  /\ video.phase \in {"none", "hold", "settled"}
  /\ hand.nonce < nonce /\ video.nonce < nonce

\* getDemoTable, on its first call.
TableInit ==
  /\ books = [account |-> Deposited(NewAccount, Seed), house |-> 0, keys |-> {<<"demo-seed">>}]
  /\ hand = NoHand
  /\ video = NoVideo
  /\ nonce = 1

-----------------------------------------------------------------------------
(***************************************************************************)
(* Ledger calls on a value of books: a call is accepted, or throws and     *)
(* leaves the value as it is.  An applied key is accepted and changes      *)
(* nothing.                                                                *)
(***************************************************************************)
LockAccepted(b, a, key) == SafeAmount(a) /\ (key \in b.keys \/ CanLockBet(b.account, a))

LockBet(b, a, key) ==
  IF key \in b.keys THEN b
  ELSE [b EXCEPT !.account = BetLocked(@, a), !.keys = @ \cup {key}]

SettleAccepted(b, s, key) ==
  ValidSettlement(s) /\ (key \in b.keys \/ CanSettle(b.account, s))

\* Fault: the stake goes back to the player, the house's share is not booked.
SettleHandPlayerSideOnly(b, s, key) ==
  IF key \in b.keys THEN b
  ELSE [b EXCEPT !.account = HandSettled(@, s), !.keys = @ \cup {key}]

SettleHand(b, s, key) ==
  IF key \in b.keys THEN b
  ELSE [b EXCEPT !.account = HandSettled(@, s), !.house = @ + s.houseDelta,
                 !.keys = @ \cup {key}]

IsBetWithinLimits(bet) == MinBet <= bet /\ bet <= MaxBet

HandKey(n) == <<"settle-hand", n>>

\* The ledger after a hand has moved: a settled hand is settled in the same request.
AfterMove(b, h, n) ==
  IF h.phase = "settled" THEN SettleHand(b, h.settlement, HandKey(n)) ELSE b

MoveAccepted(b, h, n) ==
  h.phase = "settled" => SettleAccepted(b, h.settlement, HandKey(n))

WithNonce(h, n) ==
  [phase |-> h.phase, bet |-> h.bet, shoe |-> h.shoe, dealt |-> h.dealt, player |-> h.player,
   dealer |-> h.dealer, doubled |-> h.doubled, outcome |-> h.outcome,
   settlement |-> h.settlement, nonce |-> n]

-----------------------------------------------------------------------------
\* Fault: the nonce stays where it is when the hand is settled at once.
DealKeepsNonce(bet, shoe) ==
  LET h == CreateHand(bet, shoe)
      locked == LockBet(books, bet, <<"lock", nonce>>)
  IN  /\ nonce <= MaxNonce
      /\ ~HandOpen
      /\ IsBetWithinLimits(bet)
      /\ LockAccepted(books, bet, <<"lock", nonce>>)
      /\ MoveAccepted(locked, h, nonce)
      /\ nonce' = IF h.phase = "settled" THEN nonce ELSE nonce + 1
      /\ books' = AfterMove(locked, h, nonce)
      /\ hand' = WithNonce(h, nonce)
      /\ UNCHANGED video

\* Fault: a new hand may be dealt over an open one.
DealOverOpenHand(bet, shoe) ==
  LET h == CreateHand(bet, shoe)
      locked == LockBet(books, bet, <<"lock", nonce>>)
  IN  /\ nonce <= MaxNonce
      /\ IsBetWithinLimits(bet)
      /\ LockAccepted(books, bet, <<"lock", nonce>>)
      /\ MoveAccepted(locked, h, nonce)
      /\ nonce' = nonce + 1
      /\ books' = AfterMove(locked, h, nonce)
      /\ hand' = WithNonce(h, nonce)
      /\ UNCHANGED video

\* POST api/demo/deal.  It looks at its own hand, not at an open VideoCate hand.
Deal(bet, shoe) ==
  LET h == CreateHand(bet, shoe)
      locked == LockBet(books, bet, <<"lock", nonce>>)
  IN  /\ nonce <= MaxNonce
      /\ ~HandOpen
      /\ IsBetWithinLimits(bet)
      /\ LockAccepted(books, bet, <<"lock", nonce>>)
      /\ MoveAccepted(locked, h, nonce)
      /\ nonce' = nonce + 1
      /\ books' = AfterMove(locked, h, nonce)
      /\ hand' = WithNonce(h, nonce)
      /\ UNCHANGED video

\* POST api/demo/action: hit and stand move the hand as it is.
Move(h) ==
  /\ MoveAccepted(books, h, hand.nonce)
  /\ books' = AfterMove(books, h, hand.nonce)
  /\ hand' = WithNonce(h, hand.nonce)
  /\ UNCHANGED <<video, nonce>>

HitAction ==
  /\ HandOpen /\ CanHit(hand)
  /\ IsBust(TakeCard(hand).player) => ShoeLasts(TakeCard(hand))
  /\ Move(HitHand(hand))

StandAction == HandOpen /\ CanFinish(hand) /\ Move(StandHand(hand))

\* Fault: the second half of the stake is not locked.
DoubleActionUnlocked ==
  /\ HandOpen /\ CanDoubleHand(hand)
  /\ Move(DoubleHand(hand))

\* Double plays the hand first and locks the second half of the stake then; when
\* the balance cannot cover it the played hand is thrown away and nothing changes.
DoubleAction ==
  LET h == DoubleHand(hand)
      key == <<"double", hand.nonce>>
      locked == LockBet(books, h.bet - hand.bet, key)
  IN  /\ HandOpen /\ CanDoubleHand(hand)
      /\ LockAccepted(books, h.bet - hand.bet, key)
      /\ MoveAccepted(locked, h, hand.nonce)
      /\ books' = AfterMove(locked, h, hand.nonce)
      /\ hand' = WithNonce(h, hand.nonce)
      /\ UNCHANGED <<video, nonce>>

\* A request that took its nonce and could not lock its bet.
NonceSpent(bet, key) ==
  /\ nonce <= MaxNonce
  /\ ~LockAccepted(books, bet, key)
  /\ nonce' = nonce + 1
  /\ UNCHANGED <<books, hand, video>>

\* POST api/demo/videocate.
VideoDeal(bet, seed) ==
  LET key == <<"lock-videocate", nonce>>
  IN  /\ ~HandOpen /\ ~VideoOpen
      /\ IsBetWithinLimits(bet)
      /\ \/ NonceSpent(bet, key)
         \/ /\ nonce <= MaxNonce
            /\ LockAccepted(books, bet, key)
            /\ nonce' = nonce + 1
            /\ books' = LockBet(books, bet, key)
            /\ video' = DealVideoCate(bet, seed, nonce)
            /\ UNCHANGED hand

VideoDraw(held) ==
  LET next == DrawVideoCate(video, held)
      key == <<"settle-videocate", video.nonce>>
  IN  /\ VideoOpen
      /\ SettleAccepted(books, next.settlement, key)
      /\ books' = SettleHand(books, next.settlement, key)
      /\ video' = next
      /\ UNCHANGED <<hand, nonce>>

\* POST api/demo/instant, for a pick the game takes.
Instant(bet, play) ==
  LET s == InstantSettlement(bet, play.game, play.pick, play.rolls)
      key == <<"lock-game", nonce>>
      settleKey == <<"settle-game", nonce>>
      locked == LockBet(books, bet, key)
  IN  /\ ~HandOpen /\ ~VideoOpen
      /\ IsBetWithinLimits(bet)
      /\ \/ NonceSpent(bet, key)
         \/ /\ nonce <= MaxNonce
            /\ PickTaken(play.game, play.pick)
            /\ LockAccepted(books, bet, key)
            /\ SettleAccepted(locked, s, settleKey)
            /\ nonce' = nonce + 1
            /\ books' = SettleHand(locked, s, settleKey)
            /\ UNCHANGED <<hand, video>>

\* The same for a pick that is not taken: it is looked at after the bet was locked.
InstantBadPick(bet, play) ==
  LET key == <<"lock-game", nonce>>
  IN  /\ ~HandOpen /\ ~VideoOpen
      /\ IsBetWithinLimits(bet)
      /\ nonce <= MaxNonce
      /\ ~PickTaken(play.game, play.pick)
      /\ LockAccepted(books, bet, key)
      /\ nonce' = nonce + 1
      /\ books' = LockBet(books, bet, key)
      /\ UNCHANGED <<hand, video>>

TableNext ==
  \/ \E bet \in BetInputs :
       \/ \E shoe \in Shoes : Deal(bet, shoe)
       \/ \E seed \in VideoSeeds : VideoDeal(bet, seed)
       \/ \E play \in Plays : Instant(bet, play) \/ InstantBadPick(bet, play)
  \/ HitAction
  \/ StandAction
  \/ DoubleAction
  \/ \E held \in Helds : VideoDraw(held)

TableSpec == TableInit /\ [][TableNext]_tableVars

-----------------------------------------------------------------------------
OpenStakes ==
  (IF HandOpen THEN hand.bet ELSE 0) + (IF VideoOpen THEN video.bet ELSE 0)

\* Every open hand has its stake locked, the doubled half included: no hand is
\* played on a lock whose key had been used before, and whatever is settled first,
\* the other hand can still be settled (deal/route.ts:41, ledger.ts:126-137).
LockedCoversOpenHands == books.account.lockedHand >= OpenStakes

\* The hand lock is no more than the open stakes either
\* (docs/design/catesino-design-v0.2.2.md:914).
LockedMatchesOpenHands == books.account.lockedHand = OpenStakes

\* Demo credits are neither made nor lost: player and house share the seed.
DemoMoneyConserved == LiabilityOf(books.account) + books.house = Seed

\* An open hand stays on the table until it is settled, and is settled by the
\* ledger in the same request that settles it on the table.
OpenHandsAreFinished ==
  [][/\ HandOpen /\ hand' # hand =>
          /\ hand'.nonce = hand.nonce
          /\ (hand'.phase = "settled") = (HandKey(hand.nonce) \in books'.keys)
     /\ VideoOpen /\ video' # video =>
          /\ video'.nonce = video.nonce
          /\ <<"settle-videocate", video.nonce>> \in books'.keys]_tableVars

\* A draw leaves the cards the request holds where they are, replaces the others with
\* cards that had not been dealt, none twice, and the ledger credits the stake times the
\* best line of the paytable the final five are good for, whatever order the code tries
\* the lines in.
VideoDrawIsHonest ==
  [][VideoOpen /\ video' # video =>
       /\ \A i \in 1..5 :
            IF i \in video'.held THEN video'.cards[i] = video.cards[i]
            ELSE video'.cards[i] \notin ToSet(video.cards)
       /\ \A i, j \in 1..5 : i # j => video'.cards[i] # video'.cards[j]
       /\ BestLinePays(video'.cards, video'.mult)
       /\ books'.account.available = books.account.available + video.bet * video'.mult]_tableVars
=============================================================================
