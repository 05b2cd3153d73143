----------------------------- MODULE TableProofs -----------------------------
(***************************************************************************)
(* Proofs about the demo table, for any shoes, seeds, picks and bets, and  *)
(* any number of requests.                                                 *)
(*                                                                         *)
(* Two hands share one lock, and the ledger skips a call whose key it has  *)
(* applied.  The inductive invariant says that the lock covers both hands, *)
(* and that the keys an open hand will still use are unused: those of a    *)
(* nonce not given out yet, and those that settle or double the hand.      *)
(***************************************************************************)
EXTENDS DemoTable, TLAPS

BooksOK(b) ==
  /\ b = [account |-> b.account, house |-> b.house, keys |-> b.keys]
  /\ b.account \in Account /\ b.house \in Int
  /\ LiabilityOf(b.account) + b.house = Seed

\* A hand record, and a hand whose settlement, if it has one, is of its own stake.
HandShape(h) ==
  {"phase", "bet", "shoe", "dealt", "player", "dealer", "doubled", "outcome", "settlement"}
    \subseteq DOMAIN h

SettlesBet(s, bet) == s.bet = bet /\ s.credit \in Int /\ s.houseDelta \in Int

Played(h, bet) ==
  /\ HandShape(h) /\ h.bet = bet
  /\ h.phase \in {"player_turn", "settled"}
  /\ h.phase = "settled" => SettlesBet(h.settlement, bet)

KeysAhead == \A n \in Nat : n >= nonce => \A name : <<name, n>> \notin books.keys

HandInv ==
  /\ hand.phase \in {"none", "player_turn", "settled"}
  /\ hand.nonce \in Nat /\ hand.nonce < nonce
  /\ HandOpen =>
       /\ HandShape(hand) /\ hand.bet \in Nat
       /\ HandKey(hand.nonce) \notin books.keys
       /\ <<"double", hand.nonce>> \notin books.keys

VideoInv ==
  /\ video.phase \in {"none", "hold", "settled"}
  /\ video.nonce \in Nat /\ video.nonce < nonce
  /\ VideoOpen => video.bet \in Nat

\* The inductive invariant.
TableInv ==
  /\ nonce \in Nat /\ BooksOK(books)
  /\ KeysAhead /\ HandInv /\ VideoInv /\ LockedCoversOpenHands

-----------------------------------------------------------------------------
(* Hands. *)

LEMMA SettledIsPlayed ==
  ASSUME NEW h, HandShape(h), h.bet \in Nat
  PROVE  Played(Settled(h), h.bet) /\ Settled(h).phase = "settled"
<1> DEFINE outcome == ResolveOutcome(h.player, h.dealer)
           s == SettlementFromOutcome(outcome, h.bet)
<1>1. NetWin(outcome, h.bet) \in Int
  <2> HIDE DEF outcome
  <2>1. (h.bet * 3) \div 2 \in Int OBVIOUS
  <2>2. QED BY <2>1 DEF NetWin
<1>2. SettlesBet(s, h.bet)
  BY <1>1 DEF SettlesBet, SettlementFromOutcome
<1> HIDE DEF s, outcome
<1>3. Settled(h) = [h EXCEPT !.phase = "settled", !.outcome = outcome, !.settlement = s]
  BY DEF Settled, s, outcome
<1>4. /\ HandShape(Settled(h)) /\ Settled(h).phase = "settled"
      /\ Settled(h).bet = h.bet /\ Settled(h).settlement = s
  BY <1>3 DEF HandShape
<1>5. QED BY <1>2, <1>4 DEF Played

LEMMA FinishedIsPlayed ==
  ASSUME NEW h, HandShape(h), h.bet \in Nat
  PROVE  Played(FinishDealer(h), h.bet) /\ FinishDealer(h).phase = "settled"
<1> DEFINE n == IF IsBust(h.player) THEN 0 ELSE Min(StandingDraws(h))
           g == [h EXCEPT !.dealer = @ \o SubSeq(h.shoe, h.dealt + 1, h.dealt + n), !.dealt = @ + n]
<1>1. HandShape(g) /\ g.bet = h.bet
  BY DEF HandShape
<1>2. FinishDealer(h) = Settled(g)
  BY DEF FinishDealer
<1> HIDE DEF g
<1>3. QED BY <1>1, <1>2, SettledIsPlayed

LEMMA TakenCard ==
  ASSUME NEW h, HandShape(h)
  PROVE  HandShape(TakeCard(h)) /\ TakeCard(h).bet = h.bet /\ TakeCard(h).phase = h.phase
BY DEF TakeCard, HandShape

LEMMA MovesPlay ==
  ASSUME NEW h, HandShape(h), h.bet \in Nat, h.phase = "player_turn"
  PROVE  /\ Played(HitHand(h), h.bet)
         /\ Played(StandHand(h), h.bet) /\ StandHand(h).phase = "settled"
         /\ Played(DoubleHand(h), 2 * h.bet) /\ DoubleHand(h).phase = "settled"
<1>1. Played(HitHand(h), h.bet)
  BY TakenCard, FinishedIsPlayed DEF HitHand, Played
<1>2. Played(StandHand(h), h.bet) /\ StandHand(h).phase = "settled"
  BY FinishedIsPlayed DEF StandHand
<1>3. HandShape(Doubled(h)) /\ Doubled(h).bet = 2 * h.bet
  <2>1. HandShape(TakeCard(h)) /\ TakeCard(h).bet = h.bet BY TakenCard
  <2>2. QED BY <2>1 DEF Doubled, HandShape
<1>4. Played(DoubleHand(h), 2 * h.bet) /\ DoubleHand(h).phase = "settled"
  <2>1. 2 * h.bet \in Nat OBVIOUS
  <2>2. QED BY <1>3, <2>1, FinishedIsPlayed DEF DoubleHand
<1>5. QED BY <1>1, <1>2, <1>4

LEMMA CreatedIsPlayed ==
  ASSUME NEW bet \in Nat, NEW shoe
  PROVE  Played(CreateHand(bet, shoe), bet)
<1> DEFINE h == [phase |-> "player_turn", bet |-> bet, shoe |-> shoe, dealt |-> 4,
                 player |-> <<shoe[1], shoe[3]>>, dealer |-> <<shoe[2], shoe[4]>>,
                 doubled |-> FALSE, outcome |-> "none", settlement |-> NoSettlement]
<1>1. HandShape(h) /\ h.bet = bet /\ h.phase = "player_turn"
  BY DEF HandShape
<1>2. CreateHand(bet, shoe) = IF DealerPeeks(h) \/ IsBlackjack(h.player) THEN Settled(h) ELSE h
  BY DEF CreateHand
<1> HIDE DEF h
<1>3. QED BY <1>1, <1>2, SettledIsPlayed DEF Played

\* Writing the nonce down changes nothing else.
LEMMA NumberedHand ==
  ASSUME NEW h, NEW bet, NEW n, Played(h, bet)
  PROVE  Played(WithNonce(h, n), bet) /\ WithNonce(h, n).phase = h.phase /\ WithNonce(h, n).nonce = n
BY DEF Played, WithNonce, HandShape

-----------------------------------------------------------------------------
(* The ledger's calls. *)

LEMMA LockedBooks ==
  ASSUME NEW b, BooksOK(b), NEW a, NEW key, LockAccepted(b, a, key), key \notin b.keys
  PROVE  /\ a \in Nat /\ BooksOK(LockBet(b, a, key))
         /\ LockBet(b, a, key).keys = b.keys \cup {key}
         /\ LockBet(b, a, key).account.lockedHand = b.account.lockedHand + a
<1> DEFINE x == b.account
           y == BetLocked(x, a)
<1>1. a \in Nat /\ x.available >= a /\ x \in Account /\ b.house \in Int /\ LiabilityOf(x) + b.house = Seed
  BY DEF LockAccepted, SafeAmount, CanLockBet, BooksOK
<1>2. /\ x.available \in Nat /\ x.lockedHand \in Nat /\ x.lockedWithdraw \in Nat
      /\ y = [x EXCEPT !.available = x.available - a, !.lockedHand = x.lockedHand + a]
  BY <1>1 DEF BetLocked, Account
<1>3. /\ y.available = x.available - a /\ y.lockedHand = x.lockedHand + a
      /\ y.lockedWithdraw = x.lockedWithdraw
  BY <1>1, <1>2 DEF Account
<1>4. y \in Account
  <2>1. x.available - a \in Nat /\ x.lockedHand + a \in Nat BY <1>1, <1>2
  <2>2. QED BY <1>1, <1>2, <2>1 DEF Account
<1>5. LiabilityOf(y) = LiabilityOf(x)
  BY <1>1, <1>2, <1>3 DEF LiabilityOf
<1>6. LockBet(b, a, key) = [account |-> y, house |-> b.house, keys |-> b.keys \cup {key}]
  BY DEF LockBet, BooksOK
<1> HIDE DEF x, y
<1>7. QED BY <1>1, <1>3, <1>4, <1>5, <1>6 DEF BooksOK, x

LEMMA SettledBooks ==
  ASSUME NEW b, BooksOK(b), NEW s, NEW bet \in Nat, SettlesBet(s, bet), NEW key, SettleAccepted(b, s, key)
  PROVE  /\ BooksOK(SettleHand(b, s, key))
         /\ SettleHand(b, s, key).keys = b.keys \cup {key}
         /\ SettleHand(b, s, key).account.lockedHand >= b.account.lockedHand - bet
<1>1. CASE key \in b.keys
  BY <1>1 DEF SettleHand, BooksOK, Account
<1>2. CASE key \notin b.keys
  <2> DEFINE x == b.account
             y == HandSettled(x, s)
  <2>1. /\ s.bet = bet /\ s.credit \in Nat /\ s.houseDelta \in Int /\ s.credit + s.houseDelta = bet
        /\ x.lockedHand >= bet /\ x \in Account /\ b.house \in Int /\ LiabilityOf(x) + b.house = Seed
    BY <1>2 DEF SettlesBet, SettleAccepted, ValidSettlement, CanSettle, BooksOK
  <2>2. /\ x.available \in Nat /\ x.lockedHand \in Nat /\ x.lockedWithdraw \in Nat
        /\ y = [x EXCEPT !.lockedHand = x.lockedHand - bet, !.available = x.available + s.credit]
    BY <2>1 DEF HandSettled, Account
  <2>3. /\ y.available = x.available + s.credit /\ y.lockedHand = x.lockedHand - bet
        /\ y.lockedWithdraw = x.lockedWithdraw
    BY <2>1, <2>2 DEF Account
  <2>4. y \in Account
    <3>1. x.lockedHand - bet \in Nat /\ x.available + s.credit \in Nat BY <2>1, <2>2
    <3>2. QED BY <2>1, <2>2, <3>1 DEF Account
  <2>5. LiabilityOf(y) + (b.house + s.houseDelta) = Seed
    BY <2>1, <2>2, <2>3 DEF LiabilityOf
  <2>6. SettleHand(b, s, key) =
          [account |-> y, house |-> b.house + s.houseDelta, keys |-> b.keys \cup {key}]
    BY <1>2 DEF SettleHand, BooksOK
  <2> HIDE DEF x, y
  <2>7. b.house + s.houseDelta \in Int /\ b.account = x
    BY <2>1 DEF x
  <2>8. y.lockedHand >= x.lockedHand - bet
    BY <2>2, <2>3
  <2>9. QED BY <2>4, <2>5, <2>6, <2>7, <2>8 DEF BooksOK
<1>3. QED BY <1>1, <1>2

\* A hand that has moved, and its settlement if it was settled by the move.
LEMMA MovedBooks ==
  ASSUME NEW b, BooksOK(b), NEW h, NEW bet \in Nat, Played(h, bet), NEW n, MoveAccepted(b, h, n)
  PROVE  /\ BooksOK(AfterMove(b, h, n))
         /\ AfterMove(b, h, n).keys = b.keys \cup (IF h.phase = "settled" THEN {HandKey(n)} ELSE {})
         /\ AfterMove(b, h, n).account.lockedHand >=
              b.account.lockedHand - (IF h.phase = "settled" THEN bet ELSE 0)
<1>1. CASE h.phase = "settled"
  BY <1>1, SettledBooks DEF AfterMove, MoveAccepted, Played
<1>2. CASE h.phase # "settled"
  BY <1>2 DEF AfterMove, BooksOK, Account
<1>3. QED BY <1>1, <1>2

-----------------------------------------------------------------------------
(* The requests. *)

Stakes(h, v) ==
  (IF h.phase = "player_turn" THEN h.bet ELSE 0) + (IF v.phase = "hold" THEN v.bet ELSE 0)

\* Keys of nonces that were given out before "next".
KeysBefore(used, next) == \A key \in used : \E n \in Nat : \E name : key = <<name, n>> /\ n < next

\* What is left to show of a request that spends nonces and keys.
LEMMA RequestKeeps ==
  ASSUME TableInv, nonce' \in Nat, nonce' >= nonce, BooksOK(books'),
         NEW used, books'.keys = books.keys \cup used,
         KeysBefore(used, nonce'), HandInv', VideoInv', books'.account.lockedHand >= Stakes(hand', video')
  PROVE  TableInv'
<1>1. KeysAhead'
  <2> SUFFICES ASSUME NEW n \in Nat, n >= nonce', NEW name PROVE <<name, n>> \notin books'.keys
    BY DEF KeysAhead
  <2>1. <<name, n>> \notin books.keys BY DEF TableInv, KeysAhead
  <2>2. <<name, n>> \notin used BY DEF KeysBefore
  <2>3. QED BY <2>1, <2>2
<1>2. LockedCoversOpenHands'
  BY DEF LockedCoversOpenHands, OpenStakes, HandOpen, VideoOpen, Stakes
<1>3. QED BY <1>1, <1>2 DEF TableInv

LEMMA DealKeeps ==
  ASSUME TableInv, NEW bet \in Int, NEW shoe, Deal(bet, shoe)
  PROVE  TableInv'
<1> DEFINE h == CreateHand(bet, shoe)
           lock == <<"lock", nonce>>
           locked == LockBet(books, bet, lock)
           used == {lock} \cup (IF h.phase = "settled" THEN {HandKey(nonce)} ELSE {})
<1>1. /\ ~HandOpen /\ LockAccepted(books, bet, lock) /\ MoveAccepted(locked, h, nonce)
      /\ nonce' = nonce + 1 /\ books' = AfterMove(locked, h, nonce)
      /\ hand' = WithNonce(h, nonce) /\ video' = video
  BY DEF Deal
<1>2. lock \notin books.keys /\ HandKey(nonce) \notin books.keys /\ <<"double", nonce>> \notin books.keys
      /\ nonce \in Nat
  BY DEF TableInv, KeysAhead, HandKey
<1>3. /\ bet \in Nat /\ BooksOK(locked) /\ locked.keys = books.keys \cup {lock}
      /\ locked.account.lockedHand = books.account.lockedHand + bet
  BY <1>1, <1>2, LockedBooks DEF TableInv
<1>4. Played(h, bet) BY <1>3, CreatedIsPlayed
<1> HIDE DEF h, locked
<1>5. /\ BooksOK(books') /\ books'.keys = books.keys \cup used
      /\ books'.account.lockedHand >=
           books.account.lockedHand + bet - (IF h.phase = "settled" THEN bet ELSE 0)
  <2>1. AfterMove(locked, h, nonce).keys =
          locked.keys \cup (IF h.phase = "settled" THEN {HandKey(nonce)} ELSE {})
    BY <1>1, <1>3, <1>4, MovedBooks
  <2>2. /\ BooksOK(books')
        /\ books'.account.lockedHand >= locked.account.lockedHand - (IF h.phase = "settled" THEN bet ELSE 0)
    BY <1>1, <1>3, <1>4, MovedBooks
  <2>3. books'.keys = books.keys \cup used
    BY <1>1, <1>3, <2>1
  <2>4. books.account.lockedHand \in Int /\ locked.account.lockedHand \in Int
    BY <1>3 DEF TableInv, BooksOK, Account
  <2> HIDE DEF used
  <2>5. QED BY <1>3, <2>2, <2>3, <2>4
<1>6. /\ Played(hand', bet) /\ hand'.phase = h.phase /\ hand'.nonce = nonce
  BY <1>1, <1>4, NumberedHand
<1>7. HandInv'
  <2>1. HandOpen' => h.phase # "settled"
    BY <1>6 DEF HandOpen
  <2>2. HandOpen' => HandKey(nonce) \notin books'.keys /\ <<"double", nonce>> \notin books'.keys
    BY <1>2, <1>5, <2>1 DEF HandKey
  <2>3. QED BY <1>1, <1>2, <1>3, <1>6, <2>2 DEF HandInv, Played, HandOpen
<1>8. VideoInv'
  BY <1>1, <1>2 DEF VideoInv, VideoOpen, TableInv
<1>9. books'.account.lockedHand >= Stakes(hand', video')
  <2>1. books.account.lockedHand \in Nat /\ books'.account.lockedHand \in Nat
    BY <1>5 DEF TableInv, BooksOK, Account
  <2>2. books.account.lockedHand >= IF VideoOpen THEN video.bet ELSE 0
    BY <1>1 DEF TableInv, LockedCoversOpenHands, OpenStakes, VideoInv
  <2>3. VideoOpen => video.bet \in Nat
    BY DEF TableInv, VideoInv
  <2>4. h.phase \in {"player_turn", "settled"} /\ hand'.bet = bet
    BY <1>4, <1>6 DEF Played
  <2>5. QED BY <1>1, <1>3, <1>5, <1>6, <2>1, <2>2, <2>3, <2>4 DEF Stakes, VideoOpen
<1>10. KeysBefore(used, nonce')
  BY <1>1, <1>2 DEF HandKey, KeysBefore
<1> HIDE DEF used
<1>11. nonce' \in Nat /\ nonce' >= nonce BY <1>1, <1>2
<1>12. BooksOK(books') /\ books'.keys = books.keys \cup used BY <1>5
<1>13. QED BY <1>7, <1>8, <1>9, <1>10, <1>11, <1>12, RequestKeeps

\* The hand on the table has moved, with "bet" at stake on it and locked for it.
LEMMA PlayKeeps ==
  ASSUME TableInv, HandOpen, UNCHANGED <<video, nonce>>, NEW b, BooksOK(b), NEW used,
         b.keys = books.keys \cup used, used \subseteq {<<"double", hand.nonce>>},
         NEW bet \in Nat, b.account.lockedHand = books.account.lockedHand + bet - hand.bet,
         NEW h, Played(h, bet), used = {} \/ h.phase = "settled", MoveAccepted(b, h, hand.nonce),
         books' = AfterMove(b, h, hand.nonce), hand' = WithNonce(h, hand.nonce)
  PROVE  /\ TableInv'
         /\ hand'.nonce = hand.nonce
         /\ (hand'.phase = "settled") = (HandKey(hand.nonce) \in books'.keys)
<1> DEFINE gone == used \cup (IF h.phase = "settled" THEN {HandKey(hand.nonce)} ELSE {})
<1>1. /\ hand.nonce \in Nat /\ hand.nonce < nonce /\ hand.bet \in Nat /\ nonce \in Nat
      /\ HandKey(hand.nonce) \notin books.keys /\ <<"double", hand.nonce>> \notin books.keys
  BY DEF TableInv, HandInv
<1>2. /\ BooksOK(books')
      /\ books'.account.lockedHand >= b.account.lockedHand - (IF h.phase = "settled" THEN bet ELSE 0)
  BY MovedBooks
<1>3. books'.keys = books.keys \cup gone
  <2>1. AfterMove(b, h, hand.nonce).keys =
          b.keys \cup (IF h.phase = "settled" THEN {HandKey(hand.nonce)} ELSE {})
    BY MovedBooks
  <2>2. QED BY <2>1
<1>4. Played(hand', bet) /\ hand'.phase = h.phase /\ hand'.nonce = hand.nonce
  BY NumberedHand
<1>5. (hand'.phase = "settled") = (HandKey(hand.nonce) \in books'.keys)
  BY <1>1, <1>3, <1>4 DEF HandKey
<1>6. HandInv'
  <2>1. HandOpen' => HandKey(hand.nonce) \notin books'.keys /\ <<"double", hand.nonce>> \notin books'.keys
    BY <1>1, <1>3, <1>4 DEF HandKey, HandOpen
  <2>2. QED BY <1>1, <1>4, <2>1 DEF HandInv, Played, HandOpen
<1>7. VideoInv'
  BY DEF VideoInv, VideoOpen, TableInv
<1>8. books'.account.lockedHand >= Stakes(hand', video')
  <2>1. /\ books.account.lockedHand \in Nat /\ books'.account.lockedHand \in Nat
        /\ b.account.lockedHand \in Nat
    BY <1>2 DEF TableInv, BooksOK, Account
  <2>2. books.account.lockedHand >= hand.bet + (IF VideoOpen THEN video.bet ELSE 0)
    BY DEF TableInv, LockedCoversOpenHands, OpenStakes
  <2>3. VideoOpen => video.bet \in Nat
    BY DEF TableInv, VideoInv
  <2>4. h.phase \in {"player_turn", "settled"} /\ hand'.bet = bet
    BY <1>4 DEF Played
  <2>5. QED BY <1>1, <1>2, <1>4, <2>1, <2>2, <2>3, <2>4 DEF Stakes, VideoOpen
<1>9. KeysBefore(gone, nonce')
  BY <1>1 DEF HandKey, KeysBefore
<1> HIDE DEF gone
<1>10. nonce' \in Nat /\ nonce' >= nonce BY <1>1
<1>11. BooksOK(books') BY <1>2
<1>12. TableInv' BY <1>3, <1>6, <1>7, <1>8, <1>9, <1>10, <1>11, RequestKeeps
<1>13. QED BY <1>4, <1>5, <1>12

LEMMA MoveKeeps ==
  ASSUME TableInv, HandOpen, NEW h, Played(h, hand.bet), Move(h)
  PROVE  /\ TableInv'
         /\ hand'.nonce = hand.nonce
         /\ (hand'.phase = "settled") = (HandKey(hand.nonce) \in books'.keys)
<1>1. BooksOK(books) /\ hand.bet \in Nat BY DEF TableInv, HandInv
<1>2. books.account.lockedHand = books.account.lockedHand + hand.bet - hand.bet
  BY <1>1 DEF BooksOK, Account
<1>3. QED BY <1>1, <1>2, PlayKeeps DEF Move

LEMMA DoubleKeeps ==
  ASSUME TableInv, DoubleAction
  PROVE  /\ TableInv'
         /\ hand'.nonce = hand.nonce
         /\ (hand'.phase = "settled") = (HandKey(hand.nonce) \in books'.keys)
<1> DEFINE h == DoubleHand(hand)
           key == <<"double", hand.nonce>>
           locked == LockBet(books, h.bet - hand.bet, key)
<1>1. /\ HandOpen /\ LockAccepted(books, h.bet - hand.bet, key) /\ MoveAccepted(locked, h, hand.nonce)
      /\ books' = AfterMove(locked, h, hand.nonce) /\ hand' = WithNonce(h, hand.nonce)
      /\ UNCHANGED <<video, nonce>>
  BY DEF DoubleAction
<1>2. HandShape(hand) /\ hand.bet \in Nat /\ key \notin books.keys /\ BooksOK(books)
  BY <1>1 DEF TableInv, HandInv
<1>3. Played(h, 2 * hand.bet) /\ h.phase = "settled"
  BY <1>1, <1>2, MovesPlay DEF HandOpen
<1>4. h.bet = 2 * hand.bet BY <1>3 DEF Played
<1>5. /\ BooksOK(locked) /\ locked.keys = books.keys \cup {key}
      /\ locked.account.lockedHand = books.account.lockedHand + (h.bet - hand.bet)
  BY <1>1, <1>2, LockedBooks
<1>6. locked.account.lockedHand = books.account.lockedHand + 2 * hand.bet - hand.bet
  <2>1. books.account.lockedHand \in Nat BY <1>2 DEF BooksOK, Account
  <2>2. QED BY <1>2, <1>4, <1>5, <2>1
<1> HIDE DEF h, locked
<1>7. 2 * hand.bet \in Nat BY <1>2
<1> DEFINE used == {key}
<1>8. locked.keys = books.keys \cup used /\ used \subseteq {<<"double", hand.nonce>>} BY <1>5
<1> HIDE DEF used
<1>9. QED BY <1>1, <1>3, <1>5, <1>6, <1>7, <1>8, PlayKeeps

LEMMA NonceSpentKeeps ==
  ASSUME TableInv, NEW bet, NEW key, NonceSpent(bet, key)
  PROVE  TableInv'
BY DEF TableInv, NonceSpent, KeysAhead, HandInv, VideoInv, LockedCoversOpenHands, OpenStakes,
       HandOpen, VideoOpen, BooksOK

LEMMA VideoDealKeeps ==
  ASSUME TableInv, NEW bet \in Int, NEW seed, VideoDeal(bet, seed)
  PROVE  TableInv'
<1> DEFINE key == <<"lock-videocate", nonce>>
<1>1. CASE NonceSpent(bet, key)
  BY <1>1, NonceSpentKeeps
<1>2. CASE /\ LockAccepted(books, bet, key) /\ nonce' = nonce + 1
           /\ books' = LockBet(books, bet, key)
           /\ video' = DealVideoCate(bet, seed, nonce) /\ hand' = hand
  <2>1. ~HandOpen /\ ~VideoOpen BY DEF VideoDeal
  <2>2. key \notin books.keys /\ nonce \in Nat BY DEF TableInv, KeysAhead
  <2>3. /\ bet \in Nat /\ BooksOK(books') /\ books'.keys = books.keys \cup {key}
        /\ books'.account.lockedHand = books.account.lockedHand + bet
    BY <1>2, <2>2, LockedBooks DEF TableInv
  <2>4. HandInv'
    BY <1>2, <2>1, <2>2 DEF TableInv, HandInv, HandOpen
  <2>5. /\ VideoInv' /\ video'.bet = bet
    BY <1>2, <2>2, <2>3 DEF VideoInv, DealVideoCate
  <2>6. books'.account.lockedHand >= Stakes(hand', video')
    BY <1>2, <2>1, <2>3, <2>5 DEF Stakes, TableInv, BooksOK, Account, HandOpen
  <2> DEFINE used == {key}
  <2>7. KeysBefore(used, nonce')
    BY <1>2, <2>2 DEF KeysBefore
  <2>8. BooksOK(books') /\ books'.keys = books.keys \cup used BY <2>3
  <2>9. nonce' \in Nat /\ nonce' >= nonce BY <1>2, <2>2
  <2>10. VideoInv' BY <2>5
  <2> HIDE DEF used
  <2>11. QED BY <2>4, <2>6, <2>7, <2>8, <2>9, <2>10, RequestKeeps
<1>3. QED BY <1>1, <1>2 DEF VideoDeal

LEMMA DrawnVideo ==
  ASSUME NEW v, v.bet \in Nat, NEW held
  PROVE  LET next == DrawVideoCate(v, held)
         IN  next.phase = "settled" /\ next.nonce = v.nonce /\ SettlesBet(next.settlement, v.bet)
<1> DEFINE drawn == DrawCards(v.seed.redraw, 5 - Cardinality(held), ToSet(v.cards))
           final == [i \in 1..5 |-> IF i \in held THEN v.cards[i]
                                    ELSE drawn[Cardinality(1..i \ held)]]
           line == EvaluateFive(final)
           mult == JobCreditMult[line]
<1>1. DrawVideoCate(v, held) =
        [phase |-> "settled", bet |-> v.bet, nonce |-> v.nonce, seed |-> v.seed,
         cards |-> final, held |-> held, mult |-> mult, settlement |-> Credited(v.bet, v.bet * mult)]
  BY DEF DrawVideoCate
<1>2. mult \in Nat
  <2> HIDE DEF final
  <2>1. line \in DOMAIN JobCreditMult BY DEF EvaluateFive, JobCreditMult
  <2> HIDE DEF line
  <2>2. QED BY <2>1 DEF JobCreditMult
<1> HIDE DEF final, mult
<1>3. SettlesBet(Credited(v.bet, v.bet * mult), v.bet)
  <2>1. v.bet * mult \in Nat BY <1>2
  <2>2. QED BY <2>1 DEF SettlesBet, Credited
<1>4. QED BY <1>1, <1>3

LEMMA VideoDrawKeeps ==
  ASSUME TableInv, NEW held, VideoDraw(held)
  PROVE  TableInv' /\ video'.nonce = video.nonce /\ <<"settle-videocate", video.nonce>> \in books'.keys
<1> DEFINE key == <<"settle-videocate", video.nonce>>
<1>1. /\ VideoOpen /\ hand' = hand /\ nonce' = nonce
      /\ SettleAccepted(books, video'.settlement, key)
      /\ books' = SettleHand(books, video'.settlement, key)
      /\ video' = DrawVideoCate(video, held)
  BY DEF VideoDraw
<1>2. /\ video.bet \in Nat
      /\ video.nonce \in Nat /\ video.nonce < nonce /\ nonce \in Nat
  BY <1>1 DEF TableInv, VideoInv
<1>3. video'.phase = "settled" /\ video'.nonce = video.nonce /\ SettlesBet(video'.settlement, video.bet)
  BY <1>1, <1>2, DrawnVideo
<1>4. /\ BooksOK(books') /\ books'.keys = books.keys \cup {key}
      /\ books'.account.lockedHand >= books.account.lockedHand - video.bet
  <2> DEFINE s == video'.settlement
  <2>1. SettleAccepted(books, s, key) /\ books' = SettleHand(books, s, key) /\ SettlesBet(s, video.bet)
    BY <1>1, <1>3
  <2> HIDE DEF s
  <2>2. QED BY <1>2, <2>1, SettledBooks DEF TableInv
<1>5. HandInv'
  BY <1>1, <1>4 DEF TableInv, HandInv, HandOpen, HandKey
<1>6. VideoInv'
  BY <1>1, <1>2, <1>3 DEF VideoInv, VideoOpen
<1>7. books'.account.lockedHand >= Stakes(hand', video')
  <2>1. books.account.lockedHand \in Nat /\ books'.account.lockedHand \in Nat
    BY <1>4 DEF TableInv, BooksOK, Account
  <2>2. books.account.lockedHand >= (IF HandOpen THEN hand.bet ELSE 0) + video.bet
    BY <1>1 DEF TableInv, LockedCoversOpenHands, OpenStakes
  <2>3. HandOpen => hand.bet \in Nat BY DEF TableInv, HandInv
  <2>4. QED BY <1>1, <1>2, <1>3, <1>4, <2>1, <2>2, <2>3 DEF Stakes, HandOpen
<1> DEFINE used == {key}
<1>8. KeysBefore(used, nonce')
  BY <1>1, <1>2 DEF KeysBefore
<1>9. books'.keys = books.keys \cup used BY <1>4
<1>10. TableInv'
  <2> HIDE DEF used
  <2>1. nonce' \in Nat /\ nonce' >= nonce BY <1>1, <1>2
  <2>2. BooksOK(books') BY <1>4
  <2>3. QED BY <2>1, <2>2, <1>5, <1>6, <1>7, <1>8, <1>9, RequestKeeps
<1>11. QED BY <1>3, <1>4, <1>10

\* Whatever is drawn, an instant game credits an amount.
LEMMA InstantSettles ==
  ASSUME NEW bet \in Nat, NEW play \in Plays, PickTaken(play.game, play.pick)
  PROVE  SettlesBet(InstantSettlement(bet, play.game, play.pick, play.rolls), bet)
<1> DEFINE game == play.game
           pick == play.pick
           rolls == play.rolls
<1>1. game \in InstantGames /\ rolls \in Seq(Nat) /\ (game = "cateslots" => Len(rolls) = 3)
  BY TableSetup
<1>2. \A mult \in Nat : bet * mult \in Nat
  OBVIOUS
<1>3. FlipCredit(bet, pick, rolls) \in Nat
  BY DEF FlipCredit
<1>4. game = "catedice" => DiceCredit(bet, pick, rolls) \in Nat
  <2> SUFFICES ASSUME game = "catedice", pick.target # NotANumber
               PROVE  (bet * (9900 \div (IF pick.mode = "over" THEN 100 - pick.target ELSE pick.target - 1)))
                         \div 100 \in Nat
    BY DEF DiceCredit
  <2> DEFINE chance == IF pick.mode = "over" THEN 100 - pick.target ELSE pick.target - 1
             mult == 9900 \div chance
  <2>1. DiceTaken(pick) BY DEF PickTaken
  <2>2. chance \in 1..98 BY <2>1 DEF DiceTaken
  <2> HIDE DEF chance
  <2>3. mult \in Nat BY <2>2
  <2> HIDE DEF mult
  <2>4. bet * mult \in Nat BY <1>2, <2>3
  <2>5. (bet * mult) \div 100 \in Nat BY <2>4
  <2>6. QED BY <2>5 DEF mult, chance
<1>5. SpinCredit(bet, pick, rolls) \in Nat
  BY <1>2 DEF SpinCredit
<1>6. HighCateCredit(bet, pick, rolls) \in Nat
  BY <1>2 DEF HighCateCredit
<1>7. game = "cateslots" => SlotsCredit(bet, rolls) \in Nat
  <2> SUFFICES ASSUME game = "cateslots" PROVE SlotsCredit(bet, rolls) \in Nat
    OBVIOUS
  <2> DEFINE reels == [k \in 1..3 |-> ReelStrip[1 + Roll(rolls, k, 13)]]
  <2>1. rolls[1] \in Nat BY <1>1
  <2>2. Roll(rolls, 1, 13) \in 0..12 BY <2>1 DEF Roll
  <2>3. reels[1] \in {"RUG", "PAW", "MOON", "GOLD", "CAT", "CATE"} BY <2>2 DEF ReelStrip
  <2> HIDE DEF reels
  <2>4. TripleMult[reels[1]] \in Nat BY <2>3 DEF TripleMult
  <2>5. bet * TripleMult[reels[1]] \in Nat /\ (bet * 3) \div 2 \in Nat BY <1>2, <2>4
  <2>6. SlotsCredit(bet, rolls) = 0 \/ SlotsCredit(bet, rolls) = (bet * 3) \div 2
          \/ SlotsCredit(bet, rolls) = bet * TripleMult[reels[1]]
    BY DEF SlotsCredit, reels
  <2>7. QED BY <2>5, <2>6
<1>8. PokerCredit(bet, rolls) \in Nat
  <2> DEFINE cards == DrawCards(rolls, 5, {})
             line == EvaluateFive(cards)
  <2> HIDE DEF cards
  <2>1. line \in DOMAIN JobCreditMult BY DEF EvaluateFive, JobCreditMult
  <2> HIDE DEF line
  <2>2. StudCreditMult[line] \in Nat
    <3>1. \A x \in DOMAIN JobCreditMult : JobCreditMult[x] \in Nat BY DEF JobCreditMult
    <3>2. QED BY <2>1, <3>1 DEF StudCreditMult
  <2>3. QED BY <1>2, <2>2 DEF PokerCredit, line, cards
<1> HIDE DEF game, pick, rolls
<1>9. \E credit \in Nat : InstantSettlement(bet, game, pick, rolls) = Credited(bet, credit)
  BY <1>1, <1>3, <1>4, <1>5, <1>6, <1>7, <1>8 DEF InstantSettlement, InstantGames
<1>10. \A credit \in Nat : SettlesBet(Credited(bet, credit), bet)
  BY DEF SettlesBet, Credited
<1>11. QED BY <1>9, <1>10 DEF game, pick, rolls

\* A request of an instant game: no hand is open, and the table shows none after it.
LEMMA NoHandKeeps ==
  ASSUME TableInv, ~HandOpen, ~VideoOpen, UNCHANGED <<hand, video>>, nonce' = nonce + 1,
         BooksOK(books'), NEW used, books'.keys = books.keys \cup used,
         KeysBefore(used, nonce')
  PROVE  TableInv'
<1>1. HandInv' /\ VideoInv'
  BY DEF TableInv, HandInv, VideoInv, HandOpen, VideoOpen
<1>2. books'.account.lockedHand >= Stakes(hand', video')
  BY DEF BooksOK, Account, Stakes, HandOpen, VideoOpen
<1>3. nonce' \in Nat /\ nonce' >= nonce BY DEF TableInv
<1>4. QED BY <1>1, <1>2, <1>3, RequestKeeps

LEMMA InstantKeeps ==
  ASSUME TableInv, NEW bet \in Int, NEW play \in Plays, Instant(bet, play)
  PROVE  TableInv'
<1> DEFINE s == InstantSettlement(bet, play.game, play.pick, play.rolls)
           key == <<"lock-game", nonce>>
           settleKey == <<"settle-game", nonce>>
           locked == LockBet(books, bet, key)
           used == {key, settleKey}
<1>1. CASE NonceSpent(bet, key)
  BY <1>1, NonceSpentKeeps
<1>2. CASE /\ PickTaken(play.game, play.pick)
           /\ LockAccepted(books, bet, key) /\ SettleAccepted(locked, s, settleKey)
           /\ nonce' = nonce + 1 /\ books' = SettleHand(locked, s, settleKey)
           /\ UNCHANGED <<hand, video>>
  <2>1. key \notin books.keys /\ nonce \in Nat BY DEF TableInv, KeysAhead
  <2>2. bet \in Nat /\ BooksOK(locked) /\ locked.keys = books.keys \cup {key}
    BY <1>2, <2>1, LockedBooks DEF TableInv
  <2>3. SettlesBet(s, bet) BY <1>2, <2>2, InstantSettles
  <2> HIDE DEF s, locked
  <2>4. BooksOK(books') /\ books'.keys = locked.keys \cup {settleKey}
    BY <1>2, <2>2, <2>3, SettledBooks
  <2>5. books'.keys = books.keys \cup used BY <2>2, <2>4
  <2>6. KeysBefore(used, nonce')
    BY <1>2, <2>1 DEF KeysBefore
  <2>7. ~HandOpen /\ ~VideoOpen BY DEF Instant
  <2> HIDE DEF used
  <2>8. QED BY <1>2, <2>4, <2>5, <2>6, <2>7, NoHandKeeps
<1>3. QED BY <1>1, <1>2 DEF Instant

LEMMA BadPickKeeps ==
  ASSUME TableInv, NEW bet \in Int, NEW play \in Plays, InstantBadPick(bet, play)
  PROVE  TableInv'
<1> DEFINE key == <<"lock-game", nonce>>
           used == {key}
<1>1. /\ ~HandOpen /\ ~VideoOpen /\ LockAccepted(books, bet, key) /\ nonce' = nonce + 1
      /\ books' = LockBet(books, bet, key) /\ UNCHANGED <<hand, video>>
  BY DEF InstantBadPick
<1>2. key \notin books.keys /\ nonce \in Nat BY DEF TableInv, KeysAhead
<1>3. BooksOK(books') /\ books'.keys = books.keys \cup used
  BY <1>1, <1>2, LockedBooks DEF TableInv
<1>4. KeysBefore(used, nonce')
  BY <1>1, <1>2 DEF KeysBefore
<1> HIDE DEF used
<1>5. QED BY <1>1, <1>3, <1>4, NoHandKeeps

-----------------------------------------------------------------------------
LEMMA TableStarts == TableInit => TableInv
<1> SUFFICES ASSUME TableInit PROVE TableInv
  OBVIOUS
<1>1. Seed \in Nat BY TableSetup
<1>2. BooksOK(books) /\ books.account.lockedHand = 0
  <2> DEFINE a == [available |-> Seed, lockedHand |-> 0, lockedWithdraw |-> 0, withdrawFrozen |-> FALSE]
  <2>1. Deposited(NewAccount, Seed) = a
    <3>1. 0 + Seed = Seed /\ NewAccount.available = 0 BY <1>1 DEF NewAccount
    <3>2. Deposited(NewAccount, Seed) = [NewAccount EXCEPT !.available = Seed] BY <3>1 DEF Deposited
    <3>3. QED BY <3>2 DEF NewAccount
  <2>2. a \in Account /\ LiabilityOf(a) + 0 = Seed /\ a.lockedHand = 0
    BY <1>1 DEF Account, LiabilityOf
  <2> HIDE DEF a
  <2>3. books = [account |-> a, house |-> 0, keys |-> {<<"demo-seed">>}] BY <2>1 DEF TableInit
  <2>4. QED BY <2>2, <2>3 DEF BooksOK
<1>3. KeysAhead BY DEF TableInit, KeysAhead
<1>4. HandInv /\ VideoInv /\ nonce \in Nat
  BY DEF TableInit, HandInv, VideoInv, HandOpen, VideoOpen, NoHand, NoVideo
<1>5. LockedCoversOpenHands
  BY <1>2 DEF TableInit, LockedCoversOpenHands, OpenStakes, HandOpen, VideoOpen, NoHand, NoVideo
<1>6. QED BY <1>2, <1>3, <1>4, <1>5 DEF TableInv

LEMMA TableIdle == TableInv /\ UNCHANGED tableVars => TableInv'
BY DEF TableInv, tableVars, BooksOK, KeysAhead, HandInv, VideoInv, LockedCoversOpenHands, OpenStakes,
       HandOpen, VideoOpen

\* The moves of an open hand: it stays the hand it is, and its key is used when it is settled.
LEMMA OpenHandMoves ==
  ASSUME TableInv, HitAction \/ StandAction \/ DoubleAction
  PROVE  /\ TableInv' /\ video' = video
         /\ hand'.nonce = hand.nonce
         /\ (hand'.phase = "settled") = (HandKey(hand.nonce) \in books'.keys)
<1>1. HandOpen BY DEF HitAction, StandAction, DoubleAction
<1>2. HandShape(hand) /\ hand.bet \in Nat /\ hand.phase = "player_turn"
  BY <1>1 DEF TableInv, HandInv, HandOpen
<1>3. video' = video BY DEF HitAction, StandAction, DoubleAction, Move
<1>4. CASE HitAction
  <2> DEFINE h == HitHand(hand)
  <2>1. Move(h) /\ Played(h, hand.bet) BY <1>2, <1>4, MovesPlay DEF HitAction
  <2> HIDE DEF h
  <2>2. QED BY <1>1, <1>3, <2>1, MoveKeeps
<1>5. CASE StandAction
  <2> DEFINE h == StandHand(hand)
  <2>1. Move(h) /\ Played(h, hand.bet) BY <1>2, <1>5, MovesPlay DEF StandAction
  <2> HIDE DEF h
  <2>2. QED BY <1>1, <1>3, <2>1, MoveKeeps
<1>6. CASE DoubleAction
  BY <1>3, <1>6, DoubleKeeps
<1>7. QED BY <1>4, <1>5, <1>6

LEMMA TableStep == TableInv /\ [TableNext]_tableVars => TableInv'
<1> SUFFICES ASSUME TableInv, [TableNext]_tableVars PROVE TableInv'
  OBVIOUS
<1>1. BetInputs \subseteq Int BY TableSetup
<1>2. CASE \E bet \in BetInputs, shoe \in Shoes : Deal(bet, shoe)
  BY <1>1, <1>2, DealKeeps
<1>3. CASE \E bet \in BetInputs, seed \in VideoSeeds : VideoDeal(bet, seed)
  BY <1>1, <1>3, VideoDealKeeps
<1>4. CASE \E bet \in BetInputs, play \in Plays : Instant(bet, play)
  BY <1>1, <1>4, InstantKeeps
<1>5. CASE \E bet \in BetInputs, play \in Plays : InstantBadPick(bet, play)
  BY <1>1, <1>5, BadPickKeeps
<1>6. CASE HitAction \/ StandAction \/ DoubleAction
  BY <1>6, OpenHandMoves
<1>7. CASE \E held \in Helds : VideoDraw(held)
  BY <1>7, VideoDrawKeeps
<1>8. CASE UNCHANGED tableVars
  BY <1>8, TableIdle
<1>9. QED BY <1>2, <1>3, <1>4, <1>5, <1>6, <1>7, <1>8 DEF TableNext

LEMMA TableInvHolds == TableSpec => []TableInv
BY TableStarts, TableStep, PTL DEF TableSpec

\* Accounts stay accounts, and hands and nonces keep their order.
THEOREM TableTypes == TableSpec => []TableTypeOK
<1>1. TableInv => TableTypeOK
  BY DEF TableInv, TableTypeOK, BooksOK, HandInv, VideoInv
<1>2. QED BY <1>1, TableInvHolds, PTL

\* Whatever the order of the two hands' requests, both have their stakes locked: the
\* lock of one is never spent by the settlement of the other (demo-session.ts, the
\* routes deal, action, instant and videocate).
THEOREM StakesStayLocked == TableSpec => []LockedCoversOpenHands
<1>1. TableInv => LockedCoversOpenHands
  BY DEF TableInv
<1>2. QED BY <1>1, TableInvHolds, PTL

\* Player and house share the seed whatever the games draw and pay, a stake that a
\* refused pick left locked included (demo-session.ts, ledger.ts:115-167).
THEOREM DemoBooksBalance == TableSpec => []DemoMoneyConserved
<1>1. TableInv => DemoMoneyConserved
  BY DEF TableInv, DemoMoneyConserved, BooksOK
<1>2. QED BY <1>1, TableInvHolds, PTL

\* An open hand leaves the table only settled, and its settlement is booked in that
\* request under a key that had not been used: it is booked, once (action/route.ts).
THEOREM HandsAreFinished == TableSpec => OpenHandsAreFinished
<1> DEFINE Finishes ==
       /\ HandOpen /\ hand' # hand =>
            /\ hand'.nonce = hand.nonce
            /\ (hand'.phase = "settled") = (HandKey(hand.nonce) \in books'.keys)
       /\ VideoOpen /\ video' # video =>
            /\ video'.nonce = video.nonce
            /\ <<"settle-videocate", video.nonce>> \in books'.keys
<1>1. TableInv /\ [TableNext]_tableVars => [Finishes]_tableVars
  <2> SUFFICES ASSUME TableInv, TableNext PROVE Finishes
    OBVIOUS
  <2>1. CASE \E bet \in BetInputs, shoe \in Shoes : Deal(bet, shoe)
    BY <2>1 DEF Deal
  <2>2. CASE \E bet \in BetInputs, seed \in VideoSeeds : VideoDeal(bet, seed)
    BY <2>2 DEF VideoDeal, NonceSpent
  <2>3. CASE \E bet \in BetInputs, play \in Plays : Instant(bet, play) \/ InstantBadPick(bet, play)
    BY <2>3 DEF Instant, InstantBadPick, NonceSpent
  <2>4. CASE HitAction \/ StandAction \/ DoubleAction
    BY <2>4, OpenHandMoves
  <2>5. CASE \E held \in Helds : VideoDraw(held)
    <3>1. hand' = hand BY <2>5 DEF VideoDraw
    <3>2. QED BY <2>5, <3>1, VideoDrawKeeps
  <2>6. QED BY <2>1, <2>2, <2>3, <2>4, <2>5 DEF TableNext
<1>2. QED BY <1>1, TableInvHolds, PTL DEF TableSpec, OpenHandsAreFinished
=============================================================================
