----------------------------- MODULE GachaProofs -----------------------------
(***************************************************************************)
(* The site implements the register of 1/1 mints (OneOfOne): whatever      *)
(* cookies are about, also stale ones, a mint that is listed as taken is   *)
(* not given again, as long as the claim file was not lost.                *)
(***************************************************************************)
EXTENDS SiteProofs, SumProofs

\* What a locker must be for its marks to be kept by the functions on it.
LockerShape(l) ==
  {"id", "marks"} \subseteq DOMAIN l /\ l.id \in Nat /\ l.marks \in [Ultras -> Tiers]

\* Its marks were given to it, and are on file unless the file was lost.
MarksWon(l) ==
  \A u \in Marks(l) : winner[u] # None /\ (torn \/ (winner[u] = l.id /\ u \in claims))

\* The file lists no 1/1 that nobody won, and unless it was lost every one that somebody did.
ListInv ==
  /\ winner \in [Ultras -> Nat \cup {None}]
  /\ \A u \in Ultras : u \in claims => winner[u] # None
  /\ \A u \in Ultras : winner[u] # None => torn \/ u \in claims

ClaimInv ==
  /\ JarsInv /\ nextId \in Nat /\ ListInv
  /\ \A t \in Cookies("gacha") : LockerShape(t.locker) /\ MarksWon(t.locker)

RegisterStep == [Register!Next]_(Register!registerVars)

\* Steps that give nothing: lockers with the marks they had, and winners listed again.
LEMMA ClaimInvFrame ==
  ASSUME ClaimInv, JarsInv', nextId' \in Nat, UNCHANGED <<winner, torn>>, claims \subseteq claims',
         \A u \in Ultras : u \in claims' => winner[u] # None,
         \A t \in Cookies("gacha")' :
           t \in Cookies("gacha") \/ (LockerShape(t.locker) /\ MarksWon(t.locker))
  PROVE  ClaimInv' /\ RegisterStep
<1>1. ListInv' BY DEF ClaimInv, ListInv
<1>2. ASSUME NEW l, MarksWon(l) PROVE MarksWon(l)'
  BY <1>2 DEF MarksWon, Marks
<1>3. ASSUME NEW t \in Cookies("gacha")' PROVE LockerShape(t.locker) /\ MarksWon(t.locker)'
  <2>1. LockerShape(t.locker) /\ MarksWon(t.locker) BY <1>3 DEF ClaimInv
  <2>2. QED BY <1>2, <2>1
<1>4. ClaimInv' BY <1>1, <1>3 DEF ClaimInv, LockerShape
<1>5. Register!Relist BY DEF Register!Relist, Register!Won
<1>6. QED BY <1>4, <1>5 DEF RegisterStep, Register!Next

LEMMA SameClaims ==
  ASSUME ClaimInv, JarsInv', UNCHANGED <<winner, torn, claims>>, nextId' \in Nat,
         Cookies("gacha")' \subseteq Cookies("gacha")
  PROVE  ClaimInv' /\ RegisterStep
<1>1. \A u \in Ultras : u \in claims' => winner[u] # None BY DEF ClaimInv, ListInv
<1>2. QED BY <1>1, ClaimInvFrame

-----------------------------------------------------------------------------
(* The functions on a locker keep its number and its marks. *)

SameMarks(m, l) == "id" \in DOMAIN m /\ "marks" \in DOMAIN m /\ m.id = l.id /\ m.marks = l.marks

LEMMA SameMarksWon ==
  ASSUME NEW l, NEW m, LockerShape(l), MarksWon(l), SameMarks(m, l)
  PROVE  LockerShape(m) /\ MarksWon(m)
BY DEF LockerShape, MarksWon, SameMarks, Marks

LEMMA PulledMarks == ASSUME NEW l, LockerShape(l), NEW roll PROVE SameMarks(Pulled(l, roll), l)
BY DEF LockerShape, SameMarks, Pulled

LEMMA BagworkedMarks ==
  ASSUME NEW l, LockerShape(l), NEW post, NEW time PROVE SameMarks(Bagworked(l, post, time), l)
BY DEF LockerShape, SameMarks, Bagworked

LEMMA YarnBonusMarks == ASSUME NEW l, LockerShape(l), NEW n PROVE SameMarks(YarnBonus(l, n), l)
BY DEF LockerShape, SameMarks, YarnBonus

LEMMA EquippedMarks ==
  ASSUME NEW l, LockerShape(l), NEW slot, NEW item PROVE SameMarks(Equipped(l, slot, item), l)
BY DEF LockerShape, SameMarks, Equipped

\* An upgrade changes the tier of a mark, and no mark.
LEMMA UpgradedMarks ==
  ASSUME NEW l, LockerShape(l), NEW u \in Ultras, l.marks[u] = "gold", MarksWon(l)
  PROVE  LockerShape(Upgraded(l, u)) /\ MarksWon(Upgraded(l, u))
<1> DEFINE m == Upgraded(l, u)
<1>1. /\ {"id", "marks"} \subseteq DOMAIN m /\ m.id = l.id
      /\ m.marks = [l.marks EXCEPT ![u] = "diamond"]
  BY DEF Upgraded, LockerShape
<1> HIDE DEF m
<1>2. LockerShape(m) BY <1>1 DEF LockerShape, Tiers
<1>3. Marks(m) = Marks(l) BY <1>1 DEF Marks, LockerShape
<1>4. MarksWon(m) BY <1>1, <1>3 DEF MarksWon
<1>5. QED BY <1>2, <1>4 DEF m

LEMMA MarkedMarks ==
  ASSUME NEW l, LockerShape(l), NEW u \in Ultras
  PROVE  /\ LockerShape(Marked(l, u)) /\ Marked(l, u).id = l.id
         /\ Marks(Marked(l, u)) = Marks(l) \cup {u}
<1> DEFINE m == Marked(l, u)
<1>1. /\ {"id", "marks"} \subseteq DOMAIN m /\ m.id = l.id
      /\ m.marks = [l.marks EXCEPT ![u] = "gold"]
  BY DEF Marked, LockerShape
<1> HIDE DEF m
<1>2. LockerShape(m) BY <1>1 DEF LockerShape, Tiers
<1>3. Marks(m) = Marks(l) \cup {u} BY <1>1 DEF Marks, LockerShape
<1>4. QED BY <1>1, <1>2, <1>3 DEF m

\* What a request starts from: the locker of its cookie, or a new one without marks.
LEMMA LockedIsWon ==
  ASSUME ClaimInv, NEW c \in Calls, calls[c].step \in {"sent", "fetching"}
  PROVE  LockerShape(Locked(c)) /\ MarksWon(Locked(c)) /\ IdsAfter(Sent(c)) \in Nat
<1>1. CASE Expired(Sent(c))
  <2>1. Locked(c) = EmptyLocker(nextId) BY <1>1 DEF Locked, Loaded
  <2>2. LockerShape(EmptyLocker(nextId)) BY DEF EmptyLocker, LockerShape, Tiers, ClaimInv
  <2>3. Marks(EmptyLocker(nextId)) = {} BY DEF EmptyLocker, Marks
  <2>4. QED BY <1>1, <2>1, <2>2, <2>3 DEF MarksWon, IdsAfter, ClaimInv
<1>2. CASE ~Expired(Sent(c))
  <2>1. Sent(c) \in Cookies("gacha") BY <1>2 DEF Expired, Sent, Cookies
  <2>2. QED BY <1>2, <2>1 DEF ClaimInv, Locked, Loaded, IdsAfter
<1>3. QED BY <1>1, <1>2

-----------------------------------------------------------------------------
(* Answers. *)

\* The mints a locker is listed under are, but for the frame's, those it won.
LEMMA YoursAreWon ==
  ASSUME NEW l, MarksWon(l), NEW u \in Ultras, u \in Yours(l)
  PROVE  winner[u] # None
BY GachaSetup DEF Yours, MarksWon

LEMMA AnswerKeepsClaims ==
  ASSUME ClaimInv, NEW c \in Calls, NEW set, NEW body, Answer(c, set, body), nextId' \in Nat,
         UNCHANGED <<winner, torn>>, claims \subseteq claims',
         \A u \in Ultras : u \in claims' => winner[u] # None,
         "gacha" \in DOMAIN set => LockerShape(set["gacha"].locker) /\ MarksWon(set["gacha"].locker)
  PROVE  ClaimInv' /\ RegisterStep
<1>1. /\ JarsInv'
      /\ \A t \in Cookies("gacha")' : t \in Cookies("gacha") \/ ("gacha" \in DOMAIN set /\ t = set["gacha"])
  BY AnswerCookies, SiteCookies DEF ClaimInv
<1>2. QED BY <1>1, ClaimInvFrame

LEMMA RefusalKeepsClaims ==
  ASSUME ClaimInv, NEW c \in Calls, Refuse(c), nextId' \in Nat, UNCHANGED <<winner, torn, claims>>
  PROVE  ClaimInv' /\ RegisterStep
<1>1. JarsInv' /\ Cookies("gacha")' \subseteq Cookies("gacha")
  BY EndedCookies, SiteCookies DEF ClaimInv, Refuse
<1>2. QED BY <1>1, SameClaims

\* A locker's answer that gives nothing new.
LEMMA GachaAnswerKeepsClaims ==
  ASSUME ClaimInv, NEW c \in Calls, NEW set, NEW l, NEW roll, GachaAnswer(c, set, l, roll),
         UNCHANGED winner, LockerShape(l), MarksWon(l), IdsAfter(Sent(c)) \in Nat,
         set = << >> \/ set = Saved(l)
  PROVE  ClaimInv' /\ RegisterStep
<1>1. /\ Answer(c, set, roll) /\ nextId' \in Nat /\ UNCHANGED <<winner, torn>>
      /\ claims' = claims \cup Yours(l)
  BY DEF GachaAnswer
<1>2. \A u \in Ultras : u \in claims' => winner[u] # None
  BY <1>1, YoursAreWon DEF ClaimInv, ListInv
<1>3. "gacha" \in DOMAIN set => set["gacha"].locker = l
  BY DEF Saved, Seal
<1>4. QED BY <1>1, <1>2, <1>3, AnswerKeepsClaims

\* A mark is given to a locker that no list, and so no winner, stands against.
LEMMA MarkGives ==
  ASSUME ClaimInv, NEW c \in Calls, Mark(c)
  PROVE  ClaimInv' /\ RegisterStep
<1>0. PICK l, u, m : l = Locked(c) /\ u = calls[c].input /\ m = Marked(l, u)
  OBVIOUS
<1>1. /\ calls[c].step = "sent" /\ u \in Ultras /\ u \notin Marks(l) /\ u \notin claims
      /\ GachaAnswer(c, Saved(m), m, NoRoll) /\ winner' = [winner EXCEPT ![u] = l.id]
  BY <1>0 DEF Mark, Waiting, CanMark
<1>2. LockerShape(l) /\ MarksWon(l) /\ IdsAfter(Sent(c)) \in Nat
  BY <1>0, <1>1, LockedIsWon
<1>3. LockerShape(m) /\ m.id = l.id /\ Marks(m) = Marks(l) \cup {u}
  BY <1>0, <1>1, <1>2, MarkedMarks
<1>4. /\ Answer(c, Saved(m), NoRoll) /\ nextId' \in Nat /\ torn' = torn
      /\ claims' = claims \cup Yours(m)
  BY <1>1, <1>2 DEF GachaAnswer
<1>5. winner \in [Ultras -> Nat \cup {None}] /\ l.id \in Nat /\ l.id # None
  BY <1>2, GachaSessionSetup DEF ClaimInv, ListInv, LockerShape
<1>6. /\ winner' \in [Ultras -> Nat \cup {None}] /\ winner'[u] = l.id
      /\ \A v \in Ultras \ {u} : winner'[v] = winner[v]
  BY <1>1, <1>5
<1>7. u \in claims' /\ \A v \in Ultras : v \in claims' => v \in claims \/ v \in Marks(l) \cup {u}
  BY <1>1, <1>3, <1>4, GachaSetup DEF Yours
<1>8. \A v \in Ultras : v \in claims' => winner'[v] # None
  BY <1>2, <1>5, <1>6, <1>7 DEF ClaimInv, ListInv, MarksWon, Marks
<1>9. ListInv'
  BY <1>4, <1>6, <1>7, <1>8 DEF ClaimInv, ListInv
<1>10. torn \/ winner[u] = None
  BY <1>1 DEF ClaimInv, ListInv
<1>11. ASSUME NEW x, MarksWon(x) PROVE MarksWon(x)'
  <2> SUFFICES ASSUME NEW v \in Marks(x)
               PROVE  winner'[v] # None /\ (torn' \/ (winner'[v] = x.id /\ v \in claims'))
    BY DEF MarksWon, Marks
  <2>1. v \in Ultras /\ winner[v] # None /\ (torn \/ (winner[v] = x.id /\ v \in claims))
    BY <1>11 DEF MarksWon, Marks
  <2>2. CASE v = u BY <1>4, <1>5, <1>6, <1>10, <2>1, <2>2
  <2>3. CASE v # u BY <1>4, <1>6, <2>1, <2>3
  <2>4. QED BY <2>2, <2>3
<1>12. MarksWon(m)'
  <2> SUFFICES ASSUME NEW v \in Marks(m)
               PROVE  winner'[v] # None /\ (torn' \/ (winner'[v] = m.id /\ v \in claims'))
    BY DEF MarksWon, Marks
  <2>1. v = u \/ v \in Marks(l) BY <1>3
  <2>2. CASE v = u BY <1>3, <1>5, <1>6, <1>7, <2>2
  <2>3. CASE v \in Marks(l) /\ v # u
    BY <1>2, <1>3, <1>4, <1>6, <2>3 DEF MarksWon, Marks
  <2>4. QED BY <2>1, <2>2, <2>3
<1>13. Saved(m)["gacha"].locker = m /\ "gacha" \in DOMAIN Saved(m) BY DEF Saved, Seal
<1>14. /\ JarsInv'
       /\ \A t \in Cookies("gacha")' : t \in Cookies("gacha") \/ t = Saved(m)["gacha"]
  BY <1>4, AnswerCookies, SiteCookies DEF ClaimInv
<1>15. ASSUME NEW t \in Cookies("gacha")' PROVE LockerShape(t.locker) /\ MarksWon(t.locker)'
  <2>1. CASE t \in Cookies("gacha") BY <1>11, <2>1 DEF ClaimInv
  <2>2. CASE t = Saved(m)["gacha"] BY <1>3, <1>12, <1>13, <2>2
  <2>3. QED BY <1>14, <2>1, <2>2
<1>16. ClaimInv' BY <1>4, <1>9, <1>14, <1>15 DEF ClaimInv, LockerShape
<1>17. Register!Give(u)
  <2>1. winner' = [winner EXCEPT ![u] = winner'[u]] BY <1>1, <1>5, <1>6
  <2>2. (claims' \cap Ultras) \subseteq {u} \cup {v \in Ultras : winner[v] # None}
    BY <1>2, <1>7 DEF ClaimInv, ListInv, MarksWon
  <2>3. u \in Ultras BY <1>1
  <2>4. QED BY <1>1, <1>4, <1>5, <1>6, <1>7, <1>10, <2>1, <2>2, <2>3 DEF Register!Give, Register!Won
<1>18. QED
  <2>1. u \in Ultras BY <1>1
  <2>2. QED BY <1>16, <1>17, <2>1 DEF RegisterStep, Register!Next

LEMMA GachaServesKeepClaims ==
  ASSUME ClaimInv, NEW c \in Calls, Serve(c)
  PROVE  ClaimInv' /\ RegisterStep
<1> DEFINE l == Locked(c)
<1>1. calls[c].step = "sent"
  BY DEF Serve, ReadLocker, PullSlowDown, PullOutOfYarn, Pull, Bagwork, BagworkRefused, Mark, Upgrade,
         NftRefused, Equip, EquipRefused, Waiting
<1>2. LockerShape(l) /\ MarksWon(l) /\ IdsAfter(Sent(c)) \in Nat
  BY <1>1, LockedIsWon
<1>3. CASE ReadLocker(c)
  <2>1. PICK set : GachaAnswer(c, set, l, NoRoll) /\ (set = << >> \/ set = Saved(l)) /\ UNCHANGED winner
    BY <1>3 DEF ReadLocker
  <2>2. QED BY <1>2, <2>1, GachaAnswerKeepsClaims
<1>4. CASE GachaRefuse(c)
  BY <1>2, <1>4, RefusalKeepsClaims DEF GachaRefuse
<1>5. ASSUME NEW seed \in Seeds, Pull(c, seed) PROVE ClaimInv' /\ RegisterStep
  <2>1. PICK roll : GachaAnswer(c, Saved(Pulled(l, roll)), Pulled(l, roll), roll) /\ UNCHANGED winner
    BY <1>5 DEF Pull
  <2>2. LockerShape(Pulled(l, roll)) /\ MarksWon(Pulled(l, roll))
    BY <1>2, PulledMarks, SameMarksWon
  <2>3. QED BY <1>2, <2>1, <2>2, GachaAnswerKeepsClaims
<1>6. CASE Bagwork(c)
  <2>1. PICK m : m = Bagworked(l, calls[c].input, now) /\ GachaAnswer(c, Saved(m), m, NoRoll) /\ UNCHANGED winner
    BY <1>6 DEF Bagwork
  <2>2. LockerShape(m) /\ MarksWon(m)
    BY <1>2, <2>1, BagworkedMarks, SameMarksWon
  <2>3. QED BY <1>2, <2>1, <2>2, GachaAnswerKeepsClaims
<1>7. CASE Mark(c) BY <1>7, MarkGives
<1>8. CASE Upgrade(c)
  <2>1. PICK m : /\ m = Upgraded(l, calls[c].input) /\ GachaAnswer(c, Saved(m), m, NoRoll)
                 /\ UNCHANGED winner
    BY <1>8 DEF Upgrade
  <2>2. calls[c].input \in Ultras /\ l.marks[calls[c].input] = "gold"
    BY <1>8 DEF Upgrade, CanUpgrade
  <2>3. LockerShape(m) /\ MarksWon(m)
    BY <1>2, <2>1, <2>2, UpgradedMarks
  <2>4. QED BY <1>2, <2>1, <2>3, GachaAnswerKeepsClaims
<1>9. CASE Equip(c)
  <2>1. PICK m : /\ m = Equipped(l, calls[c].input[1], calls[c].input[2])
                 /\ GachaAnswer(c, Saved(m), m, NoRoll) /\ UNCHANGED winner
    BY <1>9 DEF Equip
  <2>2. LockerShape(m) /\ MarksWon(m)
    BY <1>2, <2>1, EquippedMarks, SameMarksWon
  <2>3. QED BY <1>2, <2>1, <2>2, GachaAnswerKeepsClaims
<1>10. QED
  BY <1>3, <1>4, <1>5, <1>6, <1>7, <1>8, <1>9
  DEF Serve, PullSlowDown, PullOutOfYarn, BagworkRefused, NftRefused, EquipRefused

\* A desk that wins yarn answers with the locker of its request, marks and all.
LEMMA DeskServesKeepClaims ==
  ASSUME ClaimInv, NEW c \in Calls, ServeDesk(c)
  PROVE  ClaimInv' /\ RegisterStep
<1>1. CASE BeginFetch(c)
  <2>1. JarsInv' /\ Cookies("gacha")' \subseteq Cookies("gacha")
    BY <1>1, FetchCookies, SiteCookies DEF ClaimInv, BeginFetch
  <2>2. UNCHANGED <<winner, torn, claims, nextId>> BY <1>1 DEF BeginFetch, gachaVars
  <2>3. QED BY <2>1, <2>2, SameClaims DEF ClaimInv
<1>2. ASSUME NEW t \in Tapes(c), calls[c].step \in {"sent", "fetching"},
             \/ DeskUnmoved(c, t) \/ DeskPrice(c, t) \/ FinishHold(c, t) \/ OpenRide(c, t)
             \/ SettleRide(c, t) \/ RideAnswered(c, t) \/ CallVault(c, t) \/ FlipTape(c, t)
      PROVE  ClaimInv' /\ RegisterStep
  <2>1. \/ Refuse(c) /\ nextId' = nextId /\ DeskUnchanged
        \/ \E desk, yarn, time : SealedAnswer(c, desk, yarn, time)
    BY <1>2 DEF DeskUnmoved, DeskAnswer, DeskKeeps, DeskPrice, FinishHold, OpenRide, SettleRide, RideAnswered,
                CallVault, FlipTape
  <2>2. CASE Refuse(c) /\ nextId' = nextId /\ DeskUnchanged
    BY <2>2, RefusalKeepsClaims DEF DeskUnchanged, ClaimInv
  <2>3. ASSUME NEW desk, NEW yarn, NEW time, SealedAnswer(c, desk, yarn, time) PROVE ClaimInv' /\ RegisterStep
    <3> DEFINE fed == YarnBonus(Locked(c), yarn)
    <3>1. LockerShape(Locked(c)) /\ MarksWon(Locked(c)) /\ IdsAfter(Sent(c)) \in Nat
      BY <1>2, LockedIsWon
    <3>2. LockerShape(fed) /\ MarksWon(fed) BY <3>1, YarnBonusMarks, SameMarksWon
    <3>3. UNCHANGED <<winner, torn, claims>> /\ nextId' \in Nat
      BY <2>3, <3>1 DEF SealedAnswer, DeskUnchanged, ClaimInv
    <3>4. \A u \in Ultras : u \in claims' => winner[u] # None BY <3>3 DEF ClaimInv, ListInv
    <3>5. \/ Answer(c, SealDesk(desk, time), NoRoll)
          \/ Answer(c, Over(Saved(fed), SealDesk(desk, time)), NoRoll)
      BY <2>3 DEF SealedAnswer
    <3>6. "gacha" \notin DOMAIN SealDesk(desk, time) BY DEF SealDesk
    <3>7. Over(Saved(fed), SealDesk(desk, time))["gacha"].locker = fed BY DEF Over, Saved, Seal, SealDesk
    <3> HIDE DEF fed
    <3>8. CASE Answer(c, SealDesk(desk, time), NoRoll) BY <3>3, <3>4, <3>6, <3>8, AnswerKeepsClaims
    <3>9. CASE Answer(c, Over(Saved(fed), SealDesk(desk, time)), NoRoll)
      BY <3>2, <3>3, <3>4, <3>7, <3>9, AnswerKeepsClaims
    <3>10. QED BY <3>5, <3>8, <3>9
  <2>4. QED BY <2>1, <2>2, <2>3
<1>3. QED BY <1>1, <1>2 DEF ServeDesk

LEMMA AuthServesKeepClaims ==
  ASSUME ClaimInv, NEW c \in Calls, ServeAuth(c), UNCHANGED gachaVars
  PROVE  ClaimInv' /\ RegisterStep
<1>1. UNCHANGED <<winner, torn, claims>> /\ nextId' \in Nat BY DEF gachaVars, ClaimInv
<1>2. Refuse(c) \/ \E set, body : Answer(c, set, body) /\ "gacha" \notin DOMAIN set
  BY DEF ServeAuth, IssueNonce, SignIn, SignInRefused, Logout, LogoutRefused, AnswerAs
<1>3. CASE Refuse(c) BY <1>1, <1>3, RefusalKeepsClaims
<1>4. ASSUME NEW set, NEW body, Answer(c, set, body), "gacha" \notin DOMAIN set
      PROVE  ClaimInv' /\ RegisterStep
  <2>1. \A u \in Ultras : u \in claims' => winner[u] # None BY <1>1 DEF ClaimInv, ListInv
  <2>2. QED BY <1>1, <1>4, <2>1, AnswerKeepsClaims
<1>5. QED BY <1>2, <1>3, <1>4

\* A restart keeps the file, or tears it and with it the list.
LEMMA RestartKeepsClaims ==
  ASSUME ClaimInv, Restart
  PROVE  ClaimInv' /\ RegisterStep
<1>1. JarsInv' /\ Cookies("gacha")' \subseteq Cookies("gacha")
  BY RestartCookies, SiteCookies DEF ClaimInv, Restart
<1>2. UNCHANGED <<winner, nextId>> BY DEF Restart, GachaRestart, TornWrite, ForgetHits
<1>3. CASE GachaRestart
  BY <1>1, <1>2, <1>3, SameClaims DEF GachaRestart, ClaimInv
<1>4. CASE \E c \in Calls : TornWrite(c)
  <2>1. claims' = {} /\ torn' = TRUE BY <1>4 DEF TornWrite
  <2>2. ListInv' BY <1>2, <2>1 DEF ClaimInv, ListInv
  <2>3. ASSUME NEW t \in Cookies("gacha")' PROVE LockerShape(t.locker) /\ MarksWon(t.locker)'
    BY <1>1, <1>2, <2>1 DEF ClaimInv, MarksWon, Marks
  <2>4. ClaimInv' BY <1>1, <1>2, <2>2, <2>3 DEF ClaimInv, LockerShape
  <2>5. Register!LoseList BY <1>2, <2>1 DEF Register!LoseList
  <2>6. QED BY <2>4, <2>5 DEF RegisterStep, Register!Next
<1>5. QED BY <1>3, <1>4 DEF Restart

-----------------------------------------------------------------------------
LEMMA ClaimInvInit == Init => ClaimInv /\ Register!Init
<1> SUFFICES ASSUME Init PROVE ClaimInv /\ Register!Init
  OBVIOUS
<1>1. JarsInv BY JarsInit DEF Init
<1>2. \A b \in Browsers : jar[b]["gacha"] = NoCookie
  BY SiteCookies DEF Init, BrowserInit
<1>3. \A c \in Calls : calls[c].step = "idle" BY DEF Init, BrowserInit, Idle
<1>4. Cookies("gacha") = {} BY <1>2, <1>3 DEF Cookies
<1>5. claims = {} /\ nextId = 0 /\ winner = [u \in Ultras |-> None] /\ torn = FALSE
  BY DEF Init, GachaInit
<1>6. QED BY <1>1, <1>4, <1>5 DEF ClaimInv, ListInv, Register!Init

LEMMA ClaimInvStep == ClaimInv /\ [Next]_vars => ClaimInv' /\ RegisterStep
<1> SUFFICES ASSUME ClaimInv, [Next]_vars PROVE ClaimInv' /\ RegisterStep
  OBVIOUS
<1>1. ASSUME UNCHANGED gachaVars, JarsInv', Cookies("gacha")' \subseteq Cookies("gacha")
      PROVE  ClaimInv' /\ RegisterStep
  BY <1>1, SameClaims DEF gachaVars, ClaimInv
<1>2. ASSUME NEW c \in Calls, NEW b \in Browsers, Sends(c, b) PROVE ClaimInv' /\ RegisterStep
  <2>1. UNCHANGED gachaVars /\ \E kind, input : Send(c, b, kind, input)
    BY <1>2 DEF Sends, GachaSend, LoadMachine, LoadInventory, PressPull, SubmitPost, MintAct, PickEquip,
                DeskSend, Refresh, RefreshTape, Act, Persist, AuthSend
  <2>2. QED BY <1>1, <2>1, SendCookies, SiteCookies DEF ClaimInv
<1>3. ASSUME NEW c \in Calls, Serves(c) PROVE ClaimInv' /\ RegisterStep
  BY <1>3, GachaServesKeepClaims, DeskServesKeepClaims, AuthServesKeepClaims DEF Serves
<1>4. ASSUME NEW c \in Calls, Arrives(c) PROVE ClaimInv' /\ RegisterStep
  <2>1. CASE DeskReceive(c) /\ UNCHANGED <<gachaVars, authVars>>
    BY <1>1, <2>1, ReceiveCookies, SiteCookies DEF DeskReceive, ClaimInv
  <2>2. CASE DeskLoseAnswer(c) /\ UNCHANGED <<gachaVars, authVars>>
    BY <1>1, <2>2, EndedCookies, SiteCookies DEF ClaimInv, DeskLoseAnswer, LoseAnswer
  <2>3. QED BY <1>4, <2>1, <2>2 DEF Arrives
<1>5. ASSUME NEW b \in Browsers, Plays(b) PROVE ClaimInv' /\ RegisterStep
  <2>1. UNCHANGED <<jar, calls>> /\ UNCHANGED gachaVars
    BY <1>5 DEF Plays, Play, StartRound, Tap, BeatTimeout, Beat, GiveUpSave, browserVars
  <2>2. QED BY <1>1, <2>1, SameCookies DEF ClaimInv
<1>6. CASE Passes
  <2>1. UNCHANGED <<jar, calls>> /\ UNCHANGED gachaVars BY <1>6 DEF Passes, Tick
  <2>2. QED BY <1>1, <2>1, SameCookies DEF ClaimInv
<1>7. CASE Restart BY <1>7, RestartKeepsClaims
<1>8. CASE UNCHANGED vars
  <2>1. UNCHANGED <<jar, calls>> /\ UNCHANGED gachaVars BY <1>8 DEF vars, browserVars
  <2>2. QED BY <1>1, <2>1, SameCookies DEF ClaimInv
<1>9. QED BY <1>2, <1>3, <1>4, <1>5, <1>6, <1>7, <1>8 DEF Next

\* A mint that the public list shows as taken is not given again, whatever stale cookies are
\* about and whichever answers are lost (gacha-demo.ts, markDemoUltra; nft-claims.ts), for any
\* lockers, mints and calls: the site implements the register of 1/1 mints.
THEOREM SiteImplementsRegister == Spec => ImplementsOneOfOne
<1>1. Init => ClaimInv /\ Register!Init
  BY ClaimInvInit
<1>2. ClaimInv /\ [Next]_vars => ClaimInv' /\ [Register!Next]_(Register!registerVars)
  BY ClaimInvStep DEF RegisterStep
<1>3. QED BY <1>1, <1>2, PTL DEF Spec, ImplementsOneOfOne, Register!Spec

\* A mark in any cookie was won by that locker and is on file, unless the file was lost
\* (gacha-demo.ts, toPublicState writes the claim before the cookie is set).
THEOREM MarksInCookiesAreWon == Spec => []MarksAreWon
<1>1. ClaimInv => MarksAreWon
  BY DEF ClaimInv, MarksWon, MarksAreWon, Held
<1>2. QED BY <1>1, ClaimInvInit, ClaimInvStep, PTL DEF Spec

-----------------------------------------------------------------------------
(***************************************************************************)
(* Pulls.  The counter of a locker passes the published limit only if no   *)
(* rare item is left to give; a receipt is what its own fields replay to.  *)
(***************************************************************************)
Counted(l) ==
  /\ {"pity", "nonce"} \subseteq DOMAIN l /\ l.pity \in Nat /\ l.nonce \in Nat
  /\ l.pity <= PityRareHard /\ l.pity <= l.nonce

Rolled(r) == \E before, hard, seed, nonce : r = RollPull(Catalog, before, hard, seed, nonce)

Pulling(c) == calls[c].step = "answered" /\ calls[c].kind = "pull"

FairInv ==
  /\ JarsInv
  /\ \A t \in Cookies("gacha") : Counted(t.locker)
  /\ \A c \in Calls : Pulling(c) => Rolled(calls[c].body)

RaresToGive == PityRareHard > 0 /\ InSupplyItems(Catalog, "rare") # << >>

\* A rarity that counts falls back to one that counts, as long as there are rares.
LEMMA FallbackStaysRare ==
  ASSUME RaresToGive, NEW rarity, IsRarePlus(rarity)
  PROVE  IsRarePlus(ApplyRarityFallback(rarity, Catalog))
<1> DEFINE has(k) == InSupplyItems(Catalog, FallbackOrder[k]) # << >>
<1>1. FallbackOrder = <<"ultra", "rare", "uncommon", "common">> /\ DOMAIN FallbackOrder = 1..4
  BY DEF FallbackOrder
<1>2. PICK start : start = CHOOSE k \in DOMAIN FallbackOrder : FallbackOrder[k] = rarity
  OBVIOUS
<1>3. start \in {1, 2}
  BY <1>1, <1>2 DEF IsRarePlus
<1>4. has(2)
  BY <1>1 DEF RaresToGive
<1> HIDE DEF has
<1>5. \E k \in start..4 : has(k) /\ \A j \in start..(k - 1) : ~has(j)
  <2>1. CASE has(start) BY <1>3, <2>1
  <2>2. CASE ~has(start)
    <3>1. start = 1 BY <1>3, <1>4, <2>2
    <3>2. QED BY <1>4, <2>2, <3>1
  <2>3. QED BY <2>1, <2>2
<1>6. PICK k : k = CHOOSE i \in start..4 : has(i) /\ \A j \in start..(i - 1) : ~has(j)
  OBVIOUS
<1>7. k \in start..4 /\ has(k) /\ \A j \in start..(k - 1) : ~has(j)
  BY <1>5, <1>6
<1>8. k \in {1, 2}
  BY <1>3, <1>4, <1>7
<1>9. ApplyRarityFallback(rarity, Catalog) = FallbackOrder[k]
  BY <1>2, <1>6 DEF ApplyRarityFallback, has
<1>10. QED BY <1>1, <1>8, <1>9 DEF IsRarePlus

\* What a pull does to the counter.
LEMMA PityBounded ==
  ASSUME RaresToGive, NEW before \in Nat, before <= PityRareHard, NEW seed, NEW nonce
  PROVE  LET r == RollPull(Catalog, before, PityRareHard, seed, nonce)
         IN  r.after \in Nat /\ r.after <= PityRareHard /\ r.after <= before + 1 /\ r.nonce = nonce
<1> DEFINE raw == ApplyRarityFallback(RarityFromBucket(seed.bucket, Catalog.odds), Catalog)
           pity == ShouldApplyPity(before, raw, PityRareHard, InSupplyItems(Catalog, "rare") # << >>)
           final == ApplyRarityFallback(IF pity THEN "rare" ELSE raw, Catalog)
           r == RollPull(Catalog, before, PityRareHard, seed, nonce)
<1>1. r.after = NextPityCounter(before, final) /\ r.nonce = nonce
  BY DEF RollPull
<1>2. before >= PityRareHard => IsRarePlus(final)
  <2>1. CASE pity BY <2>1, FallbackStaysRare DEF IsRarePlus
  <2>2. CASE ~pity /\ before >= PityRareHard
    <3>1. IsRarePlus(raw) BY <2>2 DEF ShouldApplyPity, RaresToGive
    <3>2. QED BY <2>2, <3>1, FallbackStaysRare
  <2>3. QED BY <2>1, <2>2
<1> HIDE DEF final, r
<1>3. r.after \in Nat /\ r.after <= PityRareHard /\ r.after <= before + 1
  BY <1>1, <1>2, GachaSetup DEF NextPityCounter
<1>4. QED BY <1>1, <1>3 DEF r

\* A receipt verifies, and one that differs from it in what it claims does not.
LEMMA RolledVerifies ==
  ASSUME NEW r, Rolled(r)
  PROVE  /\ VerifyPull(r, Catalog)
         /\ \A i : [r EXCEPT !.itemId = i] # r => ~VerifyPull([r EXCEPT !.itemId = i], Catalog)
         /\ \A k : [r EXCEPT !.rarity = k] # r => ~VerifyPull([r EXCEPT !.rarity = k], Catalog)
         /\ \A b : [r EXCEPT !.rawBucket = b] # r => ~VerifyPull([r EXCEPT !.rawBucket = b], Catalog)
<1>1. PICK before, hard, seed, nonce : r = RollPull(Catalog, before, hard, seed, nonce)
  BY DEF Rolled
<1>2. /\ r.before = before /\ r.hard = hard /\ r.seed = seed /\ r.nonce = nonce
      /\ r = [rarity |-> r.rarity, itemId |-> r.itemId, rawBucket |-> r.rawBucket,
              pityApplied |-> r.pityApplied, after |-> r.after, supply |-> r.supply,
              seed |-> r.seed, nonce |-> r.nonce, hard |-> r.hard, before |-> r.before]
  BY <1>1 DEF RollPull
<1>3. RollPull(Catalog, r.before, r.hard, r.seed, r.nonce) = r
  BY <1>1, <1>2
<1>4. VerifyPull(r, Catalog) BY <1>3 DEF VerifyPull
<1>5. ASSUME NEW m, m.before = r.before, m.hard = r.hard, m.seed = r.seed, m.nonce = r.nonce,
             VerifyPull(m, Catalog)
      PROVE  m.itemId = r.itemId /\ m.rarity = r.rarity /\ m.rawBucket = r.rawBucket
  BY <1>3, <1>5 DEF VerifyPull
<1>6. ASSUME NEW i, [r EXCEPT !.itemId = i] # r PROVE ~VerifyPull([r EXCEPT !.itemId = i], Catalog)
  <2>1. PICK m : m = [r EXCEPT !.itemId = i] OBVIOUS
  <2>2. m.before = r.before /\ m.hard = r.hard /\ m.seed = r.seed /\ m.nonce = r.nonce /\ m.itemId = i
    BY <1>2, <2>1
  <2>3. i # r.itemId BY <1>2, <1>6
  <2>4. QED BY <1>5, <2>1, <2>2, <2>3
<1>7. ASSUME NEW k, [r EXCEPT !.rarity = k] # r PROVE ~VerifyPull([r EXCEPT !.rarity = k], Catalog)
  <2>1. PICK m : m = [r EXCEPT !.rarity = k] OBVIOUS
  <2>2. m.before = r.before /\ m.hard = r.hard /\ m.seed = r.seed /\ m.nonce = r.nonce /\ m.rarity = k
    BY <1>2, <2>1
  <2>3. k # r.rarity BY <1>2, <1>7
  <2>4. QED BY <1>5, <2>1, <2>2, <2>3
<1>8. ASSUME NEW b, [r EXCEPT !.rawBucket = b] # r PROVE ~VerifyPull([r EXCEPT !.rawBucket = b], Catalog)
  <2>1. PICK m : m = [r EXCEPT !.rawBucket = b] OBVIOUS
  <2>2. m.before = r.before /\ m.hard = r.hard /\ m.seed = r.seed /\ m.nonce = r.nonce /\ m.rawBucket = b
    BY <1>2, <2>1
  <2>3. b # r.rawBucket BY <1>2, <1>8
  <2>4. QED BY <1>5, <2>1, <2>2, <2>3
<1>9. QED BY <1>4, <1>6, <1>7, <1>8

-----------------------------------------------------------------------------
LEMMA FairFrame ==
  ASSUME FairInv, JarsInv', \A t \in Cookies("gacha")' : t \in Cookies("gacha") \/ Counted(t.locker),
         \A c \in Calls : Pulling(c)' => calls'[c] = calls[c] \/ Rolled(calls'[c].body)
  PROVE  FairInv'
<1>1. \A t \in Cookies("gacha")' : Counted(t.locker)
  BY DEF FairInv
<1>2. \A c \in Calls : Pulling(c)' => Rolled(calls'[c].body)
  BY DEF FairInv, Pulling
<1>3. QED BY <1>1, <1>2 DEF FairInv, Counted, Rolled

LEMMA EndedStaysFair ==
  ASSUME FairInv, NEW c \in Calls, calls' = [calls EXCEPT ![c] = Idle], jar' = jar
  PROVE  FairInv'
<1>1. JarsInv' /\ Cookies("gacha")' \subseteq Cookies("gacha")
  BY EndedCookies, SiteCookies DEF FairInv
<1>2. \A d \in Calls : Pulling(d)' => calls'[d] = calls[d]
  BY DEF Pulling, FairInv, JarsInv, Idle
<1>3. QED BY <1>1, <1>2, FairFrame

LEMMA AnswerStaysFair ==
  ASSUME FairInv, NEW c \in Calls, NEW set, NEW body, Answer(c, set, body),
         "gacha" \in DOMAIN set => Counted(set["gacha"].locker),
         calls[c].kind = "pull" => Rolled(body)
  PROVE  FairInv'
<1>1. /\ JarsInv'
      /\ \A t \in Cookies("gacha")' : t \in Cookies("gacha") \/ ("gacha" \in DOMAIN set /\ t = set["gacha"])
  BY AnswerCookies, SiteCookies DEF FairInv
<1>2. /\ \A d \in Calls \ {c} : calls'[d] = calls[d]
      /\ calls'[c].kind = calls[c].kind /\ calls'[c].body = body
  BY DEF Answer, FairInv, JarsInv
<1>3. \A d \in Calls : Pulling(d)' => calls'[d] = calls[d] \/ Rolled(calls'[d].body)
  BY <1>2 DEF Pulling
<1>4. QED BY <1>1, <1>3, FairFrame

\* The locker a request works on, and those that keep its counter.
LEMMA LockedCounted ==
  ASSUME FairInv, NEW c \in Calls, calls[c].step \in {"sent", "fetching"}
  PROVE  Counted(Locked(c))
<1>1. CASE Expired(Sent(c))
  BY <1>1, GachaSetup DEF Locked, Loaded, EmptyLocker, Counted
<1>2. CASE ~Expired(Sent(c))
  <2>1. Sent(c) \in Cookies("gacha") BY <1>2 DEF Expired, Sent, Cookies
  <2>2. QED BY <1>2, <2>1 DEF FairInv, Locked, Loaded
<1>3. QED BY <1>1, <1>2

LEMMA OthersKeepCount ==
  ASSUME NEW l, Counted(l)
  PROVE  /\ \A post, time : Counted(Bagworked(l, post, time))
         /\ \A n : Counted(YarnBonus(l, n))
         /\ \A u : Counted(Marked(l, u)) /\ Counted(Upgraded(l, u))
         /\ \A slot, item : Counted(Equipped(l, slot, item))
<1>1. \A post, time : Counted(Bagworked(l, post, time)) BY DEF Counted, Bagworked
<1>2. \A n : Counted(YarnBonus(l, n)) BY DEF Counted, YarnBonus
<1>3. \A u : Counted(Marked(l, u)) /\ Counted(Upgraded(l, u)) BY DEF Counted, Marked, Upgraded
<1>4. \A slot, item : Counted(Equipped(l, slot, item)) BY DEF Counted, Equipped
<1>5. QED BY <1>1, <1>2, <1>3, <1>4

\* A pull draws at the locker's counter and gives it the next.
LEMMA PullCounts ==
  ASSUME RaresToGive, NEW l, Counted(l), NEW seed
  PROVE  LET roll == Roll(l, seed) IN Rolled(roll) /\ Counted(Pulled(l, roll))
<1>1. PICK roll : roll = Roll(l, seed) OBVIOUS
<1>2. roll.after \in Nat /\ roll.after <= PityRareHard /\ roll.after <= l.pity + 1 /\ roll.nonce = l.nonce + 1
  BY <1>1, PityBounded DEF Roll, Counted
<1>3. /\ {"pity", "nonce"} \subseteq DOMAIN Pulled(l, roll)
      /\ Pulled(l, roll).pity = roll.after /\ Pulled(l, roll).nonce = roll.nonce
  BY DEF Pulled, Counted
<1>4. Counted(Pulled(l, roll))
  <2>1. l.pity \in Nat /\ l.nonce \in Nat /\ l.pity <= l.nonce BY DEF Counted
  <2>2. roll.nonce \in Nat /\ roll.after <= roll.nonce BY <1>2, <2>1
  <2>3. QED BY <1>2, <1>3, <2>2 DEF Counted
<1>5. Rolled(roll) BY <1>1 DEF Roll, Rolled
<1>6. QED BY <1>1, <1>4, <1>5

LEMMA GachaServesStayFair ==
  ASSUME RaresToGive, FairInv, NEW c \in Calls, Serve(c)
  PROVE  FairInv'
<1>1. calls[c].step = "sent"
  BY DEF Serve, ReadLocker, PullSlowDown, PullOutOfYarn, Pull, Bagwork, BagworkRefused, Mark, Upgrade,
         NftRefused, Equip, EquipRefused, Waiting
<1>2. Counted(Locked(c)) BY <1>1, LockedCounted
<1>3. ASSUME NEW set, NEW l, NEW roll, GachaAnswer(c, set, l, roll), set = << >> \/ set = Saved(l),
             Counted(l), calls[c].kind = "pull" => Rolled(roll)
      PROVE  FairInv'
  <2>1. "gacha" \in DOMAIN set => set["gacha"].locker = l BY <1>3 DEF Saved, Seal
  <2>2. QED BY <1>3, <2>1, AnswerStaysFair DEF GachaAnswer
<1>4. CASE ReadLocker(c)
  <2>1. PICK set : GachaAnswer(c, set, Locked(c), NoRoll) /\ (set = << >> \/ set = Saved(Locked(c)))
                   /\ calls[c].kind # "pull"
    BY <1>4 DEF ReadLocker, Waiting
  <2>2. QED BY <1>2, <1>3, <2>1
<1>5. CASE GachaRefuse(c)
  BY <1>5, EndedStaysFair DEF GachaRefuse, Refuse
<1>6. ASSUME NEW seed, Pull(c, seed) PROVE FairInv'
  <2>1. PICK roll : roll = Roll(Locked(c), seed)
                    /\ GachaAnswer(c, Saved(Pulled(Locked(c), roll)), Pulled(Locked(c), roll), roll)
    BY <1>6 DEF Pull
  <2>2. QED BY <1>2, <1>3, <2>1, PullCounts
<1>7. CASE Bagwork(c) \/ Mark(c) \/ Upgrade(c) \/ Equip(c)
  <2>1. PICK l : GachaAnswer(c, Saved(l), l, NoRoll) /\ calls[c].kind # "pull"
                 /\ \/ \E post, time : l = Bagworked(Locked(c), post, time)
                    \/ \E u : l = Marked(Locked(c), u) \/ l = Upgraded(Locked(c), u)
                    \/ \E slot, item : l = Equipped(Locked(c), slot, item)
    BY <1>7 DEF Bagwork, Mark, Upgrade, Equip, Waiting
  <2>2. Counted(l) BY <1>2, <2>1, OthersKeepCount
  <2>3. QED BY <1>3, <2>1, <2>2
<1>8. QED
  BY <1>4, <1>5, <1>6, <1>7
  DEF Serve, PullSlowDown, PullOutOfYarn, BagworkRefused, NftRefused, EquipRefused

LEMMA DeskServesStayFair ==
  ASSUME FairInv, NEW c \in Calls, ServeDesk(c)
  PROVE  FairInv'
<1>1. CASE BeginFetch(c)
  <2>1. JarsInv' /\ Cookies("gacha")' \subseteq Cookies("gacha")
    BY <1>1, FetchCookies, SiteCookies DEF FairInv, BeginFetch
  <2>2. \A d \in Calls : Pulling(d)' => calls'[d] = calls[d]
    BY <1>1 DEF Pulling, BeginFetch, FairInv, JarsInv
  <2>3. QED BY <2>1, <2>2, FairFrame
<1>2. ASSUME NEW t \in Tapes(c), calls[c].step \in {"sent", "fetching"}, calls[c].kind \in DeskKinds,
             \/ DeskUnmoved(c, t) \/ DeskPrice(c, t) \/ FinishHold(c, t) \/ OpenRide(c, t)
             \/ SettleRide(c, t) \/ RideAnswered(c, t) \/ CallVault(c, t) \/ FlipTape(c, t)
      PROVE  FairInv'
  <2>1. Refuse(c) \/ \E desk, yarn, time : SealedAnswer(c, desk, yarn, time)
    BY <1>2 DEF DeskUnmoved, DeskAnswer, DeskKeeps, DeskPrice, FinishHold, OpenRide, SettleRide, RideAnswered,
                CallVault, FlipTape
  <2>2. CASE Refuse(c) BY <2>2, EndedStaysFair DEF Refuse
  <2>3. ASSUME NEW desk, NEW yarn, NEW time, SealedAnswer(c, desk, yarn, time) PROVE FairInv'
    <3>1. PICK fed : fed = YarnBonus(Locked(c), yarn) OBVIOUS
    <3>2. Counted(fed) BY <1>2, <3>1, LockedCounted, OthersKeepCount
    <3>3. \/ Answer(c, SealDesk(desk, time), NoRoll)
          \/ Answer(c, Over(Saved(fed), SealDesk(desk, time)), NoRoll)
      BY <2>3, <3>1 DEF SealedAnswer
    <3>4. "gacha" \notin DOMAIN SealDesk(desk, time) BY DEF SealDesk
    <3>5. Over(Saved(fed), SealDesk(desk, time))["gacha"].locker = fed BY DEF Over, Saved, Seal, SealDesk
    <3>6. calls[c].kind # "pull" BY <1>2 DEF DeskKinds
    <3>7. QED BY <3>2, <3>3, <3>4, <3>5, <3>6, AnswerStaysFair
  <2>4. QED BY <2>1, <2>2, <2>3
<1>3. QED BY <1>1, <1>2 DEF ServeDesk

LEMMA AuthServesStayFair ==
  ASSUME FairInv, NEW c \in Calls, ServeAuth(c)
  PROVE  FairInv'
<1>1. \/ Refuse(c)
      \/ calls[c].kind # "pull" /\ \E set, body : Answer(c, set, body) /\ "gacha" \notin DOMAIN set
  BY DEF ServeAuth, IssueNonce, SignIn, SignInRefused, Logout, LogoutRefused, AnswerAs, Waiting
<1>2. CASE Refuse(c) BY <1>2, EndedStaysFair DEF Refuse
<1>3. QED BY <1>1, <1>2, AnswerStaysFair

LEMMA FairInvStep ==
  ASSUME RaresToGive, FairInv, [Next]_vars
  PROVE  FairInv'
<1>1. ASSUME UNCHANGED <<jar, calls>> PROVE FairInv'
  BY <1>1, SameCookies, FairFrame DEF FairInv, Pulling
<1>2. ASSUME NEW c \in Calls, NEW b \in Browsers, Sends(c, b) PROVE FairInv'
  <2>1. PICK kind, input : Send(c, b, kind, input)
    BY <1>2 DEF Sends, GachaSend, LoadMachine, LoadInventory, PressPull, SubmitPost, MintAct, PickEquip,
                DeskSend, Refresh, RefreshTape, Act, Persist, AuthSend
  <2>2. JarsInv' /\ Cookies("gacha")' \subseteq Cookies("gacha")
    BY <2>1, SendCookies, SiteCookies DEF FairInv
  <2>3. \A d \in Calls : Pulling(d)' => calls'[d] = calls[d]
    BY <2>1 DEF Pulling, Send, FairInv, JarsInv
  <2>4. QED BY <2>2, <2>3, FairFrame
<1>3. ASSUME NEW c \in Calls, Serves(c) PROVE FairInv'
  BY <1>3, GachaServesStayFair, DeskServesStayFair, AuthServesStayFair DEF Serves
<1>4. ASSUME NEW c \in Calls, Arrives(c) PROVE FairInv'
  <2>1. CASE DeskReceive(c)
    <3>1. JarsInv' /\ Cookies("gacha")' \subseteq Cookies("gacha")
      BY <2>1, ReceiveCookies, SiteCookies DEF DeskReceive, FairInv
    <3>2. \A d \in Calls : Pulling(d)' => calls'[d] = calls[d]
      BY <2>1 DEF Pulling, DeskReceive, Receive, FairInv, JarsInv, Idle
    <3>3. QED BY <3>1, <3>2, FairFrame
  <2>2. CASE DeskLoseAnswer(c)
    BY <2>2, EndedStaysFair DEF DeskLoseAnswer, LoseAnswer
  <2>3. QED BY <1>4, <2>1, <2>2 DEF Arrives
<1>5. ASSUME NEW b \in Browsers, Plays(b) PROVE FairInv'
  <2>1. UNCHANGED <<jar, calls>>
    BY <1>5 DEF Plays, Play, StartRound, Tap, BeatTimeout, Beat, GiveUpSave, browserVars
  <2>2. QED BY <1>1, <2>1
<1>6. CASE Passes \/ UNCHANGED vars
  BY <1>1, <1>6 DEF Passes, Tick, vars, browserVars
<1>7. CASE Restart
  <2>1. JarsInv' /\ Cookies("gacha")' \subseteq Cookies("gacha")
    BY <1>7, RestartCookies, SiteCookies DEF FairInv, Restart
  <2>2. \A d \in Calls : ~Pulling(d)'
    BY <1>7 DEF Restart, LoseProcess, Pulling, Idle
  <2>3. QED BY <2>1, <2>2, FairFrame
<1>8. QED BY <1>2, <1>3, <1>4, <1>5, <1>6, <1>7 DEF Next

LEMMA FairInvInit == Init => FairInv
<1> SUFFICES ASSUME Init PROVE FairInv
  OBVIOUS
<1>1. JarsInv BY JarsInit DEF Init
<1>2. \A b \in Browsers : jar[b]["gacha"] = NoCookie
  BY SiteCookies DEF Init, BrowserInit
<1>3. \A c \in Calls : calls[c].step = "idle" BY DEF Init, BrowserInit, Idle
<1>4. Cookies("gacha") = {} BY <1>2, <1>3 DEF Cookies
<1>5. QED BY <1>1, <1>3, <1>4 DEF FairInv, Pulling

\* While there is a rare left to give, nobody waits longer for one than is published, stale
\* cookies included; and of a pull only the receipt it got verifies (pity.ts; verify.ts).
THEOREM PullsStayFair ==
  ASSUME RaresToGive
  PROVE  Spec => []PullsAreFair
<1>1. FairInv => PullsAreFair
  <2> SUFFICES ASSUME FairInv PROVE PityKept /\ ReceiptsVerify
    BY DEF PullsAreFair
  <2>1. PityKept BY DEF FairInv, PityKept, Held, Counted
  <2>2. ASSUME NEW c \in Calls, Pulling(c)
        PROVE  LET r == calls[c].body
                   altered == {[r EXCEPT !.itemId = i] : i \in ItemIds}
                              \cup {[r EXCEPT !.rarity = k] : k \in Rarities}
                              \cup {[r EXCEPT !.rawBucket = k] : k \in 0..(TotalWeight(Catalog.odds) - 1)}
               IN VerifyPull(r, Catalog) /\ \A claim \in altered \ {r} : ~VerifyPull(claim, Catalog)
    <3>1. Rolled(calls[c].body) BY <2>2 DEF FairInv
    <3>2. QED BY <3>1, RolledVerifies
  <2>3. ReceiptsVerify BY <2>2 DEF ReceiptsVerify, Pulling
  <2>4. QED BY <2>1, <2>3
<1>2. FairInv /\ [Next]_vars => FairInv'
  BY FairInvStep
<1>3. QED BY <1>1, <1>2, FairInvInit, PTL DEF Spec

-----------------------------------------------------------------------------
(***************************************************************************)
(* The filter of a sequence, Only, is computed entry by entry.  Functions  *)
(* that are defined by its recursion agree, so it is enough to name one.   *)
(***************************************************************************)
Keeps(g, s, S) ==
  g = [k \in 0..Len(s) |->
        IF k = 0 THEN << >> ELSE IF s[k] \in S THEN Append(g[k - 1], s[k]) ELSE g[k - 1]]

LEMMA OnlyIsKept ==
  ASSUME NEW s, NEW S, NEW g, Keeps(g, s, S), Len(s) \in Nat
  PROVE  Only(s, S) = g[Len(s)]
<1> DEFINE n == Len(s)
           h == CHOOSE f : Keeps(f, s, S)
           Bad == {k \in 0..n : g[k] # h[k]}
<1>1. Keeps(h, s, S) OBVIOUS
<1>2. Only(s, S) = h[n] BY DEF Only, Keeps
<1> HIDE DEF h
<1>3. n \in Nat OBVIOUS
<1>4. /\ \A k \in 0..n : g[k] = (IF k = 0 THEN << >> ELSE IF s[k] \in S THEN Append(g[k - 1], s[k]) ELSE g[k - 1])
      /\ \A k \in 0..n : h[k] = (IF k = 0 THEN << >> ELSE IF s[k] \in S THEN Append(h[k - 1], s[k]) ELSE h[k - 1])
  BY <1>1 DEF Keeps
<1> HIDE DEF n
<1>5. Bad = {}
  <2> SUFFICES ASSUME Bad # {} PROVE FALSE
    OBVIOUS
  <2> DEFINE m == Min(Bad)
  <2>1. m \in Bad /\ \A k \in Bad : m <= k
    <3>1. Bad \subseteq Nat BY <1>3
    <3> HIDE DEF Bad
    <3>2. QED BY <3>1, MinOfNats
  <2> HIDE DEF m
  <2>2. m \in 0..n /\ m # 0 BY <1>3, <1>4, <2>1
  <2>3. m - 1 \in 0..n /\ m - 1 < m BY <1>3, <2>2
  <2>4. m - 1 \notin Bad BY <1>3, <2>1, <2>2, <2>3
  <2>5. g[m - 1] = h[m - 1] BY <2>3, <2>4
  <2>6. g[m] = h[m] BY <1>4, <2>2, <2>5
  <2>7. QED BY <2>1, <2>6
<1>6. QED BY <1>2, <1>3, <1>5 DEF n

\* What is kept of a sequence is a sequence of the same kind of entries.
LEMMA OnlyIsSeq ==
  ASSUME NEW T, NEW s \in Seq(T), NEW S
  PROVE  Only(s, S) \in Seq(T)
<1> DEFINE n == Len(s)
           Sound(g, m) ==
             /\ g \in [0..m -> Seq(T)]
             /\ \A k \in 0..m : g[k] = IF k = 0 THEN << >>
                                       ELSE IF s[k] \in S THEN Append(g[k - 1], s[k]) ELSE g[k - 1]
           Bad == {m \in 0..n : \A g \in [0..m -> Seq(T)] : ~Sound(g, m)}
<1>1. n \in Nat /\ \A k \in 1..n : s[k] \in T
  BY ElementOfSeq, LenProperties
<1> HIDE DEF n
<1>2. Bad = {}
  <2> SUFFICES ASSUME Bad # {} PROVE FALSE
    OBVIOUS
  <2> DEFINE m == Min(Bad)
  <2>1. m \in Bad /\ \A k \in Bad : m <= k
    <3>1. Bad \subseteq Nat BY <1>1
    <3> HIDE DEF Bad
    <3>2. QED BY <3>1, MinOfNats
  <2> HIDE DEF m
  <2>2. m \in 0..n BY <2>1
  <2>3. m # 0
    <3>1. << >> \in Seq(T) OBVIOUS
    <3> DEFINE g == [k \in 0..0 |-> << >>]
    <3>2. g \in [0..0 -> Seq(T)] BY <3>1
    <3>3. Sound(g, 0) BY <3>2
    <3>4. 0 \notin Bad BY <3>2, <3>3
    <3>5. QED BY <2>1, <3>4
  <2>4. m - 1 \in 0..n /\ m - 1 \in Nat /\ m \in 1..n /\ m - 1 \notin Bad
    <3> HIDE DEF Bad
    <3>1. m - 1 \in 0..n /\ m - 1 \in Nat /\ m \in 1..n BY <1>1, <2>2, <2>3
    <3>2. ~(m <= m - 1) BY <1>1, <2>2
    <3>3. QED BY <2>1, <3>1, <3>2
  <2>5. PICK g \in [0..(m - 1) -> Seq(T)] : Sound(g, m - 1) BY <2>4
  <2> DEFINE last == IF s[m] \in S THEN Append(g[m - 1], s[m]) ELSE g[m - 1]
             f == [k \in 0..m |-> IF k = m THEN last ELSE g[k]]
  <2>6. g[m - 1] \in Seq(T) /\ s[m] \in T BY <1>1, <2>4
  <2>7. last \in Seq(T) BY <2>6
  <2> HIDE DEF last
  <2>8. \A k \in 0..m : k # m => k \in 0..(m - 1) BY <2>4
  <2>9. f \in [0..m -> Seq(T)] BY <2>7, <2>8
  <2>10. \A k \in 0..(m - 1) : f[k] = g[k] BY <2>4
  <2>11. f[m] = last BY <2>4
  <2> HIDE DEF f
  <2>12. \A k \in 0..m : f[k] = IF k = 0 THEN << >>
                                ELSE IF s[k] \in S THEN Append(f[k - 1], s[k]) ELSE f[k - 1]
    <3> SUFFICES ASSUME NEW k \in 0..m
                 PROVE  f[k] = IF k = 0 THEN << >>
                               ELSE IF s[k] \in S THEN Append(f[k - 1], s[k]) ELSE f[k - 1]
      OBVIOUS
    <3>1. CASE k = m
      <4>1. m - 1 \in 0..(m - 1) BY <2>4
      <4>2. f[m - 1] = g[m - 1] BY <2>10, <4>1
      <4>3. QED BY <2>3, <2>11, <3>1, <4>2 DEF last
    <3>2. CASE k # m
      <4>1. k \in 0..(m - 1) BY <2>8, <3>2
      <4>2. k # 0 => k - 1 \in 0..(m - 1) BY <2>4, <4>1
      <4>3. QED BY <2>5, <2>10, <4>1, <4>2
    <3>3. QED BY <3>1, <3>2
  <2>13. Sound(f, m) BY <2>9, <2>12
  <2>14. QED BY <2>1, <2>9, <2>13
<1>3. n \in 0..n BY <1>1
<1>4. PICK g \in [0..n -> Seq(T)] : Sound(g, n) BY <1>2, <1>3
<1>5. Keeps(g, s, S) BY <1>4 DEF Keeps, n
<1>6. Only(s, S) = g[n] BY <1>1, <1>5, OnlyIsKept DEF n
<1>7. QED BY <1>3, <1>4, <1>6

\* Of times in order, those of S are the last ones if with a time S has all later ones.
Ascends(s) == \A i, j \in 1..Len(s) : i <= j => s[i] <= s[j]

LEMMA OnlyKeepsTheLast ==
  ASSUME NEW s \in Seq(Nat), Ascends(s), NEW S,
         \A i, j \in 1..Len(s) : s[i] \in S /\ s[i] <= s[j] => s[j] \in S
  PROVE  \E d \in 0..Len(s) :
           /\ Only(s, S) = SubSeq(s, d + 1, Len(s))
           /\ \A i \in 1..d : s[i] \notin S
<1> DEFINE n == Len(s)
           Tails == {k \in 0..n : \A i \in (k + 1)..n : s[i] \in S}
           d == Min(Tails)
<1>1. n \in Nat /\ DOMAIN s = 1..n /\ \A k \in 1..n : s[k] \in Nat
  BY ElementOfSeq, LenProperties
<1>2. \A i, j \in 1..n : s[i] \in S /\ s[i] <= s[j] => s[j] \in S OBVIOUS
<1>3. \A i, j \in 1..n : i <= j => s[i] <= s[j] BY DEF Ascends
<1> HIDE DEF n
<1>4. d \in Tails /\ \A k \in Tails : d <= k
  <2>1. Tails \subseteq Nat /\ n \in Tails BY <1>1
  <2> HIDE DEF Tails
  <2>2. QED BY <2>1, MinOfNats
<1> HIDE DEF d
<1>5. d \in 0..n /\ \A i \in (d + 1)..n : s[i] \in S BY <1>4
<1>6. \A i \in 1..d : s[i] \notin S
  <2> SUFFICES ASSUME NEW i \in 1..d, s[i] \in S PROVE FALSE
    OBVIOUS
  <2>1. i \in 1..n /\ d \in 1..n /\ i <= d /\ d \in Nat BY <1>1, <1>5
  <2>2. s[i] <= s[d] /\ s[i] \in Nat /\ s[d] \in Nat BY <1>1, <1>3, <2>1
  <2>3. s[d] \in S BY <1>2, <2>1, <2>2
  <2>4. \A k \in ((d - 1) + 1)..n : k = d \/ k \in (d + 1)..n BY <1>1, <2>1
  <2>5. d - 1 \in Tails BY <1>1, <1>5, <2>1, <2>3, <2>4
  <2>6. ~(d <= d - 1) BY <2>1
  <2> HIDE DEF Tails
  <2>7. QED BY <1>4, <2>5, <2>6
<1> DEFINE g == [k \in 0..n |-> SubSeq(s, d + 1, k)]
<1>7. \A k \in 0..n : g[k] = IF k = 0 THEN << >> ELSE IF s[k] \in S THEN Append(g[k - 1], s[k]) ELSE g[k - 1]
  <2> SUFFICES ASSUME NEW k \in 0..n
               PROVE  g[k] = IF k = 0 THEN << >> ELSE IF s[k] \in S THEN Append(g[k - 1], s[k]) ELSE g[k - 1]
    OBVIOUS
  <2>1. \A j \in 0..n : j <= d => SubSeq(s, d + 1, j) = << >> BY <1>1, <1>5
  <2>2. CASE k = 0 BY <1>1, <1>5, <2>1, <2>2
  <2>3. CASE k # 0 /\ k <= d
    <3>1. k \in 1..d /\ k - 1 \in 0..n /\ k - 1 <= d BY <1>1, <1>5, <2>3
    <3>2. SubSeq(s, d + 1, k) = << >> /\ SubSeq(s, d + 1, k - 1) = << >> BY <2>1, <2>3, <3>1
    <3>3. QED BY <1>6, <2>3, <3>1, <3>2
  <2>4. CASE k > d
    <3>1. k \in (d + 1)..n /\ k - 1 \in 0..n /\ k # 0 BY <1>1, <1>5, <2>4
    <3>2. s[k] \in S BY <1>5, <3>1
    <3>3. SubSeq(s, d + 1, k) = Append(SubSeq(s, d + 1, k - 1), s[k])
      <4>1. d + 1 \in 1..Len(s) /\ k \in (d + 1)..Len(s) BY <1>1, <1>5, <2>4, <3>1 DEF n
      <4>2. SubSeq(s, d + 1, k) = SubSeq(s, d + 1, k - 1) \o <<s[k]>> BY <4>1, SubSeqRecursiveSecond
      <4>3. \A i \in (d + 1)..(k - 1) : s[i] \in Nat BY <1>1, <1>5, <3>1
      <4>4. SubSeq(s, d + 1, k - 1) \in Seq(Nat) /\ s[k] \in Nat
        <5>1. d + 1 \in Int /\ k - 1 \in Int /\ s[k] \in Nat BY <1>1, <1>5, <3>1
        <5>2. QED BY <4>3, <5>1, SubSeqProperties
      <4>5. QED BY <4>2, <4>4, AppendIsConcat
    <3>4. QED BY <3>1, <3>2, <3>3
  <2>5. k = 0 \/ (k # 0 /\ k <= d) \/ k > d BY <1>1, <1>5
  <2> HIDE DEF g
  <2>6. QED BY <2>2, <2>3, <2>4, <2>5
<1>8. Keeps(g, s, S) BY <1>7 DEF Keeps, n
<1>9. Only(s, S) = g[n] BY <1>1, <1>8, OnlyIsKept DEF n
<1>10. n \in 0..n BY <1>1
<1>11. QED BY <1>5, <1>6, <1>9, <1>10 DEF n

-----------------------------------------------------------------------------
(***************************************************************************)
(* The rate limiter.  What it keeps of the pulls it let through for a key  *)
(* are the last of them, and what it does not keep was let through more    *)
(* than a window ago or by an earlier run of the process.                  *)
(***************************************************************************)
Passed(all, time, cur) ==
  /\ all \in Seq([at : Nat, run : Nat])
  /\ \A i \in 1..Len(all) : all[i].at <= time /\ all[i].run <= cur
  /\ \A i, j \in 1..Len(all) : i <= j => all[i].at <= all[j].at /\ all[i].run <= all[j].run

KeptLast(kept, all, time, cur) ==
  /\ kept \in Seq(Nat) /\ Len(kept) <= Len(all)
  /\ \A i \in 1..Len(kept) : kept[i] = all[Len(all) - Len(kept) + i].at
  /\ \A i \in 1..(Len(all) - Len(kept)) : all[i].run < cur \/ time - all[i].at >= Window

\* RateKept of one key.
Bounded(all) ==
  \A j \in 1..Len(all) : \A i \in 1..j :
    j - i >= MaxHits * (all[j].run - all[i].run + 1) => all[j].at - all[i].at >= Window

Rationed(kept, all, time, cur) ==
  Passed(all, time, cur) /\ KeptLast(kept, all, time, cur) /\ Bounded(all)

RateInv ==
  /\ now \in Nat /\ run \in Nat
  /\ hits = [k \in Keys |-> hits[k]] /\ served = [k \in Keys |-> served[k]]
  /\ \A k \in Keys : Rationed(hits[k], served[k], now, run)

LEMMA NobodyRationed ==
  ASSUME NEW time \in Nat, NEW cur \in Nat
  PROVE  Rationed(<< >>, << >>, time, cur)
<1>1. << >> \in Seq(Nat) /\ << >> \in Seq([at : Nat, run : Nat]) /\ Len(<< >>) = 0 OBVIOUS
<1>2. QED BY <1>1 DEF Rationed, Passed, KeptLast, Bounded

\* The entries of a history are times and runs.
LEMMA PassedEntries ==
  ASSUME NEW time \in Nat, NEW cur \in Nat, NEW all, Passed(all, time, cur)
  PROVE  /\ Len(all) \in Nat /\ DOMAIN all = 1..Len(all)
         /\ \A i \in 1..Len(all) : all[i].at \in Nat /\ all[i].run \in Nat
<1>1. all \in Seq([at : Nat, run : Nat]) BY DEF Passed
<1>2. Len(all) \in Nat /\ DOMAIN all = 1..Len(all) BY <1>1, LenProperties
<1>3. \A i \in 1..Len(all) : all[i] \in [at : Nat, run : Nat] BY <1>1, ElementOfSeq
<1>4. QED BY <1>2, <1>3

LEMMA RationedLater ==
  ASSUME NEW time \in Nat, NEW later \in Nat, time <= later, NEW cur \in Nat, NEW next \in Nat, cur <= next,
         NEW kept, NEW all, Rationed(kept, all, time, cur)
  PROVE  Rationed(kept, all, later, next)
<1> DEFINE n == Len(all)
           k == Len(kept)
<1>1. n \in Nat /\ \A i \in 1..n : all[i].at \in Nat /\ all[i].run \in Nat
  BY PassedEntries DEF Rationed
<1>2. k \in Nat /\ k <= n /\ Window \in Nat
  BY LenProperties, GachaSessionSetup DEF Rationed, KeptLast
<1>3. /\ \A i \in 1..n : all[i].at <= time /\ all[i].run <= cur
      /\ \A i \in 1..(n - k) : all[i].run < cur \/ time - all[i].at >= Window
  BY DEF Rationed, Passed, KeptLast
<1> HIDE DEF n, k
<1>4. \A i \in 1..n : all[i].at <= later /\ all[i].run <= next BY <1>1, <1>3
<1>5. \A i \in 1..(n - k) : i \in 1..n BY <1>1, <1>2
<1>6. \A i \in 1..(n - k) : all[i].run < next \/ later - all[i].at >= Window BY <1>1, <1>2, <1>3, <1>5
<1>7. Passed(all, later, next) BY <1>4 DEF Rationed, Passed, n
<1>8. KeptLast(kept, all, later, next) BY <1>6 DEF Rationed, KeptLast, n, k
<1>9. QED BY <1>7, <1>8 DEF Rationed

\* A restart forgets what the limiter keeps, and its quota begins anew.
LEMMA RationedAnew ==
  ASSUME NEW time \in Nat, NEW cur \in Nat, NEW kept, NEW all, Rationed(kept, all, time, cur)
  PROVE  Rationed(<< >>, all, time, cur + 1)
<1>1. Len(all) \in Nat /\ \A i \in 1..Len(all) : all[i].run \in Nat /\ all[i].run <= cur
  BY PassedEntries DEF Rationed, Passed
<1>2. \A i \in 1..Len(all) : all[i].run < cur + 1 /\ all[i].run <= cur + 1 BY <1>1
<1>3. << >> \in Seq(Nat) /\ Len(<< >>) = 0 /\ Len(all) - 0 = Len(all) BY <1>1
<1>4. Passed(all, time, cur + 1) BY <1>2 DEF Rationed, Passed
<1>5. KeptLast(<< >>, all, time, cur + 1) BY <1>1, <1>2, <1>3 DEF KeptLast
<1>6. QED BY <1>4, <1>5 DEF Rationed

\* Dropping what is past the window drops the first ones.
LEMMA RecentRationed ==
  ASSUME NEW time \in Nat, NEW cur \in Nat, NEW kept, NEW all, Rationed(kept, all, time, cur)
  PROVE  Rationed(Only(kept, {t \in ToSet(kept) : time - t < Window}), all, time, cur)
<1> DEFINE S == {t \in ToSet(kept) : time - t < Window}
           n == Len(all)
           k == Len(kept)
           only == Only(kept, S)
<1>1. /\ n \in Nat /\ \A i \in 1..n : all[i].at \in Nat /\ all[i].run \in Nat
      /\ kept \in Seq(Nat) /\ k \in Nat /\ DOMAIN kept = 1..k /\ \A i \in 1..k : kept[i] \in Nat
  BY PassedEntries, ElementOfSeq, LenProperties DEF Rationed, KeptLast
<1>2. /\ k <= n /\ Window \in Nat
      /\ \A i \in 1..k : kept[i] = all[n - k + i].at
      /\ \A i \in 1..(n - k) : all[i].run < cur \/ time - all[i].at >= Window
      /\ \A i, j \in 1..n : i <= j => all[i].at <= all[j].at
  BY GachaSessionSetup DEF Rationed, Passed, KeptLast
<1>3. \A i \in 1..k : kept[i] \in ToSet(kept) BY <1>1 DEF ToSet
<1>4. \A i \in 1..k : kept[i] \in S <=> time - kept[i] < Window BY <1>3
<1> HIDE DEF S, n, k, only
<1>5. \A i \in 1..k : n - k + i \in 1..n BY <1>1, <1>2
<1>6. \A i, j \in 1..k : i <= j => kept[i] <= kept[j]
  <2> SUFFICES ASSUME NEW i \in 1..k, NEW j \in 1..k, i <= j PROVE kept[i] <= kept[j]
    OBVIOUS
  <2>1. n - k + i \in 1..n /\ n - k + j \in 1..n /\ n - k + i <= n - k + j BY <1>1, <1>2, <1>5
  <2>2. all[n - k + i].at <= all[n - k + j].at BY <1>2, <2>1
  <2>3. QED BY <1>2, <2>2
<1>7. \A i, j \in 1..k : kept[i] \in S /\ kept[i] <= kept[j] => kept[j] \in S
  BY <1>1, <1>2, <1>4
<1>8. PICK d \in 0..k : only = SubSeq(kept, d + 1, k) /\ \A i \in 1..d : kept[i] \notin S
  <2>1. Ascends(kept) BY <1>6 DEF Ascends, k
  <2>2. \A i, j \in 1..Len(kept) : kept[i] \in S /\ kept[i] <= kept[j] => kept[j] \in S BY <1>7 DEF k
  <2>3. QED BY <1>1, <2>1, <2>2, OnlyKeepsTheLast DEF k, only
<1>9. only \in Seq(Nat) /\ Len(only) = k - d /\ \A i \in 1..(k - d) : only[i] = kept[d + i]
  <2>1. d + 1 \in Int /\ k \in Int /\ \A i \in (d + 1)..k : kept[i] \in Nat BY <1>1, <1>8
  <2>2. /\ SubSeq(kept, d + 1, k) \in Seq(Nat)
        /\ Len(SubSeq(kept, d + 1, k)) = IF d + 1 <= k THEN k - (d + 1) + 1 ELSE 0
        /\ \A i \in 1..(k - (d + 1) + 1) : SubSeq(kept, d + 1, k)[i] = kept[d + 1 + i - 1]
    BY <2>1, SubSeqProperties
  <2>3. \A i \in 1..(k - d) : i \in 1..(k - (d + 1) + 1) /\ d + 1 + i - 1 = d + i BY <1>1, <1>8
  <2>4. (IF d + 1 <= k THEN k - (d + 1) + 1 ELSE 0) = k - d BY <1>1, <1>8
  <2>5. QED BY <1>8, <2>2, <2>3, <2>4
<1>10. \A i \in 1..(k - d) : only[i] = all[n - (k - d) + i].at
  <2> SUFFICES ASSUME NEW i \in 1..(k - d) PROVE only[i] = all[n - (k - d) + i].at
    OBVIOUS
  <2>1. d + i \in 1..k /\ n - k + (d + i) = n - (k - d) + i BY <1>1, <1>8
  <2>2. QED BY <1>2, <1>9, <2>1
<1>11. \A i \in 1..(n - (k - d)) : all[i].run < cur \/ time - all[i].at >= Window
  <2> SUFFICES ASSUME NEW i \in 1..(n - (k - d)) PROVE all[i].run < cur \/ time - all[i].at >= Window
    OBVIOUS
  <2>1. CASE i <= n - k
    <3>1. i \in 1..(n - k) BY <1>1, <1>8, <2>1
    <3>2. QED BY <1>2, <3>1
  <2>2. CASE i > n - k
    <3>1. i - (n - k) \in 1..d /\ i - (n - k) \in 1..k /\ n - k + (i - (n - k)) = i BY <1>1, <1>2, <1>8, <2>2
    <3>2. kept[i - (n - k)] = all[i].at /\ kept[i - (n - k)] \in Nat BY <1>1, <1>2, <3>1
    <3>3. kept[i - (n - k)] \notin S BY <1>8, <3>1
    <3>4. ~(time - kept[i - (n - k)] < Window) BY <1>4, <3>1, <3>3
    <3>5. QED BY <1>2, <3>2, <3>4
  <2>3. QED BY <1>1, <1>8, <2>1, <2>2
<1>12. Len(only) <= n /\ n - Len(only) = n - (k - d) BY <1>1, <1>2, <1>8, <1>9
<1>13. KeptLast(only, all, time, cur)
  BY <1>9, <1>10, <1>11, <1>12 DEF KeptLast, n
<1>14. QED BY <1>13 DEF Rationed, only, S

\* Quotas of runs add up.
LEMMA QuotasAdd ==
  ASSUME NEW m \in Nat, NEW d \in Nat
  PROVE  m * d \in Nat /\ m * (d + 1) = m * d + m
OBVIOUS

LEMMA QuotasGrow ==
  ASSUME NEW m \in Nat, NEW d \in Nat, NEW e \in Nat, e < d
  PROVE  m * (e + 1) <= m * d
<1>1. PICK x \in Nat : d = e + 1 + x
  <2>1. d - (e + 1) \in Nat /\ d = e + 1 + (d - (e + 1)) OBVIOUS
  <2>2. QED BY <2>1
<1>2. m * (e + 1 + x) = m * (e + 1) + m * x /\ m * x \in Nat /\ m * (e + 1) \in Nat OBVIOUS
<1>3. QED BY <1>1, <1>2

\* A pull that is let through counts from now, and keeps to the quota: the pulls of this run
\* that still count are fewer than MaxHits, and those before them kept to theirs.
LEMMA CountRationed ==
  ASSUME NEW time \in Nat, NEW cur \in Nat, NEW kept, NEW all, Rationed(kept, all, time, cur),
         Len(kept) < MaxHits
  PROVE  Rationed(Append(kept, time), Append(all, [at |-> time, run |-> cur]), time, cur)
<1> DEFINE n == Len(all)
           k == Len(kept)
           new == [at |-> time, run |-> cur]
           kept2 == Append(kept, time)
           all2 == Append(all, new)
<1>1. /\ n \in Nat /\ \A i \in 1..n : all[i].at \in Nat /\ all[i].run \in Nat
      /\ kept \in Seq(Nat) /\ k \in Nat /\ all \in Seq([at : Nat, run : Nat])
  BY PassedEntries, LenProperties DEF Rationed, Passed, KeptLast
<1>2. /\ k <= n /\ k < MaxHits /\ MaxHits \in Nat /\ Window \in Nat /\ MaxHits > 0
      /\ \A i \in 1..k : kept[i] = all[n - k + i].at
      /\ \A i \in 1..(n - k) : all[i].run < cur \/ time - all[i].at >= Window
      /\ \A i, j \in 1..n : i <= j => all[i].at <= all[j].at /\ all[i].run <= all[j].run
      /\ \A i \in 1..n : all[i].at <= time /\ all[i].run <= cur
  BY GachaSessionSetup DEF Rationed, Passed, KeptLast
<1>num. /\ n \in Nat /\ k \in Nat /\ k <= n /\ k < MaxHits /\ MaxHits \in Nat /\ MaxHits > 0
        /\ Window \in Nat
  BY <1>1, <1>2
<1>3. new \in [at : Nat, run : Nat] /\ new.at = time /\ new.run = cur OBVIOUS
<1> HIDE DEF new
<1>4. /\ kept2 \in Seq(Nat) /\ Len(kept2) = k + 1 /\ kept2[k + 1] = time
      /\ \A i \in 1..k : kept2[i] = kept[i]
  BY <1>1, AppendProperties
<1>5. /\ all2 \in Seq([at : Nat, run : Nat]) /\ Len(all2) = n + 1 /\ all2[n + 1] = new
      /\ \A i \in 1..n : all2[i] = all[i]
  BY <1>1, <1>3, AppendProperties
<1>6. Bounded(all) BY DEF Rationed
<1> HIDE DEF n, k, kept2, all2
<1>7. \A i \in 1..(n + 1) : i = n + 1 \/ i \in 1..n BY <1>1
<1>8. Passed(all2, time, cur)
  <2>1. \A i \in 1..(n + 1) : all2[i].at <= time /\ all2[i].run <= cur
    <3>1. \A i \in 1..n : all2[i].at <= time /\ all2[i].run <= cur BY <1>2, <1>5
    <3>2. all2[n + 1].at <= time /\ all2[n + 1].run <= cur BY <1>3, <1>5
    <3>3. QED BY <1>7, <3>1, <3>2
  <2>2. \A i, j \in 1..(n + 1) : i <= j => all2[i].at <= all2[j].at /\ all2[i].run <= all2[j].run
    <3> SUFFICES ASSUME NEW i \in 1..(n + 1), NEW j \in 1..(n + 1), i <= j
                 PROVE  all2[i].at <= all2[j].at /\ all2[i].run <= all2[j].run
      OBVIOUS
    <3>1. CASE j = n + 1 BY <1>3, <1>5, <2>1, <3>1
    <3>2. CASE j # n + 1
      <4>1. i \in 1..n /\ j \in 1..n BY <1>num, <3>2
      <4>2. QED BY <1>2, <1>5, <4>1
    <3>3. QED BY <3>1, <3>2
  <2>3. QED BY <1>5, <2>1, <2>2 DEF Passed
<1>9. KeptLast(kept2, all2, time, cur)
  <2>1. n + 1 - (k + 1) = n - k BY <1>1
  <2>2. \A i \in 1..(k + 1) : kept2[i] = all2[n - k + i].at
    <3> SUFFICES ASSUME NEW i \in 1..(k + 1) PROVE kept2[i] = all2[n - k + i].at
      OBVIOUS
    <3>1. CASE i = k + 1
      <4>1. n - k + i = n + 1 BY <1>1, <3>1
      <4>2. QED BY <1>3, <1>4, <1>5, <3>1, <4>1
    <3>2. CASE i # k + 1
      <4>1. i \in 1..k /\ n - k + i \in 1..n BY <1>num, <3>2
      <4>2. QED BY <1>2, <1>4, <1>5, <4>1
    <3>3. QED BY <3>1, <3>2
  <2>3. \A i \in 1..(n - k) : i \in 1..n BY <1>1
  <2>4. \A i \in 1..(n - k) : all2[i].run < cur \/ time - all2[i].at >= Window
    BY <1>2, <1>5, <2>3
  <2>5. k + 1 <= n + 1 BY <1>1, <1>2
  <2>6. Len(all2) - Len(kept2) = n - k /\ Len(kept2) <= Len(all2)
    <3>1. Len(all2) = n + 1 /\ Len(kept2) = k + 1 BY <1>4, <1>5
    <3>2. QED BY <1>num, <3>1
  <2>7. \A i \in 1..Len(kept2) : kept2[i] = all2[Len(all2) - Len(kept2) + i].at BY <1>4, <2>2, <2>6
  <2>8. \A i \in 1..(Len(all2) - Len(kept2)) : all2[i].run < cur \/ time - all2[i].at >= Window
    BY <2>4, <2>6
  <2>9. QED BY <1>4, <2>6, <2>7, <2>8 DEF KeptLast
<1>10. ASSUME NEW i \in 1..(n + 1), n + 1 - i >= MaxHits * (cur - all2[i].run + 1)
       PROVE  time - all2[i].at >= Window
  <2>1. CASE i = n + 1
    <3>1. all2[i].run = cur /\ n + 1 - i = 0 /\ cur - cur + 1 = 1 BY <1>1, <1>3, <1>5, <2>1
    <3>2. MaxHits * 1 = MaxHits BY <1>2
    <3>3. QED BY <1>2, <1>10, <3>1, <3>2
  <2>2. CASE i \in 1..n
    <3> DEFINE r == all[i].run
               a == all[i].at
               d == cur - r
               q == MaxHits * d
               m == n - k
    <3>1. r \in Nat /\ a \in Nat /\ r <= cur BY <1>1, <1>2, <2>2
    <3>2. all2[i].run = r /\ all2[i].at = a BY <1>5, <2>2
    <3>3. cur - all2[i].run + 1 = d + 1 /\ d \in Nat
      <4> HIDE DEF r, a
      <4>1. QED BY <3>1, <3>2
    <3>4. MaxHits * (d + 1) = q + MaxHits /\ q \in Nat
      <4> HIDE DEF r, d
      <4>1. QED BY <1>num, <3>3, QuotasAdd
    <3>5. n + 1 - i >= q + MaxHits
      <4> HIDE DEF r, d, q
      <4>1. QED BY <1>10, <3>3, <3>4
    <3>6. i \in Nat /\ i >= 1 BY <2>2
    <3> HIDE DEF q
    <3>7. m \in 1..n /\ m \in 1..(n - k) /\ i \in 1..m /\ m - i >= q /\ i <= m
      BY <1>num, <3>4, <3>5, <3>6
    <3> HIDE DEF m
    <3> DEFINE b == all[m].at
               s == all[m].run
    <3>8. b \in Nat /\ s \in Nat /\ a <= b /\ r <= s /\ b <= time
      BY <1>1, <1>2, <2>2, <3>7
    <3>9. s < cur \/ time - b >= Window BY <1>2, <3>7
    <3>10. CASE time - b >= Window
      <4> HIDE DEF a, b
      <4>1. time - a >= Window BY <1>num, <3>1, <3>8, <3>10
      <4>2. QED BY <3>2, <4>1
    <3>11. CASE s < cur
      <4> DEFINE e == s - r
                 w == MaxHits * (e + 1)
      <4>1. e \in Nat /\ e < d /\ s - r + 1 = e + 1
        <5> HIDE DEF r, s
        <5>1. QED BY <3>1, <3>8, <3>11
      <4>2. w <= q /\ w \in Nat
        <5> HIDE DEF e, d
        <5>1. QED BY <1>num, <3>3, <4>1, QuotasGrow DEF q
      <4>3. m - i >= w
        <5> HIDE DEF w
        <5>1. QED BY <3>4, <3>6, <3>7, <4>2
      <4>4. m - i >= MaxHits * (s - r + 1) BY <4>1, <4>3
      <4>5. b - a >= Window BY <1>6, <3>7, <4>4 DEF Bounded, n
      <4>6. time - a >= Window
        <5> HIDE DEF a, b
        <5>1. QED BY <1>num, <3>1, <3>8, <4>5
      <4>7. QED BY <3>2, <4>6
    <3>12. QED BY <3>9, <3>10, <3>11
  <2>3. QED BY <1>7, <2>1, <2>2
<1>11. Bounded(all2)
  <2> SUFFICES ASSUME NEW j \in 1..(n + 1), NEW i \in 1..j,
                      j - i >= MaxHits * (all2[j].run - all2[i].run + 1)
               PROVE  all2[j].at - all2[i].at >= Window
    BY <1>5 DEF Bounded
  <2>1. CASE j = n + 1
    <3>1. i \in 1..(n + 1) BY <2>1
    <3>2. all2[j].run = cur /\ all2[j].at = time BY <1>3, <1>5, <2>1
    <3>3. n + 1 - i >= MaxHits * (cur - all2[i].run + 1)
      <4>1. MaxHits * (all2[j].run - all2[i].run + 1) = MaxHits * (cur - all2[i].run + 1) BY <3>2, Zenon
      <4>2. j - i = n + 1 - i BY <1>num, <2>1, <3>1
      <4>3. QED BY <4>1, <4>2, Zenon
    <3>4. QED BY <1>10, <3>1, <3>2, <3>3
  <2>2. CASE j # n + 1
    <3>1. j \in 1..n /\ i \in 1..n BY <1>num, <2>2
    <3>2. all2[j] = all[j] /\ all2[i] = all[i] BY <1>5, <3>1
    <3>3. QED BY <1>6, <3>1, <3>2 DEF Bounded, n
  <2>3. QED BY <2>1, <2>2
<1>12. QED BY <1>8, <1>9, <1>11 DEF Rationed, kept2, all2, new

LEMMA RateInvFrame ==
  ASSUME RateInv, UNCHANGED limiterVars, now' = now \/ now' = now + 1
  PROVE  RateInv'
<1>1. now \in Nat /\ now' \in Nat /\ now <= now' /\ run \in Nat BY DEF RateInv
<1>2. UNCHANGED <<hits, served, run>> BY DEF limiterVars
<1>3. \A k \in Keys : Rationed(hits[k], served[k], now, run) BY DEF RateInv
<1>4. \A k \in Keys : Rationed(hits[k], served[k], now', run) BY <1>1, <1>3, RationedLater
<1>5. QED BY <1>1, <1>2, <1>4 DEF RateInv, Rationed, Passed, KeptLast, Bounded

\* A step that writes what is kept and what was let through.
LEMMA RateInvWrite ==
  ASSUME RateInv, now' = now, run' \in Nat,
         hits' = [k \in Keys |-> hits'[k]], served' = [k \in Keys |-> served'[k]],
         \A k \in Keys : Rationed(hits'[k], served'[k], now, run')
  PROVE  RateInv'
<1>1. \A k \in Keys : Rationed(hits[k], served[k], now, run)'
  <2> SUFFICES ASSUME NEW k \in Keys PROVE Rationed(hits[k], served[k], now, run)'
    OBVIOUS
  <2>1. Rationed(hits'[k], served'[k], now', run') OBVIOUS
  <2>2. QED BY <2>1, ZenonT(60) DEF Rationed, Passed, KeptLast, Bounded
<1>2. QED BY <1>1 DEF RateInv

\* A step that writes those of one key.
LEMMA RateInvWriteOne ==
  ASSUME RateInv, now' = now, run' = run, NEW x, NEW kept, NEW all,
         x \in Keys => Rationed(kept, all, now, run),
         hits' = [hits EXCEPT ![x] = kept], served' = [served EXCEPT ![x] = all]
  PROVE  RateInv'
<1>1. \A k \in Keys : Rationed(hits'[k], served'[k], now, run')
  <2> SUFFICES ASSUME NEW k \in Keys PROVE Rationed(hits'[k], served'[k], now, run)
    OBVIOUS
  <2>1. CASE k = x BY <2>1 DEF RateInv
  <2>2. CASE k # x BY <2>2 DEF RateInv
  <2>3. QED BY <2>1, <2>2
<1>2. hits' = [k \in Keys |-> hits'[k]] /\ served' = [k \in Keys |-> served'[k]] BY DEF RateInv
<1>3. run' \in Nat BY DEF RateInv
<1>4. QED BY <1>1, <1>2, <1>3, RateInvWrite

LEMMA CountPullKeepsRate ==
  ASSUME RateInv, now' = now, NEW x, AllowGachaPull(x), CountPull(x)
  PROVE  RateInv'
<1>1. now \in Nat /\ run \in Nat BY DEF RateInv
<1>2. ASSUME x \in Keys
      PROVE  Rationed(Append(Recent(x), now), Append(served[x], [at |-> now, run |-> run]), now, run)
  <2>1. Rationed(Recent(x), served[x], now, run) BY <1>1, <1>2, RecentRationed DEF RateInv, Recent
  <2>2. Len(Recent(x)) < MaxHits BY DEF AllowGachaPull
  <2>3. QED BY <1>1, <2>1, <2>2, CountRationed
<1>3. /\ hits' = [hits EXCEPT ![x] = Append(Recent(x), now)]
      /\ served' = [served EXCEPT ![x] = Append(served[x], [at |-> now, run |-> run])]
      /\ run' = run
  BY DEF CountPull
<1>4. QED BY <1>2, <1>3, RateInvWriteOne

LEMMA RateInvStep == RateInv /\ [Next]_vars => RateInv'
<1> SUFFICES ASSUME RateInv, [Next]_vars PROVE RateInv'
  OBVIOUS
<1>1. ASSUME NEW c \in Calls, NEW b \in Browsers, Sends(c, b) PROVE RateInv'
  <2>1. UNCHANGED limiterVars /\ now' = now
    BY <1>1 DEF Sends, GachaSend, LoadMachine, LoadInventory, PressPull, SubmitPost, MintAct, PickEquip,
                DeskSend, Refresh, RefreshTape, Act, Persist, AuthSend, Send, gachaVars
  <2>2. QED BY <2>1, RateInvFrame
<1>2. ASSUME NEW c \in Calls, Serve(c) PROVE RateInv'
  <2>1. now' = now BY <1>2, GachaServesApart
  <2>2. CASE PullSlowDown(c)
    <3>1. PICK x : x = Key(c) OBVIOUS
    <3>2. hits' = [hits EXCEPT ![x] = Recent(x)] /\ served' = served /\ run' = run
      BY <2>2, <3>1 DEF PullSlowDown
    <3>3. x \in Keys => Rationed(Recent(x), served[x], now, run) BY RecentRationed DEF RateInv, Recent
    <3>4. served' = [served EXCEPT ![x] = served[x]] BY <3>2 DEF RateInv
    <3>5. QED BY <2>1, <3>2, <3>3, <3>4, RateInvWriteOne
  <2>3. CASE \E x : AllowGachaPull(x) /\ CountPull(x)
    BY <2>1, <2>3, CountPullKeepsRate
  <2>4. CASE UNCHANGED limiterVars
    BY <2>1, <2>4, RateInvFrame
  <2>5. QED
    BY <1>2, <2>2, <2>3, <2>4
    DEF Serve, ReadLocker, PullOutOfYarn, Pull, Bagwork, BagworkRefused, Mark, Upgrade, NftRefused,
        Equip, EquipRefused
<1>3. ASSUME NEW c \in Calls, ServeDesk(c) PROVE RateInv'
  <2>1. now' = now BY <1>3, DeskServesApart
  <2>2. UNCHANGED limiterVars
    BY <1>3 DEF ServeDesk, BeginFetch, DeskUnmoved, DeskPrice, FinishHold, OpenRide, SettleRide,
                RideAnswered, CallVault, FlipTape, DeskAnswer, SealedAnswer, DeskKeeps, DeskUnchanged, gachaVars
  <2>3. QED BY <2>1, <2>2, RateInvFrame
<1>4. ASSUME NEW c \in Calls, ServeAuth(c), UNCHANGED gachaVars PROVE RateInv'
  <2>1. now' = now
    BY <1>4 DEF ServeAuth, IssueNonce, SignIn, SignInRefused, Logout, LogoutRefused, AnswerAs, Answer, Refuse
  <2>2. QED BY <1>4, <2>1, RateInvFrame DEF gachaVars
<1>5. ASSUME NEW c \in Calls, Arrives(c) PROVE RateInv'
  BY <1>5, RateInvFrame DEF Arrives, DeskReceive, Receive, DeskLoseAnswer, LoseAnswer, gachaVars
<1>6. ASSUME NEW b \in Browsers, Plays(b) PROVE RateInv'
  <2>1. UNCHANGED limiterVars /\ now' = now
    BY <1>6 DEF Plays, Play, StartRound, Tap, BeatTimeout, Beat, GiveUpSave, browserVars, gachaVars
  <2>2. QED BY <2>1, RateInvFrame
<1>7. CASE Passes \/ UNCHANGED vars
  BY <1>7, RateInvFrame DEF Passes, Tick, vars, browserVars, gachaVars
<1>8. CASE Restart
  <2>1. now' = now BY <1>8 DEF Restart, LoseProcess
  <2>2. hits' = [k \in Keys |-> << >>] /\ served' = served /\ run' = run + 1
    BY <1>8 DEF Restart, GachaRestart, TornWrite, ForgetHits
  <2>3. now \in Nat /\ run \in Nat /\ run' \in Nat BY <2>2 DEF RateInv
  <2>4. \A k \in Keys : Rationed(<< >>, served[k], now, run + 1) BY <2>3, RationedAnew DEF RateInv
  <2>5. \A k \in Keys : Rationed(hits'[k], served'[k], now, run') BY <2>2, <2>4
  <2>6. hits' = [k \in Keys |-> hits'[k]] /\ served' = [k \in Keys |-> served'[k]] BY <2>2 DEF RateInv
  <2>7. QED BY <2>1, <2>3, <2>5, <2>6, RateInvWrite
<1>9. QED
  BY <1>1, <1>2, <1>3, <1>4, <1>5, <1>6, <1>7, <1>8 DEF Next, Serves

\* However pulls, refusals and restarts follow each other, a window sees at most MaxHits
\* pulls of one locker from one address for each run of the process in it, so MaxHits in all
\* where no restart falls into it: the limiter keeps only the times that are still in its own
\* window, and those are enough (gacha-rate-limit.ts:8-18).
THEOREM PullsAreRationed == Spec => []RateKept
<1>1. Init => RateInv
  <2> SUFFICES ASSUME Init PROVE RateInv
    OBVIOUS
  <2>1. now = 1 /\ run = 1 /\ hits = [k \in Keys |-> << >>] /\ served = [k \in Keys |-> << >>]
    BY DEF Init, BrowserInit, GachaInit
  <2>2. QED BY <2>1, NobodyRationed DEF RateInv
<1>2. RateInv => RateKept
  <2> SUFFICES ASSUME RateInv, NEW k \in Keys PROVE Bounded(served[k]) /\ DOMAIN served[k] = 1..Len(served[k])
    BY DEF RateKept, Bounded
  <2>1. Rationed(hits[k], served[k], now, run) /\ now \in Nat /\ run \in Nat BY DEF RateInv
  <2>2. QED BY <2>1, PassedEntries DEF Rationed
<1>3. QED BY <1>1, <1>2, RateInvStep, PTL DEF Spec

-----------------------------------------------------------------------------
(***************************************************************************)
(* Where lockers come from: a cookie is one there was, or an answer that   *)
(* some call makes of the locker it was sent with.                         *)
(***************************************************************************)
Turned(m, c) ==
  LET l == Locked(c) input == calls[c].input
  IN \/ m = l
     \/ CanPull(l) /\ \E seed \in Seeds : m = Pulled(l, Roll(l, seed))
     \/ calls[c].kind = "bagwork" /\ CanBagwork(l, input, now) /\ m = Bagworked(l, input, now)
     \/ CanMark(l, input, claims, now) /\ m = Marked(l, input)
     \/ CanUpgrade(l, input, now) /\ m = Upgraded(l, input)
     \/ calls[c].kind = "equip" /\ m = Equipped(l, input[1], input[2])
     \/ \E yarn \in {0, 1} : m = YarnBonus(l, yarn)

Active(c) == calls[c].step \in {"sent", "fetching"}

\* Every locker there is after a step.
Lockers == \A t \in Cookies("gacha")' :
             \/ t \in Cookies("gacha")
             \/ now' = now /\ \E c \in Calls : Active(c) /\ Turned(t.locker, c)

LEMMA GachaTurns ==
  ASSUME JarsInv, NEW c \in Calls, Serve(c)
  PROVE  JarsInv' /\ Lockers
<1>0. now' = now BY GachaServesApart
<1>1. Active(c)
  BY DEF Active, Serve, ReadLocker, PullSlowDown, PullOutOfYarn, Pull, Bagwork, BagworkRefused, Mark, Upgrade,
         NftRefused, Equip, EquipRefused, Waiting
<1>2. ASSUME NEW set, NEW l, NEW roll, GachaAnswer(c, set, l, roll), set = << >> \/ set = Saved(l), Turned(l, c)
      PROVE  JarsInv' /\ Lockers
  <2>1. "gacha" \in DOMAIN set => set["gacha"].locker = l BY <1>2 DEF Saved, Seal
  <2>2. JarsInv' /\ \A t \in Cookies("gacha")' : t \in Cookies("gacha") \/ ("gacha" \in DOMAIN set /\ t = set["gacha"])
    BY <1>2, AnswerCookies, SiteCookies DEF GachaAnswer
  <2>3. QED BY <1>0, <1>1, <1>2, <2>1, <2>2 DEF Lockers
<1>3. CASE ReadLocker(c)
  <2>1. PICK set : GachaAnswer(c, set, Locked(c), NoRoll) /\ (set = << >> \/ set = Saved(Locked(c)))
    BY <1>3 DEF ReadLocker
  <2>2. Turned(Locked(c), c) BY DEF Turned
  <2>3. QED BY <1>2, <2>1, <2>2
<1>4. CASE GachaRefuse(c)
  BY <1>4, EndedCookies, SiteCookies DEF GachaRefuse, Refuse, Lockers
<1>5. ASSUME NEW seed \in Seeds, Pull(c, seed) PROVE JarsInv' /\ Lockers
  <2>1. PICK roll : roll = Roll(Locked(c), seed)
                    /\ GachaAnswer(c, Saved(Pulled(Locked(c), roll)), Pulled(Locked(c), roll), roll)
    BY <1>5 DEF Pull
  <2>2. Turned(Pulled(Locked(c), roll), c) BY <1>5, <2>1 DEF Turned, Pull
  <2>3. QED BY <1>2, <2>1, <2>2
<1>6. CASE Bagwork(c) \/ Mark(c) \/ Upgrade(c) \/ Equip(c)
  <2>1. PICK l : GachaAnswer(c, Saved(l), l, NoRoll) /\ Turned(l, c)
    <3>1. CASE Bagwork(c) BY <3>1 DEF Bagwork, Turned, Waiting
    <3>2. CASE Mark(c) BY <3>2 DEF Mark, Turned
    <3>3. CASE Upgrade(c) BY <3>3 DEF Upgrade, Turned
    <3>4. CASE Equip(c) BY <3>4 DEF Equip, Turned, Waiting
    <3>5. QED BY <1>6, <3>1, <3>2, <3>3, <3>4
  <2>2. QED BY <1>2, <2>1
<1>7. QED
  BY <1>3, <1>4, <1>5, <1>6
  DEF Serve, PullSlowDown, PullOutOfYarn, BagworkRefused, NftRefused, EquipRefused

LEMMA DeskTurns ==
  ASSUME JarsInv, NEW c \in Calls, ServeDesk(c)
  PROVE  JarsInv' /\ Lockers
<1>0. now' = now BY DeskServesApart
<1>1. CASE BeginFetch(c)
  BY <1>1, FetchCookies, SiteCookies DEF BeginFetch, Lockers
<1>2. ASSUME NEW t \in Tapes(c), Active(c),
             \/ DeskUnmoved(c, t) \/ DeskPrice(c, t) \/ FinishHold(c, t) \/ OpenRide(c, t)
             \/ SettleRide(c, t) \/ RideAnswered(c, t) \/ CallVault(c, t) \/ FlipTape(c, t)
      PROVE  JarsInv' /\ Lockers
  <2>1. Refuse(c) \/ \E desk, yarn, time : yarn \in {0, 1} /\ SealedAnswer(c, desk, yarn, time)
    BY <1>2 DEF DeskUnmoved, DeskAnswer, DeskKeeps, DeskPrice, FinishHold, OpenRide, SettleRide, RideAnswered,
                CallVault, FlipTape, HoldYarn, VaultYarn
  <2>2. CASE Refuse(c) BY <2>2, EndedCookies, SiteCookies DEF Refuse, Lockers
  <2>3. ASSUME NEW desk, NEW yarn \in {0, 1}, NEW time, SealedAnswer(c, desk, yarn, time) PROVE JarsInv' /\ Lockers
    <3>1. PICK fed : fed = YarnBonus(Locked(c), yarn) OBVIOUS
    <3>2. Turned(fed, c) BY <3>1 DEF Turned
    <3>3. PICK set : Answer(c, set, NoRoll) /\ (set = SealDesk(desk, time) \/ set = Over(Saved(fed), SealDesk(desk, time)))
      BY <2>3, <3>1 DEF SealedAnswer
    <3>4. "gacha" \in DOMAIN set => set["gacha"].locker = fed BY <3>3 DEF Over, Saved, Seal, SealDesk
    <3>5. JarsInv' /\ \A u \in Cookies("gacha")' : u \in Cookies("gacha") \/ ("gacha" \in DOMAIN set /\ u = set["gacha"])
      BY <3>3, AnswerCookies, SiteCookies
    <3>6. QED BY <1>0, <1>2, <3>2, <3>4, <3>5 DEF Lockers
  <2>4. QED BY <2>1, <2>2, <2>3
<1>3. QED BY <1>1, <1>2 DEF ServeDesk, Active

LEMMA AuthTurns ==
  ASSUME JarsInv, NEW c \in Calls, ServeAuth(c)
  PROVE  JarsInv' /\ Lockers
<1>1. Refuse(c) \/ \E set, body : Answer(c, set, body) /\ "gacha" \notin DOMAIN set
  BY DEF ServeAuth, IssueNonce, SignIn, SignInRefused, Logout, LogoutRefused, AnswerAs, Waiting
<1>2. CASE Refuse(c) BY <1>2, EndedCookies, SiteCookies DEF Refuse, Lockers
<1>3. QED BY <1>1, <1>2, AnswerCookies, SiteCookies DEF Lockers

LEMMA SiteTurns ==
  ASSUME JarsInv, [Next]_vars
  PROVE  JarsInv' /\ Lockers /\ (now' = now \/ now' = now + 1)
<1>1. ASSUME NEW c \in Calls, NEW b \in Browsers, Sends(c, b) PROVE JarsInv' /\ Lockers /\ now' = now
  <2>1. PICK kind, input : Send(c, b, kind, input)
    BY <1>1 DEF Sends, GachaSend, LoadMachine, LoadInventory, PressPull, SubmitPost, MintAct, PickEquip,
                DeskSend, Refresh, RefreshTape, Act, Persist, AuthSend
  <2>2. now' = now BY <2>1 DEF Send
  <2>3. QED BY <2>1, <2>2, SendCookies, SiteCookies DEF Lockers
<1>2. ASSUME NEW c \in Calls, Serves(c) PROVE JarsInv' /\ Lockers /\ now' = now
  <2>1. JarsInv' /\ Lockers BY <1>2, GachaTurns, DeskTurns, AuthTurns DEF Serves
  <2>2. CASE ServeAuth(c)
    BY <2>1, <2>2 DEF ServeAuth, IssueNonce, SignIn, SignInRefused, Logout, LogoutRefused, AnswerAs, Answer, Refuse
  <2>3. QED BY <1>2, <2>1, <2>2, GachaServesApart, DeskServesApart DEF Serves
<1>3. ASSUME NEW c \in Calls, Arrives(c) PROVE JarsInv' /\ Lockers /\ now' = now
  <2>1. CASE DeskReceive(c) BY <2>1, ReceiveCookies, SiteCookies DEF DeskReceive, Receive, Lockers
  <2>2. CASE DeskLoseAnswer(c) BY <2>2, EndedCookies, SiteCookies DEF DeskLoseAnswer, LoseAnswer, Lockers
  <2>3. QED BY <1>3, <2>1, <2>2 DEF Arrives
<1>4. ASSUME UNCHANGED <<jar, calls>> PROVE JarsInv' /\ Lockers
  BY <1>4, SameCookies DEF Lockers
<1>5. ASSUME NEW b \in Browsers, Plays(b) PROVE JarsInv' /\ Lockers /\ now' = now
  <2>1. UNCHANGED <<jar, calls, now>>
    BY <1>5 DEF Plays, Play, StartRound, Tap, BeatTimeout, Beat, GiveUpSave, browserVars
  <2>2. QED BY <1>4, <2>1
<1>6. CASE Passes \/ UNCHANGED vars
  BY <1>4, <1>6 DEF Passes, Tick, vars, browserVars
<1>7. CASE Restart
  BY <1>7, RestartCookies, SiteCookies DEF Restart, LoseProcess, Lockers
<1>8. QED BY <1>1, <1>2, <1>3, <1>5, <1>6, <1>7 DEF Next

-----------------------------------------------------------------------------
(***************************************************************************)
(* Work.  The days of bagwork a locker went through are those its counters *)
(* speak for: as many as posts, the first when the hold began, none after  *)
(* the last day.  So the gates, which read the counters only, ask for days *)
(* that were worked.                                                       *)
(***************************************************************************)
Worked(l, time) ==
  /\ {"posts", "lastDay", "holdStartedAt", "marks", "past"} \subseteq DOMAIN l /\ "days" \in DOMAIN l.past
  /\ l.marks \in [Ultras -> Tiers]
  /\ l.past.days \subseteq Nat /\ IsFiniteSet(l.past.days) /\ l.posts = Cardinality(l.past.days)
  /\ l.lastDay \in Nat \cup {None} /\ (l.lastDay = None => l.past.days = {})
  /\ l.lastDay # None => l.lastDay <= Day(time) /\ \A d \in l.past.days : d <= l.lastDay
  /\ l.holdStartedAt \in Nat \cup {None}
  /\ l.holdStartedAt # None => l.holdStartedAt <= time /\ Day(l.holdStartedAt) \in l.past.days

\* Some day of bagwork is n days ago, or more.
WorkedFor(l, n, time) == \E d \in l.past.days : Day(time) - d >= n

GatedFor(l, time) ==
  \A u \in Marks(l) :
    /\ WorkedFor(l, ClaimHold, time)
    /\ l.marks[u] = "diamond" => l.posts >= DiamondBagwork /\ WorkedFor(l, DiamondHold, time)

WorkInv ==
  /\ JarsInv /\ now \in Nat
  /\ \A t \in Cookies("gacha") : Worked(t.locker, now) /\ GatedFor(t.locker, now)

\* Whole days that have passed lie between the day it began and today.
LEMMA DaysPassed ==
  ASSUME NEW h \in Nat, NEW t \in Nat, h <= t
  PROVE  (t - h) \div DayLength \in Nat /\ (t - h) \div DayLength <= Day(t) - Day(h)
<1> DEFINE p == (t - h) \div DayLength
           q == h \div DayLength
           r == t \div DayLength
<1>1. DayLength \in Nat /\ DayLength > 0 /\ t - h \in Nat BY GachaSetup
<1>2. /\ p \in Int /\ DayLength * p <= t - h
      /\ q \in Int /\ DayLength * q <= h
      /\ r \in Int /\ t < DayLength * r + DayLength
  BY <1>1
<1>3. p >= 0 BY <1>1
<1> HIDE DEF p, q, r
<1>4. ASSUME r + 1 <= p + q PROVE FALSE
  <2>1. DayLength * (r + 1) <= DayLength * (p + q) BY <1>1, <1>2, <1>4
  <2>2. DayLength * (r + 1) = DayLength * r + DayLength /\ DayLength * (p + q) = DayLength * p + DayLength * q
    BY <1>1, <1>2
  <2>3. DayLength * r \in Int /\ DayLength * p \in Int /\ DayLength * q \in Int BY <1>1, <1>2
  <2>4. QED BY <1>1, <1>2, <2>1, <2>2, <2>3
<1>5. p <= r - q BY <1>2, <1>4
<1>6. QED BY <1>2, <1>3, <1>5 DEF p, q, r, Day

LEMMA HoldReaches ==
  ASSUME NEW time \in Nat, NEW l, Worked(l, time), NEW n \in Nat, HoldDaysElapsed(l, time) >= n,
         n > 0 \/ l.past.days # {}
  PROVE  WorkedFor(l, n, time)
<1> DEFINE h == l.holdStartedAt
<1>1. h \in Nat \cup {None} /\ (h # None => h <= time /\ Day(h) \in l.past.days) BY DEF Worked
<1>2. CASE n = 0
  <2>1. PICK d \in l.past.days : TRUE BY <1>2
  <2>2. l.lastDay # None BY <2>1 DEF Worked
  <2>3. d \in Nat /\ l.lastDay \in Nat /\ d <= l.lastDay /\ l.lastDay <= Day(time) BY <2>1, <2>2 DEF Worked
  <2>4. Day(time) \in Nat BY DayMonotone
  <2>5. QED BY <1>2, <2>3, <2>4 DEF WorkedFor
<1>3. CASE n > 0
  <2>1. h # None /\ ~(h > time) /\ (time - h) \div DayLength >= n BY <1>3 DEF HoldDaysElapsed
  <2>2. h \in Nat /\ h <= time /\ Day(h) \in l.past.days BY <1>1, <2>1
  <2> HIDE DEF h
  <2>3. (time - h) \div DayLength \in Nat /\ (time - h) \div DayLength <= Day(time) - Day(h)
    BY <2>2, DaysPassed
  <2>4. Day(h) \in Nat /\ Day(time) \in Nat BY <2>2, DayMonotone
  <2>5. Day(time) - Day(h) >= n BY <2>1, <2>3, <2>4
  <2>6. QED BY <2>2, <2>5 DEF WorkedFor
<1>4. QED BY <1>2, <1>3

LEMMA WorkedLater ==
  ASSUME NEW time \in Nat, NEW later \in Nat, time <= later, NEW l, Worked(l, time), GatedFor(l, time)
  PROVE  Worked(l, later) /\ GatedFor(l, later)
<1>1. Day(time) \in Nat /\ Day(later) \in Nat /\ Day(time) <= Day(later) BY DayMonotone
<1> DEFINE today == Day(time)
           then == Day(later)
<1>2. Worked(l, later)
  <2>1. l.lastDay # None => l.lastDay <= Day(later) BY <1>1 DEF Worked
  <2>2. l.holdStartedAt # None => l.holdStartedAt <= later BY DEF Worked
  <2>3. QED BY <2>1, <2>2 DEF Worked
<1>3. \A n \in Nat : WorkedFor(l, n, time) => WorkedFor(l, n, later)
  <2> SUFFICES ASSUME NEW n \in Nat, NEW d \in l.past.days, Day(time) - d >= n PROVE Day(later) - d >= n
    BY DEF WorkedFor
  <2>1. d \in Nat BY DEF Worked
  <2>2. QED BY <1>1, <2>1
<1>4. GatedFor(l, later) BY <1>3, GachaSetup DEF GatedFor
<1>5. QED BY <1>2, <1>4

\* Functions that touch neither the work nor the marks.
SameWork(m, l) ==
  /\ DOMAIN m = DOMAIN l /\ "days" \in DOMAIN m.past /\ m.past.days = l.past.days
  /\ m.posts = l.posts /\ m.lastDay = l.lastDay /\ m.holdStartedAt = l.holdStartedAt /\ m.marks = l.marks

LEMMA SameWorkKept ==
  ASSUME NEW time, NEW l, NEW m, Worked(l, time), GatedFor(l, time), SameWork(m, l)
  PROVE  Worked(m, time) /\ GatedFor(m, time)
<1>1. Worked(m, time) BY DEF Worked, SameWork
<1>2. Marks(m) = Marks(l) BY DEF Marks, SameWork
<1>3. \A n : WorkedFor(l, n, time) => WorkedFor(m, n, time) BY DEF WorkedFor, SameWork
<1>4. GatedFor(m, time) BY <1>2, <1>3 DEF GatedFor, SameWork, Worked
<1>5. QED BY <1>1, <1>4

LEMMA OthersKeepWork ==
  ASSUME NEW time, NEW l, Worked(l, time)
  PROVE  /\ \A roll : SameWork(Pulled(l, roll), l)
         /\ \A n : SameWork(YarnBonus(l, n), l)
         /\ \A slot, item : SameWork(Equipped(l, slot, item), l)
<1>1. ASSUME NEW roll PROVE SameWork(Pulled(l, roll), l)
  <2> DEFINE m == Pulled(l, roll)
  <2>1. "past" \in DOMAIN l /\ "days" \in DOMAIN l.past BY DEF Worked
  <2>2. DOMAIN m = DOMAIN l BY DEF Pulled
  <2>3. "days" \in DOMAIN m.past /\ m.past.days = l.past.days BY <2>1 DEF Pulled
  <2>4. m.posts = l.posts /\ m.lastDay = l.lastDay BY DEF Pulled
  <2>5. m.holdStartedAt = l.holdStartedAt /\ m.marks = l.marks BY DEF Pulled
  <2> HIDE DEF m
  <2>6. SameWork(m, l) BY <2>2, <2>3, <2>4, <2>5, Zenon DEF SameWork
  <2>7. QED BY <2>6 DEF m
<1>2. \A n : SameWork(YarnBonus(l, n), l) BY DEF Worked, SameWork, YarnBonus
<1>3. \A slot, item : SameWork(Equipped(l, slot, item), l) BY DEF Worked, SameWork, Equipped
<1>4. QED BY <1>1, <1>2, <1>3

LEMMA NewIsWorked ==
  ASSUME NEW id, NEW time \in Nat
  PROVE  Worked(EmptyLocker(id), time) /\ GatedFor(EmptyLocker(id), time)
<1>1. Marks(EmptyLocker(id)) = {} BY DEF Marks, EmptyLocker
<1>2. IsFiniteSet({}) /\ Cardinality({}) = 0 BY FS_EmptySet
<1>3. EmptyLocker(id).marks \in [Ultras -> Tiers] BY DEF EmptyLocker, Tiers
<1>4. Worked(EmptyLocker(id), time) BY <1>2, <1>3 DEF Worked, EmptyLocker
<1>5. QED BY <1>1, <1>4 DEF GatedFor

\* A day that is worked is a new one.
LEMMA BagworkedIsWorked ==
  ASSUME NEW time \in Nat, NEW l, Worked(l, time), GatedFor(l, time), NEW post, CanBagwork(l, post, time)
  PROVE  Worked(Bagworked(l, post, time), time) /\ GatedFor(Bagworked(l, post, time), time)
<1> DEFINE m == Bagworked(l, post, time)
           today == Day(time)
<1>1. /\ DOMAIN m = DOMAIN l /\ "days" \in DOMAIN m.past /\ m.past.days = l.past.days \cup {today}
      /\ m.posts = l.posts + 1 /\ m.lastDay = today /\ m.marks = l.marks
      /\ m.holdStartedAt = IF l.holdStartedAt = None THEN time ELSE l.holdStartedAt
  BY DEF Bagworked, Worked
<1>2. today \in Nat BY DayMonotone
<1>3. l.lastDay # today BY DEF CanBagwork
<1> HIDE DEF m, today
<1>4. today # None BY <1>2, GachaSessionSetup
<1>5. \A d \in l.past.days : d \in Nat /\ d < today
  <2> SUFFICES ASSUME NEW d \in l.past.days PROVE d \in Nat /\ d < today
    OBVIOUS
  <2>1. l.lastDay # None /\ d \in Nat BY DEF Worked
  <2>2. l.lastDay \in Nat /\ d <= l.lastDay /\ l.lastDay <= today BY <2>1 DEF Worked, today
  <2>3. QED BY <1>2, <1>3, <2>1, <2>2
<1>6. IsFiniteSet(m.past.days) /\ Cardinality(m.past.days) = Cardinality(l.past.days) + 1
  <2>1. today \notin l.past.days BY <1>2, <1>5
  <2>2. IsFiniteSet(l.past.days) BY DEF Worked
  <2>3. /\ IsFiniteSet(l.past.days \cup {today})
        /\ Cardinality(l.past.days \cup {today}) = Cardinality(l.past.days) + 1
    BY <2>1, <2>2, FS_AddElement, ZenonT(60)
  <2>4. m.past.days = l.past.days \cup {today} BY <1>1
  <2>5. QED BY <2>3, <2>4
<1>7. m.holdStartedAt \in Nat /\ m.holdStartedAt <= time /\ Day(m.holdStartedAt) \in m.past.days
  <2>1. CASE l.holdStartedAt = None BY <1>1, <2>1 DEF today
  <2>2. CASE l.holdStartedAt # None BY <1>1, <2>2 DEF Worked
  <2>3. QED BY <2>1, <2>2
<1>8. Worked(m, time)
  <2>1. \A d \in m.past.days : d \in Nat /\ d <= today BY <1>1, <1>2, <1>5
  <2>2. {"posts", "lastDay", "holdStartedAt", "marks", "past"} \subseteq DOMAIN m /\ m.marks \in [Ultras -> Tiers]
    BY <1>1 DEF Worked
  <2>3. m.posts = Cardinality(m.past.days) BY <1>1, <1>6 DEF Worked
  <2>4. QED BY <1>1, <1>2, <1>4, <1>6, <1>7, <2>1, <2>2, <2>3 DEF Worked, today
<1>9. GatedFor(m, time)
  <2>1. Marks(m) = Marks(l) BY <1>1 DEF Marks
  <2>2. \A n : WorkedFor(l, n, time) => WorkedFor(m, n, time) BY <1>1 DEF WorkedFor
  <2>3. l.posts \in Nat BY FS_CardinalityType DEF Worked
  <2>4. l.posts >= DiamondBagwork => m.posts >= DiamondBagwork BY <1>1, <2>3, GachaSetup
  <2>5. QED BY <1>1, <2>1, <2>2, <2>4 DEF GatedFor
<1>10. QED BY <1>8, <1>9 DEF m

\* A new mark was held for, a cut one was worked for too.
LEMMA MarkedIsWorked ==
  ASSUME NEW time \in Nat, NEW l, Worked(l, time), GatedFor(l, time), NEW u \in Ultras,
         CanClaimRareOrUltra(l, time)
  PROVE  Worked(Marked(l, u), time) /\ GatedFor(Marked(l, u), time)
<1> DEFINE m == Marked(l, u)
<1>1. /\ DOMAIN m = DOMAIN l /\ m.past = l.past /\ m.posts = l.posts /\ m.lastDay = l.lastDay
      /\ m.holdStartedAt = l.holdStartedAt /\ m.marks = [l.marks EXCEPT ![u] = "gold"]
  BY DEF Marked, Worked
<1> HIDE DEF m
<1>2. m.marks \in [Ultras -> Tiers] BY <1>1 DEF Worked, Tiers
<1>3. Worked(m, time) BY <1>1, <1>2 DEF Worked
<1>4. WorkedFor(l, ClaimHold, time)
  BY HoldReaches, GachaSetup DEF CanClaimRareOrUltra
<1>5. \A v \in Marks(m) : m.marks[v] = "diamond" => v \in Marks(l) /\ l.marks[v] = "diamond"
  BY <1>1 DEF Marks, Worked
<1>6. GatedFor(m, time) BY <1>1, <1>4, <1>5 DEF GatedFor, WorkedFor
<1>7. QED BY <1>3, <1>6 DEF m

LEMMA UpgradedIsWorked ==
  ASSUME NEW time \in Nat, NEW l, Worked(l, time), GatedFor(l, time), NEW u, CanUpgrade(l, u, time)
  PROVE  Worked(Upgraded(l, u), time) /\ GatedFor(Upgraded(l, u), time)
<1> DEFINE m == Upgraded(l, u)
<1>1. /\ DOMAIN m = DOMAIN l /\ m.past = l.past /\ m.posts = l.posts /\ m.lastDay = l.lastDay
      /\ m.holdStartedAt = l.holdStartedAt /\ m.marks = [l.marks EXCEPT ![u] = "diamond"]
  BY DEF Upgraded, Worked
<1>2. u \in Ultras /\ l.marks[u] = "gold" /\ l.posts >= DiamondBagwork
      /\ HoldDaysElapsed(l, time) >= DiamondHold
  BY DEF CanUpgrade, CanCutUltraDiamond
<1> HIDE DEF m
<1>3. m.marks \in [Ultras -> Tiers] BY <1>1 DEF Worked, Tiers
<1>4. Worked(m, time) BY <1>1, <1>3 DEF Worked
<1>5. u \in Marks(l) /\ Marks(m) = Marks(l) BY <1>1, <1>2 DEF Marks, Worked
<1>6. WorkedFor(l, ClaimHold, time) /\ l.past.days # {} BY <1>5 DEF GatedFor, WorkedFor
<1>7. WorkedFor(l, DiamondHold, time) BY <1>2, <1>6, HoldReaches, GachaSetup
<1>8. GatedFor(m, time) BY <1>1, <1>2, <1>6, <1>7 DEF GatedFor, WorkedFor
<1>9. QED BY <1>4, <1>8 DEF m

LEMMA LockedIsWorked ==
  ASSUME WorkInv, NEW c \in Calls, Active(c)
  PROVE  Worked(Locked(c), now) /\ GatedFor(Locked(c), now)
<1>1. CASE Expired(Sent(c))
  BY <1>1, NewIsWorked DEF Locked, Loaded, WorkInv
<1>2. CASE ~Expired(Sent(c))
  <2>1. Sent(c) \in Cookies("gacha") BY <1>2 DEF Expired, Sent, Cookies, Active
  <2>2. QED BY <1>2, <2>1 DEF WorkInv, Locked, Loaded
<1>3. QED BY <1>1, <1>2

LEMMA TurnedIsWorked ==
  ASSUME WorkInv, NEW c \in Calls, Active(c), NEW m, Turned(m, c)
  PROVE  Worked(m, now) /\ GatedFor(m, now)
<1>1. PICK l : l = Locked(c) OBVIOUS
<1>2. Worked(l, now) /\ GatedFor(l, now) /\ now \in Nat BY <1>1, LockedIsWorked DEF WorkInv
<1>3. CASE m = l BY <1>2, <1>3
<1>4. CASE \/ \E roll : m = Pulled(l, roll)
           \/ \E yarn : m = YarnBonus(l, yarn)
           \/ \E slot, item : m = Equipped(l, slot, item)
  <2>1. SameWork(m, l) BY <1>2, <1>4, OthersKeepWork
  <2>2. QED BY <1>2, <2>1, SameWorkKept
<1>5. ASSUME NEW post, CanBagwork(l, post, now), m = Bagworked(l, post, now)
      PROVE  Worked(m, now) /\ GatedFor(m, now)
  BY <1>2, <1>5, BagworkedIsWorked
<1>6. ASSUME NEW u, CanMark(l, u, claims, now), m = Marked(l, u)
      PROVE  Worked(m, now) /\ GatedFor(m, now)
  BY <1>2, <1>6, MarkedIsWorked DEF CanMark
<1>7. ASSUME NEW u, CanUpgrade(l, u, now), m = Upgraded(l, u)
      PROVE  Worked(m, now) /\ GatedFor(m, now)
  BY <1>2, <1>7, UpgradedIsWorked
<1>8. QED BY <1>1, <1>3, <1>4, <1>5, <1>6, <1>7 DEF Turned

LEMMA WorkInvStep ==
  ASSUME WorkInv, [Next]_vars
  PROVE  WorkInv'
<1>1. JarsInv' /\ Lockers /\ (now' = now \/ now' = now + 1) BY SiteTurns DEF WorkInv
<1>2. now \in Nat /\ now' \in Nat /\ now <= now' BY <1>1 DEF WorkInv
<1>3. \A t \in Cookies("gacha")' : Worked(t.locker, now') /\ GatedFor(t.locker, now')
  <2> SUFFICES ASSUME NEW t \in Cookies("gacha")' PROVE Worked(t.locker, now') /\ GatedFor(t.locker, now')
    OBVIOUS
  <2>1. CASE t \in Cookies("gacha") BY <1>2, <2>1, WorkedLater DEF WorkInv
  <2>2. CASE t \notin Cookies("gacha") BY <1>1, <2>2, TurnedIsWorked DEF Lockers
  <2>3. QED BY <2>1, <2>2
<1>4. QED BY <1>1, <1>2, <1>3 DEF WorkInv, Worked, GatedFor, WorkedFor, Marks

LEMMA NoLockersAtFirst == Init => JarsInv /\ now = 1 /\ Cookies("gacha") = {} /\ nextId = 0
<1> SUFFICES ASSUME Init PROVE JarsInv /\ now = 1 /\ Cookies("gacha") = {} /\ nextId = 0
  OBVIOUS
<1>1. JarsInv BY JarsInit DEF Init
<1>2. \A b \in Browsers : jar[b]["gacha"] = NoCookie BY SiteCookies DEF Init, BrowserInit
<1>3. \A c \in Calls : calls[c].step = "idle" BY DEF Init, BrowserInit, Idle
<1>4. Cookies("gacha") = {} BY <1>2, <1>3 DEF Cookies
<1>5. QED BY <1>1, <1>4 DEF Init, BrowserInit, GachaInit

\* As many ages as days.
LEMMA AgesOfDays ==
  ASSUME NEW today \in Nat, NEW days, days \subseteq Nat, IsFiniteSet(days)
  PROVE  Cardinality({today - d : d \in days}) = Cardinality(days)
<1> DEFINE ages == {today - d : d \in days}
           f == [d \in days |-> today - d]
<1>1. f \in Bijection(days, ages)
  <2>1. f \in [days -> ages] OBVIOUS
  <2>2. \A d, e \in days : f[d] = f[e] => d = e OBVIOUS
  <2>3. \A a \in ages : \E d \in days : f[d] = a OBVIOUS
  <2>4. DOMAIN f = days OBVIOUS
  <2> HIDE DEF f, ages
  <2>5. QED BY <2>1, <2>2, <2>3, <2>4 DEF Bijection, Injection, Surjection, IsInjective
<1> HIDE DEF f, ages
<1>2. ExistsBijection(days, ages) BY <1>1 DEF ExistsBijection
<1>3. QED BY <1>2, FS_Bijection DEF ages

\* A mark in any cookie, also one an answer still carries, was won by its locker and is on
\* file, and the days of bagwork its locker went through reach back far enough for it: the
\* gates read a counter and two dates, and those are never ahead of the work (gacha-demo.ts,
\* applyBagworkGrant; nft-rules.ts, holdDaysElapsed).
THEOREM MarksInCookiesAreEarned == Spec => []MarksAreEarned
<1>1. Init => WorkInv BY NoLockersAtFirst DEF WorkInv
<1>2. WorkInv => GatesEarned
  <2> SUFFICES ASSUME WorkInv, NEW t \in Cookies("gacha"), NEW u \in Marks(t.locker)
               PROVE  LET worked == {Day(now) - d : d \in t.locker.past.days}
                      IN /\ \E age \in worked : age >= ClaimHold
                         /\ t.locker.marks[u] = "diamond" =>
                              Cardinality(worked) >= DiamondBagwork /\ \E age \in worked : age >= DiamondHold
    BY DEF GatesEarned, Held
  <2>1. Worked(t.locker, now) /\ GatedFor(t.locker, now) /\ Day(now) \in Nat
    BY DayMonotone DEF WorkInv
  <2>2. Cardinality({Day(now) - d : d \in t.locker.past.days}) = t.locker.posts
    BY <2>1, AgesOfDays DEF Worked
  <2>3. QED BY <2>1, <2>2 DEF GatedFor, WorkedFor
<1>3. WorkInv /\ [Next]_vars => WorkInv' BY WorkInvStep
<1>4. Spec => []GatesEarned BY <1>1, <1>2, <1>3, PTL DEF Spec
<1>5. MarksAreWon /\ GatesEarned => MarksAreEarned BY DEF MarksAreEarned
<1>6. QED BY <1>4, <1>5, MarksInCookiesAreWon, PTL

-----------------------------------------------------------------------------
(***************************************************************************)
(* The books of lockers.                                                   *)
(***************************************************************************)
CommonsToGive == InSupplyItems(Catalog, "common") # << >>

\* Some row of the odds is the one a bucket falls in.
LEMMA BucketHasRarity ==
  ASSUME NEW bucket \in 0..(TotalWeight(Catalog.odds) - 1)
  PROVE  RarityFromBucket(bucket, Catalog.odds) \in Rarities
<1> DEFINE odds == Catalog.odds
           n == Len(odds)
           w == [j \in DOMAIN odds |-> odds[j].weight]
           sum == [k \in 0..n |-> SumFunctionOnSet(w, 1..k)]
           Above == {k \in 0..n : bucket < sum[k]}
           first == Min(Above)
<1>1. n \in Nat /\ DOMAIN odds = 1..n /\ \A j \in 1..n : odds[j].rarity \in Rarities /\ w[j] \in Nat
  <2>1. odds \in Seq([rarity : Rarities, weight : Nat]) BY GachaSetup
  <2>2. n \in Nat /\ DOMAIN odds = 1..n /\ \A j \in 1..n : odds[j] \in [rarity : Rarities, weight : Nat]
    BY <2>1, ElementOfSeq, LenProperties
  <2>3. QED BY <2>2
<1>2. \A k \in 0..n : sum[k] = WeightUpTo(odds, k) BY DEF WeightUpTo
<1> HIDE DEF odds, w
<1>3. \A k \in 0..n : sum[k] \in Nat
  <2> SUFFICES ASSUME NEW k \in 0..n PROVE SumFunctionOnSet(w, 1..k) \in Nat
    OBVIOUS
  <2>1. IsFiniteSet(1..k) BY <1>1, CountTo
  <2>2. \A x \in 1..k : w[x] \in Nat BY <1>1
  <2>3. QED BY <2>1, <2>2, SumIsNat
<1>4. sum[0] = 0 BY <1>1, SumOverNone
<1>5. bucket \in Nat /\ bucket < sum[n]
  <2>1. sum[n] = TotalWeight(odds) /\ sum[n] \in Nat BY <1>1, <1>2, <1>3 DEF TotalWeight
  <2>2. QED BY <2>1 DEF odds
<1> HIDE DEF n, sum
<1>6. first \in Above /\ \A k \in Above : first <= k
  <2>1. Above \subseteq Nat /\ Above # {} BY <1>1, <1>5
  <2> HIDE DEF Above
  <2>2. QED BY <2>1, MinOfNats
<1> HIDE DEF first
<1>7. first \in 1..n /\ first - 1 \in 0..n BY <1>1, <1>4, <1>5, <1>6
<1>8. first - 1 \notin Above BY <1>1, <1>6, <1>7
<1>9. sum[first - 1] <= bucket BY <1>3, <1>5, <1>7, <1>8
<1>10. \E k \in DOMAIN odds : WeightUpTo(odds, k - 1) <= bucket /\ bucket < WeightUpTo(odds, k)
  <2>1. first \in 0..n BY <1>1, <1>7
  <2>2. WeightUpTo(odds, first - 1) <= bucket /\ bucket < WeightUpTo(odds, first)
    BY <1>2, <1>6, <1>7, <1>9, <2>1
  <2>3. QED BY <1>1, <1>7, <2>2
<1>11. PICK k : k = CHOOSE i \in DOMAIN odds : WeightUpTo(odds, i - 1) <= bucket /\ bucket < WeightUpTo(odds, i)
  OBVIOUS
<1>12. k \in DOMAIN odds BY <1>10, <1>11
<1>13. RarityFromBucket(bucket, odds) = odds[k].rarity BY <1>11 DEF RarityFromBucket
<1>14. QED BY <1>1, <1>12, <1>13 DEF odds

\* A rarity falls back to one that has items.
LEMMA FallbackHasItems ==
  ASSUME CommonsToGive, NEW rarity \in Rarities
  PROVE  /\ ApplyRarityFallback(rarity, Catalog) \in Rarities
         /\ InSupplyItems(Catalog, ApplyRarityFallback(rarity, Catalog)) # << >>
<1> DEFINE has(k) == InSupplyItems(Catalog, FallbackOrder[k]) # << >>
<1>1. FallbackOrder = <<"ultra", "rare", "uncommon", "common">> /\ DOMAIN FallbackOrder = 1..4
  BY DEF FallbackOrder
<1>2. PICK start : start = CHOOSE k \in DOMAIN FallbackOrder : FallbackOrder[k] = rarity
  OBVIOUS
<1>3. start \in 1..4
  <2>1. \E k \in DOMAIN FallbackOrder : FallbackOrder[k] = rarity BY <1>1 DEF Rarities
  <2>2. QED BY <1>1, <1>2, <2>1
<1>4. has(4) BY <1>1 DEF CommonsToGive
<1> HIDE DEF has
<1> DEFINE Able == {k \in start..4 : has(k)}
           first == Min(Able)
<1>5. first \in Able /\ \A k \in Able : first <= k
  <2>1. Able \subseteq Nat /\ Able # {} BY <1>3, <1>4
  <2> HIDE DEF Able
  <2>2. QED BY <2>1, MinOfNats
<1> HIDE DEF first
<1>6. \A j \in start..(first - 1) : ~has(j)
  <2> SUFFICES ASSUME NEW j \in start..(first - 1), has(j) PROVE FALSE
    OBVIOUS
  <2>1. first \in start..4 BY <1>5
  <2>2. j \in Able /\ j < first BY <1>3, <2>1
  <2>3. QED BY <1>3, <1>5, <2>1, <2>2
<1>7. PICK k : k = CHOOSE i \in start..4 : has(i) /\ \A j \in start..(i - 1) : ~has(j)
  OBVIOUS
<1>8. k \in start..4 /\ has(k)
  <2>1. first \in start..4 /\ has(first) BY <1>5
  <2>2. QED BY <1>6, <1>7, <2>1
<1>9. ApplyRarityFallback(rarity, Catalog) = FallbackOrder[k]
  BY <1>2, <1>7 DEF ApplyRarityFallback, has
<1>10. k \in 1..4 BY <1>3, <1>8
<1>11. QED BY <1>1, <1>8, <1>9, <1>10 DEF has, Rarities

\* A pull draws an item of the catalog.
LEMMA RollIsItem ==
  ASSUME CommonsToGive, NEW l, l.pity \in Nat, l.nonce \in Nat, NEW seed \in Seeds
  PROVE  LET roll == Roll(l, seed)
         IN roll.itemId \in ItemIds /\ roll.nonce = l.nonce + 1 /\ roll.after \in Nat
<1> DEFINE raw == ApplyRarityFallback(RarityFromBucket(seed.bucket, Catalog.odds), Catalog)
           pity == ShouldApplyPity(l.pity, raw, PityRareHard, InSupplyItems(Catalog, "rare") # << >>)
           asked == IF pity THEN "rare" ELSE raw
           final == ApplyRarityFallback(asked, Catalog)
           supply == InSupplyItems(Catalog, final)
           roll == Roll(l, seed)
           at == 1 + (seed.item % Len(supply))
<1>1. /\ roll.itemId = supply[at].id /\ roll.nonce = l.nonce + 1
      /\ roll.after = NextPityCounter(l.pity, final)
  BY DEF Roll, RollPull
<1>2. raw \in Rarities
  <2>1. seed.bucket \in 0..(TotalWeight(Catalog.odds) - 1) BY DEF Seeds
  <2>2. QED BY <2>1, BucketHasRarity, FallbackHasItems
<1>3. asked \in Rarities BY <1>2 DEF Rarities
<1> HIDE DEF asked
<1>4. supply # << >> BY <1>3, FallbackHasItems
<1>5. supply \in Seq(Items) BY GachaSetup, OnlyIsSeq DEF InSupplyItems
<1> HIDE DEF supply
<1>6. Len(supply) \in Nat /\ Len(supply) > 0 /\ seed.item \in Nat
  <2>1. Len(supply) \in Nat \ {0} BY <1>4, <1>5, EmptySeq
  <2>2. seed.item \in Nat BY GachaSetup DEF Seeds
  <2>3. QED BY <2>1, <2>2
<1>7. at \in 1..Len(supply) BY <1>6
<1>8. supply[at] \in Items BY <1>5, <1>7, ElementOfSeq
<1> HIDE DEF at, roll, final
<1>9. roll.itemId \in ItemIds BY <1>1, <1>8 DEF ItemIds
<1>10. roll.after \in Nat BY <1>1 DEF NextPityCounter
<1>11. QED BY <1>1, <1>9, <1>10 DEF roll

LEMMA ItemsAreFinite == IsFiniteSet(ItemIds)
<1> DEFINE n == Len(Catalog.items)
           f == [k \in 1..n |-> Catalog.items[k].id]
<1>1. Catalog.items \in Seq(Items) BY GachaSetup
<1>2. n \in Nat /\ DOMAIN Catalog.items = 1..n BY <1>1, LenProperties
<1>3. ItemIds = {Catalog.items[k].id : k \in 1..n} BY <1>2 DEF ItemIds, Items, ToSet
<1>4. f \in Surjection(1..n, ItemIds) BY <1>3 DEF Surjection
<1>5. IsFiniteSet(1..n) BY <1>2, CountTo
<1> HIDE DEF f, n
<1>6. QED BY <1>4, <1>5, FS_Surjection

LEMMA SumOfNothing ==
  ASSUME NEW f, NEW S, IsFiniteSet(S), \A x \in S : f[x] = 0
  PROVE  SumFunctionOnSet(f, S) = 0
<1>1. \A x \in S : f[x] \in Int /\ f[x] = f[x] + f[x] OBVIOUS
<1>2. SumFunctionOnSet(f, S) \in Int BY <1>1, SumIsInt
<1>3. SumFunctionOnSet(f, S) = SumFunctionOnSet(f, S) + SumFunctionOnSet(f, S) BY <1>1, SumOfSums
<1>4. ASSUME NEW sum \in Int, sum = sum + sum PROVE sum = 0 BY <1>4
<1>5. QED BY <1>2, <1>3, <1>4

\* What a locker's books say: pulls, dust, full stacks and grants account for yarn and items.
Booked(l) ==
  /\ l.yarn + l.nonce = YarnStart + l.past.granted + l.past.dust + l.past.converted
  /\ SumFunctionOnSet(l.inventory, ItemIds) + l.past.converted = l.nonce

Accounted(l) == l \in Locker /\ Booked(l)

\* Posts and outfits that were sent are of those that may be.
InputsInv ==
  \A c \in Calls : Active(c) /\ calls[c].kind \in {"bagwork", "equip"} => calls[c].input \in Inputs[calls[c].kind]

AccountInv ==
  /\ JarsInv /\ now \in Nat /\ InputsInv
  /\ \A t \in Cookies("gacha") : Accounted(t.locker)

LEMMA NewIsAccounted == ASSUME NEW id \in Nat PROVE Accounted(EmptyLocker(id))
<1> DEFINE l == EmptyLocker(id)
<1>1. l \in Locker
  BY GachaSetup DEF EmptyLocker, Locker, Past, Tiers
<1>2. SumFunctionOnSet(l.inventory, ItemIds) = 0
  <2> DEFINE f == [i \in ItemIds |-> 0]
  <2>1. l.inventory = f BY DEF EmptyLocker
  <2>2. \A x \in ItemIds : f[x] = 0 OBVIOUS
  <2> HIDE DEF f, l
  <2>3. QED BY <2>1, <2>2, ItemsAreFinite, SumOfNothing
<1>3. l.yarn = YarnStart /\ l.nonce = 0 /\ l.past.granted = 0 /\ l.past.dust = 0 /\ l.past.converted = 0
  BY DEF EmptyLocker
<1> HIDE DEF l
<1>4. Booked(l) BY <1>2, <1>3, GachaSetup DEF Booked
<1>5. QED BY <1>1, <1>4 DEF Accounted, l

LEMMA BonusIsAccounted ==
  ASSUME NEW l, Accounted(l), NEW yarn \in {0, 1}
  PROVE  Accounted(YarnBonus(l, yarn))
<1> DEFINE m == [l EXCEPT !.yarn = @ + yarn, !.past.granted = @ + yarn]
<1>1. l \in Locker /\ Booked(l) /\ yarn \in Nat BY DEF Accounted
<1>2. m \in Locker
  <2> DEFINE past == [l.past EXCEPT !.granted = @ + yarn]
  <2>1. past \in Past BY <1>1 DEF Locker, Past
  <2> DEFINE more == l.yarn + yarn
  <2>2. m = [l EXCEPT !.yarn = more, !.past = past] BY <1>1 DEF Locker
  <2>3. more \in Nat BY <1>1 DEF Locker
  <2> HIDE DEF past, m, more
  <2>4. QED BY <1>1, <2>1, <2>2, <2>3 DEF Locker
<1>3. /\ m.yarn = l.yarn + yarn /\ m.nonce = l.nonce /\ m.inventory = l.inventory
      /\ m.past.granted = l.past.granted + yarn /\ m.past.dust = l.past.dust /\ m.past.converted = l.past.converted
  BY <1>1 DEF Locker, Past
<1>4. /\ l.yarn \in Nat /\ l.nonce \in Nat /\ l.past.granted \in Nat /\ l.past.dust \in Nat
      /\ l.past.converted \in Nat /\ YarnStart \in Nat
  BY <1>1, GachaSetup DEF Locker, Past
<1> HIDE DEF m
<1>5. Booked(m) BY <1>1, <1>3, <1>4 DEF Booked
<1>6. YarnBonus(l, yarn) \in {l, m} BY DEF YarnBonus, m
<1>7. QED BY <1>1, <1>2, <1>5, <1>6 DEF Accounted

LEMMA BagworkedIsAccounted ==
  ASSUME NEW l, Accounted(l), NEW post \in Nat, NEW time \in Nat
  PROVE  Accounted(Bagworked(l, post, time))
<1> DEFINE m == Bagworked(l, post, time)
           paid == IF l.yarn >= YarnCap THEN 0 ELSE YarnFaucetDaily
<1>1. l \in Locker /\ Booked(l) /\ paid \in Nat BY GachaSetup DEF Accounted
<1>0. Day(time) \in Nat BY DayMonotone
<1> HIDE DEF paid
<1>2. m = [l EXCEPT !.lastDay = Day(time), !.lastPost = post, !.posts = @ + 1,
                    !.holdStartedAt = IF @ = None THEN time ELSE @,
                    !.yarn = @ + paid,
                    !.past.granted = @ + paid, !.past.days = @ \cup {Day(time)}]
  BY DEF Bagworked, paid
<1> HIDE DEF m
<1>3. m \in Locker
  <2> DEFINE granted == l.past.granted + paid
             days == l.past.days \cup {Day(time)}
             past == [l.past EXCEPT !.granted = granted, !.days = days]
             began == IF l.holdStartedAt = None THEN time ELSE l.holdStartedAt
             more == l.yarn + paid
             posts == l.posts + 1
             today == Day(time)
  <2>1. granted \in Nat /\ days \subseteq Nat /\ began \in Nat /\ more \in Nat /\ posts \in Nat /\ today \in Nat
    BY <1>0, <1>1 DEF Locker, Past
  <2>2. m = [l EXCEPT !.lastDay = today, !.lastPost = post, !.posts = posts,
                      !.holdStartedAt = began, !.yarn = more, !.past = past]
    BY <1>1, <1>2 DEF Locker, Past
  <2> HIDE DEF granted, days, began, more, posts, today
  <2>3. past \in Past BY <1>1, <2>1 DEF Locker, Past
  <2> HIDE DEF past
  <2>4. QED BY <1>1, <2>1, <2>2, <2>3 DEF Locker
<1>4. /\ m.yarn = l.yarn + paid /\ m.nonce = l.nonce /\ m.inventory = l.inventory
      /\ m.past.granted = l.past.granted + paid /\ m.past.dust = l.past.dust /\ m.past.converted = l.past.converted
  BY <1>1, <1>2 DEF Locker, Past
<1>5. /\ l.yarn \in Nat /\ l.nonce \in Nat /\ l.past.granted \in Nat /\ l.past.dust \in Nat
      /\ l.past.converted \in Nat /\ YarnStart \in Nat
  BY <1>1, GachaSetup DEF Locker, Past
<1>6. Booked(m)
  <2>1. l.yarn + paid + l.nonce = YarnStart + (l.past.granted + paid) + l.past.dust + l.past.converted
    BY <1>1, <1>5 DEF Booked
  <2>2. QED BY <1>1, <1>4, <2>1 DEF Booked
<1>7. QED BY <1>3, <1>6 DEF Accounted, m

LEMMA OutfitsAreAccounted ==
  ASSUME NEW l, Accounted(l)
  PROVE  /\ \A u : Accounted(Marked(l, u)) /\ Accounted(Upgraded(l, u))
         /\ \A slot \in Slots, item \in ItemIds \cup {None} : Accounted(Equipped(l, slot, item))
<1>1. \A u : Accounted(Marked(l, u)) BY DEF Accounted, Booked, Marked, Locker, Tiers
<1>2. \A u : Accounted(Upgraded(l, u)) BY DEF Accounted, Booked, Upgraded, Locker, Tiers
<1>3. \A slot \in Slots, item \in ItemIds \cup {None} : Accounted(Equipped(l, slot, item))
  BY DEF Accounted, Booked, Equipped, Locker
<1>4. QED BY <1>1, <1>2, <1>3

\* A pull takes a yarn, and puts one more item in the bag or pays for a full stack.
LEMMA PulledIsAccounted ==
  ASSUME NEW l, Accounted(l), CanPull(l), NEW roll, roll.itemId \in ItemIds, roll.nonce = l.nonce + 1,
         roll.after \in Nat
  PROVE  Accounted(Pulled(l, roll))
<1>1. PICK item : item = ItemById(roll.itemId) OBVIOUS
<1>2. item \in Items /\ item.id = roll.itemId
  <2>1. \E i \in Items : i.id = roll.itemId BY DEF ItemIds
  <2>2. QED BY <1>1, <2>1 DEF ItemById
<1>3. l \in Locker /\ Booked(l) /\ item.stackCap \in Nat /\ item.yarnGrant \in Nat BY <1>2, GachaSetup DEF Accounted
<1> DEFINE dust == IF item.kind = "yarn_dust" THEN item.yarnGrant ELSE 0
           full == l.inventory[item.id] >= item.stackCap
           more == IF full THEN 1 ELSE 0
           bag == IF full THEN l.inventory ELSE [l.inventory EXCEPT ![item.id] = @ + 1]
           m == Pulled(l, roll)
<1>4. m = [l EXCEPT !.yarn = l.yarn - 1 + dust + more, !.nonce = roll.nonce, !.pity = roll.after,
                    !.inventory = bag, !.past.dust = @ + dust,
                    !.past.converted = IF full THEN @ + 1 ELSE @]
  BY <1>1 DEF Pulled, ApplyEconomy
<1>5. dust \in Nat /\ more \in {0, 1} /\ l.inventory \in [ItemIds -> Nat] /\ item.id \in ItemIds
  BY <1>2, <1>3 DEF Locker
<1>6. bag \in [ItemIds -> Nat] BY <1>5
<1>7. SumFunctionOnSet(bag, ItemIds) = SumFunctionOnSet(l.inventory, ItemIds) + 1 - more
      /\ SumFunctionOnSet(l.inventory, ItemIds) \in Nat
  <2>1. \A x \in ItemIds : l.inventory[x] \in Nat /\ l.inventory[x] \in Int BY <1>5
  <2>2. SumFunctionOnSet(l.inventory, ItemIds) \in Nat BY <2>1, ItemsAreFinite, SumIsNat
  <2>3. CASE full BY <2>2, <2>3
  <2>4. CASE ~full
    <3>1. bag[item.id] = l.inventory[item.id] + 1 /\ bag[item.id] \in Int
          /\ \A x \in ItemIds \ {item.id} : bag[x] = l.inventory[x]
      BY <1>5, <2>4
    <3>2. more = 0 BY <2>4
    <3> HIDE DEF bag
    <3>3. SumFunctionOnSet(bag, ItemIds)
            = SumFunctionOnSet(l.inventory, ItemIds) - l.inventory[item.id] + bag[item.id]
      BY <1>5, <2>1, <3>1, ItemsAreFinite, SumOfChangedTerm
    <3>4. QED BY <1>5, <2>1, <2>2, <3>1, <3>2, <3>3
  <2>5. QED BY <2>3, <2>4
<1>8. /\ l.yarn \in Nat /\ l.yarn >= 1 /\ l.nonce \in Nat /\ l.past.granted \in Nat /\ l.past.dust \in Nat
      /\ l.past.converted \in Nat /\ YarnStart \in Nat
  BY <1>3, GachaSetup DEF Locker, Past, CanPull
<1>9. (IF full THEN l.past.converted + 1 ELSE l.past.converted) = l.past.converted + more BY <1>8
<1>10. m = [l EXCEPT !.yarn = l.yarn - 1 + dust + more, !.nonce = roll.nonce, !.pity = roll.after,
                     !.inventory = bag, !.past.dust = @ + dust, !.past.converted = @ + more]
  BY <1>3, <1>4, <1>9 DEF Locker, Past
<1> HIDE DEF m, dust, more, bag, full
<1>11. l.yarn - 1 + dust + more \in Nat BY <1>5, <1>8
<1>12. m \in Locker
  <2> DEFINE dusted == l.past.dust + dust
             converted == l.past.converted + more
             past == [l.past EXCEPT !.dust = dusted, !.converted = converted]
  <2>0. dusted \in Nat /\ converted \in Nat BY <1>5, <1>8
  <2> HIDE DEF dusted, converted
  <2>1. past \in Past BY <1>3, <2>0 DEF Locker, Past
  <2>2. m = [l EXCEPT !.yarn = l.yarn - 1 + dust + more, !.nonce = roll.nonce, !.pity = roll.after,
                      !.inventory = bag, !.past = past]
    BY <1>3, <1>10 DEF Locker, Past, dusted, converted
  <2>3. roll.nonce \in Nat BY <1>8
  <2> HIDE DEF past
  <2>4. QED BY <1>3, <1>6, <1>11, <2>1, <2>2, <2>3 DEF Locker
<1>13. /\ m.yarn = l.yarn - 1 + dust + more /\ m.nonce = l.nonce + 1 /\ m.inventory = bag
       /\ m.past.granted = l.past.granted /\ m.past.dust = l.past.dust + dust
       /\ m.past.converted = l.past.converted + more
  BY <1>3, <1>10 DEF Locker, Past
<1>14. Booked(m) BY <1>3, <1>5, <1>7, <1>8, <1>13 DEF Booked
<1>15. QED BY <1>12, <1>14 DEF Accounted, m

LEMMA LockedIsAccounted ==
  ASSUME AccountInv, nextId \in Nat, NEW c \in Calls, Active(c)
  PROVE  Accounted(Locked(c))
<1>1. CASE Expired(Sent(c))
  BY <1>1, NewIsAccounted DEF Locked, Loaded
<1>2. CASE ~Expired(Sent(c))
  <2>1. Sent(c) \in Cookies("gacha") BY <1>2 DEF Expired, Sent, Cookies, Active
  <2>2. QED BY <1>2, <2>1 DEF AccountInv, Locked, Loaded
<1>3. QED BY <1>1, <1>2

LEMMA TurnedIsAccounted ==
  ASSUME CommonsToGive, AccountInv, nextId \in Nat, NEW c \in Calls, Active(c), NEW m, Turned(m, c)
  PROVE  Accounted(m)
<1>1. PICK l, input : l = Locked(c) /\ input = calls[c].input OBVIOUS
<1>2. Accounted(l) /\ now \in Nat BY <1>1, LockedIsAccounted DEF AccountInv
<1>3. CASE m = l BY <1>2, <1>3
<1>4. ASSUME CanPull(l), NEW seed \in Seeds, m = Pulled(l, Roll(l, seed)) PROVE Accounted(m)
  <2>1. l.pity \in Nat /\ l.nonce \in Nat BY <1>2 DEF Accounted, Locker
  <2>2. PICK roll : roll = Roll(l, seed) OBVIOUS
  <2>3. roll.itemId \in ItemIds /\ roll.nonce = l.nonce + 1 /\ roll.after \in Nat BY <2>1, <2>2, RollIsItem
  <2>4. QED BY <1>2, <1>4, <2>2, <2>3, PulledIsAccounted
<1>5. CASE calls[c].kind = "bagwork" /\ m = Bagworked(l, input, now)
  <2>1. input \in Nat BY <1>1, <1>5, GachaSessionSetup DEF AccountInv, InputsInv
  <2>2. QED BY <1>2, <1>5, <2>1, BagworkedIsAccounted
<1>6. CASE m = Marked(l, input) \/ m = Upgraded(l, input) BY <1>2, <1>6, OutfitsAreAccounted
<1>7. CASE calls[c].kind = "equip" /\ m = Equipped(l, input[1], input[2])
  <2>1. input \in Slots \X (ItemIds \cup {None}) BY <1>1, <1>7, GachaSessionSetup DEF AccountInv, InputsInv
  <2>2. input[1] \in Slots /\ input[2] \in ItemIds \cup {None} BY <2>1
  <2>3. QED BY <1>2, <1>7, <2>2, OutfitsAreAccounted
<1>8. CASE \E yarn \in {0, 1} : m = YarnBonus(l, yarn) BY <1>2, <1>8, BonusIsAccounted
<1>9. QED BY <1>1, <1>3, <1>4, <1>5, <1>6, <1>7, <1>8 DEF Turned

\* A call is sent with what may be sent, and keeps it.
LEMMA InputsInvStep ==
  ASSUME JarsInv, InputsInv, [Next]_vars
  PROVE  InputsInv'
<1> DEFINE Fits(call) == call.step \in {"sent", "fetching"} /\ call.kind \in {"bagwork", "equip"}
                           => call.input \in Inputs[call.kind]
<1>1. \A c \in Calls : Fits(calls[c]) BY DEF InputsInv, Active
<1>2. ASSUME \A c \in Calls : calls'[c] = calls[c] \/ Fits(calls'[c]) PROVE InputsInv'
  BY <1>1, <1>2 DEF InputsInv, Active
<1>3. ASSUME NEW c \in Calls, NEW call, calls' = [calls EXCEPT ![c] = call], Fits(call) PROVE InputsInv'
  <2>1. \A d \in Calls : calls'[d] = calls[d] \/ calls'[d] = call BY <1>3 DEF JarsInv
  <2>2. QED BY <1>2, <1>3, <2>1
<1>4. Fits(Idle) BY DEF Idle
<1>5. ASSUME NEW c \in Calls, NEW b \in Browsers, Sends(c, b) PROVE InputsInv'
  <2>1. PICK kind, input : Send(c, b, kind, input)
                           /\ (kind \in {"bagwork", "equip"} => input \in Inputs[kind])
    <3>1. CASE GachaSend(c, b)
      BY <3>1 DEF GachaSend, LoadMachine, LoadInventory, PressPull, SubmitPost, MintAct, PickEquip
    <3>2. CASE DeskSend(c, b) BY <3>2 DEF DeskSend, Refresh, RefreshTape, Act, Persist
    <3>3. CASE AuthSend(c, b)
      <4>1. \/ \E input : Send(c, b, "nonce", input) \/ Send(c, b, "me", input) \/ Send(c, b, "logout", input)
            \/ \E input : Send(c, b, "verify", input)
        BY <3>3 DEF AuthSend
      <4>2. QED BY <4>1
    <3>4. QED BY <1>5, <3>1, <3>2, <3>3 DEF Sends
  <2> DEFINE call == [step |-> "sent", browser |-> b, kind |-> kind, input |-> input, jar |-> jar[b]]
  <2>2. calls' = [calls EXCEPT ![c] = call] BY <2>1 DEF Send
  <2>3. Fits(call) BY <2>1
  <2> HIDE DEF call, Fits
  <2>4. QED BY <1>3, <2>2, <2>3
<1>6. ASSUME NEW c \in Calls, NEW set, NEW body, Answer(c, set, body) PROVE InputsInv'
  <2> DEFINE call == [step |-> "answered", browser |-> calls[c].browser, kind |-> calls[c].kind,
                      input |-> calls[c].input, set |-> set, body |-> body]
  <2>1. calls' = [calls EXCEPT ![c] = call] BY <1>6 DEF Answer
  <2>2. Fits(call) OBVIOUS
  <2> HIDE DEF call, Fits
  <2>3. QED BY <1>3, <2>1, <2>2
<1>7. ASSUME NEW c \in Calls, calls' = [calls EXCEPT ![c] = Idle] PROVE InputsInv'
  BY <1>3, <1>4, <1>7
<1>8. ASSUME NEW c \in Calls, BeginFetch(c) PROVE InputsInv'
  <2>1. PICK call : calls' = [calls EXCEPT ![c] = call] /\ call.kind = calls[c].kind /\ calls[c].kind \in DeskKinds
    BY <1>8 DEF BeginFetch
  <2>2. Fits(call) BY <2>1 DEF DeskKinds
  <2>3. QED BY <1>3, <2>1, <2>2
<1>9. ASSUME NEW c \in Calls, Serves(c) PROVE InputsInv'
  <2>1. Refuse(c) \/ BeginFetch(c) \/ \E set, body : Answer(c, set, body)
    <3>1. CASE Serve(c) BY <3>1, GachaServes
    <3>2. CASE ServeDesk(c) BY <3>2, DeskServes
    <3>3. CASE ServeAuth(c) BY <3>3 DEF ServeAuth, IssueNonce, SignIn, SignInRefused, Logout, LogoutRefused, AnswerAs
    <3>4. QED BY <1>9, <3>1, <3>2, <3>3 DEF Serves
  <2>2. QED BY <1>6, <1>7, <1>8, <2>1 DEF Refuse
<1>10. ASSUME NEW c \in Calls, Arrives(c) PROVE InputsInv'
  BY <1>7, <1>10 DEF Arrives, DeskReceive, Receive, DeskLoseAnswer, LoseAnswer
<1>11. ASSUME NEW b \in Browsers, Plays(b) PROVE InputsInv'
  <2>1. calls' = calls
    BY <1>11 DEF Plays, Play, StartRound, Tap, BeatTimeout, Beat, GiveUpSave, browserVars
  <2>2. QED BY <1>2, <2>1
<1>12. CASE Passes \/ UNCHANGED vars
  <2>1. calls' = calls BY <1>12 DEF Passes, Tick, vars, browserVars
  <2>2. QED BY <1>2, <2>1
<1>13. CASE Restart
  <2>1. \A c \in Calls : calls'[c] = Idle BY <1>13 DEF Restart, LoseProcess
  <2>2. QED BY <1>2, <1>4, <2>1
<1>14. QED BY <1>5, <1>9, <1>10, <1>11, <1>12, <1>13 DEF Next

LEMMA AccountInvStep ==
  ASSUME CommonsToGive, AccountInv, nextId \in Nat, [Next]_vars
  PROVE  AccountInv'
<1>1. JarsInv' /\ Lockers /\ now' \in Nat BY SiteTurns DEF AccountInv
<1>2. InputsInv' BY InputsInvStep DEF AccountInv
<1>3. \A t \in Cookies("gacha")' : Accounted(t.locker)
  BY <1>1, TurnedIsAccounted DEF AccountInv, Lockers
<1>4. QED BY <1>1, <1>2, <1>3 DEF AccountInv, Accounted, Booked

\* Pulls, dust, full stacks and grants, the desk's included, account for the yarn and the items
\* of every cookie, and bagwork counted once per UTC day, although a locker is sealed in
\* cookies that go stale, several requests may build on the same one, and the post is fetched
\* before it is read (gacha-demo.ts; demo-gacha-session.ts).  As long as there is a common
\* item to fall back to.
THEOREM LockersBalance ==
  ASSUME CommonsToGive
  PROVE  Spec => []LockersAddUp
<1>1. Init => AccountInv /\ ClaimInv /\ WorkInv
  <2> SUFFICES ASSUME Init PROVE AccountInv /\ WorkInv
    BY ClaimInvInit
  <2>1. \A c \in Calls : ~Active(c) BY DEF Init, BrowserInit, Idle, Active
  <2>2. QED BY <2>1, NoLockersAtFirst DEF AccountInv, InputsInv, WorkInv
<1>2. AccountInv /\ WorkInv => LockersAddUp
  <2> SUFFICES ASSUME AccountInv, WorkInv, NEW t \in Cookies("gacha")
               PROVE  /\ t.locker \in Locker
                      /\ t.locker.yarn + t.locker.nonce = YarnStart + t.locker.past.granted
                           + t.locker.past.dust + t.locker.past.converted
                      /\ SumFunction(t.locker.inventory) + t.locker.past.converted = t.locker.nonce
                      /\ t.locker.posts = Cardinality(t.locker.past.days)
    BY DEF LockersAddUp, LockerBooks, BagworkOncePerDay, Held
  <2>1. t.locker \in Locker /\ Booked(t.locker) BY DEF AccountInv, Accounted
  <2>2. DOMAIN t.locker.inventory = ItemIds BY <2>1 DEF Locker
  <2>3. t.locker.posts = Cardinality(t.locker.past.days) BY DEF WorkInv, Worked
  <2>4. QED BY <2>1, <2>2, <2>3 DEF Booked, SumFunction
<1>3. AccountInv /\ ClaimInv /\ WorkInv /\ [Next]_vars => AccountInv' /\ ClaimInv' /\ WorkInv'
  <2>1. ClaimInv => nextId \in Nat BY DEF ClaimInv
  <2>2. QED BY <2>1, AccountInvStep, ClaimInvStep, WorkInvStep
<1>4. QED BY <1>1, <1>2, <1>3, PTL DEF Spec
=============================================================================
