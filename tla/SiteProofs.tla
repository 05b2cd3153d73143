----------------------------- MODULE SiteProofs ------------------------------
(***************************************************************************)
(* Theorems about the whole site: browsers, calls and cookies, and behind  *)
(* them sign-in and the desk.                                              *)
(*                                                                         *)
(* What a step of the browsers can do to the cookies that are about comes  *)
(* first: only a handler's answer brings a cookie into being.  Then sign-in: *)
(* whatever the other parts do with browsers, calls and the clock, and     *)
(* however often the process ends, a nonce signs in once and in time, and a *)
(* session is its wallet's own.  Then the desk: a ride may be settled by   *)
(* any request that loads the desk after its window, on a price another    *)
(* request fetched; still that price is never from before the ride, because *)
(* a cached price is given up within a ride's window.  And a desk's score  *)
(* is the sum of what its plays earned, in every cookie that holds it,     *)
(* however requests that load and save it overlap.                         *)
(***************************************************************************)
EXTENDS Site, FiniteSetTheorems, SequenceTheorems, TLAPS

(***************************************************************************)
(* Cookies and calls.                                                      *)
(***************************************************************************)

\* Browsers have jars with a place for every cookie, and components have calls.
JarsInv ==
  /\ calls = [c \in Calls |-> calls[c]]
  /\ jar = [b \in Browsers |-> jar[b]]
  /\ \A b \in Browsers : CookieNames \subseteq DOMAIN jar[b]

LEMMA JarsInit == BrowserInit => JarsInv
BY DEF BrowserInit, JarsInv

LEMMA SendCookies ==
  ASSUME JarsInv, NEW c \in Calls, NEW b \in Browsers, NEW kind, NEW input, Send(c, b, kind, input),
         NEW name \in CookieNames
  PROVE  JarsInv' /\ Cookies(name)' \subseteq Cookies(name)
<1>1. JarsInv' BY DEF Send, JarsInv
<1>2. \A d \in Calls \ {c} : calls'[d] = calls[d] BY DEF Send, JarsInv
<1>3. calls'[c].step = "sent" /\ calls'[c].jar = jar[b] /\ jar' = jar BY DEF Send, JarsInv
<1>4. Cookies(name)' \subseteq Cookies(name)
  BY <1>2, <1>3 DEF Cookies
<1>5. QED BY <1>1, <1>4

LEMMA ReceiveCookies ==
  ASSUME JarsInv, NEW c \in Calls, Receive(c), NEW name \in CookieNames
  PROVE  JarsInv' /\ Cookies(name)' \subseteq Cookies(name)
<1> DEFINE home == calls[c].browser
           got == Over(calls[c].set, jar[home])
<1>1. calls' = [calls EXCEPT ![c] = Idle] /\ jar' = [jar EXCEPT ![home] = got] /\ calls[c].step = "answered"
  BY DEF Receive
<1>2. \A n \in CookieNames, b \in Browsers : home = b =>
        /\ n \in DOMAIN got
        /\ got[n] = IF n \in DOMAIN calls[c].set THEN calls[c].set[n] ELSE jar[b][n]
  BY DEF JarsInv, Over
<1> HIDE DEF got
<1>3. JarsInv' BY <1>1, <1>2 DEF JarsInv
<1>4. \A d \in Calls \ {c} : calls'[d] = calls[d] BY <1>1 DEF JarsInv
<1>5. calls'[c].step = "idle" BY <1>1 DEF JarsInv, Idle
<1>6. \A b \in Browsers : \/ jar'[b][name] = jar[b][name]
                          \/ name \in DOMAIN calls[c].set /\ jar'[b][name] = calls[c].set[name]
  BY <1>1, <1>2 DEF JarsInv
<1>7. Cookies(name)' \subseteq Cookies(name)
  BY <1>1, <1>4, <1>5, <1>6 DEF Cookies
<1>8. QED BY <1>3, <1>7

\* A call that is over takes its cookies along.
LEMMA EndedCookies ==
  ASSUME JarsInv, NEW c \in Calls, calls' = [calls EXCEPT ![c] = Idle], jar' = jar, NEW name \in CookieNames
  PROVE  JarsInv' /\ Cookies(name)' \subseteq Cookies(name)
<1>1. JarsInv' BY DEF JarsInv
<1>2. \A d \in Calls \ {c} : calls'[d] = calls[d] BY DEF JarsInv
<1>3. calls'[c].step = "idle" BY DEF JarsInv, Idle
<1>4. Cookies(name)' \subseteq Cookies(name) BY <1>2, <1>3 DEF Cookies
<1>5. QED BY <1>1, <1>4

LEMMA AnswerCookies ==
  ASSUME JarsInv, NEW c \in Calls, NEW set, NEW body, Answer(c, set, body), NEW name \in CookieNames
  PROVE  /\ JarsInv'
         /\ \A t \in Cookies(name)' : t \in Cookies(name) \/ (name \in DOMAIN set /\ t = set[name])
<1>1. JarsInv' BY DEF Answer, JarsInv
<1>2. \A d \in Calls \ {c} : calls'[d] = calls[d] BY DEF Answer, JarsInv
<1>3. calls'[c].step = "answered" /\ calls'[c].set = set /\ jar' = jar BY DEF Answer, JarsInv
<1>4. \A t \in Cookies(name)' : t \in Cookies(name) \/ (name \in DOMAIN set /\ t = set[name])
  BY <1>2, <1>3 DEF Cookies
<1>5. QED BY <1>1, <1>4

\* A handler that waits for somebody else keeps the cookies of its request.
LEMMA FetchCookies ==
  ASSUME JarsInv, NEW c \in Calls, NEW waiting, calls' = [calls EXCEPT ![c] = waiting], jar' = jar,
         calls[c].step = "sent", waiting.step = "fetching", waiting.jar = calls[c].jar,
         NEW name \in CookieNames
  PROVE  JarsInv' /\ Cookies(name)' \subseteq Cookies(name)
<1>1. JarsInv' BY DEF JarsInv
<1>2. \A d \in Calls \ {c} : calls'[d] = calls[d] BY DEF JarsInv
<1>3. calls'[c].step = "fetching" /\ calls'[c].jar = calls[c].jar BY DEF JarsInv
<1>4. Cookies(name)' \subseteq Cookies(name) BY <1>2, <1>3 DEF Cookies
<1>5. QED BY <1>1, <1>4

LEMMA RestartCookies ==
  ASSUME JarsInv, LoseProcess, NEW name \in CookieNames
  PROVE  JarsInv' /\ Cookies(name)' \subseteq Cookies(name)
<1>1. JarsInv' BY DEF LoseProcess, JarsInv
<1>2. jar' = jar /\ \A c \in Calls : calls'[c].step = "idle" BY DEF LoseProcess, Idle
<1>3. Cookies(name)' \subseteq Cookies(name) BY <1>2 DEF Cookies
<1>4. QED BY <1>1, <1>3

LEMMA SameCookies ==
  ASSUME JarsInv, UNCHANGED <<jar, calls>>, NEW name
  PROVE  JarsInv' /\ Cookies(name)' = Cookies(name)
BY DEF JarsInv, Cookies

-----------------------------------------------------------------------------
(***************************************************************************)
(* Sign-in.                                                                *)
(***************************************************************************)

\* Nonces are numbered as they are issued, none in the future.
IssuedInv ==
  /\ now \in Nat /\ lost \in 0..Len(issued)
  /\ issued \in Seq(Nat) /\ \A n \in DOMAIN issued : issued[n] <= now

\* A nonce in the store was issued, by this process, is not yet used, and expires in time.
StoredInv ==
  \A r \in nonces :
    /\ r.id \in DOMAIN issued /\ r.expires = issued[r.id] + NonceTtl
    /\ r.id > lost
    /\ \A i \in DOMAIN signIns : signIns[i].nonce # r.id

\* Sign-ins are a sequence, and each used a nonce in its time, no two the same.
SignedInv ==
  /\ (\E S : signIns \in Seq(S)) /\ Once /\ InTime
  /\ \A i \in DOMAIN signIns :
       signIns[i].nonce \in DOMAIN issued /\ signIns[i].at \in Nat /\ signIns[i].at <= now

\* The inductive invariant: what is in the store, and what was used, are apart.
NonceInv == IssuedInv /\ StoredInv /\ SignedInv

-----------------------------------------------------------------------------
\* The parts of the site that are not sign-in leave it alone.
LEMMA OthersSendNothing ==
  ASSUME NEW c \in Calls, NEW b \in Browsers, Sends(c, b)
  PROVE  UNCHANGED <<authVars, now>>
BY DEF Sends, GachaSend, LoadMachine, LoadInventory, PressPull, SubmitPost, MintAct, PickEquip,
       DeskSend, Refresh, RefreshTape, Act, Persist, AuthSend, Send, authVars

LEMMA GachaServesApart ==
  ASSUME NEW c \in Calls, Serve(c)
  PROVE  now' = now
BY DEF Serve, ReadLocker, PullSlowDown, PullOutOfYarn, Pull, Bagwork, BagworkRefused, Mark, Upgrade,
       NftRefused, Equip, EquipRefused, GachaAnswer, GachaRefuse, Answer, Refuse

LEMMA DeskServesApart ==
  ASSUME NEW c \in Calls, ServeDesk(c)
  PROVE  now' = now
BY DEF ServeDesk, BeginFetch, DeskUnmoved, DeskPrice, FinishHold, OpenRide, SettleRide, RideAnswered,
       CallVault, FlipTape, DeskAnswer, SealedAnswer, DeskKeeps, Answer, Refuse

LEMMA PlaysApart ==
  ASSUME NEW b \in Browsers, Play(b)
  PROVE  now' = now
BY DEF Play, StartRound, Tap, BeatTimeout, Beat, GiveUpSave, browserVars

\* The steps of the site that leave the nonces alone.
LEMMA NonceInvFrame ==
  ASSUME NonceInv, UNCHANGED authVars, now' = now \/ now' = now + 1
  PROVE  NonceInv'
BY DEF NonceInv, IssuedInv, StoredInv, SignedInv, Once, InTime, authVars

\* A nonce is stored with its number, and that number has signed nothing in.
LEMMA IssueKeepsNonces ==
  ASSUME NEW c \in Calls, NonceInv, IssueNonce(c)
  PROVE  NonceInv'
<1>1. /\ issued' = Append(issued, now) /\ now' = now /\ lost' = lost /\ signIns' = signIns
      /\ nonces' \subseteq nonces \cup {[id |-> Len(issued) + 1, expires |-> now + NonceTtl]}
  BY DEF IssueNonce, Swept, Refuse
<1>2. IssuedInv'
  BY <1>1 DEF NonceInv, IssuedInv
<1>3. \A n \in DOMAIN issued : n \in DOMAIN issued' /\ issued'[n] = issued[n]
  BY <1>1 DEF NonceInv, IssuedInv
<1>4. StoredInv'
  <2> SUFFICES ASSUME NEW r \in nonces'
               PROVE  /\ r.id \in DOMAIN issued' /\ r.expires = issued'[r.id] + NonceTtl
                      /\ r.id > lost
                      /\ \A i \in DOMAIN signIns : signIns[i].nonce # r.id
    BY <1>1 DEF StoredInv
  <2>1. CASE r \in nonces
    BY <2>1, <1>3 DEF NonceInv, StoredInv
  <2>2. CASE r = [id |-> Len(issued) + 1, expires |-> now + NonceTtl]
    BY <2>2, <1>1 DEF NonceInv, IssuedInv, SignedInv
  <2>3. QED BY <1>1, <2>1, <2>2
<1>5. SignedInv'
  BY <1>1, <1>3 DEF NonceInv, SignedInv, Once, InTime
<1>6. QED BY <1>2, <1>4, <1>5 DEF NonceInv

\* A sign-in takes its nonce out of the store, where it was, so nothing had used it.
LEMMA SignInKeepsNonces ==
  ASSUME NEW c \in Calls, NonceInv, SignIn(c)
  PROVE  NonceInv'
<1> DEFINE n == calls[c].input.nonce
           s == [nonce |-> n, signer |-> calls[c].input.signer, at |-> now]
<1>1. /\ nonces' = {r \in nonces : r.id # n} /\ signIns' = Append(signIns, s)
      /\ now' = now /\ lost' = lost /\ issued' = issued
  BY DEF SignIn, NoncesWithout, Answer
<1>2. PICK kept \in nonces : kept.id = n /\ kept.expires > now
  BY DEF SignIn, NonceValid
<1>3. n \in DOMAIN issued /\ now < issued[n] + NonceTtl /\ \A i \in DOMAIN signIns : signIns[i].nonce # n
  BY <1>2 DEF NonceInv, StoredInv
<1>4. PICK S : signIns \in Seq(S)
  BY DEF NonceInv, SignedInv
<1>5. /\ signIns' \in Seq(S \cup {s}) /\ Len(signIns') = Len(signIns) + 1
      /\ DOMAIN signIns = 1..Len(signIns) /\ DOMAIN signIns' = 1..(Len(signIns) + 1)
      /\ signIns'[Len(signIns) + 1] = s /\ Len(signIns) \in Nat
      /\ \A i \in DOMAIN signIns : signIns'[i] = signIns[i]
  BY <1>1, <1>4
<1> HIDE DEF s
<1>6. s.nonce = n /\ s.at = now
  BY DEF s
<1>7. IssuedInv'
  BY <1>1 DEF NonceInv, IssuedInv
<1>8. StoredInv'
  BY <1>1, <1>5, <1>6 DEF NonceInv, StoredInv
<1>9. Once'
  BY <1>3, <1>5, <1>6 DEF NonceInv, SignedInv, Once
<1>10. InTime' /\ \A i \in DOMAIN signIns' : signIns'[i].nonce \in DOMAIN issued' /\ signIns'[i].at \in Nat /\ signIns'[i].at <= now'
  <2>1. /\ now' \in Nat /\ InTime
        /\ \A i \in DOMAIN signIns :
             signIns[i].nonce \in DOMAIN issued /\ signIns[i].at \in Nat /\ signIns[i].at <= now'
    BY <1>1 DEF NonceInv, SignedInv, IssuedInv
  <2>2. \A i \in DOMAIN signIns' : signIns'[i].nonce \in DOMAIN issued' /\ signIns'[i].at \in Nat /\ signIns'[i].at <= now'
    <3> SUFFICES ASSUME NEW i \in DOMAIN signIns'
                 PROVE  signIns'[i].nonce \in DOMAIN issued' /\ signIns'[i].at \in Nat /\ signIns'[i].at <= now'
      OBVIOUS
    <3>1. CASE i \in DOMAIN signIns BY <1>1, <1>5, <2>1, <3>1
    <3>2. CASE i = Len(signIns) + 1 BY <1>1, <1>3, <1>5, <1>6, <2>1, <3>2
    <3>3. QED BY <1>5, <3>1, <3>2
  <2>3. InTime'
    <3> SUFFICES ASSUME NEW i \in DOMAIN signIns'
                 PROVE  /\ issued'[signIns'[i].nonce] <= signIns'[i].at
                        /\ signIns'[i].at < issued'[signIns'[i].nonce] + NonceTtl
      BY DEF InTime
    <3>1. CASE i \in DOMAIN signIns BY <1>1, <1>5, <2>1, <3>1 DEF InTime
    <3>2. CASE i = Len(signIns) + 1
      <4>1. issued[n] <= now BY <1>3 DEF NonceInv, IssuedInv
      <4>2. QED BY <1>1, <1>3, <1>5, <1>6, <3>2, <4>1
    <3>3. QED BY <1>5, <3>1, <3>2
  <2>4. QED BY <2>2, <2>3
<1>11. QED BY <1>5, <1>7, <1>8, <1>9, <1>10 DEF NonceInv, SignedInv

LEMMA RefusalKeepsNonces ==
  ASSUME NEW c \in Calls, NonceInv, SignInRefused(c)
  PROVE  NonceInv'
<1>1. nonces' \subseteq nonces /\ UNCHANGED <<now, issued, lost, signIns>>
  BY DEF SignInRefused, NoncesWithout, Refuse
<1>2. QED BY <1>1 DEF NonceInv, IssuedInv, StoredInv, SignedInv, Once, InTime

LEMMA AuthServesKeepNonces ==
  ASSUME NEW c \in Calls, NonceInv, ServeAuth(c)
  PROVE  NonceInv'
<1>1. CASE IssueNonce(c) BY <1>1, IssueKeepsNonces
<1>2. CASE SignIn(c) BY <1>2, SignInKeepsNonces
<1>3. CASE SignInRefused(c) BY <1>3, RefusalKeepsNonces
<1>4. CASE Logout(c) \/ LogoutRefused(c)
  BY <1>4, NonceInvFrame DEF Logout, LogoutRefused, Answer, Refuse
<1>5. CASE AnswerAs(c)
  <2>1. now' = now /\ UNCHANGED authVars BY <1>5 DEF AnswerAs, Answer, Refuse
  <2>2. QED BY <2>1, NonceInvFrame
<1>6. QED BY <1>1, <1>2, <1>3, <1>4, <1>5 DEF ServeAuth

\* A restart forgets the store, and what was issued before it counts no more.
LEMMA RestartKeepsNonces ==
  ASSUME NonceInv, Restart
  PROVE  NonceInv'
<1>1. nonces' = {} /\ lost' = Len(issued) /\ UNCHANGED <<now, issued, signIns>>
  BY DEF Restart, LoseProcess, AuthRestart
<1>2. QED BY <1>1 DEF NonceInv, IssuedInv, StoredInv, SignedInv, Once, InTime

LEMMA NonceInvInit == Init => NonceInv
<1> SUFFICES ASSUME Init PROVE NonceInv
  OBVIOUS
<1>1. now = 1 /\ nonces = {} /\ issued = <<>> /\ lost = 0 /\ signIns = <<>>
  BY DEF Init, BrowserInit, AuthInit
<1>2. QED BY <1>1 DEF NonceInv, IssuedInv, StoredInv, SignedInv, Once, InTime

LEMMA NonceInvStep == NonceInv /\ [Next]_vars => NonceInv'
<1> SUFFICES ASSUME NonceInv, [Next]_vars PROVE NonceInv'
  OBVIOUS
<1>1. ASSUME NEW c \in Calls, NEW b \in Browsers, Sends(c, b) PROVE NonceInv'
  <2>1. now' = now /\ UNCHANGED authVars BY <1>1, OthersSendNothing
  <2>2. QED BY <2>1, NonceInvFrame
<1>2. ASSUME NEW c \in Calls, Serves(c) PROVE NonceInv'
  <2>1. CASE Serve(c) /\ UNCHANGED <<deskVars, authVars>>
    BY <2>1, GachaServesApart, NonceInvFrame
  <2>2. CASE ServeDesk(c) /\ UNCHANGED authVars
    BY <2>2, DeskServesApart, NonceInvFrame
  <2>3. CASE ServeAuth(c) /\ UNCHANGED <<gachaVars, deskVars>>
    BY <2>3, AuthServesKeepNonces
  <2>4. QED BY <1>2, <2>1, <2>2, <2>3 DEF Serves
<1>3. ASSUME NEW c \in Calls, Arrives(c) PROVE NonceInv'
  <2>1. now' = now /\ UNCHANGED authVars
    BY <1>3 DEF Arrives, DeskReceive, Receive, DeskLoseAnswer, LoseAnswer
  <2>2. QED BY <2>1, NonceInvFrame
<1>4. ASSUME NEW b \in Browsers, Plays(b) PROVE NonceInv'
  BY <1>4, PlaysApart, NonceInvFrame DEF Plays
<1>5. CASE Passes
  BY <1>5, NonceInvFrame DEF Passes, Tick
<1>6. CASE Restart
  BY <1>6, RestartKeepsNonces
<1>7. CASE UNCHANGED vars
  <2>1. now' = now /\ UNCHANGED authVars BY <1>7 DEF vars, browserVars
  <2>2. QED BY <2>1, NonceInvFrame
<1>8. QED BY <1>1, <1>2, <1>3, <1>4, <1>5, <1>6, <1>7 DEF Next

\* A nonce signs in one wallet at most, in its lifetime and in that of the process that
\* issued it (nonce-store.ts, consumeNonce), for any wallets, browsers and calls.
THEOREM NoncesSignInOnce == Spec => []NonceSignsInOnce
<1>1. NonceInv => NonceSignsInOnce
  BY DEF NonceInv, IssuedInv, StoredInv, SignedInv, NonceSignsInOnce, Forgotten
<1>2. QED BY <1>1, NonceInvInit, NonceInvStep, PTL DEF Spec

-----------------------------------------------------------------------------
(* Sessions. *)

\* A session cookie is the one its wallet's sign-in sealed.
SealedBy(t, i) ==
  signIns[i].signer = t.wallet /\ signIns[i].at = t.issuedAt
  /\ t.exp = t.issuedAt + Least(IdleTtl, AbsoluteTtl)

\* A wallet signed in not longer ago than a session lasts, when an answer took a caller for it.
Attested(body, i) ==
  /\ signIns[i].signer = body.wallet /\ signIns[i].at <= body.at
  /\ body.at <= signIns[i].at + Least(IdleTtl, AbsoluteTtl)

SessionInv ==
  /\ JarsInv
  /\ \A t \in Cookies("session") : \E i \in DOMAIN signIns : SealedBy(t, i)
  /\ \A c \in Calls : (calls[c].step = "answered" /\ calls[c].kind = "me") =>
       \E i \in DOMAIN signIns : Attested(calls[c].body, i)

\* Answers that take a caller for a wallet are those there were.
AnswersKept ==
  \A c \in Calls : (calls'[c].step = "answered" /\ calls'[c].kind = "me") => calls'[c] = calls[c]

LEMMA LifetimeIsNat == Least(IdleTtl, AbsoluteTtl) \in Nat
BY AuthSetup DEF Least

\* Steps that bring no session into being.
LEMMA SessionInvFrame ==
  ASSUME SessionInv, signIns' = signIns, JarsInv', Cookies("session")' \subseteq Cookies("session"), AnswersKept
  PROVE  SessionInv'
BY DEF SessionInv, AnswersKept, SealedBy, Attested

LEMMA SentKeepsSessions ==
  ASSUME SessionInv, NEW c \in Calls, NEW b \in Browsers, NEW kind, NEW input, Send(c, b, kind, input),
         signIns' = signIns
  PROVE  SessionInv'
<1>1. JarsInv' /\ Cookies("session")' \subseteq Cookies("session")
  BY SendCookies, SiteCookies DEF SessionInv
<1>2. AnswersKept BY DEF AnswersKept, Send, SessionInv, JarsInv
<1>3. QED BY <1>1, <1>2, SessionInvFrame

LEMMA EndedKeepsSessions ==
  ASSUME SessionInv, NEW c \in Calls, calls' = [calls EXCEPT ![c] = Idle], jar' = jar, signIns' = signIns
  PROVE  SessionInv'
<1>1. JarsInv' /\ Cookies("session")' \subseteq Cookies("session")
  BY EndedCookies, SiteCookies DEF SessionInv
<1>2. AnswersKept BY DEF AnswersKept, SessionInv, JarsInv, Idle
<1>3. QED BY <1>1, <1>2, SessionInvFrame

LEMMA SameKeepsSessions ==
  ASSUME SessionInv, UNCHANGED <<jar, calls, signIns>>
  PROVE  SessionInv'
<1>1. JarsInv' /\ Cookies("session")' = Cookies("session")
  BY SameCookies DEF SessionInv
<1>2. QED BY <1>1, SessionInvFrame DEF AnswersKept

\* Answers of lockers and desks carry no session.
LEMMA OtherAnswerKeepsSessions ==
  ASSUME SessionInv, NEW c \in Calls, NEW set, NEW body, Answer(c, set, body), signIns' = signIns,
         calls[c].kind # "me", "session" \in DOMAIN set => set["session"] = NoCookie
  PROVE  SessionInv'
<1>1. JarsInv' /\ \A t \in Cookies("session")' : t \in Cookies("session") \/ t = NoCookie
  BY AnswerCookies, SiteCookies DEF SessionInv
<1>2. NoCookie \notin Cookies("session")' BY DEF Cookies
<1>3. AnswersKept BY DEF AnswersKept, Answer, SessionInv, JarsInv
<1>4. QED BY <1>1, <1>2, <1>3, SessionInvFrame

\* What a locker's route does to the calls: it refuses, or answers with a locker.
LEMMA GachaServes ==
  ASSUME NEW c \in Calls, Serve(c)
  PROVE  /\ calls[c].kind # "me"
         /\ \/ Refuse(c)
            \/ \E roll : Answer(c, << >>, roll)
            \/ \E l, roll : Answer(c, Saved(l), roll)
<1>1. CASE ReadLocker(c) BY <1>1 DEF ReadLocker, GachaAnswer, Waiting
<1>2. CASE PullSlowDown(c) \/ PullOutOfYarn(c) \/ BagworkRefused(c) \/ NftRefused(c) \/ EquipRefused(c)
  BY <1>2 DEF PullSlowDown, PullOutOfYarn, BagworkRefused, NftRefused, EquipRefused, GachaRefuse, Waiting
<1>3. CASE \E seed \in Seeds : Pull(c, seed) BY <1>3 DEF Pull, GachaAnswer, Waiting
<1>4. CASE Bagwork(c) \/ Mark(c) \/ Upgrade(c) \/ Equip(c)
  BY <1>4 DEF Bagwork, Mark, Upgrade, Equip, GachaAnswer, Waiting
<1>5. QED BY <1>1, <1>2, <1>3, <1>4 DEF Serve

\* A desk's route starts a fetch, refuses, or answers with the desk and maybe a locker.
LEMMA DeskServes ==
  ASSUME NEW c \in Calls, ServeDesk(c)
  PROVE  /\ calls[c].kind \in DeskKinds
         /\ \/ BeginFetch(c) \/ Refuse(c)
            \/ \E d, time : Answer(c, SealDesk(d, time), NoRoll)
            \/ \E d, time, l : Answer(c, Over(Saved(l), SealDesk(d, time)), NoRoll)
<1>1. CASE BeginFetch(c) BY <1>1 DEF BeginFetch
<1>2. ASSUME NEW t \in Tapes(c), calls[c].kind \in DeskKinds,
             \/ DeskUnmoved(c, t) \/ DeskPrice(c, t) \/ FinishHold(c, t) \/ OpenRide(c, t)
             \/ SettleRide(c, t) \/ RideAnswered(c, t) \/ CallVault(c, t) \/ FlipTape(c, t)
      PROVE  \/ Refuse(c)
             \/ \E d, time : Answer(c, SealDesk(d, time), NoRoll)
             \/ \E d, time, l : Answer(c, Over(Saved(l), SealDesk(d, time)), NoRoll)
  <2>1. ASSUME NEW d, NEW yarn, NEW time, SealedAnswer(c, d, yarn, time)
        PROVE  \/ Answer(c, SealDesk(d, time), NoRoll)
               \/ \E l : Answer(c, Over(Saved(l), SealDesk(d, time)), NoRoll)
    BY <2>1 DEF SealedAnswer
  <2>2. Refuse(c) \/ \E d, yarn, time : SealedAnswer(c, d, yarn, time)
    BY <1>2 DEF DeskUnmoved, DeskAnswer, DeskKeeps, DeskPrice, FinishHold, OpenRide, SettleRide, RideAnswered,
                CallVault, FlipTape
  <2>3. QED BY <2>1, <2>2
<1>3. QED BY <1>1, <1>2 DEF ServeDesk

LEMMA FetchKeepsSessions ==
  ASSUME SessionInv, NEW c \in Calls, BeginFetch(c), signIns' = signIns
  PROVE  SessionInv'
<1>1. JarsInv' /\ Cookies("session")' \subseteq Cookies("session")
  BY FetchCookies, SiteCookies DEF SessionInv, BeginFetch
<1>2. AnswersKept BY DEF AnswersKept, BeginFetch, SessionInv, JarsInv
<1>3. QED BY <1>1, <1>2, SessionInvFrame

\* The session sealed at a sign-in is that of the wallet that signed the message.
LEMMA SignInSealsOwn ==
  ASSUME SessionInv, NonceInv, NEW c \in Calls, SignIn(c)
  PROVE  SessionInv'
<1> DEFINE r == calls[c].input
           t == SealedSession(r.message.address)
           s == [nonce |-> r.nonce, signer |-> r.signer, at |-> now]
           set == [session |-> t]
<1>1. /\ signIns' = Append(signIns, s) /\ Answer(c, set, NoCookie) /\ calls[c].kind = "verify"
      /\ r.signer = r.message.address
  BY DEF SignIn, LoginValid, Waiting
<1>2. PICK S : signIns \in Seq(S)
  BY DEF NonceInv, SignedInv
<1>3. /\ Len(signIns) + 1 \in DOMAIN signIns' /\ signIns'[Len(signIns) + 1] = s
      /\ \A i \in DOMAIN signIns : i \in DOMAIN signIns' /\ signIns'[i] = signIns[i]
  BY <1>1, <1>2
<1>4. t.wallet = s.signer /\ t.issuedAt = s.at /\ t.exp = s.at + Least(IdleTtl, AbsoluteTtl)
  BY <1>1, AuthSetup DEF SealedSession, Least, NonceInv, IssuedInv
<1>5. JarsInv' /\ \A u \in Cookies("session")' : u \in Cookies("session") \/ u = t
  <2>1. "session" \in DOMAIN set => set["session"] = t OBVIOUS
  <2> HIDE DEF set, t
  <2>2. QED BY <1>1, <2>1, AnswerCookies, SiteCookies DEF SessionInv
<1>6. AnswersKept BY <1>1 DEF AnswersKept, Answer, SessionInv, JarsInv
<1> HIDE DEF s, t
<1>7. \A u \in Cookies("session")' : \E i \in DOMAIN signIns' : SealedBy(u, i)'
  BY <1>3, <1>4, <1>5 DEF SessionInv, SealedBy
<1>8. \A d \in Calls : (calls'[d].step = "answered" /\ calls'[d].kind = "me") =>
        \E i \in DOMAIN signIns' : Attested(calls[d].body, i)'
  BY <1>3, <1>6 DEF SessionInv, AnswersKept, Attested
<1>9. QED BY <1>5, <1>7, <1>8 DEF SessionInv

\* A caller is taken for the wallet of a session that has not ended.
LEMMA AnswerAsAttested ==
  ASSUME SessionInv, NonceInv, NEW c \in Calls, AnswerAs(c)
  PROVE  SessionInv'
<1> DEFINE t == calls[c].jar["session"]
           body == [wallet |-> t.wallet, at |-> now]
<1>1. CASE SessionOf(t) = NoCookie
  <2>1. calls' = [calls EXCEPT ![c] = Idle] /\ jar' = jar /\ signIns' = signIns
    BY <1>1 DEF AnswerAs, Refuse, authVars
  <2>2. QED BY <2>1, EndedKeepsSessions
<1>2. CASE SessionOf(t) # NoCookie
  <2>1. t # NoCookie /\ SessionOf(t) = t /\ ~(now > t.exp)
    BY <1>2 DEF SessionOf
  <2>2. Answer(c, << >>, body) /\ signIns' = signIns /\ calls[c].step = "sent"
    BY <1>2, <2>1 DEF AnswerAs, Waiting, authVars
  <2>3. t \in Cookies("session")
    BY <2>1, <2>2 DEF Cookies
  <2>4. PICK i \in DOMAIN signIns : SealedBy(t, i)
    BY <2>3 DEF SessionInv
  <2>5. Attested(body, i)
    <3>1. signIns[i].at \in Nat /\ now \in Nat /\ signIns[i].at <= now
      BY DEF NonceInv, SignedInv, IssuedInv
    <3>2. t.exp \in Nat /\ now <= t.exp
      BY <2>1, <2>4, <3>1, LifetimeIsNat DEF SealedBy
    <3>3. QED BY <2>4, <3>1, <3>2 DEF SealedBy, Attested
  <2>6. JarsInv' /\ Cookies("session")' \subseteq Cookies("session")
    BY <2>2, AnswerCookies, SiteCookies DEF SessionInv
  <2>7. calls'[c].body = body /\ \A d \in Calls \ {c} : calls'[d] = calls[d]
    BY <2>2 DEF Answer, SessionInv, JarsInv
  <2> HIDE DEF t, body
  <2>8. \A d \in Calls : (calls'[d].step = "answered" /\ calls'[d].kind = "me") =>
          \E j \in DOMAIN signIns' : Attested(calls[d].body, j)'
    BY <2>2, <2>5, <2>7 DEF SessionInv, Attested
  <2>9. \A u \in Cookies("session")' : \E j \in DOMAIN signIns' : SealedBy(u, j)'
    BY <2>2, <2>6 DEF SessionInv, SealedBy
  <2>10. QED BY <2>6, <2>8, <2>9 DEF SessionInv
<1>3. QED BY <1>1, <1>2

LEMMA AuthServesKeepSessions ==
  ASSUME SessionInv, NonceInv, NEW c \in Calls, ServeAuth(c)
  PROVE  SessionInv'
<1>1. CASE IssueNonce(c) \/ SignInRefused(c) \/ LogoutRefused(c)
  <2>1. calls' = [calls EXCEPT ![c] = Idle] /\ jar' = jar /\ signIns' = signIns
    BY <1>1 DEF IssueNonce, SignInRefused, LogoutRefused, Refuse, authVars
  <2>2. QED BY <2>1, EndedKeepsSessions
<1>2. CASE SignIn(c) BY <1>2, SignInSealsOwn
<1>3. CASE Logout(c)
  <2>1. Answer(c, [session |-> NoCookie], NoCookie) /\ signIns' = signIns /\ calls[c].kind # "me"
    BY <1>3 DEF Logout, Waiting, authVars
  <2>2. QED BY <2>1, OtherAnswerKeepsSessions
<1>4. CASE AnswerAs(c) BY <1>4, AnswerAsAttested
<1>5. QED BY <1>1, <1>2, <1>3, <1>4 DEF ServeAuth

LEMMA OthersServeKeepSessions ==
  ASSUME SessionInv, NEW c \in Calls, Serve(c) \/ ServeDesk(c), signIns' = signIns
  PROVE  SessionInv'
<1>1. \/ Refuse(c) \/ BeginFetch(c)
      \/ \E set, body : Answer(c, set, body) /\ "session" \notin DOMAIN set /\ calls[c].kind # "me"
  <2>1. CASE Serve(c)
    <3>1. \A l : "session" \notin DOMAIN Saved(l) BY DEF Saved
    <3>2. QED BY <2>1, <3>1, GachaServes
  <2>2. CASE ServeDesk(c)
    <3>1. \A d, time : "session" \notin DOMAIN SealDesk(d, time) BY DEF SealDesk
    <3>2. \A d, time, l : "session" \notin DOMAIN Over(Saved(l), SealDesk(d, time)) BY DEF SealDesk, Saved, Over
    <3>3. calls[c].kind # "me" BY <2>2, DeskServes DEF DeskKinds
    <3>4. QED BY <2>2, <3>1, <3>2, <3>3, DeskServes
  <2>3. QED BY <2>1, <2>2
<1>2. CASE Refuse(c) BY <1>2, EndedKeepsSessions DEF Refuse
<1>3. CASE BeginFetch(c) BY <1>3, FetchKeepsSessions
<1>4. CASE \E set, body : Answer(c, set, body) /\ "session" \notin DOMAIN set /\ calls[c].kind # "me"
  BY <1>4, OtherAnswerKeepsSessions
<1>5. QED BY <1>1, <1>2, <1>3, <1>4

LEMMA SessionInvInit == Init => SessionInv
<1> SUFFICES ASSUME Init PROVE SessionInv
  OBVIOUS
<1>1. JarsInv BY JarsInit DEF Init
<1>2. \A b \in Browsers : jar[b]["session"] = NoCookie
  BY SiteCookies DEF Init, BrowserInit
<1>3. \A c \in Calls : calls[c].step = "idle"
  BY DEF Init, BrowserInit, Idle
<1>4. Cookies("session") = {} BY <1>2, <1>3 DEF Cookies
<1>5. QED BY <1>1, <1>3, <1>4 DEF SessionInv

LEMMA SessionInvStep == SessionInv /\ NonceInv /\ [Next]_vars => SessionInv'
<1> SUFFICES ASSUME SessionInv, NonceInv, [Next]_vars PROVE SessionInv'
  OBVIOUS
<1>1. ASSUME NEW c \in Calls, NEW b \in Browsers, Sends(c, b) PROVE SessionInv'
  <2>1. signIns' = signIns /\ \E kind, input : Send(c, b, kind, input)
    BY <1>1 DEF Sends, GachaSend, LoadMachine, LoadInventory, PressPull, SubmitPost, MintAct, PickEquip,
                DeskSend, Refresh, RefreshTape, Act, Persist, AuthSend, authVars
  <2>2. QED BY <2>1, SentKeepsSessions
<1>2. ASSUME NEW c \in Calls, Serves(c) PROVE SessionInv'
  BY <1>2, AuthServesKeepSessions, OthersServeKeepSessions DEF Serves, authVars
<1>3. ASSUME NEW c \in Calls, Arrives(c) PROVE SessionInv'
  <2>1. CASE DeskReceive(c) /\ UNCHANGED <<gachaVars, authVars>>
    <3>1. JarsInv' /\ Cookies("session")' \subseteq Cookies("session")
      BY <2>1, ReceiveCookies, SiteCookies DEF DeskReceive, SessionInv
    <3>2. AnswersKept BY <2>1 DEF AnswersKept, DeskReceive, Receive, SessionInv, JarsInv, Idle
    <3>3. QED BY <2>1, <3>1, <3>2, SessionInvFrame DEF authVars
  <2>2. CASE DeskLoseAnswer(c) /\ UNCHANGED <<gachaVars, authVars>>
    BY <2>2, EndedKeepsSessions DEF DeskLoseAnswer, LoseAnswer, authVars
  <2>3. QED BY <1>3, <2>1, <2>2 DEF Arrives
<1>4. ASSUME NEW b \in Browsers, Plays(b) PROVE SessionInv'
  <2>1. UNCHANGED <<jar, calls, signIns>>
    BY <1>4 DEF Plays, Play, StartRound, Tap, BeatTimeout, Beat, GiveUpSave, browserVars, authVars
  <2>2. QED BY <2>1, SameKeepsSessions
<1>5. CASE Passes
  BY <1>5, SameKeepsSessions DEF Passes, Tick, authVars
<1>6. CASE Restart
  <2>1. JarsInv' /\ Cookies("session")' \subseteq Cookies("session") /\ signIns' = signIns
    BY <1>6, RestartCookies, SiteCookies DEF SessionInv, Restart, AuthRestart
  <2>2. AnswersKept BY <1>6 DEF AnswersKept, Restart, LoseProcess, Idle
  <2>3. QED BY <2>1, <2>2, SessionInvFrame
<1>7. CASE UNCHANGED vars
  BY <1>7, SameKeepsSessions DEF vars, browserVars, authVars
<1>8. QED BY <1>1, <1>2, <1>3, <1>4, <1>5, <1>6, <1>7 DEF Next

\* Whoever the routes take for a wallet, and whatever session a browser holds, goes back to
\* a sign-in that wallet signed, not longer ago than a session lasts (session.ts,
\* unsealSession; verify/route.ts).
THEOREM SessionsGoBackToSignIns == Spec => []SessionsAreSigned
<1>1. SessionInv => SessionsAreSigned
  BY DEF SessionInv, SealedBy, Attested, SessionsAreSigned
<1>2. QED BY <1>1, NonceInvInit, NonceInvStep, SessionInvInit, SessionInvStep, PTL DEF Spec

-----------------------------------------------------------------------------
(***************************************************************************)
(* The desk.                                                               *)
(***************************************************************************)

\* A desk whose ride, if it has one, began by "time" and was not scored on an older price.
RideSound(desk, time) ==
  /\ "ride" \in DOMAIN desk
  /\ desk.ride # NoRide =>
       /\ {"settled", "exitSeen"} \subseteq DOMAIN desk.ride
       /\ desk.ride.startedAt \in Nat /\ desk.ride.startedAt <= time
       /\ desk.ride.endsAt = desk.ride.startedAt + RideWindow
       /\ desk.ride.settled => desk.ride.exitSeen \in Nat /\ desk.ride.exitSeen >= desk.ride.startedAt

\* A price is seen no earlier than it was asked for, and that is what the cache is dated by.
TapeSound == tape # NoTape => tape.at \in Nat /\ tape.seen \in Nat /\ tape.at <= tape.seen

\* The inductive invariant.  A handler that waits for the feed carries a ride that began before.
RideInv ==
  /\ JarsInv /\ now \in Nat /\ TapeSound
  /\ \A t \in Cookies("desk") : RideSound(t.state, now)
  /\ \A c \in Calls : calls[c].step = "fetching" =>
       /\ calls[c].began \in Nat /\ calls[c].began <= now
       /\ calls[c].jar["desk"] # NoCookie => RideSound(calls[c].jar["desk"].state, calls[c].began)

FetchesKept == \A c \in Calls : calls'[c].step = "fetching" => calls'[c] = calls[c]

LEMMA RideSoundLater ==
  ASSUME NEW desk, NEW time \in Nat, NEW later \in Nat, time <= later, RideSound(desk, time)
  PROVE  RideSound(desk, later)
BY DEF RideSound

\* Steps that bring no desk into being but sound ones.
LEMMA RideInvFrame ==
  ASSUME RideInv, now' = now \/ now' = now + 1, JarsInv', TapeSound', FetchesKept,
         \A t \in Cookies("desk")' : t \in Cookies("desk") \/ RideSound(t.state, now)
  PROVE  RideInv'
<1>1. now' \in Nat /\ now <= now' BY DEF RideInv
<1>2. \A t \in Cookies("desk")' : RideSound(t.state, now)' 
  <2> SUFFICES ASSUME NEW t \in Cookies("desk")' PROVE RideSound(t.state, now')
    BY DEF RideSound
  <2>1. RideSound(t.state, now) BY DEF RideInv
  <2>2. QED BY <1>1, <2>1, RideSoundLater DEF RideInv
<1>3. ASSUME NEW c \in Calls, calls'[c].step = "fetching"
      PROVE  /\ calls'[c].began \in Nat /\ calls'[c].began <= now'
             /\ calls'[c].jar["desk"] # NoCookie => RideSound(calls'[c].jar["desk"].state, calls'[c].began)
  BY <1>1, <1>3 DEF RideInv, FetchesKept
<1>4. QED BY <1>1, <1>2, <1>3 DEF RideInv, RideSound

LEMMA SentKeepsRides ==
  ASSUME RideInv, NEW c \in Calls, NEW b \in Browsers, NEW kind, NEW input, Send(c, b, kind, input), tape' = tape
  PROVE  RideInv'
<1>1. JarsInv' /\ Cookies("desk")' \subseteq Cookies("desk")
  BY SendCookies, SiteCookies DEF RideInv
<1>2. FetchesKept /\ now' = now BY DEF FetchesKept, Send, RideInv, JarsInv
<1>3. QED BY <1>1, <1>2, RideInvFrame DEF RideInv, TapeSound

LEMMA EndedKeepsRides ==
  ASSUME RideInv, NEW c \in Calls, calls' = [calls EXCEPT ![c] = Idle], UNCHANGED <<jar, now>>, TapeSound'
  PROVE  RideInv'
<1>1. JarsInv' /\ Cookies("desk")' \subseteq Cookies("desk")
  BY EndedCookies, SiteCookies DEF RideInv
<1>2. FetchesKept BY DEF FetchesKept, RideInv, JarsInv, Idle
<1>3. QED BY <1>1, <1>2, RideInvFrame

LEMMA SameKeepsRides ==
  ASSUME RideInv, UNCHANGED <<jar, calls, tape>>, now' = now \/ now' = now + 1
  PROVE  RideInv'
<1>1. JarsInv' /\ Cookies("desk")' = Cookies("desk")
  BY SameCookies DEF RideInv
<1>2. QED BY <1>1, RideInvFrame DEF FetchesKept, RideInv, TapeSound

LEMMA AnswerKeepsRides ==
  ASSUME RideInv, NEW c \in Calls, NEW set, NEW body, Answer(c, set, body), TapeSound',
         "desk" \in DOMAIN set => RideSound(set["desk"].state, now)
  PROVE  RideInv'
<1>1. JarsInv' /\ \A t \in Cookies("desk")' : t \in Cookies("desk") \/ ("desk" \in DOMAIN set /\ t = set["desk"])
  BY AnswerCookies, SiteCookies DEF RideInv
<1>2. FetchesKept /\ now' = now BY DEF FetchesKept, Answer, RideInv, JarsInv
<1>3. QED BY <1>1, <1>2, RideInvFrame

LEMMA FetchKeepsRides ==
  ASSUME RideInv, NEW c \in Calls, BeginFetch(c)
  PROVE  RideInv'
<1>1. JarsInv' /\ Cookies("desk")' \subseteq Cookies("desk")
  BY FetchCookies, SiteCookies DEF RideInv, BeginFetch
<1>2. UNCHANGED <<now, tape>> /\ calls[c].step = "sent" BY DEF BeginFetch, deskVars
<1>3. calls[c].jar["desk"] # NoCookie => RideSound(calls[c].jar["desk"].state, now)
  BY <1>2 DEF RideInv, Cookies
<1>4. calls'[c].began = now /\ calls'[c].jar = calls[c].jar /\ \A d \in Calls \ {c} : calls'[d] = calls[d]
  BY DEF BeginFetch, RideInv, JarsInv
<1>5. ASSUME NEW d \in Calls, calls'[d].step = "fetching"
      PROVE  /\ calls'[d].began \in Nat /\ calls'[d].began <= now
             /\ calls'[d].jar["desk"] # NoCookie => RideSound(calls'[d].jar["desk"].state, calls'[d].began)
  BY <1>3, <1>4, <1>5 DEF RideInv
<1>6. QED BY <1>1, <1>2, <1>5 DEF RideInv, RideSound, TapeSound

-----------------------------------------------------------------------------
\* The desk a handler loads is one of a cookie, or new and without a ride.
LEMMA LoadedIsSound ==
  ASSUME RideInv, NEW c \in Calls, calls[c].step \in {"sent", "fetching"}
  PROVE  RideSound(LoadedDesk(c), LoadTime(c)) /\ LoadTime(c) \in Nat /\ LoadTime(c) <= now
<1>1. LoadTime(c) \in Nat /\ LoadTime(c) <= now
  BY DEF LoadTime, RideInv
<1>2. CASE DeskExpired(c)
  BY <1>1, <1>2 DEF LoadedDesk, EmptyDesk, RideSound
<1>3. CASE ~DeskExpired(c)
  <2>1. calls[c].jar["desk"] # NoCookie /\ LoadedDesk(c) = calls[c].jar["desk"].state
    BY <1>3 DEF DeskExpired, LoadedDesk
  <2>2. CASE calls[c].step = "fetching"
    BY <2>1, <2>2 DEF RideInv, LoadTime
  <2>3. CASE calls[c].step = "sent"
    <3>1. calls[c].jar["desk"] \in Cookies("desk") BY <2>1, <2>3 DEF Cookies
    <3>2. QED BY <2>1, <2>3, <3>1 DEF RideInv, LoadTime
  <2>4. QED BY <1>1, <2>2, <2>3
<1>4. QED BY <1>1, <1>2, <1>3

LEMMA GotTapeSound ==
  ASSUME RideInv, NEW c \in Calls, NEW t \in Tapes(c), GotTape(c, t)
  PROVE  TapeSound' /\ (t # NoTape => t.seen \in Nat)
<1>1. CASE calls[c].step = "sent" /\ CacheFresh
  BY <1>1 DEF Tapes, GotTape, RideInv, TapeSound
<1>2. CASE calls[c].step = "fetching"
  BY <1>2 DEF Tapes, GotTape, RideInv, TapeSound
<1>3. QED BY <1>1, <1>2 DEF GotTape

\* The heart of it: a ride whose window is over meets a price from after its start.
LEMMA PriceIsLater ==
  ASSUME RideInv, NEW c \in Calls, NEW t \in Tapes(c), GotTape(c, t), t # NoTape,
         NEW desk, RideSound(desk, LoadTime(c)), desk.ride # NoRide, now >= desk.ride.endsAt
  PROVE  t.seen \in Nat /\ t.seen >= desk.ride.startedAt
<1>1. /\ desk.ride.startedAt \in Nat /\ desk.ride.endsAt = desk.ride.startedAt + RideWindow
      /\ desk.ride.startedAt <= LoadTime(c)
  BY DEF RideSound
<1>2. CASE calls[c].step = "fetching"
  <2>1. t.seen = calls[c].began \/ t.seen = now BY <1>2 DEF Tapes
  <2>2. LoadTime(c) = calls[c].began /\ calls[c].began \in Nat /\ calls[c].began <= now /\ now \in Nat
    BY <1>2 DEF LoadTime, RideInv
  <2>3. QED BY <1>1, <2>1, <2>2
<1>3. CASE calls[c].step = "sent" /\ CacheFresh
  <2>1. t = tape /\ now - tape.at < TapeTtl BY <1>3 DEF Tapes, CacheFresh
  <2>2. tape.at \in Nat /\ tape.seen \in Nat /\ tape.at <= tape.seen /\ now \in Nat
    BY <2>1 DEF RideInv, TapeSound
  <2>3. TapeTtl \in Nat /\ RideWindow \in Nat /\ TapeTtl <= RideWindow
    BY DeskSessionSetup, DeskSetup
  <2>4. QED BY <1>1, <2>1, <2>2, <2>3
<1>4. QED BY <1>2, <1>3 DEF GotTape

LEMMA SettledIsSound ==
  ASSUME NEW desk, NEW time, RideSound(desk, time), desk.ride # NoRide,
         NEW t, t.seen \in Nat, t.seen >= desk.ride.startedAt
  PROVE  RideSound(RideSettled(desk, t), time)
<1> DEFINE after == RideSettled(desk, t)
<1>1. "ride" \in DOMAIN after BY DEF RideSettled, RideSound
<1>2. after.ride = [desk.ride EXCEPT !.settled = TRUE, !.exitSeen = t.seen]
  BY DEF RideSettled, RideSound
<1>3. /\ DOMAIN after.ride = DOMAIN desk.ride /\ after.ride.startedAt = desk.ride.startedAt
      /\ after.ride.endsAt = desk.ride.endsAt /\ after.ride.exitSeen = t.seen
  BY <1>2 DEF RideSound
<1> HIDE DEF after
<1>4. RideSound(after, time) BY <1>1, <1>3 DEF RideSound
<1>5. QED BY <1>4 DEF after

LEMMA TickedIsSound ==
  ASSUME RideInv, NEW c \in Calls, NEW t \in Tapes(c), GotTape(c, t)
  PROVE  RideSound(TickedDesk(c, t), LoadTime(c))
<1>1. calls[c].step \in {"sent", "fetching"} BY DEF GotTape
<1>2. RideSound(LoadedDesk(c), LoadTime(c)) /\ LoadTime(c) \in Nat /\ LoadTime(c) <= now
  BY <1>1, LoadedIsSound
<1>3. CASE RideDue(LoadedDesk(c), t, LoadTime(c))
  <2>1. t # NoTape /\ LoadedDesk(c).ride # NoRide /\ LoadTime(c) >= LoadedDesk(c).ride.endsAt
    BY <1>3 DEF RideDue, RideOpen
  <2>2. now >= LoadedDesk(c).ride.endsAt
    <3>1. LoadedDesk(c).ride.startedAt \in Nat
          /\ LoadedDesk(c).ride.endsAt = LoadedDesk(c).ride.startedAt + RideWindow
      BY <1>2, <2>1, Zenon DEF RideSound
    <3>2. now \in Nat /\ RideWindow \in Nat BY DeskSetup DEF RideInv
    <3>3. LoadedDesk(c).ride.endsAt \in Nat BY <3>1, <3>2
    <3>4. QED BY <1>2, <2>1, <3>2, <3>3
  <2>3. t.seen \in Nat /\ t.seen >= LoadedDesk(c).ride.startedAt
    BY <1>2, <2>1, <2>2, PriceIsLater
  <2>4. QED BY <1>2, <1>3, <2>1, <2>3, SettledIsSound DEF TickedDesk, SettledIfDue
<1>4. CASE ~RideDue(LoadedDesk(c), t, LoadTime(c))
  BY <1>2, <1>4 DEF TickedDesk, SettledIfDue
<1>5. QED BY <1>3, <1>4

\* Every play leaves the ride alone, opens one now, or settles one whose window is over.
LEMMA PlayedIsSound ==
  ASSUME NEW desk, RideSound(desk, now), NEW other, "ride" \in DOMAIN other, other.ride = desk.ride
  PROVE  RideSound(other, now)
BY DEF RideSound

LEMMA OpenedIsSound ==
  ASSUME NEW desk, RideSound(desk, now), now \in Nat, NEW side, NEW t
  PROVE  RideSound(RideOpened(desk, side, t, now), now)
<1> DEFINE after == RideOpened(desk, side, t, now)
<1>1. /\ "ride" \in DOMAIN after
      /\ after.ride = [side |-> side, entry |-> t.usd, startedAt |-> now, endsAt |-> now + RideWindow,
                       settled |-> FALSE, exitSeen |-> now]
  BY DEF RideOpened, RideSound
<1> HIDE DEF after
<1>2. RideSound(after, now) BY <1>1 DEF RideSound
<1>3. QED BY <1>2 DEF after

\* Whatever a desk's handler answers, its desk is sound.
LEMMA AnsweredIsSound ==
  ASSUME RideInv, NEW c \in Calls, NEW t \in Tapes(c), NEW desk, NEW yarn, NEW time, SealedAnswer(c, desk, yarn, time),
         \/ DeskUnmoved(c, t) /\ desk = TickedDesk(c, t)
         \/ FinishHold(c, t) /\ desk = HoldFinished(TickedDesk(c, t), calls[c].input, Day(now))
         \/ OpenRide(c, t) /\ desk = RideOpened(TickedDesk(c, t), calls[c].input, t, now)
         \/ SettleRide(c, t) /\ desk = RideSettled(TickedDesk(c, t), t)
         \/ RideAnswered(c, t) /\ desk = TickedDesk(c, t)
         \/ CallVault(c, t) /\ desk = VaultCalled(TickedDesk(c, t), calls[c].input, t, Day(now))
         \/ FlipTape(c, t) /\ desk = TapeFlipped(TickedDesk(c, t), calls[c].input)
  PROVE  RideSound(desk, now) /\ GotTape(c, t)
<1> DEFINE ticked == TickedDesk(c, t)
<1>1. GotTape(c, t)
  BY DEF DeskUnmoved, FinishHold, OpenRide, SettleRide, RideAnswered, CallVault, FlipTape, Handling
<1>2. LoadTime(c) \in Nat /\ LoadTime(c) <= now /\ now \in Nat
  BY <1>1, LoadedIsSound DEF GotTape, RideInv
<1>3. RideSound(ticked, LoadTime(c)) BY <1>1, TickedIsSound
<1> HIDE DEF ticked
<1>4. RideSound(ticked, now) BY <1>2, <1>3, RideSoundLater
<1>5. CASE desk = ticked BY <1>1, <1>4, <1>5
<1>6. CASE desk = HoldFinished(ticked, calls[c].input, Day(now))
  <2>1. "ride" \in DOMAIN desk /\ desk.ride = ticked.ride
    BY <1>4, <1>6 DEF HoldFinished, RideSound
  <2>2. QED BY <1>1, <1>4, <2>1, PlayedIsSound
<1>7. CASE desk = RideOpened(ticked, calls[c].input, t, now)
  BY <1>1, <1>2, <1>4, <1>7, OpenedIsSound
<1>8. CASE SettleRide(c, t) /\ desk = RideSettled(ticked, t)
  <2>1. t # NoTape /\ ticked.ride # NoRide /\ now >= ticked.ride.endsAt
    BY <1>8 DEF SettleRide, CanSettleRide, RideOpen, ticked
  <2>2. t.seen \in Nat /\ t.seen >= ticked.ride.startedAt
    BY <1>1, <1>3, <2>1, PriceIsLater
  <2>3. QED BY <1>1, <1>4, <1>8, <2>1, <2>2, SettledIsSound
<1>9. CASE desk = VaultCalled(ticked, calls[c].input, t, Day(now))
  <2>1. "ride" \in DOMAIN desk /\ desk.ride = ticked.ride
    BY <1>4, <1>9 DEF VaultCalled, RideSound
  <2>2. QED BY <1>1, <1>4, <2>1, PlayedIsSound
<1>10. CASE desk = TapeFlipped(ticked, calls[c].input)
  <2>1. "ride" \in DOMAIN desk /\ desk.ride = ticked.ride
    BY <1>4, <1>10 DEF TapeFlipped, RideSound
  <2>2. QED BY <1>1, <1>4, <2>1, PlayedIsSound
<1>11. QED BY <1>5, <1>6, <1>7, <1>8, <1>9, <1>10 DEF ticked

LEMMA DeskServesKeepRides ==
  ASSUME RideInv, NEW c \in Calls, ServeDesk(c)
  PROVE  RideInv'
<1>1. CASE BeginFetch(c) BY <1>1, FetchKeepsRides
<1>2. ASSUME NEW t \in Tapes(c),
             \/ DeskUnmoved(c, t) \/ DeskPrice(c, t) \/ FinishHold(c, t) \/ OpenRide(c, t)
             \/ SettleRide(c, t) \/ RideAnswered(c, t) \/ CallVault(c, t) \/ FlipTape(c, t)
      PROVE  RideInv'
  <2>1. TapeSound'
    BY <1>2, GotTapeSound
    DEF DeskUnmoved, DeskPrice, FinishHold, OpenRide, SettleRide, RideAnswered, CallVault, FlipTape, Handling
  <2>2. CASE Refuse(c) BY <2>1, <2>2, EndedKeepsRides DEF Refuse
  <2>3. CASE ~Refuse(c)
    <3>1. PICK desk, yarn, time : SealedAnswer(c, desk, yarn, time) /\ RideSound(desk, now)
      BY <1>2, <2>3, AnsweredIsSound
      DEF DeskUnmoved, DeskKeeps, DeskAnswer, DeskPrice, FinishHold, OpenRide, SettleRide, RideAnswered,
        CallVault, FlipTape
    <3>2. PICK l : \/ Answer(c, SealDesk(desk, time), NoRoll)
                   \/ Answer(c, Over(Saved(l), SealDesk(desk, time)), NoRoll)
      BY <3>1 DEF SealedAnswer
    <3>3. SealDesk(desk, time)["desk"].state = desk BY DEF SealDesk
    <3>4. Over(Saved(l), SealDesk(desk, time))["desk"] = SealDesk(desk, time)["desk"] BY DEF Over, Saved, SealDesk
    <3>5. CASE Answer(c, SealDesk(desk, time), NoRoll) BY <2>1, <3>1, <3>3, <3>5, AnswerKeepsRides
    <3>6. CASE Answer(c, Over(Saved(l), SealDesk(desk, time)), NoRoll)
      BY <2>1, <3>1, <3>3, <3>4, <3>6, AnswerKeepsRides
    <3>7. QED BY <3>2, <3>5, <3>6
  <2>4. QED BY <2>2, <2>3
<1>3. QED BY <1>1, <1>2 DEF ServeDesk

\* Lockers and sign-in answer with no desk.
LEMMA OthersServeKeepRides ==
  ASSUME RideInv, NEW c \in Calls, Serve(c) \/ ServeAuth(c), tape' = tape
  PROVE  RideInv'
<1>1. TapeSound' BY DEF RideInv, TapeSound
<1>2. Refuse(c) \/ \E set, body : Answer(c, set, body) /\ "desk" \notin DOMAIN set
  <2>1. CASE Serve(c)
    <3>1. \A l : "desk" \notin DOMAIN Saved(l) BY DEF Saved
    <3>2. QED BY <2>1, <3>1, GachaServes
  <2>2. CASE ServeAuth(c)
    BY <2>2 DEF ServeAuth, IssueNonce, SignIn, SignInRefused, Logout, LogoutRefused, AnswerAs
  <2>3. QED BY <2>1, <2>2
<1>3. CASE Refuse(c) BY <1>1, <1>3, EndedKeepsRides DEF Refuse
<1>4. ASSUME NEW set, NEW body, Answer(c, set, body), "desk" \notin DOMAIN set PROVE RideInv'
  BY <1>1, <1>4, AnswerKeepsRides
<1>5. QED BY <1>2, <1>3, <1>4

LEMMA RideInvInit == Init => RideInv
<1> SUFFICES ASSUME Init PROVE RideInv
  OBVIOUS
<1>1. JarsInv BY JarsInit DEF Init
<1>2. \A b \in Browsers : jar[b]["desk"] = NoCookie
  BY SiteCookies DEF Init, BrowserInit
<1>3. now = 1 /\ tape = NoTape /\ \A c \in Calls : calls[c].step = "idle"
  BY DEF Init, BrowserInit, DeskInit, Idle
<1>4. Cookies("desk") = {} BY <1>2, <1>3 DEF Cookies
<1>5. QED BY <1>1, <1>3, <1>4 DEF RideInv, TapeSound

LEMMA RideInvStep == RideInv /\ [Next]_vars => RideInv'
<1> SUFFICES ASSUME RideInv, [Next]_vars PROVE RideInv'
  OBVIOUS
<1>1. ASSUME NEW c \in Calls, NEW b \in Browsers, Sends(c, b) PROVE RideInv'
  <2>1. tape' = tape /\ \E kind, input : Send(c, b, kind, input)
    BY <1>1 DEF Sends, GachaSend, LoadMachine, LoadInventory, PressPull, SubmitPost, MintAct, PickEquip,
                DeskSend, Refresh, RefreshTape, Act, Persist, AuthSend, deskVars
  <2>2. QED BY <2>1, SentKeepsRides
<1>2. ASSUME NEW c \in Calls, Serves(c) PROVE RideInv'
  BY <1>2, DeskServesKeepRides, OthersServeKeepRides DEF Serves, deskVars
<1>3. ASSUME NEW c \in Calls, Arrives(c) PROVE RideInv'
  <2>1. CASE DeskReceive(c) /\ UNCHANGED <<gachaVars, authVars>>
    <3>1. JarsInv' /\ Cookies("desk")' \subseteq Cookies("desk")
      BY <2>1, ReceiveCookies, SiteCookies DEF DeskReceive, RideInv
    <3>2. FetchesKept /\ now' = now BY <2>1 DEF FetchesKept, DeskReceive, Receive, RideInv, JarsInv, Idle
    <3>3. TapeSound' BY <2>1 DEF DeskReceive, RideInv, TapeSound
    <3>4. QED BY <3>1, <3>2, <3>3, RideInvFrame
  <2>2. CASE DeskLoseAnswer(c) /\ UNCHANGED <<gachaVars, authVars>>
    <3>1. TapeSound' BY <2>2 DEF DeskLoseAnswer, RideInv, TapeSound
    <3>2. QED BY <2>2, <3>1, EndedKeepsRides DEF DeskLoseAnswer, LoseAnswer
  <2>3. QED BY <1>3, <2>1, <2>2 DEF Arrives
<1>4. ASSUME NEW b \in Browsers, Plays(b) PROVE RideInv'
  <2>1. UNCHANGED <<jar, calls, tape, now>>
    BY <1>4 DEF Plays, Play, StartRound, Tap, BeatTimeout, Beat, GiveUpSave, browserVars
  <2>2. QED BY <2>1, SameKeepsRides
<1>5. CASE Passes
  BY <1>5, SameKeepsRides DEF Passes, Tick, deskVars
<1>6. CASE Restart
  <2>1. JarsInv' /\ Cookies("desk")' \subseteq Cookies("desk")
    BY <1>6, RestartCookies, SiteCookies DEF RideInv, Restart
  <2>2. FetchesKept /\ now' = now /\ TapeSound'
    BY <1>6 DEF FetchesKept, Restart, LoseProcess, DeskRestart, TapeSound, Idle
  <2>3. QED BY <2>1, <2>2, RideInvFrame
<1>7. CASE UNCHANGED vars
  BY <1>7, SameKeepsRides DEF vars, browserVars, deskVars
<1>8. QED BY <1>1, <1>2, <1>3, <1>4, <1>5, <1>6, <1>7 DEF Next

\* A ride is never scored on a price from before it was opened (desk-api.ts, loadTickedDesk;
\* cate-price.ts, fetchCateTape), for any prices, browsers and calls, if cached prices are
\* given up within a ride's window (TTL_MS, DESK_WINDOW_MS: DeskSessionSetup).
THEOREM RidesMeetLaterPrices == Spec => []RidesScoredOnLaterPrice
<1>1. RideInv => RidesScoredOnLaterPrice
  BY DEF RideInv, RideSound, RidesScoredOnLaterPrice, Desks
<1>2. QED BY <1>1, RideInvInit, RideInvStep, PTL DEF Spec

-----------------------------------------------------------------------------
(* The score of one desk.                                                   *)

RideEnds == {"win", "push", "lose"}

PastPlays == [opened : Nat, ended : [RideEnds -> Nat], vaultDays : SUBSET Int, vaultHits : Nat,
              vaultCalls : Nat, tapeHits : Nat, held : Nat, cleared : Nat]

EndedRides(past) == past.ended["win"] + past.ended["push"] + past.ended["lose"]

DeskBooks(desk, today) ==
  /\ {"id", "conviction", "ride", "vaultDay", "tapeNonce", "lastHoldYarn", "lastVaultYarn", "past"} \subseteq DOMAIN desk
  /\ desk.past \in PastPlays /\ desk.tapeNonce \in Nat /\ desk.vaultDay \in Int /\ desk.vaultDay <= today
  /\ desk.ride # NoRide => {"settled", "exitSeen"} \subseteq DOMAIN desk.ride
  /\ EndedRides(desk.past) = desk.past.opened - (IF RideOpen(desk) THEN 1 ELSE 0)
  /\ IsFiniteSet(desk.past.vaultDays) /\ desk.past.vaultCalls = Cardinality(desk.past.vaultDays)
  /\ \A day \in desk.past.vaultDays : day <= desk.vaultDay
  /\ desk.conviction = Score(desk.past, desk.tapeNonce)

LEMMA DayMonotone ==
  ASSUME NEW t \in Nat, NEW u \in Nat, t <= u
  PROVE  Day(t) \in Nat /\ Day(u) \in Nat /\ Day(t) <= Day(u)
<1>1. DayLength \in Nat /\ DayLength > 0 BY GachaSetup
<1> DEFINE p == t \div DayLength
           q == u \div DayLength
<1>2. /\ p \in Int /\ DayLength * p <= t /\ t < DayLength * p + DayLength
      /\ q \in Int /\ DayLength * q <= u /\ u < DayLength * q + DayLength
  BY <1>1
<1>3. p >= 0 /\ q >= 0 BY <1>1
<1> HIDE DEF p, q
<1>4. ASSUME q + 1 <= p PROVE FALSE
  <2>1. DayLength * (q + 1) <= DayLength * p BY <1>1, <1>2, <1>4
  <2>2. DayLength * (q + 1) = DayLength * q + DayLength BY <1>1, <1>2
  <2>3. DayLength * q \in Int /\ DayLength * p \in Int BY <1>1, <1>2
  <2>4. QED BY <1>1, <1>2, <2>1, <2>2, <2>3
<1>5. p <= q BY <1>2, <1>4
<1>6. QED BY <1>2, <1>3, <1>5 DEF p, q, Day

LEMMA NewBooks ==
  ASSUME NEW id, NEW today \in Nat
  PROVE  DeskBooks(EmptyDesk(id), today)
<1> DEFINE new == EmptyDesk(id)
<1>1. /\ DOMAIN new = {"id", "conviction", "ride", "vaultDay", "tapeNonce", "lastHoldYarn", "lastVaultYarn", "past"}
      /\ new.conviction = 0 /\ new.ride = NoRide /\ new.vaultDay = -1 /\ new.tapeNonce = 0
      /\ new.past = [opened |-> 0, ended |-> [v \in {"win", "push", "lose"} |-> 0],
             vaultDays |-> {}, vaultHits |-> 0, vaultCalls |-> 0, tapeHits |-> 0,
             held |-> 0, cleared |-> 0]
  BY DEF EmptyDesk
<1> HIDE DEF new
<1>2. new.past \in PastPlays BY <1>1 DEF PastPlays, RideEnds
<1>3. Score(new.past, new.tapeNonce) = 0 /\ EndedRides(new.past) = 0
  BY <1>1 DEF Score, EndedRides
<1>4. IsFiniteSet(new.past.vaultDays) /\ new.past.vaultCalls = Cardinality(new.past.vaultDays)
  BY <1>1, FS_EmptySet
<1>5. ~RideOpen(new) BY <1>1 DEF RideOpen
<1>6. DeskBooks(new, today) BY <1>1, <1>2, <1>3, <1>4, <1>5 DEF DeskBooks
<1>7. QED BY <1>6 DEF new

LEMMA PastCounts ==
  ASSUME NEW p \in PastPlays
  PROVE  /\ p.ended["win"] \in Nat /\ p.ended["push"] \in Nat /\ p.ended["lose"] \in Nat
         /\ p.opened \in Nat /\ p.vaultHits \in Nat /\ p.vaultCalls \in Nat /\ p.tapeHits \in Nat
         /\ p.held \in Nat /\ p.cleared \in Nat
BY DEF PastPlays, RideEnds

\* The parts of Score.
RidePoints(past) == 25 * past.ended["win"] + 8 * past.ended["push"] + 5 * past.ended["lose"]
VaultPoints(past) == 30 * past.vaultHits + 8 * (past.vaultCalls - past.vaultHits)
OtherPoints(past, flips) ==
  15 * past.tapeHits + 5 * (flips - past.tapeHits) + 3 * past.held + 15 * past.cleared

LEMMA ScoreParts ==
  ASSUME NEW p \in PastPlays, NEW flips \in Nat
  PROVE  /\ RidePoints(p) \in Int /\ VaultPoints(p) \in Int /\ OtherPoints(p, flips) \in Int
         /\ Score(p, flips) = RidePoints(p) + VaultPoints(p) + OtherPoints(p, flips)
<1>1. RidePoints(p) \in Int BY PastCounts DEF RidePoints
<1>2. VaultPoints(p) \in Int BY PastCounts DEF VaultPoints
<1>3. OtherPoints(p, flips) \in Int BY PastCounts DEF OtherPoints
<1>4. Score(p, flips) = RidePoints(p) + VaultPoints(p) + OtherPoints(p, flips)
  BY PastCounts DEF Score, RidePoints, VaultPoints, OtherPoints
<1>5. QED BY <1>1, <1>2, <1>3, <1>4

LEMMA BooksLater ==
  ASSUME NEW desk, NEW today \in Int, NEW later \in Int, today <= later, DeskBooks(desk, today)
  PROVE  DeskBooks(desk, later)
BY DEF DeskBooks

LEMMA RideSettledBooks ==
  ASSUME NEW desk, NEW today, DeskBooks(desk, today), RideOpen(desk), NEW t
  PROVE  DeskBooks(RideSettled(desk, t), today)
<1> DEFINE v == RideVerdict(desk.ride.side, desk.ride.entry, t.usd)
           after == RideSettled(desk, t)
           p == desk.past
           q == after.past
<1>1. v \in RideEnds BY DEF RideVerdict, RideEnds
<1>2. /\ DOMAIN after = DOMAIN desk
      /\ after.conviction = desk.conviction + RideScore(v)
      /\ after.ride = [desk.ride EXCEPT !.settled = TRUE, !.exitSeen = t.seen]
      /\ after.past = [p EXCEPT !.ended[v] = @ + 1]
      /\ after.vaultDay = desk.vaultDay /\ after.tapeNonce = desk.tapeNonce
  BY DEF RideSettled, DeskBooks
<1> HIDE DEF v, after
<1>3. /\ q.ended = [p.ended EXCEPT ![v] = @ + 1]
      /\ q.opened = p.opened /\ q.vaultDays = p.vaultDays /\ q.vaultHits = p.vaultHits
      /\ q.vaultCalls = p.vaultCalls /\ q.tapeHits = p.tapeHits /\ q.held = p.held /\ q.cleared = p.cleared
      /\ q \in PastPlays
  BY <1>1, <1>2 DEF DeskBooks, PastPlays
<1>4. desk.ride # NoRide /\ "settled" \in DOMAIN desk.ride /\ ~RideOpen(after)
  BY <1>2 DEF DeskBooks, RideOpen
<1>5. /\ p.ended["win"] \in Nat /\ p.ended["push"] \in Nat /\ p.ended["lose"] \in Nat
      /\ p.opened \in Nat /\ p.vaultHits \in Nat /\ p.vaultCalls \in Nat /\ p.tapeHits \in Nat
      /\ p.held \in Nat /\ p.cleared \in Nat /\ desk.tapeNonce \in Nat
  BY PastCounts DEF DeskBooks
<1>6. EndedRides(q) = EndedRides(p) + 1
  BY <1>1, <1>3, <1>5 DEF EndedRides, RideEnds, DeskBooks, PastPlays
<1>7. RidePoints(q) = RidePoints(p) + RideScore(v) /\ RideScore(v) \in Int
  <2>1. p.ended \in [RideEnds -> Nat] BY DEF DeskBooks, PastPlays
  <2>2. CASE v = "win"
    BY <1>3, <1>5, <2>1, <2>2 DEF RidePoints, RideScore, RideEnds
  <2>3. CASE v = "push"
    BY <1>3, <1>5, <2>1, <2>3 DEF RidePoints, RideScore, RideEnds
  <2>4. CASE v = "lose"
    BY <1>3, <1>5, <2>1, <2>4 DEF RidePoints, RideScore, RideEnds
  <2>5. QED BY <1>1, <2>2, <2>3, <2>4 DEF RideEnds
<1>8. Score(q, desk.tapeNonce) = Score(p, desk.tapeNonce) + RideScore(v)
  <2>1. VaultPoints(q) = VaultPoints(p) /\ OtherPoints(q, desk.tapeNonce) = OtherPoints(p, desk.tapeNonce)
    BY <1>3 DEF VaultPoints, OtherPoints
  <2>2. p \in PastPlays /\ q \in PastPlays /\ desk.tapeNonce \in Nat BY <1>3 DEF DeskBooks
  <2>3. QED BY <1>7, <2>1, <2>2, ScoreParts
<1>9. DeskBooks(after, today)
  <2>1. after.ride # NoRide => {"settled", "exitSeen"} \subseteq DOMAIN after.ride
    BY <1>2, <1>4 DEF DeskBooks
  <2>2. EndedRides(q) = q.opened - (IF RideOpen(after) THEN 1 ELSE 0)
    BY <1>3, <1>4, <1>6 DEF DeskBooks, PastPlays
  <2>3. QED BY <1>2, <1>3, <1>8, <2>1, <2>2 DEF DeskBooks
<1>10. QED BY <1>9 DEF after

\* A ride that is opened leaves one more open, and the score as it was.
LEMMA RideOpenedBooks ==
  ASSUME NEW desk, NEW today, DeskBooks(desk, today), ~RideOpen(desk), NEW side, NEW t, NEW time,
         "settled" \notin DOMAIN NoRide
  PROVE  DeskBooks(RideOpened(desk, side, t, time), today)
<1> DEFINE after == RideOpened(desk, side, t, time)
           p == desk.past
           q == after.past
<1>1. /\ DOMAIN after = DOMAIN desk /\ after.conviction = desk.conviction
      /\ after.ride = [side |-> side, entry |-> t.usd, startedAt |-> time,
                       endsAt |-> time + RideWindow, settled |-> FALSE, exitSeen |-> time]
      /\ q = [p EXCEPT !.opened = @ + 1]
      /\ after.vaultDay = desk.vaultDay /\ after.tapeNonce = desk.tapeNonce
  BY DEF RideOpened, DeskBooks
<1> HIDE DEF after
<1>2. {"settled", "exitSeen"} \subseteq DOMAIN after.ride /\ after.ride.settled = FALSE BY <1>1
<1>3. RideOpen(after) BY <1>2 DEF RideOpen
<1>4. /\ q.opened = p.opened + 1
      /\ q.ended = p.ended /\ q.vaultDays = p.vaultDays /\ q.vaultHits = p.vaultHits
      /\ q.vaultCalls = p.vaultCalls /\ q.tapeHits = p.tapeHits /\ q.held = p.held /\ q.cleared = p.cleared
      /\ q \in PastPlays
  BY <1>1 DEF DeskBooks, PastPlays
<1>5. EndedRides(q) = EndedRides(p) /\ Score(q, desk.tapeNonce) = Score(p, desk.tapeNonce)
  BY <1>4 DEF EndedRides, Score
<1>6. EndedRides(q) = q.opened - (IF RideOpen(after) THEN 1 ELSE 0)
  BY <1>3, <1>4, <1>5 DEF DeskBooks, PastPlays
<1>7. DeskBooks(after, today) BY <1>1, <1>2, <1>4, <1>5, <1>6 DEF DeskBooks
<1>8. QED BY <1>7 DEF after

LEMMA SameRideBooks ==
  ASSUME NEW desk, NEW after, after.ride = desk.ride PROVE RideOpen(after) = RideOpen(desk)
BY DEF RideOpen

LEMMA TapeFlippedBooks ==
  ASSUME NEW desk, NEW today, DeskBooks(desk, today), NEW side
  PROVE  DeskBooks(TapeFlipped(desk, side), today)
<1> DEFINE after == TapeFlipped(desk, side)
           won == side = TapeDigest(desk.id, desk.tapeNonce + 1)
           p == desk.past
           q == after.past
<1>1. /\ DOMAIN after = DOMAIN desk /\ after.conviction = desk.conviction + (IF won THEN 15 ELSE 5)
      /\ after.ride = desk.ride /\ after.vaultDay = desk.vaultDay
      /\ after.tapeNonce = desk.tapeNonce + 1
      /\ q = [p EXCEPT !.tapeHits = IF won THEN @ + 1 ELSE @]
  BY DEF TapeFlipped, DeskBooks
<1> HIDE DEF after, won
<1>2. /\ q.tapeHits = IF won THEN p.tapeHits + 1 ELSE p.tapeHits
      /\ q.opened = p.opened /\ q.ended = p.ended /\ q.vaultDays = p.vaultDays /\ q.vaultHits = p.vaultHits
      /\ q.vaultCalls = p.vaultCalls /\ q.held = p.held /\ q.cleared = p.cleared
      /\ q \in PastPlays
  BY <1>1 DEF DeskBooks, PastPlays
<1>3. RideOpen(after) = RideOpen(desk) BY <1>1, SameRideBooks
<1>4. EndedRides(q) = EndedRides(p) BY <1>2 DEF EndedRides
<1>5. after.conviction = Score(q, after.tapeNonce)
  BY <1>1, <1>2 DEF Score, DeskBooks, PastPlays, RideEnds
<1>6. DeskBooks(after, today) BY <1>1, <1>2, <1>3, <1>4, <1>5 DEF DeskBooks
<1>7. QED BY <1>6 DEF after

LEMMA VaultCalledBooks ==
  ASSUME NEW desk, NEW today \in Int, DeskBooks(desk, today), desk.vaultDay # today, NEW pick, NEW t
  PROVE  DeskBooks(VaultCalled(desk, pick, t, today), today)
<1> DEFINE after == VaultCalled(desk, pick, t, today)
           won == pick = VaultOutcome(t.change)
           score == IF won THEN 30 ELSE 8
           day == IF VaultYarn(desk, pick, t, today) = 1 THEN today ELSE desk.lastVaultYarn
           p == desk.past
           right == IF won THEN p.vaultHits + 1 ELSE p.vaultHits
           q == [p EXCEPT !.vaultDays = @ \cup {today}, !.vaultCalls = @ + 1, !.vaultHits = right]
<1>1. after = [desk EXCEPT !.conviction = @ + score, !.vaultDay = today, !.lastVaultYarn = day, !.past = q]
  BY ZenonT(60) DEF VaultCalled
<1>2. p \in PastPlays /\ p.vaultDays \cup {today} \in SUBSET Int
  BY DEF DeskBooks, PastPlays
<1>3. right \in Nat /\ (won => score = 30 /\ right = p.vaultHits + 1) /\ (~won => score = 8 /\ right = p.vaultHits)
  BY <1>2 DEF PastPlays
<1> HIDE DEF after, won, score, right, day
<1>4. /\ q.vaultHits = right /\ q.vaultCalls = p.vaultCalls + 1 /\ q.vaultDays = p.vaultDays \cup {today}
      /\ q.opened = p.opened /\ q.ended = p.ended /\ q.tapeHits = p.tapeHits
      /\ q.held = p.held /\ q.cleared = p.cleared
      /\ q = [field \in DOMAIN p |-> q[field]]
  BY <1>2 DEF PastPlays
<1> HIDE DEF q
<1>5. /\ DOMAIN after = DOMAIN desk /\ after.conviction = desk.conviction + score
      /\ after.ride = desk.ride /\ after.vaultDay = today /\ after.tapeNonce = desk.tapeNonce
      /\ after.past = q
  BY <1>1 DEF DeskBooks
<1>6. RideOpen(after) = RideOpen(desk) BY <1>5, SameRideBooks
<1>7. EndedRides(q) = EndedRides(p) BY <1>4 DEF EndedRides
<1>8. q \in PastPlays
  BY <1>2, <1>3, <1>4 DEF PastPlays
<1>9. after.conviction = Score(q, after.tapeNonce)
  <2>1. VaultPoints(q) = VaultPoints(p) + score
    BY <1>2, <1>3, <1>4, PastCounts DEF VaultPoints
  <2>2. RidePoints(q) = RidePoints(p) /\ OtherPoints(q, desk.tapeNonce) = OtherPoints(p, desk.tapeNonce)
    BY <1>4 DEF RidePoints, OtherPoints
  <2>3. score \in Int /\ desk.tapeNonce \in Nat /\ desk.conviction = Score(p, desk.tapeNonce)
    BY <1>3 DEF DeskBooks
  <2>4. QED BY <1>2, <1>5, <1>8, <2>1, <2>2, <2>3, ScoreParts
<1>10. today \notin p.vaultDays BY DEF DeskBooks, PastPlays
<1>11. IsFiniteSet(q.vaultDays) /\ q.vaultCalls = Cardinality(q.vaultDays)
  <2>1. IsFiniteSet(p.vaultDays) /\ p.vaultCalls = Cardinality(p.vaultDays) BY DEF DeskBooks
  <2>2. /\ IsFiniteSet(p.vaultDays \cup {today})
        /\ Cardinality(p.vaultDays \cup {today}) = Cardinality(p.vaultDays) + 1
    BY <1>10, <2>1, FS_AddElement
  <2>3. QED BY <1>4, <2>1, <2>2
<1>12. \A d \in q.vaultDays : d <= after.vaultDay
  BY <1>4, <1>5 DEF DeskBooks, PastPlays
<1>13. DeskBooks(after, today) BY <1>4, <1>5, <1>6, <1>7, <1>9, <1>11, <1>12, <1>8 DEF DeskBooks
<1>14. QED BY <1>13 DEF after

Report(result) == {"held", "total"} \subseteq DOMAIN result /\ result.held \in Nat /\ result.total \in Nat

LEMMA HoldFinishedBooks ==
  ASSUME NEW desk, NEW today, DeskBooks(desk, today), NEW result, Report(result), NEW day
  PROVE  DeskBooks(HoldFinished(desk, result, day), today)
<1> DEFINE after == HoldFinished(desk, result, day)
           held == Clamp(result.held, 0, Clamp(result.total, 1, HoldWaves))
           won == HoldSurvived(result)
           p == desk.past
           q == after.past
<1>1. /\ DOMAIN after = DOMAIN desk
      /\ after.conviction = desk.conviction + held * 3 + (IF won THEN 15 ELSE 0)
      /\ after.ride = desk.ride /\ after.vaultDay = desk.vaultDay /\ after.tapeNonce = desk.tapeNonce
      /\ q = [p EXCEPT !.held = @ + held, !.cleared = IF won THEN @ + 1 ELSE @]
  BY DEF HoldFinished, DeskBooks
<1>2. held \in Nat
  <2>1. HoldWaves \in Nat BY DeskSetup
  <2>2. QED BY <2>1 DEF Report, Clamp
<1> HIDE DEF after, held, won
<1>3. /\ q.held = p.held + held /\ q.cleared = IF won THEN p.cleared + 1 ELSE p.cleared
      /\ q.opened = p.opened /\ q.ended = p.ended /\ q.vaultDays = p.vaultDays /\ q.vaultHits = p.vaultHits
      /\ q.vaultCalls = p.vaultCalls /\ q.tapeHits = p.tapeHits
      /\ q \in PastPlays
  <2>1. p \in PastPlays BY DEF DeskBooks
  <2>2. p.held + held \in Nat /\ (IF won THEN p.cleared + 1 ELSE p.cleared) \in Nat
    BY <1>2, <2>1 DEF PastPlays
  <2>3. QED BY <1>1, <2>1, <2>2 DEF PastPlays
<1>4. RideOpen(after) = RideOpen(desk) BY <1>1, SameRideBooks
<1>5. EndedRides(q) = EndedRides(p) BY <1>3 DEF EndedRides
<1>6. after.conviction = Score(q, after.tapeNonce)
  BY <1>1, <1>2, <1>3 DEF Score, DeskBooks, PastPlays, RideEnds
<1>7. DeskBooks(after, today) BY <1>1, <1>3, <1>4, <1>5, <1>6 DEF DeskBooks
<1>8. QED BY <1>7 DEF after

-----------------------------------------------------------------------------
(* Reports of rounds hold counts, wherever they wait: in a browser, with a  *)
(* request, or with a handler.                                              *)

Round == [waves : [1..HoldWaves -> {"wick", "bait"}], index : Nat, held : Nat,
          phase : {"live", "clear", "dead"}]

Reports == \A c \in Calls : calls[c] # Idle /\ calls[c].kind = "hold.finish" => Report(calls[c].input)

Rounds ==
  /\ rounds = [b \in Browsers |-> rounds[b]] /\ saves = [b \in Browsers |-> saves[b]]
  /\ \A b \in Browsers : rounds[b] = NoRound \/ rounds[b] \in Round
  /\ \A b \in Browsers : \A save \in saves[b] : Report(save)

ReportsInv == JarsInv /\ Reports /\ Rounds

\* Calls that go on with what they ask for, or end.
CallsKept ==
  \A c \in Calls : \/ calls'[c] = Idle
                   \/ calls[c] # Idle /\ calls'[c].kind = calls[c].kind /\ calls'[c].input = calls[c].input

LEMMA ReportsFrame ==
  ASSUME ReportsInv, JarsInv', CallsKept, UNCHANGED <<rounds, saves>>
  PROVE  ReportsInv'
BY DEF ReportsInv, Reports, Rounds, CallsKept, Round, NoRound, Report

\* What a call asks for stays with it while it is served, and when it ends.
LEMMA ServingKeepsCalls ==
  ASSUME JarsInv, NEW c \in Calls, calls[c].step # "idle", Refuse(c) \/ \E set, body : Answer(c, set, body)
  PROVE  CallsKept /\ JarsInv'
<1>1. calls[c] # Idle BY DEF Idle
<1>2. \A d \in Calls \ {c} : calls'[d] = calls[d] BY DEF JarsInv, Refuse, Answer
<1>3. calls'[c] = Idle \/ (calls'[c].kind = calls[c].kind /\ calls'[c].input = calls[c].input)
  BY DEF JarsInv, Refuse, Answer
<1>4. JarsInv' BY DEF JarsInv, Refuse, Answer
<1>5. QED BY <1>1, <1>2, <1>3, <1>4 DEF CallsKept

LEMMA FetchKeepsCalls ==
  ASSUME JarsInv, NEW c \in Calls, BeginFetch(c)
  PROVE  CallsKept /\ JarsInv'
<1>1. calls[c] # Idle BY DEF BeginFetch, Idle
<1>2. \A d \in Calls \ {c} : calls'[d] = calls[d] BY DEF JarsInv, BeginFetch
<1>3. calls'[c].kind = calls[c].kind /\ calls'[c].input = calls[c].input
  BY DEF JarsInv, BeginFetch
<1>4. JarsInv' BY DEF JarsInv, BeginFetch
<1>5. QED BY <1>1, <1>2, <1>3, <1>4 DEF CallsKept

\* Beats leave a round with counts.
LEMMA BeatsKeepRounds ==
  ASSUME NEW round \in Round, NEW after, after \in {HoldTap(round), HoldTimeout(round)}
  PROVE  after \in Round /\ Len(after.waves) \in Nat
<1>1. after \in Round
  <2>1. [round EXCEPT !.phase = "dead"] \in Round BY DEF Round
  <2>2. ASSUME NEW held \in Nat PROVE AdvanceHold(round, held) \in Round
    <3> DEFINE phase == IF round.index = Len(round.waves) THEN "clear" ELSE round.phase
    <3>1. AdvanceHold(round, held) =
            [round EXCEPT !.held = held, !.index = round.index + 1, !.phase = phase]
      BY DEF AdvanceHold
    <3>2. phase \in {"live", "clear", "dead"} BY DEF Round
    <3>3. round.index + 1 \in Nat BY DEF Round
    <3> HIDE DEF phase
    <3>4. QED BY <2>2, <3>1, <3>2, <3>3 DEF Round
  <2>3. round.held \in Nat /\ round.held + 1 \in Nat BY DEF Round
  <2>4. QED BY <2>1, <2>2, <2>3 DEF HoldTap, HoldTimeout
<1>2. Len(after.waves) \in Nat
  <2>1. HoldWaves \in Nat BY DeskSetup
  <2>2. after.waves \in [1..HoldWaves -> {"wick", "bait"}] BY <1>1 DEF Round
  <2>3. after.waves \in Seq({"wick", "bait"}) BY <2>1, <2>2, SeqDef
  <2>4. QED BY <2>3, LenProperties
<1>3. QED BY <1>1, <1>2

LEMMA PlayKeepsReports ==
  ASSUME ReportsInv, NEW b \in Browsers, Play(b)
  PROVE  ReportsInv'
<1>1. UNCHANGED <<jar, calls>> BY DEF Play, StartRound, Tap, BeatTimeout, Beat, GiveUpSave, browserVars
<1>2. JarsInv' /\ Reports' BY <1>1 DEF ReportsInv, JarsInv, Reports, Report
<1>3. ASSUME NEW waves \in HoldDeals, StartRound(b, waves) PROVE Rounds'
  <2>1. StartHoldRound(waves) \in Round BY DEF StartHoldRound, Round, HoldDeals
  <2>2. QED BY <1>3, <2>1 DEF StartRound, ReportsInv, Rounds, Round, NoRound, Report
<1>4. ASSUME NEW after, Beat(b, after), rounds[b].phase = "live",
             after \in {HoldTap(rounds[b]), HoldTimeout(rounds[b])}
      PROVE  Rounds'
  <2>1. rounds[b] \in Round BY <1>4 DEF ReportsInv, Rounds, NoRound
  <2>2. after \in Round /\ Len(after.waves) \in Nat BY <1>4, <2>1, BeatsKeepRounds
  <2>3. Report([survived |-> after.phase = "clear", held |-> after.held, total |-> Len(after.waves), tries |-> 1])
    BY <2>2 DEF Report, Round
  <2>4. rounds' = [rounds EXCEPT ![b] = after]
        /\ (saves' = saves
            \/ saves' = [saves EXCEPT ![b] = @ \cup
                 {[survived |-> after.phase = "clear", held |-> after.held,
                   total |-> Len(after.waves), tries |-> 1]}])
    BY <1>4 DEF Beat
  <2>5. \A d \in Browsers : \A save \in saves'[d] : Report(save)
    BY <2>3, <2>4 DEF ReportsInv, Rounds
  <2>6. QED BY <2>2, <2>4, <2>5 DEF ReportsInv, Rounds, Round, NoRound, Report
<1>5. ASSUME NEW save \in saves[b], GiveUpSave(b, save) PROVE Rounds'
  <2>1. rounds' = rounds /\ saves' = [saves EXCEPT ![b] = @ \ {save}] BY <1>5 DEF GiveUpSave
  <2>2. QED BY <2>1 DEF ReportsInv, Rounds, Round, NoRound, Report
<1>6. QED BY <1>2, <1>3, <1>4, <1>5 DEF Play, Tap, BeatTimeout, ReportsInv

\* What is tried again is what was reported before.
LEMMA RetriedReports ==
  ASSUME ReportsInv, NEW failed \in SUBSET Calls, NEW b \in Browsers, NEW save \in Retried(failed)[b]
  PROVE  Report(save)
<1>1. CASE save \in saves[b] BY <1>1 DEF ReportsInv, Rounds
<1>2. ASSUME NEW c \in failed, calls[c] # Idle, calls[c].kind = "hold.finish",
             save = [calls[c].input EXCEPT !.tries = @ + 1]
      PROVE  Report(save)
  <2>1. Report(calls[c].input) BY <1>2 DEF ReportsInv, Reports
  <2>2. QED BY <1>2, <2>1 DEF Report
<1>3. QED BY <1>1, <1>2 DEF Retried

LEMMA FailedKeepsReports ==
  ASSUME ReportsInv, JarsInv', NEW failed \in SUBSET Calls, saves' = Retried(failed), rounds' = rounds,
         \A c \in Calls : calls'[c] = Idle \/ calls'[c] = calls[c]
  PROVE  ReportsInv'
<1>1. Reports' BY DEF ReportsInv, Reports, Report
<1>2. \A b \in Browsers : \A save \in saves'[b] : Report(save) BY RetriedReports
<1>3. saves' = [b \in Browsers |-> saves'[b]] BY DEF Retried
<1>4. QED BY <1>1, <1>2, <1>3 DEF ReportsInv, Rounds, Round, NoRound, Report

LEMMA SentKeepsReports ==
  ASSUME ReportsInv, NEW c \in Calls, NEW b \in Browsers, Sends(c, b)
  PROVE  ReportsInv'
<1>1. ASSUME NEW kind, NEW input, Send(c, b, kind, input), kind = "hold.finish" => Report(input)
      PROVE  JarsInv' /\ Reports'
  <2>1. \A d \in Calls \ {c} : calls'[d] = calls[d] BY <1>1 DEF Send, ReportsInv, JarsInv
  <2>2. calls'[c].kind = kind /\ calls'[c].input = input BY <1>1 DEF Send, ReportsInv, JarsInv
  <2>3. JarsInv' BY <1>1 DEF Send, ReportsInv, JarsInv
  <2>4. QED BY <1>1, <2>1, <2>2, <2>3 DEF ReportsInv, Reports, Report
<1>2. CASE UNCHANGED <<rounds, saves>> /\ \E kind, input : Send(c, b, kind, input) /\ kind # "hold.finish"
  <2>1. JarsInv' /\ Reports' BY <1>1, <1>2
  <2>2. QED BY <1>2, <2>1 DEF ReportsInv, Rounds, Round, NoRound, Report
<1>3. ASSUME NEW save \in saves[b], Persist(c, b, save) PROVE ReportsInv'
  <2>1. Send(c, b, "hold.finish", save) /\ Report(save) BY <1>3 DEF Persist, ReportsInv, Rounds
  <2>2. JarsInv' /\ Reports' BY <1>1, <2>1
  <2>3. rounds' = rounds /\ saves' = [saves EXCEPT ![b] = @ \ {save}] BY <1>3 DEF Persist
  <2>4. QED BY <2>2, <2>3 DEF ReportsInv, Rounds, Round, NoRound, Report
<1>4. QED
  <2>1. CASE GachaSend(c, b) /\ UNCHANGED <<deskVars, authVars>>
    BY <1>2, <2>1 DEF GachaSend, LoadMachine, LoadInventory, PressPull, SubmitPost, MintAct, PickEquip, deskVars
  <2>2. CASE DeskSend(c, b)
    BY <1>2, <1>3, <2>2 DEF DeskSend, Refresh, RefreshTape, Act, deskVars
  <2>3. CASE AuthSend(c, b) /\ UNCHANGED <<gachaVars, deskVars>>
    <3>1. \/ \E input : Send(c, b, "nonce", input) \/ Send(c, b, "me", input) \/ Send(c, b, "logout", input)
          \/ \E r : Send(c, b, "verify", r)
      BY <2>3 DEF AuthSend
    <3>2. QED BY <1>2, <2>3, <3>1 DEF deskVars
  <2>4. QED BY <2>1, <2>2, <2>3 DEF Sends

\* Handlers only answer or refuse, and end no round.
LEMMA ServedAnswers ==
  ASSUME NEW c \in Calls, Serves(c)
  PROVE  /\ calls[c].step # "idle" /\ UNCHANGED <<rounds, saves>>
         /\ Refuse(c) \/ BeginFetch(c) \/ \E set, body : Answer(c, set, body)
<1>1. CASE Serve(c) /\ UNCHANGED <<deskVars, authVars>>
  <2>1. calls[c].step = "sent"
    BY <1>1 DEF Serve, ReadLocker, PullSlowDown, PullOutOfYarn, Pull, Bagwork, BagworkRefused, Mark, Upgrade,
                NftRefused, Equip, EquipRefused, Waiting
  <2>2. QED BY <1>1, <2>1, GachaServes DEF deskVars
<1>2. CASE ServeDesk(c) /\ UNCHANGED authVars
  <2>1. calls[c].step # "idle" BY <1>2 DEF ServeDesk, BeginFetch
  <2>2. UNCHANGED <<rounds, saves>>
    BY <1>2 DEF ServeDesk, BeginFetch, deskVars, DeskUnmoved, DeskPrice, FinishHold, OpenRide, SettleRide,
                RideAnswered, CallVault, FlipTape, DeskAnswer, SealedAnswer, DeskKeeps, DeskUnchanged
  <2>3. Refuse(c) \/ BeginFetch(c) \/ \E set, body : Answer(c, set, body)
    BY <1>2 DEF ServeDesk, DeskUnmoved, DeskPrice, FinishHold, OpenRide, SettleRide,
                RideAnswered, CallVault, FlipTape, DeskAnswer, SealedAnswer, DeskKeeps
  <2>4. QED BY <2>1, <2>2, <2>3
<1>3. CASE ServeAuth(c) /\ UNCHANGED <<gachaVars, deskVars>>
  BY <1>3 DEF ServeAuth, IssueNonce, SignIn, SignInRefused, Logout, LogoutRefused, AnswerAs, Waiting, deskVars
<1>4. QED BY <1>1, <1>2, <1>3 DEF Serves

LEMMA ReportsInvInit == Init => ReportsInv
<1> SUFFICES ASSUME Init PROVE ReportsInv
  OBVIOUS
<1>1. JarsInv BY JarsInit DEF Init
<1>2. \A c \in Calls : calls[c] = Idle BY DEF Init, BrowserInit
<1>3. QED BY <1>1, <1>2 DEF Init, DeskInit, ReportsInv, Reports, Rounds

LEMMA ReportsInvStep == ReportsInv /\ [Next]_vars => ReportsInv'
<1> SUFFICES ASSUME ReportsInv, [Next]_vars PROVE ReportsInv'
  OBVIOUS
<1>1. ASSUME NEW c \in Calls, NEW b \in Browsers, Sends(c, b) PROVE ReportsInv'
  BY <1>1, SentKeepsReports
<1>2. ASSUME NEW c \in Calls, Serves(c) PROVE ReportsInv'
  <2>1. CallsKept /\ JarsInv' /\ UNCHANGED <<rounds, saves>>
    BY <1>2, ServedAnswers, ServingKeepsCalls, FetchKeepsCalls DEF ReportsInv
  <2>2. QED BY <2>1, ReportsFrame
<1>3. ASSUME NEW c \in Calls, Arrives(c) PROVE ReportsInv'
  <2>1. CASE DeskReceive(c) /\ UNCHANGED <<gachaVars, authVars>>
    <3>1. JarsInv' BY <2>1, ReceiveCookies, SiteCookies DEF DeskReceive, ReportsInv
    <3>2. \A d \in Calls : calls'[d] = Idle \/ calls'[d] = calls[d]
      <4>1. \A d \in Calls \ {c} : calls'[d] = calls[d] BY <2>1 DEF DeskReceive, Receive, ReportsInv, JarsInv
      <4>2. calls'[c] = Idle BY <2>1 DEF DeskReceive, Receive, ReportsInv, JarsInv
      <4>3. QED BY <4>1, <4>2
    <3>3. rounds' = rounds /\ (saves' = saves \/ saves' = Retried({c})) BY <2>1 DEF DeskReceive
    <3>4. CASE saves' = saves
      <4>1. CallsKept BY <3>2 DEF CallsKept
      <4>2. QED BY <3>1, <3>3, <3>4, <4>1, ReportsFrame
    <3>5. CASE saves' = Retried({c}) BY <3>1, <3>2, <3>3, <3>5, FailedKeepsReports
    <3>6. QED BY <3>3, <3>4, <3>5
  <2>2. CASE DeskLoseAnswer(c) /\ UNCHANGED <<gachaVars, authVars>>
    <3>1. JarsInv' BY <2>2, EndedCookies, SiteCookies DEF DeskLoseAnswer, LoseAnswer, ReportsInv
    <3>2. \A d \in Calls : calls'[d] = Idle \/ calls'[d] = calls[d]
      BY <2>2 DEF DeskLoseAnswer, LoseAnswer, ReportsInv, JarsInv
    <3>3. saves' = Retried({c}) /\ rounds' = rounds BY <2>2 DEF DeskLoseAnswer
    <3>4. QED BY <3>1, <3>2, <3>3, FailedKeepsReports
  <2>3. QED BY <1>3, <2>1, <2>2 DEF Arrives
<1>4. ASSUME NEW b \in Browsers, Plays(b) PROVE ReportsInv'
  BY <1>4, PlayKeepsReports DEF Plays
<1>5. CASE UNCHANGED <<jar, calls, rounds, saves>>
  BY <1>5 DEF ReportsInv, JarsInv, Reports, Rounds, Report, Round, NoRound
<1>6. CASE Restart
  <2>1. JarsInv' BY <1>6, RestartCookies, SiteCookies DEF Restart, ReportsInv
  <2>2. \A d \in Calls : calls'[d] = Idle BY <1>6 DEF Restart, LoseProcess
  <2>3. saves' = Retried(Calls) /\ rounds' = rounds BY <1>6 DEF Restart, DeskRestart
  <2>4. QED BY <2>1, <2>2, <2>3, FailedKeepsReports
<1>7. Passes => UNCHANGED <<jar, calls, rounds, saves>> BY DEF Passes, Tick, deskVars
<1>8. UNCHANGED vars => UNCHANGED <<jar, calls, rounds, saves>> BY DEF vars, browserVars, deskVars
<1>9. QED BY <1>1, <1>2, <1>3, <1>4, <1>5, <1>6, <1>7, <1>8 DEF Next

-----------------------------------------------------------------------------
(* The books of every desk balance, stale cookies included.                 *)

BooksInv ==
  /\ ReportsInv /\ now \in Nat
  /\ \A t \in Cookies("desk") : DeskBooks(t.state, Day(now))

\* "No ride" is no record of a ride: the two can be told apart.
NoRideIsNone == "settled" \notin DOMAIN NoRide

LEMMA BooksFrame ==
  ASSUME BooksInv, ReportsInv', now' = now \/ now' = now + 1,
         \A t \in Cookies("desk")' : t \in Cookies("desk") \/ DeskBooks(t.state, Day(now))
  PROVE  BooksInv'
<1>1. now \in Nat /\ now' \in Nat /\ now <= now' BY DEF BooksInv
<1>2. Day(now) \in Int /\ Day(now') \in Int /\ Day(now) <= Day(now') BY <1>1, DayMonotone
<1>3. \A t \in Cookies("desk")' : DeskBooks(t.state, Day(now'))
  BY <1>2, BooksLater DEF BooksInv
<1>4. \A t \in Cookies("desk")' : DeskBooks(t.state, Day(now))'
  BY <1>3 DEF DeskBooks, Day, RideOpen, Score, EndedRides
<1>5. QED BY <1>1, <1>4 DEF BooksInv

LEMMA LoadedBooks ==
  ASSUME BooksInv, NEW c \in Calls, calls[c].step \in {"sent", "fetching"}
  PROVE  DeskBooks(LoadedDesk(c), Day(now))
<1>1. CASE DeskExpired(c)
  <2>1. Day(now) \in Nat BY DayMonotone DEF BooksInv
  <2>2. QED BY <1>1, <2>1, NewBooks DEF LoadedDesk
<1>2. CASE ~DeskExpired(c)
  <2>1. calls[c].jar["desk"] \in Cookies("desk") /\ LoadedDesk(c) = calls[c].jar["desk"].state
    BY <1>2 DEF DeskExpired, LoadedDesk, Cookies
  <2>2. QED BY <2>1 DEF BooksInv
<1>3. QED BY <1>1, <1>2

LEMMA TickedBooks ==
  ASSUME BooksInv, NEW c \in Calls, NEW t, GotTape(c, t)
  PROVE  DeskBooks(TickedDesk(c, t), Day(now))
<1>1. DeskBooks(LoadedDesk(c), Day(now)) BY LoadedBooks DEF GotTape
<1>2. CASE RideDue(LoadedDesk(c), t, LoadTime(c))
  <2>1. RideOpen(LoadedDesk(c)) BY <1>2 DEF RideDue
  <2>2. QED BY <1>1, <1>2, <2>1, RideSettledBooks DEF TickedDesk, SettledIfDue
<1>3. CASE ~RideDue(LoadedDesk(c), t, LoadTime(c))
  BY <1>1, <1>3 DEF TickedDesk, SettledIfDue
<1>4. QED BY <1>2, <1>3

LEMMA AnsweredBooks ==
  ASSUME NoRideIsNone, BooksInv, NEW c \in Calls, NEW t, NEW desk,
         \/ DeskUnmoved(c, t) /\ desk = TickedDesk(c, t)
         \/ FinishHold(c, t) /\ desk = HoldFinished(TickedDesk(c, t), calls[c].input, Day(now))
         \/ OpenRide(c, t) /\ desk = RideOpened(TickedDesk(c, t), calls[c].input, t, now)
         \/ SettleRide(c, t) /\ desk = RideSettled(TickedDesk(c, t), t)
         \/ RideAnswered(c, t) /\ desk = TickedDesk(c, t)
         \/ CallVault(c, t) /\ desk = VaultCalled(TickedDesk(c, t), calls[c].input, t, Day(now))
         \/ FlipTape(c, t) /\ desk = TapeFlipped(TickedDesk(c, t), calls[c].input)
  PROVE  DeskBooks(desk, Day(now))
<1> DEFINE ticked == TickedDesk(c, t)
<1>1. GotTape(c, t)
  BY DEF DeskUnmoved, FinishHold, OpenRide, SettleRide, RideAnswered, CallVault, FlipTape, Handling
<1>2. DeskBooks(ticked, Day(now)) /\ Day(now) \in Int
  BY <1>1, TickedBooks, DayMonotone DEF BooksInv
<1> HIDE DEF ticked
<1>3. CASE desk = ticked BY <1>2, <1>3
<1>4. CASE FinishHold(c, t) /\ desk = HoldFinished(ticked, calls[c].input, Day(now))
  <2>1. calls[c] # Idle /\ calls[c].kind = "hold.finish"
    BY <1>4 DEF FinishHold, Handling, GotTape, Idle
  <2>2. Report(calls[c].input) BY <2>1 DEF BooksInv, ReportsInv, Reports
  <2>3. QED BY <1>2, <1>4, <2>2, HoldFinishedBooks
<1>5. CASE OpenRide(c, t) /\ desk = RideOpened(ticked, calls[c].input, t, now)
  <2>1. ~RideOpen(ticked) BY <1>5 DEF OpenRide, CanOpenRide, ticked
  <2>2. QED BY <1>2, <1>5, <2>1, RideOpenedBooks DEF NoRideIsNone
<1>6. CASE SettleRide(c, t) /\ desk = RideSettled(ticked, t)
  <2>1. RideOpen(ticked) BY <1>6 DEF SettleRide, CanSettleRide, ticked
  <2>2. QED BY <1>2, <1>6, <2>1, RideSettledBooks
<1>7. CASE CallVault(c, t) /\ desk = VaultCalled(ticked, calls[c].input, t, Day(now))
  <2>1. ticked.vaultDay # Day(now) BY <1>7 DEF CallVault, CanCallVault, ticked
  <2>2. QED BY <1>2, <1>7, <2>1, VaultCalledBooks
<1>8. CASE desk = TapeFlipped(ticked, calls[c].input)
  BY <1>2, <1>8, TapeFlippedBooks
<1>9. QED BY <1>3, <1>4, <1>5, <1>6, <1>7, <1>8 DEF ticked

\* The desks handlers answer with have their books in order.
LEMMA ServedBooks ==
  ASSUME NoRideIsNone, BooksInv, NEW c \in Calls, Serves(c)
  PROVE  \/ BeginFetch(c) \/ Refuse(c)
         \/ \E set, body : /\ Answer(c, set, body)
                           /\ "desk" \in DOMAIN set => DeskBooks(set["desk"].state, Day(now))
<1>1. CASE Serve(c)
  <2>1. \A l : "desk" \notin DOMAIN Saved(l) BY DEF Saved
  <2>2. QED BY <1>1, <2>1, GachaServes
<1>2. CASE ServeAuth(c)
  BY <1>2 DEF ServeAuth, IssueNonce, SignIn, SignInRefused, Logout, LogoutRefused, AnswerAs
<1>3. CASE ServeDesk(c) /\ ~BeginFetch(c) /\ ~Refuse(c)
  <2>1. PICK t : \/ DeskUnmoved(c, t) \/ DeskPrice(c, t) \/ FinishHold(c, t) \/ OpenRide(c, t)
                 \/ SettleRide(c, t) \/ RideAnswered(c, t) \/ CallVault(c, t) \/ FlipTape(c, t)
    BY <1>3 DEF ServeDesk
  <2>2. PICK desk, yarn, time : SealedAnswer(c, desk, yarn, time) /\ DeskBooks(desk, Day(now))
    BY <1>3, <2>1, AnsweredBooks
    DEF DeskUnmoved, DeskKeeps, DeskAnswer, DeskPrice, FinishHold, OpenRide, SettleRide, RideAnswered,
        CallVault, FlipTape
  <2>3. PICK l : \/ Answer(c, SealDesk(desk, time), NoRoll)
                 \/ Answer(c, Over(Saved(l), SealDesk(desk, time)), NoRoll)
    BY <2>2 DEF SealedAnswer
  <2>4. SealDesk(desk, time)["desk"].state = desk BY DEF SealDesk
  <2>5. Over(Saved(l), SealDesk(desk, time))["desk"] = SealDesk(desk, time)["desk"] BY DEF Over, Saved, SealDesk
  <2>6. QED BY <2>2, <2>3, <2>4, <2>5
<1>4. QED BY <1>1, <1>2, <1>3 DEF Serves

LEMMA BooksInvInit == Init => BooksInv
<1> SUFFICES ASSUME Init PROVE BooksInv
  OBVIOUS
<1>1. ReportsInv BY ReportsInvInit
<1>2. \A b \in Browsers : jar[b]["desk"] = NoCookie
  BY SiteCookies DEF Init, BrowserInit
<1>3. now = 1 /\ \A c \in Calls : calls[c].step = "idle"
  BY DEF Init, BrowserInit, Idle
<1>4. Cookies("desk") = {} BY <1>2, <1>3 DEF Cookies
<1>5. QED BY <1>1, <1>3, <1>4 DEF BooksInv

LEMMA BooksInvStep ==
  ASSUME NoRideIsNone, BooksInv, [Next]_vars
  PROVE  BooksInv'
<1>1. ReportsInv' /\ JarsInv BY ReportsInvStep DEF BooksInv, ReportsInv
<1>2. ASSUME Cookies("desk")' \subseteq Cookies("desk"), now' = now \/ now' = now + 1 PROVE BooksInv'
  BY <1>1, <1>2, BooksFrame
<1>3. ASSUME NEW c \in Calls, NEW b \in Browsers, Sends(c, b) PROVE BooksInv'
  <2>1. \E kind, input : Send(c, b, kind, input)
    BY <1>3 DEF Sends, GachaSend, LoadMachine, LoadInventory, PressPull, SubmitPost, MintAct, PickEquip,
                DeskSend, Refresh, RefreshTape, Act, Persist, AuthSend
  <2>2. Cookies("desk")' \subseteq Cookies("desk") BY <1>1, <2>1, SendCookies, SiteCookies
  <2>3. now' = now BY <2>1 DEF Send
  <2>4. QED BY <1>2, <2>2, <2>3
<1>4. ASSUME NEW c \in Calls, Serves(c) PROVE BooksInv'
  <2>1. CASE BeginFetch(c)
    <3>1. Cookies("desk")' \subseteq Cookies("desk")
      BY <1>1, <2>1, FetchCookies, SiteCookies DEF BeginFetch
    <3>2. QED BY <1>2, <2>1, <3>1 DEF BeginFetch
  <2>2. CASE Refuse(c)
    <3>1. Cookies("desk")' \subseteq Cookies("desk")
      BY <1>1, <2>2, EndedCookies, SiteCookies DEF Refuse
    <3>2. QED BY <1>2, <2>2, <3>1 DEF Refuse
  <2>3. ASSUME NEW set, NEW body, Answer(c, set, body),
               "desk" \in DOMAIN set => DeskBooks(set["desk"].state, Day(now))
        PROVE  BooksInv'
    <3>1. \A t \in Cookies("desk")' : t \in Cookies("desk") \/ ("desk" \in DOMAIN set /\ t = set["desk"])
      BY <1>1, <2>3, AnswerCookies, SiteCookies
    <3>2. now' = now BY <2>3 DEF Answer
    <3>3. QED BY <1>1, <2>3, <3>1, <3>2, BooksFrame
  <2>4. QED BY <1>4, <2>1, <2>2, <2>3, ServedBooks
<1>5. ASSUME NEW c \in Calls, Arrives(c) PROVE BooksInv'
  <2>1. CASE DeskReceive(c)
    <3>1. Cookies("desk")' \subseteq Cookies("desk") BY <1>1, <2>1, ReceiveCookies, SiteCookies DEF DeskReceive
    <3>2. QED BY <1>2, <2>1, <3>1 DEF DeskReceive, Receive
  <2>2. CASE DeskLoseAnswer(c)
    <3>1. Cookies("desk")' \subseteq Cookies("desk")
      BY <1>1, <2>2, EndedCookies, SiteCookies DEF DeskLoseAnswer, LoseAnswer
    <3>2. QED BY <1>2, <2>2, <3>1 DEF DeskLoseAnswer, LoseAnswer
  <2>3. QED BY <1>5, <2>1, <2>2 DEF Arrives
<1>6. ASSUME UNCHANGED <<jar, calls>>, now' = now \/ now' = now + 1 PROVE BooksInv'
  <2>1. Cookies("desk")' = Cookies("desk") BY <1>1, <1>6, SameCookies
  <2>2. QED BY <1>2, <1>6, <2>1
<1>7. ASSUME NEW b \in Browsers, Plays(b) PROVE BooksInv'
  <2>1. UNCHANGED <<jar, calls, now>>
    BY <1>7 DEF Plays, Play, StartRound, Tap, BeatTimeout, Beat, GiveUpSave, browserVars
  <2>2. QED BY <1>6, <2>1
<1>8. CASE Passes BY <1>6, <1>8 DEF Passes, Tick
<1>9. CASE Restart
  <2>1. Cookies("desk")' \subseteq Cookies("desk")
    BY <1>1, <1>9, RestartCookies, SiteCookies DEF Restart
  <2>2. now' = now BY <1>9 DEF Restart, LoseProcess
  <2>3. QED BY <1>2, <2>1, <2>2
<1>10. CASE UNCHANGED vars BY <1>6, <1>10 DEF vars, browserVars
<1>11. QED BY <1>3, <1>4, <1>5, <1>7, <1>8, <1>9, <1>10 DEF Next

\* A desk's score is what its plays earned, in every cookie (desk-session.ts; desk-api.ts,
\* loadTickedDesk), for any browsers, calls, prices and restarts, if no ride and a ride can be
\* told apart: however requests overlap, each ride counts once, the vault once per UTC day.
THEOREM DesksAddUp ==
  ASSUME NoRideIsNone
  PROVE  Spec => []DeskAddsUp
<1>1. BooksInv => DeskAddsUp
  BY DEF BooksInv, DeskBooks, DeskAddsUp, Desks, EndedRides
<1>2. BooksInv /\ [Next]_vars => BooksInv' BY BooksInvStep
<1>3. QED BY <1>1, <1>2, BooksInvInit, PTL DEF Spec
=============================================================================
