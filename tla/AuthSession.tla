---------------------------- MODULE AuthSession ----------------------------
(***************************************************************************)
(* Sign-in with a wallet: one-time nonces in memory (nonce-store.ts), the  *)
(* signed message (packages/chain siws.ts), the sealed session cookie      *)
(* (session.ts) and the routes of api/auth.  A message is a record of the  *)
(* fields it is parsed into; a signature is the wallet that made it.       *)
(***************************************************************************)
EXTENDS Browser, Sequences, FiniteSets

CONSTANTS
  Wallets,
  AuthDomain, ChainId, \* what the server expects
  Elsewhere,           \* another domain or chain
  NonceTtl, ClockSkew, \* TTL_MS of nonces, clockSkewMs
  SweepAbove,          \* the size from which putNonce drops expired nonces
  IdleTtl, AbsoluteTtl, \* IDLE_TTL_MS, ABSOLUTE_TTL_MS
  MaxNonces            \* bound: nonces asked for

ASSUME AuthSetup ==
  /\ {NonceTtl, ClockSkew, SweepAbove, IdleTtl, AbsoluteTtl, MaxNonces} \subseteq Nat
  /\ Elsewhere \notin {AuthDomain, ChainId}

VARIABLES
  nonces,   \* the store: [id, expires]
  issued,   \* issue time of every nonce there was; a nonce is its index (random in the code)
  lost,     \* history: how many of them a restart has taken away
  signIns   \* history: the sign-ins that succeeded

authVars == <<nonces, issued, lost, signIns>>

AuthInit == nonces = {} /\ issued = <<>> /\ lost = 0 /\ signIns = <<>>

-----------------------------------------------------------------------------
(* The client: it signs the message the nonce route suggests.  A request    *)
(* with one thing wrong stands for every way of getting it wrong.           *)

Signed(wallet, n) ==
  [admitted |-> TRUE, publicKey |-> wallet, nonce |-> n, signer |-> wallet,
   message |-> [domain |-> AuthDomain, address |-> wallet, nonce |-> n, chain |-> ChainId,
                issued |-> issued[n], exp |-> issued[n] + NonceTtl]]

OneThingWrong(r) ==
  {[r EXCEPT !.admitted = FALSE], [r EXCEPT !.nonce = 0], [r EXCEPT !.message.nonce = 0],
   [r EXCEPT !.message.domain = Elsewhere], [r EXCEPT !.message.chain = Elsewhere],
   [r EXCEPT !.message.issued = now + ClockSkew + 1], [r EXCEPT !.message.exp = 0]}
  \cup {[r EXCEPT !.publicKey = w] : w \in Wallets \ {r.publicKey}}
  \cup {[r EXCEPT !.message.address = w] : w \in Wallets \ {r.publicKey}}
  \cup {[r EXCEPT !.signer = w] : w \in Wallets \ {r.publicKey}}

AuthSend(c, b) ==
  /\ \/ Len(issued) < MaxNonces /\ Send(c, b, "nonce", NoCookie)
     \/ Send(c, b, "me", NoCookie)
     \/ \E admitted \in BOOLEAN : Send(c, b, "logout", [admitted |-> admitted])
     \/ \E n \in DOMAIN issued, w \in Wallets :
          \E r \in {Signed(w, n)} \cup OneThingWrong(Signed(w, n)) : Send(c, b, "verify", r)
  /\ UNCHANGED authVars

-----------------------------------------------------------------------------
(* The server. *)

\* putNonce: expired nonces are dropped only when the store has grown large.
Swept == IF Cardinality(nonces) > SweepAbove THEN {r \in nonces : r.expires > now} ELSE nonces

IssueNonce(c) ==
  /\ Waiting(c, "nonce")
  /\ nonces' = Swept \cup {[id |-> Len(issued) + 1, expires |-> now + NonceTtl]}
  /\ issued' = Append(issued, now)
  /\ Refuse(c) \* it sets no cookie
  /\ UNCHANGED <<lost, signIns>>

\* Fault: a nonce is looked up and not taken out.
NoncesWithoutUsed(n) == nonces

NoncesWithout(n) == {r \in nonces : r.id # n}

\* consumeNonce: the nonce is gone whatever comes of the sign-in.
NonceValid(n) == \E r \in nonces : r.id = n /\ r.expires > now

\* verifySiwsLogin
LoginValid(r) ==
  /\ r.message.domain = AuthDomain
  /\ r.message.address = r.publicKey
  /\ r.message.nonce = r.nonce
  /\ r.message.chain = ChainId
  /\ now + ClockSkew >= r.message.issued
  /\ now - ClockSkew <= r.message.exp
  /\ r.signer = r.publicKey

Least(a, b) == IF a < b THEN a ELSE b

\* sealSession
SealedSession(wallet) ==
  [wallet |-> wallet, issuedAt |-> now, exp |-> Least(now + AbsoluteTtl, now + IdleTtl)]

SignIn(c) ==
  LET r == calls[c].input
  IN /\ Waiting(c, "verify")
     /\ r.admitted /\ NonceValid(r.nonce) /\ LoginValid(r)
     /\ nonces' = NoncesWithout(r.nonce)
     /\ signIns' = Append(signIns, [nonce |-> r.nonce, signer |-> r.signer, at |-> now])
     /\ Answer(c, [session |-> SealedSession(r.message.address)], NoCookie)
     /\ UNCHANGED <<issued, lost>>

\* Origin and missing fields are looked at before the nonce is taken.
SignInRefused(c) ==
  LET r == calls[c].input
  IN /\ Waiting(c, "verify")
     /\ ~(r.admitted /\ NonceValid(r.nonce) /\ LoginValid(r))
     /\ nonces' = IF r.admitted THEN NoncesWithout(r.nonce) ELSE nonces
     /\ Refuse(c)
     /\ UNCHANGED <<issued, lost, signIns>>

Logout(c) ==
  /\ Waiting(c, "logout") /\ calls[c].input.admitted
  /\ Answer(c, [session |-> NoCookie], NoCookie)
  /\ UNCHANGED authVars

\* A logout from another origin leaves the session where it is.
LogoutRefused(c) ==
  Waiting(c, "logout") /\ ~calls[c].input.admitted /\ Refuse(c) /\ UNCHANGED authVars

\* Fault: only the absolute lifetime counts.
SessionOfAbsolute(token) ==
  IF token = NoCookie \/ now > token.issuedAt + AbsoluteTtl THEN NoCookie ELSE token

\* unsealSession
SessionOf(token) ==
  IF token = NoCookie \/ now > token.exp \/ now > token.issuedAt + AbsoluteTtl THEN NoCookie ELSE token

\* Who the session route, and requireSession in the routes of api/me, take the caller for.
AnswerAs(c) ==
  LET session == SessionOf(calls[c].jar["session"])
  IN /\ Waiting(c, "me")
     /\ IF session = NoCookie THEN Refuse(c)
        ELSE Answer(c, << >>, [wallet |-> session.wallet, at |-> now])
     /\ UNCHANGED authVars

ServeAuth(c) == IssueNonce(c) \/ SignIn(c) \/ SignInRefused(c) \/ Logout(c) \/ LogoutRefused(c) \/ AnswerAs(c)

\* The nonces are in memory only; sessions live in their cookies.
AuthRestart == nonces' = {} /\ lost' = Len(issued) /\ UNCHANGED <<issued, signIns>>

-----------------------------------------------------------------------------
(* Properties. *)

Once == \A i, j \in DOMAIN signIns : i # j => signIns[i].nonce # signIns[j].nonce

InTime ==
  \A i \in DOMAIN signIns :
    LET s == signIns[i] IN issued[s.nonce] <= s.at /\ s.at < issued[s.nonce] + NonceTtl

Forgotten == \A r \in nonces : r.id > lost /\ \A i \in DOMAIN signIns : signIns[i].nonce # r.id

\* A nonce signs in one wallet at most, in its lifetime and that of the process that issued
\* it, although the same signed message may be sent again while its first answer is on its
\* way or after that was lost, and the clock skew lets the message itself outlive the nonce.
NonceSignsInOnce == Once /\ InTime /\ Forgotten

\* Whoever is taken for a wallet comes from a sign-in which that wallet signed, not longer
\* ago than a session lasts; no session in a browser or on its way is from anything else.
SessionsAreSigned ==
  /\ \A t \in Cookies("session") :
       \E i \in DOMAIN signIns : signIns[i].signer = t.wallet /\ signIns[i].at = t.issuedAt
  /\ \A c \in Calls : (calls[c].step = "answered" /\ calls[c].kind = "me") =>
       \E i \in DOMAIN signIns :
         /\ signIns[i].signer = calls[c].body.wallet
         /\ signIns[i].at <= calls[c].body.at
         /\ calls[c].body.at <= signIns[i].at + Least(IdleTtl, AbsoluteTtl)
=============================================================================
