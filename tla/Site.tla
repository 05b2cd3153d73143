-------------------------------- MODULE Site --------------------------------
(***************************************************************************)
(* The site's cookie-backed parts in one process: lockers, desks and       *)
(* wallet sessions.  They share the browsers' cookie jars, the calls in    *)
(* flight, the clock and the process; a desk that wins yarn also answers   *)
(* with the locker of its request.                                         *)
(***************************************************************************)
EXTENDS DeskSession, AuthSession

ASSUME SiteCookies == {"gacha", "desk", "session"} \subseteq CookieNames

vars == <<browserVars, gachaVars, deskVars, authVars>>

Init == BrowserInit /\ GachaInit /\ DeskInit /\ AuthInit

Sends(c, b) ==
  \/ GachaSend(c, b) /\ UNCHANGED <<deskVars, authVars>>
  \/ DeskSend(c, b) /\ UNCHANGED authVars
  \/ AuthSend(c, b) /\ UNCHANGED <<gachaVars, deskVars>>

Serves(c) ==
  \/ Serve(c) /\ UNCHANGED <<deskVars, authVars>>
  \/ ServeDesk(c) /\ UNCHANGED authVars
  \/ ServeAuth(c) /\ UNCHANGED <<gachaVars, deskVars>>

Arrives(c) ==
  \/ DeskReceive(c) /\ UNCHANGED <<gachaVars, authVars>>
  \/ DeskLoseAnswer(c) /\ UNCHANGED <<gachaVars, authVars>>

Plays(b) == Play(b) /\ UNCHANGED authVars

Passes == Tick /\ UNCHANGED <<gachaVars, deskVars, authVars>>

Restart ==
  /\ LoseProcess /\ DeskRestart /\ AuthRestart
  /\ GachaRestart \/ \E c \in Calls : TornWrite(c)

Next ==
  \/ \E c \in Calls : Serves(c) \/ Arrives(c) \/ \E b \in Browsers : Sends(c, b)
  \/ \E b \in Browsers : Plays(b)
  \/ Passes \/ Restart

Spec == Init /\ [][Next]_vars
=============================================================================
