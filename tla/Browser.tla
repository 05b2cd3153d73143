------------------------------ MODULE Browser ------------------------------
(***************************************************************************)
(* Browsers with cookies, and the requests they have in flight (the fetch  *)
(* calls of the components, cookies() of next/headers in the routes).      *)
(*                                                                         *)
(* A request carries the cookies its browser held when it was sent; the    *)
(* handler works from those, however late, and the cookies its answer sets *)
(* replace whatever the browser holds by then.  Several requests of one    *)
(* browser may be in flight; answers come in any order or are lost.        *)
(***************************************************************************)
EXTENDS Integers

CONSTANTS
  Browsers,
  Calls,         \* components that send one request at a time (their busy flags)
  CookieNames,
  NoCookie,      \* a cookie that is not there, or was cleared
  Inputs,        \* what requests of each kind may name: a function from kinds to sets
  Agendas        \* bounds: kinds of requests, which browsers send them, how many in all and
                 \* whether one at a time, the last tick of the clock, restarts of the process

ASSUME BrowserSetup ==
  \A a \in Agendas :
    /\ a.kinds \subseteq DOMAIN Inputs /\ a.browsers \subseteq Browsers
    /\ {a.left, a.horizon, a.restarts} \subseteq Nat /\ a.alone \in BOOLEAN

VARIABLES
  jar,       \* the cookies of each browser
  calls,     \* requests in flight
  now,       \* the clock
  agenda     \* what is still to come

browserVars == <<jar, calls, now, agenda>>

Idle == [step |-> "idle"]

BrowserInit ==
  /\ jar = [b \in Browsers |-> [n \in CookieNames |-> NoCookie]]
  /\ calls = [c \in Calls |-> Idle]
  /\ now = 1
  /\ agenda \in Agendas

\* A component that is not busy sends a request with its browser's cookies.
Send(c, b, kind, input) ==
  /\ calls[c] = Idle
  /\ kind \in agenda.kinds /\ b \in agenda.browsers /\ agenda.left > 0
  /\ agenda.alone => \A d \in Calls : calls[d] = Idle
  /\ agenda' = [agenda EXCEPT !.left = @ - 1]
  /\ calls' = [calls EXCEPT ![c] =
       [step |-> "sent", browser |-> b, kind |-> kind, input |-> input, jar |-> jar[b]]]
  /\ UNCHANGED <<jar, now>>

\* The cookies "set" over those of a jar.
Over(set, cookies) ==
  [n \in DOMAIN set \cup DOMAIN cookies |-> IF n \in DOMAIN set THEN set[n] ELSE cookies[n]]

\* The answer arrives; the cookies it sets replace the browser's.
Receive(c) ==
  /\ calls[c].step = "answered"
  /\ jar' = [jar EXCEPT ![calls[c].browser] = Over(calls[c].set, @)]
  /\ calls' = [calls EXCEPT ![c] = Idle]
  /\ UNCHANGED <<now, agenda>>

\* The answer is lost, and with it the cookies.
LoseAnswer(c) ==
  /\ calls[c].step = "answered"
  /\ calls' = [calls EXCEPT ![c] = Idle]
  /\ UNCHANGED <<jar, now, agenda>>

Waiting(c, kind) == calls[c].step = "sent" /\ calls[c].kind = kind

\* A handler's answer: the cookies it sets and the part of its body that is looked at.
Answer(c, set, body) ==
  /\ calls' = [calls EXCEPT ![c] =
       [step |-> "answered", browser |-> @.browser, kind |-> @.kind, input |-> @.input,
        set |-> set, body |-> body]]
  /\ UNCHANGED <<jar, now, agenda>>

\* An answer that sets no cookie and says nothing that is looked at.
Refuse(c) == calls' = [calls EXCEPT ![c] = Idle] /\ UNCHANGED <<jar, now, agenda>>

\* The process ends and starts again: requests in flight fail.
LoseProcess ==
  /\ agenda.restarts > 0
  /\ \E c \in Calls : calls[c] # Idle
  /\ agenda' = [agenda EXCEPT !.restarts = @ - 1]
  /\ calls' = [c \in Calls |-> Idle]
  /\ UNCHANGED <<jar, now>>

Tick == now < agenda.horizon /\ now' = now + 1 /\ UNCHANGED <<jar, calls, agenda>>

\* Every value of a cookie there is: in a browser, with a request or with an answer.
Cookies(name) ==
  ({jar[b][name] : b \in Browsers}
   \cup {calls[c].jar[name] : c \in {d \in Calls : calls[d].step \in {"sent", "fetching"}}}
   \cup {calls[c].set[name] :
           c \in {d \in Calls : calls[d].step = "answered" /\ name \in DOMAIN calls[d].set}})
  \ {NoCookie}
=============================================================================
