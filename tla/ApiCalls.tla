------------------------------ MODULE ApiCalls ------------------------------
(***************************************************************************)
(* How the web app proves to the two services who is asking: the session   *)
(* cookie it keeps (apps/web/auth.ts), the service token it mints for      *)
(* every call and every connection (lib/session.ts, realtime-token), the   *)
(* API's throttle and guard, the gateway's handshake - and what a form is  *)
(* told in the end (board-error.filter.ts, lib/api.ts, action-result.ts).  *)
(*                                                                         *)
(* One person.  Time is counted in ticks up to TokenTtl, when a token has  *)
(* expired.  A handshake and the route that gives it its token take less   *)
(* than TokenTtl together; a call to the API may take any time.            *)
(***************************************************************************)
EXTENDS Naturals, FiniteSets

CONSTANTS
  Action,       \* submissions of a form
  TokenTtl,     \* SERVICE_TOKEN_TTL_SECONDS, in ticks
  RateLimit,    \* RATE_LIMIT_GLOBAL
  MaxDrops      \* bound: how often the page's connection drops

ASSUME TokenTtlAssumption == TokenTtl \in Nat \ {0}

NoToken == TokenTtl + 1

VARIABLES
  session,      \* whether the cookie holds a user
  signedOut,    \* ticks since it last did
  act,          \* [Action -> where it is, its token's age, what its form hears]
  requests,     \* what the throttle counted in its window
  store,        \* whether Redis, which counts, answers
  page,         \* the socket: "off", "shaking", "live" or "denied"
  pageToken,    \* the age of the token it shows, NoToken for an empty one
  drops         \* how often it dropped

callVars == <<session, signedOut, act, requests, store, page, pageToken, drops>>

Later(age) == IF age < TokenTtl THEN age + 1 ELSE age

CallsInit ==
  /\ session = TRUE
  /\ signedOut = 0
  /\ act = [a \in Action |-> [at |-> "form", age |-> 0, heard |-> "none"]]
  /\ requests = 0
  /\ store = TRUE
  /\ page = "off"
  /\ pageToken = NoToken
  /\ drops = 0

Put(a, at, words) == act' = [act EXCEPT ![a].at = at, ![a].heard = words]
Socket == <<page, pageToken, drops>>

----------------------------------------------------------------------------
(* The session.  The API compares the password; the answer that is not a   *)
(* session user leaves no session.                                         *)
SignIn ==
  /\ ~ session
  /\ session' = TRUE
  /\ signedOut' = 0
  /\ UNCHANGED <<act, requests, store, Socket>>

SignOut ==
  /\ session
  /\ session' = FALSE
  /\ UNCHANGED <<signedOut, act, requests, store, Socket>>

(* verifyServiceToken, for both services. *)
Accepts(age) == age < TokenTtl

(***************************************************************************)
(* A server action.  authedRequest mints a token for this one call.        *)
(* Without a session requireUser redirects by throwing, and runAction      *)
(* catches what is thrown: the form is told that something went wrong.     *)
(***************************************************************************)
Submit(a) ==
  /\ act[a].at = "form"
  /\ IF session THEN Put(a, "sent", "none") ELSE Put(a, "done", "went wrong")
  /\ UNCHANGED <<session, signedOut, requests, store, Socket>>

(* The throttle, first of the guards.  A storage that does not answer      *)
(* refuses nobody.                                                         *)
Throttle(a) ==
  /\ act[a].at = "sent"
  /\ IF ~ store
       THEN Put(a, "guard", "none") /\ UNCHANGED requests
       ELSE IF requests >= RateLimit
         THEN Put(a, "done", "api's words") /\ UNCHANGED requests
         ELSE Put(a, "guard", "none") /\ requests' = requests + 1
  /\ UNCHANGED <<session, signedOut, store, Socket>>

(* Mutant: the guard asks who, and not whether the token still holds. *)
GuardAccepts(age) == TRUE
GuardVerifies(age) == Accepts(age)

Guard(a) ==
  /\ act[a].at = "guard"
  /\ IF GuardVerifies(act[a].age)
       THEN Put(a, "handler", "none") ELSE Put(a, "done", "api's words")
  /\ UNCHANGED <<session, signedOut, requests, store, Socket>>

(* The handler saves, or refuses with a code whose status and words the    *)
(* error filter sends; of what it did not expect it says nothing.          *)
Handle(a) ==
  /\ act[a].at = "handler"
  /\ \/ Put(a, "reply", "none")
     \/ \E words \in {"api's words", "internal"} : Put(a, "done", words)
  /\ UNCHANGED <<session, signedOut, requests, store, Socket>>

(* A 2xx answer read through its contract: it fits, it does not - the form *)
(* then hears that nothing was saved - or it never arrives.                *)
Reply(a) ==
  /\ act[a].at = "reply"
  /\ \E words \in {"ok", "unreadable", "went wrong"} : Put(a, "done", words)
  /\ UNCHANGED <<session, signedOut, requests, store, Socket>>

(* fetch rejects before the API has the request. *)
NetworkFails(a) ==
  /\ act[a].at = "sent"
  /\ Put(a, "done", "went wrong")
  /\ UNCHANGED <<session, signedOut, requests, store, Socket>>

(* The window of the throttle ends; Redis goes away or comes back. *)
WindowEnds ==
  /\ requests > 0
  /\ requests' = 0
  /\ UNCHANGED <<session, signedOut, act, store, Socket>>

StoreFlips ==
  /\ store' = ~ store
  /\ UNCHANGED <<session, signedOut, act, requests, Socket>>

----------------------------------------------------------------------------
(* Mutant: the first token serves every later attempt as well. *)
TokenForKept ==
  IF pageToken # NoToken THEN {pageToken} ELSE IF session THEN {0} ELSE {NoToken}

(* /api/realtime-token, asked before every attempt: a fresh token; without *)
(* a session the answer is 401 and the token empty, and so it is when the  *)
(* request fails.                                                          *)
TokenFor == IF session THEN {0, NoToken} ELSE {NoToken}

Attempt ==
  /\ page = "off"
  /\ page' = "shaking"
  /\ pageToken' \in TokenFor
  /\ UNCHANGED <<session, signedOut, act, requests, store, drops>>

(* The handshake: refused, the page says so and tries no more. *)
Handshake ==
  /\ page = "shaking"
  /\ page' = IF Accepts(pageToken) THEN "live" ELSE "denied"
  /\ UNCHANGED <<session, signedOut, act, requests, store, pageToken, drops>>

(* The connection drops, before or after the handshake. *)
Drop ==
  /\ page \in {"shaking", "live"} /\ drops < MaxDrops
  /\ page' = "off"
  /\ drops' = drops + 1
  /\ UNCHANGED <<session, signedOut, act, requests, store, pageToken>>

(* Time passes, though not while a fresh token is on its way to expire in  *)
(* a handshake.                                                            *)
CallsTick ==
  /\ page = "shaking" => pageToken # TokenTtl - 1
  /\ signedOut' = IF session THEN 0 ELSE Later(signedOut)
  /\ act' = [a \in Action |-> IF act[a].at \in {"sent", "guard"}
                                THEN [act[a] EXCEPT !.age = Later(@)] ELSE act[a]]
  /\ pageToken' = IF pageToken = NoToken THEN NoToken ELSE Later(pageToken)
  /\ UNCHANGED <<session, requests, store, page, drops>>

CallsNext ==
  \/ SignIn \/ SignOut
  \/ \E a \in Action : \/ Submit(a) \/ Throttle(a) \/ Guard(a) \/ Handle(a)
                       \/ Reply(a) \/ NetworkFails(a)
  \/ WindowEnds \/ StoreFlips
  \/ Attempt \/ Handshake \/ Drop \/ CallsTick

CallsSpec == CallsInit /\ [][CallsNext]_callVars

----------------------------------------------------------------------------
(* Signing out reaches the services that keep no session: whatever is      *)
(* still on its way, nothing new gets through to a handler, and no new     *)
(* socket goes live, once the session has been gone for a token's life.    *)
SignOutHolds ==
  [][signedOut = TokenTtl =>
       /\ \A a \in Action : act'[a].at = "handler" => act[a].at = "handler"
       /\ page' = "live" => page = "live"]_callVars

(* A board left open over lunch comes back: a page is refused only if it   *)
(* was given no token, and never because of one that has grown old,        *)
(* however often the connection dropped and however long it was away.      *)
DeniedForCause == page = "denied" => pageToken = NoToken
=============================================================================
