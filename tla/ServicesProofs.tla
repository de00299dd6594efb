---------------------------- MODULE ServicesProofs ----------------------------
(***************************************************************************)
(* Proofs about the parts that MCServices checks, for any number of        *)
(* probes, forms, connections, readers, days and events, and any settings. *)
(***************************************************************************)
EXTENDS HealthProbe, ApiCalls, Presence, Calendar, SocketLimiter, SequenceTheorems,
        FiniteSetTheorems, TLAPS

-----------------------------------------------------------------------------
(* HealthProbe.                                                            *)

(* A probe that is about to say that it heard its nonce, has said so, or   *)
(* has made its gateway green, did hear it.                                *)
Traced(p) ==
  /\ trip[p] = "finally" => p \in heard
  /\ check[p]["adapter"] = "ok" => p \in heard
  /\ report[p] = "ok" => check[p]["adapter"] = "ok"

HealthInv ==
  /\ check \in [Probe -> [Dependency -> {"none", "run", "ok", "fail"}]]
  /\ trip \in [Probe -> {"idle", "subscribe", "publish", "wait", "finally"}]
  /\ report \in [Probe -> {"none", "ok", "degraded"}]
  /\ gateway \subseteq Probe
  /\ \A p \in gateway : Traced(p)

(* A step of the health checks keeps every probe's trace.                  *)
LEMMA HealthStep == HealthInv /\ [HealthNext]_healthVars => HealthInv'
<1> SUFFICES ASSUME HealthInv, [HealthNext]_healthVars PROVE HealthInv'
  OBVIOUS
<1> USE DEF HealthInv, Traced
<1>1. ASSUME NEW p \in Probe, Request(p) PROVE HealthInv'
  BY <1>1 DEF Request, Checks, Dependency
<1>2. ASSUME NEW p \in Probe, Subscribe(p) PROVE HealthInv'
  BY <1>2 DEF Subscribe
<1>3. ASSUME NEW p \in Probe, Publish(p) PROVE HealthInv'
  BY <1>3 DEF Publish
<1>4. ASSUME NEW p \in Probe, Message(p) PROVE HealthInv'
  BY <1>4 DEF Message, OwnNonce
<1>5. ASSUME NEW p \in Probe, Finally(p) PROVE HealthInv'
  BY <1>5 DEF Finally, Dependency
<1>6. ASSUME NEW p \in Probe, Report(p) PROVE HealthInv'
  BY <1>6 DEF Report, Dependency
<1>7. ASSUME NEW p \in Probe, NEW d \in Dependency, Answers(p, d) PROVE HealthInv'
  BY <1>7 DEF Answers, Dependency
<1>8. ASSUME NEW p \in Probe, NEW d \in Dependency, TimesOut(p, d) PROVE HealthInv'
  BY <1>8 DEF TimesOut, Dependency
<1>9. ASSUME NEW d \in Dependency, Dies(d) \/ Recovers(d) PROVE HealthInv'
  BY <1>9 DEF Dies, Recovers
<1>10. CASE UNCHANGED healthVars
  BY <1>10 DEF healthVars
<1> QED
  BY <1>1, <1>2, <1>3, <1>4, <1>5, <1>6, <1>7, <1>8, <1>9, <1>10 DEF HealthNext

(* A gateway that reports itself healthy has heard its own nonce: health.ts,*)
(* however many probes share its two connections.                          *)
THEOREM GreenIsHeard == HealthSpec => []GreenMeansHeard
<1>1. HealthInit => HealthInv
  BY DEF HealthInit, HealthInv, Traced, Dependency
<1>2. HealthInv => GreenMeansHeard
  BY DEF HealthInv, Traced, GreenMeansHeard
<1> QED
  BY <1>1, <1>2, HealthStep, PTL DEF HealthSpec

-----------------------------------------------------------------------------
(* ApiCalls.                                                               *)

(* Without a session, every token that may still be shown is at least as   *)
(* old as the sign-out; and a token shown in a handshake is fresh enough,  *)
(* or is none.                                                             *)
Aging ==
  /\ session => signedOut = 0
  /\ ~ session =>
       /\ \A a \in Action : act[a].at \in {"sent", "guard"} => act[a].age >= signedOut
       /\ page = "shaking" => pageToken >= signedOut

Words == {"none", "ok", "unreadable", "went wrong", "api's words", "internal"}

CallsInv ==
  /\ session \in BOOLEAN
  /\ signedOut \in 0 .. TokenTtl
  /\ act \in [Action -> [at : {"form", "sent", "guard", "handler", "reply", "done"},
                         age : 0 .. TokenTtl, heard : Words]]
  /\ page \in {"off", "shaking", "live", "denied"}
  /\ pageToken \in 0 .. NoToken
  /\ Aging
  /\ page = "shaking" => pageToken < TokenTtl \/ pageToken = NoToken
  /\ page = "denied" => pageToken = NoToken

(* What moving a form on does: its token keeps its age.                    *)
LEMMA PutMoves ==
  ASSUME NEW a \in Action, NEW at \in {"sent", "guard", "handler", "reply", "done"},
         NEW words \in Words, Put(a, at, words), CallsInv
  PROVE  /\ act' \in [Action -> [at : {"form", "sent", "guard", "handler", "reply", "done"},
                                 age : 0 .. TokenTtl, heard : Words]]
         /\ act'[a].at = at /\ act'[a].age = act[a].age
         /\ \A b \in Action : b # a => act'[b] = act[b]
BY DEF Put, CallsInv

(* Every step of the calls keeps the invariant.                            *)
LEMMA CallsStep == CallsInv /\ [CallsNext]_callVars => CallsInv'
<1> SUFFICES ASSUME CallsInv, [CallsNext]_callVars PROVE CallsInv'
  OBVIOUS
<1> USE TokenTtlAssumption DEF CallsInv, Aging, NoToken, Socket
<1>1. CASE SignIn
  BY <1>1 DEF SignIn
<1>2. CASE SignOut
  <2>1. /\ session' = FALSE /\ signedOut = 0
        /\ UNCHANGED <<signedOut, act, page, pageToken>>
    BY <1>2 DEF SignOut
  <2>2. \A a \in Action : act[a].age >= 0
    OBVIOUS
  <2>3. pageToken >= 0
    OBVIOUS
  <2>4. Aging'
    BY <2>1, <2>2, <2>3
  <2> QED
    BY <2>1, <2>4
<1>3. ASSUME NEW a \in Action, Submit(a) PROVE CallsInv'
  BY <1>3, PutMoves DEF Submit, Words
<1>4. ASSUME NEW a \in Action, Throttle(a) PROVE CallsInv'
  BY <1>4, PutMoves DEF Throttle, Words
<1>5. ASSUME NEW a \in Action, Guard(a) PROVE CallsInv'
  BY <1>5, PutMoves DEF Guard, Words
<1>6. ASSUME NEW a \in Action, Handle(a) \/ Reply(a) \/ NetworkFails(a) PROVE CallsInv'
  <2>1. PICK at \in {"reply", "done"} : \E words \in Words :
           Put(a, at, words) /\ UNCHANGED <<session, signedOut, page, pageToken>>
    BY <1>6 DEF Handle, Reply, NetworkFails, Words
  <2> QED
    BY <2>1, PutMoves
<1>7. CASE WindowEnds \/ StoreFlips
  BY <1>7 DEF WindowEnds, StoreFlips
<1>8. CASE Attempt
  BY <1>8 DEF Attempt, TokenFor
<1>9. CASE Handshake
  BY <1>9 DEF Handshake, Accepts
<1>10. CASE Drop
  BY <1>10 DEF Drop
<1>11. CASE CallsTick
  <2>1. /\ signedOut' = IF session THEN 0 ELSE Later(signedOut)
        /\ pageToken' = IF pageToken = NoToken THEN NoToken ELSE Later(pageToken)
        /\ page = "shaking" => pageToken # TokenTtl - 1
        /\ UNCHANGED <<session, page>>
    BY <1>11 DEF CallsTick
  <2>2. ASSUME NEW a \in Action
        PROVE  /\ act'[a] \in [at : {"form", "sent", "guard", "handler", "reply", "done"},
                               age : 0 .. TokenTtl, heard : Words]
               /\ act'[a].at = act[a].at
               /\ act[a].at \in {"sent", "guard"} => act'[a].age = Later(act[a].age)
    BY <1>11 DEF CallsTick, Later
  <2>3. act' \in [Action -> [at : {"form", "sent", "guard", "handler", "reply", "done"},
                             age : 0 .. TokenTtl, heard : Words]]
    BY <1>11, <2>2 DEF CallsTick
  <2>4. (session' => signedOut' = 0) /\ signedOut' \in 0 .. TokenTtl
    BY <2>1 DEF Later
  <2>5. ASSUME ~ session', NEW a \in Action, act'[a].at \in {"sent", "guard"}
        PROVE  act'[a].age >= signedOut'
    BY <2>1, <2>2, <2>5 DEF Later
  <2>6. /\ pageToken' \in 0 .. NoToken
        /\ ~ session' /\ page' = "shaking" => pageToken' >= signedOut'
        /\ page' = "shaking" => pageToken' < TokenTtl \/ pageToken' = NoToken
        /\ page' = "denied" => pageToken' = NoToken
    BY <2>1 DEF Later
  <2> QED
    BY <2>1, <2>3, <2>4, <2>5, <2>6
<1>12. CASE UNCHANGED callVars
  BY <1>12 DEF callVars
<1> QED
  BY <1>1, <1>2, <1>3, <1>4, <1>5, <1>6, <1>7, <1>8, <1>9, <1>10, <1>11, <1>12 DEF CallsNext

(* The invariant holds always.                                             *)
LEMMA CallsInvariant == CallsSpec => []CallsInv
<1>1. CallsInit => CallsInv
  BY TokenTtlAssumption DEF CallsInit, CallsInv, Aging, NoToken, Words
<1> QED
  BY <1>1, CallsStep, PTL DEF CallsSpec

(* DeniedForCause: a page is refused only if it was given no token, and    *)
(* never because of one that has grown old (the handshake of the gateway,  *)
(* and the client that fetches a token for every attempt).                 *)
THEOREM DeniedHasCause == CallsSpec => []DeniedForCause
<1>1. CallsInv => DeniedForCause
  BY DEF CallsInv, DeniedForCause
<1> QED
  BY <1>1, CallsInvariant, PTL

(* Once the session has been gone for a token's life, the guard lets no    *)
(* call through to its handler and the gateway no socket in.               *)
THEOREM SignOutReaches == CallsSpec => SignOutHolds
<1> DEFINE Holds ==
      signedOut = TokenTtl =>
        /\ \A a \in Action : act'[a].at = "handler" => act[a].at = "handler"
        /\ page' = "live" => page = "live"
<1>1. CallsInv /\ [CallsNext]_callVars => [Holds]_callVars
  <2> SUFFICES ASSUME CallsInv, CallsNext, signedOut = TokenTtl PROVE Holds
    OBVIOUS
  <2> USE TokenTtlAssumption DEF CallsInv, Aging, NoToken, Socket
  <2>1. ~ session
    OBVIOUS
  <2>2. CASE SignIn \/ SignOut \/ WindowEnds \/ StoreFlips \/ Attempt \/ Drop
    BY <2>2 DEF SignIn, SignOut, WindowEnds, StoreFlips, Attempt, Drop
  <2>3. ASSUME NEW a \in Action, Submit(a) PROVE Holds
    BY <2>3, PutMoves DEF Submit, Words
  <2>4. ASSUME NEW a \in Action, Throttle(a) PROVE Holds
    BY <2>4, PutMoves DEF Throttle, Words
  <2>5. ASSUME NEW a \in Action, Guard(a) PROVE Holds
    <3>1. act[a].age >= TokenTtl /\ act[a].age \in 0 .. TokenTtl
      BY <2>1, <2>5 DEF Guard
    <3>2. ~ GuardVerifies(act[a].age)
      BY <3>1 DEF GuardVerifies, Accepts
    <3>3. Put(a, "done", "api's words") /\ UNCHANGED page
      BY <3>2, <2>5 DEF Guard
    <3> QED
      BY <3>3, PutMoves DEF Words
  <2>6. ASSUME NEW a \in Action, Handle(a) \/ Reply(a) \/ NetworkFails(a) PROVE Holds
    <3>1. PICK at \in {"reply", "done"} : \E words \in Words :
             Put(a, at, words) /\ UNCHANGED <<session, signedOut, page, pageToken>>
      BY <2>6 DEF Handle, Reply, NetworkFails, Words
    <3>2. PICK words \in Words : Put(a, at, words) /\ UNCHANGED page
      BY <3>1
    <3>3. act'[a].at = at /\ \A b \in Action : b # a => act'[b] = act[b]
      BY <3>2, PutMoves
    <3>4. at # "handler"
      OBVIOUS
    <3>5. ASSUME NEW b \in Action, act'[b].at = "handler" PROVE act[b].at = "handler"
      BY <3>3, <3>4, <3>5
    <3> QED
      BY <3>2, <3>5
  <2>7. CASE Handshake
    BY <2>1, <2>7 DEF Handshake, Accepts
  <2>8. CASE CallsTick
    BY <2>8 DEF CallsTick
  <2> QED
    BY <2>2, <2>3, <2>4, <2>5, <2>6, <2>7, <2>8 DEF CallsNext
<1> QED
  BY <1>1, CallsInvariant, PTL DEF CallsSpec, SignOutHolds

-----------------------------------------------------------------------------
(* Presence.                                                               *)

Handler == [at : {"idle", "board", "touch", "leave", "read", "sweep"}, stamp : Nat,
            live : SUBSET Conn, expired : SUBSET Conn]

(* No roster that is being worked on is about to delete c's entry.         *)
Spared(c) == \A d \in Conn : c \notin call[d].expired /\ c \notin bye[d].expired

(* c has not joined yet, and nothing of it is known.                       *)
Unknown(c) == c \notin room /\ hash[c] = None /\ bye[c] = Idle /\ Spared(c)

(* The time since c's last heartbeat that counted, and the time to its     *)
(* next, make one period, or two if one has been lost. While a heartbeat   *)
(* is being written, its stamp tells the former, and the entry may be      *)
(* older by that much.                                                     *)
Period(c) == IF c \in missed THEN config.heartbeat * 2 ELSE config.heartbeat

Alive(c) ==
  /\ sock[c] = "open" /\ bye[c].at # "leave" /\ Spared(c)
  /\ next[c] \in 0 .. config.heartbeat
  /\ IF call[c].at = "touch"
       THEN /\ call[c].stamp <= Delay
            /\ call[c].stamp + next[c] <= Period(c)
            /\ hash[c] # None => hash[c] <= config.heartbeat * 2 + call[c].stamp
       ELSE hash[c] # None /\ hash[c] + next[c] <= Period(c)

PresenceTypes ==
  /\ config \in Settings /\ AssertConfig(config)
  /\ hash \in [Conn -> Nat \union {None}]
  /\ sock \in [Conn -> {"new", "open", "closed"}]
  /\ room \subseteq Conn
  /\ next \in [Conn -> Nat]
  /\ missed \subseteq Conn
  /\ call \in [Conn -> Handler]
  /\ bye \in [Conn -> Handler]

Joins(c) ==
  /\ sock[c] = "new" => call[c] = Idle /\ Unknown(c)
  /\ call[c].at = "board" => Unknown(c)

PresenceInv ==
  /\ PresenceTypes
  /\ \A c \in Conn : Joins(c)
  /\ \A c \in room : Alive(c)

(* A handler that does nothing, or has just been put somewhere.            *)
LEMMA HandlerPlaces ==
  /\ Idle \in Handler /\ Idle.at = "idle" /\ Idle.expired = {}
  /\ \A pc \in {"board", "touch", "leave", "read"} :
       /\ At(pc) \in Handler /\ At(pc).at = pc /\ At(pc).stamp = 0 /\ At(pc).expired = {}
       /\ At(pc) # Idle
BY DEF Idle, At, Handler

(* What a roster does: it finds entries that are too old, or deletes those *)
(* that it found, which are nobody's it must spare.                        *)
LEMMA RosterSpares ==
  ASSUME PresenceInv, NEW h \in Handler, NEW g \in {Read(h), Idle}, RosterStep(h, g)
  PROVE  /\ h.at \in {"read", "sweep"} /\ g \in Handler /\ g.at \in {"sweep", "idle"}
         /\ hash' \in [Conn -> Nat \union {None}]
         /\ \A d \in Conn : hash'[d] \in {None, hash[d]}
         /\ \A d \in Conn : d \notin h.expired => hash'[d] = hash[d]
         /\ \A d \in Conn : d \in g.expired => hash[d] # None /\ hash[d] > config.ttl
<1> USE SettingsAssumption
<1>1. CASE RosterRead(h, g)
  <2>1. /\ h.at = "read" /\ hash' = hash /\ g = Read(h)
        /\ Read(h) \in Handler /\ Read(h).at = "sweep" /\ Read(h).expired = Entries(TRUE)
    BY <1>1 DEF RosterRead, Read, Handler, Entries
  <2> QED
    BY <2>1 DEF Entries, Expired, PresenceInv, PresenceTypes
<1>2. CASE RosterTell(h, g)
  BY <1>2, HandlerPlaces DEF RosterTell, PresenceInv, PresenceTypes
<1> QED
  BY <1>1, <1>2 DEF RosterStep

(* Every step of presence keeps the invariant.                             *)
LEMMA PresenceStep == PresenceInv /\ [PresenceNext]_presenceVars => PresenceInv'
<1> SUFFICES ASSUME PresenceInv, [PresenceNext]_presenceVars PROVE PresenceInv'
  OBVIOUS
<1> USE HandlerPlaces
<1>0. /\ config.heartbeat \in Nat /\ config.ttl \in Nat /\ config.heartbeat > 0
      /\ config.heartbeat * 2 + Delay <= config.ttl /\ config.ttl < Old
      /\ Delay \in Nat /\ Old \in Nat /\ None \notin Nat
  BY SettingsAssumption DEF PresenceInv, PresenceTypes, AssertConfig
<1>1. ASSUME NEW c \in Conn, Connect(c) PROVE PresenceInv'
  <2>1. PresenceTypes'
    BY <1>0, <1>1 DEF PresenceInv, PresenceTypes, Connect, Handler
  <2>2. ASSUME NEW e \in Conn PROVE Joins(e)'
    BY <1>0, <1>1 DEF PresenceInv, PresenceTypes, Joins, Unknown, Spared, Handler, Connect
  <2>3. ASSUME NEW e \in room' PROVE Alive(e)'
    BY <1>0, <1>1 DEF PresenceInv, PresenceTypes, Joins, Unknown, Spared, Alive, Period, Handler, Connect
  <2> QED
    BY <2>1, <2>2, <2>3 DEF PresenceInv
<1>2. ASSUME NEW c \in Conn, JoinRefused(c) PROVE PresenceInv'
  <2>1. PresenceTypes'
    BY <1>0, <1>2 DEF PresenceInv, PresenceTypes, JoinRefused, Handler
  <2>2. ASSUME NEW e \in Conn PROVE Joins(e)'
    BY <1>0, <1>2 DEF PresenceInv, PresenceTypes, Joins, Unknown, Spared, Handler, JoinRefused
  <2>3. ASSUME NEW e \in room' PROVE Alive(e)'
    BY <1>0, <1>2 DEF PresenceInv, PresenceTypes, Joins, Unknown, Spared, Alive, Period, Handler, JoinRefused
  <2> QED
    BY <2>1, <2>2, <2>3 DEF PresenceInv
<1>3. ASSUME NEW c \in Conn, JoinRoom(c) PROVE PresenceInv'
  <2>1. /\ call[c].at = "board" /\ call' = [call EXCEPT ![c] = At("touch")]
        /\ UNCHANGED <<config, hash, sock, missed, bye>>
        /\ \/ /\ sock[c] = "open" /\ room' = room \union {c}
              /\ \E n \in 1 .. config.heartbeat : next' = [next EXCEPT ![c] = n]
           \/ UNCHANGED <<room, next>>
    BY <1>3 DEF JoinRoom
  <2>2. At("touch") \in Handler
    OBVIOUS
  <2>3. room' \subseteq Conn /\ next' \in [Conn -> Nat]
    BY <1>0, <2>1 DEF PresenceInv, PresenceTypes
  <2>4. PresenceTypes'
    BY <2>1, <2>2, <2>3 DEF PresenceInv, PresenceTypes
  <2>5. ASSUME NEW e \in Conn PROVE Joins(e)'
    BY <1>0, <1>3 DEF PresenceInv, PresenceTypes, Joins, Unknown, Spared, Handler, JoinRoom
  <2>6. ASSUME NEW e \in room' PROVE Alive(e)'
    BY <1>0, <1>3 DEF PresenceInv, PresenceTypes, Joins, Unknown, Spared, Alive, Period, Handler,
       JoinRoom
  <2> QED
    BY <2>4, <2>5, <2>6 DEF PresenceInv
<1>4. ASSUME NEW c \in Conn, Heartbeat(c) \/ SetActivity(c) PROVE PresenceInv'
  <2>1. PICK rest \in 0 .. config.heartbeat : Ping(c, rest) /\ rest \in {config.heartbeat, next[c]}
    BY <1>0, <1>4 DEF PresenceInv, PresenceTypes, Alive, Heartbeat, SetActivity, Ping
  <2>2. PresenceTypes'
    BY <1>0, <2>1 DEF PresenceInv, PresenceTypes, Ping
  <2>3. ASSUME NEW e \in Conn PROVE Joins(e)'
    BY <2>1 DEF PresenceInv, PresenceTypes, Joins, Unknown, Spared, Ping
  <2>4. ASSUME NEW e \in room' PROVE Alive(e)'
    BY <1>0, <2>1 DEF PresenceInv, PresenceTypes, Spared, Alive, Period, Handler, Ping
  <2> QED
    BY <2>2, <2>3, <2>4 DEF PresenceInv
<1>5. ASSUME NEW c \in Conn, LoseHeartbeat(c) PROVE PresenceInv'
  <2>1. PresenceTypes'
    BY <1>0, <1>5 DEF PresenceInv, PresenceTypes, LoseHeartbeat, Handler
  <2>2. ASSUME NEW e \in Conn PROVE Joins(e)'
    BY <1>0, <1>5 DEF PresenceInv, PresenceTypes, Joins, Unknown, Spared, Handler, LoseHeartbeat
  <2>3. ASSUME NEW e \in room' PROVE Alive(e)'
    BY <1>0, <1>5 DEF PresenceInv, PresenceTypes, Joins, Unknown, Spared, Alive, Period, Handler, LoseHeartbeat
  <2> QED
    BY <2>1, <2>2, <2>3 DEF PresenceInv
<1>6. ASSUME NEW c \in Conn, Touch(c) PROVE PresenceInv'
  <2>1. PresenceTypes'
    BY <1>0, <1>6 DEF PresenceInv, PresenceTypes, Touch, Write, Handler
  <2>2. ASSUME NEW e \in Conn PROVE Joins(e)'
    BY <1>0, <1>6 DEF PresenceInv, PresenceTypes, Joins, Unknown, Spared, Handler, Touch, Write
  <2>3. ASSUME NEW e \in room' PROVE Alive(e)'
    BY <1>0, <1>6 DEF PresenceInv, PresenceTypes, Joins, Unknown, Spared, Alive, Period, Handler, Touch, Write
  <2> QED
    BY <2>1, <2>2, <2>3 DEF PresenceInv
<1>7. ASSUME NEW c \in Conn, LeaveEntry(c) PROVE PresenceInv'
  <2>1. PresenceTypes'
    BY <1>0, <1>7 DEF PresenceInv, PresenceTypes, LeaveEntry, Handler
  <2>2. ASSUME NEW e \in Conn PROVE Joins(e)'
    BY <1>0, <1>7 DEF PresenceInv, PresenceTypes, Joins, Unknown, Spared, Handler, LeaveEntry
  <2>3. ASSUME NEW e \in room' PROVE Alive(e)'
    BY <1>0, <1>7 DEF PresenceInv, PresenceTypes, Joins, Unknown, Spared, Alive, Period, Handler, LeaveEntry
  <2> QED
    BY <2>1, <2>2, <2>3 DEF PresenceInv
<1>8. ASSUME NEW c \in Conn, Answer(c) PROVE PresenceInv'
  <2>1. PICK g \in {Read(call[c]), Idle} :
          /\ RosterStep(call[c], g)
          /\ call' = [call EXCEPT ![c] = g]
          /\ UNCHANGED <<config, sock, room, next, missed, bye>>
    BY <1>8 DEF Answer
  <2>2. call[c] \in Handler
    BY DEF PresenceInv, PresenceTypes
  <2>3. /\ call[c].at \in {"read", "sweep"} /\ g \in Handler /\ g.at \in {"sweep", "idle"}
        /\ hash' \in [Conn -> Nat \union {None}]
        /\ \A e \in Conn : hash'[e] \in {None, hash[e]}
        /\ \A e \in Conn : e \notin call[c].expired => hash'[e] = hash[e]
        /\ \A e \in Conn : e \in g.expired => hash[e] # None /\ hash[e] > config.ttl
    BY <2>1, <2>2, RosterSpares
  <2>4. PresenceTypes'
    BY <2>1, <2>3 DEF PresenceInv, PresenceTypes
  <2>5. ASSUME NEW e \in Conn, Joins(e) PROVE Joins(e)'
    BY <2>1, <2>3, <2>5 DEF PresenceInv, PresenceTypes, Joins, Unknown, Spared
  <2>6. ASSUME NEW e \in room, Alive(e) PROVE Alive(e)'
    <3>1. e \in Conn /\ e \notin call[c].expired /\ hash'[e] = hash[e]
      BY <2>3, <2>6 DEF PresenceInv, PresenceTypes, Alive, Spared
    <3>2. e \notin g.expired
      BY <1>0, <2>3, <2>6, <3>1 DEF PresenceInv, PresenceTypes, Alive, Period, Handler
    <3> QED
      BY <2>1, <2>3, <2>6, <3>1, <3>2 DEF PresenceInv, PresenceTypes, Alive, Period, Spared
  <2> QED
    BY <2>1, <2>4, <2>5, <2>6 DEF PresenceInv
<1>9. ASSUME NEW c \in Conn, CleanUp(c) PROVE PresenceInv'
  <2>1. PICK g \in {Read(bye[c]), Idle} :
          /\ RosterStep(bye[c], g)
          /\ bye' = [bye EXCEPT ![c] = g]
          /\ UNCHANGED <<config, sock, room, next, missed, call>>
    BY <1>9 DEF CleanUp
  <2>2. bye[c] \in Handler
    BY DEF PresenceInv, PresenceTypes
  <2>3. /\ bye[c].at \in {"read", "sweep"} /\ g \in Handler /\ g.at \in {"sweep", "idle"}
        /\ hash' \in [Conn -> Nat \union {None}]
        /\ \A e \in Conn : hash'[e] \in {None, hash[e]}
        /\ \A e \in Conn : e \notin bye[c].expired => hash'[e] = hash[e]
        /\ \A e \in Conn : e \in g.expired => hash[e] # None /\ hash[e] > config.ttl
    BY <2>1, <2>2, RosterSpares
  <2>4. PresenceTypes'
    BY <2>1, <2>3 DEF PresenceInv, PresenceTypes
  <2>5. ASSUME NEW e \in Conn, Joins(e) PROVE Joins(e)'
    BY <2>1, <2>3, <2>5 DEF PresenceInv, PresenceTypes, Joins, Unknown, Spared
  <2>6. ASSUME NEW e \in room, Alive(e) PROVE Alive(e)'
    <3>1. e \in Conn /\ e \notin bye[c].expired /\ hash'[e] = hash[e]
      BY <2>3, <2>6 DEF PresenceInv, PresenceTypes, Alive, Spared
    <3>2. e \notin g.expired
      BY <1>0, <2>3, <2>6, <3>1 DEF PresenceInv, PresenceTypes, Alive, Period, Handler
    <3> QED
      BY <2>1, <2>3, <2>6, <3>1, <3>2 DEF PresenceInv, PresenceTypes, Alive, Period, Spared
  <2> QED
    BY <2>1, <2>4, <2>5, <2>6 DEF PresenceInv
<1>10. ASSUME NEW c \in Conn, BoardLeave(c) \/ Disconnect(c) PROVE PresenceInv'
  <2>1. PresenceTypes'
    <3>1. CASE BoardLeave(c)
      BY <3>1 DEF PresenceInv, PresenceTypes, BoardLeave
    <3>2. CASE Disconnect(c)
      BY <3>2 DEF PresenceInv, PresenceTypes, Disconnect
    <3> QED
      BY <1>10, <3>1, <3>2
  <2>2. ASSUME NEW e \in Conn PROVE Joins(e)'
    <3>1. CASE BoardLeave(c)
      BY <1>0, <3>1 DEF PresenceInv, PresenceTypes, Joins, Unknown, Spared, Handler, Alive, BoardLeave
    <3>2. CASE Disconnect(c)
      BY <1>0, <3>2 DEF PresenceInv, PresenceTypes, Joins, Unknown, Spared, Handler, Alive, Disconnect
    <3> QED
      BY <1>10, <3>1, <3>2
  <2>3. ASSUME NEW e \in room' PROVE Alive(e)'
    <3>1. CASE BoardLeave(c)
      BY <1>0, <3>1 DEF PresenceInv, PresenceTypes, Spared, Alive, Period, Handler, BoardLeave
    <3>2. CASE Disconnect(c)
      BY <1>0, <3>2 DEF PresenceInv, PresenceTypes, Spared, Alive, Period, Handler, Disconnect
    <3> QED
      BY <1>10, <3>1, <3>2
  <2> QED
    BY <2>1, <2>2, <2>3 DEF PresenceInv
<1>11. ASSUME NEW c \in Conn, Exit(c) PROVE PresenceInv'
  <2>1. PresenceTypes'
    BY <1>0, <1>11 DEF PresenceInv, PresenceTypes, Exit, Handler
  <2>2. ASSUME NEW e \in Conn PROVE Joins(e)'
    BY <1>0, <1>11 DEF PresenceInv, PresenceTypes, Joins, Unknown, Spared, Handler, Exit
  <2>3. ASSUME NEW e \in room' PROVE Alive(e)'
    BY <1>0, <1>11 DEF PresenceInv, PresenceTypes, Joins, Unknown, Spared, Alive, Period, Handler, Exit
  <2> QED
    BY <2>1, <2>2, <2>3 DEF PresenceInv
<1>12. CASE Tick
  <2>1. PresenceTypes'
    <3>1. hash' \in [Conn -> Nat \union {None}]
      BY <1>12 DEF PresenceInv, PresenceTypes, Tick, Older
    <3>2. next' \in [Conn -> Nat]
      BY <1>12 DEF PresenceInv, PresenceTypes, Tick
    <3>3. call' \in [Conn -> Handler]
      <4>1. ASSUME NEW h \in Handler PROVE [h EXCEPT !.stamp = @ + 1] \in Handler
        BY DEF Handler
      <4> QED
        BY <1>12, <4>1 DEF PresenceInv, PresenceTypes, Tick
    <3> QED
      BY <1>12, <3>1, <3>2, <3>3 DEF PresenceInv, PresenceTypes, Tick
  <2>2. ASSUME NEW e \in Conn PROVE Joins(e)'
    BY <1>0, <1>12 DEF PresenceInv, PresenceTypes, Joins, Unknown, Spared, Handler, Tick, Older
  <2>3. ASSUME NEW e \in room' PROVE Alive(e)'
    BY <1>0, <1>12 DEF PresenceInv, PresenceTypes, Joins, Unknown, Spared, Alive, Period, Handler, Tick, Older
  <2> QED
    BY <2>1, <2>2, <2>3 DEF PresenceInv
<1>13. CASE KeyExpires
  <2>1. PresenceTypes'
    BY <1>0, <1>13 DEF PresenceInv, PresenceTypes, KeyExpires, Handler
  <2>2. ASSUME NEW e \in Conn PROVE Joins(e)'
    BY <1>0, <1>13 DEF PresenceInv, PresenceTypes, Joins, Unknown, Spared, Handler, KeyExpires
  <2>3. ASSUME NEW e \in room' PROVE Alive(e)'
    BY <1>0, <1>13 DEF PresenceInv, PresenceTypes, Joins, Unknown, Spared, Alive, Period, Handler, KeyExpires
  <2> QED
    BY <2>1, <2>2, <2>3 DEF PresenceInv
<1>14. CASE UNCHANGED presenceVars
  <2>1. PresenceTypes'
    BY <1>0, <1>14 DEF PresenceInv, PresenceTypes, presenceVars, Handler
  <2>2. ASSUME NEW e \in Conn PROVE Joins(e)'
    BY <1>0, <1>14 DEF PresenceInv, PresenceTypes, Joins, Unknown, Spared, Handler, presenceVars
  <2>3. ASSUME NEW e \in room' PROVE Alive(e)'
    BY <1>0, <1>14 DEF PresenceInv, PresenceTypes, Joins, Unknown, Spared, Alive, Period, Handler, presenceVars
  <2> QED
    BY <2>1, <2>2, <2>3 DEF PresenceInv
<1> QED
  BY <1>1, <1>2, <1>3, <1>4, <1>5, <1>6, <1>7,
     <1>8, <1>9, <1>10, <1>11, <1>12, <1>13, <1>14 DEF PresenceNext

(* One lost heartbeat, and one as late as it may be, leave the entry of a  *)
(* connection where every roster counts it: presence/src/index.ts, for all *)
(* settings that assertConfig accepts and any number of connections.       *)
THEOREM HeartbeatKeeps == PresenceSpec => []OneLostHeartbeatKeepsYou
<1>1. PresenceInit => PresenceInv
  BY SettingsAssumption
  DEF PresenceInit, PresenceInv, PresenceTypes, Joins, Handler, Alive, Unknown, Spared, Period, Idle
<1>2. PresenceInv => OneLostHeartbeatKeepsYou
  <2> SUFFICES ASSUME PresenceInv, NEW c \in Conn, c \in room, call[c].at # "touch"
               PROVE  hash[c] # None /\ hash[c] <= config.ttl
    BY DEF OneLostHeartbeatKeepsYou
  <2>1. /\ config.heartbeat \in Nat /\ config.ttl \in Nat
        /\ config.heartbeat * 2 <= config.ttl
    BY SettingsAssumption DEF PresenceInv, PresenceTypes, AssertConfig
  <2> QED
    BY <2>1 DEF PresenceInv, PresenceTypes, Alive, Period
<1> QED
  BY <1>1, <1>2, PresenceStep, PTL DEF PresenceSpec

-----------------------------------------------------------------------------
(* Calendar.  The leaves name SMT where the numerals are large: Zenon, the *)
(* prover tried next, counts them in ones.                                 *)

(* The lengths of the months, one by one.                                  *)
LEMMA MonthLengths ==
  ASSUME NEW y \in Int, NEW m \in 1 .. 12
  PROVE  DaysInMonth(y, m) = IF m = 2 THEN IF LeapYear(y) THEN 29 ELSE 28
                             ELSE IF m \in {4, 6, 9, 11} THEN 30 ELSE 31
<1> DEFINE Length == <<31, 28, 31, 30, 31, 30, 31, 31, 30, 31, 30, 31>>
<1>1. /\ Length[1] = 31 /\ Length[2] = 28 /\ Length[3] = 31 /\ Length[4] = 30
      /\ Length[5] = 31 /\ Length[6] = 30 /\ Length[7] = 31 /\ Length[8] = 31
      /\ Length[9] = 30 /\ Length[10] = 31 /\ Length[11] = 30 /\ Length[12] = 31
  OBVIOUS
<1>2. m = 1 \/ m = 2 \/ m = 3 \/ m = 4 \/ m = 5 \/ m = 6 \/ m = 7 \/ m = 8 \/ m = 9
        \/ m = 10 \/ m = 11 \/ m = 12
  OBVIOUS
<1>3. DaysInMonth(y, m) = IF m = 2 /\ LeapYear(y) THEN 29 ELSE Length[m]
  BY DEF DaysInMonth
<1> HIDE DEF Length
<1> QED
  BY <1>1, <1>2, <1>3

(* A day number splits in one way into its era of 400 years and its place  *)
(* in the era.                                                             *)
LEMMA EraSplit ==
  ASSUME NEW q \in Int, NEW e \in Int, 0 <= e, e < 146097,
         NEW z \in Int, z = 146097 * q + e
  PROVE  z \div 146097 = q /\ z % 146097 = e
BY SMT

(* The year of the era is found back from a day of it, leap days included. *)
LEMMA YearOfEra ==
  ASSUME NEW yoe \in Int, 0 <= yoe, yoe < 400, NEW doy \in Int, 0 <= doy, doy < 366,
         doy = 365 => (yoe + 1) % 4 = 0 /\ ((yoe + 1) % 100 # 0 \/ yoe = 399),
         NEW e \in Int, e = yoe * 365 + yoe \div 4 - yoe \div 100 + doy
  PROVE  /\ 0 <= e /\ e < 146097
         /\ (e - e \div 1460 + e \div 36524 - e \div 146096) \div 365 = yoe
<1>1. 0 <= e /\ e < 146097
  BY SMT
<1>2. (e - e \div 1460 + e \div 36524 - e \div 146096) \div 365 = yoe
  BY <1>1, SMTT(60)
<1> QED
  BY <1>1, <1>2, SMT

(* The month is found back from a day of the year that starts in March,    *)
(* and only 29 February is its last one.                                   *)
LEMMA DayOfYear ==
  ASSUME NEW y \in Int, NEW m \in 1 .. 12, NEW d \in 1 .. DaysInMonth(y, m),
         NEW mp \in Int, mp = IF m > 2 THEN m - 3 ELSE m + 9,
         NEW doy \in Int, doy = (153 * mp + 2) \div 5 + d - 1
  PROVE  /\ 0 <= doy /\ doy < 366 /\ 0 <= mp /\ mp < 12
         /\ doy = 365 => m = 2 /\ LeapYear(y)
         /\ (5 * doy + 2) \div 153 = mp
<1>1. /\ d \in Int /\ 1 <= d
      /\ d <= IF m = 2 THEN IF LeapYear(y) THEN 29 ELSE 28
              ELSE IF m \in {4, 6, 9, 11} THEN 30 ELSE 31
  BY MonthLengths
<1> QED
  BY <1>1, SMTT(30)

(* The number of a day, taken apart, is the day.                           *)
LEMMA CivilOfDate ==
  ASSUME NEW y \in Int, NEW m \in 1 .. 12, NEW d \in 1 .. DaysInMonth(y, m)
  PROVE  /\ DayNumber(y, m, d) \in Int
         /\ Civil(DayNumber(y, m, d)) = <<y, m, d>>
<1> DEFINE yy == IF m <= 2 THEN y - 1 ELSE y
           q == yy \div 400
           yoe == yy % 400
           mp == IF m > 2 THEN m - 3 ELSE m + 9
           doy == (153 * mp + 2) \div 5 + d - 1
           doe == yoe * 365 + yoe \div 4 - yoe \div 100 + doy
           n == DayNumber(y, m, d)
           z == n + 719468
<1>1. /\ yy \in Int /\ q \in Int /\ yoe \in Int /\ 0 <= yoe /\ yoe < 400
      /\ yy = 400 * q + yoe
  BY SMT
<1>2. mp \in Int /\ d \in Int /\ doy \in Int
  BY MonthLengths, SMT
<1>3. /\ 0 <= doy /\ doy < 366 /\ 0 <= mp /\ mp < 12
      /\ doy = 365 => m = 2 /\ LeapYear(y)
      /\ (5 * doy + 2) \div 153 = mp
  <2> HIDE DEF doy, mp
  <2>1. mp = IF m > 2 THEN m - 3 ELSE m + 9
    BY SMT DEF mp
  <2>2. doy = (153 * mp + 2) \div 5 + d - 1
    BY SMT DEF doy
  <2> QED
    BY <1>2, <2>1, <2>2, DayOfYear, SMT
<1>4. n \in Int /\ z \in Int /\ z = 146097 * q + doe
  BY <1>1, <1>2, SMT DEF DayNumber
<1>5. doy = 365 => (yoe + 1) % 4 = 0 /\ ((yoe + 1) % 100 # 0 \/ yoe = 399)
  <2> SUFFICES ASSUME doy = 365
               PROVE  (yoe + 1) % 4 = 0 /\ ((yoe + 1) % 100 # 0 \/ yoe = 399)
    BY SMT
  <2>1. y = 400 * q + yoe + 1 /\ LeapYear(y)
    <3>1. m = 2 /\ LeapYear(y)
      BY <1>3, SMT
    <3>2. yy = y - 1
      BY <3>1, SMT
    <3> HIDE DEF yy, yoe, q
    <3> QED
      BY <1>1, <3>1, <3>2, SMT
  <2> HIDE DEF yy, yoe, q
  <2> QED
    BY <1>1, <2>1, SMTT(30) DEF LeapYear
<1>6. doe \in Int
  BY <1>1, <1>2, SMT
<1> HIDE DEF yy, q, yoe, doy, mp
<1>7. /\ 0 <= doe /\ doe < 146097
      /\ (doe - doe \div 1460 + doe \div 36524 - doe \div 146096) \div 365 = yoe
  <2>1. doe = yoe * 365 + yoe \div 4 - yoe \div 100 + doy
    BY SMT
  <2> HIDE DEF doe
  <2> QED
    BY <1>1, <1>2, <1>3, <1>5, <1>6, <2>1, YearOfEra, SMT
<1>8. doe - (365 * yoe + yoe \div 4 - yoe \div 100) = doy
  BY <1>1, <1>2, SMT
<1> HIDE DEF doe, z
<1>9. z \div 146097 = q /\ z % 146097 = doe
  BY <1>1, <1>4, <1>6, <1>7, EraSplit, SMT
<1> HIDE DEF n
<1>10. z = n + 719468
  BY SMT DEF z
<1>11. (IF mp < 10 THEN mp + 3 ELSE mp - 9) = m
  BY SMT DEF mp
<1>12. doy - (153 * mp + 2) \div 5 + 1 = d
  <2>1. doy = (153 * mp + 2) \div 5 + d - 1
    BY SMT DEF doy
  <2> QED
    BY <1>2, <2>1, SMT
<1>13. q * 400 + yoe + (IF m <= 2 THEN 1 ELSE 0) = y
  <2>1. yy = IF m <= 2 THEN y - 1 ELSE y
    BY SMT DEF yy
  <2> QED
    BY <1>1, <2>1, SMT
<1>14. Civil(n) = <<q * 400 + yoe + (IF m <= 2 THEN 1 ELSE 0), m, d>>
  <2> DEFINE Zz == n + 719468
             E == Zz % 146097
             Y == (E - E \div 1460 + E \div 36524 - E \div 146096) \div 365
             O == E - (365 * Y + Y \div 4 - Y \div 100)
             P == (5 * O + 2) \div 153
             M == IF P < 10 THEN P + 3 ELSE P - 9
  <2>1. Civil(n) = <<(Zz \div 146097) * 400 + Y + (IF M <= 2 THEN 1 ELSE 0), M,
                     O - (153 * P + 2) \div 5 + 1>>
    BY SMT DEF Civil
  <2>2. E = doe /\ Zz \div 146097 = q
    BY <1>9, <1>10, SMT
  <2>3. Y = yoe
    BY <2>2, <1>7, SMT
  <2>4. O = doy
    BY <2>2, <2>3, <1>8, SMT
  <2>5. P = mp
    BY <2>4, <1>3, SMT
  <2>6. M = m
    BY <2>5, <1>11, SMT
  <2> HIDE DEF Zz, E, Y, O, P, M
  <2> QED
    BY <2>1, <2>2, <2>3, <2>4, <2>5, <2>6, <1>12, SMT
<1> QED
  BY <1>4, <1>13, <1>14, SMT DEF n

(* Every day of an era is a day of one of its years.                       *)
LEMMA YearOfDay ==
  ASSUME NEW e \in Int, 0 <= e, e < 146097,
         NEW yoe \in Int, yoe = (e - e \div 1460 + e \div 36524 - e \div 146096) \div 365,
         NEW doy \in Int, doy = e - (365 * yoe + yoe \div 4 - yoe \div 100)
  PROVE  /\ 0 <= yoe /\ yoe < 400 /\ 0 <= doy /\ doy < 366
         /\ doy = 365 => (yoe + 1) % 4 = 0 /\ ((yoe + 1) % 100 # 0 \/ yoe = 399)
<1>1. 0 <= yoe /\ yoe < 400
  BY SMTT(60)
<1>2. 0 <= doy /\ doy < 366
  BY <1>1, SMTT(60)
<1>3. doy = 365 => (yoe + 1) % 4 = 0 /\ ((yoe + 1) % 100 # 0 \/ yoe = 399)
  BY <1>1, SMTT(60)
<1> QED
  BY <1>1, <1>2, <1>3, SMT

(* Every number is that of a day that exists.                              *)
LEMMA DateOfCivil ==
  ASSUME NEW n \in Int
  PROVE  \E y \in Int, m \in 1 .. 12 : \E d \in 1 .. DaysInMonth(y, m) :
           Civil(n) = <<y, m, d>> /\ DayNumber(y, m, d) = n
<1> DEFINE z == n + 719468
           q == z \div 146097
           e == z % 146097
           yoe == (e - e \div 1460 + e \div 36524 - e \div 146096) \div 365
           doy == e - (365 * yoe + yoe \div 4 - yoe \div 100)
           mp == (5 * doy + 2) \div 153
           m == IF mp < 10 THEN mp + 3 ELSE mp - 9
           d == doy - (153 * mp + 2) \div 5 + 1
           y == q * 400 + yoe + (IF m <= 2 THEN 1 ELSE 0)
<1>1. z \in Int /\ q \in Int /\ e \in Int /\ 0 <= e /\ e < 146097 /\ n = 146097 * q + e - 719468
  BY SMT
<1>2. Civil(n) = <<y, m, d>>
  BY SMT DEF Civil
<1> HIDE DEF z, q, e
<1>3. /\ yoe \in Int /\ doy \in Int
      /\ yoe = (e - e \div 1460 + e \div 36524 - e \div 146096) \div 365
      /\ doy = e - (365 * yoe + yoe \div 4 - yoe \div 100)
  BY <1>1, SMT
<1> HIDE DEF yoe, doy
<1>4. /\ 0 <= yoe /\ yoe < 400 /\ 0 <= doy /\ doy < 366
      /\ doy = 365 => (yoe + 1) % 4 = 0 /\ ((yoe + 1) % 100 # 0 \/ yoe = 399)
  BY <1>1, <1>3, YearOfDay, SMT
<1>5. /\ mp \in Int /\ 0 <= mp /\ mp < 12 /\ d \in Int /\ y \in Int /\ m \in 1 .. 12
      /\ mp = IF m > 2 THEN m - 3 ELSE m + 9
  BY <1>1, <1>3, <1>4, SMT
<1>6. (IF m <= 2 THEN y - 1 ELSE y) = 400 * q + yoe
  BY <1>1, <1>3, <1>5, SMT
<1>7. m = 2 => y = 400 * q + yoe + 1
  <2>1. q \in Int /\ yoe \in Int /\ y \in Int
    BY <1>1, <1>3, <1>5
  <2> HIDE DEF y, m, mp, d
  <2> QED
    BY <1>6, <2>1, SMT
<1>8. doy = 365 => m = 2
  <2>1. (5 * 365 + 2) \div 153 = 11
    BY SMT
  <2>2. doy = 365 => mp = 11
    BY <2>1
  <2> HIDE DEF mp
  <2> QED
    BY <2>2, SMT
<1>9. /\ 1 <= d
      /\ d <= IF m = 2 THEN IF doy = 365 THEN 29 ELSE 28
              ELSE IF m \in {4, 6, 9, 11} THEN 30 ELSE 31
  <2>1. 153 * mp <= 5 * doy + 2 /\ 5 * doy + 2 < 153 * mp + 153
    BY <1>3, SMT
  <2>2. /\ mp = 0 \/ mp = 1 \/ mp = 2 \/ mp = 3 \/ mp = 4 \/ mp = 5 \/ mp = 6 \/ mp = 7
           \/ mp = 8 \/ mp = 9 \/ mp = 10 \/ mp = 11
        /\ m = IF mp < 10 THEN mp + 3 ELSE mp - 9
        /\ d = doy - (153 * mp + 2) \div 5 + 1
    BY <1>5, SMT
  <2> HIDE DEF d, m, mp
  <2> QED
    BY <1>3, <1>4, <2>1, <2>2, SMTT(30)
<1>10. doy = 365 => LeapYear(y)
  <2> HIDE DEF m, y
  <2> QED
    BY <1>1, <1>3, <1>4, <1>5, <1>7, <1>8, SMTT(30) DEF LeapYear
<1>11. d \in 1 .. DaysInMonth(y, m)
  <2>1. DaysInMonth(y, m) = IF m = 2 THEN IF LeapYear(y) THEN 29 ELSE 28
                             ELSE IF m \in {4, 6, 9, 11} THEN 30 ELSE 31
    BY <1>5, MonthLengths, SMT
  <2> HIDE DEF m, y, d
  <2> QED
    BY <1>5, <1>9, <1>10, <2>1, SMT
<1>12. DayNumber(y, m, d) = n
  <2>1. d = doy - (153 * mp + 2) \div 5 + 1
    BY SMT
  <2> DEFINE yy == IF m <= 2 THEN y - 1 ELSE y
  <2>2. yy \div 400 = q /\ yy % 400 = yoe
    <3>1. yy = 400 * q + yoe
      BY <1>6, SMT
    <3> HIDE DEF yy
    <3> QED
      BY <1>1, <1>3, <1>4, <3>1, SMT
  <2>3. mp = IF m > 2 THEN m - 3 ELSE m + 9
    BY <1>5, SMT
  <2> HIDE DEF y, m, d, mp, yy
  <2>4. (153 * (IF m > 2 THEN m - 3 ELSE m + 9) + 2) \div 5 + d - 1 = doy
    BY <1>3, <1>5, <2>1, <2>3, SMT
  <2>5. DayNumber(y, m, d) = q * 146097 + yoe * 365 + yoe \div 4 - yoe \div 100 + doy - 719468
    BY <2>2, <2>4, SMT DEF DayNumber, yy
  <2> QED
    BY <1>1, <1>3, <2>5, SMT
<1> HIDE DEF y, m, d
<1> QED
  BY <1>2, <1>5, <1>11, <1>12

(* Of two days, the earlier one has the smaller epoch day.                 *)
LEMMA EpochOrder ==
  ASSUME NEW y \in Int, NEW m \in 1 .. 12, NEW d \in 1 .. DaysInMonth(y, m),
         NEW z \in Int, NEW k \in 1 .. 12, NEW e \in 1 .. DaysInMonth(z, k),
         y < z \/ (y = z /\ (m < k \/ (m = k /\ d < e)))
  PROVE  DayNumber(y, m, d) < DayNumber(z, k, e)
<1>1. /\ d \in Int /\ 1 <= d /\ d <= 31 /\ (m = 2 => d <= 29)
      /\ d <= IF m = 2 THEN IF LeapYear(y) THEN 29 ELSE 28
              ELSE IF m \in {4, 6, 9, 11} THEN 30 ELSE 31
  BY MonthLengths, SMT
<1>2. e \in Int /\ 1 <= e /\ e <= 31
  BY MonthLengths, SMT
<1> QED
  BY <1>1, <1>2, SMTT(60) DEF DayNumber, LeapYear

(* The days that exist, and the number of each.                            *)
EpochDay(t) == DayNumber(t[1], t[2], t[3])

Day == {t \in Int \X Int \X Int : Exists(t)}

(* Days that exist: their numbers lose nothing.                            *)
LEMMA DayAndDate ==
  ASSUME NEW t \in Day
  PROVE  /\ t[1] \in Int /\ t[2] \in 1 .. 12 /\ t[3] \in 1 .. DaysInMonth(t[1], t[2])
         /\ t = <<t[1], t[2], t[3]>>
         /\ EpochDay(t) \in Int
         /\ Civil(EpochDay(t)) = t
<1>1. /\ t[1] \in Int /\ t[2] \in 1 .. 12 /\ t[3] \in 1 .. DaysInMonth(t[1], t[2])
      /\ t = <<t[1], t[2], t[3]>>
  BY SMT DEF Day, Exists
<1>2. /\ DayNumber(t[1], t[2], t[3]) \in Int
      /\ Civil(DayNumber(t[1], t[2], t[3])) = <<t[1], t[2], t[3]>>
  BY <1>1, CivilOfDate, SMT
<1> QED
  BY <1>1, <1>2, SMT DEF EpochDay

(* What a number is taken apart into exists, and has that number.          *)
LEMMA DateAndDay ==
  ASSUME NEW n \in Int
  PROVE  Civil(n) \in Day /\ EpochDay(Civil(n)) = n
<1>1. PICK y \in Int, m \in 1 .. 12 : \E d \in 1 .. DaysInMonth(y, m) :
        Civil(n) = <<y, m, d>> /\ DayNumber(y, m, d) = n
  BY DateOfCivil, SMT
<1>2. PICK d \in 1 .. DaysInMonth(y, m) : Civil(n) = <<y, m, d>> /\ DayNumber(y, m, d) = n
  BY <1>1, SMT
<1>3. d \in Int
  BY <1>2, MonthLengths, SMT
<1> QED
  BY <1>1, <1>2, <1>3, SMT DEF Day, Exists, EpochDay

(* Midnight UTC, read in UTC, is the same day.                             *)
LEMMA FromUtc ==
  ASSUME NEW n \in Int
  PROVE  FromUtcDate(n) = Civil(n)
<1>1. (24 * n + 0) \div 24 = n
  BY SMT
<1> QED
  BY <1>1, SMT DEF FromUtcDate, DayAt

(* The order of days is the order of their epoch days.                     *)
LEMMA OrderOfDays ==
  ASSUME NEW t \in Day, NEW e \in Day
  PROVE  /\ Earlier(t, e) <=> EpochDay(t) < EpochDay(e)
         /\ t = e <=> EpochDay(t) = EpochDay(e)
<1>1. /\ t[1] \in Int /\ t[2] \in 1 .. 12 /\ t[3] \in 1 .. DaysInMonth(t[1], t[2])
      /\ t = <<t[1], t[2], t[3]>> /\ EpochDay(t) \in Int /\ Civil(EpochDay(t)) = t
  BY DayAndDate
<1>2. /\ e[1] \in Int /\ e[2] \in 1 .. 12 /\ e[3] \in 1 .. DaysInMonth(e[1], e[2])
      /\ e = <<e[1], e[2], e[3]>> /\ EpochDay(e) \in Int /\ Civil(EpochDay(e)) = e
  BY DayAndDate
<1>3. Earlier(t, e) => EpochDay(t) < EpochDay(e)
  BY <1>1, <1>2, EpochOrder, SMT DEF Earlier, EpochDay
<1>4. Earlier(e, t) => EpochDay(e) < EpochDay(t)
  BY <1>1, <1>2, EpochOrder, SMT DEF Earlier, EpochDay
<1>5. Earlier(t, e) \/ t = e \/ Earlier(e, t)
  <2>1. t[3] \in Int /\ e[3] \in Int
    BY <1>1, <1>2, MonthLengths, SMT
  <2> QED
    BY <1>1, <1>2, <2>1, SMT DEF Earlier
<1> QED
  BY <1>1, <1>2, <1>3, <1>4, <1>5, SMT

(* The first of a month comes after the last of the one before, February   *)
(* included.                                                               *)
LEMMA NextMonth ==
  ASSUME NEW y \in Int, NEW m \in 1 .. 12, m < 12
  PROVE  DayNumber(y, m + 1, 1) = DayNumber(y, m, DaysInMonth(y, m)) + 1
<1>1. CASE m = 2
  <2> DEFINE last == IF LeapYear(y) THEN 29 ELSE 28
  <2>1. DaysInMonth(y, 2) = last
    BY MonthLengths, SMT
  <2>2. DayNumber(y, 3, 1) = (y \div 400) * 146097 + (y % 400) * 365 + (y % 400) \div 4
                             - (y % 400) \div 100 - 719468
    BY SMT DEF DayNumber
  <2>3. DayNumber(y, 2, last) = ((y - 1) \div 400) * 146097 + ((y - 1) % 400) * 365
          + ((y - 1) % 400) \div 4 - ((y - 1) % 400) \div 100 + 336 + last - 719468
    BY SMT DEF DayNumber
  <2>4. last = 29 <=> LeapYear(y)
    BY SMT
  <2>5. last = 28 \/ last = 29
    BY SMT
  <2> HIDE DEF last
  <2>6. CASE y % 400 = 0
    <3>1. /\ (y - 1) \div 400 = y \div 400 - 1 /\ (y - 1) % 400 = 399 /\ LeapYear(y)
          /\ y \div 400 \in Int
      BY <2>6, SMT DEF LeapYear
    <3> QED
      BY <1>1, <2>1, <2>2, <2>3, <2>4, <2>6, <3>1, SMT
  <2>7. CASE y % 400 # 0
    <3> DEFINE e == y % 400
    <3>1. /\ (y - 1) \div 400 = y \div 400 /\ (y - 1) % 400 = e - 1
          /\ e \in Int /\ 0 < e /\ e < 400 /\ y \div 400 \in Int
      BY <2>7, SMT
    <3>2. LeapYear(y) <=> (e % 4 = 0 /\ e % 100 # 0)
      BY <2>7, SMT DEF LeapYear
    <3> HIDE DEF e
    <3>3. e \div 4 - (e - 1) \div 4 = IF e % 4 = 0 THEN 1 ELSE 0
      BY <3>1, SMT
    <3>4. e \div 100 - (e - 1) \div 100 = IF e % 100 = 0 THEN 1 ELSE 0
      BY <3>1, SMT
    <3>5. e % 100 = 0 => e % 4 = 0
      BY <3>1, SMT
    <3>6. DayNumber(y, 3, 1) = (y \div 400) * 146097 + e * 365 + e \div 4 - e \div 100 - 719468
      BY <2>2, SMT DEF e
    <3>7. DayNumber(y, 2, last) = (y \div 400) * 146097 + (e - 1) * 365
            + (e - 1) \div 4 - (e - 1) \div 100 + 336 + last - 719468
      BY <2>3, <3>1, SMT
    <3> QED
      BY <1>1, <2>1, <2>4, <2>5, <3>1, <3>2, <3>3, <3>4, <3>5, <3>6, <3>7, SMT
  <2> QED
    BY <2>6, <2>7, SMT
<1>2. CASE m # 2
  <2>1. m = 1 \/ m = 3 \/ m = 4 \/ m = 5 \/ m = 6 \/ m = 7 \/ m = 8 \/ m = 9 \/ m = 10 \/ m = 11
    BY <1>2, SMT
  <2>2. DaysInMonth(y, m) = IF m \in {4, 6, 9, 11} THEN 30 ELSE 31
    BY <1>2, MonthLengths, SMT
  <2> QED
    BY <2>1, <2>2, SMT DEF DayNumber
<1> QED
  BY <1>1, <1>2, SMT

(* The day after, told by the lengths of the months, is the next epoch day. *)
LEMMA NextDay ==
  ASSUME NEW t \in Day, NEW e \in Day
  PROVE  Follows(t, e) <=> EpochDay(e) = EpochDay(t) + 1
<1> DEFINE y == t[1]
           m == t[2]
           d == t[3]
           u == IF d < DaysInMonth(y, m) THEN <<y, m, d + 1>>
                ELSE IF m < 12 THEN <<y, m + 1, 1>> ELSE <<y + 1, 1, 1>>
<1>1. /\ y \in Int /\ m \in 1 .. 12 /\ d \in 1 .. DaysInMonth(y, m)
      /\ t = <<y, m, d>> /\ EpochDay(t) \in Int
  BY DayAndDate
<1>2. /\ e[1] \in Int /\ e[2] \in 1 .. 12 /\ e[3] \in 1 .. DaysInMonth(e[1], e[2])
      /\ e = <<e[1], e[2], e[3]>> /\ EpochDay(e) \in Int
  BY DayAndDate
<1>3. /\ DaysInMonth(y, m) = IF m = 2 THEN IF LeapYear(y) THEN 29 ELSE 28
                             ELSE IF m \in {4, 6, 9, 11} THEN 30 ELSE 31
      /\ d \in Int /\ 1 <= d
  BY <1>1, MonthLengths, SMT
<1>4. u \in Day
  <2>1. CASE d < DaysInMonth(y, m)
    BY <1>1, <1>3, <2>1, SMT DEF Day, Exists
  <2>2. CASE ~(d < DaysInMonth(y, m)) /\ m < 12
    <3>1. m + 1 \in 1 .. 12 /\ 1 \in 1 .. DaysInMonth(y, m + 1)
      BY <1>1, <2>2, MonthLengths, SMT
    <3> QED
      BY <1>1, <2>2, <3>1, SMT DEF Day, Exists
  <2>3. CASE ~(d < DaysInMonth(y, m)) /\ ~(m < 12)
    <3>1. 1 \in 1 .. DaysInMonth(y + 1, 1)
      BY <1>1, MonthLengths, SMT
    <3> QED
      BY <1>1, <2>3, <3>1, SMT DEF Day, Exists
  <2> QED
    BY <2>1, <2>2, <2>3, SMT
<1>5. Follows(t, e) <=> e = u
  BY <1>1, <1>2, <1>3, SMT DEF Follows
<1>6. EpochDay(u) = EpochDay(t) + 1
  <2>1. CASE d < DaysInMonth(y, m)
    BY <1>1, <1>3, <2>1, SMT DEF EpochDay, DayNumber
  <2>2. CASE ~(d < DaysInMonth(y, m)) /\ m < 12
    <3>1. d = DaysInMonth(y, m) /\ u = <<y, m + 1, 1>>
      BY <1>1, <1>3, <2>2, SMT
    <3>2. EpochDay(u) = DayNumber(y, m + 1, 1) /\ EpochDay(t) = DayNumber(y, m, DaysInMonth(y, m))
      <4> HIDE DEF u
      <4> QED
        BY <1>1, <3>1, SMT DEF EpochDay
    <3>3. DayNumber(y, m + 1, 1) = DayNumber(y, m, DaysInMonth(y, m)) + 1
      BY <1>1, <2>2, NextMonth, SMT
    <3> QED
      BY <3>2, <3>3, SMT
  <2>3. CASE ~(d < DaysInMonth(y, m)) /\ ~(m < 12)
    BY <1>1, <1>3, <2>3, SMTT(30) DEF EpochDay, DayNumber
  <2> QED
    BY <2>1, <2>2, <2>3, SMT
<1> HIDE DEF u
<1>7. e = u <=> EpochDay(e) = EpochDay(u)
  BY <1>4, OrderOfDays, SMT
<1> QED
  BY <1>5, <1>6, <1>7, SMT

(* Since the year 100: the days that Date.UTC takes for what they are.     *)
LateDay == {t \in Day : t[1] > 99}

LEMMA DateOfLateDay ==
  ASSUME NEW t \in LateDay
  PROVE  t \in Day /\ ToUtcDate(t) = EpochDay(t)
BY SMT DEF LateDay, Day, ToUtcDate, DateUTC, EpochDay

(* A day whose number is not far below that of 1 January 1970 is one.      *)
LEMMA LateByNumber ==
  ASSUME NEW n \in Int, n >= -100000
  PROVE  Civil(n) \in LateDay /\ EpochDay(Civil(n)) = n
<1> DEFINE first == <<100, 1, 1>>
<1>1. Civil(n) \in Day /\ EpochDay(Civil(n)) = n
  BY DateAndDay
<1>2. first \in Day
  <2>1. 1 \in 1 .. DaysInMonth(100, 1)
    BY MonthLengths, SMT
  <2> QED
    BY <2>1, SMT DEF Day, Exists
<1>3. EpochDay(first) \in Int /\ EpochDay(first) < n
  BY SMT DEF EpochDay, DayNumber
<1> HIDE DEF first
<1>4. ~Earlier(Civil(n), first)
  <2>1. Earlier(Civil(n), first) <=> EpochDay(Civil(n)) < EpochDay(first)
    BY <1>1, <1>2, OrderOfDays
  <2> QED
    BY <1>1, <1>3, <2>1, SMT
<1>5. Civil(n)[1] \in Int
  BY <1>1, DayAndDate
<1> QED
  BY <1>1, <1>4, <1>5, SMT DEF Earlier, LateDay, first

Accepted == {d \in Int \X Int \X Int : IsDay(d)}

(* What a page shows of a day that was accepted: a day since the year 100, *)
(* and the same day if its year was past 99.                               *)
Kept(d) == FromUtcDate(ToUtcDate(d))

LEMMA KeptDay ==
  ASSUME NEW d \in Accepted
  PROVE  /\ ToUtcDate(d) \in Int
         /\ Kept(d) \in LateDay
         /\ d[1] > 99 => Kept(d) = d
<1>1. d \in Day /\ d[1] \in FourDigits
  BY Zenon DEF Accepted, IsDay, Day
<1>2. /\ d[1] \in Int /\ d[2] \in 1 .. 12 /\ d[3] \in 1 .. DaysInMonth(d[1], d[2])
      /\ EpochDay(d) \in Int /\ Civil(EpochDay(d)) = d
  BY <1>1, DayAndDate, Zenon
<1>3. CASE d[1] > 99
  <2>1. d \in LateDay /\ ToUtcDate(d) = EpochDay(d)
    BY <1>1, <1>3, DateOfLateDay DEF LateDay
  <2>2. Kept(d) = d
    BY <1>2, <2>1, FromUtc DEF Kept
  <2> QED
    BY <1>2, <2>1, <2>2
<1>4. CASE ~(d[1] > 99)
  <2>0. d[3] \in Int /\ 1 <= d[3] /\ 0 <= d[1] /\ d[1] <= 99
    <3>1. 0 <= d[1] /\ d[1] <= 99
      <4>1. \A y \in FourDigits : y \in Int /\ 0 <= y
        BY SMTT(30) DEF FourDigits
      <4>2. d[1] \in Int /\ 0 <= d[1]
        BY <1>1, <4>1, Zenon
      <4> QED
        BY <1>4, <4>2, SMT
    <3>2. DaysInMonth(d[1], d[2]) = IF d[2] = 2 THEN IF LeapYear(d[1]) THEN 29 ELSE 28
                                   ELSE IF d[2] \in {4, 6, 9, 11} THEN 30 ELSE 31
      BY <1>2, MonthLengths
    <3>3. DaysInMonth(d[1], d[2]) \in Int
      BY <3>2, SMT
    <3>4. d[3] \in Int /\ 1 <= d[3]
      BY <1>2, <3>3, SMT
    <3> QED
      BY <3>1, <3>4
  <2> DEFINE y == d[1]
             m == d[2]
             e == d[3]
             n == DayNumber(1900 + y, m, e)
  <2>1. y \in Int /\ 0 <= y /\ y <= 99 /\ m \in 1 .. 12 /\ e \in Int /\ 1 <= e
    BY <1>2, <2>0
  <2>2. ToUtcDate(d) = n
    BY <2>1, SMT DEF ToUtcDate, DateUTC
  <2> HIDE DEF y, m, e
  <2>3. n \in Int /\ n >= -100000
    BY <2>1, SMTT(60) DEF DayNumber
  <2> HIDE DEF n
  <2>4. Kept(d) \in LateDay
    BY <2>2, <2>3, FromUtc, LateByNumber DEF Kept
  <2> QED
    BY <1>4, <2>2, <2>3, <2>4
<1> QED
  BY <1>3, <1>4

(* A day, or none.                                                         *)
Perhaps(S) == {{}} \union {{d} : d \in S}

(* The column holds the Date of the day that was accepted, and every page  *)
(* what is kept of the day that was accepted when it got it. No clock says *)
(* a year before 1970.                                                     *)
CalendarInv ==
  /\ begun \in Start /\ clock \in Int /\ begun <= clock
  /\ meant \in Perhaps(Accepted)
  /\ dueOn = {ToUtcDate(d) : d \in meant}
  /\ shown \in [Reader -> [open : BOOLEAN, today : Perhaps(LateDay),
                           day : Perhaps(LateDay), meant : Perhaps(Accepted)]]
  /\ \A r \in Reader : shown[r].day = {Kept(d) : d \in shown[r].meant}

(* What a snapshot or an event says of the card is what is kept of the day *)
(* last accepted.                                                          *)
LEMMA CardDayIsKept ==
  ASSUME CalendarInv
  PROVE  CardDay = {Kept(d) : d \in meant} /\ CardDay \in Perhaps(LateDay)
<1>1. CASE meant = {}
  BY <1>1, SMT DEF CalendarInv, CardDay, Perhaps
<1>2. ASSUME NEW d \in Accepted, meant = {d}
      PROVE  CardDay = {Kept(x) : x \in meant} /\ CardDay \in Perhaps(LateDay)
  <2>1. dueOn = {ToUtcDate(d)}
    BY <1>2, SMT DEF CalendarInv
  <2>2. CardDay = {Kept(d)}
    BY <2>1, SMT DEF CardDay, Kept
  <2>3. Kept(d) \in LateDay
    BY KeptDay
  <2> QED
    BY <1>2, <2>2, <2>3, SMT DEF Perhaps
<1> QED
  BY <1>1, <1>2, SMT DEF CalendarInv, Perhaps

(* What a page holds of the card and of its own day.                       *)
Entry == [open : BOOLEAN, today : Perhaps(LateDay), day : Perhaps(LateDay),
          meant : Perhaps(Accepted)]

(* A page that takes in the card as it is.                                 *)
LEMMA NewEntryKeeps ==
  ASSUME CalendarInv, NEW r \in Reader, shown' \in [Reader -> Entry],
         shown'[r].meant = meant, shown'[r].day = {Kept(d) : d \in meant},
         \A s \in Reader \ {r} : shown'[s] = shown[s], UNCHANGED <<clock, begun, dueOn, meant>>
  PROVE  CalendarInv'
<1>1. ASSUME NEW s \in Reader PROVE shown'[s].day = {Kept(d) : d \in shown'[s].meant}
  BY DEF CalendarInv
<1> QED
  BY <1>1 DEF CalendarInv, Entry

(* Every step keeps what the column and the pages hold.                    *)
LEMMA CalendarStep == CalendarInv /\ [CalendarNext]_calendarVars => CalendarInv'
<1> SUFFICES ASSUME CalendarInv, [CalendarNext]_calendarVars PROVE CalendarInv'
  OBVIOUS
<1> DEFINE kept == {Kept(x) : x \in meant}
<1>1. CardDay = kept /\ CardDay \in Perhaps(LateDay)
  BY CardDayIsKept
<1>2. ASSUME SaveDue PROVE CalendarInv'
  <2>1. PICK in \in Mentions :
          /\ \A d \in in.day : IsDay(d)
          /\ dueOn' = WireDayToUtc(in, dueOn)
          /\ meant' = IF in.mentioned THEN in.day ELSE meant
          /\ UNCHANGED <<clock, begun, server, shown>>
    BY <1>2, SMT DEF SaveDue
  <2>2. CASE in.mentioned /\ in.day = {}
    BY <2>1, <2>2, SMT DEF CalendarInv, WireDayToUtc, Perhaps
  <2>3. CASE in.mentioned /\ in.day # {}
    <3>1. PICK d \in Typed : in.day = {d}
      BY <2>3, SMT DEF Mentions
    <3>2. d \in Accepted
      BY <2>1, <3>1, CalendarAssumption, SMT DEF CalendarAssumption, Accepted
    <3>3. meant' = {d} /\ dueOn' = {ToUtcDate(d)}
      BY <2>1, <2>3, <3>1, SMT DEF WireDayToUtc
    <3> QED
      BY <2>1, <3>2, <3>3, SMT DEF CalendarInv, Perhaps
  <2>4. CASE ~in.mentioned
    BY <2>1, <2>4, SMT DEF CalendarInv, WireDayToUtc
  <2> QED
    BY <2>2, <2>3, <2>4, SMT
<1>3. ASSUME NEW r \in Reader, OpenPage(r) PROVE CalendarInv'
  <2>1. DayAt(clock, ZoneOf[r]) \in LateDay
    <3>1. /\ ZoneOf[r] \in Int /\ begun \in Int /\ clock \in Int /\ begun <= clock
          /\ (begun + ZoneOf[r]) \div 24 >= 0
      BY CalendarAssumption, SMT DEF CalendarAssumption, CalendarInv
    <3>2. (clock + ZoneOf[r]) \div 24 \in Int /\ (clock + ZoneOf[r]) \div 24 >= 0
      BY <3>1, SMT
    <3> QED
      BY <3>2, LateByNumber, SMT DEF DayAt
  <2> DEFINE new == [open |-> TRUE, today |-> {DayAt(clock, ZoneOf[r])}, day |-> CardDay,
                     meant |-> meant]
  <2>2. shown' = [shown EXCEPT ![r] = new] /\ UNCHANGED <<clock, begun, dueOn, meant>>
    BY <1>3 DEF OpenPage
  <2>3. new \in Entry /\ new.day = kept /\ new.meant = meant
    BY <1>1, <2>1, SMT DEF CalendarInv, Perhaps, Entry
  <2> HIDE DEF new
  <2>4. shown \in [Reader -> Entry]
    BY SMT DEF CalendarInv, Entry
  <2>5. shown' \in [Reader -> Entry] /\ shown'[r] = new /\ \A s \in Reader \ {r} : shown'[s] = shown[s]
    BY <2>2, <2>3, <2>4, SMT
  <2> QED
    BY <2>2, <2>3, <2>5, NewEntryKeeps
<1>4. ASSUME NEW r \in Reader, CardArrives(r) PROVE CalendarInv'
  <2> DEFINE half == [shown EXCEPT ![r].day = CardDay]
             new == [half[r] EXCEPT !.meant = meant]
  <2>1. shown' = [half EXCEPT ![r].meant = meant] /\ UNCHANGED <<clock, begun, dueOn, meant>>
    BY <1>4, SMT DEF CardArrives
  <2>2. shown \in [Reader -> Entry] /\ meant \in Perhaps(Accepted)
    BY SMT DEF CalendarInv, Entry
  <2>3. half \in [Reader -> Entry] /\ half[r].day = CardDay /\ \A s \in Reader \ {r} : half[s] = shown[s]
    BY <1>1, <2>2, SMT DEF Entry
  <2> HIDE DEF half
  <2>4. shown' = [half EXCEPT ![r] = new]
    BY <2>1, SMT
  <2>5. new \in Entry /\ new.day = kept /\ new.meant = meant
    BY <1>1, <2>2, <2>3, SMT DEF Entry
  <2> HIDE DEF new
  <2>6. shown' \in [Reader -> Entry] /\ shown'[r] = new /\ \A s \in Reader \ {r} : shown'[s] = shown[s]
    BY <2>3, <2>4, <2>5, SMT
  <2>7. UNCHANGED <<clock, begun, dueOn, meant>>
    BY <2>1
  <2> QED
    BY <2>5, <2>6, <2>7, NewEntryKeeps
<1>5. ASSUME HourPasses PROVE CalendarInv'
  <2>1. clock' \in Int /\ begun <= clock' /\ begun \in Start
    BY <1>5, CalendarAssumption, SMT DEF CalendarAssumption, CalendarInv, HourPasses
  <2>2. UNCHANGED <<begun, dueOn, meant, shown>>
    BY <1>5 DEF HourPasses
  <2> QED
    BY <2>1, <2>2 DEF CalendarInv
<1>6. CASE UNCHANGED calendarVars
  BY <1>6, SMT DEF CalendarInv, calendarVars
<1> QED
  BY <1>2, <1>3, <1>4, <1>5, <1>6, SMT DEF CalendarNext

(* The badge of a day is what the order of the calendar says of it.        *)
LEMMA BadgeIsRight ==
  ASSUME NEW t \in LateDay, NEW d \in LateDay
  PROVE  /\ (DueFor({d}, t) = "overdue")  <=> Earlier(d, t)
         /\ (DueFor({d}, t) = "today")    <=> d = t
         /\ (DueFor({d}, t) = "tomorrow") <=> Follows(t, d)
<1> DEFINE away == DaysBetween(t, d)
<1>1. away = EpochDay(d) - EpochDay(t) /\ EpochDay(d) \in Int /\ EpochDay(t) \in Int
  BY DateOfLateDay, DayAndDate, SMT DEF DaysBetween
<1>9. t \in Day /\ d \in Day
  BY DateOfLateDay
<1>2. DueFor({d}, t) = CASE away < 0 -> "overdue"
                         [] away = 0 -> "today"
                         [] away = 1 -> "tomorrow"
                         [] OTHER    -> "upcoming"
  <2>1. (CHOOSE x \in {d} : TRUE) = d
    BY SMT
  <2> QED
    BY <2>1, SMT DEF DueFor
<1>3. (away < 0 <=> Earlier(d, t)) /\ (away = 0 <=> d = t) /\ (away = 1 <=> Follows(t, d))
  <2> HIDE DEF away
  <2> QED
    BY <1>1, <1>9, OrderOfDays, NextDay, SMT
<1> HIDE DEF away
<1> QED
  BY <1>1, <1>2, <1>3, SMT

(* DueMeansWhatWasWritten: the due date a page shows is the one that was   *)
(* accepted, if its year is past 99, and the badge of the date it shows is *)
(* right, in every zone and over every leap day (toUtcDate, fromUtcDate,   *)
(* wireDayToUtc, daysBetween and dueFor).                                  *)
THEOREM DueIsDue == CalendarSpec => []DueMeansWhatWasWritten
<1>1. CalendarInit => CalendarInv
  BY CalendarAssumption, SMT DEF CalendarAssumption, CalendarInit, CalendarInv, Perhaps
<1>2. CalendarInv /\ [CalendarNext]_calendarVars => CalendarInv'
  BY CalendarStep, SMT
<1>3. CalendarInv => DueMeansWhatWasWritten
  <2> SUFFICES ASSUME CalendarInv, NEW r \in Reader, NEW t \in shown[r].today
               PROVE  /\ (\A d \in shown[r].meant : d[1] > 99) => shown[r].day = shown[r].meant
                      /\ \A d \in shown[r].day :
                           /\ (DueFor(shown[r].day, t) = "overdue")  <=> Earlier(d, t)
                           /\ (DueFor(shown[r].day, t) = "today")    <=> d = t
                           /\ (DueFor(shown[r].day, t) = "tomorrow") <=> Follows(t, d)
                      /\ Follows(t, AddDays(t, 1))
    BY SMT DEF DueMeansWhatWasWritten
  <2>1. /\ t \in LateDay /\ shown[r].day \in Perhaps(LateDay)
        /\ shown[r].meant \in Perhaps(Accepted)
        /\ shown[r].day = {Kept(d) : d \in shown[r].meant}
    BY SMT DEF CalendarInv, Perhaps
  <2>2. ASSUME NEW d \in shown[r].day PROVE d \in LateDay /\ shown[r].day = {d}
    BY <2>1, SMT DEF Perhaps
  <2>3. ASSUME \A d \in shown[r].meant : d[1] > 99 PROVE shown[r].day = shown[r].meant
    <3>1. \A d \in shown[r].meant : d \in Accepted
      BY <2>1, SMT DEF Perhaps
    <3>2. \A d \in shown[r].meant : Kept(d) = d
      BY <2>3, <3>1, KeptDay
    <3> QED
      BY <2>1, <3>2
  <2>4. Follows(t, AddDays(t, 1))
    <3>1. t \in Day /\ ToUtcDate(t) = EpochDay(t) /\ EpochDay(t) + 1 \in Int
      BY <2>1, DateOfLateDay, DayAndDate, SMT
    <3>2. AddDays(t, 1) = Civil(EpochDay(t) + 1)
      BY <3>1, FromUtc, SMT DEF AddDays
    <3>3. Civil(EpochDay(t) + 1) \in Day /\ EpochDay(Civil(EpochDay(t) + 1)) = EpochDay(t) + 1
      BY <3>1, DateAndDay
    <3> QED
      BY <3>1, <3>2, <3>3, NextDay
  <2>5. ASSUME NEW d \in shown[r].day
        PROVE  /\ (DueFor(shown[r].day, t) = "overdue")  <=> Earlier(d, t)
               /\ (DueFor(shown[r].day, t) = "today")    <=> d = t
               /\ (DueFor(shown[r].day, t) = "tomorrow") <=> Follows(t, d)
    <3>1. /\ (DueFor({d}, t) = "overdue")  <=> Earlier(d, t)
          /\ (DueFor({d}, t) = "today")    <=> d = t
          /\ (DueFor({d}, t) = "tomorrow") <=> Follows(t, d)
      BY <2>1, <2>2, BadgeIsRight
    <3> QED
      BY <2>2, <3>1
  <2> QED
    BY <2>3, <2>4, <2>5
<1> QED
  BY <1>1, <1>2, <1>3, PTL DEF CalendarSpec

-----------------------------------------------------------------------------
(* SocketLimiter.                                                          *)

(* The first n of s are those at least as old as age.                      *)
FirstAre(s, n, age) == \A i \in 1 .. Len(s) : i <= n <=> s[i] >= age

(* Hits, oldest first: whatever the age, those as old are the first.       *)
Graded(s) ==
  /\ s \in Seq(0 .. HitWindow + 1)
  /\ \A age \in Nat : \E n \in 0 .. Len(s) : FirstAre(s, n, age)

(* Without its first n, which are outside the window, h is e.              *)
Leaves(h, n, e) ==
  /\ n \in 0 .. Len(h) /\ FirstAre(h, n, HitWindow)
  /\ e \in Seq(0 .. HitWindow - 1)
  /\ Len(e) = Len(h) - n
  /\ \A i \in 1 .. Len(e) : e[i] = h[n + i]

(* A tick has made s of h.                                                 *)
Aged(h, s) ==
  /\ Len(s) = Len(h)
  /\ \A i \in 1 .. Len(h) : s[i] = IF h[i] > HitWindow THEN h[i] ELSE h[i] + 1

(* The hits are ages.                                                      *)
LEMMA HitsAreAges ==
  ASSUME NEW a, NEW s \in Seq(0 .. a)
  PROVE  /\ Len(s) \in Nat /\ DOMAIN s = 1 .. Len(s)
         /\ \A i \in 1 .. Len(s) : s[i] \in 0 .. a
BY LenProperties, ElementOfSeq

(* What is left of graded hits is graded.                                  *)
LEMMA LeftGraded ==
  ASSUME NEW h, NEW n, NEW e, Graded(h), Leaves(h, n, e)
  PROVE  Graded(e)
<1> USE LimiterAssumption
<1>1. Len(h) \in Nat /\ \A i \in 1 .. Len(h) : h[i] \in 0 .. HitWindow + 1
  BY HitsAreAges DEF Graded
<1>2. Len(e) \in Nat /\ DOMAIN e = 1 .. Len(e) /\ \A i \in 1 .. Len(e) : e[i] \in 0 .. HitWindow - 1
  BY HitsAreAges DEF Leaves
<1>3. n \in 0 .. Len(h) /\ Len(e) = Len(h) - n /\ \A i \in 1 .. Len(e) : e[i] = h[n + i]
  BY DEF Leaves
<1>4. e \in Seq(0 .. HitWindow + 1)
  BY <1>2, ElementOfSeq, LenProperties DEF Leaves
<1>5. ASSUME NEW age \in Nat PROVE \E k \in 0 .. Len(e) : FirstAre(e, k, age)
  <2>1. PICK m \in 0 .. Len(h) : FirstAre(h, m, age)
    BY DEF Graded
  <2> DEFINE k == IF m <= n THEN 0 ELSE m - n
  <2>2. k \in 0 .. Len(e)
    BY <1>1, <1>3
  <2>3. \A i \in 1 .. Len(e) : n + i \in 1 .. Len(h) /\ (i <= k <=> n + i <= m)
    BY <1>1, <1>3
  <2>4. FirstAre(e, k, age)
    <3> HIDE DEF k
    <3> QED
      BY <1>3, <2>1, <2>3 DEF FirstAre
  <2> QED
    BY <2>2, <2>4
<1> QED
  BY <1>4, <1>5 DEF Graded

(* A new hit is the youngest.                                              *)
LEMMA NewestGraded ==
  ASSUME NEW s, Graded(s)
  PROVE  Graded(Append(s, 0)) /\ Len(Append(s, 0)) = Len(s) + 1
<1> USE LimiterAssumption
<1> DEFINE t == Append(s, 0)
<1>1. Len(s) \in Nat /\ \A i \in 1 .. Len(s) : s[i] \in 0 .. HitWindow + 1
  BY HitsAreAges DEF Graded
<1>2. /\ t \in Seq(0 .. HitWindow + 1) /\ Len(t) = Len(s) + 1
      /\ \A i \in 1 .. Len(s) : t[i] = s[i]
      /\ t[Len(s) + 1] = 0
  BY AppendProperties DEF Graded
<1>3. ASSUME NEW age \in Nat PROVE \E n \in 0 .. Len(t) : FirstAre(t, n, age)
  <2> HIDE DEF t
  <2>1. CASE age = 0
    <3>1. FirstAre(t, Len(t), age)
      BY <1>1, <1>2, <2>1 DEF FirstAre
    <3> QED
      BY <1>1, <1>2, <3>1
  <2>2. CASE age > 0
    <3>1. PICK n \in 0 .. Len(s) : FirstAre(s, n, age)
      BY DEF Graded
    <3>2. ASSUME NEW i \in 1 .. Len(t) PROVE i <= n <=> t[i] >= age
      <4>1. CASE i \in 1 .. Len(s)
        BY <1>2, <3>1, <4>1 DEF FirstAre
      <4>2. CASE i = Len(s) + 1
        BY <1>1, <1>2, <2>2, <3>1, <4>2
      <4> QED
        BY <1>1, <1>2, <4>1, <4>2
    <3> QED
      BY <1>1, <1>2, <3>1, <3>2 DEF FirstAre
  <2> QED
    BY <2>1, <2>2
<1> QED
  BY <1>2, <1>3 DEF Graded

(* Ageing keeps the order.                                                 *)
LEMMA AgedGraded ==
  ASSUME NEW h, NEW s, Graded(h), Aged(h, s), s \in Seq(0 .. HitWindow + 1)
  PROVE  Graded(s)
<1> USE LimiterAssumption
<1>1. Len(h) \in Nat /\ \A i \in 1 .. Len(h) : h[i] \in 0 .. HitWindow + 1
  BY HitsAreAges DEF Graded
<1>2. ASSUME NEW age \in Nat PROVE \E n \in 0 .. Len(s) : FirstAre(s, n, age)
  <2> DEFINE was == IF age = 0 THEN 0 ELSE IF age <= HitWindow + 1 THEN age - 1 ELSE age
  <2>1. was \in Nat
    OBVIOUS
  <2>2. \A i \in 1 .. Len(h) : s[i] >= age <=> h[i] >= was
    BY <1>1 DEF Aged
  <2> HIDE DEF was
  <2>3. PICK n \in 0 .. Len(h) : FirstAre(h, n, was)
    BY <2>1 DEF Graded
  <2> QED
    BY <2>2, <2>3 DEF FirstAre, Aged
<1> QED
  BY <1>2 DEF Graded

(* A tick takes off the window's oldest, and ages the others.              *)
LEMMA AgedLeaves ==
  ASSUME NEW h, NEW s, NEW n, NEW m, NEW d, NEW e,
         Graded(h), Aged(h, s), Leaves(h, n, d), Leaves(s, m, e)
  PROVE  \E k \in 0 .. Len(d) :
           /\ \A i \in 1 .. Len(d) : i <= k <=> d[i] + 1 = HitWindow
           /\ e = [i \in 1 .. Len(d) - k |-> d[k + i] + 1]
<1> USE LimiterAssumption
<1>1. Len(h) \in Nat /\ \A i \in 1 .. Len(h) : h[i] \in 0 .. HitWindow + 1
  BY HitsAreAges DEF Graded
<1>2. Len(d) \in Nat /\ \A i \in 1 .. Len(d) : d[i] \in 0 .. HitWindow - 1
  BY HitsAreAges DEF Leaves
<1>3. Len(e) \in Nat /\ DOMAIN e = 1 .. Len(e) /\ e = [i \in 1 .. Len(e) |-> e[i]]
  BY HitsAreAges DEF Leaves
<1>4. /\ n \in 0 .. Len(h) /\ Len(d) = Len(h) - n /\ \A i \in 1 .. Len(d) : d[i] = h[n + i]
      /\ m \in 0 .. Len(h) /\ Len(e) = Len(h) - m /\ \A i \in 1 .. Len(e) : e[i] = s[m + i]
  BY DEF Leaves, Aged
<1>5. \A i \in 1 .. Len(h) : (i <= n <=> h[i] >= HitWindow) /\ (i <= m <=> h[i] + 1 >= HitWindow)
  <2>1. \A i \in 1 .. Len(h) : (i <= n <=> h[i] >= HitWindow) /\ (i <= m <=> s[i] >= HitWindow)
    BY DEF Leaves, Aged, FirstAre
  <2>2. \A i \in 1 .. Len(h) : s[i] >= HitWindow <=> h[i] + 1 >= HitWindow
    BY <1>1 DEF Aged
  <2> QED
    BY <2>1, <2>2
<1>6. n <= m
  BY <1>1, <1>4, <1>5
<1> DEFINE k == m - n
<1>7. k \in 0 .. Len(d) /\ Len(e) = Len(d) - k
  BY <1>1, <1>4, <1>6
<1>8. ASSUME NEW i \in 1 .. Len(d) PROVE i <= k <=> d[i] + 1 = HitWindow
  <2>1. n + i \in 1 .. Len(h) /\ ~ (n + i <= n) /\ (i <= k <=> n + i <= m)
    BY <1>1, <1>4
  <2> QED
    BY <1>1, <1>4, <1>5, <2>1
<1>9. ASSUME NEW i \in 1 .. Len(e) PROVE e[i] = d[k + i] + 1
  <2>1. /\ m + i \in 1 .. Len(h) /\ ~ (m + i <= n)
        /\ k + i \in 1 .. Len(d) /\ n + (k + i) = m + i
    BY <1>1, <1>4, <1>6
  <2>2. h[m + i] < HitWindow /\ s[m + i] = h[m + i] + 1
    BY <1>1, <1>5, <2>1 DEF Aged
  <2>3. d[k + i] = h[m + i]
    BY <1>4, <2>1
  <2> QED
    BY <1>4, <2>2, <2>3
<1> HIDE DEF k
<1>10. e = [i \in 1 .. Len(d) - k |-> d[k + i] + 1]
  BY <1>3, <1>7, <1>9
<1> QED
  BY <1>7, <1>8, <1>10

LimiterInv == Graded(hits) /\ Len(hits) <= HitLimit

(* The loop shifts off what is outside the window; what it leaves is what  *)
(* remaining() counts.                                                     *)
Counted ==
  /\ Leaves(hits, Shifted, Evicted)
  /\ Len(Evicted) \in Nat
  /\ Remaining = HitLimit - Len(Evicted)
  /\ (\A i \in 1 .. Len(hits) : hits[i] < HitWindow) => Evicted = hits

LEMMA CountsTheLive == LimiterInv => Counted
<1> SUFFICES ASSUME LimiterInv PROVE Counted
  OBVIOUS
<1> USE LimiterAssumption
<1>1. /\ Len(hits) \in Nat /\ DOMAIN hits = 1 .. Len(hits) /\ Len(hits) <= HitLimit
      /\ \A i \in 1 .. Len(hits) : hits[i] \in 0 .. HitWindow + 1
  BY HitsAreAges DEF LimiterInv, Graded
<1> DEFINE Stops(n) == /\ \A i \in 1 .. n : Outside(hits[i])
                       /\ n < Len(hits) => ~ Outside(hits[n + 1])
<1>2. PICK n \in 0 .. Len(hits) : FirstAre(hits, n, HitWindow)
  BY DEF LimiterInv, Graded
<1>3. Stops(n)
  BY <1>1, <1>2 DEF FirstAre, Outside
<1>4. ASSUME NEW m \in 0 .. Len(hits), Stops(m) PROVE m = n
  BY <1>1, <1>2, <1>4 DEF FirstAre, Outside
<1>5. Shifted \in 0 .. Len(hits) /\ Stops(Shifted)
  BY <1>3 DEF Shifted
<1>6. Shifted = n
  BY <1>4, <1>5
<1> DEFINE from == n + 1
<1>7. PICK e : e = Evicted /\ e = SubSeq(hits, from, Len(hits))
  BY <1>6 DEF Evicted
<1>8. from \in Int /\ Len(hits) \in Int /\ \A i \in from .. Len(hits) : hits[i] \in 0 .. HitWindow - 1
  BY <1>1, <1>2 DEF FirstAre
<1>9. /\ e \in Seq(0 .. HitWindow - 1)
      /\ Len(e) = IF from <= Len(hits) THEN Len(hits) - from + 1 ELSE 0
      /\ \A i \in 1 .. Len(hits) - from + 1 : e[i] = hits[from + i - 1]
  <2> HIDE DEF from
  <2> QED
    BY <1>7, <1>8, SubSeqProperties
<1>10. Len(e) = Len(hits) - n /\ Len(e) \in Nat
  <2>1. CASE from <= Len(hits)
    BY <1>1, <1>2, <1>9, <2>1
  <2>2. CASE ~ (from <= Len(hits))
    <3>1. Len(hits) \in Int /\ ~ (n + 1 <= Len(hits))
      BY <1>8, <2>2
    <3>2. n = Len(hits)
      BY <3>1
    <3>3. Len(e) = 0
      BY <1>9, <2>2
    <3> QED
      BY <1>1, <3>2, <3>3
  <2> QED
    BY <2>1, <2>2
<1>11. ASSUME NEW i \in 1 .. Len(e) PROVE e[i] = hits[n + i]
  <2>1. i \in 1 .. Len(hits) - from + 1 /\ from + i - 1 = n + i
    BY <1>1, <1>2, <1>10
  <2> QED
    BY <1>9, <2>1
<1>12. Leaves(hits, Shifted, Evicted) /\ Len(Evicted) \in Nat
  BY <1>2, <1>6, <1>7, <1>9, <1>10, <1>11 DEF Leaves
<1>13. Remaining = HitLimit - Len(Evicted)
  <2>1. {i \in DOMAIN hits : hits[i] < HitWindow} = from .. Len(hits)
    BY <1>1, <1>2 DEF FirstAre
  <2>2. Cardinality(from .. Len(hits)) = IF from > Len(hits) THEN 0 ELSE Len(hits) - from + 1
    <3> HIDE DEF from
    <3> QED
      BY <1>8, FS_Interval
  <2>3. Cardinality(from .. Len(hits)) = Len(e)
    BY <1>1, <1>10, <2>2
  <2>4. PICK live : live = Len(e) /\ Remaining = IF live > HitLimit THEN 0 ELSE HitLimit - live
    BY <2>1, <2>3 DEF Remaining
  <2>5. Remaining = HitLimit - Len(e)
    BY <1>1, <1>10, <2>4
  <2> QED
    BY <1>7, <2>5
<1>14. ASSUME \A i \in 1 .. Len(hits) : hits[i] < HitWindow PROVE Evicted = hits
  <2>1. n = 0
    BY <1>1, <1>2, <1>14 DEF FirstAre
  <2> QED
    BY <1>7, <2>1, SubSeqFull DEF LimiterInv, Graded
<1> QED
  BY <1>12, <1>13, <1>14 DEF Counted

(* Taking and ageing keep the hits in order and within the limit.          *)
LEMMA LimiterKept == LimiterInv /\ [LimiterNext]_limiterVars => LimiterInv'
<1> SUFFICES ASSUME LimiterInv, [LimiterNext]_limiterVars PROVE LimiterInv'
  OBVIOUS
<1> USE LimiterAssumption
<1>1. Graded(hits) /\ Len(hits) \in Nat /\ Len(hits) <= HitLimit /\ DOMAIN hits = 1 .. Len(hits)
      /\ hits \in Seq(0 .. HitWindow + 1) /\ \A i \in 1 .. Len(hits) : hits[i] \in 0 .. HitWindow + 1
  BY HitsAreAges DEF LimiterInv, Graded
<1>2. Graded(Evicted) /\ Len(Evicted) \in Nat /\ Len(Evicted) <= Len(hits)
  <2>1. Leaves(hits, Shifted, Evicted) /\ Len(Evicted) \in Nat
    BY CountsTheLive DEF Counted
  <2>2. Graded(Evicted)
    BY <1>1, <2>1, LeftGraded
  <2>3. Len(Evicted) <= Len(hits)
    BY <1>1, <2>1 DEF Leaves
  <2> QED
    BY <2>1, <2>2, <2>3
<1>3. CASE Take
  <2>1. CASE hits' = Evicted
    BY <1>1, <1>2, <2>1 DEF LimiterInv
  <2>2. CASE Len(Evicted) < HitLimit /\ hits' = Append(Evicted, 0)
    BY <1>1, <1>2, <2>2, NewestGraded DEF LimiterInv
  <2> QED
    BY <1>2, <1>3, <2>1, <2>2 DEF Take
<1>4. CASE LimiterTick
  <2> DEFINE s == [i \in 1 .. Len(hits) |-> IF hits[i] > HitWindow THEN hits[i] ELSE hits[i] + 1]
  <2>1. hits' = s
    BY <1>1, <1>4 DEF LimiterTick
  <2>2. Len(s) = Len(hits) /\ s \in Seq(0 .. HitWindow + 1)
    BY <1>1
  <2>3. Aged(hits, s)
    BY <1>1, <2>2 DEF Aged
  <2> HIDE DEF s
  <2>4. Graded(s)
    BY <1>1, <2>2, <2>3, AgedGraded
  <2> QED
    BY <1>1, <2>1, <2>2, <2>4 DEF LimiterInv
<1>5. CASE UNCHANGED limiterVars
  BY <1>5 DEF limiterVars, LimiterInv
<1> QED
  BY <1>3, <1>4, <1>5 DEF LimiterNext

(* Each step is the window's, or leaves it alone.                          *)
LEMMA LimiterMaps ==
  LimiterInv /\ LimiterInv' /\ [LimiterNext]_limiterVars
    => [Abstract!Allow \/ Abstract!Refuse \/ Abstract!WindowTick]_(Abstract!windowVars)
<1> SUFFICES ASSUME LimiterInv, LimiterInv', [LimiterNext]_limiterVars
             PROVE  [Abstract!Allow \/ Abstract!Refuse \/ Abstract!WindowTick]_(Abstract!windowVars)
  OBVIOUS
<1> USE LimiterAssumption
<1>1. Counted /\ Counted'
  BY CountsTheLive, PTL
<1>2. PICK d, e : d = Evicted /\ e = Evicted'
  OBVIOUS
<1>3. /\ Len(d) \in Nat /\ Remaining = HitLimit - Len(d) /\ Remaining' = HitLimit - Len(e)
      /\ \E n : Leaves(hits, n, d)
      /\ \E m : Leaves(hits', m, e)
      /\ (\A i \in 1 .. Len(hits') : hits'[i] < HitWindow) => e = hits'
  BY <1>1, <1>2 DEF Counted
<1>4. d \in Seq(0 .. HitWindow - 1) /\ \A i \in 1 .. Len(d) : d[i] \in 0 .. HitWindow - 1
  BY <1>3, HitsAreAges DEF Leaves
<1>5. Len(d) <= HitLimit
  BY <1>3, HitsAreAges DEF Leaves, LimiterInv, Graded
<1>6. CASE Take
  <2>1. CASE Len(d) >= HitLimit /\ hits' = d /\ allowedLast' = FALSE
    <3>1. e = d
      BY <1>3, <1>4, <2>1
    <3> QED
      BY <1>2, <1>3, <1>5, <2>1, <3>1 DEF Abstract!Refuse, Abstract!Used
  <2>2. CASE Len(d) < HitLimit /\ hits' = Append(d, 0) /\ allowedLast' = TRUE
    <3>1. \A i \in 1 .. Len(hits') : hits'[i] < HitWindow
      BY <1>3, <1>4, <2>2, AppendProperties
    <3>2. e = Append(d, 0)
      BY <1>3, <2>2, <3>1
    <3> QED
      BY <1>2, <1>3, <2>2, <3>2 DEF Abstract!Allow, Abstract!Used
  <2> QED
    <3>1. IF Len(d) >= HitLimit THEN hits' = d /\ allowedLast' = FALSE
                                ELSE hits' = Append(d, 0) /\ allowedLast' = TRUE
      BY <1>2, <1>6 DEF Take
    <3>2. Len(d) >= HitLimit \/ Len(d) < HitLimit
      BY <1>3
    <3>3. Len(d) < HitLimit => ~ (Len(d) >= HitLimit)
      BY <1>3
    <3> QED
      BY <2>1, <2>2, <3>1, <3>2, <3>3
<1>7. CASE LimiterTick
  <2>1. Graded(hits) /\ Len(hits) \in Nat /\ DOMAIN hits = 1 .. Len(hits)
    BY HitsAreAges DEF LimiterInv, Graded
  <2>2. Aged(hits, hits')
    BY <1>7, <2>1 DEF LimiterTick, Aged
  <2>3. \E k \in 0 .. Len(d) :
          /\ \A i \in 1 .. Len(d) : i <= k <=> d[i] + 1 = HitWindow
          /\ e = [i \in 1 .. Len(d) - k |-> d[k + i] + 1]
    BY <1>3, <2>1, <2>2, AgedLeaves
  <2> QED
    BY <1>2, <1>3, <1>7, <2>3 DEF LimiterTick, Abstract!WindowTick, Abstract!Used
<1>8. CASE UNCHANGED limiterVars
  <2>1. Evicted' = Evicted /\ Remaining' = Remaining
    BY <1>8 DEF limiterVars, Evicted, Shifted, Remaining
  <2> QED
    BY <1>8, <2>1 DEF limiterVars, Abstract!windowVars
<1> QED
  BY <1>6, <1>7, <1>8 DEF LimiterNext

(* The limiter of a socket, which throws away late and counts what is      *)
(* left, allows and refuses what a sliding window does, and tells the room *)
(* that it has.                                                            *)
THEOREM LimiterImplementsWindow == LimiterSpec => LimiterIsAWindow
<1>1. LimiterInit => LimiterInv
  BY LimiterAssumption DEF LimiterInit, LimiterInv, Graded, FirstAre
<1>2. LimiterSpec => []LimiterInv
  BY <1>1, LimiterKept, PTL DEF LimiterSpec
<1>3. LimiterInit => Abstract!WindowInit
  <2> SUFFICES ASSUME LimiterInit PROVE Abstract!WindowInit
    OBVIOUS
  <2>1. LimiterInv /\ hits = <<>> /\ Len(hits) = 0
    BY <1>1 DEF LimiterInit
  <2>2. Evicted = <<>> /\ Remaining = HitLimit - 0
    BY <2>1, CountsTheLive DEF Counted
  <2> QED
    BY <2>2, LimiterAssumption DEF LimiterInit, Abstract!WindowInit
<1> QED
  BY <1>2, <1>3, LimiterMaps, PTL DEF LimiterSpec, LimiterIsAWindow, Abstract!WindowSpec
=============================================================================
