----------------------------- MODULE HealthProbe -----------------------------
(***************************************************************************)
(* The health checks: of the gateway (apps/realtime/src/health.ts), which  *)
(* sends a nonce through the two connections its adapter uses and waits to *)
(* hear it, and of the API.  Several requests are answered at a time, and  *)
(* those of the gateway share its two connections.                         *)
(*                                                                         *)
(* The checks of a request run concurrently, each raced against a timeout; *)
(* a check that loses the race is answered for, and goes on waiting.       *)
(***************************************************************************)
EXTENDS Naturals, FiniteSets

CONSTANT
  Probe          \* the requests for /health

Dependency == {"postgres", "redis", "adapter"}

VARIABLES
  gateway,       \* the probes the gateway gets; the API gets the others
  check,         \* [Probe -> [Dependency -> "none", "run", "ok", "fail"]]
  trip,          \* [Probe -> where its round trip is]
  subscribed,    \* whether the shared connection is subscribed, in Redis
  listening,     \* the probes whose listener is on the shared connection
  wire,          \* the nonces on their way to the shared connection
  alive,         \* the dependencies that answer; "adapter" is the pub/sub
  heard,         \* the probes whose own nonce came in while they listened
  report         \* [Probe -> "none", "ok" or "degraded"]

healthVars == <<gateway, check, trip, subscribed, listening, wire, alive, heard, report>>

Checks(p) == IF p \in gateway THEN Dependency ELSE Dependency \ {"adapter"}

HealthInit ==
  /\ gateway \in SUBSET Probe
  /\ check = [p \in Probe |-> [d \in Dependency |-> "none"]]
  /\ trip = [p \in Probe |-> "idle"]
  /\ subscribed = FALSE
  /\ listening = {}
  /\ wire = {}
  /\ alive = Dependency
  /\ heard = {}
  /\ report = [p \in Probe |-> "none"]

(* GET /health: the checks start together. *)
Request(p) ==
  /\ \A d \in Dependency : check[p][d] = "none"
  /\ check' = [check EXCEPT ![p] =
       [d \in Dependency |-> IF d \in Checks(p) THEN "run" ELSE "ok"]]
  /\ trip' = [trip EXCEPT ![p] = IF p \in gateway THEN "subscribe" ELSE "idle"]
  /\ UNCHANGED <<gateway, subscribed, listening, wire, alive, heard, report>>

(* SELECT 1 and PING. *)
Answers(p, d) ==
  /\ d # "adapter" /\ check[p][d] = "run" /\ d \in alive
  /\ check' = [check EXCEPT ![p][d] = "ok"]
  /\ UNCHANGED <<gateway, trip, subscribed, listening, wire, alive, heard, report>>

(***************************************************************************)
(* roundTrip.  A command on a connection that is down waits until it is    *)
(* back.                                                                   *)
(***************************************************************************)
Subscribe(p) ==
  /\ trip[p] = "subscribe" /\ "adapter" \in alive
  /\ subscribed' = TRUE
  /\ listening' = listening \union {p}
  /\ trip' = [trip EXCEPT ![p] = "publish"]
  /\ UNCHANGED <<gateway, check, wire, alive, heard, report>>

(* Redis passes a message to who is subscribed at that moment. *)
Publish(p) ==
  /\ trip[p] = "publish" /\ "redis" \in alive
  /\ wire' = IF subscribed /\ "adapter" \in alive THEN wire \union {p} ELSE wire
  /\ trip' = [trip EXCEPT ![p] = "wait"]
  /\ UNCHANGED <<gateway, check, subscribed, listening, alive, heard, report>>

(* Mutant: any message on the channel resolves a probe. *)
OwnNonceAny(p, q) == TRUE
OwnNonce(p, q) == p = q

(* The message of probe q comes in: every listener looks at it. *)
Message(q) ==
  /\ q \in wire
  /\ wire' = wire \ {q}
  /\ heard' = heard \union ({q} \intersect listening)
  /\ trip' = [p \in Probe |->
       IF p \in listening /\ OwnNonce(p, q) /\ trip[p] \in {"publish", "wait"}
       THEN "finally" ELSE trip[p]]
  /\ UNCHANGED <<gateway, check, subscribed, listening, alive, report>>

(* finally: the listener goes, and so does the subscription of all. *)
Finally(p) ==
  /\ trip[p] = "finally" /\ "adapter" \in alive
  /\ listening' = listening \ {p}
  /\ subscribed' = FALSE
  /\ trip' = [trip EXCEPT ![p] = "idle"]
  /\ check' = [check EXCEPT ![p]["adapter"] = IF @ = "run" THEN "ok" ELSE @]
  /\ UNCHANGED <<gateway, wire, alive, heard, report>>

(* timed: the deadline fires first, and the round trip is not told; or the *)
(* check itself fails.                                                     *)
TimesOut(p, d) ==
  /\ check[p][d] = "run"
  /\ check' = [check EXCEPT ![p][d] = "fail"]
  /\ UNCHANGED <<gateway, trip, subscribed, listening, wire, alive, heard, report>>

(* Promise.all: the answer is given when every check has one. *)
Report(p) ==
  /\ report[p] = "none"
  /\ \A d \in Dependency : check[p][d] \in {"ok", "fail"}
  /\ report' = [report EXCEPT ![p] =
       IF \A d \in Dependency : check[p][d] = "ok" THEN "ok" ELSE "degraded"]
  /\ UNCHANGED <<gateway, check, trip, subscribed, listening, wire, alive, heard>>

(* A dependency dies, or comes back; ioredis subscribes again by itself.   *)
(* What was on the wire of a connection that dies is lost.                 *)
Dies(d) ==
  /\ d \in alive
  /\ alive' = alive \ {d}
  /\ wire' = IF d = "adapter" THEN {} ELSE wire
  /\ UNCHANGED <<gateway, check, trip, subscribed, listening, heard, report>>

Recovers(d) ==
  /\ d \notin alive
  /\ alive' = alive \union {d}
  /\ UNCHANGED <<gateway, check, trip, subscribed, listening, wire, heard, report>>

HealthNext ==
  \/ \E p \in Probe : \/ Request(p) \/ Subscribe(p) \/ Publish(p) \/ Message(p)
                      \/ Finally(p) \/ Report(p)
                      \/ \E d \in Dependency : Answers(p, d) \/ TimesOut(p, d)
  \/ \E d \in Dependency : Dies(d) \/ Recovers(d)

HealthSpec == HealthInit /\ [][HealthNext]_healthVars

----------------------------------------------------------------------------
(* Green means heard: a gateway reports itself healthy only if the nonce   *)
(* of that very request came back through the two connections, however     *)
(* many requests share them and whatever earlier ones left behind.         *)
GreenMeansHeard == \A p \in gateway : report[p] = "ok" => p \in heard
=============================================================================
