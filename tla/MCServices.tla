----------------------------- MODULE MCServices -----------------------------
(***************************************************************************)
(* Six parts that meet in none of their state, each explored by itself:    *)
(* which one it is, is chosen at the start.                                *)
(***************************************************************************)
EXTENDS Presence, SocketLimiter, HealthProbe, ApiCalls, Calendar, MemoryRepo, TLC

CONSTANTS c1, c2, h1, h2, f1, f2, east, west, own, other

VARIABLE part

vars == <<part, presenceVars, limiterVars, healthVars, callVars, calendarVars, memoryVars>>

(* Two tabs of one person; a TTL of two heartbeats is not accepted. *)
MCUserOf == [c \in Conn |-> "ana"]
MCSettings == {[heartbeat |-> 1, ttl |-> 2], [heartbeat |-> 1, ttl |-> 3]}

(* Readers at the two ends of the world, and a writer's process between    *)
(* them; the end of February in 2096 and in 2100, which has no 29th, the   *)
(* end of a century, and a year of two digits. From an hour before the day *)
(* ends in the east it lasts until the day has ended in UTC.               *)
MCZoneOf == [r \in Reader |-> IF r = west THEN -11 ELSE 14]
MCServerZone == {-4, 2}
MCStart == {24 * DayNumber(d[1], d[2], d[3]) - 15 :
              d \in {<<2096, 3, 1>>, <<2100, 3, 1>>, <<2100, 1, 1>>}}
MCTyped == {<<2096, 2, 29>>, <<2100, 2, 29>>, <<2100, 3, 1>>, <<2100, 1, 1>>,
            <<2099, 13, 1>>, <<0, 0, 0>>, <<26, 3, 1>>}

MCSeedCards == <<1, 1>>

(* What a part that is not explored may start with. *)
Elsewhere(p, choice) == part # p => choice

Init ==
  /\ part \in {"presence", "limiter", "health", "calls", "calendar", "memory"}
  /\ PresenceInit /\ LimiterInit /\ HealthInit /\ CallsInit /\ CalendarInit /\ MemoryInit
  /\ Elsewhere("presence", config = CHOOSE s \in Settings : AssertConfig(s))
  /\ Elsewhere("calendar", begun = (CHOOSE i \in Start : TRUE) /\ server = 2)
  /\ Elsewhere("health", gateway = Probe)
  /\ gateway # {h2}            \* h1 and h2 are interchangeable

Next ==
  \/ /\ part = "presence" /\ PresenceNext
     /\ UNCHANGED <<part, limiterVars, healthVars, callVars, calendarVars, memoryVars>>
  \/ /\ part = "limiter" /\ LimiterNext
     /\ UNCHANGED <<part, presenceVars, healthVars, callVars, calendarVars, memoryVars>>
  \/ /\ part = "health" /\ HealthNext
     /\ UNCHANGED <<part, presenceVars, limiterVars, callVars, calendarVars, memoryVars>>
  \/ /\ part = "calls" /\ CallsNext
     /\ UNCHANGED <<part, presenceVars, limiterVars, healthVars, calendarVars, memoryVars>>
  \/ /\ part = "calendar" /\ CalendarNext
     /\ UNCHANGED <<part, presenceVars, limiterVars, healthVars, callVars, memoryVars>>
  \/ /\ part = "memory" /\ MemoryNext
     /\ UNCHANGED <<part, presenceVars, limiterVars, healthVars, callVars, calendarVars>>

(* The handlers of a gateway go on, time does however many pings there     *)
(* are, and a page that is open keeps sending heartbeats of which no two   *)
(* in a row are lost.                                                      *)
On == part = "presence"

Fairness ==
  /\ SF_presenceVars(On /\ Tick)
  /\ \A c \in Conn : /\ WF_presenceVars(On /\ (JoinRoom(c) \/ JoinRefused(c)))
                     /\ WF_presenceVars(On /\ (Touch(c) \/ Answer(c)))
                     /\ WF_presenceVars(On /\ (LeaveEntry(c) \/ CleanUp(c)))
                     /\ WF_presenceVars(On /\ (Heartbeat(c) \/ LoseHeartbeat(c)))

Spec == Init /\ [][Next]_vars /\ Fairness
=============================================================================
