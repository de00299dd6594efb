------------------------------ MODULE Presence ------------------------------
(***************************************************************************)
(* Who is on a board right now: the hash of connections that the replicas  *)
(* of the gateway keep in Redis (services/presence), the handlers that     *)
(* touch and read it (apps/realtime/src/gateway.ts), and the heartbeat of  *)
(* the pages.                                                              *)
(*                                                                         *)
(* One board, and every connection on a replica of its own.  Time is       *)
(* relative: an entry has an age, and ages stop counting at Old.  Delay is *)
(* how late a heartbeat may be stored after it was due, whatever the cause *)
(* (the network, the event loop, the clocks of two replicas); the          *)
(* interleaving of the other steps of the handlers is unrestricted.        *)
(***************************************************************************)
EXTENDS Naturals, FiniteSets

CONSTANTS
  Conn,         \* the connections: a page, or the same page after a reconnect
  UserOf,       \* [Conn -> a user]
  Settings,     \* the pairs [heartbeat, ttl] an operator may configure
  Delay,        \* how many ticks late a heartbeat may be written
  Old,          \* where ages stop counting
  None          \* no entry

VARIABLES
  config,       \* the settings this gateway was started with
  hash,         \* [Conn -> the age of its entry, or None]: presence:<boardId>
  sock,         \* [Conn -> "new", "open" or "closed"]
  room,         \* the connections in the room of the board
  next,         \* [Conn -> ticks until the page's next heartbeat]
  missed,       \* the connections whose last heartbeat was lost
  call,         \* [Conn -> its join or its heartbeat, in the gateway]
  bye,          \* [Conn -> its leave, or the cleanup after its disconnect]
  told          \* the last presence.changed: the connections it was made of

presenceVars == <<config, hash, sock, room, next, missed, call, bye, told>>

Age == 0 .. Old
Older(a) == IF a = None \/ a = Old THEN a ELSE a + 1

(* A handler: where it is, the age of the stamp it is about to write, and  *)
(* the entries it found live and found expired.                            *)
Idle == [at |-> "idle", stamp |-> 0, live |-> {}, expired |-> {}]
At(pc) == [Idle EXCEPT !.at = pc]

----------------------------------------------------------------------------
(* Mutant: a TTL of exactly two heartbeats is accepted. *)
AssertConfigAtTwo(s) == s.heartbeat > 0 /\ s.ttl > 0 /\ s.ttl >= s.heartbeat * 2
AssertConfig(s) == s.heartbeat > 0 /\ s.ttl > 0 /\ s.ttl > s.heartbeat * 2

(* Ticks are coarse enough for what a heartbeat may be late, and ages are  *)
(* counted past every TTL.                                                 *)
ASSUME SettingsAssumption ==
  /\ Settings \subseteq [heartbeat : Nat, ttl : Nat]
  /\ Delay \in Nat /\ Old \in Nat /\ None \notin Nat
  /\ \A s \in Settings :
       s.ttl < Old /\ (s.ttl > s.heartbeat * 2 => s.ttl >= s.heartbeat * 2 + Delay)

PresenceInit ==
  /\ config \in {s \in Settings : AssertConfig(s)}
  /\ hash = [c \in Conn |-> None]
  /\ sock = [c \in Conn |-> "new"]
  /\ room = {}
  /\ next = [c \in Conn |-> 0]
  /\ missed = {}
  /\ call = [c \in Conn |-> Idle]
  /\ bye = [c \in Conn |-> Idle]
  /\ told = {}

----------------------------------------------------------------------------
(* On 'connect' the page joins the board. *)
Connect(c) ==
  /\ sock[c] = "new"
  /\ sock' = [sock EXCEPT ![c] = "open"]
  /\ call' = [call EXCEPT ![c] = At("board")]
  /\ UNCHANGED <<config, hash, room, next, missed, bye, told>>

(* board.join, first half: readBoard answers null, or the socket joins the *)
(* room and the entry is stamped - even when the socket has closed while   *)
(* the board was read.  The page's interval runs from its mount, so the    *)
(* join may fall anywhere in its period.                                   *)
JoinRefused(c) ==
  /\ call[c].at = "board"
  /\ call' = [call EXCEPT ![c] = Idle]
  /\ UNCHANGED <<config, hash, sock, room, next, missed, bye, told>>

JoinRoom(c) ==
  /\ call[c].at = "board"
  /\ call' = [call EXCEPT ![c] = At("touch")]
  /\ IF sock[c] = "open"
       THEN /\ room' = room \union {c}
            /\ \E n \in 1 .. config.heartbeat : next' = [next EXCEPT ![c] = n]
       ELSE UNCHANGED <<room, next>>
  /\ UNCHANGED <<config, hash, sock, missed, bye, told>>

(* presence.ping, sent when the interval fires or when the person starts   *)
(* or ends a drag; a socket that is not in the room is refused.            *)
Ping(c, rest) ==
  /\ c \in room /\ call[c].at = "idle"
  /\ next' = [next EXCEPT ![c] = rest]
  /\ missed' = missed \ {c}
  /\ call' = [call EXCEPT ![c] = At("touch")]
  /\ UNCHANGED <<config, hash, sock, room, bye, told>>

Heartbeat(c) == next[c] = 0 /\ Ping(c, config.heartbeat)
SetActivity(c) == next[c] > 0 /\ Ping(c, next[c])

(* A heartbeat that does not count: refused by the rate limit, or failed   *)
(* because Redis did.  Never two in a row.                                 *)
LoseHeartbeat(c) ==
  /\ c \in room \ missed /\ next[c] = 0
  /\ next' = [next EXCEPT ![c] = config.heartbeat]
  /\ missed' = missed \union {c}
  /\ UNCHANGED <<config, hash, sock, room, call, bye, told>>

----------------------------------------------------------------------------
(* Mutant: a heartbeat only refreshes an entry that is still there. *)
WriteExisting(c) == IF hash[c] = None THEN hash ELSE [hash EXCEPT ![c] = call[c].stamp]

(* touch: HSET of the stamped entry, an upsert. *)
Write(c) == [hash EXCEPT ![c] = call[c].stamp]

Touch(c) ==
  /\ call[c].at = "touch"
  /\ hash' = Write(c)
  /\ call' = [call EXCEPT ![c] = At("read")]
  /\ UNCHANGED <<config, sock, room, next, missed, bye, told>>

(* leave: HDEL of the connection's own field. *)
LeaveEntry(c) ==
  /\ bye[c].at = "leave"
  /\ hash' = [hash EXCEPT ![c] = None]
  /\ bye' = [bye EXCEPT ![c] = At("read")]
  /\ UNCHANGED <<config, sock, room, next, missed, call, told>>

(***************************************************************************)
(* roster: HGETALL, and the cutoff computed when its answer arrives; then  *)
(* the HDEL of what was found expired, whatever it has become since, and   *)
(* the broadcast of what was found live.  An entry exactly as old as the   *)
(* TTL is still live.                                                      *)
(***************************************************************************)
Expired(age) == age > config.ttl

Entries(bad) == {c \in Conn : hash[c] # None /\ (Expired(hash[c]) <=> bad)}

Read(h) == [h EXCEPT !.at = "sweep", !.live = Entries(FALSE), !.expired = Entries(TRUE)]

RosterRead(h, g) == h.at = "read" /\ g = Read(h) /\ UNCHANGED <<hash, told>>
RosterTell(h, g) ==
  /\ h.at = "sweep" /\ g = Idle
  /\ hash' = [c \in Conn |-> IF c \in h.expired THEN None ELSE hash[c]]
  /\ told' = h.live

RosterStep(h, g) == RosterRead(h, g) \/ RosterTell(h, g)

Answer(c) ==
  \E g \in {Read(call[c]), Idle} :
    /\ RosterStep(call[c], g)
    /\ call' = [call EXCEPT ![c] = g]
    /\ UNCHANGED <<config, sock, room, next, missed, bye>>

CleanUp(c) ==
  \E g \in {Read(bye[c]), Idle} :
    /\ RosterStep(bye[c], g)
    /\ bye' = [bye EXCEPT ![c] = g]
    /\ UNCHANGED <<config, sock, room, next, missed, call>>

----------------------------------------------------------------------------
(* board.leave: the socket leaves the room and stays connected. *)
BoardLeave(c) ==
  /\ c \in room
  /\ room' = room \ {c}
  /\ missed' = missed \ {c}
  /\ next' = [next EXCEPT ![c] = 0]
  /\ bye' = [bye EXCEPT ![c] = At("leave")]
  /\ UNCHANGED <<config, hash, sock, call, told>>

(* disconnecting: the socket leaves the board it is still on.  What its    *)
(* handlers are doing goes on, a heartbeat's write after the leave too.    *)
Disconnect(c) ==
  /\ sock[c] = "open" /\ bye[c].at = "idle"
  /\ sock' = [sock EXCEPT ![c] = "closed"]
  /\ room' = room \ {c}
  /\ bye' = IF c \in room THEN [bye EXCEPT ![c] = At("leave")] ELSE bye
  /\ next' = [next EXCEPT ![c] = 0]
  /\ missed' = missed \ {c}
  /\ UNCHANGED <<config, hash, call, told>>

(* The process ends: by a crash, or at the end of a shutdown, which closes *)
(* the sockets first and waits for none of the handlers that this starts.  *)
(* What they had not done is not done.                                     *)
Exit(c) ==
  /\ sock[c] = "open" \/ call[c] # Idle \/ bye[c] # Idle
  /\ sock' = [sock EXCEPT ![c] = "closed"]
  /\ room' = room \ {c}
  /\ next' = [next EXCEPT ![c] = 0]
  /\ missed' = missed \ {c}
  /\ call' = [call EXCEPT ![c] = Idle]
  /\ bye' = [bye EXCEPT ![c] = Idle]
  /\ UNCHANGED <<config, hash, told>>

(* Time passes: a heartbeat is sent when it is due, and is not written     *)
(* later than Delay; a roster is read and told within a tick.              *)
Tick ==
  /\ \A c \in Conn : /\ c \in room => next[c] > 0
                     /\ call[c].at \in {"idle", "board", "touch"} /\ call[c].stamp < Delay
                     /\ bye[c].at = "idle"
  /\ hash' = [c \in Conn |-> Older(hash[c])]
  /\ next' = [c \in Conn |-> IF c \in room THEN next[c] - 1 ELSE 0]
  /\ call' = [c \in Conn |-> IF call[c].at = "touch"
                               THEN [call[c] EXCEPT !.stamp = @ + 1] ELSE call[c]]
  /\ UNCHANGED <<config, sock, room, missed, bye, told>>

(* The TTL of the key: a board nobody has touched for long loses its hash. *)
KeyExpires ==
  /\ \E c \in Conn : hash[c] # None
  /\ \A c \in Conn : hash[c] \in {None, Old}
  /\ hash' = [c \in Conn |-> None]
  /\ UNCHANGED <<config, sock, room, next, missed, call, bye, told>>

PresenceNext ==
  \/ \E c \in Conn : \/ Connect(c) \/ JoinRefused(c) \/ JoinRoom(c)
                     \/ Heartbeat(c) \/ SetActivity(c) \/ LoseHeartbeat(c)
                     \/ Touch(c) \/ LeaveEntry(c) \/ Answer(c) \/ CleanUp(c)
                     \/ BoardLeave(c) \/ Disconnect(c) \/ Exit(c)
  \/ Tick \/ KeyExpires

PresenceSpec == PresenceInit /\ [][PresenceNext]_presenceVars

----------------------------------------------------------------------------
(* One dropped heartbeat does not evict somebody who is still on the       *)
(* board: whatever the settings the gateway accepts, the entry of a        *)
(* connection in the room is there and no older than the TTL, so that      *)
(* every roster counts it and no sweep deletes it.                         *)
OneLostHeartbeatKeepsYou ==
  \A c \in Conn :
    c \in room /\ call[c].at # "touch" => hash[c] # None /\ hash[c] <= config.ttl

(* What a page shows becomes right: once nobody comes or goes any more     *)
(* and somebody is there to see it, the last roster ends up, and stays,    *)
(* the people who are there, each with the number of their connections -   *)
(* whichever way the others went: leaving, closing, with a heartbeat still *)
(* in its handler, or with their replica.                                  *)
Roster(cs) == [u \in {UserOf[c] : c \in cs} |-> Cardinality({c \in cs : UserOf[c] = u})]
RosterSettles ==
  \A cs \in SUBSET Conn \ {{}} : <>[](room = cs) => <>[](Roster(told) = Roster(cs))
=============================================================================
