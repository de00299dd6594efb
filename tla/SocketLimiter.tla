---------------------------- MODULE SocketLimiter ----------------------------
(***************************************************************************)
(* SocketRateLimiter (apps/realtime/src/rate-limit.ts): the limiter of one *)
(* connection, which every event of the connection goes through first.  It *)
(* keeps the times of the events it allowed, oldest first, and throws away *)
(* those outside the window only when the next event arrives.  Times are   *)
(* ages in ticks, counted up to one more than HitWindow.                   *)
(***************************************************************************)
EXTENDS Naturals, Sequences, FiniteSets

CONSTANTS
  HitLimit,     \* SOCKET_EVENT_RATE_LIMIT, for the length of the window
  HitWindow     \* windowMs, in ticks

(* The constructor throws if the limit is no positive integer. *)
ASSUME LimiterAssumption == HitLimit \in Nat \ {0} /\ HitWindow \in Nat \ {0}

VARIABLES
  hits,         \* the ages of the events allowed, oldest first
  allowedLast   \* what the last event was told

limiterVars == <<hits, allowedLast>>

LimiterInit == hits = <<>> /\ allowedLast = TRUE

(* Mutant: an event exactly one window old still counts. *)
OutsideLater(age) == age > HitWindow
Outside(age) == age >= HitWindow

(* The while loop of take shifts events off the front until one is inside. *)
Shifted ==
  CHOOSE n \in 0 .. Len(hits) :
    /\ \A i \in 1 .. n : Outside(hits[i])
    /\ n < Len(hits) => ~ Outside(hits[n + 1])

Evicted == SubSeq(hits, Shifted + 1, Len(hits))

Take ==
  /\ IF Len(Evicted) >= HitLimit
       THEN hits' = Evicted /\ allowedLast' = FALSE
       ELSE hits' = Append(Evicted, 0) /\ allowedLast' = TRUE

Remaining ==
  LET live == Cardinality({i \in DOMAIN hits : hits[i] < HitWindow})
  IN  IF live > HitLimit THEN 0 ELSE HitLimit - live

(* Ages stop counting past the window. *)
LimiterTick ==
  /\ hits' = [i \in DOMAIN hits |-> IF hits[i] > HitWindow THEN hits[i] ELSE hits[i] + 1]
  /\ UNCHANGED allowedLast

LimiterNext == Take \/ LimiterTick

LimiterSpec == LimiterInit /\ [][LimiterNext]_limiterVars

(* Throwing away late changes nothing: the limiter allows and refuses      *)
(* exactly what a window over the events it allowed would, and remaining() *)
(* is the room that window has.                                            *)
Abstract == INSTANCE SlidingWindow
  WITH Limit <- HitLimit, Window <- HitWindow,
       allowed <- Evicted, verdict <- allowedLast, left <- Remaining

LimiterIsAWindow == Abstract!WindowSpec
=============================================================================
