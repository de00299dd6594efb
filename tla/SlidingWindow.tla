---------------------------- MODULE SlidingWindow ----------------------------
(***************************************************************************)
(* What a rate limit promises: of the events of one connection, at most    *)
(* Limit are allowed in any window, an event is refused only when that     *)
(* many were allowed, and a refusal costs nothing.  The window is counted  *)
(* in ticks; an event counts for Window of them, starting with its own.    *)
(***************************************************************************)
EXTENDS Naturals, Sequences

CONSTANTS Limit, Window

VARIABLES
  allowed,   \* how long ago each event was allowed that still counts, oldest first
  verdict,   \* what the last event was told: TRUE if it was allowed
  left       \* how many more events the window has room for

windowVars == <<allowed, verdict, left>>

Used == Len(allowed)

WindowInit ==
  /\ allowed = <<>>
  /\ verdict = TRUE
  /\ left = Limit

Allow ==
  /\ Used < Limit
  /\ allowed' = Append(allowed, 0)
  /\ verdict' = TRUE
  /\ left' = Limit - Used'

Refuse ==
  /\ Used = Limit
  /\ verdict' = FALSE
  /\ UNCHANGED <<allowed, left>>

(* A tick: the first n, which were allowed a whole window ago, no longer   *)
(* count.                                                                  *)
WindowTick ==
  /\ \E n \in 0 .. Used :
       /\ \A i \in 1 .. Used : i <= n <=> allowed[i] + 1 = Window
       /\ allowed' = [i \in 1 .. Used - n |-> allowed[n + i] + 1]
  /\ left' = Limit - Used'
  /\ UNCHANGED verdict

WindowSpec == WindowInit /\ [][Allow \/ Refuse \/ WindowTick]_windowVars
=============================================================================
