------------------------------ MODULE WaitGraph ------------------------------
(***************************************************************************)
(* Who waits for whom, as Postgres sees it when it looks for a deadlock:   *)
(* waits[r] is the set of transactions that r's statement waits for.       *)
(***************************************************************************)

(* Nobody in T waits for anybody outside T.                                *)
ClosedUnder(T, waits) == \A q \in T : waits[q] \subseteq T

(* r waits, directly or not, for itself: r is in every set of transactions *)
(* that holds what r waits for and what its members wait for.              *)
InCycle(r, waits) ==
  \A T \in SUBSET DOMAIN waits :
    waits[r] \subseteq T /\ ClosedUnder(T, waits) => r \in T
=============================================================================
