--------------------------- MODULE MCActivityFeed ---------------------------
(***************************************************************************)
(* A board with two columns and an archived one between them, a list of    *)
(* another board, and three old lines, two of them of the same instant.    *)
(***************************************************************************)
EXTENDS ActivityFeed, TLC

CONSTANTS la, lb, lx, lf, n1, n2, r1, r2, p1, p2, p3

MCStart ==
  [l \in List |-> CASE l = la -> [state |-> "live", pos |-> 2]
                    [] l = lx -> [state |-> "archived", pos |-> 4]
                    [] l = lb -> [state |-> "live", pos |-> 6]
                    [] l = lf -> [state |-> "live", pos |-> 2]
                    [] OTHER  -> [state |-> "absent", pos |-> 0]]

MCFresh == [r \in Request |-> IF r = r1 THEN n1 ELSE n2]

In(o, l, a, s) == [op |-> o, list |-> l, after |-> a, sets |-> s, wip |-> TRUE]

MCOffered ==
  {In("create", None, None, {}), In("create", None, la, {}),
   [In("create", None, None, {}) EXCEPT !.wip = FALSE],
   In("update", la, None, {"wip"}), In("update", n1, None, {"name"}), In("update", lf, None, {"name"}),
   In("move", la, lb, {}), In("move", lb, lx, {}),
   In("archive", la, None, {})}

MCPastTime == [x \in Past |-> IF x = p3 THEN 1 ELSE 0]

MCRank == [x \in Past \union Request |->
             CASE x = r1 -> 1 [] x = p1 -> 2 [] x = r2 -> 3 [] x = p2 -> 4 [] OTHER -> 5]
=============================================================================
