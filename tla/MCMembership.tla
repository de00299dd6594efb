---------------------------- MODULE MCMembership ----------------------------
(***************************************************************************)
(* An owner with two tabs, an editor with the board open, and somebody who *)
(* is not a member yet.                                                    *)
(***************************************************************************)
EXTENDS Membership, TLC

CONSTANTS ana, ben, cy, r1, r2, r3

MCStart == [p \in {ana, ben, cy} |-> CASE p = ana -> "OWNER" [] p = ben -> "EDITOR" [] OTHER -> None]

In(o, a, t, x) == [op |-> o, actor |-> a, target |-> t, role |-> x]

MCOffered ==
  {In("add", ana, ana, "VIEWER"), In("add", ana, ben, "OWNER"), In("add", ana, cy, "EDITOR"),
   In("update", ana, ben, "VIEWER"), In("update", ana, ana, "EDITOR"),
   In("update", ana, ben, "OWNER"), In("remove", ana, ben, "VIEWER"),
   In("remove", ana, ana, "VIEWER"), In("remove", ben, ben, "VIEWER"),
   In("rename", ana, ana, "VIEWER"), In("delete", ana, ana, "VIEWER"),
   In("create", ana, ana, "OWNER"), In("signup", cy, cy, "OWNER"),
   In("write", ben, ben, "VIEWER"), In("write", cy, cy, "VIEWER")}

MCSymmetry == Permutations(Request)
=============================================================================
