----------------------------- MODULE MCBoardSync -----------------------------
(***************************************************************************)
(* Instances of BoardSync for TLC.                                         *)
(***************************************************************************)
EXTENDS BoardSync, TLC

CONSTANTS k1, k2, A, B, c1, c2, g1, g2, q1, q2, q3

MCInitRow ==
  [c \in SeedCard \union Request |->
     IF c \in SeedCard
     THEN [list |-> A, pos |-> IF c = k1 THEN 1 ELSE 2, ver |-> 0, state |-> "live"]
     ELSE [list |-> None, pos |-> 0, ver |-> 0, state |-> "absent"]]

MCHome == (c1 :> g1) @@ (c2 :> g2)

OneHome == [c \in Client |-> g1]

MCOwner == [r \in Request |-> IF r = q2 THEN c2 ELSE c1]

Asks(ops, cards, lists, afters) ==
  [op : ops, card : cards, list : lists, after : afters, labelsOk : {TRUE}]

Edits(card, lbls) ==
  [op : {"update"}, card : {card}, list : {None}, after : {None}, labelsOk : lbls]

(* q1 drops k1 into B or edits it; q2 does anything but drop a card; q3    *)
(* follows up.                                                             *)
MCOffered ==
  (q1 :> Asks({"move"}, {k1}, {B}, {None}) \union Edits(k1, {TRUE})) @@
  (q2 :> Asks({"create"}, {q2}, {B}, {None}) \union Asks({"archive"}, {k1}, {None}, {None})
           \union Edits(k1, {TRUE}) \union Asks({"archiveList"}, {None}, {B}, {None})) @@
  (q3 :> Asks({"move"}, {k1}, {A}, {None}) \union Asks({"archive"}, {k1, q2}, {None}, {None}))

(* q1 drops k1 below k2; q2 edits it, or archives k2 or the list.          *)
RefuseOffered ==
  (q1 :> Asks({"move"}, {k1}, {A}, {k2})) @@
  (q2 :> Edits(k1, {TRUE}) \union Asks({"archive"}, {k2}, {None}, {None})
           \union Asks({"archiveList"}, {None}, {A}, {None}))

(* q1 drops k1 below k2, in the column where both are.                     *)
DropOffered ==
  (q1 :> Asks({"move"}, {k1}, {A}, {k2})) @@ (q2 :> Edits(k1, {TRUE}))
=============================================================================
