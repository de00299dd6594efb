----------------------------- MODULE MCCardWrites -----------------------------
(***************************************************************************)
(* Instances of CardWrites for TLC.                                        *)
(***************************************************************************)
EXTENDS CardWrites

CONSTANTS a1, a2, z, b1, x1,  \* seeded cards
          A, B, X,            \* lists; X is another board's
          r1, r2, r3

MCSeedCard == {a1, a2, z, b1, x1}
MCList == {A, B, X}

(* A: a1, the archived z in the very middle of the gap, a2. B: b1.         *)
MCInitRow ==
  [c \in MCSeedCard \union Request |->
     CASE c = a1 -> [list |-> A, pos |-> 8, ver |-> 0, state |-> "live"]
       [] c = z  -> [list |-> A, pos |-> 12, ver |-> 1, state |-> "archived"]
       [] c = a2 -> [list |-> A, pos |-> 16, ver |-> 0, state |-> "live"]
       [] c = b1 -> [list |-> B, pos |-> 16, ver |-> 0, state |-> "live"]
       [] c = x1 -> [list |-> X, pos |-> 16, ver |-> 0, state |-> "live"]
       [] OTHER  -> [list |-> None, pos |-> 0, ver |-> 0, state |-> "absent"]]

Moves(cards, lists, anchors) ==
  {s \in [op : {"move"}, card : cards, list : lists, after : anchors, labelsOk : {TRUE}] :
     s.after # s.card}

Creates(r, lists, anchors, ok) ==
  [op : {"create"}, card : {r}, list : lists, after : anchors, labelsOk : ok]

Edits(ops, cards, ok) ==
  [op : ops, card : cards, list : {None}, after : {None}, labelsOk : ok]

Closings(lists) ==
  [op : {"archiveList"}, card : {None}, list : lists, after : {None}, labelsOk : {TRUE}]

(* Two requests of every kind.                                             *)
PairOffered ==
  [r \in Request |->
     Moves({a1, a2, b1, x1}, {A, B}, {None, a1, b1})
       \union Moves({a1}, {X}, {None})
       \union Creates(r, {A, B, X}, {None, a1}, BOOLEAN)
       \union Edits({"update", "archive"}, {a1, x1}, BOOLEAN)
       \union Closings({A, B, X})]
(* Three requests with a part each: two moves in opposite directions or an *)
(* archiving against a move, and a third that fills, or closes, a list.    *)
TripleOffered ==
  [r \in Request |->
     CASE r = r1 -> Moves({a1}, {A, B}, {None, b1})
       [] r = r2 -> Moves({b1}, {A}, {None, a1}) \union Edits({"archive"}, {a1}, {TRUE})
       [] r = r3 -> Creates(r, {B}, {None}, {TRUE}) \union Moves({b1, r2}, {A}, {None})
                      \union Closings({B})]
=============================================================================
