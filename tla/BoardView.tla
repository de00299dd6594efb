------------------------------ MODULE BoardView ------------------------------
(***************************************************************************)
(* The board as a browser holds it: apps/web/lib/board-state.ts.           *)
(*                                                                         *)
(* A view is a record: the lists on the screen, and the cards in them. A   *)
(* card on the screen carries                                              *)
(*   id, list, pos, ver  its identity, column, ordering key and version;   *)
(*   text the request that wrote its title and what else a card says;      *)
(*   by   the request by which this client dropped it there, as a set that *)
(*        is empty once the server's word has replaced the drop;           *)
(*   at   "pos" if the column shows it where its key sorts it, "drop" if   *)
(*        the column shows it at the index at which it was dropped.        *)
(* asOf is not in the code: the requests that had been carried out when    *)
(* the server began to read the last snapshot that was taken in.           *)
(***************************************************************************)
EXTENDS Naturals

Holds(v, c) == \E e \in v.cards : e.id = c

Held(v, c) == CHOOSE e \in v.cards : e.id = c

Without(v, c) == {e \in v.cards : e.id # c}

(* byPosition over one column: every card of it goes where its key says.   *)
Resorted(cards, l) == {[e EXCEPT !.at = IF e.list = l THEN "pos" ELSE e.at] : e \in cards}

(* The column of e with e in it, sorted; mapList leaves a board without    *)
(* that column as it is.                                                   *)
Placed(v, cards, e) ==
  IF e.list \in v.lists
  THEN [v EXCEPT !.cards = Resorted(cards \union {e}, e.list)]
  ELSE [v EXCEPT !.cards = cards]

(* card.created.                                                           *)
Created(v, card) == IF Holds(v, card.id) THEN v ELSE Placed(v, v.cards, card)

(* Mutant: a card.updated that was overtaken is applied.                   *)
UpdatedUnchecked(v, card) ==
  IF ~Holds(v, card.id) THEN v
  ELSE Placed(v, Without(v, card.id),
         [card EXCEPT !.list = Held(v, card.id).list, !.by = Held(v, card.id).by])

(* card.updated: everything but the column is the event's.                 *)
Updated(v, card) ==
  IF ~Holds(v, card.id) \/ card.ver < Held(v, card.id).ver THEN v
  ELSE Placed(v, Without(v, card.id),
         [card EXCEPT !.list = Held(v, card.id).list, !.by = Held(v, card.id).by])

(* Mutant: a card.moved that was overtaken is applied.                     *)
MovedUnchecked(v, card) ==
  IF ~Holds(v, card.id) THEN v
  ELSE Placed(v, Without(v, card.id), [card EXCEPT !.text = Held(v, card.id).text])

(* card.moved: the card leaves wherever it is for the event's column, or   *)
(* the screen if that column is not on it. The event says nothing of what  *)
(* is written on the card.                                                 *)
Moved(v, card) ==
  IF ~Holds(v, card.id) \/ card.ver < Held(v, card.id).ver THEN v
  ELSE Placed(v, Without(v, card.id), [card EXCEPT !.text = Held(v, card.id).text])

Archived(v, c) == [v EXCEPT !.cards = Without(v, c)]

ListArchived(v, l) ==
  [v EXCEPT !.lists = v.lists \ {l}, !.cards = {e \in v.cards : e.list # l}]

(* Mutant: the card is not taken out of the column it came from.           *)
DroppedTwice(v, c, l, r) ==
  IF ~Holds(v, c) \/ l \notin v.lists THEN v
  ELSE [v EXCEPT !.cards = v.cards \union
          {[Held(v, c) EXCEPT !.list = l, !.by = {r}, !.at = "drop"]}]

(* applyOptimisticMove: the card is spliced into column l, its key and     *)
(* version as they were. Nothing is sorted.                                *)
Dropped(v, c, l, r) ==
  IF ~Holds(v, c) \/ l \notin v.lists THEN v
  ELSE [v EXCEPT !.cards = Without(v, c) \union
          {[Held(v, c) EXCEPT !.list = l, !.by = {r}, !.at = "drop"]}]

(* reduce, for what the server sends.                                      *)
Reduce(v, m) ==
  CASE m.kind = "board.state"   -> m.board
    [] m.kind = "card.created"  -> Created(v, m.card)
    [] m.kind = "card.updated"  -> Updated(v, m.card)
    [] m.kind = "card.moved"    -> Moved(v, m.card)
    [] m.kind = "card.archived" -> Archived(v, m.id)
    [] m.kind = "list.archived" -> ListArchived(v, m.id)
=============================================================================
