---------------------------- MODULE AtomicBoard ----------------------------
(***************************************************************************)
(* What the operations of services/board-ops promise to a caller that      *)
(* makes one call at a time: a call that is answered OK has written one    *)
(* card, with its labels, or one list, and one line of activity, all in    *)
(* one step; one that is refused has written nothing; and CONFLICT is the  *)
(* answer to positions that collided MaxTries times in a row.              *)
(***************************************************************************)
EXTENDS Naturals

CONSTANT MaxTries

VARIABLES
  board,     \* [cards, lists: id -> row, labels: id -> set, feed: a count]
  answer,    \* "none" while a call runs, and then its answer
  collided   \* how many attempts of the call have collided

atomicVars == <<board, answer, collided>>

(* One row of a table is new or changed, and counts the change. *)
OneWritten(old, new) ==
  \E i \in DOMAIN old :
    /\ new = [old EXCEPT ![i] = new[i]]
    /\ new[i].writes = old[i].writes + 1

AtomicInit ==
  /\ board.feed = 0
  /\ answer = "OK"
  /\ collided = 0

Call == answer # "none" /\ answer' = "none" /\ collided' = 0 /\ UNCHANGED board

Collision ==
  /\ answer = "none" /\ collided < MaxTries
  /\ collided' = collided + 1
  /\ UNCHANGED <<board, answer>>

Commit ==
  /\ answer = "none" /\ answer' = "OK" /\ collided' = collided
  /\ board'.feed = board.feed + 1
  /\ \/ /\ OneWritten(board.cards, board'.cards)
        /\ \A c \in DOMAIN board.cards :
             board'.labels[c] # board.labels[c] => board'.cards[c] # board.cards[c]
        /\ board'.lists = board.lists
     \/ /\ OneWritten(board.lists, board'.lists)
        /\ board'.cards = board.cards /\ board'.labels = board.labels

RefuseCall ==
  /\ answer = "none" /\ answer' # "none" /\ answer' # "OK"
  /\ answer' = "CONFLICT" <=> collided = MaxTries
  /\ UNCHANGED <<board, collided>>

AtomicSpec == AtomicInit /\ [][Call \/ Collision \/ Commit \/ RefuseCall]_atomicVars
=============================================================================
