----------------------------- MODULE MemoryRepo -----------------------------
(***************************************************************************)
(* The in-memory repository (services/board-ops/src/memory-repository.ts)  *)
(* under the operations of cards.ts and move.ts: a transaction works on    *)
(* the tables in place, with a copy of them taken beforehand, and puts the *)
(* copy back when the work throws.  Its caller makes one call at a time:   *)
(* the repository says of itself that it does not isolate.                 *)
(*                                                                         *)
(* A row counts its writes, which for a card is its version, and has no    *)
(* position: a collision is something the options ask for.                 *)
(***************************************************************************)
EXTENDS Naturals, FiniteSets

CONSTANTS
  Tries,         \* maxAttempts
  CardId,        \* 1 .. n, in the order in which ids are given out
  ListId,        \* as well
  SeedCards,     \* [the seeded cards -> the list of each]
  SeedLists,     \* the seeded lists
  ClosedList,    \* those of them that are archived
  OwnLabel,      \* the labels of the board
  OtherLabel,    \* a label of another board
  MaxCalls       \* bound: how many calls are made

VARIABLES
  mem,           \* the tables: cards, lists, labels, feed
  saved,         \* the copy a transaction has taken, in a set
  sequence,      \* [cards, lists -> the last id given out]
  options,       \* the collisions asked for: "never", "once" or "always"
  collidedOnce,
  work,          \* the call: what it asks for, and which step is next
  attempt,       \* withPositionRetry's counter
  result,        \* "none" while a call runs, and then its answer
  calls          \* how many calls have been made

memoryVars == <<mem, saved, sequence, options, collidedOnce, work, attempt, result, calls>>

CardOp == {"createCard", "moveCard", "updateCard", "archiveCard"}
ListOp == {"createList", "moveList", "updateList", "archiveList"}
Places(op) == op \in {"createCard", "moveCard", "createList", "moveList"}

(* Ids are numbered from 1, and the seed has the first of them.            *)
ASSUME RepositoryAssumption ==
  /\ Tries \in Nat \ {0}
  /\ CardId \subseteq Nat /\ ListId \subseteq Nat /\ 1 \in CardId /\ 1 \in ListId
  /\ \E n \in CardId \union {0} : DOMAIN SeedCards = 1 .. n /\ 1 .. n \subseteq CardId
  /\ \E k \in ListId \union {0} : SeedLists = 1 .. k /\ 1 .. k \subseteq ListId
  /\ \A c \in DOMAIN SeedCards : SeedCards[c] \in ListId

(* card: 0 for one to be created; list: where a card goes, or the list     *)
(* itself; anchor: whether the neighbour named is there; labels: a set in  *)
(* a set, or nothing.  The version sent is the current one or older.       *)
Wish ==
  [op : CardOp, may : BOOLEAN, card : CardId, list : ListId, anchor : BOOLEAN,
   current : BOOLEAN, labels : {{}} \union {{ls} : ls \in SUBSET (OwnLabel \union {OtherLabel})}]
    \union
  [op : ListOp, may : BOOLEAN, card : {0}, list : ListId, anchor : BOOLEAN,
   current : {TRUE}, labels : {{}}]

(* What does not matter to an operation is left at one value. *)
Sensible(w) ==
  /\ w.op \in {"moveCard", "archiveCard"} => w.labels = {}
  /\ w.op \in {"updateCard", "archiveCard"} => w.list = 1
  /\ ~ Places(w.op) => w.anchor
  /\ w.op = "createCard" => w.card = 1 /\ w.current
  /\ w.op = "createList" => w.list = 1
  /\ ~ w.may => w.anchor /\ w.current /\ w.labels = {} /\ w.card < 2 /\ w.list = 1

Wishes == {w \in Wish : Sensible(w)}

NoRow == [state |-> "absent", list |-> 0, writes |-> 0]

MemoryInit ==
  /\ mem = [cards  |-> [c \in CardId |-> IF c \in DOMAIN SeedCards
                          THEN [state |-> "live", list |-> SeedCards[c], writes |-> 1] ELSE NoRow],
            lists  |-> [l \in ListId |-> IF l \in SeedLists
                          THEN [state |-> IF l \in ClosedList THEN "archived" ELSE "live", writes |-> 1]
                          ELSE [state |-> "absent", writes |-> 0]],
            labels |-> [c \in CardId |-> {}],
            feed   |-> 0]
  /\ saved = {}
  /\ sequence = [cards |-> Cardinality(DOMAIN SeedCards), lists |-> Cardinality(SeedLists)]
  /\ options = "never" /\ collidedOnce = FALSE
  /\ work = [step |-> "idle", ask |-> CHOOSE w \in Wishes : TRUE, found |-> 0]
  /\ attempt = 0
  /\ result = "OK"
  /\ calls = 0

----------------------------------------------------------------------------
Step(s) == work' = [work EXCEPT !.step = s]
Asked == work.ask

(* setOptions, between two calls. *)
SetOptions ==
  /\ work.step = "idle" /\ calls < MaxCalls
  /\ options' \in {"never", "once", "always"} \ {options}
  /\ collidedOnce' = FALSE
  /\ UNCHANGED <<mem, saved, sequence, work, attempt, result, calls>>

(* A call: the role is asked for before there is a transaction. *)
CallOperation ==
  /\ work.step = "idle" /\ calls < MaxCalls
  /\ calls' = calls + 1
  /\ attempt' = 1
  /\ result' = "none"
  /\ \E w \in Wishes : work' = [step |-> IF w.may THEN "begin" ELSE "forbidden", ask |-> w, found |-> 0]
  /\ UNCHANGED <<mem, saved, sequence, options, collidedOnce>>

Forbidden ==
  /\ work.step = "forbidden"
  /\ Step("idle") /\ result' = "FORBIDDEN"
  /\ UNCHANGED <<mem, saved, sequence, options, collidedOnce, attempt, calls>>

(* withTransaction. *)
BeginWork ==
  /\ work.step = "begin"
  /\ saved' = {mem}
  /\ Step("check")
  /\ UNCHANGED <<mem, sequence, options, collidedOnce, attempt, result, calls>>

(* Mutant: the rollback forgets the table of cards. *)
RollbackLists(t) == [t EXCEPT !.cards = mem.cards]
Rollback(t) == t

Throw(code) ==
  /\ mem' \in {Rollback(t) : t \in saved}
  /\ saved' = {}
  /\ Step("idle") /\ result' = code

(* What the operations check before they write; "" when they go on. *)
Refusal ==
  LET c == mem.cards[Asked.card]
      l == mem.lists[Asked.list]
  IN  CASE Asked.op \in CardOp \ {"createCard"} /\ c.state # "live"         -> "NOT_FOUND"
        [] Asked.op \in {"createCard", "moveCard"} \union (ListOp \ {"createList"})
             /\ l.state # "live"                                            -> "NOT_FOUND"
        [] Asked.op \in {"moveCard", "updateCard"} /\ ~ Asked.current       -> "STALE"
        [] ~ Asked.anchor                                                   -> "INVALID"
        [] OTHER                                                            -> ""

Check ==
  /\ work.step = "check"
  /\ IF Refusal = "" THEN Step("write") /\ UNCHANGED <<mem, saved, result>> ELSE Throw(Refusal)
  /\ UNCHANGED <<sequence, options, collidedOnce, attempt, calls>>

----------------------------------------------------------------------------
ShouldCollide == Places(Asked.op) /\ (options = "always" \/ (options = "once" /\ ~ collidedOnce))

(* A collision: the transaction throws, and the loop tries again, or gives *)
(* up with CONFLICT.                                                       *)
CollidePosition ==
  /\ work.step = "write" /\ ShouldCollide
  /\ collidedOnce' = (collidedOnce \/ options = "once")
  /\ mem' \in {Rollback(t) : t \in saved}
  /\ saved' = {}
  /\ attempt' = attempt + 1
  /\ Step(IF attempt < Tries THEN "begin" ELSE "conflict")
  /\ UNCHANGED <<sequence, options, result, calls>>

GiveUp ==
  /\ work.step = "conflict"
  /\ Step("idle") /\ result' = "CONFLICT"
  /\ UNCHANGED <<mem, saved, sequence, options, collidedOnce, attempt, calls>>

(* The rows as an operation leaves them.  archiveCard's condition on the   *)
(* version is the only one that its operation has not checked before.      *)
Rewritten(row) ==
  [row EXCEPT !.writes = @ + 1,
              !.state = IF Asked.op \in {"archiveCard", "archiveList"} THEN "archived" ELSE "live"]

Insert(table, id, row) ==
  /\ id \in DOMAIN mem[table]
  /\ mem' = [mem EXCEPT ![table][id] = row]
  /\ sequence' = [sequence EXCEPT ![table] = id]
  /\ work' = [work EXCEPT !.step = "labels", !.found = id]

WriteRow ==
  /\ work.step = "write" /\ ~ ShouldCollide
  /\ CASE Asked.op = "createCard" ->
            Insert("cards", sequence.cards + 1, [state |-> "live", list |-> Asked.list, writes |-> 1])
       [] Asked.op = "createList" ->
            Insert("lists", sequence.lists + 1, [state |-> "live", writes |-> 1])
       [] Asked.op \in ListOp \ {"createList"} ->
            /\ mem' = [mem EXCEPT !.lists[Asked.list] = Rewritten(@)]
            /\ Step("labels") /\ UNCHANGED sequence
       [] OTHER ->
            /\ Asked.op = "archiveCard" => Asked.current
            /\ LET row == Rewritten(mem.cards[Asked.card])
               IN  mem' = [mem EXCEPT !.cards[Asked.card] =
                     [row EXCEPT !.list = IF Asked.op = "moveCard" THEN Asked.list ELSE @]]
            /\ work' = [work EXCEPT !.step = "labels", !.found = Asked.card] /\ UNCHANGED sequence
  /\ UNCHANGED <<saved, options, collidedOnce, attempt, result, calls>>

ArchiveStale ==
  /\ work.step = "write" /\ Asked.op = "archiveCard" /\ ~ Asked.current
  /\ Throw("STALE")
  /\ UNCHANGED <<sequence, options, collidedOnce, attempt, calls>>

(* applyLabels comes after the row has been written. *)
ApplyLabels ==
  /\ work.step = "labels"
  /\ IF \E ls \in Asked.labels : ~ (ls \subseteq OwnLabel)
       THEN Throw("INVALID")
       ELSE /\ mem' = IF Asked.labels = {} THEN mem
                      ELSE [mem EXCEPT !.labels[work.found] = UNION Asked.labels]
            /\ Step("append") /\ UNCHANGED <<saved, result>>
  /\ UNCHANGED <<sequence, options, collidedOnce, attempt, calls>>

(* appendActivity, and the transaction is over. *)
AppendActivity ==
  /\ work.step = "append"
  /\ mem' = [mem EXCEPT !.feed = @ + 1]
  /\ saved' = {}
  /\ Step("idle") /\ result' = "OK"
  /\ UNCHANGED <<sequence, options, collidedOnce, attempt, calls>>

MemoryNext ==
  \/ SetOptions \/ CallOperation \/ Forbidden \/ BeginWork \/ Check
  \/ CollidePosition \/ GiveUp \/ WriteRow \/ ArchiveStale \/ ApplyLabels \/ AppendActivity

MemorySpec == MemoryInit /\ [][MemoryNext]_memoryVars

----------------------------------------------------------------------------
(* Working in place changes nothing: seen from between its calls, with the *)
(* copy standing for the tables while a transaction runs, the repository   *)
(* keeps what board-ops promises - whatever fails, and however often a     *)
(* position collides, a call has written all of its work or none.          *)
Atomic == INSTANCE AtomicBoard
  WITH MaxTries <- Tries,
       board <- IF saved = {} THEN mem ELSE CHOOSE t \in saved : TRUE,
       answer <- result,
       collided <- IF attempt = 0 THEN 0 ELSE attempt - 1

MemoryIsAtomic == Atomic!AtomicSpec
=============================================================================
