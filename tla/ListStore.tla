------------------------------ MODULE ListStore ------------------------------
(***************************************************************************)
(* What createList, updateList, moveList and archiveList promise, with all *)
(* concurrency taken away: a request takes effect on the lists of the      *)
(* board in ONE step, against the rows as they are at that step and with   *)
(* one line in the journal, or never. It may be told that it failed though *)
(* it took effect only if it is an updateList, which reads the database    *)
(* once more after its commit.                                             *)
(*                                                                         *)
(* ListWrites extends this module with the transactions that are meant to  *)
(* keep the promise.                                                       *)
(***************************************************************************)
EXTENDS Naturals, Sequences

CONSTANTS
  List,         \* lists, of this board and of others, those to be made included
  Foreign,      \* the ones of another board
  Fresh,        \* Fresh[r]: the id that a list made by request r gets
  Start,        \* the lists at the start: Start[l] = [state, pos]
  Request,      \* requests
  Offered,      \* the inputs they choose from
  None,         \* null
  MaxKey        \* bound: positions are 1 .. MaxKey - 1, in a dense order really

Key == 1 .. MaxKey - 1

State == {"absent", "live", "archived"}

ASSUME StartAssumption ==
  /\ Foreign \subseteq List
  /\ Start \in [List -> [state : State, pos : Key \union {0}]]
  /\ Fresh \in [Request -> {l \in List : Start[l].state = "absent"} \ Foreign]
  /\ \A r, q \in Request : Fresh[r] = Fresh[q] => r = q
  /\ \A l, m \in List \ Foreign :
       Start[l].pos = Start[m].pos /\ Start[l].state # "absent" => l = m \/ Start[m].state = "absent"

Op == {"create", "update", "move", "archive"}

(* afterListId, and which of the fields of updateList have been sent; wip  *)
(* says whether the limit is one the database would take.                  *)
Input ==
  [op : Op, list : List \union {None}, after : List \union {None},
   sets : SUBSET {"name", "wip"}, wip : BOOLEAN]

(* A row of the lists table; name and wip are the requests that set them.  *)
Row == [id : List, state : State, pos : Key \union {0}, name : Request \union {None},
        wip : Request \union {None}]

Code == {"OK", "NOT_FOUND", "INVALID", "CONFLICT", "INTERNAL"}

ASSUME NoneAssumption == None \notin Request \union List \union Input \union Row \union Code

(* createList names no list, the other three a list that is there.         *)
ASSUME OfferedAssumption ==
  /\ Offered \subseteq Input
  /\ \A i \in Offered : i.list = None <=> i.op = "create"

VARIABLES
  list,     \* list[l]: its row, as committed
  journal,  \* the requests that have taken effect, in that order
  inp,      \* inp[r]: what request r asks for, None before it is made
  ans       \* ans[r]: the code its caller got, None until it is answered

storeVars == <<list, journal, inp, ans>>

StoreInit ==
  /\ list = [l \in List |-> [id |-> l, state |-> Start[l].state, pos |-> Start[l].pos,
                             name |-> None, wip |-> None]]
  /\ journal = <<>>
  /\ inp = [r \in Request |-> None]
  /\ ans = [r \in Request |-> None]

-----------------------------------------------------------------------------
OnBoard(l) == l \notin Foreign /\ list[l].state # "absent"

Committed(r) == \E k \in DOMAIN journal : journal[k] = r

(* A list can be named once it has been there. A limit below 1 is refused  *)
(* before anything is read.                                                *)
Submit(r) ==
  /\ inp[r] = None
  /\ \E i \in {j \in Offered : j.list = None \/ list[j.list].state # "absent"} :
       /\ inp' = [inp EXCEPT ![r] = i]
       /\ ans' = IF i.wip THEN ans ELSE [ans EXCEPT ![r] = "INVALID"]
  /\ UNCHANGED <<list, journal>>

(* No other list of the board, archived ones included, is at position k,   *)
(* and it is below the list the caller named, a live one at that moment.   *)
Fits(k, l, after) ==
  /\ \A m \in List \ {l} : OnBoard(m) => list[m].pos # k
  /\ after # None =>
       after # l /\ after \notin Foreign /\ list[after].state = "live" /\ list[after].pos < k

StoreCreate(r) ==
  LET l == Fresh[r]
  IN  /\ inp[r].op = "create"
      /\ list[l].state = "absent"
      /\ \E k \in Key :
           /\ Fits(k, l, inp[r].after)
           /\ list' = [list EXCEPT ![l] =
                [id |-> l, state |-> "live", pos |-> k, name |-> r, wip |-> r]]

(* A move changes the position alone, of a list that may have been         *)
(* archived since it was found.                                            *)
StoreMove(r) ==
  LET l == inp[r].list
  IN  /\ inp[r].op = "move"
      /\ OnBoard(l)
      /\ \E k \in Key :
           /\ Fits(k, l, inp[r].after)
           /\ list' = [list EXCEPT ![l].pos = k]

(* An update changes the columns that were sent, and no other.             *)
StoreUpdate(r) ==
  LET l == inp[r].list
  IN  /\ inp[r].op = "update"
      /\ OnBoard(l)
      /\ list' = [list EXCEPT
           ![l].name = IF "name" \in inp[r].sets THEN r ELSE list[l].name,
           ![l].wip = IF "wip" \in inp[r].sets THEN r ELSE list[l].wip]

StoreArchive(r) ==
  /\ inp[r].op = "archive"
  /\ OnBoard(inp[r].list)
  /\ list' = [list EXCEPT ![inp[r].list].state = "archived"]

(* Nothing takes effect twice, or after its caller has been answered.      *)
Apply(r) ==
  /\ inp[r] # None /\ ans[r] = None /\ ~Committed(r)
  /\ StoreCreate(r) \/ StoreMove(r) \/ StoreUpdate(r) \/ StoreArchive(r)
  /\ journal' = Append(journal, r)
  /\ UNCHANGED <<inp, ans>>

(* OK is said of what has taken effect, and a refusal of what has not.     *)
Reply(r) ==
  /\ inp[r] # None /\ ans[r] = None
  /\ \E code \in Code :
       /\ ans' = [ans EXCEPT ![r] = code]
       /\ code = "OK" => Committed(r)
       /\ code # "OK" /\ Committed(r) => inp[r].op = "update" /\ code = "INTERNAL"
  /\ UNCHANGED <<list, journal, inp>>

StoreNext == \E r \in Request : Submit(r) \/ Apply(r) \/ Reply(r)

StoreSpec == StoreInit /\ [][StoreNext]_storeVars
=============================================================================
