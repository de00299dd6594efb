------------------------------ MODULE CardStore ------------------------------
(***************************************************************************)
(* What the card operations of services/board-ops promise their callers,   *)
(* with all concurrency, locking and retrying taken away: a request either *)
(* takes effect on the board in ONE step, against the board as it is at    *)
(* that step, or is refused and leaves nothing behind.                     *)
(*                                                                         *)
(* CardWrites extends this module with the transactions that are meant to  *)
(* keep the promise, and is checked to implement StoreSpec.                *)
(***************************************************************************)
EXTENDS Naturals, FiniteSets

CONSTANTS
  SeedCard,     \* cards that exist before the first request
  Request,      \* the calls of the exported operations of board-ops; the card
                \* that a createCard call inserts is identified by the call
  List,         \* every list of the database
  ForeignList,  \* the lists of other boards than the one the requests name
  None,         \* null
  Offered,      \* Offered[r]: what the caller behind request r may ask for
  InitRow,      \* the cards table before the first request
  MaxKey        \* bound: the ordering keys are 1 .. MaxKey - 1

Card == SeedCard \union Request

Key == 1 .. MaxKey - 1

Op == {"move", "create", "update", "archive", "archiveList"}

(* The part of a request that its caller chooses.                          *)
Shape == [op : Op, card : Card \union {None}, list : List \union {None},
          after : Card \union {None}, labelsOk : BOOLEAN]

(* A request: its shape, and what the caller's view of the board adds to   *)
(* it, the expected version and the second neighbour.                      *)
Input == [op : Op, card : Card \union {None}, list : List \union {None},
          after : Card \union {None}, labelsOk : BOOLEAN,
          expected : Nat, before : Card \union {None}]

(* A row of the cards table. An archived card keeps its list and position. *)
Row == [list : List \union {None}, pos : 0 .. MaxKey - 1, ver : Nat,
        state : {"absent", "live", "archived"}]

Code == {"OK", "INVALID", "NOT_FOUND", "STALE", "CONFLICT", "INTERNAL"}

ASSUME MaxKeyAssumption == MaxKey \in Nat

ASSUME RequestAssumption == IsFiniteSet(Request)

ASSUME NamesAssumption ==
  /\ SeedCard \intersect Request = {}
  /\ None \notin Card \union List \union Code \union Input \union Row
  /\ Card \intersect List = {}
  /\ ForeignList \subseteq List

ASSUME OfferedAssumption ==
  \A r \in Request : \A s \in Offered[r] :
    /\ s \in Shape
    /\ s.op \in {"move", "update", "archive"} => s.card \in Card
    /\ s.op = "create" => s.card = r
    /\ s.op = "archiveList" => s.card = None
    /\ s.op \in {"move", "create", "archiveList"} => s.list \in List

ASSUME InitRowAssumption ==
  /\ InitRow \in [Card -> Row]
  /\ \A r \in Request : InitRow[r].state = "absent" /\ InitRow[r].ver = 0
  /\ \A c \in Card : InitRow[c].state # "absent" =>
       InitRow[c].list \in List /\ InitRow[c].pos \in Key
  /\ \A c, d \in Card :
       /\ c # d
       /\ InitRow[c].state # "absent"
       /\ InitRow[d].state # "absent"
       => ~ (InitRow[c].list = InitRow[d].list /\ InitRow[c].pos = InitRow[d].pos)

VARIABLES
  row,     \* the cards table, as committed
  closed,  \* the lists whose archivedAt is set, as committed
  inp,     \* inp[r]: what request r asks for, None before it is made
  ans      \* ans[r]: the code the caller of r got, None until it is answered

storeVars == <<row, closed, inp, ans>>

StoreTypeOK ==
  /\ row \in [Card -> Row]
  /\ closed \subseteq List
  /\ inp \in [Request -> Input \union {None}]
  /\ ans \in [Request -> Code \union {None}]

StoreInit ==
  /\ row = InitRow
  /\ closed = {}
  /\ inp = [r \in Request |-> None]
  /\ ans = [r \in Request |-> None]

-----------------------------------------------------------------------------
(* The caller.                                                             *)

IsLiveIn(c, l) == row[c].state = "live" /\ row[c].list = l

(* The live card that follows position p in list l, card c left out.       *)
Following(l, p, c) ==
  LET later   == {d \in Card \ {c} : IsLiveIn(d, l) /\ row[d].pos > p}
      nearest == {d \in later : \A e \in later : row[d].pos <= row[e].pos}
  IN  IF nearest = {} THEN None ELSE CHOOSE d \in nearest : TRUE

(* The caller's view shows what it asks for. The view is the board as it   *)
(* is when the call is made; by the time the call runs it may be stale.    *)
InView(s) ==
  /\ s.op \in {"move", "update", "archive"} => row[s.card].state = "live"
  /\ s.op \in {"move", "create", "archiveList"} => s.list \notin closed
  /\ s.after # None => IsLiveIn(s.after, s.list)

(* A client makes request r: it sends the version it holds and, for a      *)
(* move, both neighbours of the gap it dropped the card into.              *)
Submit(r) ==
  /\ inp[r] = None
  /\ \E s \in Offered[r] :
       /\ InView(s)
       /\ inp' = [inp EXCEPT ![r] =
            [op |-> s.op, card |-> s.card, list |-> s.list, after |-> s.after,
             labelsOk |-> s.labelsOk,
             expected |-> IF s.card = None THEN 0 ELSE row[s.card].ver,
             before |-> IF s.op # "move" THEN None
                        ELSE Following(s.list,
                               IF s.after = None THEN 0 ELSE row[s.after].pos, s.card)]]
  /\ UNCHANGED <<row, closed, ans>>

-----------------------------------------------------------------------------
(* The promise.                                                            *)

Pending(r) == inp[r] # None /\ ans[r] = None

(* No card, archived ones included, sits at position p of list l.          *)
FreeKey(l, p, c) ==
  \A d \in Card \ {c} :
    row[d].state # "absent" => ~ (row[d].list = l /\ row[d].pos = p)

(* The anchor the caller named is in list l and below it is position p.    *)
Below(a, l, p) == a # None => IsLiveIn(a, l) /\ row[a].pos < p

StoreMove(r) ==
  LET c == inp[r].card
      l == inp[r].list
  IN  /\ inp[r].op = "move"
      /\ row[c].state = "live"
      /\ row[c].ver = inp[r].expected
      /\ l \notin ForeignList
      /\ row[c].list \notin ForeignList
      /\ \E p \in Key :
           /\ FreeKey(l, p, c)
           /\ Below(inp[r].after, l, p)
           /\ row' = [row EXCEPT ![c] =
                [list |-> l, pos |-> p, ver |-> row[c].ver + 1, state |-> "live"]]
      /\ closed' = closed

StoreCreate(r) ==
  LET c == inp[r].card
      l == inp[r].list
  IN  /\ inp[r].op = "create"
      /\ inp[r].labelsOk
      /\ row[c].state = "absent"
      /\ l \notin ForeignList
      /\ \E p \in Key :
           /\ FreeKey(l, p, c)
           /\ Below(inp[r].after, l, p)
           /\ row' = [row EXCEPT ![c] =
                [list |-> l, pos |-> p, ver |-> 0, state |-> "live"]]
      /\ closed' = closed

(* An edit or an archiving: the card stays where it is.                    *)
StoreRewrite(r) ==
  LET c == inp[r].card
  IN  /\ \/ inp[r].op = "update" /\ inp[r].labelsOk
         \/ inp[r].op = "archive"
      /\ row[c].state = "live"
      /\ row[c].ver = inp[r].expected
      /\ row[c].list \notin ForeignList
      /\ row' = [row EXCEPT ![c].ver = row[c].ver + 1,
                            ![c].state = IF inp[r].op = "archive" THEN "archived"
                                         ELSE "live"]
      /\ closed' = closed

StoreArchiveList(r) ==
  /\ inp[r].op = "archiveList"
  /\ inp[r].list \notin ForeignList
  /\ closed' = closed \union {inp[r].list}
  /\ row' = row

Apply(r) ==
  /\ Pending(r)
  /\ StoreMove(r) \/ StoreCreate(r) \/ StoreRewrite(r) \/ StoreArchiveList(r)
  /\ ans' = [ans EXCEPT ![r] = "OK"]
  /\ inp' = inp

Refuse(r) ==
  /\ Pending(r)
  /\ \E code \in Code \ {"OK"} : ans' = [ans EXCEPT ![r] = code]
  /\ UNCHANGED <<row, closed, inp>>

StoreNext == \E r \in Request : Submit(r) \/ Apply(r) \/ Refuse(r)

StoreSpec == StoreInit /\ [][StoreNext]_storeVars
=============================================================================
