--------------------------- MODULE BoardSyncProofs ---------------------------
(***************************************************************************)
(* What a browser may rely on, however replicas, broadcasts, joins and     *)
(* refetches interleave, for any number of browsers, replicas, requests,   *)
(* cards, lists and faults.                                                *)
(***************************************************************************)
EXTENDS BoardSync, TLAPS

(* A card that is there has a list.                                        *)
RowsPlaced == \A c \in Card : row[c].state # "absent" => row[c].list \in List

(* What every request asks for is well formed.                             *)
GoodAsk(r) ==
  /\ inp[r].op \in Op
  /\ inp[r].op \in {"move", "update", "archive"} => inp[r].card \in Card
  /\ inp[r].op = "create" => inp[r].card = r
  /\ inp[r].op = "archiveList" => inp[r].card = None
  /\ inp[r].op \in {"move", "create", "archiveList"} => inp[r].list \in List

(* Which requests can be how far, and what they hold there.                *)
Where(r) ==
  /\ inp[r] = None => ans[r] = None
  /\ inp[r] # None => GoodAsk(r)
  /\ stage[r] \in {"refetch", "reading", "fetched"} => left[r] >= 1
  /\ stage[r] \in {"reading", "fetched"} => rest[r] \in Board
  /\ stage[r] = "applied" =>
       /\ inp[r] # None
       /\ inp[r].op # "archiveList" => made[r] \in Shown

(* What board.join has read while it is under way.                         *)
Joins(c) == link[c] \in {"reading", "entering"} => held[c] \in Board

Typed == TypeOK /\ RowsPlaced /\ (\A r \in Request : Where(r)) /\ \A c \in Client : Joins(c)
-----------------------------------------------------------------------------
(* The operators of BoardView take boards to boards.                       *)

(* A shown card with another list, another dropper or another place.       *)
LEMMA CardTyped ==
  ASSUME NEW e \in Shown
  PROVE  /\ \A l \in List, b \in SUBSET Request : [e EXCEPT !.list = l, !.by = b] \in Shown
         /\ \A l \in List, r \in Request :
              [e EXCEPT !.list = l, !.by = {r}, !.at = "drop"] \in Shown
         /\ \A t \in Request \union {None} : [e EXCEPT !.text = t] \in Shown
         /\ \A a \in {"pos", "drop"} : [e EXCEPT !.at = a] \in Shown
BY DEF Shown

(* A board with other lists or other cards.                                *)
LEMMA BoardTyped ==
  ASSUME NEW v \in Board
  PROVE  /\ \A s \in SUBSET Shown : [v EXCEPT !.cards = s] \in Board
         /\ \A l \in SUBSET List, s \in SUBSET Shown :
              [v EXCEPT !.lists = l, !.cards = s] \in Board
         /\ v.lists \subseteq List /\ v.cards \subseteq Shown /\ v.asOf \subseteq Request
BY DEF Board

(* The card a board holds is one of its cards.                             *)
LEMMA HeldTyped ==
  ASSUME NEW v \in Board, NEW c, Holds(v, c)
  PROVE  Held(v, c) \in v.cards /\ Held(v, c) \in Shown /\ Held(v, c).id = c
<1>1. Held(v, c) \in v.cards /\ Held(v, c).id = c
  BY DEF Holds, Held
<1> QED
  BY <1>1, BoardTyped

(* A card put into a board gives a board.                                  *)
LEMMA PlacedTyped ==
  ASSUME NEW v \in Board, NEW s \in SUBSET Shown, NEW e \in Shown
  PROVE  Placed(v, s, e) \in Board
<1>1. Resorted(s \union {e}, e.list) \subseteq Shown
  <2> SUFFICES ASSUME NEW f \in s \union {e}
               PROVE  [f EXCEPT !.at = IF f.list = e.list THEN "pos" ELSE f.at] \in Shown
    BY DEF Resorted
  <2>1. f \in Shown /\ f.at \in {"pos", "drop"}
    BY DEF Shown
  <2>2. (IF f.list = e.list THEN "pos" ELSE f.at) \in {"pos", "drop"}
    BY <2>1
  <2> QED
    BY <2>1, <2>2, CardTyped
<1> QED
  BY <1>1, BoardTyped DEF Placed

(* What a message of each kind carries.                                    *)
LEMMA MessageTyped ==
  ASSUME NEW m \in Message
  PROVE  /\ m.kind \in {"board.state", "card.created", "card.updated", "card.moved",
                        "card.archived", "list.archived", "ack"}
         /\ m.kind = "board.state" => m.board \in Board
         /\ m.kind \in {"card.created", "card.updated", "card.moved"} => m.card \in Shown
         /\ m.kind = "ack" => m.req \in Request /\ m.code \in Code
BY DEF Message

(* The reducer gives a board for every event that comes in.                *)
LEMMA ReduceTyped ==
  ASSUME NEW v \in Board, NEW m \in Message, m.kind # "ack"
  PROVE  Reduce(v, m) \in Board
<1>1. CASE m.kind = "board.state"
  BY <1>1, MessageTyped DEF Reduce
<1>2. CASE m.kind = "card.created"
  BY <1>2, MessageTyped, PlacedTyped, BoardTyped DEF Reduce, Created
<1>3. CASE m.kind = "card.updated"
  <2>1. CASE ~Holds(v, m.card.id)
    BY <1>3, <2>1 DEF Reduce, Updated
  <2>2. CASE Holds(v, m.card.id)
    <3> DEFINE h == Held(v, m.card.id)
    <3>1. h \in Shown /\ Without(v, m.card.id) \subseteq Shown /\ m.card \in Shown
      BY <1>3, <2>2, HeldTyped, BoardTyped, MessageTyped DEF Without
    <3>2. h.list \in List /\ h.by \in SUBSET Request
      BY <3>1 DEF Shown
    <3>3. [m.card EXCEPT !.list = h.list, !.by = h.by] \in Shown
      BY <3>1, <3>2, CardTyped
    <3> QED
      BY <1>3, <3>1, <3>3, PlacedTyped DEF Reduce, Updated
  <2> QED
    BY <2>1, <2>2
<1>4. CASE m.kind = "card.moved"
  <2>1. CASE ~Holds(v, m.card.id)
    BY <1>4, <2>1 DEF Reduce, Moved
  <2>2. CASE Holds(v, m.card.id)
    <3> DEFINE h == Held(v, m.card.id)
    <3>1. h \in Shown /\ Without(v, m.card.id) \subseteq Shown /\ m.card \in Shown
      BY <1>4, <2>2, HeldTyped, BoardTyped, MessageTyped DEF Without
    <3>2. h.text \in Request \union {None}
      BY <3>1 DEF Shown
    <3>3. [m.card EXCEPT !.text = h.text] \in Shown
      BY <3>1, <3>2, CardTyped
    <3> QED
      BY <1>4, <3>1, <3>3, PlacedTyped DEF Reduce, Moved
  <2> QED
    BY <2>1, <2>2
<1>5. CASE m.kind = "card.archived"
  <2>1. Without(v, m.id) \subseteq Shown
    BY BoardTyped DEF Without
  <2> QED
    BY <1>5, <2>1, BoardTyped DEF Reduce, Archived
<1>6. CASE m.kind = "list.archived"
  <2>1. v.lists \ {m.id} \subseteq List /\ {e \in v.cards : e.list # m.id} \subseteq Shown
    BY BoardTyped
  <2> QED
    BY <1>6, <2>1, BoardTyped DEF Reduce, ListArchived
<1> QED
  BY <1>1, <1>2, <1>3, <1>4, <1>5, <1>6, MessageTyped

(* The optimistic move gives a board.                                      *)
LEMMA DroppedTyped ==
  ASSUME NEW v \in Board, NEW c, NEW l, NEW r \in Request
  PROVE  Dropped(v, c, l, r) \in Board
<1>1. CASE ~Holds(v, c) \/ l \notin v.lists
  BY <1>1 DEF Dropped
<1>2. CASE Holds(v, c) /\ l \in v.lists
  <2>1. /\ [Held(v, c) EXCEPT !.list = l, !.by = {r}, !.at = "drop"] \in Shown
        /\ Without(v, c) \subseteq Shown
    BY <1>2, HeldTyped, BoardTyped, CardTyped DEF Without
  <2> QED
    BY <1>2, <2>1, BoardTyped DEF Dropped
<1> QED
  BY <1>1, <1>2

(* A committed card that has a list can be sent.                           *)
LEMMA WireTyped ==
  ASSUME NEW x \in [Card -> Row], NEW t \in [Card -> Request \union {None}], NEW c \in Card,
         x[c].list \in List
  PROVE  Wire(c, x, t) \in Shown
BY DEF Wire, Shown, Row

(* Both selects of readBoard give boards.                                  *)
LEMMA ReadTyped ==
  ASSUME TypeOK
  PROVE  /\ ListsRead \in Board
         /\ \A b \in Board : CardsRead(b) \in Board
<1>1. ListsRead \in Board
  BY DEF ListsRead, Board, OpenList, Applied
<1>2. ASSUME NEW b \in Board PROVE CardsRead(b) \in Board
  <2>1. ASSUME NEW d \in Card, row[d].list \in b.lists PROVE Wire(d, row, text) \in Shown
    BY <2>1, WireTyped, BoardTyped DEF TypeOK, StoreTypeOK
  <2> QED
    BY <2>1, BoardTyped DEF CardsRead
<1> QED
  BY <1>1, <1>2

(* Appending to a queue and taking its head.                               *)
LEMMA QueueTyped ==
  ASSUME NEW s \in Seq(Message)
  PROVE  /\ \A m \in Message : Append(s, m) \in Seq(Message)
         /\ s # <<>> => Head(s) \in Message /\ Tail(s) \in Seq(Message)
OBVIOUS

(* A broadcast leaves the streams typed.                                   *)
LEMMA ToldTyped ==
  ASSUME TypeOK, NEW p, NEW m \in Message
  PROVE  Told(p, m) \in [Client -> Seq(Message)]
BY QueueTyped DEF Told, TypeOK

(* So does an ack, which ends its request or orphans it.                   *)
LEMMA AckedTyped ==
  ASSUME TypeOK, NEW s \in [Client -> Seq(Message)], NEW r \in Request, NEW code \in Code
  PROVE  /\ Acked(s, r, code) \in [Client -> Seq(Message)]
         /\ AckStage(r) \in [Request -> Stage]
         /\ AckStage(r)[r] \in {"answered", "orphan"}
         /\ \A q \in Request \ {r} : AckStage(r)[q] = stage[q]
<1>1. [kind |-> "ack", req |-> r, code |-> code] \in Message
  BY DEF Message
<1>2. Acked(s, r, code) \in [Client -> Seq(Message)]
  BY <1>1, QueueTyped, ClientAssumption DEF Acked
<1> QED
  BY <1>2 DEF AckStage, TypeOK, Stage

(* A settled request is done, or fetches with an attempt left.             *)
LEMMA SettledTyped ==
  ASSUME TypeOK, NEW r \in Request, NEW op, NEW code, Settled(r, op, code)
  PROVE  /\ stage' \in [Request -> Stage]
         /\ left' \in [Request -> 0 .. 2]
         /\ stage'[r] \in {"done", "refetch"}
         /\ stage'[r] = "refetch" => left'[r] >= 1
         /\ \A q \in Request \ {r} : stage'[q] = stage[q] /\ left'[q] = left[q]
<1> DEFINE n == IF code = "OK" THEN 0 ELSE Refetches(op, code)
<1>1. n \in 0 .. 2
  BY DEF Refetches
<1>2. /\ stage' = [stage EXCEPT ![r] = IF n = 0 THEN "done" ELSE "refetch"]
      /\ left' = [left EXCEPT ![r] = n]
  BY DEF Settled
<1> HIDE DEF n
<1> QED
  BY <1>1, <1>2 DEF TypeOK, Stage
-----------------------------------------------------------------------------
(* Every step keeps the types.                                             *)

(* A step that leaves the request r, a join and the table as they are.     *)
LEMMA WhereStands ==
  ASSUME NEW r \in Request, Where(r), inp'[r] = inp[r], ans'[r] = ans[r],
         stage'[r] = stage[r], left'[r] = left[r], rest'[r] = rest[r], made'[r] = made[r]
  PROVE  Where(r)'
BY DEF Where, GoodAsk

(* A page's joins stand while no link and no snapshot changes.             *)
LEMMA JoinsStand ==
  ASSUME Typed, UNCHANGED <<link, held>>
  PROVE  \A c \in Client : Joins(c)'
BY DEF Typed, Joins

(* A page that asks.                                                       *)
LEMMA AskTyped ==
  ASSUME Typed, NEW r \in Request, Ask(r)
  PROVE  Typed'
<1> DEFINE c == Owner[r]
           v == view[c]
<1>0. c \in Client /\ v \in Board
  BY ClientAssumption DEF Typed, TypeOK
<1>1. PICK s \in Offered[r] :
        /\ inp' = [inp EXCEPT ![r] =
             [op |-> s.op, card |-> s.card, list |-> s.list, after |-> s.after,
              labelsOk |-> s.labelsOk,
              expected |-> IF Holds(v, s.card) THEN Held(v, s.card).ver ELSE 0,
              before |-> None]]
        /\ view' = IF s.op = "move"
                   THEN [view EXCEPT ![c] = Dropped(v, s.card, s.list, r)] ELSE view
        /\ \/ /\ stage' = [stage EXCEPT ![r] = "sent"]
              /\ tied' = [tied EXCEPT ![r] = TRUE]
              /\ UNCHANGED <<ans, left>>
           \/ /\ ans' = [ans EXCEPT ![r] = "INTERNAL"]
              /\ Settled(r, s.op, "INTERNAL")
              /\ tied' = tied
  BY DEF Ask
<1>2. UNCHANGED <<row, closed, text, link, held, stream, bus, made, rest, faults>>
  BY DEF Ask
<1>3. /\ s \in Shape
      /\ s.op \in {"move", "update", "archive"} => s.card \in Card
      /\ s.op = "create" => s.card = r
      /\ s.op = "archiveList" => s.card = None
      /\ s.op \in {"move", "create", "archiveList"} => s.list \in List
  BY OfferedAssumption
<1>4. (IF Holds(v, s.card) THEN Held(v, s.card).ver ELSE 0) \in Nat
  BY <1>0, HeldTyped DEF Shown
<1>5. inp'[r] \in Input /\ inp' \in [Request -> Input \union {None}] /\ GoodAsk(r)'
      /\ \A q \in Request \ {r} : inp'[q] = inp[q]
  <2> DEFINE n == IF Holds(v, s.card) THEN Held(v, s.card).ver ELSE 0
  <2>1. /\ inp' = [inp EXCEPT ![r] =
             [op |-> s.op, card |-> s.card, list |-> s.list, after |-> s.after,
              labelsOk |-> s.labelsOk, expected |-> n, before |-> None]]
        /\ n \in Nat
    BY <1>1, <1>4
  <2> HIDE DEF n, v, c
  <2>2. [op |-> s.op, card |-> s.card, list |-> s.list, after |-> s.after,
         labelsOk |-> s.labelsOk, expected |-> n, before |-> None] \in Input
    BY <1>3, <2>1 DEF Shape, Input
  <2>3. inp \in [Request -> Input \union {None}]
    BY DEF Typed, TypeOK, StoreTypeOK
  <2>4. s.op \in Op
    BY <1>3 DEF Shape
  <2> QED
    BY <1>3, <2>1, <2>2, <2>3, <2>4 DEF GoodAsk
<1>6. view' \in [Client -> Board]
  <2>1. Dropped(v, s.card, s.list, r) \in Board
    BY <1>0, DroppedTyped
  <2> QED
    BY <1>0, <1>1, <2>1 DEF Typed, TypeOK
<1>7. /\ stage' \in [Request -> Stage] /\ left' \in [Request -> 0 .. 2]
      /\ ans' \in [Request -> Code \union {None}] /\ tied' \in [Request -> BOOLEAN]
      /\ stage'[r] \in {"sent", "done", "refetch"}
      /\ stage'[r] = "refetch" => left'[r] >= 1
      /\ \A q \in Request \ {r} : stage'[q] = stage[q] /\ left'[q] = left[q]
                                   /\ ans'[q] = ans[q]
  <2>1. /\ stage \in [Request -> Stage] /\ left \in [Request -> 0 .. 2]
        /\ ans \in [Request -> Code \union {None}] /\ tied \in [Request -> BOOLEAN]
    BY DEF Typed, TypeOK, StoreTypeOK
  <2>2. CASE /\ stage' = [stage EXCEPT ![r] = "sent"]
             /\ tied' = [tied EXCEPT ![r] = TRUE]
             /\ UNCHANGED <<ans, left>>
    BY <2>1, <2>2 DEF Stage
  <2>3. CASE /\ ans' = [ans EXCEPT ![r] = "INTERNAL"]
             /\ Settled(r, s.op, "INTERNAL")
             /\ tied' = tied
    BY <2>1, <2>3, SettledTyped DEF Code, Typed
  <2> QED
    BY <1>1, <2>2, <2>3
<1>8. TypeOK'
  BY <1>2, <1>5, <1>6, <1>7 DEF Typed, TypeOK, StoreTypeOK
<1>9. Where(r)'
  BY <1>5, <1>7, NamesAssumption DEF Where
<1>10. \A q \in Request \ {r} : Where(q)'
  BY <1>2, <1>5, <1>7, WhereStands DEF Typed
<1> QED
  BY <1>2, <1>8, <1>9, <1>10, JoinsStand DEF Typed, RowsPlaced

(* A page that takes in what its stream brings first.                      *)
LEMMA DeliverTyped ==
  ASSUME Typed, NEW c \in Client, Deliver(c)
  PROVE  Typed'
<1> DEFINE m == Head(stream[c])
<1>1. stream[c] \in Seq(Message) /\ stream[c] # <<>>
  BY DEF Typed, TypeOK, Deliver
<1>2. m \in Message /\ Tail(stream[c]) \in Seq(Message)
  BY <1>1, QueueTyped
<1>3. /\ stream' = [stream EXCEPT ![c] = Tail(stream[c])]
      /\ UNCHANGED <<db, link, held, bus, tied, made, rest, faults>>
  BY DEF Deliver
<1>4. stream' \in [Client -> Seq(Message)]
  BY <1>2, <1>3 DEF Typed, TypeOK
<1>5. CASE m.kind = "ack"
  <2>1. /\ Settled(m.req, inp[m.req].op, m.code)
        /\ view' = view
        /\ m.req \in Request
    BY <1>2, <1>5, MessageTyped DEF Deliver
  <2>2. TypeOK'
    BY <1>3, <1>4, <2>1, SettledTyped DEF Typed, TypeOK, StoreTypeOK, db, storeVars
  <2>3. ASSUME NEW q \in Request PROVE Where(q)'
    BY <1>3, <2>1, SettledTyped DEF Typed, Where, GoodAsk, db, storeVars
  <2> QED
    BY <1>3, <2>2, <2>3, JoinsStand DEF Typed, RowsPlaced, db, storeVars
<1>6. CASE m.kind # "ack"
  <2>1. /\ view' = [view EXCEPT ![c] = Reduce(view[c], m)]
        /\ UNCHANGED <<stage, left>>
    BY <1>6 DEF Deliver
  <2>2. Reduce(view[c], m) \in Board
    BY <1>2, <1>6, ReduceTyped DEF Typed, TypeOK
  <2> HIDE DEF m
  <2>3. TypeOK'
    BY <1>3, <1>4, <2>1, <2>2 DEF Typed, TypeOK, StoreTypeOK, db, storeVars
  <2>4. ASSUME NEW q \in Request PROVE Where(q)'
    BY <1>3, <2>1, WhereStands DEF Typed, db, storeVars
  <2> QED
    BY <1>3, <2>3, <2>4, JoinsStand DEF Typed, RowsPlaced, db, storeVars
<1> QED
  BY <1>5, <1>6

(* A refetch.                                                              *)
LEMMA RefetchTyped ==
  ASSUME Typed, NEW r \in Request, Refetch(r) \/ FetchFails(r)
  PROVE  Typed'
<1>1. /\ UNCHANGED <<db, link, held, stream, bus, tied, made>>
      /\ stage[r] \in {"refetch", "reading", "fetched"}
  BY DEF Refetch, FetchLists, FetchCards, ShowFetched, FetchFails
<1>2. /\ TypeOK /\ Where(r) /\ left[r] >= 1
      /\ stage[r] \in {"reading", "fetched"} => rest[r] \in Board
      /\ Owner[r] \in Client
  BY <1>1, ClientAssumption DEF Typed, Where
<1>3. /\ stage' \in [Request -> Stage] /\ left' \in [Request -> 0 .. 2]
      /\ rest' \in [Request -> Board \union {None}] /\ view' \in [Client -> Board]
      /\ faults' \in 0 .. MaxFaults
      /\ stage'[r] \in {"refetch", "reading", "fetched", "done", "abandoned"}
      /\ stage'[r] \in {"refetch", "reading", "fetched"} => left'[r] >= 1
      /\ stage'[r] \in {"reading", "fetched"} => rest'[r] \in Board
      /\ \A q \in Request \ {r} : /\ stage'[q] = stage[q] /\ left'[q] = left[q]
                                   /\ rest'[q] = rest[q]
  <2>1. /\ stage \in [Request -> Stage] /\ left \in [Request -> 0 .. 2]
        /\ rest \in [Request -> Board \union {None}] /\ view \in [Client -> Board]
        /\ faults \in 0 .. MaxFaults
    BY <1>2 DEF TypeOK
  <2>2. left[r] - 1 \in 0 .. 2 /\ (left[r] # 1 => left[r] - 1 >= 1)
    BY <1>2, <2>1
  <2>3. CASE FetchLists(r)
    BY <1>2, <2>1, <2>3, ReadTyped DEF FetchLists, Stage
  <2>4. CASE FetchCards(r)
    BY <1>2, <2>1, <2>4, ReadTyped DEF FetchCards, Stage
  <2>5. CASE ShowFetched(r)
    BY <1>2, <2>1, <2>2, <2>5 DEF ShowFetched, Stage
  <2>6. CASE FetchFails(r)
    <3>1. faults' \in 0 .. MaxFaults /\ UNCHANGED <<rest, view>>
      BY <2>1, <2>6, ClientAssumption DEF FetchFails, Fault
    <3>2. PICK n \in {0, left[r] - 1} :
            /\ left' = [left EXCEPT ![r] = n]
            /\ stage' = [stage EXCEPT ![r] = IF n = 0 THEN "abandoned" ELSE "refetch"]
      BY <2>6 DEF FetchFails
    <3>3. n \in 0 .. 2
      BY <2>2, <3>2
    <3> QED
      BY <1>2, <2>1, <3>1, <3>2, <3>3 DEF Stage
  <2> QED
    BY <2>3, <2>4, <2>5, <2>6 DEF Refetch
<1>4. TypeOK'
  BY <1>1, <1>2, <1>3 DEF TypeOK, StoreTypeOK, db, storeVars
<1>5. Where(r)'
  BY <1>1, <1>2, <1>3 DEF Where, GoodAsk, db, storeVars
<1>6. \A q \in Request \ {r} : Where(q)'
  BY <1>1, <1>3, WhereStands DEF Typed, db, storeVars
<1> QED
  BY <1>1, <1>4, <1>5, <1>6, JoinsStand DEF Typed, RowsPlaced, db, storeVars

(* What a page that is not connected, or not yet in the room, comes to.    *)
Connects(c) == Join(c) \/ HandshakeRefused(c) \/ JoinFails(c)

(* A connection that drops, and one that joins.                            *)
LEMMA DropTyped ==
  ASSUME Typed, NEW c \in Client, Drop(c)
  PROVE  Typed'
<1>1. /\ UNCHANGED <<db, view, bus, made, left, rest>>
      /\ link' = [link EXCEPT ![c] = "down"]
      /\ stream' = [stream EXCEPT ![c] = <<>>]
      /\ held' = [held EXCEPT ![c] = None]
      /\ tied' = [r \in Request |-> tied[r] /\ Owner[r] # c]
      /\ faults' = faults + 1 /\ faults < MaxFaults
  BY DEF Drop, Fault
<1>2. PICK gone : stage' = [r \in Request |->
         IF r \in gone THEN "lost"
         ELSE IF Owner[r] = c /\ stage[r] = "answered" THEN "orphan" ELSE stage[r]]
  BY DEF Drop
<1>3. /\ stage' \in [Request -> Stage]
      /\ \A r \in Request : stage'[r] = stage[r] \/ stage'[r] \in {"lost", "orphan"}
  BY <1>2 DEF Typed, TypeOK, Stage
<1>4. faults' \in 0 .. MaxFaults
  BY <1>1, ClientAssumption DEF Typed, TypeOK
<1>5. tied' \in [Request -> BOOLEAN]
  BY <1>1
<1>6. stream' \in [Client -> Seq(Message)] /\ held' \in [Client -> Board \union {None}]
  BY <1>1 DEF Typed, TypeOK
<1>7. TypeOK'
  BY <1>1, <1>3, <1>4, <1>5, <1>6 DEF Typed, TypeOK, StoreTypeOK, db, storeVars, Link
<1>8. ASSUME NEW r \in Request PROVE Where(r)'
  BY <1>1, <1>3 DEF Typed, Where, GoodAsk, db, storeVars
<1>9. ASSUME NEW d \in Client PROVE Joins(d)'
  BY <1>1 DEF Typed, Joins, TypeOK
<1> QED
  BY <1>1, <1>7, <1>8, <1>9 DEF Typed, RowsPlaced, db, storeVars

(* A page that joins, its board read in two selects, or that fails to.     *)
LEMMA JoinTyped ==
  ASSUME Typed, NEW c \in Client, Connects(c)
  PROVE  Typed'
<1>1. /\ UNCHANGED <<db, view, bus, stage, tied, made, left, rest>>
      /\ faults' \in 0 .. MaxFaults
  BY ClientAssumption
     DEF Connects, Join, Reconnect, JoinLists, JoinCards, JoinEnter, HandshakeRefused, JoinFails,
         Fault, Typed, TypeOK
<1>2. /\ link \in [Client -> Link]
      /\ held \in [Client -> Board \union {None}]
      /\ stream \in [Client -> Seq(Message)]
      /\ TypeOK /\ Joins(c)
  BY DEF Typed, TypeOK
<1>3. /\ link' \in [Client -> Link]
      /\ held' \in [Client -> Board \union {None}]
      /\ stream' \in [Client -> Seq(Message)]
      /\ link'[c] \in {"reading", "entering"} => held'[c] \in Board
      /\ \A d \in Client \ {c} : link'[d] = link[d] /\ held'[d] = held[d]
  <2>1. CASE Reconnect(c) \/ HandshakeRefused(c) \/ JoinFails(c)
    BY <1>2, <2>1 DEF Reconnect, HandshakeRefused, JoinFails, Link
  <2>2. CASE JoinLists(c)
    BY <1>2, <2>2, ReadTyped DEF JoinLists, Link
  <2>3. CASE JoinCards(c)
    BY <1>2, <2>3, ReadTyped DEF JoinCards, Joins, Link
  <2>4. CASE JoinEnter(c)
    <3>1. [kind |-> "board.state", board |-> held[c]] \in Message
      BY <1>2, <2>4 DEF JoinEnter, Joins, Message
    <3> QED
      BY <1>2, <2>4, <3>1, QueueTyped DEF JoinEnter, Link
  <2> QED
    BY <2>1, <2>2, <2>3, <2>4 DEF Connects, Join
<1>4. TypeOK'
  BY <1>1, <1>2, <1>3 DEF TypeOK, StoreTypeOK, db, storeVars
<1>5. ASSUME NEW r \in Request PROVE Where(r)'
  BY <1>1, WhereStands DEF Typed, db, storeVars
<1>6. ASSUME NEW d \in Client PROVE Joins(d)'
  BY <1>3 DEF Typed, Joins
<1> QED
  BY <1>1, <1>4, <1>5, <1>6 DEF Typed, RowsPlaced, db, storeVars

(* An operation that is carried out writes rows.                           *)
LEMMA ApplyTyped ==
  ASSUME Typed, NEW r \in Request, Apply(r)
  PROVE  /\ row' \in [Card -> Row] /\ closed' \in SUBSET List
         /\ ans' = [ans EXCEPT ![r] = "OK"] /\ inp' = inp
         /\ \A c \in Card : row'[c].state # "absent" => row'[c].list \in List
         /\ inp[r] # None /\ GoodAsk(r) /\ ans[r] = None
         /\ inp[r].op # "archiveList" =>
              inp[r].card \in Card /\ row'[inp[r].card].state # "absent"
<1> DEFINE c == inp[r].card
           l == inp[r].list
<1>1. /\ inp[r] # None /\ GoodAsk(r) /\ ans[r] = None
      /\ ans' = [ans EXCEPT ![r] = "OK"] /\ inp' = inp
      /\ row \in [Card -> Row] /\ closed \in SUBSET List
      /\ \A d \in Card : row[d].state # "absent" => row[d].list \in List
  BY DEF Apply, Pending, Typed, Where, TypeOK, StoreTypeOK, RowsPlaced
<1>2. inp[r].op # "archiveList" => c \in Card
  BY <1>1 DEF GoodAsk, Op, Card
<1>3. /\ row' \in [Card -> Row] /\ closed' \in SUBSET List
      /\ \A d \in Card : row'[d].state # "absent" => row'[d].list \in List
      /\ inp[r].op # "archiveList" => row'[c].state # "absent"
  <2>1. CASE StoreMove(r)
    <3>1. l \in List /\ c \in Card /\ row[c].ver \in Nat
      BY <1>1, <2>1 DEF StoreMove, GoodAsk, Row
    <3>2. PICK p \in Key : row' = [row EXCEPT ![c] =
                [list |-> l, pos |-> p, ver |-> row[c].ver + 1, state |-> "live"]]
      BY <2>1 DEF StoreMove
    <3>3. [list |-> l, pos |-> p, ver |-> row[c].ver + 1, state |-> "live"] \in Row
      BY <3>1, MaxKeyAssumption DEF Row, Key
    <3> HIDE DEF c, l
    <3> QED
      BY <1>1, <2>1, <3>1, <3>2, <3>3 DEF StoreMove
  <2>2. CASE StoreCreate(r)
    <3>1. l \in List /\ c \in Card
      BY <1>1, <2>2 DEF StoreCreate, GoodAsk, Card
    <3>2. PICK p \in Key : row' = [row EXCEPT ![c] =
                [list |-> l, pos |-> p, ver |-> 0, state |-> "live"]]
      BY <2>2 DEF StoreCreate
    <3>3. [list |-> l, pos |-> p, ver |-> 0, state |-> "live"] \in Row
      BY <3>1, MaxKeyAssumption DEF Row, Key
    <3> HIDE DEF c, l
    <3> QED
      BY <1>1, <2>2, <3>1, <3>2, <3>3 DEF StoreCreate
  <2>3. CASE StoreRewrite(r)
    <3> DEFINE st == IF inp[r].op = "archive" THEN "archived" ELSE "live"
    <3>1. c \in Card /\ row[c] \in Row /\ row[c].state = "live"
      BY <1>1, <2>3 DEF StoreRewrite, GoodAsk
    <3>2. row' = [row EXCEPT ![c] = [row[c] EXCEPT !.ver = row[c].ver + 1, !.state = st]]
      BY <1>1, <2>3, <3>1 DEF StoreRewrite
    <3>3. st \in {"archived", "live"}
      OBVIOUS
    <3>4. /\ [row[c] EXCEPT !.ver = row[c].ver + 1, !.state = st] \in Row
          /\ [row[c] EXCEPT !.ver = row[c].ver + 1, !.state = st].list = row[c].list
          /\ [row[c] EXCEPT !.ver = row[c].ver + 1, !.state = st].state = st
      <4>1. row[c].ver + 1 \in Nat
        BY <3>1 DEF Row
      <4>2. \A n \in Nat : [row[c] EXCEPT !.ver = n, !.state = st] \in Row
        BY <3>1, <3>3 DEF Row
      <4> HIDE DEF st
      <4> QED
        BY <3>1, <4>1, <4>2 DEF Row
    <3>5. closed' = closed
      BY <2>3 DEF StoreRewrite
    <3> HIDE DEF c, st
    <3> QED
      BY <1>1, <3>1, <3>2, <3>3, <3>4, <3>5
  <2>4. CASE StoreArchiveList(r)
    BY <1>1, <2>4 DEF StoreArchiveList, GoodAsk
  <2> QED
    BY <2>1, <2>2, <2>3, <2>4 DEF Apply
<1> QED
  BY <1>1, <1>2, <1>3

(* A write that commits.                                                   *)
LEMMA CommitTyped ==
  ASSUME Typed, NEW r \in Request, Commit(r)
  PROVE  Typed'
<1>1. /\ Apply(r)
      /\ text' = IF inp[r].op \in {"create", "update"}
                 THEN [text EXCEPT ![inp[r].card] = r] ELSE text
      /\ made' = [made EXCEPT ![r] =
                    IF inp[r].card = None THEN None ELSE Wire(inp[r].card, row', text')]
      /\ stage' = [stage EXCEPT ![r] = "applied"]
      /\ UNCHANGED <<view, link, held, stream, bus, tied, left, rest, faults>>
  BY DEF Commit
<1>2. /\ row' \in [Card -> Row] /\ closed' \in SUBSET List
      /\ ans' = [ans EXCEPT ![r] = "OK"] /\ inp' = inp
      /\ \A c \in Card : row'[c].state # "absent" => row'[c].list \in List
      /\ inp[r] # None /\ GoodAsk(r)
      /\ inp[r].op # "archiveList" =>
           inp[r].card \in Card /\ row'[inp[r].card].state # "absent"
  BY <1>1, ApplyTyped
<1>3. text' \in [Card -> Request \union {None}]
  BY <1>1, <1>2 DEF Typed, TypeOK
<1>4. /\ inp[r].op = "archiveList" => inp[r].card = None
      /\ inp[r].op # "archiveList" => Wire(inp[r].card, row', text') \in Shown
                                      /\ inp[r].card # None
  BY <1>2, <1>3, WireTyped, NamesAssumption DEF GoodAsk
<1>5. /\ made' \in [Request -> Shown \union {None}]
      /\ inp[r].op # "archiveList" => made'[r] \in Shown
      /\ \A q \in Request \ {r} : made'[q] = made[q]
  BY <1>1, <1>4 DEF Typed, TypeOK
<1>6. /\ stage' \in [Request -> Stage] /\ stage'[r] = "applied"
      /\ \A q \in Request \ {r} : stage'[q] = stage[q]
  BY <1>1 DEF Typed, TypeOK, Stage
<1>7. ans' \in [Request -> Code \union {None}] /\ \A q \in Request \ {r} : ans'[q] = ans[q]
  BY <1>2 DEF Typed, TypeOK, StoreTypeOK, Code
<1>8. TypeOK'
  BY <1>1, <1>2, <1>3, <1>5, <1>6, <1>7 DEF Typed, TypeOK, StoreTypeOK
<1>9. Where(r)'
  BY <1>2, <1>5, <1>6 DEF Where, GoodAsk
<1>10. \A q \in Request \ {r} : Where(q)'
  BY <1>1, <1>2, <1>5, <1>6, <1>7, WhereStands DEF Typed
<1> QED
  BY <1>1, <1>2, <1>8, <1>9, <1>10, JoinsStand DEF Typed, RowsPlaced

(* The gateway's answers, good and bad.                                    *)
LEMMA AnsweredTyped ==
  ASSUME Typed, NEW r \in Request, NEW code \in Code, Answered(r, code),
         faults' \in 0 .. MaxFaults
  PROVE  Typed'
<1>1. /\ inp[r] # None /\ ans[r] = None
      /\ ans'[r] = code /\ \A q \in Request \ {r} : ans'[q] = ans[q]
      /\ ans' \in [Request -> Code \union {None}]
      /\ UNCHANGED <<row, closed, inp, text, view, link, held, bus, tied, made, left, rest>>
      /\ stream' = Acked(stream, r, code) /\ stage' = AckStage(r)
  BY DEF Answered, Refuse, Pending, Typed, TypeOK, StoreTypeOK
<1>2. /\ stream' \in [Client -> Seq(Message)] /\ stage' \in [Request -> Stage]
      /\ stage'[r] \in {"answered", "orphan"}
      /\ \A q \in Request \ {r} : stage'[q] = stage[q]
  <2>1. TypeOK /\ stream \in [Client -> Seq(Message)]
    BY DEF Typed, TypeOK
  <2> QED
    BY <1>1, <2>1, AckedTyped
<1>3. TypeOK'
  BY <1>1, <1>2 DEF Typed, TypeOK, StoreTypeOK
<1>4. Where(r)'
  BY <1>1, <1>2 DEF Typed, Where, GoodAsk
<1>5. \A q \in Request \ {r} : Where(q)'
  BY <1>1, <1>2, WhereStands DEF Typed
<1> QED
  BY <1>1, <1>3, <1>4, <1>5, JoinsStand DEF Typed, RowsPlaced

(* What a replica announces is a message, and it has a replica to do so.   *)
LEMMA AnnouncementTyped ==
  ASSUME Typed, NEW r \in Request, stage[r] = "applied"
  PROVE  Announcement(r) \in Message /\ Home[Owner[r]] \in Replica
<1>1. /\ inp[r].op \in Op /\ (inp[r].op # "archiveList" => made[r] \in Shown)
      /\ inp[r].op = "archive" => inp[r].card \in Card
      /\ inp[r].op = "archiveList" => inp[r].list \in List
  BY DEF Typed, Where, GoodAsk
<1>2. Announcement(r) \in Message
  BY <1>1 DEF Announcement, Message, Op
<1> QED
  BY <1>2, ClientAssumption

(* .. and what it broadcasts.                                              *)
LEMMA AnnounceTyped ==
  ASSUME Typed, NEW r \in Request, Announce(r) \/ HydrateFails(r)
  PROVE  Typed'
<1> DEFINE o == Home[Owner[r]]
           m == Announcement(r)
<1>1. /\ UNCHANGED <<db, view, link, held, tied, made, left, rest>>
      /\ stage[r] = "applied" /\ stage' = AckStage(r)
  BY DEF Announce, HydrateFails
<1>2. m \in Message /\ o \in Replica
  BY <1>1, AnnouncementTyped
<1>3. Told(o, m) \in [Client -> Seq(Message)] /\ stream \in [Client -> Seq(Message)]
  BY <1>2, ToldTyped DEF Typed, TypeOK
<1>4. Published(o, m) \in [Replica -> [Replica -> Seq(Message)]]
  BY <1>2, QueueTyped DEF Published, Typed, TypeOK
<1>5. /\ stage' \in [Request -> Stage] /\ stage'[r] \in {"answered", "orphan"}
      /\ \A q \in Request \ {r} : stage'[q] = stage[q]
      /\ Acked(Told(o, m), r, "OK") \in [Client -> Seq(Message)]
      /\ Acked(stream, r, "INTERNAL") \in [Client -> Seq(Message)]
  BY <1>1, <1>3, AckedTyped DEF Typed, Code
<1>6. /\ stream' \in [Client -> Seq(Message)]
      /\ bus' \in [Replica -> [Replica -> Seq(Message)]]
  BY <1>4, <1>5 DEF Announce, HydrateFails, Typed, TypeOK
<1>10. faults' \in 0 .. MaxFaults
  BY ClientAssumption DEF Announce, HydrateFails, Fault, Typed, TypeOK
<1>7. TypeOK'
  BY <1>1, <1>5, <1>6, <1>10 DEF Typed, TypeOK, StoreTypeOK, db, storeVars
<1>8. Where(r)'
  BY <1>1, <1>5 DEF Typed, Where, GoodAsk, db, storeVars
<1>9. \A q \in Request \ {r} : Where(q)'
  BY <1>1, <1>5, WhereStands DEF Typed, db, storeVars
<1> QED
  BY <1>1, <1>7, <1>8, <1>9, JoinsStand DEF Typed, RowsPlaced, db, storeVars

(* The bus, carrying or losing a message.                                  *)
LEMMA RelayTyped ==
  ASSUME Typed, NEW o \in Replica, NEW p \in Replica, Relay(o, p) \/ LoseRelay(o, p)
  PROVE  Typed'
<1>1. /\ UNCHANGED <<db, view, link, held, stage, tied, made, left, rest>>
      /\ bus[o][p] \in Seq(Message) /\ bus[o][p] # <<>>
      /\ bus' = [bus EXCEPT ![o][p] = Tail(bus[o][p])]
      /\ stream' = Told(p, Head(bus[o][p])) \/ stream' = stream
      /\ faults' \in 0 .. MaxFaults
  BY ClientAssumption DEF Relay, LoseRelay, Fault, Typed, TypeOK
<1>2. Head(bus[o][p]) \in Message /\ Tail(bus[o][p]) \in Seq(Message)
  BY <1>1, QueueTyped
<1>3. stream' \in [Client -> Seq(Message)]
  BY <1>1, <1>2, ToldTyped DEF Typed, TypeOK
<1>4. bus' \in [Replica -> [Replica -> Seq(Message)]]
  BY <1>1, <1>2 DEF Typed, TypeOK
<1>5. TypeOK'
  BY <1>1, <1>3, <1>4 DEF Typed, TypeOK, StoreTypeOK, db, storeVars
<1>6. \A r \in Request : Where(r)'
  BY <1>1, WhereStands DEF Typed, db, storeVars
<1> QED
  BY <1>1, <1>5, <1>6, JoinsStand DEF Typed, RowsPlaced, db, storeVars

(* Every step keeps the types.                                             *)
LEMMA TypedStep ==
  ASSUME Typed, [Next]_vars
  PROVE  Typed'
<1>1. CASE UNCHANGED vars \/ Rest
  <2>1. /\ TypeOK' /\ RowsPlaced'
        /\ UNCHANGED <<db, stage, left, rest, made, link, held>>
    BY <1>1 DEF Rest, vars, Typed, TypeOK, StoreTypeOK, RowsPlaced, db, storeVars
  <2>2. \A r \in Request : Where(r)'
    BY <2>1, WhereStands DEF Typed, db, storeVars
  <2> QED
    BY <2>1, <2>2, JoinsStand DEF Typed
<1>2. ASSUME NEW r \in Request,
             Ask(r) \/ Serve(r) \/ Refetch(r) \/ FailAsk(r) \/ HydrateFails(r) \/ FetchFails(r)
      PROVE  Typed'
  <2>1. CASE RefuseAsk(r) \/ FailAsk(r)
    <3>1. PICK code \in Code : Answered(r, code)
      BY <2>1 DEF RefuseAsk, FailAsk, Code
    <3>2. faults' \in 0 .. MaxFaults
      BY <2>1, ClientAssumption DEF RefuseAsk, FailAsk, Fault, Typed, TypeOK
    <3> QED
      BY <3>1, <3>2, AnsweredTyped
  <2> QED
    BY <1>2, <2>1, AskTyped, CommitTyped, AnnounceTyped, RefetchTyped DEF Serve
<1>3. ASSUME NEW c \in Client, Deliver(c) \/ Connects(c) \/ Drop(c) PROVE Typed'
  BY <1>3, DeliverTyped, JoinTyped, DropTyped
<1>4. ASSUME NEW o \in Replica, NEW p \in Replica, Relay(o, p) \/ LoseRelay(o, p) PROVE Typed'
  BY <1>4, RelayTyped
<1> QED
  BY <1>1, <1>2, <1>3, <1>4 DEF Next, Connects

(* The types hold at the start.                                            *)
LEMMA TypedInit ==
  ASSUME Init
  PROVE  Typed
<1>1. /\ row \in [Card -> Row] /\ text \in [Card -> Request \union {None}]
      /\ StoreTypeOK
  BY InitRowAssumption DEF Init, StoreInit, StoreTypeOK
<1>2. Snapshot \in Board
  <2>1. ListsRead \in Board
    BY <1>1 DEF ListsRead, Board, OpenList, Applied
  <2>2. {Wire(d, row, text) : d \in {e \in Card : row[e].state = "live"
                                        /\ row[e].list \in ListsRead.lists}} \subseteq Shown
    <3>1. ASSUME NEW d \in Card, row[d].list \in ListsRead.lists
          PROVE  Wire(d, row, text) \in Shown
      BY <1>1, <2>1, <3>1, WireTyped, BoardTyped
    <3> QED
      BY <3>1
  <2> QED
    BY <2>1, <2>2, BoardTyped DEF Snapshot, CardsRead
<1>3. TypeOK
  BY <1>1, <1>2, ClientAssumption DEF Init, TypeOK, Stage, Link
<1>4. RowsPlaced
  BY InitRowAssumption DEF Init, StoreInit, RowsPlaced
<1>5. \A r \in Request : Where(r)
  BY DEF Init, StoreInit, Where
<1>6. \A c \in Client : Joins(c)
  BY DEF Init, Joins
<1> QED
  BY <1>3, <1>4, <1>5, <1>6 DEF Typed

(* However joins, requests, broadcasts, refetches, drops and losses        *)
(* interleave, every message on its way, every board held by a handler or  *)
(* a refetch and every board on a screen is well formed, and what a        *)
(* handler is about to announce or a page about to show is there.          *)
THEOREM TypedAlways == Spec => []Typed
<1>1. Init => Typed
  BY TypedInit
<1>2. Typed /\ [Next]_vars => Typed'
  BY TypedStep
<1> QED
  BY <1>1, <1>2, PTL DEF Spec

(* TypeOK, the part of it that the runs check.                             *)
THEOREM BoardTypes == Spec => []TypeOK
<1>1. Typed => TypeOK
  BY DEF Typed
<1> QED
  BY <1>1, TypedAlways, PTL
-----------------------------------------------------------------------------
(* What is on its way is old at worst.                                     *)

(* The database at one moment: its tables, and the requests carried out.   *)
Database == [row : [Card -> Row], closed : SUBSET List,
             text : [Card -> Request \union {None}], done : SUBSET Request]

Now == [row |-> row, closed |-> closed, text |-> text, done |-> Applied]

OpenIn(D) == List \ (D.closed \union ForeignList)

OnBoardIn(d, D) == D.row[d].state = "live" /\ D.row[d].list \in OpenIn(D)

(* What the server would send of card d.                                   *)
WireIn(d, D) == Wire(d, D.row, D.text)

(* Card e on a screen is d as committed, or as dropped since by its user.  *)
Says(e, d, D) ==
  /\ e.id = d /\ e.ver = D.row[d].ver /\ e.text = D.text[d]
  /\ e.by # {} \/ [e EXCEPT !.at = "pos"] = WireIn(d, D)

(* No card twice, and every card in a column that is shown.                *)
Tidy(v) ==
  /\ \A e, f \in v.cards : e.id = f.id => e = f
  /\ \A e \in v.cards : e.list \in v.lists

Fresh(v, D) ==
  /\ v.lists = OpenIn(D)
  /\ \A d \in Card : OnBoardIn(d, D) => \E e \in v.cards : Says(e, d, D)

(* A board that is tidy, and right about D if it was read from D.          *)
Sound(v, D) ==
  /\ v.asOf \subseteq D.done
  /\ Tidy(v)
  /\ v.asOf = D.done => Fresh(v, D)

(* A board of which only the lists have been read.                         *)
HalfRead(v, D) ==
  /\ v.asOf \subseteq D.done
  /\ v.cards = {}
  /\ v.asOf = D.done => v.lists = OpenIn(D)

(* A message tells of something that has happened: a card as it is or as   *)
(* it was at a lower version, a card or a list that is archived for good.  *)
Honest(m, D) ==
  /\ m.kind = "board.state" => Sound(m.board, D)
  /\ m.kind \in {"card.created", "card.updated", "card.moved"} =>
       LET d == m.card.id
       IN  /\ D.row[d].state # "absent"
           /\ m.card.ver <= D.row[d].ver
           /\ m.card.ver = D.row[d].ver => m.card = WireIn(d, D)
  /\ m.kind = "card.archived" => m.id \in Card /\ D.row[m.id].state = "archived"
  /\ m.kind = "list.archived" => m.id \in D.closed

AllHonest(s, D) == \A i \in 1 .. Len(s) : Honest(s[i], D)

InSync ==
  /\ \A c \in Client :
       /\ Sound(view[c], Now)
       /\ AllHonest(stream[c], Now)
       /\ link[c] = "reading" => HalfRead(held[c], Now)
       /\ link[c] = "entering" => Sound(held[c], Now)
  /\ \A r \in Request :
       /\ stage[r] = "reading" => HalfRead(rest[r], Now)
       /\ stage[r] = "fetched" => Sound(rest[r], Now)
       /\ stage[r] = "applied" => Honest(Announcement(r), Now)
  /\ \A o, p \in Replica : AllHonest(bus[o][p], Now)

(* The tables as they are.                                                 *)
LEMMA NowIs ==
  /\ Now.row = row /\ Now.closed = closed /\ Now.text = text /\ Now.done = Applied
  /\ OpenIn(Now) = OpenList
  /\ \A d : OnBoardIn(d, Now) <=> OnBoard(d)
BY DEF Now, OpenIn, OpenList, OnBoardIn, OnBoard

(* The committed tables are tables.                                        *)
LEMMA NowTyped ==
  ASSUME TypeOK
  PROVE  Now \in Database
BY DEF Now, Database, TypeOK, StoreTypeOK, Applied

(* A queue of honest messages stays one.                                   *)
LEMMA AppendHonest ==
  ASSUME NEW D, NEW s \in Seq(Message), NEW m \in Message, AllHonest(s, D), Honest(m, D)
  PROVE  AllHonest(Append(s, m), D)
BY DEF AllHonest

(* What comes out of it is honest.                                         *)
LEMMA QueueHonest ==
  ASSUME NEW D, NEW s \in Seq(Message), AllHonest(s, D), s # <<>>
  PROVE  Honest(Head(s), D) /\ AllHonest(Tail(s), D)
<1>1. Honest(Head(s), D)
  BY DEF AllHonest
<1>2. ASSUME NEW i \in 1 .. Len(Tail(s)) PROVE Tail(s)[i] = s[i + 1] /\ i + 1 \in 1 .. Len(s)
  OBVIOUS
<1> QED
  BY <1>1, <1>2 DEF AllHonest

-----------------------------------------------------------------------------
(* What a page does with a message.                                        *)

(* What stays of a card that is changed in part.                           *)
LEMMA CardAt ==
  ASSUME NEW e \in Shown, NEW a
  PROVE  LET g == [e EXCEPT !.at = a]
         IN  /\ g.id = e.id /\ g.list = e.list /\ g.ver = e.ver /\ g.text = e.text
             /\ g.by = e.by /\ g.at = a
             /\ [g EXCEPT !.at = "pos"] = [e EXCEPT !.at = "pos"]
             /\ a = e.at => g = e
BY DEF Shown

(* The fields of a card that a page has moved by itself.                   *)
LEMMA CardDropped ==
  ASSUME NEW e \in Shown, NEW l, NEW b, NEW a
  PROVE  LET g == [e EXCEPT !.list = l, !.by = b, !.at = a]
         IN  g.id = e.id /\ g.list = l /\ g.ver = e.ver /\ g.text = e.text /\ g.by = b
BY DEF Shown

(* The fields of a card whose text a page has changed.                     *)
LEMMA CardSaying ==
  ASSUME NEW e \in Shown, NEW t
  PROVE  LET g == [e EXCEPT !.text = t]
         IN  /\ g.id = e.id /\ g.list = e.list /\ g.ver = e.ver /\ g.text = t
             /\ g.by = e.by /\ g.at = e.at
             /\ t = e.text => g = e
BY DEF Shown

(* Where a card is sorted says nothing about it.                           *)
LEMMA SaysAnywhere ==
  ASSUME NEW D, NEW e \in Shown, NEW d, NEW a, Says(e, d, D)
  PROVE  Says([e EXCEPT !.at = a], d, D)
<1> DEFINE g == [e EXCEPT !.at = a]
<1>1. /\ g.id = e.id /\ g.ver = e.ver /\ g.text = e.text /\ g.by = e.by
      /\ [g EXCEPT !.at = "pos"] = [e EXCEPT !.at = "pos"]
  BY CardAt
<1> HIDE DEF g
<1>2. Says(g, d, D)
  BY <1>1 DEF Says
<1> QED
  BY <1>2 DEF g

(* Placed adds one card and changes nothing else but where cards are       *)
(* sorted.                                                                 *)
LEMMA PlacedKeeps ==
  ASSUME NEW v \in Board, NEW s \in SUBSET v.cards, NEW e \in Shown, Tidy(v),
         \A f \in s : f.id # e.id
  PROVE  LET w == Placed(v, s, e)
         IN  /\ w.lists = v.lists /\ w.asOf = v.asOf
             /\ Tidy(w)
             /\ \A f \in s : \E a : [f EXCEPT !.at = a] \in w.cards
             /\ e.list \in v.lists => [e EXCEPT !.at = "pos"] \in w.cards
             /\ \A g \in w.cards : \E f \in s \union {e} : g.id = f.id /\ g.ver = f.ver
<1> DEFINE At(f) == IF f.list = e.list THEN "pos" ELSE f.at
           Put(f) == [f EXCEPT !.at = At(f)]
           w == Placed(v, s, e)
<1>0. s \subseteq Shown /\ v.cards \subseteq Shown
  BY BoardTyped
<1> HIDE DEF At
<1>1. ASSUME NEW f \in s \union {e}
      PROVE  Put(f).id = f.id /\ Put(f).ver = f.ver /\ Put(f).list = f.list
  BY <1>0, CardAt
<1>2. CASE e.list \in v.lists
  <2>1. /\ w = [v EXCEPT !.cards = {Put(f) : f \in s \union {e}}]
        /\ v.cards \subseteq Shown
    BY <1>2, BoardTyped DEF Placed, Resorted, At
  <2>2. /\ w.cards = {Put(f) : f \in s \union {e}}
        /\ w.lists = v.lists /\ w.asOf = v.asOf
    BY <2>1 DEF Board
  <2>3. ASSUME NEW g \in w.cards, NEW h \in w.cards, g.id = h.id PROVE g = h
    <3>1. PICK f1 \in s \union {e} : g = Put(f1)
      BY <2>2
    <3>2. PICK f2 \in s \union {e} : h = Put(f2)
      BY <2>2
    <3>3. f1.id = f2.id
      BY <1>1, <2>3, <3>1, <3>2
    <3>4. f1 = f2
      BY <3>3 DEF Tidy
    <3> QED
      BY <3>1, <3>2, <3>4
  <2>4. ASSUME NEW g \in w.cards
        PROVE  /\ g.list \in v.lists
               /\ \E f \in s \union {e} : g.id = f.id /\ g.ver = f.ver
    <3>1. PICK f \in s \union {e} : g = Put(f)
      BY <2>2
    <3>2. g.list = f.list /\ g.id = f.id /\ g.ver = f.ver
      BY <1>1, <3>1
    <3>3. f.list \in v.lists
      BY <1>2 DEF Tidy
    <3> QED
      BY <3>2, <3>3
  <2>5. ASSUME NEW f \in s PROVE \E a : [f EXCEPT !.at = a] \in w.cards
    <3>1. Put(f) \in w.cards
      BY <2>2
    <3> QED
      BY <3>1
  <2>6. [e EXCEPT !.at = "pos"] \in w.cards
    <3>1. Put(e) \in w.cards /\ At(e) = "pos"
      BY <2>2 DEF At
    <3> QED
      BY <3>1
  <2> HIDE DEF w
  <2> QED
    BY <2>2, <2>3, <2>4, <2>5, <2>6 DEF Tidy, w
<1>3. CASE e.list \notin v.lists
  <2>1. w.cards = s /\ w.lists = v.lists /\ w.asOf = v.asOf
    BY <1>3 DEF Placed, Board
  <2>2. ASSUME NEW f \in s PROVE [f EXCEPT !.at = f.at] = f
    BY <1>0, CardAt
  <2> HIDE DEF w
  <2> QED
    BY <1>3, <2>1, <2>2 DEF Tidy, w
<1> QED
  BY <1>2, <1>3

(* The card a page holds under a name is the only one.                     *)
LEMMA HeldAlone ==
  ASSUME NEW v \in Board, Tidy(v), NEW e \in v.cards
  PROVE  Holds(v, e.id) /\ Held(v, e.id) = e
<1>1. Holds(v, e.id)
  BY DEF Holds
<1> QED
  BY <1>1, HeldTyped DEF Tidy

(* card.updated and card.moved, as one: the card gives way to e, which is  *)
(* not older and, if it is as old, agrees with the database.               *)
LEMMA ReplacedSound ==
  ASSUME NEW D, NEW v \in Board, Sound(v, D), NEW c, Holds(v, c), NEW e \in Shown, e.id = c,
         v.asOf = D.done /\ c \in Card /\ OnBoardIn(c, D) /\ Says(Held(v, c), c, D)
           => e.list \in v.lists /\ Says(e, c, D)
  PROVE  Sound(Placed(v, Without(v, c), e), D)
<1> DEFINE s == Without(v, c)
           w == Placed(v, s, e)
<1>1. s \in SUBSET v.cards /\ \A f \in s : f.id # e.id
  BY DEF Without
<1>2. Tidy(v) /\ v.cards \subseteq Shown
  BY BoardTyped DEF Sound
<1>3. /\ w.lists = v.lists /\ w.asOf = v.asOf
      /\ Tidy(w)
      /\ \A f \in s : \E a : [f EXCEPT !.at = a] \in w.cards
      /\ e.list \in v.lists => [e EXCEPT !.at = "pos"] \in w.cards
  BY <1>1, <1>2, PlacedKeeps
<1>4. ASSUME v.asOf = D.done, NEW d \in Card, OnBoardIn(d, D)
      PROVE  \E g \in w.cards : Says(g, d, D)
  <2>1. PICK f \in v.cards : Says(f, d, D)
    BY <1>4 DEF Sound, Fresh
  <2>2. f.id = d /\ f \in Shown
    BY <1>2, <2>1 DEF Says
  <2>3. CASE d # c
    <3>1. f \in s
      BY <2>2, <2>3 DEF Without
    <3>2. PICK a : [f EXCEPT !.at = a] \in w.cards
      BY <1>3, <3>1
    <3> HIDE DEF w
    <3> QED
      BY <2>1, <2>2, <3>2, SaysAnywhere
  <2>4. CASE d = c
    <3>1. Held(v, c) = f
      BY <1>2, <2>2, <2>4, HeldAlone
    <3>2. e.list \in v.lists /\ Says(e, c, D)
      BY <1>4, <2>1, <2>4, <3>1
    <3>3. [e EXCEPT !.at = "pos"] \in w.cards
      BY <1>3, <3>2
    <3> HIDE DEF w
    <3> QED
      BY <2>4, <3>2, <3>3, SaysAnywhere
  <2> QED
    BY <2>3, <2>4
<1>5. v.asOf = D.done => v.lists = OpenIn(D)
  BY DEF Sound, Fresh
<1> HIDE DEF w
<1>6. Sound(w, D)
  BY <1>3, <1>4, <1>5 DEF Sound, Fresh
<1> QED
  BY <1>6 DEF w

(* card.created keeps a board sound: it adds no second copy of a card.     *)
LEMMA CreatedSound ==
  ASSUME NEW D, NEW v \in Board, Sound(v, D), NEW e \in Shown
  PROVE  Sound(Created(v, e), D)
<1> DEFINE w == Placed(v, v.cards, e)
<1>1. CASE Holds(v, e.id)
  BY <1>1 DEF Created
<1>2. CASE ~Holds(v, e.id)
  <2>1. Tidy(v) /\ v.cards \subseteq Shown /\ \A f \in v.cards : f.id # e.id
    BY <1>2, BoardTyped DEF Sound, Holds
  <2>2. /\ w.lists = v.lists /\ w.asOf = v.asOf
        /\ Tidy(w)
        /\ \A f \in v.cards : \E a : [f EXCEPT !.at = a] \in w.cards
    <3>1. v.cards \in SUBSET v.cards
      OBVIOUS
    <3> QED
      BY <2>1, <3>1, PlacedKeeps
  <2> HIDE DEF w
  <2>3. ASSUME v.asOf = D.done, NEW d \in Card, OnBoardIn(d, D)
        PROVE  \E g \in w.cards : Says(g, d, D)
    <3>1. PICK f \in v.cards : Says(f, d, D)
      BY <2>3 DEF Sound, Fresh
    <3>2. PICK a : [f EXCEPT !.at = a] \in w.cards
      BY <2>2
    <3> QED
      BY <2>1, <3>1, <3>2, SaysAnywhere
  <2>4. v.asOf = D.done => v.lists = OpenIn(D)
    BY DEF Sound, Fresh
  <2>5. Sound(w, D)
    BY <2>2, <2>3, <2>4 DEF Sound, Fresh
  <2> QED
    BY <1>2, <2>5 DEF Created, w
<1> QED
  BY <1>1, <1>2

(* A card as the server sends it is what it says.                          *)
LEMMA WireSays ==
  ASSUME NEW D, NEW d, WireIn(d, D) \in Shown
  PROVE  LET x == WireIn(d, D)
         IN  /\ x.id = d /\ x.list = D.row[d].list /\ x.ver = D.row[d].ver
             /\ x.text = D.text[d] /\ x.by = {} /\ x.at = "pos"
             /\ Says(x, d, D)
<1> DEFINE x == WireIn(d, D)
<1>1. /\ x.id = d /\ x.list = D.row[d].list /\ x.ver = D.row[d].ver
      /\ x.text = D.text[d] /\ x.by = {} /\ x.at = "pos"
  BY DEF WireIn, Wire
<1>2. [x EXCEPT !.at = "pos"] = x
  BY <1>1, CardAt
<1> HIDE DEF x
<1>3. x = WireIn(d, D)
  BY DEF x
<1>4. Says(x, d, D)
  BY <1>1, <1>2, <1>3 DEF Says
<1> QED
  BY <1>1, <1>4 DEF x

(* card.updated keeps a board sound, however late it comes.                *)
LEMMA UpdatedSound ==
  ASSUME NEW D \in Database, NEW v \in Board, Sound(v, D), NEW x \in Shown,
         x.ver <= D.row[x.id].ver,
         x.ver = D.row[x.id].ver => x = WireIn(x.id, D)
  PROVE  Sound(Updated(v, x), D)
<1> DEFINE c == x.id
           h == Held(v, c)
           e == [x EXCEPT !.list = h.list, !.by = h.by]
<1>1. CASE ~Holds(v, c) \/ x.ver < h.ver
  BY <1>1 DEF Updated
<1>2. CASE Holds(v, c) /\ ~(x.ver < h.ver)
  <2>1. h \in Shown /\ h \in v.cards /\ h.id = c
    BY <1>2, HeldTyped
  <2>2. h.list \in List /\ h.by \in SUBSET Request /\ h.ver \in Nat /\ x.ver \in Nat /\ c \in Card
    BY <2>1 DEF Shown
  <2>3. e \in Shown
    BY <2>2, CardTyped
  <2>4. /\ e.id = c /\ e.list = h.list /\ e.ver = x.ver /\ e.text = x.text /\ e.by = h.by
        /\ h.list = x.list /\ h.by = x.by => e = x
    <3> HIDE DEF h
    <3> QED
      BY DEF Shown
  <2>5. h.list \in v.lists
    BY <2>1 DEF Sound, Tidy
  <2>6. D.row[c].ver \in Nat
    BY <2>2 DEF Database, Row
  <2> HIDE DEF e, h
  <2>7. ASSUME Says(h, c, D) PROVE Says(e, c, D)
    <3>1. h.ver = D.row[c].ver /\ h.text = D.text[c]
      BY <2>7 DEF Says
    <3>2. x = WireIn(c, D)
      BY <1>2, <2>2, <2>6, <3>1
    <3>3. /\ x.list = D.row[c].list /\ x.ver = D.row[c].ver /\ x.text = D.text[c] /\ x.by = {}
          /\ Says(x, c, D)
      BY <3>2, WireSays
    <3>4. CASE h.by # {}
      BY <2>4, <3>3, <3>4 DEF Says
    <3>5. CASE h.by = {}
      <4>1. [h EXCEPT !.at = "pos"] = WireIn(c, D)
        BY <2>7, <3>5 DEF Says
      <4>2. [h EXCEPT !.at = "pos"].list = h.list
        BY <2>1, CardAt
      <4>3. h.list = x.list
        BY <3>2, <4>1, <4>2
      <4> QED
        BY <2>4, <3>3, <3>5, <4>3
    <3> QED
      BY <3>4, <3>5
  <2>8. Sound(Placed(v, Without(v, c), e), D)
    BY <1>2, <2>3, <2>4, <2>5, <2>7, ReplacedSound DEF h
  <2> QED
    BY <1>2, <2>8 DEF Updated, e, h
<1> QED
  BY <1>1, <1>2

(* card.moved keeps a board sound, however late it comes.                  *)
LEMMA MovedSound ==
  ASSUME NEW D \in Database, NEW v \in Board, Sound(v, D), NEW x \in Shown,
         x.ver <= D.row[x.id].ver,
         x.ver = D.row[x.id].ver => x = WireIn(x.id, D)
  PROVE  Sound(Moved(v, x), D)
<1> DEFINE c == x.id
           h == Held(v, c)
           e == [x EXCEPT !.text = h.text]
<1>1. CASE ~Holds(v, c) \/ x.ver < h.ver
  BY <1>1 DEF Moved
<1>2. CASE Holds(v, c) /\ ~(x.ver < h.ver)
  <2>1. h \in Shown /\ h.id = c
    BY <1>2, HeldTyped
  <2>2. h.text \in Request \union {None} /\ h.ver \in Nat /\ x.ver \in Nat /\ c \in Card
    BY <2>1 DEF Shown
  <2>3. e \in Shown
    BY <2>2, CardTyped
  <2>4. e.id = c /\ e.list = x.list /\ (h.text = x.text => e = x)
    BY CardSaying
  <2>5. D.row[c].ver \in Nat
    BY <2>2 DEF Database, Row
  <2> HIDE DEF e, h
  <2>6. ASSUME v.asOf = D.done, OnBoardIn(c, D), Says(h, c, D)
        PROVE  e.list \in v.lists /\ Says(e, c, D)
    <3>1. h.ver = D.row[c].ver /\ h.text = D.text[c]
      BY <2>6 DEF Says
    <3>2. x = WireIn(c, D)
      BY <1>2, <2>2, <2>5, <3>1
    <3>3. x.list = D.row[c].list /\ x.text = D.text[c] /\ Says(x, c, D)
      BY <3>2, WireSays
    <3>4. x.list \in v.lists
      BY <2>6, <3>3 DEF Sound, Fresh, OnBoardIn
    <3> QED
      BY <2>4, <3>1, <3>3, <3>4
  <2>7. Sound(Placed(v, Without(v, c), e), D)
    BY <1>2, <2>3, <2>4, <2>6, ReplacedSound DEF h
  <2> QED
    BY <1>2, <2>7 DEF Moved, e, h
<1> QED
  BY <1>1, <1>2

(* card.archived keeps a board sound.                                      *)
LEMMA ArchivedSound ==
  ASSUME NEW D, NEW v \in Board, Sound(v, D), NEW c, D.row[c].state = "archived"
  PROVE  Sound(Archived(v, c), D)
<1> DEFINE w == Archived(v, c)
<1>1. w.lists = v.lists /\ w.asOf = v.asOf /\ w.cards = Without(v, c)
  BY DEF Archived, Board
<1> HIDE DEF w
<1>2. Tidy(w)
  BY <1>1 DEF Sound, Tidy, Without
<1>3. ASSUME v.asOf = D.done, NEW d \in Card, OnBoardIn(d, D)
      PROVE  \E e \in w.cards : Says(e, d, D)
  <2>1. PICK e \in v.cards : Says(e, d, D)
    BY <1>3 DEF Sound, Fresh
  <2>2. e.id = d /\ d # c
    BY <1>3, <2>1 DEF Says, OnBoardIn
  <2> QED
    BY <1>1, <2>1, <2>2 DEF Without
<1>4. Sound(w, D)
  BY <1>1, <1>2, <1>3 DEF Sound, Fresh
<1> QED
  BY <1>4 DEF w

(* list.archived keeps a board sound.                                      *)
LEMMA ListArchivedSound ==
  ASSUME NEW D, NEW v \in Board, Sound(v, D), NEW l, l \in D.closed
  PROVE  Sound(ListArchived(v, l), D)
<1> DEFINE w == ListArchived(v, l)
<1>1. /\ w.lists = v.lists \ {l} /\ w.asOf = v.asOf
      /\ w.cards = {e \in v.cards : e.list # l}
  BY DEF ListArchived, Board
<1> HIDE DEF w
<1>2. Tidy(w)
  BY <1>1 DEF Sound, Tidy
<1>3. ASSUME v.asOf = D.done
      PROVE  w.lists = v.lists /\ w.cards = v.cards
  <2>1. l \notin v.lists
    BY <1>3 DEF Sound, Fresh, OpenIn
  <2> QED
    BY <1>1, <2>1 DEF Sound, Tidy
<1>4. Sound(w, D)
  BY <1>1, <1>2, <1>3 DEF Sound, Fresh
<1> QED
  BY <1>4 DEF w

(* reduce keeps a board sound, whatever message comes and whenever.        *)
LEMMA ReduceSound ==
  ASSUME NEW D \in Database, NEW v \in Board, Sound(v, D), NEW m \in Message, m.kind # "ack",
         Honest(m, D)
  PROVE  Sound(Reduce(v, m), D)
<1>1. /\ m.kind \in {"board.state", "card.created", "card.updated", "card.moved",
                   "card.archived", "list.archived"}
      /\ m.kind \in {"card.created", "card.updated", "card.moved"} =>
           /\ m.card \in Shown
           /\ m.card.ver <= D.row[m.card.id].ver
           /\ m.card.ver = D.row[m.card.id].ver => m.card = WireIn(m.card.id, D)
      /\ m.kind = "card.archived" => D.row[m.id].state = "archived"
      /\ m.kind = "list.archived" => m.id \in D.closed
      /\ m.kind = "board.state" => Sound(m.board, D)
  BY MessageTyped DEF Honest
<1> QED
  BY <1>1, CreatedSound, UpdatedSound, MovedSound, ArchivedSound, ListArchivedSound DEF Reduce

(* A drop leaves it so.                                                    *)
LEMMA DroppedSound ==
  ASSUME NEW D, NEW v \in Board, Sound(v, D), NEW c, NEW l, NEW r
  PROVE  Sound(Dropped(v, c, l, r), D)
<1> DEFINE e == [Held(v, c) EXCEPT !.list = l, !.by = {r}, !.at = "drop"]
           w == Dropped(v, c, l, r)
<1>1. CASE ~Holds(v, c) \/ l \notin v.lists
  BY <1>1 DEF Dropped
<1>2. CASE Holds(v, c) /\ l \in v.lists
  <2>1. /\ w.lists = v.lists /\ w.asOf = v.asOf
        /\ w.cards = Without(v, c) \union {e}
    BY <1>2 DEF Dropped, Board
  <2>2. Held(v, c) \in Shown /\ Held(v, c) \in v.cards /\ Held(v, c).id = c
    BY <1>2, HeldTyped
  <2>3. /\ e.id = c /\ e.list = l /\ e.ver = Held(v, c).ver /\ e.text = Held(v, c).text
        /\ e.by = {r}
    BY <2>2, CardDropped
  <2> HIDE DEF w, e
  <2>4. Tidy(w)
    BY <1>2, <2>1, <2>3 DEF Sound, Tidy, Without
  <2>5. ASSUME v.asOf = D.done, NEW d \in Card, OnBoardIn(d, D)
        PROVE  \E g \in w.cards : Says(g, d, D)
    <3>1. PICK f \in v.cards : Says(f, d, D)
      BY <2>5 DEF Sound, Fresh
    <3>2. CASE d # c
      BY <2>1, <3>1, <3>2 DEF Without, Says
    <3>3. CASE d = c
      <4>1. f = Held(v, c)
        BY <2>2, <3>1, <3>3 DEF Sound, Tidy, Says
      <4>2. Says(e, d, D)
        BY <2>3, <3>1, <3>3, <4>1 DEF Says
      <4> QED
        BY <2>1, <4>2
    <3> QED
      BY <3>2, <3>3
  <2>6. Sound(w, D)
    BY <2>1, <2>4, <2>5 DEF Sound, Fresh
  <2> QED
    BY <2>6 DEF w
<1> QED
  BY <1>1, <1>2
-----------------------------------------------------------------------------
(* What the server reads and sends.                                        *)

(* readBoard's two queries: what was read of the lists is enough, because  *)
(* only a board as of this very state has to be right.                     *)
LEMMA ReadSound ==
  ASSUME Typed
  PROVE  /\ HalfRead(ListsRead, Now)
         /\ \A b \in Board : HalfRead(b, Now) => Sound(CardsRead(b), Now)
<1>1. HalfRead(ListsRead, Now)
  BY NowIs DEF HalfRead, ListsRead
<1>2. ASSUME NEW b \in Board, HalfRead(b, Now) PROVE Sound(CardsRead(b), Now)
  <2> DEFINE w == CardsRead(b)
  <2>1. /\ w.lists = b.lists /\ w.asOf = b.asOf
        /\ w.cards = {Wire(d, row, text) :
                        d \in {e \in Card : row[e].state = "live" /\ row[e].list \in b.lists}}
    BY DEF CardsRead, Board
  <2> HIDE DEF w
  <2>2. ASSUME NEW e \in w.cards
        PROVE  e.list \in w.lists /\ \E d \in Card : e.id = d /\ e = Wire(d, row, text)
    BY <2>1 DEF Wire
  <2>3. Tidy(w)
    BY <2>2 DEF Tidy
  <2>4. ASSUME w.asOf = Now.done, NEW d \in Card, OnBoardIn(d, Now)
        PROVE  \E e \in w.cards : Says(e, d, Now)
    <3>1. row[d].state = "live" /\ row[d].list \in b.lists /\ row[d].list \in List
      BY <1>2, <2>1, <2>4, NowIs DEF HalfRead, OnBoardIn, OpenIn
    <3>2. WireIn(d, Now) \in w.cards
      BY <2>1, <3>1, NowIs DEF WireIn
    <3>3. WireIn(d, Now) \in Shown
      BY <3>1, WireTyped, NowIs DEF WireIn, Typed, TypeOK, StoreTypeOK
    <3> QED
      BY <3>2, <3>3, WireSays
  <2>5. Sound(w, Now)
    BY <1>2, <2>1, <2>3, <2>4 DEF Sound, Fresh, HalfRead
  <2> QED
    BY <2>5 DEF w
<1> QED
  BY <1>1, <1>2

(* An honest broadcast leaves every stream honest.                         *)
LEMMA ToldHonest ==
  ASSUME Typed, NEW D, NEW p, NEW m \in Message, Honest(m, D), NEW c \in Client,
         AllHonest(stream[c], D)
  PROVE  AllHonest(Told(p, m)[c], D)
BY AppendHonest DEF Told, Typed, TypeOK

(* An ack says nothing of the board, so it is honest.                      *)
LEMMA AckedHonest ==
  ASSUME NEW D, NEW s \in [Client -> Seq(Message)], NEW r \in Request, NEW code \in Code,
         NEW c \in Client, AllHonest(s[c], D)
  PROVE  AllHonest(Acked(s, r, code)[c], D)
<1> DEFINE m == [kind |-> "ack", req |-> r, code |-> code]
<1>1. m \in Message /\ Honest(m, D)
  BY DEF Message, Honest
<1> HIDE DEF m
<1>2. AllHonest(Append(s[c], m), D)
  BY <1>1, AppendHonest
<1> QED
  BY <1>2, ClientAssumption DEF Acked, m
-----------------------------------------------------------------------------
(* What a commit makes of what is on its way.                              *)

(* D becomes E: a request is carried out, no card goes, and a card that is *)
(* changed was not archived and gets a higher version.                     *)
Succeeds(D, E) ==
  /\ D.done \subseteq E.done /\ D.done # E.done
  /\ D.closed \subseteq E.closed
  /\ \A d \in Card : D.row[d].state # "absent" =>
       /\ E.row[d].state # "absent"
       /\ \/ E.row[d] = D.row[d] /\ E.text[d] = D.text[d]
          \/ D.row[d].ver < E.row[d].ver /\ D.row[d].state # "archived"

(* What was honest of the tables is honest of later ones: a message may    *)
(* grow old, never false.                                                  *)
LEMMA HonestLater ==
  ASSUME NEW D \in Database, NEW E \in Database, Succeeds(D, E), NEW m \in Message, Honest(m, D)
  PROVE  Honest(m, E)
<1>1. m.kind = "board.state" => Sound(m.board, E)
  BY DEF Honest, Sound, Succeeds
<1>2. ASSUME m.kind \in {"card.created", "card.updated", "card.moved"}
      PROVE  LET d == m.card.id
             IN  /\ E.row[d].state # "absent"
                 /\ m.card.ver <= E.row[d].ver
                 /\ m.card.ver = E.row[d].ver => m.card = WireIn(d, E)
  <2> DEFINE d == m.card.id
  <2>1. d \in Card /\ m.card.ver \in Nat
    BY <1>2, MessageTyped DEF Shown
  <2>2. D.row[d].ver \in Nat /\ E.row[d].ver \in Nat
    BY <2>1 DEF Database, Row
  <2>3. /\ D.row[d].state # "absent"
        /\ m.card.ver <= D.row[d].ver
        /\ m.card.ver = D.row[d].ver => m.card = WireIn(d, D)
    BY <1>2 DEF Honest
  <2>4. E.row[d] = D.row[d] /\ E.text[d] = D.text[d] => WireIn(d, E) = WireIn(d, D)
    BY DEF WireIn, Wire
  <2> QED
    BY <2>1, <2>2, <2>3, <2>4 DEF Succeeds
<1>3. m.kind = "card.archived" => m.id \in Card /\ E.row[m.id].state = "archived"
  BY DEF Honest, Succeeds
<1>4. m.kind = "list.archived" => m.id \in E.closed
  BY DEF Honest, Succeeds
<1> QED
  BY <1>1, <1>2, <1>3, <1>4 DEF Honest

(* What is sound, or half read, of the tables is so of later ones.         *)
LEMMA BoardsLater ==
  ASSUME NEW D, NEW E, Succeeds(D, E), NEW v
  PROVE  /\ Sound(v, D) => Sound(v, E)
         /\ HalfRead(v, D) => HalfRead(v, E)
BY DEF Sound, HalfRead, Succeeds

(* And so is a whole queue.                                                *)
LEMMA QueueLater ==
  ASSUME NEW D \in Database, NEW E \in Database, Succeeds(D, E), NEW s \in Seq(Message),
         AllHonest(s, D)
  PROVE  AllHonest(s, E)
BY HonestLater DEF AllHonest

(* .. and every operation that is carried out is such a step.              *)
LEMMA CommitSucceeds ==
  ASSUME Typed, NEW r \in Request, Commit(r)
  PROVE  /\ Succeeds(Now, Now')
         /\ Now \in Database /\ Now' \in Database
<1> DEFINE c == inp[r].card
<1>1. Now \in Database /\ Now' \in Database
  <2>1. TypeOK'
    BY CommitTyped DEF Typed
  <2>2. Now' \in Database
    BY <2>1 DEF Now, Database, TypeOK, StoreTypeOK, Applied
  <2> QED
    BY <2>2, NowTyped DEF Typed
<1>2. /\ Apply(r)
      /\ text' = IF inp[r].op \in {"create", "update"} THEN [text EXCEPT ![c] = r] ELSE text
  BY DEF Commit
<1>3. /\ row \in [Card -> Row] /\ text \in [Card -> Request \union {None}]
      /\ ans \in [Request -> Code \union {None}]
  BY DEF Typed, TypeOK, StoreTypeOK
<1>4. ans' = [ans EXCEPT ![r] = "OK"] /\ ans[r] = None /\ GoodAsk(r)
  BY <1>2, ApplyTyped
<1>5. Applied \subseteq Applied' /\ r \in Applied' /\ r \notin Applied
  BY <1>3, <1>4, NamesAssumption DEF Applied, Code
<1>6. closed \subseteq closed'
  BY <1>2 DEF Apply, StoreMove, StoreCreate, StoreRewrite, StoreArchiveList
<1>7. ASSUME NEW d \in Card, row[d].state # "absent"
      PROVE  /\ row'[d].state # "absent"
             /\ \/ row'[d] = row[d] /\ text'[d] = text[d]
                \/ row[d].ver < row'[d].ver /\ row[d].state # "archived"
  <2>1. row[d].ver \in Nat
    BY <1>3 DEF Row
  <2>2. CASE StoreMove(r)
    BY <1>2, <1>3, <1>7, <2>1, <2>2 DEF StoreMove
  <2>3. CASE StoreCreate(r)
    <3>1. d # c
      BY <1>7, <2>3 DEF StoreCreate
    <3> QED
      BY <1>2, <1>3, <1>7, <2>3, <3>1 DEF StoreCreate
  <2>4. CASE StoreRewrite(r)
    <3>1. CASE d # c
      BY <1>2, <1>3, <1>7, <2>4, <3>1 DEF StoreRewrite
    <3>2. CASE d = c
      <4>1. /\ row'[d].ver = row[d].ver + 1
            /\ row'[d].state \in {"archived", "live"}
            /\ row[d].state = "live"
        BY <1>3, <2>4, <3>2 DEF StoreRewrite, Row
      <4> QED
        BY <2>1, <4>1
    <3> QED
      BY <3>1, <3>2
  <2>5. CASE StoreArchiveList(r)
    BY <1>2, <1>7, <2>5 DEF StoreArchiveList
  <2> QED
    BY <1>2, <2>2, <2>3, <2>4, <2>5 DEF Apply
<1>8. Now = [row |-> row, closed |-> closed, text |-> text, done |-> Applied]
      /\ Now' = [row |-> row', closed |-> closed', text |-> text', done |-> Applied']
  BY DEF Now
<1> QED
  BY <1>1, <1>5, <1>6, <1>7, <1>8 DEF Succeeds

(* What the handler is to announce is what it has done.                    *)
LEMMA AnnouncesTruth ==
  ASSUME Typed, NEW r \in Request, Commit(r)
  PROVE  Honest(Announcement(r), Now)'
<1> DEFINE c == inp[r].card
<1>1. /\ Apply(r) /\ inp' = inp /\ GoodAsk(r)
      /\ inp[r].op # "archiveList" => c \in Card /\ row'[c].state # "absent"
      /\ row' \in [Card -> Row]
  BY ApplyTyped DEF Commit
<1>2. inp[r].op # "archiveList" => c # None
  BY <1>1, NamesAssumption
<1>3. inp[r].op # "archiveList" => made'[r] = Wire(c, row', text')
  BY <1>2 DEF Commit, Typed, TypeOK
<1>4. Now'.row = row' /\ Now'.closed = closed' /\ Now'.text = text'
  BY DEF Now
<1>5. CASE inp[r].op \in {"create", "update", "move"}
  <2>1. Announcement(r)'.kind \in {"card.created", "card.updated", "card.moved"}
        /\ Announcement(r)'.card = Wire(c, row', text')
    BY <1>1, <1>3, <1>5 DEF Announcement
  <2>2. Wire(c, row', text').id = c /\ Wire(c, row', text').ver = row'[c].ver
    BY DEF Wire
  <2>3. row'[c].ver \in Nat
    BY <1>1, <1>5 DEF Row
  <2> QED
    BY <1>1, <1>4, <1>5, <2>1, <2>2, <2>3 DEF Honest, WireIn
<1>6. CASE inp[r].op = "archive"
  <2>1. Announcement(r)' = [kind |-> "card.archived", id |-> c]
    BY <1>1, <1>6 DEF Announcement
  <2>2. row'[c].state = "archived"
    BY <1>1, <1>6
       DEF Apply, StoreMove, StoreCreate, StoreRewrite, StoreArchiveList, Typed, TypeOK,
           StoreTypeOK, Row
  <2> QED
    BY <1>1, <1>4, <1>6, <2>1, <2>2 DEF Honest
<1>7. CASE inp[r].op = "archiveList"
  <2>1. Announcement(r)' = [kind |-> "list.archived", id |-> inp[r].list]
    BY <1>1, <1>7 DEF Announcement
  <2>2. inp[r].list \in closed'
    BY <1>1, <1>7 DEF Apply, StoreMove, StoreCreate, StoreRewrite, StoreArchiveList
  <2> QED
    BY <1>4, <2>1, <2>2 DEF Honest
<1> QED
  BY <1>1, <1>5, <1>6, <1>7 DEF GoodAsk, Op
-----------------------------------------------------------------------------
(* InSync is inductive.                                                    *)

(* A step that leaves the database alone keeps InSync if what it shows,    *)
(* queues, holds and is about to announce is sound in that database.       *)
LEMMA QuietInSync ==
  ASSUME Now' = Now,
         \A c \in Client :
           /\ Sound(view'[c], Now)
           /\ AllHonest(stream'[c], Now)
           /\ link'[c] = "reading" => HalfRead(held'[c], Now)
           /\ link'[c] = "entering" => Sound(held'[c], Now),
         \A r \in Request :
           /\ stage'[r] = "reading" => HalfRead(rest'[r], Now)
           /\ stage'[r] = "fetched" => Sound(rest'[r], Now)
           /\ stage'[r] = "applied" => Honest(Announcement(r)', Now),
         \A o, p \in Replica : AllHonest(bus'[o][p], Now)
  PROVE  InSync'
BY DEF InSync

(* The tables stand while no row changes.                                  *)
LEMMA NowStands ==
  ASSUME UNCHANGED <<row, closed, text>>, Applied' = Applied
  PROVE  Now' = Now
BY DEF Now

(* The tables stand while the database does.                               *)
LEMMA NowStandsQuietly ==
  ASSUME UNCHANGED db
  PROVE  Now' = Now
BY DEF Now, Applied, db, storeVars

(* An announcement depends on the request and on what its operation made.  *)
LEMMA AnnouncementStands ==
  ASSUME NEW r \in Request, inp'[r] = inp[r], made'[r] = made[r]
  PROVE  Announcement(r)' = Announcement(r)
BY DEF Announcement

(* A page that asks, and moves its own card at once, stays in sync.        *)
LEMMA AskInSync ==
  ASSUME Typed, InSync, NEW r \in Request, Ask(r)
  PROVE  InSync'
<1> DEFINE c == Owner[r]
<1>1. /\ UNCHANGED <<row, closed, text, link, held, stream, bus, made, rest>>
      /\ inp[r] = None /\ ans[r] = None /\ c \in Client
      /\ \A q \in Request \ {r} : inp'[q] = inp[q] /\ ans'[q] = ans[q] /\ stage'[q] = stage[q]
      /\ ans'[r] \in {None, "INTERNAL"}
      /\ stage'[r] \in {"sent", "done", "refetch"}
  <2>1. /\ UNCHANGED <<row, closed, text, link, held, stream, bus, made, rest>>
        /\ inp[r] = None /\ ans[r] = None /\ c \in Client
        /\ \A q \in Request \ {r} : inp'[q] = inp[q]
    BY ClientAssumption DEF Ask, Typed, TypeOK, StoreTypeOK, Where
  <2>2. PICK op : \/ stage' = [stage EXCEPT ![r] = "sent"] /\ ans' = ans
                  \/ ans' = [ans EXCEPT ![r] = "INTERNAL"] /\ Settled(r, op, "INTERNAL")
    BY DEF Ask
  <2>3. Settled(r, op, "INTERNAL") =>
          /\ stage'[r] \in {"done", "refetch"}
          /\ \A q \in Request \ {r} : stage'[q] = stage[q]
    BY SettledTyped DEF Typed
  <2> QED
    BY <2>1, <2>2, <2>3 DEF Typed, TypeOK, StoreTypeOK
<1>2. Applied' = Applied
  BY <1>1, NamesAssumption DEF Applied, Code
<1>3. Now' = Now
  BY <1>1, <1>2, NowStands
<1>4. ASSUME NEW d \in Client PROVE Sound(view'[d], Now)
  <2>1. PICK s \in Offered[r] :
          view' = IF s.op = "move"
                  THEN [view EXCEPT ![c] = Dropped(view[c], s.card, s.list, r)] ELSE view
    BY DEF Ask
  <2>2. view \in [Client -> Board] /\ Sound(view[d], Now) /\ Sound(view[c], Now)
    BY <1>1 DEF Typed, TypeOK, InSync
  <2>3. Sound(Dropped(view[c], s.card, s.list, r), Now)
    BY <1>1, <2>2, DroppedSound
  <2> HIDE DEF c
  <2> QED
    BY <2>1, <2>2, <2>3
<1>5. ASSUME NEW q \in Request
      PROVE  /\ stage'[q] = "reading" => HalfRead(rest'[q], Now)
             /\ stage'[q] = "fetched" => Sound(rest'[q], Now)
             /\ stage'[q] = "applied" => Honest(Announcement(q)', Now)
  BY <1>1, AnnouncementStands DEF InSync
<1> QED
  BY <1>1, <1>3, <1>4, <1>5, QuietInSync DEF InSync

(* So does one that takes in what its stream brings.                       *)
LEMMA DeliverInSync ==
  ASSUME Typed, InSync, NEW c \in Client, Deliver(c)
  PROVE  InSync'
<1> DEFINE m == Head(stream[c])
<1>1. /\ UNCHANGED <<db, link, held, bus, tied, made, rest, faults>>
      /\ stream' = [stream EXCEPT ![c] = Tail(stream[c])]
      /\ stream \in [Client -> Seq(Message)] /\ stream[c] # <<>>
  BY DEF Deliver, Typed, TypeOK
<1>2. Now' = Now /\ Now \in Database
  BY <1>1, NowStandsQuietly, NowTyped DEF Typed
<1>3. /\ m \in Message /\ Honest(m, Now) /\ AllHonest(Tail(stream[c]), Now)
  BY <1>1, QueueTyped, QueueHonest DEF InSync
<1>4. ASSUME NEW d \in Client PROVE AllHonest(stream'[d], Now)
  BY <1>1, <1>3 DEF InSync
<1>5. ASSUME NEW d \in Client PROVE Sound(view'[d], Now)
  <2>1. CASE m.kind = "ack"
    BY <2>1 DEF Deliver, InSync
  <2>2. CASE m.kind # "ack"
    <3>1. view' = [view EXCEPT ![c] = Reduce(view[c], m)]
      BY <2>2 DEF Deliver
    <3>2. Sound(Reduce(view[c], m), Now)
      BY <1>2, <1>3, <2>2, ReduceSound DEF InSync, Typed, TypeOK
    <3> HIDE DEF m
    <3> QED
      BY <3>1, <3>2 DEF InSync, Typed, TypeOK
  <2> QED
    BY <2>1, <2>2
<1>6. ASSUME NEW q \in Request
      PROVE  /\ stage'[q] = "reading" => HalfRead(rest'[q], Now)
             /\ stage'[q] = "fetched" => Sound(rest'[q], Now)
             /\ stage'[q] = "applied" => Honest(Announcement(q)', Now)
  <2>1. stage'[q] = stage[q] \/ stage'[q] \in {"done", "refetch"}
    BY <1>3, MessageTyped, SettledTyped DEF Deliver, Typed
  <2>2. Announcement(q)' = Announcement(q)
    BY <1>1, AnnouncementStands DEF db, storeVars
  <2> QED
    BY <1>1, <2>1, <2>2 DEF InSync
<1> QED
  BY <1>1, <1>2, <1>4, <1>5, <1>6, QuietInSync DEF InSync

(* And one that fetches the board again, or fails to.                      *)
LEMMA RefetchInSync ==
  ASSUME Typed, InSync, NEW r \in Request, Refetch(r) \/ FetchFails(r)
  PROVE  InSync'
<1>1. UNCHANGED <<db, link, held, stream, bus, tied, made>>
  BY DEF Refetch, FetchLists, FetchCards, ShowFetched, FetchFails
<1>2. /\ stage \in [Request -> Stage] /\ rest \in [Request -> Board \union {None}]
      /\ view \in [Client -> Board] /\ Owner[r] \in Client
      /\ stage[r] \in {"reading", "fetched"} => rest[r] \in Board
  BY ClientAssumption DEF Typed, TypeOK, Where
<1>3. Now' = Now
  BY <1>1, NowStandsQuietly
<1>4. /\ \A c \in Client : Sound(view'[c], Now)
      /\ stage'[r] = "reading" => HalfRead(rest'[r], Now)
      /\ stage'[r] = "fetched" => Sound(rest'[r], Now)
      /\ stage'[r] # "applied"
      /\ \A q \in Request \ {r} : stage'[q] = stage[q] /\ rest'[q] = rest[q]
  <2>1. CASE FetchLists(r)
    BY <1>2, <2>1, ReadSound DEF FetchLists, InSync
  <2>2. CASE FetchCards(r)
    <3>1. Sound(CardsRead(rest[r]), Now)
      BY <1>2, <2>2, ReadSound DEF FetchCards, InSync
    <3> QED
      BY <1>2, <2>2, <3>1 DEF FetchCards, InSync
  <2>3. CASE ShowFetched(r)
    <3>1. Sound(rest[r], Now)
      BY <2>3 DEF ShowFetched, InSync
    <3> QED
      BY <1>2, <2>3, <3>1 DEF ShowFetched, InSync
  <2>4. CASE FetchFails(r)
    BY <1>2, <2>4 DEF FetchFails, InSync
  <2> QED
    BY <2>1, <2>2, <2>3, <2>4 DEF Refetch
<1>5. \A q \in Request : Announcement(q)' = Announcement(q)
  BY <1>1, AnnouncementStands DEF db, storeVars
<1>6. ASSUME NEW q \in Request
      PROVE  /\ stage'[q] = "reading" => HalfRead(rest'[q], Now)
             /\ stage'[q] = "fetched" => Sound(rest'[q], Now)
             /\ stage'[q] = "applied" => Honest(Announcement(q)', Now)
  BY <1>4, <1>5 DEF InSync
<1> QED
  BY <1>1, <1>3, <1>4, <1>6, QuietInSync DEF InSync

(* And one that loses its socket.                                          *)
LEMMA DropInSync ==
  ASSUME Typed, InSync, NEW c \in Client, Drop(c)
  PROVE  InSync'
<1>1. /\ UNCHANGED <<db, view, bus, made, left, rest>>
      /\ link' = [link EXCEPT ![c] = "down"]
      /\ stream' = [stream EXCEPT ![c] = <<>>]
      /\ held' = [held EXCEPT ![c] = None]
      /\ \A r \in Request : stage'[r] = stage[r] \/ stage'[r] \in {"lost", "orphan"}
  BY DEF Drop
<1>2. Now' = Now
  BY <1>1, NowStandsQuietly
<1>3. AllHonest(<<>>, Now)
  BY DEF AllHonest
<1>4. ASSUME NEW d \in Client
      PROVE  /\ AllHonest(stream'[d], Now)
             /\ link'[d] = "reading" => HalfRead(held'[d], Now)
             /\ link'[d] = "entering" => Sound(held'[d], Now)
  BY <1>1, <1>3 DEF InSync, Typed, TypeOK
<1>5. \A q \in Request : Announcement(q)' = Announcement(q)
  BY <1>1, AnnouncementStands DEF db, storeVars
<1>6. ASSUME NEW q \in Request
      PROVE  /\ stage'[q] = "reading" => HalfRead(rest'[q], Now)
             /\ stage'[q] = "fetched" => Sound(rest'[q], Now)
             /\ stage'[q] = "applied" => Honest(Announcement(q)', Now)
  BY <1>1, <1>5 DEF InSync
<1> QED
  BY <1>1, <1>2, <1>4, <1>6, QuietInSync DEF InSync

(* And one that joins, its board read in two selects, or that fails to.    *)
LEMMA JoinInSync ==
  ASSUME Typed, InSync, NEW c \in Client, Connects(c)
  PROVE  InSync'
<1>1. UNCHANGED <<db, view, bus, stage, tied, made, left, rest>>
  BY DEF Connects, Join, Reconnect, JoinLists, JoinCards, JoinEnter, HandshakeRefused, JoinFails
<1>2. /\ link \in [Client -> Link]
      /\ held \in [Client -> Board \union {None}]
      /\ stream \in [Client -> Seq(Message)] /\ Joins(c)
  BY DEF Typed, TypeOK
<1>3. Now' = Now
  BY <1>1, NowStandsQuietly
<1>4. ASSUME NEW d \in Client
      PROVE  /\ AllHonest(stream'[d], Now)
             /\ link'[d] = "reading" => HalfRead(held'[d], Now)
             /\ link'[d] = "entering" => Sound(held'[d], Now)
  <2>1. CASE Reconnect(c) \/ HandshakeRefused(c) \/ JoinFails(c)
    BY <1>2, <2>1 DEF Reconnect, HandshakeRefused, JoinFails, InSync
  <2>2. CASE JoinLists(c)
    BY <1>2, <2>2, ReadSound DEF JoinLists, InSync
  <2>3. CASE JoinCards(c)
    <3>1. Sound(CardsRead(held[c]), Now)
      BY <1>2, <2>3, ReadSound DEF JoinCards, Joins, InSync
    <3> QED
      BY <1>2, <2>3, <3>1 DEF JoinCards, InSync
  <2>4. CASE JoinEnter(c)
    <3> DEFINE m == [kind |-> "board.state", board |-> held[c]]
    <3>1. held[c] \in Board /\ Sound(held[c], Now)
      BY <1>2, <2>4 DEF JoinEnter, Joins, InSync
    <3>2. m \in Message /\ Honest(m, Now)
      BY <3>1 DEF Message, Honest
    <3>3. link' = [link EXCEPT ![c] = "live"] /\ held' = [held EXCEPT ![c] = None]
          /\ stream' = [stream EXCEPT ![c] = Append(stream[c], m)]
      BY <2>4 DEF JoinEnter
    <3> HIDE DEF m
    <3>4. AllHonest(Append(stream[c], m), Now)
      BY <1>2, <3>2, AppendHonest DEF InSync
    <3> QED
      BY <1>2, <3>3, <3>4 DEF InSync
  <2> QED
    BY <2>1, <2>2, <2>3, <2>4 DEF Connects, Join
<1>5. \A q \in Request : Announcement(q)' = Announcement(q)
  BY <1>1, AnnouncementStands DEF db, storeVars
<1> QED
  BY <1>1, <1>3, <1>4, <1>5, QuietInSync DEF InSync

(* An answer over HTTP or by an ack leaves pages in sync.                  *)
LEMMA AnsweredInSync ==
  ASSUME Typed, InSync, NEW r \in Request, NEW code \in Code, Answered(r, code)
  PROVE  InSync'
<1>1. /\ UNCHANGED <<row, closed, inp, text, view, link, held, bus, tied, made, left, rest>>
      /\ stream' = Acked(stream, r, code) /\ stage' = AckStage(r)
      /\ ans[r] = None /\ ans'[r] # "OK" /\ \A q \in Request \ {r} : ans'[q] = ans[q]
  BY DEF Answered, Refuse, Pending, Typed, TypeOK, StoreTypeOK
<1>2. Applied' = Applied
  BY <1>1, NamesAssumption DEF Applied, Code
<1>3. Now' = Now
  BY <1>1, <1>2, NowStands
<1>4. /\ stage'[r] \in {"answered", "orphan"}
      /\ \A q \in Request \ {r} : stage'[q] = stage[q]
  <2>1. TypeOK /\ stream \in [Client -> Seq(Message)]
    BY DEF Typed, TypeOK
  <2> QED
    BY <1>1, <2>1, AckedTyped
<1>5. ASSUME NEW c \in Client PROVE AllHonest(stream'[c], Now)
  BY <1>1, AckedHonest DEF Typed, TypeOK, InSync
<1>6. \A q \in Request : Announcement(q)' = Announcement(q)
  BY <1>1, AnnouncementStands
<1>7. ASSUME NEW q \in Request
      PROVE  /\ stage'[q] = "reading" => HalfRead(rest'[q], Now)
             /\ stage'[q] = "fetched" => Sound(rest'[q], Now)
             /\ stage'[q] = "applied" => Honest(Announcement(q)', Now)
  BY <1>1, <1>4, <1>6 DEF InSync
<1> QED
  BY <1>1, <1>3, <1>5, <1>7, QuietInSync DEF InSync

(* So does a broadcast, or one that hydration stops.                       *)
LEMMA AnnounceInSync ==
  ASSUME Typed, InSync, NEW r \in Request, Announce(r) \/ HydrateFails(r)
  PROVE  InSync'
<1> DEFINE o == Home[Owner[r]]
           m == Announcement(r)
<1>1. /\ UNCHANGED <<db, view, link, held, tied, made, left, rest>>
      /\ stage[r] = "applied" /\ stage' = AckStage(r)
  BY DEF Announce, HydrateFails
<1>2. m \in Message /\ Honest(m, Now) /\ o \in Replica
  BY <1>1, AnnouncementTyped DEF InSync
<1>3. Now' = Now
  BY <1>1, NowStandsQuietly
<1>4. /\ stage'[r] \in {"answered", "orphan"}
      /\ \A q \in Request \ {r} : stage'[q] = stage[q]
  BY <1>1, AckedTyped DEF Typed, TypeOK, Code
<1>5. \/ stream' = Acked(Told(o, m), r, "OK") /\ bus' = Published(o, m)
      \/ stream' = Acked(stream, r, "INTERNAL") /\ bus' = bus
  BY DEF Announce, HydrateFails
<1>6. Told(o, m) \in [Client -> Seq(Message)] /\ stream \in [Client -> Seq(Message)]
  BY <1>2, ToldTyped DEF Typed, TypeOK
<1> HIDE DEF o, m
<1>7. ASSUME NEW c \in Client PROVE AllHonest(stream'[c], Now)
  <2>1. AllHonest(stream[c], Now) /\ AllHonest(Told(o, m)[c], Now)
    BY <1>2, ToldHonest DEF InSync
  <2> QED
    BY <1>5, <1>6, <2>1, AckedHonest DEF Code
<1>8. ASSUME NEW p \in Replica, NEW q \in Replica PROVE AllHonest(bus'[p][q], Now)
  <2>1. AllHonest(bus[p][q], Now) /\ bus[p][q] \in Seq(Message)
    BY DEF InSync, Typed, TypeOK
  <2>2. AllHonest(Append(bus[p][q], m), Now)
    BY <1>2, <2>1, AppendHonest
  <2>3. CASE bus' = Published(o, m)
    BY <2>1, <2>2, <2>3 DEF Published, Typed, TypeOK
  <2> QED
    BY <1>5, <2>1, <2>3
<1>9. \A q \in Request : Announcement(q)' = Announcement(q)
  BY <1>1, AnnouncementStands DEF db, storeVars
<1>10. ASSUME NEW q \in Request
       PROVE  /\ stage'[q] = "reading" => HalfRead(rest'[q], Now)
              /\ stage'[q] = "fetched" => Sound(rest'[q], Now)
              /\ stage'[q] = "applied" => Honest(Announcement(q)', Now)
  BY <1>1, <1>4, <1>9 DEF InSync
<1> QED
  BY <1>1, <1>3, <1>7, <1>8, <1>10, QuietInSync DEF InSync

(* And the bus, carrying or losing a message.                              *)
LEMMA RelayInSync ==
  ASSUME Typed, InSync, NEW o \in Replica, NEW p \in Replica, Relay(o, p) \/ LoseRelay(o, p)
  PROVE  InSync'
<1>1. /\ UNCHANGED <<db, view, link, held, stage, tied, made, left, rest>>
      /\ bus[o][p] \in Seq(Message) /\ bus[o][p] # <<>>
      /\ bus' = [bus EXCEPT ![o][p] = Tail(bus[o][p])]
      /\ stream' = Told(p, Head(bus[o][p])) \/ stream' = stream
  BY DEF Relay, LoseRelay, Typed, TypeOK
<1>2. Now' = Now
  BY <1>1, NowStandsQuietly
<1>3. /\ Head(bus[o][p]) \in Message /\ Honest(Head(bus[o][p]), Now)
      /\ AllHonest(Tail(bus[o][p]), Now)
  BY <1>1, QueueTyped, QueueHonest DEF InSync
<1>4. ASSUME NEW c \in Client PROVE AllHonest(stream'[c], Now)
  BY <1>1, <1>3, ToldHonest DEF InSync
<1>5. ASSUME NEW q \in Replica, NEW s \in Replica PROVE AllHonest(bus'[q][s], Now)
  BY <1>1, <1>3 DEF InSync, Typed, TypeOK
<1>6. \A q \in Request : Announcement(q)' = Announcement(q)
  BY <1>1, AnnouncementStands DEF db, storeVars
<1> QED
  BY <1>1, <1>2, <1>4, <1>5, <1>6, QuietInSync DEF InSync

(* And a commit: messages on their way grow old, and stay honest.          *)
LEMMA CommitInSync ==
  ASSUME Typed, InSync, NEW r \in Request, Commit(r)
  PROVE  InSync'
<1>1. /\ Succeeds(Now, Now')
      /\ Now \in Database /\ Now' \in Database
      /\ Honest(Announcement(r), Now)'
  BY CommitSucceeds, AnnouncesTruth
<1>2. /\ UNCHANGED <<view, link, held, stream, bus, tied, left, rest, faults>>
      /\ inp' = inp
      /\ \A q \in Request \ {r} : stage'[q] = stage[q] /\ made'[q] = made[q]
      /\ stage'[r] = "applied"
  BY DEF Commit, Apply, Typed, TypeOK
<1>3. ASSUME NEW c \in Client
      PROVE  /\ Sound(view'[c], Now')
             /\ AllHonest(stream'[c], Now')
             /\ link'[c] = "reading" => HalfRead(held'[c], Now')
             /\ link'[c] = "entering" => Sound(held'[c], Now')
  BY <1>1, <1>2, BoardsLater, QueueLater DEF InSync, Typed, TypeOK
<1>4. ASSUME NEW q \in Request \ {r}
      PROVE  /\ stage'[q] = "reading" => HalfRead(rest'[q], Now')
             /\ stage'[q] = "fetched" => Sound(rest'[q], Now')
             /\ stage'[q] = "applied" => Honest(Announcement(q)', Now')
  <2>1. Announcement(q)' = Announcement(q)
    BY <1>2, AnnouncementStands
  <2>2. stage[q] = "applied" => Honest(Announcement(q), Now')
    BY <1>1, AnnouncementTyped, HonestLater DEF InSync
  <2> QED
    BY <1>1, <1>2, <2>1, <2>2, BoardsLater DEF InSync
<1>5. ASSUME NEW o \in Replica, NEW p \in Replica PROVE AllHonest(bus'[o][p], Now')
  BY <1>1, <1>2, QueueLater DEF InSync, Typed, TypeOK
<1> QED
  BY <1>1, <1>2, <1>3, <1>4, <1>5 DEF InSync

(* Every step leaves the pages in sync.                                    *)
LEMMA InSyncStep ==
  ASSUME Typed, InSync, [Next]_vars
  PROVE  InSync'
<1>1. CASE UNCHANGED vars \/ Rest
  <2>1. UNCHANGED <<db, view, stream, link, held, stage, rest, made, bus>>
    BY <1>1 DEF Rest, vars, db, storeVars
  <2>2. Now' = Now
    BY <2>1, NowStandsQuietly
  <2>3. \A q \in Request : Announcement(q)' = Announcement(q)
    BY <2>1, AnnouncementStands DEF db, storeVars
  <2> QED
    BY <2>1, <2>2, <2>3, QuietInSync DEF InSync
<1>2. ASSUME NEW r \in Request,
             Ask(r) \/ Serve(r) \/ Refetch(r) \/ FailAsk(r) \/ HydrateFails(r) \/ FetchFails(r)
      PROVE  InSync'
  <2>1. CASE RefuseAsk(r) \/ FailAsk(r)
    <3>1. PICK code \in Code : Answered(r, code)
      BY <2>1 DEF RefuseAsk, FailAsk, Code
    <3> QED
      BY <3>1, AnsweredInSync
  <2> QED
    BY <1>2, <2>1, AskInSync, CommitInSync, AnnounceInSync, RefetchInSync DEF Serve
<1>3. ASSUME NEW c \in Client, Deliver(c) \/ Connects(c) \/ Drop(c) PROVE InSync'
  BY <1>3, DeliverInSync, JoinInSync, DropInSync
<1>4. ASSUME NEW o \in Replica, NEW p \in Replica, Relay(o, p) \/ LoseRelay(o, p) PROVE InSync'
  BY <1>4, RelayInSync
<1> QED
  BY <1>1, <1>2, <1>3, <1>4 DEF Next, Connects

(* The pages are in sync at the start.                                     *)
LEMMA InSyncInit ==
  ASSUME Init
  PROVE  InSync
<1>1. Typed
  BY TypedInit
<1>2. Sound(Snapshot, Now)
  BY <1>1, ReadSound, ReadTyped DEF Snapshot, Typed
<1>3. AllHonest(<<>>, Now)
  BY DEF AllHonest
<1> QED
  BY <1>2, <1>3 DEF Init, InSync

(* However requests, broadcasts, joins, refetches, drops and losses        *)
(* interleave: every board on a screen or on its way to one is tidy, and   *)
(* right if nothing has been carried out since it was read; every message  *)
(* on its way tells of a card as it is or as it was before; and no card,   *)
(* and no closed list, is announced as something it has not become.        *)
THEOREM AlwaysInSync == Spec => [](Typed /\ InSync)
<1>1. Init => InSync
  BY InSyncInit
<1>2. Typed /\ InSync /\ [Next]_vars => InSync'
  BY InSyncStep
<1>3. Init /\ []Typed /\ [][Next]_vars => []InSync
  BY <1>1, <1>2, PTL
<1> QED
  BY <1>3, TypedAlways, PTL DEF Spec

(* A card is on a screen at most once, whatever order drops, broadcasts,   *)
(* snapshots and refetches reach reduce in.                                *)
THEOREM ShownOnce == Spec => []NoCardTwice
<1>1. InSync => NoCardTwice
  BY DEF InSync, Sound, Tidy, NoCardTwice
<1> QED
  BY <1>1, AlwaysInSync, PTL

(* Once a page has taken in a snapshot of the board as it still is, no     *)
(* event that was overtaken, on whatever path, undoes it: every card of    *)
(* the board is on the screen as it was committed, the user's own drops    *)
(* aside.                                                                  *)
THEOREM FreshStays == Spec => []FreshViewHolds
<1>1. ASSUME Typed, InSync, NEW c \in Client, view[c].asOf = Applied, NEW d \in Card, OnBoard(d)
      PROVE  \E e \in view[c].cards :
               e.id = d /\ (e.by # {} \/ [e EXCEPT !.at = "pos"] = Wire(d, row, text))
  <2>1. PICK e \in view[c].cards : Says(e, d, Now)
    BY <1>1, NowIs DEF InSync, Sound, Fresh
  <2> QED
    BY <2>1, NowIs DEF Says, WireIn
<1>2. Typed /\ InSync => FreshViewHolds
  BY <1>1 DEF FreshViewHolds
<1> QED
  BY <1>2, AlwaysInSync, PTL
-----------------------------------------------------------------------------
(* No card grows younger by an event.                                      *)

(* w shows no card at a lower version than v does.                         *)
NoneYounger(v, w) == \A e \in v.cards : \A f \in w.cards : e.id = f.id => ~(f.ver < e.ver)

(* A board made of a board's own cards has none younger.                   *)
LEMMA SameNotYounger ==
  ASSUME NEW v \in Board, Tidy(v), NEW w, \A f \in w.cards : f \in v.cards
  PROVE  NoneYounger(v, w)
<1>1. ASSUME NEW e \in v.cards, NEW f \in w.cards, e.id = f.id PROVE ~(f.ver < e.ver)
  <2>1. e = f
    BY <1>1 DEF Tidy
  <2>2. e.ver \in Nat
    BY BoardTyped DEF Shown
  <2> QED
    BY <2>1, <2>2
<1> QED
  BY <1>1 DEF NoneYounger

(* Nor has one with a card put in whose version is no older.               *)
LEMMA PlacedNotYounger ==
  ASSUME NEW v \in Board, Tidy(v), NEW s \in SUBSET v.cards, NEW e \in Shown,
         \A f \in s : f.id # e.id,
         \A f \in v.cards : f.id = e.id => f.ver <= e.ver
  PROVE  NoneYounger(v, Placed(v, s, e))
<1> DEFINE w == Placed(v, s, e)
<1>1. \A g \in w.cards : \E f \in s \union {e} : g.id = f.id /\ g.ver = f.ver
  BY PlacedKeeps
<1>2. ASSUME NEW d \in v.cards, NEW g \in w.cards, d.id = g.id PROVE ~(g.ver < d.ver)
  <2>1. PICK f \in s \union {e} : g.id = f.id /\ g.ver = f.ver
    BY <1>1
  <2>2. d.ver \in Nat /\ f.ver \in Nat
    BY BoardTyped DEF Shown
  <2>3. CASE f = e
    BY <1>2, <2>1, <2>2, <2>3
  <2>4. CASE f \in s
    BY <1>2, <2>1, <2>2, <2>4 DEF Tidy
  <2> QED
    BY <2>3, <2>4
<1> QED
  BY <1>2 DEF NoneYounger

(* No event takes a card back to an earlier version.                       *)
LEMMA ReduceNotYounger ==
  ASSUME NEW v \in Board, Tidy(v), NEW m \in Message, m.kind \notin {"ack", "board.state"}
  PROVE  NoneYounger(v, Reduce(v, m))
<1>1. NoneYounger(v, v)
  BY SameNotYounger
<1>2. CASE m.kind = "card.created"
  <2>1. CASE Holds(v, m.card.id)
    BY <1>1, <1>2, <2>1 DEF Reduce, Created
  <2>2. CASE ~Holds(v, m.card.id)
    <3>1. v.cards \in SUBSET v.cards /\ m.card \in Shown
      BY <1>2, MessageTyped
    <3>2. \A f \in v.cards : f.id # m.card.id
      BY <2>2 DEF Holds
    <3>3. NoneYounger(v, Placed(v, v.cards, m.card))
      BY <3>1, <3>2, PlacedNotYounger
    <3> QED
      BY <1>2, <2>2, <3>3 DEF Reduce, Created
  <2> QED
    BY <2>1, <2>2
<1>3. CASE m.kind \in {"card.updated", "card.moved"}
  <2> DEFINE x == m.card
             c == x.id
             h == Held(v, c)
  <2>1. x \in Shown
    BY <1>3, MessageTyped
  <2>2. CASE ~Holds(v, c) \/ x.ver < h.ver
    BY <1>1, <1>3, <2>2 DEF Reduce, Updated, Moved
  <2>3. CASE Holds(v, c) /\ ~(x.ver < h.ver)
    <3>1. h \in Shown /\ h \in v.cards /\ h.id = c
      BY <2>3, HeldTyped
    <3>2. /\ h.list \in List /\ h.by \in SUBSET Request /\ h.text \in Request \union {None}
          /\ h.ver \in Nat /\ x.ver \in Nat
      BY <2>1, <3>1 DEF Shown
    <3>3. Without(v, c) \in SUBSET v.cards /\ \A f \in Without(v, c) : f.id # c
      BY DEF Without
    <3>4. \A f \in v.cards : f.id = c => f.ver <= x.ver
      <4>1. \A f \in v.cards : f.id = c => f = h
        BY <3>1 DEF Tidy
      <4> QED
        BY <2>3, <3>2, <4>1
    <3>5. ASSUME NEW e \in Shown, e.id = c, e.ver = x.ver
          PROVE  NoneYounger(v, Placed(v, Without(v, c), e))
      BY <3>3, <3>4, <3>5, PlacedNotYounger
    <3>6. CASE m.kind = "card.updated"
      <4> DEFINE e == [x EXCEPT !.list = h.list, !.by = h.by]
      <4>1. e \in Shown
        BY <2>1, <3>2, CardTyped
      <4>2. e.id = c /\ e.ver = x.ver
        <5> HIDE DEF h, x
        <5> QED
          BY <2>1 DEF Shown
      <4> HIDE DEF e
      <4>3. NoneYounger(v, Placed(v, Without(v, c), e))
        BY <3>5, <4>1, <4>2
      <4> QED
        BY <2>3, <3>6, <4>3 DEF Reduce, Updated, e
    <3>7. CASE m.kind = "card.moved"
      <4> DEFINE e == [x EXCEPT !.text = h.text]
      <4>1. e \in Shown
        BY <2>1, <3>2, CardTyped
      <4>2. e.id = c /\ e.ver = x.ver
        BY <2>1, CardSaying
      <4> HIDE DEF e
      <4>3. NoneYounger(v, Placed(v, Without(v, c), e))
        BY <3>5, <4>1, <4>2
      <4> QED
        BY <2>3, <3>7, <4>3 DEF Reduce, Moved, e
    <3> QED
      BY <1>3, <3>6, <3>7
  <2> QED
    BY <2>2, <2>3
<1>4. CASE m.kind = "card.archived"
  <2>1. \A f \in Archived(v, m.id).cards : f \in v.cards
    BY DEF Archived, Without, Board
  <2> QED
    BY <1>4, <2>1, SameNotYounger DEF Reduce
<1>5. CASE m.kind = "list.archived"
  <2>1. \A f \in ListArchived(v, m.id).cards : f \in v.cards
    BY DEF ListArchived, Board
  <2> QED
    BY <1>5, <2>1, SameNotYounger DEF Reduce
<1> QED
  BY <1>2, <1>3, <1>4, <1>5, MessageTyped

(* Nor does the optimistic move.                                           *)
LEMMA DroppedNotYounger ==
  ASSUME NEW v \in Board, Tidy(v), NEW c, NEW l, NEW r
  PROVE  NoneYounger(v, Dropped(v, c, l, r))
<1> DEFINE e == [Held(v, c) EXCEPT !.list = l, !.by = {r}, !.at = "drop"]
           w == Dropped(v, c, l, r)
<1>1. CASE ~Holds(v, c) \/ l \notin v.lists
  BY <1>1, SameNotYounger DEF Dropped
<1>2. CASE Holds(v, c) /\ l \in v.lists
  <2>1. w.cards = Without(v, c) \union {e}
    BY <1>2 DEF Dropped, Board
  <2>2. Held(v, c) \in Shown /\ Held(v, c) \in v.cards /\ Held(v, c).id = c
    BY <1>2, HeldTyped
  <2>3. e.id = c /\ e.ver = Held(v, c).ver
    BY <2>2, CardDropped
  <2> HIDE DEF e, w
  <2>4. ASSUME NEW d \in v.cards, NEW f \in w.cards, d.id = f.id PROVE ~(f.ver < d.ver)
    <3>1. f.ver = d.ver
      BY <2>1, <2>2, <2>3, <2>4 DEF Without, Tidy
    <3>2. d.ver \in Nat
      BY BoardTyped DEF Shown
    <3> QED
      BY <3>1, <3>2
  <2> QED
    BY <2>4 DEF NoneYounger, w
<1> QED
  BY <1>1, <1>2

(* The version a screen shows of a card goes down only when a board that   *)
(* was read is shown, a join's or a refetch's.                             *)
LEMMA StepNotYounger ==
  ASSUME Typed, InSync, [Next]_vars, NEW c \in Client
  PROVE  \/ NoneYounger(view[c], view'[c])
         \/ stream[c] # <<>> /\ Head(stream[c]).kind = "board.state"
         \/ \E r \in Request : Owner[r] = c /\ stage[r] = "fetched"
<1>1. view \in [Client -> Board] /\ view[c] \in Board /\ Tidy(view[c])
  BY DEF Typed, TypeOK, InSync, Sound
<1>2. view'[c] = view[c] => NoneYounger(view[c], view'[c])
  BY <1>1, SameNotYounger
<1>3. ASSUME NEW r \in Request, Ask(r) PROVE NoneYounger(view[c], view'[c])
  <2>1. PICK s \in Offered[r] :
          view' = IF s.op = "move"
                  THEN [view EXCEPT ![Owner[r]] = Dropped(view[Owner[r]], s.card, s.list, r)]
                  ELSE view
    BY <1>3 DEF Ask
  <2>2. NoneYounger(view[c], Dropped(view[c], s.card, s.list, r))
    BY <1>1, DroppedNotYounger
  <2>3. view'[c] = view[c] \/ view'[c] = Dropped(view[c], s.card, s.list, r)
    BY <1>1, <2>1
  <2> QED
    BY <1>2, <2>2, <2>3
<1>4. ASSUME NEW d \in Client, Deliver(d)
      PROVE  \/ NoneYounger(view[c], view'[c])
             \/ stream[c] # <<>> /\ Head(stream[c]).kind = "board.state"
  <2> DEFINE m == Head(stream[c])
  <2>1. CASE view'[c] = view[c]
    BY <1>2, <2>1
  <2>2. CASE view'[c] # view[c]
    <3>1. d = c /\ m.kind # "ack" /\ view'[c] = Reduce(view[c], m) /\ stream[c] # <<>>
      BY <1>1, <1>4, <2>2 DEF Deliver
    <3>2. m \in Message
      BY <3>1, QueueTyped DEF Typed, TypeOK
    <3> HIDE DEF m
    <3>3. m.kind # "board.state" => NoneYounger(view[c], Reduce(view[c], m))
      BY <1>1, <3>1, <3>2, ReduceNotYounger
    <3> QED
      BY <3>1, <3>3 DEF m
  <2> QED
    BY <2>1, <2>2
<1>5. ASSUME NEW r \in Request, Refetch(r) \/ FetchFails(r)
      PROVE  view'[c] = view[c] \/ (Owner[r] = c /\ stage[r] = "fetched")
  BY <1>1, <1>5 DEF Refetch, FetchLists, FetchCards, ShowFetched, FetchFails
<1>6. ASSUME NEW r \in Request, Serve(r) \/ FailAsk(r) \/ HydrateFails(r) PROVE view' = view
  BY <1>6 DEF Serve, Commit, RefuseAsk, FailAsk, Answered, Announce, HydrateFails
<1>7. ASSUME NEW d \in Client, Connects(d) \/ Drop(d) PROVE view' = view
  BY <1>7 DEF Connects, Join, Reconnect, JoinLists, JoinCards, JoinEnter, HandshakeRefused,
              JoinFails, Drop
<1>8. ASSUME NEW o \in Replica, NEW p \in Replica, Relay(o, p) \/ LoseRelay(o, p)
      PROVE  view' = view
  BY <1>8 DEF Relay, LoseRelay
<1>9. CASE UNCHANGED vars \/ Rest
  BY <1>2, <1>9 DEF Rest, vars
<1> QED
  BY <1>2, <1>3, <1>4, <1>5, <1>6, <1>7, <1>8, <1>9 DEF Next, Connects

(* reduce never takes a card on a screen back to an earlier version, in    *)
(* whatever order events arrive; only a snapshot does.                     *)
THEOREM NoStepBack == Spec => VersionsRise
<1>1. Typed /\ InSync /\ [Next]_vars
        => [\A c \in Client : \A e \in view[c].cards : \A f \in view'[c].cards :
              e.id = f.id /\ f.ver < e.ver =>
                \/ stream[c] # <<>> /\ Head(stream[c]).kind = "board.state"
                \/ \E r \in Request : Owner[r] = c /\ stage[r] = "fetched"]_vars
  BY StepNotYounger DEF NoneYounger
<1> QED
  BY <1>1, AlwaysInSync, PTL DEF Spec, VersionsRise
-----------------------------------------------------------------------------
(* No refused drop is left to itself.                                      *)

(* A drop is known to the page that made it alone: nothing the server      *)
(* sends carries one.                                                      *)
Plain(b) == \A e \in b.cards : e.by = {}

PlainNews(m) ==
  /\ m.kind = "board.state" => Plain(m.board)
  /\ m.kind \in {"card.created", "card.updated", "card.moved"} => m.card.by = {}

AllPlain(s) == \A i \in 1 .. Len(s) : PlainNews(s[i])

NoDropTravels ==
  /\ \A c \in Client :
       /\ AllPlain(stream[c])
       /\ link[c] \in {"reading", "entering"} => Plain(held[c])
  /\ \A r \in Request :
       /\ stage[r] \in {"reading", "fetched"} => Plain(rest[r])
       /\ stage[r] = "applied" /\ inp[r].op # "archiveList" => made[r].by = {}
  /\ \A o, p \in Replica : AllPlain(bus[o][p])

Queued(m, s) == \E i \in DOMAIN s : s[i] = m

(* An ack that tells of a refusal is on its way.                           *)
RefusalComing(r) ==
  \E m \in Message :
    Queued(m, stream[Owner[r]]) /\ m.kind = "ack" /\ m.req = r /\ m.code # "OK"

(* A board is on its way to a page, or the page has reported that none is. *)
BoardDue(c) == BoardComing(c) \/ CutOff(c)

(* What a request's stage says of its answer, and who sees to its drop.    *)
Heeded(r) ==
  /\ stage[r] \in {"sent", "lost"} => ans[r] = None
  /\ stage[r] = "applied" => ans[r] = "OK"
  /\ ShowsDrop(r) =>
       /\ inp[r] # None /\ inp[r].op = "move"
       /\ \/ ans[r] = "OK"
          \/ stage[r] \in {"refetch", "reading", "fetched", "abandoned"}
          \/ stage[r] = "sent" /\ tied[r]
          \/ stage[r] = "answered" /\ RefusalComing(r)
          \/ stage[r] \in {"sent", "lost", "orphan"} /\ BoardDue(Owner[r])

(* An ack says OK only of what has been carried out, and replicas pass no  *)
(* acks on.                                                                *)
AcksTrue ==
  /\ \A c \in Client : \A m \in Message :
       Queued(m, stream[c]) /\ m.kind = "ack" /\ m.code = "OK" => ans[m.req] = "OK"
  /\ \A o, p \in Replica : \A m \in Message : Queued(m, bus[o][p]) => m.kind # "ack"

Tended == NoDropTravels /\ AcksTrue /\ \A r \in Request : Heeded(r)

(* What comes off a queue of plain messages is plain, and what is put on   *)
(* one that is plain keeps it so.                                          *)
LEMMA QueuePlain ==
  ASSUME NEW s \in Seq(Message), AllPlain(s)
  PROVE  /\ s # <<>> => PlainNews(Head(s)) /\ AllPlain(Tail(s))
         /\ \A m \in Message : PlainNews(m) => AllPlain(Append(s, m))
<1>1. ASSUME s # <<>> PROVE PlainNews(Head(s)) /\ AllPlain(Tail(s))
  <2>1. PlainNews(Head(s))
    BY <1>1 DEF AllPlain
  <2>2. ASSUME NEW i \in 1 .. Len(Tail(s)) PROVE Tail(s)[i] = s[i + 1] /\ i + 1 \in 1 .. Len(s)
    BY <1>1
  <2> QED
    BY <2>1, <2>2 DEF AllPlain
<1>2. ASSUME NEW m \in Message, PlainNews(m) PROVE AllPlain(Append(s, m))
  BY <1>2 DEF AllPlain
<1> QED
  BY <1>1, <1>2

(* A board that is read carries no drop.                                   *)
LEMMA ReadPlain ==
  ASSUME TypeOK
  PROVE  Plain(ListsRead) /\ \A b \in Board : Plain(CardsRead(b))
<1>1. Plain(ListsRead)
  BY DEF Plain, ListsRead
<1>2. ASSUME NEW b \in Board PROVE Plain(CardsRead(b))
  <2>1. CardsRead(b).cards =
          {Wire(c, row, text) : c \in {d \in Card : row[d].state = "live" /\ row[d].list \in b.lists}}
    BY DEF CardsRead, Board
  <2>2. \A c : Wire(c, row, text).by = {}
    BY DEF Wire
  <2> QED
    BY <2>1, <2>2 DEF Plain
<1> QED
  BY <1>1, <1>2

(* Placed changes nobody's drop.                                           *)
LEMMA PlacedBy ==
  ASSUME NEW v \in Board, NEW s \in SUBSET v.cards, NEW e \in Shown
  PROVE  \A g \in Placed(v, s, e).cards : \E f \in s \union {e} : g.by = f.by
<1> DEFINE w == Placed(v, s, e)
<1>0. s \subseteq Shown /\ v.cards \subseteq Shown
  BY BoardTyped
<1>1. CASE e.list \in v.lists
  <2>1. w.cards = Resorted(s \union {e}, e.list)
    BY <1>1 DEF Placed, Board
  <2> HIDE DEF w
  <2>2. ASSUME NEW g \in w.cards PROVE \E f \in s \union {e} : g.by = f.by
    <3>1. PICK f \in s \union {e} : g = [f EXCEPT !.at = IF f.list = e.list THEN "pos" ELSE f.at]
      BY <2>1 DEF Resorted
    <3>2. f \in Shown
      BY <1>0
    <3>3. \A a : [f EXCEPT !.at = a].by = f.by
      BY <3>2, CardAt
    <3> QED
      BY <3>1, <3>3
  <2> QED
    BY <2>2 DEF w
<1>2. CASE e.list \notin v.lists
  <2>1. w.cards = s
    BY <1>2 DEF Placed, Board
  <2> QED
    BY <2>1
<1> QED
  BY <1>1, <1>2

(* No event but a snapshot puts a drop on a screen, and a snapshot none.   *)
LEMMA ReduceBy ==
  ASSUME NEW v \in Board, NEW m \in Message, m.kind # "ack", PlainNews(m)
  PROVE  \A g \in Reduce(v, m).cards :
           g.by = {} \/ (m.kind # "board.state" /\ \E f \in v.cards : f.by = g.by)
<1>1. CASE m.kind = "board.state"
  BY <1>1 DEF Reduce, PlainNews, Plain
<1>2. CASE m.kind = "card.created"
  <2>1. m.card \in Shown /\ m.card.by = {}
    BY <1>2, MessageTyped DEF PlainNews
  <2>2. \A g \in Placed(v, v.cards, m.card).cards : \E f \in v.cards \union {m.card} : g.by = f.by
    BY <2>1, PlacedBy
  <2>3. Reduce(v, m) = v \/ Reduce(v, m) = Placed(v, v.cards, m.card)
    BY <1>2 DEF Reduce, Created
  <2> QED
    BY <1>2, <2>1, <2>2, <2>3
<1>3. CASE m.kind \in {"card.updated", "card.moved"}
  <2> DEFINE x == m.card
             h == Held(v, x.id)
             e == IF m.kind = "card.updated" THEN [x EXCEPT !.list = h.list, !.by = h.by]
                  ELSE [x EXCEPT !.text = h.text]
  <2>1. x \in Shown /\ x.by = {}
    BY <1>3, MessageTyped DEF PlainNews
  <2>2. CASE ~Holds(v, x.id) \/ x.ver < h.ver
    BY <1>3, <2>2 DEF Reduce, Updated, Moved
  <2>3. CASE Holds(v, x.id) /\ ~(x.ver < h.ver)
    <3>1. h \in v.cards /\ h \in Shown
      BY <2>3, HeldTyped
    <3>2. h.list \in List /\ h.by \in SUBSET Request /\ h.text \in Request \union {None}
      BY <3>1 DEF Shown
    <3>3. e \in Shown /\ e.by \in {{}, h.by}
      <4>1. [x EXCEPT !.list = h.list, !.by = h.by] \in Shown /\ [x EXCEPT !.text = h.text] \in Shown
        BY <2>1, <3>2, CardTyped
      <4>2. [x EXCEPT !.list = h.list, !.by = h.by].by = h.by
        <5> HIDE DEF h, x
        <5> QED
          BY <2>1 DEF Shown
      <4>3. [x EXCEPT !.text = h.text].by = {}
        BY <2>1, CardSaying
      <4> QED
        BY <4>1, <4>2, <4>3
    <3>4. Reduce(v, m) = Placed(v, Without(v, x.id), e)
      BY <1>3, <2>3 DEF Reduce, Updated, Moved
    <3>5. Without(v, x.id) \in SUBSET v.cards
      BY DEF Without
    <3> HIDE DEF e, h, x
    <3>6. \A g \in Placed(v, Without(v, x.id), e).cards :
            \E f \in Without(v, x.id) \union {e} : g.by = f.by
      BY <3>3, <3>5, PlacedBy
    <3> QED
      BY <1>3, <3>1, <3>3, <3>4, <3>5, <3>6
  <2> QED
    BY <2>2, <2>3
<1>4. CASE m.kind \in {"card.archived", "list.archived"}
  <2>1. \A g \in Reduce(v, m).cards : g \in v.cards
    BY <1>4 DEF Reduce, Archived, ListArchived, Without, Board
  <2> QED
    BY <1>4, <2>1
<1> QED
  BY <1>1, <1>2, <1>3, <1>4, MessageTyped

(* What a handler announces carries no drop.                               *)
LEMMA AnnouncementPlain ==
  ASSUME Typed, NoDropTravels, NEW r \in Request, stage[r] = "applied"
  PROVE  PlainNews(Announcement(r))
<1>1. inp[r].op \in Op /\ (inp[r].op # "archiveList" => made[r].by = {})
  BY DEF Typed, Where, GoodAsk, NoDropTravels
<1> QED
  BY <1>1 DEF Announcement, PlainNews, Op

(* A broadcast and an ack leave every stream plain.                        *)
LEMMA ToldPlain ==
  ASSUME Typed, NoDropTravels, NEW p, NEW m \in Message, PlainNews(m), NEW c \in Client
  PROVE  AllPlain(Told(p, m)[c])
BY QueuePlain DEF Told, Typed, TypeOK, NoDropTravels

LEMMA AckedPlain ==
  ASSUME NEW s \in [Client -> Seq(Message)], NEW r \in Request, NEW code \in Code,
         NEW c \in Client, AllPlain(s[c])
  PROVE  AllPlain(Acked(s, r, code)[c])
<1> DEFINE m == [kind |-> "ack", req |-> r, code |-> code]
<1>1. m \in Message /\ PlainNews(m)
  BY DEF Message, PlainNews
<1> HIDE DEF m
<1>2. AllPlain(Append(s[c], m))
  BY <1>1, QueuePlain
<1> QED
  BY <1>2, ClientAssumption DEF Acked, m

(* No step sends a drop out.                                               *)
LEMMA PlainStep ==
  ASSUME Typed, NoDropTravels, [Next]_vars
  PROVE  NoDropTravels'
<1>0. /\ stream \in [Client -> Seq(Message)] /\ stage \in [Request -> Stage]
      /\ bus \in [Replica -> [Replica -> Seq(Message)]]
      /\ rest \in [Request -> Board \union {None}] /\ held \in [Client -> Board \union {None}]
      /\ link \in [Client -> Link]
      /\ made \in [Request -> Shown \union {None}]
  BY DEF Typed, TypeOK
<1>1. CASE UNCHANGED vars \/ Rest
  BY <1>1 DEF Rest, vars, NoDropTravels
<1>2. ASSUME NEW r \in Request, Ask(r) PROVE NoDropTravels'
  <2>1. /\ UNCHANGED <<link, held, stream, bus, made, rest>> /\ stage' \in [Request -> Stage]
        /\ \A q \in Request \ {r} : stage'[q] = stage[q] /\ inp'[q] = inp[q]
        /\ stage'[r] \in {"sent", "done", "refetch"}
    <3>1. PICK op : stage' = [stage EXCEPT ![r] = "sent"] \/ Settled(r, op, "INTERNAL")
      BY <1>2 DEF Ask
    <3>2. /\ UNCHANGED <<link, held, stream, bus, made, rest>>
          /\ \A q \in Request \ {r} : inp'[q] = inp[q]
      BY <1>2 DEF Ask, Typed, TypeOK, StoreTypeOK
    <3> QED
      BY <1>0, <3>1, <3>2, SettledTyped DEF Typed, Stage
  <2> QED
    BY <2>1 DEF NoDropTravels
<1>3. ASSUME NEW c \in Client, Deliver(c) PROVE NoDropTravels'
  <2>1. /\ UNCHANGED <<db, link, held, bus, made, rest>>
        /\ stream' = [stream EXCEPT ![c] = Tail(stream[c])] /\ stream[c] # <<>>
        /\ \A q \in Request : stage'[q] = stage[q] \/ stage'[q] \in {"done", "refetch"}
    <3>1. Head(stream[c]) \in Message /\ stream[c] # <<>>
      BY <1>0, <1>3, QueueTyped DEF Deliver
    <3> QED
      BY <1>3, <3>1, MessageTyped, SettledTyped DEF Deliver, Typed
  <2>2. AllPlain(Tail(stream[c]))
    BY <1>0, <2>1, QueuePlain DEF NoDropTravels
  <2> QED
    BY <1>0, <2>1, <2>2 DEF NoDropTravels, db, storeVars
<1>4. ASSUME NEW r \in Request, Refetch(r) \/ FetchFails(r) PROVE NoDropTravels'
  <2>1. UNCHANGED <<db, link, held, stream, bus, made>>
    BY <1>4 DEF Refetch, FetchLists, FetchCards, ShowFetched, FetchFails
  <2>2. stage[r] = "reading" => Plain(CardsRead(rest[r]))
    BY ReadPlain DEF Typed, Where
  <2>3. /\ stage'[r] \in {"reading", "fetched"} => Plain(rest'[r])
        /\ stage'[r] # "applied"
        /\ \A q \in Request \ {r} : stage'[q] = stage[q] /\ rest'[q] = rest[q]
    BY <1>0, <1>4, <2>2, ReadPlain
       DEF Refetch, FetchLists, FetchCards, ShowFetched, FetchFails, Typed
  <2> QED
    BY <2>1, <2>3 DEF NoDropTravels, db, storeVars
<1>5. ASSUME NEW c \in Client, Connects(c) PROVE NoDropTravels'
  <2>1. UNCHANGED <<db, bus, stage, made, rest>>
    BY <1>5 DEF Connects, Join, Reconnect, JoinLists, JoinCards, JoinEnter, HandshakeRefused,
                JoinFails
  <2>2. link[c] \in {"reading", "entering"} => held[c] \in Board /\ Plain(held[c])
    BY DEF Typed, Joins, NoDropTravels
  <2>3. CASE Reconnect(c) \/ JoinLists(c) \/ JoinCards(c) \/ HandshakeRefused(c) \/ JoinFails(c)
    <3>1. stream' = stream /\ \A d \in Client \ {c} : link'[d] = link[d] /\ held'[d] = held[d]
      BY <1>0, <2>3 DEF Reconnect, JoinLists, JoinCards, HandshakeRefused, JoinFails
    <3>2. link'[c] \in {"reading", "entering"} => Plain(held'[c])
      BY <1>0, <2>2, <2>3, ReadPlain
         DEF Reconnect, JoinLists, JoinCards, HandshakeRefused, JoinFails, Typed
    <3> QED
      BY <2>1, <3>1, <3>2 DEF NoDropTravels, db, storeVars
  <2>4. CASE JoinEnter(c)
    <3> DEFINE m == [kind |-> "board.state", board |-> held[c]]
    <3>1. m \in Message /\ PlainNews(m)
      BY <2>2, <2>4 DEF JoinEnter, Message, PlainNews
    <3>2. /\ stream' = [stream EXCEPT ![c] = Append(stream[c], m)]
          /\ link' = [link EXCEPT ![c] = "live"] /\ held' = [held EXCEPT ![c] = None]
      BY <2>4 DEF JoinEnter
    <3> HIDE DEF m
    <3>3. AllPlain(Append(stream[c], m))
      BY <1>0, <3>1, QueuePlain DEF NoDropTravels
    <3> QED
      BY <1>0, <2>1, <3>2, <3>3 DEF NoDropTravels, db, storeVars
  <2> QED
    BY <1>5, <2>3, <2>4 DEF Connects, Join
<1>6. ASSUME NEW c \in Client, Drop(c) PROVE NoDropTravels'
  <2>1. /\ UNCHANGED <<db, bus, made, rest>>
        /\ stream' = [stream EXCEPT ![c] = <<>>] /\ link' = [link EXCEPT ![c] = "down"]
        /\ held' = [held EXCEPT ![c] = None]
        /\ \A r \in Request : stage'[r] = stage[r] \/ stage'[r] \in {"lost", "orphan"}
    BY <1>6 DEF Drop
  <2>2. AllPlain(<<>>)
    BY DEF AllPlain
  <2> QED
    BY <1>0, <2>1, <2>2 DEF NoDropTravels, db, storeVars
<1>7. ASSUME NEW r \in Request, Commit(r) PROVE NoDropTravels'
  <2>1. /\ UNCHANGED <<inp, link, held, stream, bus, rest>>
        /\ stage' = [stage EXCEPT ![r] = "applied"]
        /\ made' = [made EXCEPT ![r] =
             IF inp[r].card = None THEN None ELSE Wire(inp[r].card, row', text')]
    BY <1>7 DEF Commit, Apply
  <2>2. inp[r].op # "archiveList" => made'[r].by = {}
    <3>1. inp[r].op # "archiveList" => inp[r].card \in Card
      BY <1>7 DEF Commit, Apply, Pending, Typed, Where, GoodAsk, Op, Card
    <3>2. inp[r].op # "archiveList" => made'[r] = Wire(inp[r].card, row', text')
      BY <1>0, <2>1, <3>1, NamesAssumption
    <3> QED
      BY <3>2 DEF Wire
  <2> QED
    BY <1>0, <2>1, <2>2 DEF NoDropTravels
<1>8. ASSUME NEW r \in Request, RefuseAsk(r) \/ FailAsk(r) PROVE NoDropTravels'
  <2>1. PICK code \in Code : Answered(r, code)
    BY <1>8 DEF RefuseAsk, FailAsk, Code
  <2>2. /\ UNCHANGED <<inp, link, held, bus, made, rest>>
        /\ stream' = Acked(stream, r, code) /\ stage' = AckStage(r)
    BY <2>1 DEF Answered, Refuse
  <2>3. \A q \in Request : stage'[q] = stage[q] \/ stage'[q] \in {"answered", "orphan"}
    BY <2>2, AckedTyped, <1>0 DEF Typed
  <2>4. \A c \in Client : AllPlain(stream'[c])
    BY <1>0, <2>2, AckedPlain DEF NoDropTravels
  <2> QED
    BY <2>2, <2>3, <2>4 DEF NoDropTravels
<1>9. ASSUME NEW r \in Request, Announce(r) \/ HydrateFails(r) PROVE NoDropTravels'
  <2> DEFINE o == Home[Owner[r]]
             m == Announcement(r)
  <2>1. /\ UNCHANGED <<db, link, held, made, rest>> /\ stage' = AckStage(r)
        /\ stage[r] = "applied"
        /\ \/ stream' = Acked(Told(o, m), r, "OK") /\ bus' = Published(o, m)
           \/ stream' = Acked(stream, r, "INTERNAL") /\ bus' = bus
    BY <1>9 DEF Announce, HydrateFails
  <2>2. m \in Message /\ PlainNews(m)
    BY <2>1, AnnouncementTyped, AnnouncementPlain
  <2>3. \A q \in Request : stage'[q] = stage[q] \/ stage'[q] \in {"answered", "orphan"}
    BY <2>1, AckedTyped, <1>0 DEF Typed, Code
  <2> HIDE DEF m, o
  <2>4. Told(o, m) \in [Client -> Seq(Message)] /\ \A c \in Client : AllPlain(Told(o, m)[c])
    BY <2>2, ToldTyped, ToldPlain DEF Typed
  <2>5. \A c \in Client : AllPlain(stream'[c])
    BY <1>0, <2>1, <2>4, AckedPlain DEF NoDropTravels, Code
  <2>6. ASSUME NEW p \in Replica, NEW q \in Replica PROVE AllPlain(bus'[p][q])
    <3>1. AllPlain(bus[p][q]) /\ AllPlain(Append(bus[p][q], m))
      BY <1>0, <2>2, QueuePlain DEF NoDropTravels
    <3>2. CASE bus' = Published(o, m)
      BY <1>0, <3>1, <3>2 DEF Published
    <3> QED
      BY <2>1, <3>1, <3>2
  <2> QED
    BY <2>1, <2>3, <2>5, <2>6 DEF NoDropTravels, db, storeVars
<1>10. ASSUME NEW o \in Replica, NEW p \in Replica, Relay(o, p) \/ LoseRelay(o, p)
       PROVE  NoDropTravels'
  <2>1. /\ UNCHANGED <<db, link, held, stage, made, rest>>
        /\ bus[o][p] # <<>> /\ bus' = [bus EXCEPT ![o][p] = Tail(bus[o][p])]
        /\ stream' = Told(p, Head(bus[o][p])) \/ stream' = stream
    BY <1>10 DEF Relay, LoseRelay
  <2>2. /\ Head(bus[o][p]) \in Message /\ PlainNews(Head(bus[o][p]))
        /\ AllPlain(Tail(bus[o][p]))
    BY <1>0, <2>1, QueueTyped, QueuePlain DEF NoDropTravels
  <2>3. \A c \in Client : AllPlain(stream'[c])
    BY <2>1, <2>2, ToldPlain DEF NoDropTravels
  <2>4. \A q, s \in Replica : AllPlain(bus'[q][s])
    BY <1>0, <2>1, <2>2 DEF NoDropTravels
  <2> QED
    BY <2>1, <2>3, <2>4 DEF NoDropTravels, db, storeVars
<1> QED
  BY <1>1, <1>2, <1>3, <1>4, <1>5, <1>6, <1>7, <1>8, <1>9, <1>10 DEF Next, Serve, Connects

(* What is in a queue after something is put on it or taken off it.        *)
LEMMA QueueHas ==
  ASSUME NEW s \in Seq(Message), NEW x
  PROVE  /\ \A m \in Message : Queued(x, Append(s, m)) <=> Queued(x, s) \/ x = m
         /\ s # <<>> => (Queued(x, s) <=> Queued(x, Tail(s)) \/ x = Head(s))
         /\ Queued(x, s) => x \in Message
         /\ ~Queued(x, <<>>)
<1>1. ASSUME NEW m \in Message PROVE Queued(x, Append(s, m)) <=> Queued(x, s) \/ x = m
  <2>1. DOMAIN Append(s, m) = 1 .. Len(s) + 1 /\ DOMAIN s = 1 .. Len(s) /\ Len(s) \in Nat
        /\ Append(s, m)[Len(s) + 1] = m /\ \A i \in 1 .. Len(s) : Append(s, m)[i] = s[i]
    OBVIOUS
  <2> HIDE DEF Queued
  <2> QED
    BY <2>1 DEF Queued
<1>2. ASSUME s # <<>> PROVE Queued(x, s) <=> Queued(x, Tail(s)) \/ x = Head(s)
  <2>1. /\ DOMAIN Tail(s) = 1 .. Len(s) - 1 /\ DOMAIN s = 1 .. Len(s) /\ Len(s) \in Nat
        /\ Len(s) >= 1 /\ Head(s) = s[1]
        /\ \A i \in 1 .. Len(s) - 1 : Tail(s)[i] = s[i + 1]
    BY <1>2
  <2>2. ASSUME Queued(x, s) PROVE Queued(x, Tail(s)) \/ x = Head(s)
    <3>1. PICK i \in 1 .. Len(s) : s[i] = x
      BY <2>1, <2>2 DEF Queued
    <3>2. i # 1 => i - 1 \in 1 .. Len(s) - 1 /\ Tail(s)[i - 1] = s[i]
      BY <2>1
    <3> QED
      BY <2>1, <3>1, <3>2 DEF Queued
  <2>3. ASSUME Queued(x, Tail(s)) PROVE Queued(x, s)
    <3>1. PICK i \in 1 .. Len(s) - 1 : Tail(s)[i] = x
      BY <2>1, <2>3 DEF Queued
    <3>2. i + 1 \in 1 .. Len(s) /\ s[i + 1] = x
      BY <2>1, <3>1
    <3> QED
      BY <2>1, <3>2 DEF Queued
  <2>4. x = Head(s) => Queued(x, s)
    BY <2>1 DEF Queued
  <2> QED
    BY <2>2, <2>3, <2>4
<1> QED
  BY <1>1, <1>2 DEF Queued

(* A board is coming when one is queued.                                   *)
LEMMA BoardQueued ==
  ASSUME NEW s \in Seq(Message)
  PROVE  (\E i \in DOMAIN s : s[i].kind = "board.state")
           <=> \E m \in Message : Queued(m, s) /\ m.kind = "board.state"
BY DEF Queued

(* What stays queued is still coming.                                      *)
LEMMA ComingStands ==
  ASSUME Typed, Typed', NEW c \in Client, link'[c] = link[c],
         \A m \in Message : m.kind = "board.state" /\ Queued(m, stream[c]) => Queued(m, stream'[c])
  PROVE  BoardDue(c) => BoardDue(c)'
<1>1. stream[c] \in Seq(Message) /\ stream'[c] \in Seq(Message)
  BY DEF Typed, TypeOK
<1> QED
  BY <1>1, BoardQueued DEF BoardDue, BoardComing, CutOff

(* A step that disturbs none of what a request's drop depends on.          *)
LEMMA HeededStands ==
  ASSUME NEW r \in Request, Heeded(r),
         stage'[r] = stage[r], tied'[r] = tied[r], inp'[r] = inp[r], ans'[r] = ans[r],
         ShowsDrop(r)' => ShowsDrop(r),
         RefusalComing(r) => RefusalComing(r)', BoardDue(Owner[r]) => BoardDue(Owner[r])'
  PROVE  Heeded(r)'
BY DEF Heeded

(* A broadcast and an ack take nothing off a stream.                       *)
LEMMA ToldHas ==
  ASSUME Typed, NEW p, NEW m \in Message, NEW c \in Client, NEW x
  PROVE  /\ Queued(x, stream[c]) => Queued(x, Told(p, m)[c])
         /\ Queued(x, Told(p, m)[c]) => Queued(x, stream[c]) \/ x = m
BY QueueHas DEF Told, Typed, TypeOK

LEMMA AckedHas ==
  ASSUME NEW s \in [Client -> Seq(Message)], NEW r \in Request, NEW code \in Code,
         NEW c \in Client, NEW x
  PROVE  LET m == [kind |-> "ack", req |-> r, code |-> code]
         IN  /\ m \in Message
             /\ Queued(x, s[c]) => Queued(x, Acked(s, r, code)[c])
             /\ Queued(x, Acked(s, r, code)[c]) => Queued(x, s[c]) \/ x = m
             /\ tied[r] => Queued(m, Acked(s, r, code)[Owner[r]])
<1> DEFINE m == [kind |-> "ack", req |-> r, code |-> code]
<1>1. m \in Message
  BY DEF Message
<1>2. Acked(s, r, code) = IF tied[r] THEN [s EXCEPT ![Owner[r]] = Append(s[Owner[r]], m)] ELSE s
  BY DEF Acked
<1> HIDE DEF m
<1>3. Owner[r] \in Client
  BY ClientAssumption
<1>4. /\ Queued(x, Append(s[c], m)) <=> Queued(x, s[c]) \/ x = m
      /\ Queued(m, Append(s[Owner[r]], m))
  BY <1>1, <1>3, QueueHas
<1>5. /\ Queued(x, s[c]) => Queued(x, Acked(s, r, code)[c])
      /\ Queued(x, Acked(s, r, code)[c]) => Queued(x, s[c]) \/ x = m
      /\ tied[r] => Queued(m, Acked(s, r, code)[Owner[r]])
  BY <1>2, <1>3, <1>4
<1> QED
  BY <1>1, <1>5 DEF m

-----------------------------------------------------------------------------
(* An answer, once given, stands.                                          *)
LEMMA AnswerStands ==
  ASSUME Typed, [Next]_vars, NEW q \in Request, ans[q] # None
  PROVE  ans'[q] = ans[q]
<1>0. ans \in [Request -> Code \union {None}] /\ inp[q] # None
  BY DEF Typed, TypeOK, StoreTypeOK, Where
<1>1. CASE UNCHANGED vars \/ Rest
  BY <1>1 DEF Rest, vars
<1>2. ASSUME NEW r \in Request, Ask(r) PROVE ans'[q] = ans[q]
  BY <1>0, <1>2 DEF Ask
<1>3. ASSUME NEW r \in Request, Commit(r) \/ RefuseAsk(r) \/ FailAsk(r) PROVE ans'[q] = ans[q]
  BY <1>0, <1>3 DEF Commit, Apply, RefuseAsk, FailAsk, Answered, Refuse, Pending
<1>4. ASSUME NEW r \in Request,
             Refetch(r) \/ FetchFails(r) \/ Announce(r) \/ HydrateFails(r)
      PROVE  ans'[q] = ans[q]
  BY <1>4 DEF Refetch, FetchLists, FetchCards, ShowFetched, FetchFails, Announce, HydrateFails,
              db, storeVars
<1>5. ASSUME NEW c \in Client, Deliver(c) \/ Connects(c) \/ Drop(c) PROVE ans'[q] = ans[q]
  BY <1>5 DEF Deliver, Connects, Join, Reconnect, JoinLists, JoinCards, JoinEnter,
              HandshakeRefused, JoinFails, Drop, db, storeVars
<1>6. ASSUME NEW o \in Replica, NEW p \in Replica, Relay(o, p) \/ LoseRelay(o, p)
      PROVE  ans'[q] = ans[q]
  BY <1>6 DEF Relay, LoseRelay, db, storeVars
<1> QED
  BY <1>1, <1>2, <1>3, <1>4, <1>5, <1>6 DEF Next, Serve, Connects

(* No OK is sent of what was refused.                                      *)
LEMMA AcksStep ==
  ASSUME Typed, AcksTrue, \A r \in Request : Heeded(r), [Next]_vars
  PROVE  AcksTrue'
<1>0. /\ stream \in [Client -> Seq(Message)] /\ bus \in [Replica -> [Replica -> Seq(Message)]]
      /\ \A m \in Message : m.kind = "ack" => m.req \in Request /\ m.code \in Code
      /\ "OK" # None
  BY MessageTyped, NamesAssumption DEF Typed, TypeOK, Code
<1> SUFFICES ASSUME NEW m \in Message
             PROVE  /\ \A c \in Client : Queued(m, stream'[c]) /\ m.kind = "ack" /\ m.code = "OK"
                                           => ans'[m.req] = "OK"
                    /\ \A o, p \in Replica : Queued(m, bus'[o][p]) => m.kind # "ack"
  BY DEF AcksTrue
<1>1. m.kind = "ack" /\ ans[m.req] = "OK" => ans'[m.req] = "OK"
  BY <1>0, AnswerStands
<1>2. /\ \A c \in Client : Queued(m, stream[c]) /\ m.kind = "ack" /\ m.code = "OK"
                             => ans'[m.req] = "OK"
      /\ \A o, p \in Replica : Queued(m, bus[o][p]) => m.kind # "ack"
  BY <1>1 DEF AcksTrue
<1>3. CASE UNCHANGED <<stream, bus>>
  BY <1>2, <1>3
<1>4. ASSUME NEW c \in Client, Deliver(c) \/ Drop(c)
      PROVE  /\ UNCHANGED bus /\ \A d \in Client \ {c} : stream'[d] = stream[d]
             /\ \/ stream'[c] = <<>>
                \/ stream[c] # <<>> /\ stream'[c] = Tail(stream[c])
  BY <1>0, <1>4 DEF Deliver, Drop
<1>5. ASSUME NEW c \in Client, JoinEnter(c)
      PROVE  /\ UNCHANGED bus /\ \A d \in Client \ {c} : stream'[d] = stream[d]
             /\ Queued(m, stream'[c]) => Queued(m, stream[c]) \/ m.kind = "board.state"
  <2> DEFINE b == [kind |-> "board.state", board |-> held[c]]
  <2>1. b \in Message /\ stream' = [stream EXCEPT ![c] = Append(stream[c], b)]
    BY <1>5 DEF JoinEnter, Typed, Joins, Message
  <2>2. b.kind = "board.state"
    OBVIOUS
  <2> HIDE DEF b
  <2> QED
    BY <1>0, <1>5, <2>1, <2>2, QueueHas DEF JoinEnter
<1>6. ASSUME NEW r \in Request, RefuseAsk(r) \/ FailAsk(r)
      PROVE  /\ UNCHANGED bus
             /\ \A c \in Client : Queued(m, stream'[c]) =>
                  Queued(m, stream[c]) \/ m.kind # "ack" \/ m.code # "OK"
  <2>1. PICK code \in Code : Answered(r, code)
    BY <1>6 DEF RefuseAsk, FailAsk, Code
  <2>2. code # "OK" /\ stream' = Acked(stream, r, code) /\ UNCHANGED bus
    BY <2>1 DEF Answered, Refuse, Pending, Typed, TypeOK, StoreTypeOK
  <2>3. \A c \in Client : Queued(m, stream'[c]) =>
          Queued(m, stream[c]) \/ m = [kind |-> "ack", req |-> r, code |-> code]
    BY <1>0, <2>2, AckedHas
  <2> QED
    BY <2>2, <2>3
<1>7. ASSUME NEW r \in Request, Announce(r) \/ HydrateFails(r)
      PROVE  /\ \A c \in Client : Queued(m, stream'[c]) =>
                  \/ Queued(m, stream[c]) \/ m.kind # "ack" \/ m.code # "OK" \/ ans'[m.req] = "OK"
             /\ \A o, p \in Replica : Queued(m, bus'[o][p]) =>
                  Queued(m, bus[o][p]) \/ m.kind # "ack"
  <2> DEFINE o == Home[Owner[r]]
             a == Announcement(r)
  <2>1. /\ stage[r] = "applied" /\ UNCHANGED db
        /\ \/ stream' = Acked(Told(o, a), r, "OK") /\ bus' = Published(o, a)
           \/ stream' = Acked(stream, r, "INTERNAL") /\ bus' = bus
    BY <1>7 DEF Announce, HydrateFails
  <2>2. a \in Message /\ a.kind # "ack"
    <3>1. inp[r].op \in Op
      BY <2>1 DEF Typed, Where, GoodAsk
    <3>2. a.kind # "ack"
      BY <3>1 DEF Announcement, Op
    <3> QED
      BY <2>1, <3>2, AnnouncementTyped
  <2>3. ans'[r] = "OK"
    BY <2>1 DEF Heeded, db, storeVars
  <2> HIDE DEF a, o
  <2>4. Told(o, a) \in [Client -> Seq(Message)]
    BY <2>2, ToldTyped DEF Typed
  <2>5. ASSUME NEW c \in Client, Queued(m, stream'[c])
        PROVE  Queued(m, stream[c]) \/ m.kind # "ack" \/ m.code # "OK" \/ ans'[m.req] = "OK"
    <3>1. \/ Queued(m, Told(o, a)[c]) \/ Queued(m, stream[c])
          \/ m = [kind |-> "ack", req |-> r, code |-> "OK"]
          \/ m = [kind |-> "ack", req |-> r, code |-> "INTERNAL"]
      BY <1>0, <2>1, <2>4, <2>5, AckedHas DEF Code
    <3>2. Queued(m, Told(o, a)[c]) => Queued(m, stream[c]) \/ m = a
      BY <2>2, ToldHas
    <3> QED
      BY <2>2, <2>3, <3>1, <3>2
  <2>6. ASSUME NEW p \in Replica, NEW q \in Replica, Queued(m, bus'[p][q])
        PROVE  Queued(m, bus[p][q]) \/ m.kind # "ack"
    <3>1. bus[p][q] \in Seq(Message)
      BY <1>0
    <3>2. Queued(m, Append(bus[p][q], a)) => Queued(m, bus[p][q]) \/ m = a
      BY <2>2, <3>1, QueueHas
    <3>3. CASE bus' = Published(o, a)
      <4>1. bus'[p][q] \in {bus[p][q], Append(bus[p][q], a)}
        BY <1>0, <3>3 DEF Published
      <4> QED
        BY <2>2, <2>6, <3>2, <4>1
    <3> QED
      BY <2>1, <2>6, <3>3
  <2> QED
    BY <2>5, <2>6
<1>8. ASSUME NEW o \in Replica, NEW p \in Replica, Relay(o, p) \/ LoseRelay(o, p)
      PROVE  /\ \A c \in Client : Queued(m, stream'[c]) => Queued(m, stream[c]) \/ m.kind # "ack"
             /\ \A q, s \in Replica : Queued(m, bus'[q][s]) => Queued(m, bus[q][s])
  <2> DEFINE h == Head(bus[o][p])
  <2>1. /\ bus[o][p] # <<>> /\ bus[o][p] \in Seq(Message)
        /\ bus' = [bus EXCEPT ![o][p] = Tail(bus[o][p])]
        /\ stream' = Told(p, h) \/ stream' = stream
    BY <1>0, <1>8 DEF Relay, LoseRelay
  <2>2. h \in Message /\ h.kind # "ack"
    BY <2>1, QueueTyped, QueueHas DEF AcksTrue
  <2> HIDE DEF h
  <2>3. \A c \in Client : Queued(m, stream'[c]) => Queued(m, stream[c]) \/ m = h
    BY <2>1, <2>2, ToldHas
  <2>4. Queued(m, Tail(bus[o][p])) => Queued(m, bus[o][p])
    BY <2>1, QueueHas
  <2>5. \A q, s \in Replica : Queued(m, bus'[q][s]) => Queued(m, bus[q][s])
    BY <1>0, <2>1, <2>4
  <2> QED
    BY <2>2, <2>3, <2>5
<1>9. ASSUME NEW c \in Client, Deliver(c) \/ Drop(c)
      PROVE  UNCHANGED bus /\ \A d \in Client : Queued(m, stream'[d]) => Queued(m, stream[d])
  <2>1. stream[c] \in Seq(Message)
    BY <1>0
  <2>2. Queued(m, stream'[c]) => Queued(m, stream[c])
    BY <1>4, <1>9, <2>1, QueueHas
  <2> QED
    BY <1>4, <1>9, <2>2
<1>10. ASSUME NEW r \in Request, Ask(r) \/ Commit(r) \/ Refetch(r) \/ FetchFails(r)
       PROVE  UNCHANGED <<stream, bus>>
  BY <1>10 DEF Ask, Commit, Refetch, FetchLists, FetchCards, ShowFetched, FetchFails
<1>11. ASSUME NEW c \in Client,
              Reconnect(c) \/ JoinLists(c) \/ JoinCards(c) \/ HandshakeRefused(c) \/ JoinFails(c)
       PROVE  UNCHANGED <<stream, bus>>
  BY <1>11 DEF Reconnect, JoinLists, JoinCards, HandshakeRefused, JoinFails
<1>12. CASE UNCHANGED vars \/ Rest
  BY <1>3, <1>12 DEF Rest, vars
<1>13. CASE \E r \in Request : RefuseAsk(r) \/ FailAsk(r) \/ Announce(r) \/ HydrateFails(r)
  BY <1>2, <1>6, <1>7, <1>13
<1>14. CASE \E c \in Client : Deliver(c) \/ Drop(c) \/ JoinEnter(c)
  BY <1>2, <1>5, <1>9, <1>14
<1>15. CASE \E o, p \in Replica : Relay(o, p) \/ LoseRelay(o, p)
  BY <1>2, <1>8, <1>15
<1> QED
  BY <1>3, <1>10, <1>11, <1>12, <1>13, <1>14, <1>15 DEF Next, Serve, Join


(* An optimistic move marks its card as that request's drop, and no other. *)
LEMMA DroppedBy ==
  ASSUME NEW v \in Board, NEW c, NEW l, NEW q
  PROVE  \A g \in Dropped(v, c, l, q).cards : g \in v.cards \/ g.by = {q}
<1>1. CASE ~Holds(v, c) \/ l \notin v.lists
  BY <1>1 DEF Dropped
<1>2. CASE Holds(v, c) /\ l \in v.lists
  <2> DEFINE e == [Held(v, c) EXCEPT !.list = l, !.by = {q}, !.at = "drop"]
  <2>1. Dropped(v, c, l, q).cards = Without(v, c) \union {e}
    BY <1>2 DEF Dropped, Board
  <2>2. e.by = {q}
    BY <1>2, HeldTyped, CardDropped
  <2> HIDE DEF e
  <2> QED
    BY <2>1, <2>2 DEF Without
<1> QED
  BY <1>1, <1>2

(* The refusal of a move makes the page fetch the board.                   *)
LEMMA RefusedMoveFetches ==
  ASSUME Typed, NEW r \in Request, NEW code, code # "OK", Settled(r, "move", code)
  PROVE  stage'[r] = "refetch"
BY DEF Settled, Refetches, Typed, TypeOK

(* The request that asks: its drop waits for the ack, or is refused.       *)
LEMMA AskHeeded ==
  ASSUME Typed, NEW r \in Request, Heeded(r), Ask(r)
  PROVE  Heeded(r)'
<1> DEFINE c == Owner[r]
           v == view[c]
<1>0. /\ c \in Client /\ v \in Board /\ inp[r] = None /\ ans[r] = None /\ ~ShowsDrop(r)
      /\ inp \in [Request -> Input \union {None}] /\ stage \in [Request -> Stage]
      /\ tied \in [Request -> BOOLEAN]
  BY ClientAssumption DEF Typed, TypeOK, StoreTypeOK, Ask, Where, Heeded
<1>1. PICK s \in Offered[r] :
        /\ inp' = [inp EXCEPT ![r] =
             [op |-> s.op, card |-> s.card, list |-> s.list, after |-> s.after,
              labelsOk |-> s.labelsOk,
              expected |-> IF Holds(v, s.card) THEN Held(v, s.card).ver ELSE 0,
              before |-> None]]
        /\ view' = IF s.op = "move"
                   THEN [view EXCEPT ![c] = Dropped(v, s.card, s.list, r)] ELSE view
        /\ \/ /\ stage' = [stage EXCEPT ![r] = "sent"]
              /\ tied' = [tied EXCEPT ![r] = TRUE]
              /\ UNCHANGED <<ans, left>>
           \/ Settled(r, s.op, "INTERNAL")
  BY DEF Ask
<1>2. inp'[r].op = s.op /\ inp'[r] # None
  <2> DEFINE n == IF Holds(v, s.card) THEN Held(v, s.card).ver ELSE 0
             i == [op |-> s.op, card |-> s.card, list |-> s.list, after |-> s.after,
                   labelsOk |-> s.labelsOk, expected |-> n, before |-> None]
  <2>1. n \in Nat
    BY <1>0, HeldTyped DEF Shown
  <2>2. inp'[r] = i
    BY <1>0, <1>1
  <2> HIDE DEF n, v, c
  <2>3. s \in Shape
    BY OfferedAssumption
  <2>4. i \in Input /\ i.op = s.op
    BY <2>1, <2>3 DEF Shape, Input
  <2> HIDE DEF i
  <2> QED
    BY <2>2, <2>4, NamesAssumption
<1>3. ShowsDrop(r)' => s.op = "move"
  BY <1>0, <1>1 DEF ShowsDrop
<1>4. CASE /\ stage' = [stage EXCEPT ![r] = "sent"]
           /\ tied' = [tied EXCEPT ![r] = TRUE]
           /\ UNCHANGED <<ans, left>>
  <2>1. stage'[r] = "sent" /\ tied'[r] /\ ans'[r] = None
    BY <1>0, <1>4
  <2> QED
    BY <1>2, <1>3, <2>1 DEF Heeded
<1>5. CASE Settled(r, s.op, "INTERNAL")
  <2>1. stage'[r] \in {"done", "refetch"}
    BY <1>5, SettledTyped DEF Typed
  <2>2. s.op = "move" => stage'[r] = "refetch"
    BY <1>5, RefusedMoveFetches
  <2> QED
    BY <1>2, <1>3, <2>1, <2>2 DEF Heeded
<1> QED
  BY <1>1, <1>4, <1>5

(* A message that comes in: the ack, the board, or what changes no drop.   *)
LEMMA DeliverHeeded ==
  ASSUME Typed, Typed', NoDropTravels, AcksTrue, NEW r \in Request, Heeded(r),
         NEW c \in Client, Deliver(c)
  PROVE  Heeded(r)'
<1> DEFINE m == Head(stream[c])
           o == Owner[r]
<1>0. /\ o \in Client /\ view \in [Client -> Board] /\ stream \in [Client -> Seq(Message)]
      /\ stage \in [Request -> Stage]
  BY ClientAssumption DEF Typed, TypeOK
<1>1. /\ UNCHANGED <<db, link, tied>> /\ stream[c] # <<>>
      /\ stream' = [stream EXCEPT ![c] = Tail(stream[c])]
      /\ \/ m.kind = "ack" /\ Settled(m.req, inp[m.req].op, m.code) /\ view' = view
         \/ /\ m.kind # "ack" /\ view' = [view EXCEPT ![c] = Reduce(view[c], m)]
            /\ UNCHANGED stage
  BY DEF Deliver
<1>2. /\ m \in Message /\ PlainNews(m) /\ Queued(m, stream[c])
      /\ m.kind = "ack" => m.req \in Request
  BY <1>0, <1>1, QueueTyped, QueuePlain, QueueHas, MessageTyped DEF NoDropTravels
<1>3. UNCHANGED <<inp, ans>>
  BY <1>1 DEF db, storeVars
<1> HIDE DEF m, o
<1>4. ASSUME NEW x \in Message, Queued(x, stream[o]), x # m
      PROVE  Queued(x, stream'[o])
  <2>1. Queued(x, stream[c]) => Queued(x, Tail(stream[c]))
    BY <1>0, <1>1, <1>4, QueueHas DEF m
  <2> QED
    BY <1>0, <1>1, <1>4, <2>1
<1>5. CASE m.kind = "ack" /\ m.req = r
  <2>1. Settled(r, inp[r].op, m.code) /\ view' = view
    BY <1>1, <1>5
  <2>2. stage'[r] \in {"done", "refetch"}
    BY <2>1, SettledTyped DEF Typed
  <2>3. CASE m.code = "OK"
    <3>1. ans'[r] = "OK"
      BY <1>2, <1>3, <1>5, <2>3 DEF AcksTrue
    <3>2. ShowsDrop(r)' => ShowsDrop(r)
      BY <2>1 DEF ShowsDrop
    <3> QED
      BY <1>3, <2>2, <3>1, <3>2 DEF Heeded
  <2>4. CASE m.code # "OK"
    <3>1. ShowsDrop(r)' => inp[r] # None /\ inp[r].op = "move"
      BY <2>1 DEF ShowsDrop, Heeded
    <3>2. ShowsDrop(r)' => stage'[r] = "refetch"
      BY <2>1, <2>4, <3>1, RefusedMoveFetches
    <3> QED
      BY <1>3, <2>2, <3>1, <3>2 DEF Heeded
  <2> QED
    BY <2>3, <2>4
<1>6. CASE m.kind = "ack" /\ m.req # r
  <2>1. view' = view /\ stage'[r] = stage[r]
    BY <1>1, <1>2, <1>6, SettledTyped DEF Typed
  <2>2. RefusalComing(r) => RefusalComing(r)'
    <3>1. ASSUME NEW x \in Message, Queued(x, stream[o]), x.req = r
          PROVE  Queued(x, stream'[o])
      BY <1>4, <1>6, <3>1
    <3> QED
      BY <3>1 DEF RefusalComing, o
  <2>3. BoardDue(o) => BoardDue(o)'
    <3>1. \A x \in Message : x.kind = "board.state" /\ Queued(x, stream[o]) => Queued(x, stream'[o])
      BY <1>4, <1>6
    <3> QED
      BY <1>0, <1>1, <3>1, ComingStands
  <2> QED
    BY <1>1, <1>3, <2>1, <2>2, <2>3, HeededStands DEF ShowsDrop, o
<1>7. CASE m.kind # "ack" /\ ~(m.kind = "board.state" /\ c = o)
  <2>1. stage' = stage /\ view' = [view EXCEPT ![c] = Reduce(view[c], m)]
    BY <1>1, <1>7
  <2>2. ShowsDrop(r)' => ShowsDrop(r)
    <3>1. ASSUME NEW g \in view'[o].cards, g.by = {r} PROVE \E f \in view[o].cards : f.by = {r}
      <4>1. CASE c # o
        BY <1>0, <2>1, <3>1, <4>1
      <4>2. CASE c = o
        <5>1. view'[o] = Reduce(view[o], m) /\ view[o] \in Board
          BY <1>0, <2>1, <4>2
        <5> QED
          BY <1>2, <1>7, <3>1, <5>1, ReduceBy
      <4> QED
        BY <4>1, <4>2
    <3> QED
      BY <3>1 DEF ShowsDrop, o
  <2>3. RefusalComing(r) => RefusalComing(r)'
    <3>1. ASSUME NEW x \in Message, Queued(x, stream[o]), x.kind = "ack"
          PROVE  Queued(x, stream'[o])
      BY <1>4, <1>7, <3>1
    <3> QED
      BY <3>1 DEF RefusalComing, o
  <2>4. BoardDue(o) => BoardDue(o)'
    <3>1. \A x \in Message : x.kind = "board.state" /\ Queued(x, stream[o]) => Queued(x, stream'[o])
      <4>1. CASE c # o
        BY <1>0, <1>1, <4>1
      <4>2. CASE c = o
        BY <1>4, <1>7, <4>2
      <4> QED
        BY <4>1, <4>2
    <3> QED
      BY <1>0, <1>1, <3>1, ComingStands
  <2> QED
    BY <1>1, <1>3, <2>1, <2>2, <2>3, <2>4, HeededStands DEF o
<1>8. CASE m.kind = "board.state" /\ c = o
  <2>1. stage' = stage /\ view'[o] = Reduce(view[o], m) /\ view[o] \in Board
    BY <1>0, <1>1, <1>8
  <2>2. \A g \in view'[o].cards : g.by = {}
    BY <1>2, <1>8, <2>1, ReduceBy
  <2>3. ~ShowsDrop(r)'
    BY <2>2 DEF ShowsDrop, o
  <2> QED
    BY <1>3, <2>1, <2>3 DEF Heeded
<1> QED
  BY <1>5, <1>6, <1>7, <1>8


(* A refetch, which ends with a board that shows no drop.                  *)
LEMMA RefetchHeeded ==
  ASSUME Typed, Typed', NoDropTravels, NEW r \in Request, Heeded(r),
         NEW q \in Request, Refetch(q) \/ FetchFails(q)
  PROVE  Heeded(r)'
<1> DEFINE o == Owner[r]
<1>0. /\ o \in Client /\ view \in [Client -> Board] /\ stage \in [Request -> Stage]
      /\ Owner[q] \in Client
  BY ClientAssumption DEF Typed, TypeOK
<1>1. UNCHANGED <<inp, ans, link, stream, tied>>
  BY DEF Refetch, FetchLists, FetchCards, ShowFetched, FetchFails, db, storeVars
<1>2. /\ RefusalComing(r) => RefusalComing(r)'
      /\ BoardDue(o) => BoardDue(o)'
  BY <1>1 DEF RefusalComing, BoardDue, BoardComing, CutOff
<1>3. CASE FetchLists(q) \/ FetchCards(q) \/ FetchFails(q)
  <2>1. view' = view /\ \A p \in Request \ {q} : stage'[p] = stage[p]
    BY <1>0, <1>3 DEF FetchLists, FetchCards, FetchFails
  <2>2. stage'[q] \in {"reading", "fetched", "refetch", "abandoned"}
    BY <1>0, <1>3 DEF FetchLists, FetchCards, FetchFails
  <2>3. ShowsDrop(r)' => ShowsDrop(r)
    BY <2>1 DEF ShowsDrop
  <2>4. CASE r = q
    BY <1>1, <2>2, <2>3, <2>4 DEF Heeded
  <2>5. CASE r # q
    BY <1>1, <1>2, <2>1, <2>3, <2>5, HeededStands
  <2> QED
    BY <2>4, <2>5
<1>4. CASE ShowFetched(q)
  <2>1. /\ view' = [view EXCEPT ![Owner[q]] = rest[q]] /\ Plain(rest[q])
        /\ stage'[q] \in {"done", "refetch"} /\ \A p \in Request \ {q} : stage'[p] = stage[p]
    BY <1>0, <1>4 DEF ShowFetched, NoDropTravels
  <2>2. CASE Owner[q] = o
    <3>1. ~ShowsDrop(r)'
      BY <1>0, <2>1, <2>2 DEF ShowsDrop, Plain
    <3> QED
      BY <1>1, <2>1, <3>1 DEF Heeded
  <2>3. CASE Owner[q] # o
    <3>1. ShowsDrop(r)' => ShowsDrop(r)
      BY <1>0, <2>1, <2>3 DEF ShowsDrop
    <3> QED
      BY <1>1, <1>2, <2>1, <2>3, <3>1, HeededStands
  <2> QED
    BY <2>2, <2>3
<1> QED
  BY <1>3, <1>4 DEF Refetch

(* A connection that is lost: the ack may be, but then the page connects   *)
(* again.                                                                  *)
LEMMA DropHeeded ==
  ASSUME Typed, Typed', NEW r \in Request, Heeded(r), NEW c \in Client, Drop(c)
  PROVE  Heeded(r)'
<1> DEFINE o == Owner[r]
<1>0. /\ o \in Client /\ link \in [Client -> Link]
      /\ stream \in [Client -> Seq(Message)] /\ tied \in [Request -> BOOLEAN]
  BY ClientAssumption DEF Typed, TypeOK
<1>1. /\ UNCHANGED <<db, view>> /\ link' = [link EXCEPT ![c] = "down"]
      /\ stream' = [stream EXCEPT ![c] = <<>>]
      /\ tied' = [p \in Request |-> tied[p] /\ Owner[p] # c]
  BY DEF Drop
<1>2. /\ \/ stage'[r] = stage[r] /\ stage[r] # "answered"
         \/ stage[r] = "sent" /\ stage'[r] = "lost"
         \/ stage[r] = "answered" /\ stage'[r] = "orphan"
         \/ o # c
      /\ o # c => stage'[r] = stage[r]
  BY DEF Drop
<1>3. UNCHANGED <<inp, ans>> /\ (ShowsDrop(r)' => ShowsDrop(r))
  BY <1>1 DEF db, storeVars, ShowsDrop
<1>4. CASE o = c
  <2>1. BoardDue(o)'
    BY <1>0, <1>1, <1>4 DEF BoardDue, BoardComing, CutOff
  <2> QED
    BY <1>2, <1>3, <1>4, <2>1 DEF Heeded
<1>5. CASE o # c
  <2>1. link'[o] = link[o] /\ stream'[o] = stream[o] /\ tied'[r] = tied[r]
    BY <1>0, <1>1, <1>5
  <2>2. /\ RefusalComing(r) => RefusalComing(r)'
        /\ BoardDue(o) => BoardDue(o)'
    BY <2>1 DEF RefusalComing, BoardDue, BoardComing, CutOff
  <2> QED
    BY <1>2, <1>3, <1>5, <2>1, <2>2, HeededStands
<1> QED
  BY <1>4, <1>5

(* A join, which ends with a board on its way, or fails.                   *)
LEMMA JoinHeeded ==
  ASSUME Typed, Typed', NEW r \in Request, Heeded(r), NEW c \in Client, Connects(c)
  PROVE  Heeded(r)'
<1> DEFINE o == Owner[r]
<1>0. /\ o \in Client /\ link \in [Client -> Link]
      /\ stream \in [Client -> Seq(Message)]
  BY ClientAssumption DEF Typed, TypeOK
<1>1. UNCHANGED <<inp, ans, view, stage, tied>>
  BY DEF Connects, Join, Reconnect, JoinLists, JoinCards, JoinEnter, HandshakeRefused, JoinFails,
         db, storeVars
<1>2. CASE Reconnect(c) \/ JoinLists(c) \/ JoinCards(c) \/ HandshakeRefused(c) \/ JoinFails(c)
  <2>1. /\ stream' = stream /\ link'[c] \in Link \ {"live"}
        /\ \A d \in Client \ {c} : link'[d] = link[d]
    BY <1>0, <1>2 DEF Reconnect, JoinLists, JoinCards, HandshakeRefused, JoinFails, Link
  <2>2. /\ RefusalComing(r) => RefusalComing(r)'
        /\ BoardDue(o) => BoardDue(o)'
    BY <1>0, <2>1 DEF RefusalComing, BoardDue, BoardComing, CutOff, Link
  <2> QED
    BY <1>1, <2>2, HeededStands DEF ShowsDrop
<1>3. CASE JoinEnter(c)
  <2> DEFINE m == [kind |-> "board.state", board |-> held[c]]
  <2>1. m \in Message /\ m.kind = "board.state"
    BY <1>3 DEF JoinEnter, Typed, Joins, Message
  <2>2. /\ link' = [link EXCEPT ![c] = "live"]
        /\ stream' = [stream EXCEPT ![c] = Append(stream[c], m)]
    BY <1>3 DEF JoinEnter
  <2> HIDE DEF m
  <2>3. \A x : Queued(x, stream[o]) => Queued(x, stream'[o])
    BY <1>0, <2>1, <2>2, QueueHas
  <2>4. RefusalComing(r) => RefusalComing(r)'
    BY <2>3 DEF RefusalComing
  <2>5. BoardDue(o) => BoardDue(o)'
    <3>1. CASE c = o
      <4>1. Queued(m, stream'[c]) /\ stream'[c] \in Seq(Message)
        BY <1>0, <2>1, <2>2, QueueHas
      <4> QED
        BY <2>1, <3>1, <4>1, BoardQueued DEF BoardDue, BoardComing, CutOff
    <3>2. CASE c # o
      BY <1>0, <2>2, <3>2 DEF BoardDue, BoardComing, CutOff
    <3> QED
      BY <3>1, <3>2
  <2> QED
    BY <1>1, <2>4, <2>5, HeededStands DEF ShowsDrop
<1> QED
  BY <1>2, <1>3 DEF Connects, Join

(* A gateway's step: it takes nothing off a stream, and what it refuses it *)
(* answers with an ack, unless the socket is gone.                         *)
LEMMA ServedHeeded ==
  ASSUME Typed, Typed', NEW r \in Request, Heeded(r), NEW q \in Request,
         Commit(q) \/ RefuseAsk(q) \/ FailAsk(q) \/ Announce(q) \/ HydrateFails(q)
  PROVE  Heeded(r)'
<1> DEFINE o == Owner[r]
<1>0. /\ o \in Client /\ stream \in [Client -> Seq(Message)] /\ stage \in [Request -> Stage]
      /\ ans \in [Request -> Code \union {None}] /\ tied \in [Request -> BOOLEAN]
      /\ "OK" # None
  BY ClientAssumption, NamesAssumption DEF Typed, TypeOK, StoreTypeOK, Code
<1>1. UNCHANGED <<inp, view, link, tied>>
  BY DEF Commit, Apply, RefuseAsk, FailAsk, Answered, Refuse, Announce, HydrateFails, db,
         storeVars
<1>2. (ShowsDrop(r)' => ShowsDrop(r))
  BY <1>1 DEF ShowsDrop
<1>3. ASSUME \A x \in Message : Queued(x, stream[o]) => Queued(x, stream'[o])
      PROVE  /\ RefusalComing(r) => RefusalComing(r)'
             /\ BoardDue(o) => BoardDue(o)'
  BY <1>0, <1>1, <1>3, ComingStands DEF RefusalComing
<1>4. CASE Commit(q)
  <2>1. /\ stream' = stream /\ stage' = [stage EXCEPT ![q] = "applied"]
        /\ ans' = [ans EXCEPT ![q] = "OK"]
    BY <1>4 DEF Commit, Apply
  <2>2. CASE r = q
    BY <1>0, <1>1, <1>2, <2>1, <2>2 DEF Heeded
  <2>3. CASE r # q
    BY <1>0, <1>1, <1>2, <1>3, <2>1, <2>3, HeededStands
  <2> QED
    BY <2>2, <2>3
<1>5. CASE RefuseAsk(q) \/ FailAsk(q)
  <2>1. PICK code \in Code : Answered(q, code)
    BY <1>5 DEF RefuseAsk, FailAsk, Code
  <2> DEFINE m == [kind |-> "ack", req |-> q, code |-> code]
  <2>2. /\ code # "OK" /\ stage[q] = "sent" /\ stream' = Acked(stream, q, code)
        /\ stage' = AckStage(q) /\ \A p \in Request \ {q} : ans'[p] = ans[p]
        /\ ans'[q] = code
    BY <1>0, <1>5, <2>1 DEF Answered, Refuse, RefuseAsk, FailAsk
  <2>3. /\ m \in Message
        /\ \A x \in Message : Queued(x, stream[o]) => Queued(x, stream'[o])
        /\ tied[q] => Queued(m, stream'[Owner[q]])
    BY <1>0, <2>2, AckedHas
  <2>4. CASE r # q
    <3>1. stage'[r] = stage[r] /\ ans'[r] = ans[r]
      BY <1>0, <2>2, <2>4, AckedTyped DEF Typed
    <3> QED
      BY <1>1, <1>2, <1>3, <2>3, <3>1, HeededStands
  <2>5. CASE r = q
    <3>1. stage'[r] = IF tied[r] THEN "answered" ELSE "orphan"
      BY <1>0, <2>2, <2>5 DEF AckStage
    <3>2. tied[r] => RefusalComing(r)'
      <4>1. m.kind = "ack" /\ m.req = q /\ m.code = code
        OBVIOUS
      <4> HIDE DEF m
      <4> QED
        BY <2>2, <2>3, <2>5, <4>1 DEF RefusalComing
    <3>3. ShowsDrop(r)' /\ ~tied[r] => BoardDue(o)'
      <4>1. ans[r] = None
        BY <2>2, <2>5 DEF Heeded
      <4> QED
        BY <1>0, <1>2, <1>3, <2>2, <2>3, <2>5, <4>1 DEF Heeded
    <3> QED
      BY <1>1, <1>2, <2>2, <2>5, <3>1, <3>2, <3>3 DEF Heeded
  <2> QED
    BY <2>4, <2>5
<1>6. CASE Announce(q) \/ HydrateFails(q)
  <2> DEFINE a == Announcement(q)
             h == Home[Owner[q]]
  <2>1. /\ stage[q] = "applied" /\ stage' = AckStage(q) /\ ans' = ans
        /\ \/ stream' = Acked(Told(h, a), q, "OK")
           \/ stream' = Acked(stream, q, "INTERNAL")
    BY <1>6 DEF Announce, HydrateFails, db, storeVars
  <2>2. a \in Message
    BY <2>1, AnnouncementTyped
  <2> HIDE DEF a, h
  <2>3. Told(h, a) \in [Client -> Seq(Message)]
    BY <2>2, ToldTyped DEF Typed
  <2>4. \A x \in Message : Queued(x, stream[o]) => Queued(x, stream'[o])
    <3>1. \A x \in Message : Queued(x, stream[o]) => Queued(x, Told(h, a)[o])
      BY <1>0, <2>2, ToldHas
    <3> QED
      BY <1>0, <2>1, <2>3, <3>1, AckedHas DEF Code
  <2>5. CASE r # q
    <3>1. stage'[r] = stage[r]
      BY <1>0, <2>1, <2>5, AckedTyped DEF Typed, Code
    <3> QED
      BY <1>1, <1>2, <1>3, <2>1, <2>4, <3>1, HeededStands
  <2>6. CASE r = q
    <3>1. ans'[r] = "OK"
      BY <2>1, <2>6 DEF Heeded
    <3>2. stage'[r] \in {"answered", "orphan"}
      BY <1>0, <2>1, <2>6, AckedTyped DEF Typed, Code
    <3> QED
      BY <1>1, <1>2, <3>1, <3>2 DEF Heeded
  <2> QED
    BY <2>5, <2>6
<1> QED
  BY <1>4, <1>5, <1>6

(* No step leaves a refused drop to itself.                                *)
LEMMA HeededStep ==
  ASSUME Typed, Typed', NoDropTravels, AcksTrue, NEW r \in Request, Heeded(r), [Next]_vars
  PROVE  Heeded(r)'
<1>0. /\ Owner[r] \in Client /\ view \in [Client -> Board] /\ stage \in [Request -> Stage]
      /\ stream \in [Client -> Seq(Message)] /\ inp \in [Request -> Input \union {None}]
      /\ ans \in [Request -> Code \union {None}] /\ tied \in [Request -> BOOLEAN]
  BY ClientAssumption DEF Typed, TypeOK, StoreTypeOK
<1>1. CASE UNCHANGED vars \/ Rest
  BY <1>1, HeededStands DEF Rest, vars, ShowsDrop, RefusalComing, BoardDue, BoardComing, CutOff
<1>2. ASSUME NEW q \in Request, q # r, Ask(q) PROVE Heeded(r)'
  <2> DEFINE c == Owner[q]
  <2>0. c \in Client
    BY ClientAssumption
  <2>1. PICK s \in Offered[q] :
          /\ view' = IF s.op = "move"
                     THEN [view EXCEPT ![c] = Dropped(view[c], s.card, s.list, q)] ELSE view
          /\ \/ /\ stage' = [stage EXCEPT ![q] = "sent"]
                /\ tied' = [tied EXCEPT ![q] = TRUE]
                /\ UNCHANGED <<ans, left>>
             \/ /\ ans' = [ans EXCEPT ![q] = "INTERNAL"]
                /\ Settled(q, s.op, "INTERNAL")
                /\ tied' = tied
    BY <1>2 DEF Ask
  <2>2. UNCHANGED <<link, stream>> /\ inp'[r] = inp[r]
    BY <1>0, <1>2 DEF Ask
  <2>3. stage'[r] = stage[r] /\ tied'[r] = tied[r] /\ ans'[r] = ans[r]
    BY <1>0, <1>2, <2>1, SettledTyped DEF Typed
  <2>4. ShowsDrop(r)' => ShowsDrop(r)
    <3>1. view[c] \in Board
      BY <1>0, <2>0
    <3>2. \A g \in Dropped(view[c], s.card, s.list, q).cards : g \in view[c].cards \/ g.by = {q}
      BY <3>1, DroppedBy
    <3>3. \A g \in view'[Owner[r]].cards : g \in view[Owner[r]].cards \/ g.by = {q}
      BY <1>0, <2>0, <2>1, <3>2
    <3> QED
      BY <1>2, <3>3 DEF ShowsDrop
  <2>5. /\ RefusalComing(r) => RefusalComing(r)'
        /\ BoardDue(Owner[r]) => BoardDue(Owner[r])'
    BY <2>2 DEF RefusalComing, BoardDue, BoardComing, CutOff
  <2> QED
    BY <2>2, <2>3, <2>4, <2>5, HeededStands
<1>3. ASSUME NEW o \in Replica, NEW p \in Replica, Relay(o, p) \/ LoseRelay(o, p)
      PROVE  Heeded(r)'
  <2>1. /\ UNCHANGED <<inp, ans, view, link, stage, tied>> /\ bus[o][p] # <<>>
        /\ bus[o][p] \in Seq(Message)
        /\ stream' = Told(p, Head(bus[o][p])) \/ stream' = stream
    BY <1>3 DEF Relay, LoseRelay, db, storeVars, Typed, TypeOK
  <2>2. \A x \in Message : Queued(x, stream[Owner[r]]) => Queued(x, stream'[Owner[r]])
    BY <1>0, <2>1, QueueTyped, ToldHas
  <2>3. /\ RefusalComing(r) => RefusalComing(r)'
        /\ BoardDue(Owner[r]) => BoardDue(Owner[r])'
    BY <1>0, <2>1, <2>2, ComingStands DEF RefusalComing
  <2> QED
    BY <2>1, <2>3, HeededStands DEF ShowsDrop
<1> QED
  BY <1>1, <1>2, <1>3, AskHeeded, DeliverHeeded, RefetchHeeded, DropHeeded, JoinHeeded,
     ServedHeeded DEF Next, Serve, Connects

(* Every page starts with nothing dropped.                                 *)
LEMMA TendedInit ==
  ASSUME Init
  PROVE  Tended
<1>1. Typed
  BY TypedInit
<1>2. Plain(Snapshot)
  BY <1>1, ReadPlain, ReadTyped DEF Snapshot, Typed
<1>3. AllPlain(<<>>) /\ \A x : ~Queued(x, <<>>)
  BY DEF AllPlain, Queued
<1>4. NoDropTravels
  BY <1>3 DEF Init, NoDropTravels
<1>5. AcksTrue
  BY <1>3 DEF Init, AcksTrue
<1>6. ASSUME NEW r \in Request PROVE Heeded(r)
  <2>1. Owner[r] \in Client
    BY ClientAssumption
  <2>2. view[Owner[r]] = Snapshot /\ stage[r] = "idle"
    BY <2>1 DEF Init
  <2>3. ~ShowsDrop(r)
    BY <1>2, <2>2 DEF ShowsDrop, Plain
  <2> QED
    BY <2>2, <2>3 DEF Heeded
<1> QED
  BY <1>4, <1>5, <1>6 DEF Tended

(* No step leaves a refused drop to itself: the ack that tells the page of *)
(* the refusal is on its way, or the refetch is under way, or, the ack     *)
(* being lost, a join whose board replaces what the page shows; whatever   *)
(* acks, connections and requests are lost, and whatever order the rest    *)
(* comes in. A drop stays only on a page that has reported that a refetch, *)
(* a handshake or a join of its own failed.                                *)
THEOREM RefusedHeeded == Spec => []RefusedDropHeeded
<1>1. Typed /\ Typed' /\ Tended /\ [Next]_vars => Tended'
  BY PlainStep, AcksStep, HeededStep DEF Tended
<1>2. Init => Tended
  BY TendedInit
<1>3. Init /\ []Typed /\ [][Next]_vars => []Tended
  BY <1>1, <1>2, PTL
<1>4. ASSUME Tended PROVE RefusedDropHeeded
  <2> SUFFICES ASSUME NEW r \in Request, ans[r] \notin {None, "OK"}, ShowsDrop(r)
               PROVE  \/ AckComing(r)
                      \/ stage[r] \in {"refetch", "reading", "fetched", "abandoned"}
                      \/ stage[r] = "orphan" /\ BoardDue(Owner[r])
    BY DEF RefusedDropHeeded, BoardDue
  <2>1. RefusalComing(r) /\ stage[r] = "answered" => AckComing(r)
    BY DEF RefusalComing, Queued, AckComing
  <2>2. Heeded(r)
    BY <1>4 DEF Tended
  <2> QED
    BY <2>1, <2>2 DEF Heeded
<1> QED
  BY <1>3, <1>4, TypedAlways, PTL DEF Spec
=============================================================================
