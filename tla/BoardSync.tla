------------------------------ MODULE BoardSync ------------------------------
(***************************************************************************)
(* The live board: gateway replicas (apps/realtime), the Redis adapter     *)
(* between them, and browsers (use-board-socket, board-client, with the    *)
(* reducer of BoardView).                                                  *)
(*                                                                         *)
(* What a request does to the database is CardStore's one-step promise,    *)
(* which CardWrites implements. Here it is followed by what the gateway's  *)
(* handler does next, hydrateCard, broadcast, ack, each of which can run   *)
(* after other requests have been carried out.                             *)
(*                                                                         *)
(* Messages keep their order on one connection: from a replica to Redis    *)
(* and on to another replica, and from a replica to a browser. Nothing     *)
(* orders what two replicas broadcast.                                     *)
(***************************************************************************)
EXTENDS CardStore, BoardView, Sequences

CONSTANTS
  Client,     \* browsers with the board open
  Replica,    \* gateway replicas
  Home,       \* Home[c]: the replica c connects to
  Owner,      \* Owner[r]: the browser that makes request r
  Late,       \* the browsers whose page has yet to connect at the start
  MaxFaults   \* bound: how many things go wrong

ASSUME ClientAssumption ==
  /\ Home \in [Client -> Replica]
  /\ Owner \in [Request -> Client]
  /\ Late \subseteq Client
  /\ MaxFaults \in Nat

VARIABLES
  view,    \* view[c]: what browser c shows
  link,    \* link[c]: its connection; "live" is in the board's room
  held,    \* held[c]: the board that its board.join handler has read
  stream,  \* stream[c]: messages on their way to it
  bus,     \* bus[o][p]: broadcasts of replica o on their way to replica p
  stage,   \* stage[r]: how far request r has got
  tied,    \* whether the connection r was sent on still stands
  text,    \* text[c]: the request that wrote what card c says, as committed
  made,    \* made[r]: the card that r's operation returned to its handler
  left,    \* resyncs that follow the refusal of r
  rest,    \* rest[r]: the board on its way to such a resync
  faults

vars == <<row, closed, inp, ans, text, view, link, held, stream, bus, stage, tied, made, left,
          rest, faults>>

db == <<storeVars, text>>

-----------------------------------------------------------------------------
(* What is sent.                                                           *)

(* A row on the wire, x being the cards table and t its text: toCard.      *)
Wire(c, x, t) == [id |-> c, list |-> x[c].list, pos |-> x[c].pos, ver |-> x[c].ver,
                  text |-> t[c], by |-> {}, at |-> "pos"]

OpenList == List \ (closed \union ForeignList)

OnBoard(c) == row[c].state = "live" /\ row[c].list \in OpenList

Applied == {r \in Request : ans[r] = "OK"}

(* readBoard: Prisma selects the lists, and then the cards in those lists. *)
ListsRead == [lists |-> OpenList, cards |-> {}, asOf |-> Applied]

CardsRead(b) ==
  [b EXCEPT !.cards = {Wire(c, row, text) :
     c \in {d \in Card : row[d].state = "live" /\ row[d].list \in b.lists}}]

Snapshot == CardsRead(ListsRead)

(* What BoardBroadcast makes of the result of request r.                   *)
Announcement(r) ==
  CASE inp[r].op = "create"  -> [kind |-> "card.created", card |-> made[r]]
    [] inp[r].op = "update"  -> [kind |-> "card.updated", card |-> made[r]]
    [] inp[r].op = "move"    -> [kind |-> "card.moved", card |-> made[r]]
    [] inp[r].op = "archive" -> [kind |-> "card.archived", id |-> inp[r].card]
    [] inp[r].op = "archiveList" -> [kind |-> "list.archived", id |-> inp[r].list]

(* The sockets of replica p that are in the room.                          *)
Room(p) == {c \in Client : link[c] = "live" /\ Home[c] = p}

Told(p, m) == [c \in Client |-> IF c \in Room(p) THEN Append(stream[c], m) ELSE stream[c]]

(* .to(room).emit: this replica's sockets, and the other replicas.         *)
Published(o, m) ==
  [bus EXCEPT ![o] = [p \in Replica |-> IF p = o THEN bus[o][p] ELSE Append(bus[o][p], m)]]

(* The ack follows on the socket the request came on, if it still stands.  *)
Acked(s, r, code) ==
  IF tied[r]
  THEN [s EXCEPT ![Owner[r]] = Append(s[Owner[r]], [kind |-> "ack", req |-> r, code |-> code])]
  ELSE s

AckStage(r) == [stage EXCEPT ![r] = IF tied[r] THEN "answered" ELSE "orphan"]

-----------------------------------------------------------------------------

(* A link that is "outside" is connected and has failed to join the room;  *)
(* one that is "refused" is not connected and will not be.                 *)
Link == {"down", "joining", "reading", "entering", "live", "outside", "refused"}

Connected(c) == link[c] \notin {"down", "refused"}

Stage == {"idle", "sent", "lost", "applied", "answered", "orphan", "refetch", "reading",
          "fetched", "abandoned", "done"}

Shown == [id : Card, list : List, pos : 0 .. MaxKey - 1, ver : Nat,
          text : Request \union {None}, by : SUBSET Request, at : {"pos", "drop"}]

Board == [lists : SUBSET List, cards : SUBSET Shown, asOf : SUBSET Request]

Message ==
  [kind : {"board.state"}, board : Board]
    \union [kind : {"card.created", "card.updated", "card.moved"}, card : Shown]
    \union [kind : {"card.archived", "list.archived"}, id : Card \union List]
    \union [kind : {"ack"}, req : Request, code : Code]

TypeOK ==
  /\ StoreTypeOK
  /\ text \in [Card -> Request \union {None}]
  /\ view \in [Client -> Board]
  /\ link \in [Client -> Link]
  /\ held \in [Client -> Board \union {None}]
  /\ stream \in [Client -> Seq(Message)]
  /\ bus \in [Replica -> [Replica -> Seq(Message)]]
  /\ stage \in [Request -> Stage]
  /\ tied \in [Request -> BOOLEAN]
  /\ made \in [Request -> Shown \union {None}]
  /\ left \in [Request -> 0 .. 2]
  /\ rest \in [Request -> Board \union {None}]
  /\ faults \in 0 .. MaxFaults

(* Everybody's page has been rendered, from readBoard. It has joined, or   *)
(* has yet to connect.                                                     *)
Init ==
  /\ StoreInit
  /\ text = [c \in Card |-> None]
  /\ view = [c \in Client |-> Snapshot]
  /\ link = [c \in Client |-> IF c \in Late THEN "down" ELSE "live"]
  /\ held = [c \in Client |-> None]
  /\ stream = [c \in Client |-> <<>>]
  /\ bus = [o \in Replica |-> [p \in Replica |-> <<>>]]
  /\ stage = [r \in Request |-> "idle"]
  /\ tied = [r \in Request |-> FALSE]
  /\ made = [r \in Request |-> None]
  /\ left = [r \in Request |-> 0]
  /\ rest = [r \in Request |-> None]
  /\ faults = 0

Fault == faults < MaxFaults /\ faults' = faults + 1

-----------------------------------------------------------------------------
(* The browser.                                                            *)

(* send and onDragEnd: how many times a refusal makes the page refetch.    *)
Refetches(op, code) ==
  (IF code \in {"STALE", "NOT_FOUND"} THEN 1 ELSE 0) + (IF op = "move" THEN 1 ELSE 0)

(* Mutant: a refused drop is left where it is.                             *)
SettledWithoutResync(r, op, code) ==
  /\ stage' = [stage EXCEPT ![r] = "done"]
  /\ left' = left

(* What the page does with an ack.                                         *)
Settled(r, op, code) ==
  LET n == IF code = "OK" THEN 0 ELSE Refetches(op, code)
  IN  /\ stage' = [stage EXCEPT ![r] = IF n = 0 THEN "done" ELSE "refetch"]
      /\ left' = [left EXCEPT ![r] = n]

(* The controls that the page offers.                                      *)
OnScreen(v, s) ==
  /\ s.op \in {"move", "update", "archive"} => Holds(v, s.card)
  /\ s.op \in {"move", "create", "archiveList"} => s.list \in v.lists
  /\ s.after # None => \E e \in v.cards : e.id = s.after /\ e.list = s.list

(* A person drops a card or presses a control. A drop shows at once. emit  *)
(* refuses by itself while the socket is down.                             *)
Ask(r) ==
  LET c == Owner[r]
      v == view[c]
  IN  /\ inp[r] = None
      /\ \E s \in Offered[r] :
           /\ OnScreen(v, s)
           /\ inp' = [inp EXCEPT ![r] =
                [op |-> s.op, card |-> s.card, list |-> s.list, after |-> s.after,
                 labelsOk |-> s.labelsOk,
                 expected |-> IF Holds(v, s.card) THEN Held(v, s.card).ver ELSE 0,
                 before |-> None]]
           /\ view' = IF s.op = "move"
                      THEN [view EXCEPT ![c] = Dropped(v, s.card, s.list, r)] ELSE view
           /\ \/ /\ Connected(c)
                 /\ stage' = [stage EXCEPT ![r] = "sent"]
                 /\ tied' = [tied EXCEPT ![r] = TRUE]
                 /\ UNCHANGED <<ans, left>>
              \/ /\ ~Connected(c)
                 /\ ans' = [ans EXCEPT ![r] = "INTERNAL"]
                 /\ Settled(r, s.op, "INTERNAL")
                 /\ tied' = tied
      /\ UNCHANGED <<row, closed, text, link, held, stream, bus, made, rest, faults>>

(* The next message arrives.                                               *)
Deliver(c) ==
  /\ stream[c] # <<>>
  /\ stream' = [stream EXCEPT ![c] = Tail(stream[c])]
  /\ LET m == Head(stream[c])
     IN  \/ /\ m.kind = "ack"
            /\ Settled(m.req, inp[m.req].op, m.code)
            /\ view' = view
         \/ /\ m.kind # "ack"
            /\ view' = [view EXCEPT ![c] = Reduce(view[c], m)]
            /\ UNCHANGED <<stage, left>>
  /\ UNCHANGED <<db, link, held, bus, tied, made, rest, faults>>

(* resync: the server reads the board ..                                   *)
FetchLists(r) ==
  /\ stage[r] = "refetch"
  /\ rest' = [rest EXCEPT ![r] = ListsRead]
  /\ stage' = [stage EXCEPT ![r] = "reading"]
  /\ UNCHANGED <<db, view, link, held, stream, bus, tied, made, left, faults>>

FetchCards(r) ==
  /\ stage[r] = "reading"
  /\ rest' = [rest EXCEPT ![r] = CardsRead(rest[r])]
  /\ stage' = [stage EXCEPT ![r] = "fetched"]
  /\ UNCHANGED <<db, view, link, held, stream, bus, tied, made, left, faults>>

(* Mutant: having shown the answer, the page goes on as if it had come.    *)
ShowFetchedOpen(r) ==
  /\ stage[r] = "fetched"
  /\ view' = [view EXCEPT ![Owner[r]] = rest[r]]
  /\ rest' = [rest EXCEPT ![r] = None]
  /\ UNCHANGED <<db, link, held, stream, bus, stage, tied, made, left, faults>>

(* .. and the page takes the answer in, whatever has come meanwhile.       *)
ShowFetched(r) ==
  /\ stage[r] = "fetched"
  /\ view' = [view EXCEPT ![Owner[r]] = rest[r]]
  /\ rest' = [rest EXCEPT ![r] = None]
  /\ left' = [left EXCEPT ![r] = left[r] - 1]
  /\ stage' = [stage EXCEPT ![r] = IF left[r] = 1 THEN "done" ELSE "refetch"]
  /\ UNCHANGED <<db, link, held, stream, bus, tied, made, faults>>

(* An answer that is not ok counts as a resync; a failed request ends send *)
(* and onDragEnd there.                                                    *)
FetchFails(r) ==
  /\ stage[r] = "refetch"
  /\ Fault
  /\ \E n \in {0, left[r] - 1} :
       /\ left' = [left EXCEPT ![r] = n]
       /\ stage' = [stage EXCEPT ![r] = IF n = 0 THEN "abandoned" ELSE "refetch"]
  /\ UNCHANGED <<db, view, link, held, stream, bus, tied, made, rest>>

-----------------------------------------------------------------------------
(* The connection.                                                         *)

(* The socket drops: what was on its way is lost, on either side, and no   *)
(* ack will come for what was sent on it.                                  *)
Drop(c) ==
  /\ Connected(c)
  /\ Fault
  /\ link' = [link EXCEPT ![c] = "down"]
  /\ stream' = [stream EXCEPT ![c] = <<>>]
  /\ held' = [held EXCEPT ![c] = None]
  /\ \E gone \in SUBSET {r \in Request : Owner[r] = c /\ stage[r] = "sent" /\ tied[r]} :
       stage' = [r \in Request |->
         IF r \in gone THEN "lost"
         ELSE IF Owner[r] = c /\ stage[r] = "answered" THEN "orphan" ELSE stage[r]]
  /\ tied' = [r \in Request |-> tied[r] /\ Owner[r] # c]
  /\ UNCHANGED <<db, view, bus, made, left, rest>>

(* Socket.io connects again and the page emits board.join ..               *)
Reconnect(c) ==
  /\ link[c] = "down"
  /\ link' = [link EXCEPT ![c] = "joining"]
  /\ UNCHANGED <<db, view, held, stream, bus, stage, tied, made, left, rest, faults>>

(* .. the handler of board.join reads the board ..                         *)
JoinLists(c) ==
  /\ link[c] = "joining"
  /\ held' = [held EXCEPT ![c] = ListsRead]
  /\ link' = [link EXCEPT ![c] = "reading"]
  /\ UNCHANGED <<db, view, stream, bus, stage, tied, made, left, rest, faults>>

JoinCards(c) ==
  /\ link[c] = "reading"
  /\ held' = [held EXCEPT ![c] = CardsRead(held[c])]
  /\ link' = [link EXCEPT ![c] = "entering"]
  /\ UNCHANGED <<db, view, stream, bus, stage, tied, made, left, rest, faults>>

(* Mutant: the handler enters the room and sends nothing.                  *)
JoinEnterSilent(c) ==
  /\ link[c] = "entering"
  /\ link' = [link EXCEPT ![c] = "live"]
  /\ held' = [held EXCEPT ![c] = None]
  /\ UNCHANGED <<db, view, stream, bus, stage, tied, made, left, rest, faults>>

(* .. and then enters the room and sends what it has read.                 *)
JoinEnter(c) ==
  /\ link[c] = "entering"
  /\ link' = [link EXCEPT ![c] = "live"]
  /\ stream' = [stream EXCEPT ![c] =
       Append(stream[c], [kind |-> "board.state", board |-> held[c]])]
  /\ held' = [held EXCEPT ![c] = None]
  /\ UNCHANGED <<db, view, bus, stage, tied, made, left, rest, faults>>

(* The handshake is refused: the page had no token to send, or the gateway *)
(* does not take it. Socket.io tries again when the transport fails, never *)
(* after a refusal.                                                        *)
HandshakeRefused(c) ==
  /\ link[c] = "down"
  /\ Fault
  /\ link' = [link EXCEPT ![c] = "refused"]
  /\ UNCHANGED <<db, view, held, stream, bus, stage, tied, made, left, rest>>

(* board.join is refused or throws before it enters the room. The page     *)
(* reports the error. It emits board.join again when it next connects.     *)
JoinFails(c) ==
  /\ link[c] \in {"joining", "reading"}
  /\ Fault
  /\ link' = [link EXCEPT ![c] = "outside"]
  /\ held' = [held EXCEPT ![c] = None]
  /\ UNCHANGED <<db, view, stream, bus, stage, tied, made, left, rest>>

-----------------------------------------------------------------------------
(* The gateway.                                                            *)

(* The operation is carried out.                                           *)
Commit(r) ==
  /\ stage[r] = "sent"
  /\ Apply(r)
  /\ text' = IF inp[r].op \in {"create", "update"}
             THEN [text EXCEPT ![inp[r].card] = r] ELSE text
  /\ made' = [made EXCEPT ![r] =
                IF inp[r].card = None THEN None ELSE Wire(inp[r].card, row', text')]
  /\ stage' = [stage EXCEPT ![r] = "applied"]
  /\ UNCHANGED <<view, link, held, stream, bus, tied, left, rest, faults>>

(* Why an operation may be refused, as the board is.                       *)
Refusal(r, code) ==
  \/ /\ code = "STALE"
     /\ inp[r].op \in {"move", "update", "archive"}
     /\ row[inp[r].card].ver # inp[r].expected
  \/ /\ code = "NOT_FOUND"
     /\ \/ inp[r].op \in {"move", "update", "archive"} /\ row[inp[r].card].state # "live"
        \/ inp[r].op \in {"move", "create", "archiveList"} /\ inp[r].list \in closed
  \/ /\ code = "INVALID"
     /\ \/ inp[r].op \in {"create", "update"} /\ ~inp[r].labelsOk
        \/ inp[r].after # None /\ ~IsLiveIn(inp[r].after, inp[r].list)

Answered(r, code) ==
  /\ Refuse(r)
  /\ ans'[r] = code
  /\ stream' = Acked(stream, r, code)
  /\ stage' = AckStage(r)
  /\ UNCHANGED <<text, view, link, held, bus, tied, made, left, rest>>

(* The operation throws, and the ack says why.                             *)
RefuseAsk(r) ==
  /\ stage[r] = "sent"
  /\ \E code \in Code : Refusal(r, code) /\ Answered(r, code)
  /\ faults' = faults

(* A timeout, a deadlock, the retries used up: whatever the page can only  *)
(* report. A rate limit or a missing role looks the same to it.            *)
FailAsk(r) ==
  /\ stage[r] = "sent"
  /\ Fault
  /\ \E code \in {"INTERNAL", "CONFLICT"} : Answered(r, code)

(* The card is hydrated: broadcast, then ack.                              *)
Announce(r) ==
  LET o == Home[Owner[r]]
      m == Announcement(r)
  IN  /\ stage[r] = "applied"
      /\ stream' = Acked(Told(o, m), r, "OK")
      /\ bus' = Published(o, m)
      /\ stage' = AckStage(r)
      /\ UNCHANGED <<db, view, link, held, tied, made, left, rest, faults>>

(* hydrateCard fails after the commit: an INTERNAL ack and no broadcast.   *)
HydrateFails(r) ==
  /\ stage[r] = "applied"
  /\ inp[r].op \in {"move", "create", "update"}
  /\ Fault
  /\ stream' = Acked(stream, r, "INTERNAL")
  /\ stage' = AckStage(r)
  /\ UNCHANGED <<db, view, link, held, bus, tied, made, left, rest>>

(* The next broadcast of replica o reaches replica p ..                    *)
Relay(o, p) ==
  /\ bus[o][p] # <<>>
  /\ bus' = [bus EXCEPT ![o][p] = Tail(bus[o][p])]
  /\ stream' = Told(p, Head(bus[o][p]))
  /\ UNCHANGED <<db, view, link, held, stage, tied, made, left, rest, faults>>

(* .. or is lost with Redis.                                               *)
LoseRelay(o, p) ==
  /\ bus[o][p] # <<>>
  /\ Fault
  /\ bus' = [bus EXCEPT ![o][p] = Tail(bus[o][p])]
  /\ UNCHANGED <<db, view, link, held, stream, stage, tied, made, left, rest>>

-----------------------------------------------------------------------------

Serve(r) == Commit(r) \/ RefuseAsk(r) \/ Announce(r)

Refetch(r) == FetchLists(r) \/ FetchCards(r) \/ ShowFetched(r)

Join(c) == Reconnect(c) \/ JoinLists(c) \/ JoinCards(c) \/ JoinEnter(c)

(* Nothing is under way.                                                   *)
Idle ==
  /\ \A r \in Request : stage[r] \in {"idle", "lost", "orphan", "abandoned", "done"}
  /\ \A c \in Client : link[c] \in {"live", "outside", "refused"} /\ stream[c] = <<>>
  /\ \A o, p \in Replica : bus[o][p] = <<>>

Rest == Idle /\ UNCHANGED vars

Next ==
  \/ \E r \in Request : \/ Ask(r) \/ Serve(r) \/ Refetch(r)
                        \/ FailAsk(r) \/ HydrateFails(r) \/ FetchFails(r)
  \/ \E c \in Client : Deliver(c) \/ Join(c) \/ Drop(c) \/ HandshakeRefused(c) \/ JoinFails(c)
  \/ \E o, p \in Replica : Relay(o, p) \/ LoseRelay(o, p)
  \/ Rest

(* Processes and connections that can go on do: handlers run, Redis and    *)
(* TCP deliver, Socket.io goes on to connect, a refetch is answered. What  *)
(* may be refused (a handshake, a join) either succeeds or is refused.     *)
(* People and faults promise nothing.                                      *)
Spec ==
  /\ Init
  /\ [][Next]_vars
  /\ \A r \in Request : WF_vars(Serve(r)) /\ WF_vars(Refetch(r))
  /\ \A c \in Client : WF_vars(Deliver(c)) /\ WF_vars(Join(c))
  /\ \A o, p \in Replica : WF_vars(Relay(o, p))

-----------------------------------------------------------------------------
(* Properties.                                                             *)

(* A card is on a screen at most once, whatever order drops, broadcasts,   *)
(* snapshots and refetches come in: reduce.                                *)
NoCardTwice ==
  \A c \in Client : \A e, f \in view[c].cards : e.id = f.id => e = f

(* Once a client has taken in a snapshot of the board as it still is, no   *)
(* message under way, however late or out of order, changes what it shows  *)
(* of the cards on the board, its own drops aside: "a stale event is       *)
(* ignored" (board-state.ts).                                              *)
FreshViewHolds ==
  \A c \in Client : view[c].asOf = Applied =>
    \A d \in Card : OnBoard(d) =>
      \E e \in view[c].cards :
        e.id = d /\ (e.by # {} \/ [e EXCEPT !.at = "pos"] = Wire(d, row, text))

(* Only a snapshot, a refetch's or a join's, ever takes a card on a screen *)
(* back to an earlier version: reduce.                                     *)
VersionsRise ==
  [][\A c \in Client : \A e \in view[c].cards : \A f \in view'[c].cards :
       e.id = f.id /\ f.ver < e.ver =>
         \/ stream[c] # <<>> /\ Head(stream[c]).kind = "board.state"
         \/ \E r \in Request : Owner[r] = c /\ stage[r] = "fetched"]_vars

(* A drop that was refused does not stay on the screen, however the ack or *)
(* the connection is lost, unless the page has reported that it could not  *)
(* get the board: the refetch after the refusal failed, or, the ack being  *)
(* lost with the socket, the next handshake or board.join.                 *)
ShowsDrop(r) == \E e \in view[Owner[r]].cards : e.by = {r}

AckComing(r) ==
  /\ stage[r] = "answered"
  /\ \E i \in DOMAIN stream[Owner[r]] :
       LET m == stream[Owner[r]][i] IN m.kind = "ack" /\ m.req = r

(* Until the handshake or the join fails, a board is on its way.           *)
BoardComing(c) ==
  \/ link[c] \in {"down", "joining", "reading", "entering"}
  \/ \E i \in DOMAIN stream[c] : stream[c][i].kind = "board.state"

CutOff(c) == link[c] \in {"outside", "refused"}

(* What will undo it is always there: the ack that tells the page, the     *)
(* refetch that it then makes, or, with the ack lost, the board that       *)
(* comes with the next join. No step leaves a refused drop to itself but   *)
(* the failure of that refetch, handshake or join.                         *)
RefusedDropHeeded ==
  \A r \in Request :
    ans[r] \notin {None, "OK"} /\ ShowsDrop(r) =>
      \/ AckComing(r)
      \/ stage[r] \in {"refetch", "reading", "fetched", "abandoned"}
      \/ stage[r] = "orphan" /\ (BoardComing(Owner[r]) \/ CutOff(Owner[r]))

RefusedDropUndone ==
  \A r \in Request :
    ans[r] \notin {None, "OK"} /\ ShowsDrop(r) ~>
      \/ ~ShowsDrop(r)
      \/ stage[r] = "abandoned"
      \/ stage[r] = "orphan" /\ CutOff(Owner[r])

-----------------------------------------------------------------------------
(* What the sources say of the live board, and the code does not do.       *)

(* "which is what makes convergence a property rather than a hope"         *)
(* (contracts/events.ts): with nothing under way and nothing lost, every   *)
(* screen shows the board.                                                 *)
Converged ==
  Idle /\ faults = 0 =>
    \A c \in Client :
      /\ view[c].lists = OpenList
      /\ {[e EXCEPT !.by = {}, !.at = "pos"] : e \in view[c].cards} = Snapshot.cards

(* "this placement survives exactly until the matching card.moved arrives" *)
(* (applyOptimisticMove): while a card on the screen is the client's drop, *)
(* it stays at the index where it was dropped.                             *)
DropStays ==
  [][\A c \in Client : \A e \in view[c].cards : \A f \in view'[c].cards :
       e.id = f.id /\ e.by # {} /\ f.by = e.by /\ e.at = "drop" => f.at = "drop"]_vars
=============================================================================
