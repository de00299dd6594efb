# TLA+ specifications of kanban-realtime

Verification project for the kanban board in this repository: a Next.js client,
a NestJS REST API and any number of Socket.io gateway replicas that write to
one Postgres database and talk to each other through Redis.

Paths below are relative to the repository root.

## What is here

| module | what it is |
| --- | --- |
| `CardStore` | what the card operations promise, with concurrency taken away: a request takes effect in one step or is refused |
| `CardWrites` | the operations as they run: one process per request, one step per SQL statement, against Postgres at READ COMMITTED |
| `WaitGraph` | who waits for whom, and what a deadlock is |
| `CardWritesProofs` | TLAPS: the types of `CardWrites` |
| `CardWritesSafety` | TLAPS: the inductive invariant of `CardWrites`, the safety properties that follow from it, the refinement of `CardStore`, and why nobody waits in vain |
| `MCCardWrites` + `.cfg` | instances of `CardWrites` for TLC |
| `BoardView` | the reducer of the web client, as operators on a view of the board |
| `BoardSync` | the live board: browsers, gateway replicas and the bus between them, over the promise of `CardStore` |
| `BoardSyncProofs` | TLAPS: what every message, snapshot and shown board has to do with the tables |
| `MCBoardSync` + `.cfg` | instances of `BoardSync` for TLC |
| `Membership` | who is on a board and what a role allows: requests, their broadcasts, and the pages that show the roster |
| `MembershipProofs` | TLAPS: the roster, its log, the roles that allowed each write, and the pages |
| `MCMembership` + `.cfg` | instances of `Membership` for TLC |
| `ListStore` | what the list operations promise, with concurrency taken away |
| `ListWrites` | the list operations as they run, with the activity line each appends |
| `ActivityFeed` | what follows a list write: hook, broadcasts, the paged feed, and the columns and feed of an open page (extends `ListWrites`) |
| `ListWritesProofs`, `ActivityFeedProofs` | TLAPS: the table of lists and the refinement of `ListStore`; the feed and the columns of a page (the second extends the first) |
| `MCActivityFeed` + `.cfg` | the instance of `ActivityFeed` for TLC |
| `Presence` | the roster of a board: heartbeats, sweeps, departures, exits of a replica |
| `SlidingWindow`, `SocketLimiter` | what a rate limit promises, and the limiter of a socket |
| `HealthProbe` | the health checks of the gateway and the API |
| `ApiCalls` | session, service tokens, throttle, guard, handshake, and what a form is told |
| `Calendar` | a due date on its way through zones, the wire, a date column and a badge |
| `AtomicBoard`, `MemoryRepo` | what board-ops promises to one caller at a time, and the in-memory repository |
| `MCServices` + `.cfg` | the last six for TLC |
| `ServicesProofs` | TLAPS: `HealthProbe`, `ApiCalls`, `Presence`, `Calendar`, and `SocketLimiter` implements `SlidingWindow` |
| `MemoryRepoProofs` | TLAPS: `MemoryRepo` implements `AtomicBoard` |

`CardWrites` and `BoardSync` both extend `CardStore`: the first is checked to
implement `StoreSpec`, the second takes `Apply` and `Refuse` as the effect of a
handler's operation. `ListWrites` extends `ListStore` in the same way, and
implements its `StoreSpec`; both `CardWrites` and `ListWrites` take from
`WaitGraph` when a wait is a deadlock. The refinements are these two,
`SocketLimiter` of `SlidingWindow!WindowSpec` and `MemoryRepo` of
`AtomicBoard!AtomicSpec`, the last two through a refinement mapping.

Check with `tlc -config <cfg> <module>`; prove with `tlapm <module>` for each of
the eight modules marked TLAPS, none of which needs another to be proved first.

## Inventory

| component | state | operations | interacts with | hard behaviour |
| --- | --- | --- | --- | --- |
| card operations (`services/board-ops`, `services/board-store`) | `cards`, `lists`, `activities` rows; open transactions and their row locks | moveCard, createCard, updateCard, archiveCard, createList, updateList, moveList, archiveList | called directly by API and every gateway replica; only Postgres orders two calls | stale reads across lock waits, deadlocks, key collisions and their retry, check-then-act on the list, timeouts |
| ordering (`services/ordering`) | none | keyBetween, keysBetween, boundsFor, sortByPosition | used by the above | bounds must be strictly ascending; two writers of one gap may draw one key |
| membership (`apps/api/src/boards`, `packages/shared/src/roles.ts`) | `board_members` | createBoard, addMember, updateMemberRole, removeMember, deleteBoard, `can` | every write checks a role first; rosters are broadcast | role read before the write that depends on it; the upsert can demote the owner |
| gateway (`apps/realtime`) | sockets, rooms, a limiter per socket | board.join/leave, eight mutations, presence.ping, disconnecting | board-ops, readBoard, Redis adapter, presence | commit, hydrate, broadcast and ack are separate steps; replicas broadcast in any order |
| API (`apps/api`) | none of its own | REST handlers | board-ops, Redis emitter | broadcasts dropped while Redis is down |
| web client (`apps/web/lib`, `components/board`) | the board as shown, optimistic moves | reduce, drag, send, resync, join on connect | socket events, acks, REST | events out of order, snapshots older than events, lost acks |
| presence (`services/presence`) | a Redis hash per board | touch, leave, roster | gateways | the sweep on read races heartbeats; late heartbeats |
| rate limiter (`apps/realtime/src/rate-limit.ts`) | time stamps of the last events | take, remaining | every socket event | window boundary, refused events not recorded |
| health probe (`apps/realtime/src/health.ts`) | listeners on one shared subscription | roundTrip, timed | Redis pub/sub | concurrent probes share a channel; a lost race leaves the probe running |
| activity feed (`boards.service.ts` activity) | `activities` rows | append in the transaction, announce after commit, page by cursor | all mutations | rows of a discarded attempt; cursor at equal time stamps |
| sessions and service tokens (`apps/web/lib/session.ts`, `packages/shared/src/server`) | the session cookie; tokens carry their expiry | sign in, sign out, mint, verify | guard, handshake | a token outlives its session; it ages while it is on its way |
| calendar days (`packages/shared/src/time`) | the date column | day arithmetic, today, dueFor | forms, rows, badges | zones of writer, process, column and reader |
| in-memory repository (`services/board-ops`) | tables in place and a copy of them | the ports of board-ops | tests of board-ops | a call that fails half way |

What makes each correct:

- **card operations**: no lost update; no two cards of a list at one position;
  a card lands where the caller pointed or the call is refused; an archived
  card is never changed; a refused call leaves nothing behind; everybody is
  answered. This is `CardStore` plus the properties below.
- **membership**: the board stays with its owner; nobody writes who had no
  sufficient role at any time since asking; the activity lines tell who is a
  member; pages end with the true roster.
- **live board**: once messages stop and nothing is lost, every client shows
  the committed board; a client never goes back to an older version of a card;
  a drop that was refused does not stay, unless the page has said that it cannot
  get the board.
- **presence**: one lost heartbeat evicts nobody; when comings and goings stop,
  the roster shown becomes and stays who is there.
- **rate limiter**: it allows what a sliding window allows, no more, no less.
  **health**: green only when this very request's nonce came back.
- **activity feed**: pages neither repeat nor skip a line; only committed
  writes are announced.
- **tokens**: a sign-out reaches the stateless services within a token's life; a
  page is never refused for a token that has grown old. **calendar**: the day
  shown is the day written, in every zone (of a year past 99).
- **in-memory repository**: a call that fails has written nothing.

## CardStore and CardWrites

### State

| variable | code |
| --- | --- |
| `row[c]` | the committed row of card `c`: list, position, version, and `archived_at` as `state`; `"absent"` before createCard commits |
| `closed` | lists whose `archived_at` is set |
| `inp[r]`, `ans[r]` | the arguments of call `r`, and the code it is answered with |
| `pc[r]` | the statement the call has reached |
| `attempt[r]` | the loop variable of `moveCard` and `withPositionRetry` |
| `seen[r]` | the result of `findCard` |
| `todo[r]`, `read[r]` | the rows of the `FOR UPDATE` snapshot still to be locked, and those returned |
| `want[r]` | the row version the transaction has written and not committed |
| `lock[x]` | the transaction that holds the row lock on card or list `x` |

### Steps

`Ask` is a client making the call from the board it sees (`onDragEnd`,
`neighboursFor`): the version it sends and the neighbour it names are true when
it asks and may be stale when the call runs. Then, in the code's order:
`FindCard`, `FindLists` with its early returns, `StartLockRead` and
`LockNextRow` for `SELECT .. FOR UPDATE`, `RefuseAnchor`, the conditional write
(`WriteMove`, `WriteCreate`, `Rewrite`, `CloseList`), `EnterIndex` or `Collide`
for the unique index, `RefuseLabels`, `Commit`. `DeadlockVictim` is Postgres
failing one transaction that waits, directly or through others, for itself (a
mere waiter on a cycle is no victim); `TimeOut` is Prisma's transaction timeout,
which may strike anywhere before the commit.

What is abstracted: a title, description, due date, assignee and label set are
one unit with the version, since no operation reads them to decide anything
but whether labels are known (`labelsOk`). An ordering key is an integer; the
code's keys are strings in a dense order, and `KeyBetween` returns any of the
`Jitter` keys from the middle of the gap. The role check precedes the
transaction and reads nothing these operations write: only admitted calls
appear. Reads of the list by `findList`, in one transaction, form one step.

Postgres is external and is modelled as far as the code relies on it: READ
COMMITTED statement snapshots; a lock read that fixes its rows at the start,
locks them in order and re-checks the newest version of each; a conditional
UPDATE that waits for the row and re-checks its WHERE; a unique index that
makes a writer wait for open transactions holding or vacating its key; deadlock
detection. A foreign-key check takes a lock that conflicts with none of these.

### Properties

`UniquePosition`, `NoLostUpdate`, `VersionCountsAnswers`, `LockedReadHolds`,
`LandsBelowAnchor`, `FromListIsTrue`, `NobodyWaitsInVain` (safety),
`EveryRequestAnswered` (liveness), and refinement: `CardWrites` implements
`StoreSpec`, with every variable of `CardStore` a variable of `CardWrites`.
`ArchivedIsFinal` follows from it: stated and proved, no run checks it again.
`ClosedBeforeTheLook` and `RefusedIfClosed` mark the limit of finding 2:
which requests an archived list is safe from.
Each is stated in words above its definition.

### Runs

| run | shows |
| --- | --- |
| `MCCardWrites_pair` | two requests, each any of the five operations on any of five cards and three lists, with stale views, refused labels, another board's list and card, and an archived card in the very key both aim at |
| `MCCardWrites_triple` | three requests with narrower choices: moves in opposite directions (deadlock), an archiving against a move, a third writer in the same gap or one that archives the destination |
| `MCCardWrites_lockread` | **violated**: the lock read does not always return the list as the transaction before left it |
| `MCCardWrites_closed` | **violated**: a card can enter a list that has just been archived |

Bounds. Two requests are enough for every pairwise race; the third is there for
what needs a bystander: a writer that fills a gap while two others wait, and a
deadlock with a waiter. `MaxAttempts = 2` reaches both a retry that succeeds
and the ceiling. `MaxKey = 32` and `Jitter = 2` leave room for every key the
requests can draw, so that no call is ever without a key, and make two writers
of one gap draw the same key or different ones. A request asks once; a client
that asks again is another request.

Fairness. `WF(Step(r))`: a transaction that can take its next step takes it,
because Node runs the continuation and Postgres the statement. A lock wait is a
step that is not enabled. Nothing is assumed of callers, and `TimeOut` is never
assumed: `EveryRequestAnswered` does not lean on it.

### Findings

1. The comments of `ports.ts:98` and `board-store/src/index.ts:20` promise that
   the second of two moves "reads the list as the first left it". It does not:
   rows that come into the list after the statement's snapshot are missed. The
   model shows that uniqueness and "below the anchor" survive, and that
   adjacency (and so `reconciled`) does not.
2. `moveCard` and `createCard` refuse an archived destination only when it is
   archived already at the check; nothing holds the list until the commit. The
   gap is that wide and no wider: a request that still has its list to look for
   when the list is archived, in its first attempt or in a retry, is refused
   (`ClosedBeforeTheLook`).
3. `resync` puts whatever it read on the screen: a read that is overtaken by a
   broadcast takes the board back, and nothing repairs it. `events.ts:21` calls
   convergence "a property rather than a hope".
4. A drop stays only until the next event that re-sorts its column, not "exactly
   until the matching `card.moved` arrives" (`board-state.ts:260`).

## BoardView and BoardSync

### State

| variable | code |
| --- | --- |
| `view[c]` | the reducer's board in browser `c`: lists, cards with column, key, version and who wrote their text; `by` and `at` say whether the column shows a card at its key or where this client dropped it; `asOf` is a history variable |
| `link[c]`, `held[c]` | the socket: down, joining, in the two selects of `board.join`, in the room; connected and outside the room, its join having failed; refused in the handshake; and the board its handler has read |
| `stream[c]` | events and acks on the socket towards `c`, in order |
| `bus[o][p]` | broadcasts of replica `o` towards replica `p`, in order |
| `stage[r]`, `tied[r]`, `made[r]` | how far the handler of `r` and the page behind it have got; whether the socket it came on stands; what the operation returned |
| `left[r]`, `rest[r]` | the refetches that a refusal of `r` still owes, and the board such a fetch has read |
| `text[c]` | which request wrote what the card says, as committed |
| `faults` | how many things have gone wrong, at most `MaxFaults` |

### Steps

`Ask` is a person dropping a card or pressing a control, with the optimistic
move and `emit`'s own refusal while the socket is down. `Commit` or `RefuseAsk`
is the operation; `Announce` is what the handler does after it: broadcast, then
ack. Between the two any other request may commit and announce. `Relay` moves a
broadcast to the next replica, `Deliver` gives a browser its next message: an
ack (`Settled`) or an event (`Reduce`). `FetchLists`, `FetchCards` and
`ShowFetched` are one `resync`; `Reconnect`, `JoinLists`, `JoinCards` and
`JoinEnter` one join. `readBoard` is two steps because Prisma runs nested
selects one after the other in no transaction. Faults are `Drop` (a socket,
with what is on it and any requests that had not arrived), `LoseRelay`,
`HydrateFails` (after the commit), `FailAsk`, `FetchFails`, and the two ways back
to the board that end before it: `HandshakeRefused` (the page's fetch of a token
failed, or the gateway does not take the token; Socket.io does not try again)
and `JoinFails` (a rate limit, a board that is not the person's any more, or a
read that throws; the page reports it and emits `board.join` only when it next
connects). A page can be cut off from the start in either way, or after a
`Drop`. A socket that is connected outside the room still carries requests and
their acks.

`Commit` takes the effect of an operation from `CardStore`, which also allows a
card to enter a list that has just been archived (finding 2): here such a card
is on no board that is read afterwards.

Abstracted: columns are sets, and a column's order is whether each card is where
its key sorts it. Two copies of a card that agree in everything are one element
of a set; `NoCardTwice` is about copies that differ. The list's name, key and
limit, members, presence and the activity feed are in modules of their own, so of
the list events only `list.archived` is here. A replica with no browsers stands for the
REST API and its emitter.

### Properties

`NoCardTwice`, `FreshViewHolds` (a browser that has read the board as it still
is cannot be led astray by anything late), `VersionsRise` (only a snapshot takes
a card back), `RefusedDropUndone` (liveness) and its safety half,
`RefusedDropHeeded`: while a refused drop is on the screen, an ack, a refetch or
a join that will undo it is under way, or what should have undone it has failed
and the page has said so: the refetch after the refusal, or, the ack being lost
with the socket, the next handshake or `board.join`. In these three cases the
drop stays, because nothing in the page asks again; the two properties say that
there is no fourth. `Converged` and `DropStays` are what comments promise, and
fail.

### Runs

| run | shows |
| --- | --- |
| `MCBoardSync_refused` | two browsers, a drop below a card against an edit, an archiving of that card or of the list, two faults: types, that a refused drop is never left with nothing to undo it, and that it leaves the screen in the end, both but for the three failures above |
| `MCBoardSync_fresh` | one browser has yet to join: snapshots against broadcasts that arrive late or overtaken, one fault |
| `MCBoardSync_converged` | **violated**, three requests, no fault |
| `MCBoardSync_drop` | **violated**, two requests, no fault |

Bounds. Two requests on one card give every reordering of two broadcasts and one
snapshot; the browser in `Late` reads its snapshot between them. Where a drop
has to be undone there are two faults: a lost ack takes one, `Drop`, and the
handshake, the join or the connection that follows can fail with the other. The
drop is refused as STALE, INVALID or NOT_FOUND. That run has one replica, since
what other replicas send plays no part in undoing a drop (and `RefusedHeeded` is
proved for any number); two replicas are in the others. `MaxKey` is
one more than the keys the cards can occupy.

Fairness. `Serve` and `Refetch` of each request, `Deliver` and `Join` of each
browser, `Relay` of each channel: handlers run to their end, TCP and Redis
deliver what they have not lost, Socket.io reconnects without limit (its
default, which the client does not change) for as long as no handshake is
refused. `WF(Join(c))` does not promise that a handshake or a join succeeds:
`HandshakeRefused` and `JoinFails` compete with it and end in states in which
`Join(c)` is not enabled. Nothing is assumed of people, and no fault is ever
required to happen.

## Membership

### State

| variable | code |
| --- | --- |
| `account`, `board`, `role`, `name`, `log` | rows of `users`, `boards`, `board_members`, and the board's activity lines about members, in commit order |
| `pc[r]`, `old[r]`, `got[r]` | where request `r` is; the target's role it has read; the roster it has read after its commit |
| `asked[r]`, `writes`, `sent`, `tidy` | history: what had been logged or written when, and whether broadcasts went out in the order of what they say |
| `shown[p]`, `link[p]`, `inbox[p]` | the members panel and name of page `p`, its socket, and the broadcasts on their way to it |

### Steps

`Require` is the service's `require`, `FindAccount` and `FindMember` the second
read that some requests make. Only then comes the transaction, in one step
because it writes one row and a line and reads nothing first: `AddMember`,
`ChangeMember`, `RenameBoard`, `DeleteBoard`, `CreateBoard`, `Signup`.
`RowGone` is Prisma's P2025 when the row went meanwhile, `TxFails` any other
failure. `WriteCard` stands for the card and list operations, which read a role
and then write. After the commit, `Recheck` and `ReadRoster` are what
`announceMembers` does (`getBoard` requires a role once more), and `Announce`
publishes. Pages hear (`Deliver`), lose their socket and join again.

### Properties

`OwnerKeepsBoard`, `LogExplainsRoster`, `PermittedMeanwhile`, `RosterConverges`
(safety) and `CommittedThenRefused` (a step). `OneOwner` is what the migration
promises, and fails.

### Runs

`MCMembership`: three interchangeable requests out of fifteen inputs, one page,
one fault; 1.6 million states. An owner with two tabs makes two of the requests
contradict each other; the editor on the page can be demoted, removed, made to
leave and can write meanwhile; the third person signs up and is added.
`MCMembership_owner` is **violated** in a few steps (finding 5).

## ListWrites and ActivityFeed

### State and steps

`ListWrites` is to the lists what `CardWrites` is to cards: `FindList`, the lock
read row by row, `RefuseAnchor`, `Position` or `Collide`, `Rewrite` (updateList
and archiveList write by id), `Commit`, `DeadlockVictim`, `TimeOut`. A list has
no version; `name` and `wip` hold the request that set them. Each transaction
appends a `line`, stamped when it is written and visible when it commits.

`ActivityFeed` extends it. `TellLine` is the hook after the commit and
`TellList` the list's own event, each from a process of its own. Then there is
either somebody who pages (`ReadPage`, with the keyset cursor), or a board page:
rendered in two reads (`RenderBoard`, `RenderFeed`), joined in two (`JoinRead`,
`JoinEnter`), and listening (`Deliver`, with the reducer's cases for list events
and `board.activity`). Events on their way are a set: replicas do not keep each
other's order.

### Properties

Of the table: `EachColumnLastWritten`, `ClosedListsTakeNoNews`, and the
refinement of `ListStore`. Of the feed: `PagesDescend`, `PagesSkipNothing` and,
proved only, `CursorLeadsSomewhere`. Of the page: `ShownIsCommitted`,
`NothingTwice`, `ColumnsConverge`. `ListPositionsUnique` follows from the
refinement and is proved, and no run checks it again.

### Run

`MCActivityFeed`: two requests over two live lists, one archived between them, a
list of another board and two to be created; three older lines, two of them of
the same instant, on pages of two; a clock of two values, so that a line may be
stamped early and committed late; one fault. 0.7 million states. Two requests
meet in every pair of statements, lock cycles included; that a third finds
nothing new is not checked. The module needs no fairness: no property of it is
about what must happen.

## The services

`Presence`, `SocketLimiter`, `HealthProbe`, `ApiCalls`, `Calendar` and
`MemoryRepo` share no variable. `MCServices` explores them one at a time (`part`
is chosen at the start), 0.5 million states in all.

| module | state | steps | properties |
| --- | --- | --- | --- |
| `Presence` | the Redis hash with the age of each entry, sockets, rooms, heartbeats due or lost, handlers under way | the handlers of join, leave, ping and disconnecting, each statement a step; a roster's read and its deletions are two; a replica's exit; time | `OneLostHeartbeatKeepsYou`, `RosterSettles` (liveness) |
| `SocketLimiter` | the ages of the hits in the window | `take` with its eviction, `remaining`, time | `LimiterIsAWindow`: it implements `SlidingWindow`, in which an event leaves the window at the tick it is due |
| `HealthProbe` | subscription and listeners on the shared connection, nonces on the wire, each check | subscribe, publish, message, `finally`, a timeout that leaves the probe running, death and recovery of a dependency | `GreenMeansHeard` |
| `ApiCalls` | the session, each call's and the page's token as an age | sign-in and sign-out, mint, throttle, guard, handler, lost replies, attempts to connect, handshake, drops | `SignOutHolds` (a step), `DeniedForCause` |
| `Calendar` | the clock, the date column, the day meant, the day each reader has | saving in a process of any zone, opening a page, `card.updated`, an hour passing | `DueMeansWhatWasWritten` |
| `MemoryRepo` | the tables in place and the copy, forced collisions, one call | the eight operations statement by statement, retries, rollback | `MemoryIsAtomic`: it implements `AtomicBoard`, in which a call writes everything or nothing |

Bounds. Presence: two connections of one person, so that a count of one and of
two differ and one can go while the other stays; a heartbeat every tick, a TTL
of two (which the configuration check has to refuse) or three; `Delay = 1`, ages
up to 4, one above the TTL. Limiter: three events in four ticks. Health: two
probes, each of the gateway or of the API. Calls: two submissions, a token of
two ticks, one request per throttle window, one drop. Calendar: readers at -11
and +14 hours, processes at -4 and +2, fifteen hours up to 1 March 2096, to 1
March 2100 and to New Year 2100 in UTC, in which the eastern reader's day changes
first and the two readers are a day apart; impossible days and one of the year 26
among what is sent. Clocks are assumed to be past 1970 and short of the year
10000, which the code's four digits cannot write. Memory: two calls, two
attempts.

`DateUTC` is `Date.UTC` as `toUtcDate` calls it, years 0 to 99 of the 1900s
included; `DayNumber` is the calendar without that. So `DueMeansWhatWasWritten`
asks for the very day only if its year is past 99, and for the right badge of
whatever day is shown.

Fairness, for `Presence` alone. Its handlers run to their end (`WF`), an open
page sends its heartbeats and no two in a row are lost (`WF` of sending or
losing one, and the guard of the latter), and time is never shut out by pings
that somebody sends without end (`SF(Tick)`). Nobody has to come, go or crash.
`Delay` bounds how late a heartbeat is written; without it no TTL is enough.

The four refinements are checked by TLC as `PROPERTY`: the two `StoreSpec`,
`Abstract!WindowSpec` with `allowed` the hits that the next event will leave, and
`Atomic!AtomicSpec` with the board being the tables between calls, and during a
call the copy taken before it.

### Findings

5. `addMember` refuses to add an owner but not to add the owner: its upsert
   writes the new role over the owner's own. The migration says "A board has
   exactly one owner" (`migration.sql:68`), and `boards.service.ts:244` that only
   `updateMemberRole` can demote one.

## Remarks

Met while reading, without a run of their own:

- `runAction` catches what `requireUser` throws to redirect, so a form sent
  without a session says "Something went wrong: NEXT_REDIRECT", though
  `session.ts:34` and `action-result.ts:13` say that redirects are never wrapped;
  and "Nothing was saved" (`action-result.ts:37`) is also said of a call that
  was committed and whose answer was lost.
- `use-board-socket.ts:126` takes an empty token for an ended session; a fetch
  that fails gives one too, and a socket refused in the handshake is not retried
  by socket.io-client, unlike `realtime-token/route.ts:17` says
  (`HandshakeRefused`). A `board.join` that fails is reported and not tried again
  either (`JoinFails`): the page stays connected and outside the room, with a
  refused drop on it if the ack was lost with the last socket, though
  `use-board-socket.ts:63` says "A reconnect re-joins and takes a fresh
  `board.state`", so that the board will not "look connected and receive nothing".
- `day` and the schema of the wire accept the years 0 to 99, and `Date.UTC`
  takes them for 1900 to 1999: `0026-03-01` is shown as 1 March 1926 (`DateUTC`).
  `day.ts:11` promises "no arithmetic that can shift it"; the remark at
  `day.ts:116` knows of the remapping, for a string that `day` refuses.
- `health.ts:94`: a round trip that times out never reaches its `finally`, so
  its listener stays; and the first of two probes to finish unsubscribes the
  other, which then reports a healthy gateway as degraded.
- A join that finishes after its socket has closed leaves an entry until the
  TTL; shutdown does not wait for the cleanup it starts (`main.ts:153`).
- `board-client.tsx:119` says "computed once per render", but the memo keeps
  today until the page is mounted again: badges of a board left open past
  midnight are yesterday's.
- `memory-repository.ts` speaks of work done against a copy; it is done in
  place, and a failing call puts the copy back.
- A `list.created` that arrives after `list.archived` brings the column back
  until the next snapshot. Two concurrent `archiveList` calls both succeed and
  both write a line. Lines of the feed that fall between rendering and joining,
  or into a disconnect, do not appear until the page is loaded again.
- The doc of `removeMember` lets everyone else remove themselves; `require` lets
  only the owner. The role is read before the transaction: `move.ts:92` calls
  that an answer "that cannot change within one call".
- The limiter takes `Date.now` to be monotone; the clocks of two replicas are
  part of `Delay`. `boundsFor`, `needsRebalance`, `rebalance` and `firstKey` have
  no caller.

## What is proved

Each theorem holds for every value of the constants that satisfies the
assumptions of its modules: any number of requests, cards, lists, people, pages,
replicas and attempts, any key range, any page size. The lemmas are in the
modules; a comment above each says what it is for.

### CardWrites

Assumed of the constants: requests are finitely many; names do not clash;
the seeded cards have distinct positions, and the card a request will create has
no row, at version 0; `MaxAttempts` is positive.

| theorem | says |
| --- | --- |
| `TypeCorrect` | every variable keeps its type, and every request holds what its place in the code implies |
| `Invariant` | the inductive invariant `Safe` |
| `PositionsUnique`, `NoUpdateLost`, `LockedRowsHold` | `[]UniquePosition`, `[]NoLostUpdate`, `[]LockedReadHolds` |
| `ArchivedStays`, `FromListTrue` | `ArchivedIsFinal` and `FromListIsTrue`, action properties |
| `KeptInvariant` | `[]AllKept`, what carries the next two |
| `KeepsPromise` | `Spec => StoreSpec`: the transactions implement `CardStore` |
| `LandsWhereAsked` | `LandsBelowAnchor`, an action property |
| `VersionsCount` | `[]VersionCountsAnswers` |
| `ArchivedRefused` | `ClosedBeforeTheLook`, the limit of finding 2 |
| `WaitsEnd` | `[]NobodyWaitsInVain` |

None of the properties is inductive. `UniquePosition` alone says nothing of keys
that a transaction has in the index and has not committed; `NoLostUpdate` alone
nothing of a transaction that is about to commit. `Safe` is `UniquePosition`,
`NoLostUpdate` and, of each request, `Good(r)`, what its uncommitted work may
rely on:

- `Unborn`: the card that a createCard will insert has no row before its commit;
- `Aged`: the version a caller expects is at most the row's, and below it once
  the call has succeeded, so that no second call with it can succeed;
- `SeenTrue`: the row that was read has the version it had, as long as the
  version has not moved on;
- `HoldsRow`, `WritesCard`: who has written a card holds its row lock, found
  the expected version there, and has written its successor;
- `ReadsHold`: what a lock read has returned is still in the table, and its
  reader holds the lock on it;
- `KeyReserved`: a key that is in the index uncommitted belongs to no committed
  row and to no other transaction.

A step moves one request. What it changes of that request is shown action by
action; `OthersGood` shows that no other request's `Good` can break unless the
step changes `row`, which only `Commit` does: there the lock on the written row
and the reserved key are what keep the others true.

The refinement needs what `Safe` does not say: that a check made in one statement
still holds when the transaction commits in a later one. `Kept(r)` has it: the
list that `findList` accepted is not foreign, the wanted key is strictly between
the bounds of the request's own lock read, an edit's row was live. A commit is
then one `Apply` of `CardStore` (`CommitApplies`), a refusal one `Refuse`, every
other step a stutter. `LandsBelowAnchor` is `Kept` together with `ReadsHold`,
and a least sibling above the anchor (`UpperIsNearest`).
`VersionCountsAnswers` is a count of requests: exactly one request is added to
those answered OK by a commit, and that commit adds one to the version
(`CountGrows`, from the cardinality theorems).

`WaitsEnd` is a fact about graphs applied to an invariant. The fact
(`SomebodyGoesOn`): in a finite set of transactions that holds all that its
members wait for, somebody waits for nobody or is in a cycle. The invariant
(`HoldersInTx`): a lock is held only by a transaction under way. It is as much of `EveryRequestAnswered` as needs no fairness.
`ArchivedRefused` follows a request from the archiving of its list: it stays
before `findList`, or has been refused, whatever attempt it is in.

### BoardSync

Assumed: what `CardStore` assumes; every client has a replica, every request
an owner.

| theorem | says |
| --- | --- |
| `TypedAlways`, `BoardTypes` | the types, and what each place of a request and of a join implies |
| `AlwaysInSync` | the inductive invariant `InSync` |
| `ShownOnce`, `FreshStays` | `[]NoCardTwice`, `[]FreshViewHolds` |
| `NoStepBack` | `VersionsRise`, an action property |
| `RefusedHeeded` | `[]RefusedDropHeeded`, for any number of faults |

`FreshViewHolds` relates a screen to the tables while anything may be under way,
so the invariant speaks of everything that can reach a screen. `Now` is a record
of the tables. `Sound(v, Now)`: a board that is shown, on its way in a
`board.state`, held by a join or by a refetch has each card once, only in columns
it has, and if it was read from the tables as they are it is right about every
card. `HalfRead`: the same between the two selects. `Honest(m, Now)`: a message
tells a card at a version that is not above the row's, and with the row's
contents if it is the row's version; what it says is archived is. A commit makes
messages old and never false (`CommitSucceeds`, `HonestLater`), and the reducer
takes a sound board and an honest message to a sound board (`ReduceSound`, a
lemma for each event). That is the argument that `board-state.ts` makes in
comments, event by event.

`RefusedHeeded` has an invariant of its own, `Tended`. That a join or a refetch
undoes a drop needs that no board on its way carries one (`NoDropTravels`: an
optimistic move is in one browser only). That an ack which says OK may settle a
drop needs that it says so only of what was carried out (`AcksTrue`). `Heeded(r)`
then follows request `r` through its life, in which the duty to undo the drop
passes from the socket the request was sent on to the refusing ack, from the ack
to the refetch, and from whatever a lost connection took away to the next join.
There the duty may end: a failed handshake or join makes the page `CutOff`, and
`Heeded` says that this, or a refetch that failed, is the only way in which it
ends before the drop is gone.

### Membership

Assumed: the creator is the one owner at the start; pages are opened by members;
`None` is nothing else.

| theorem | says |
| --- | --- |
| `MembershipTypes` | `[]TypeOK` |
| `OwnerKeeps`, `LogExplains`, `SuccessWasPermitted` | `[]OwnerKeepsBoard`, `[]LogExplainsRoster`, `[]PermittedMeanwhile` |
| `RefusedIsNoMember` | `CommittedThenRefused`, an action property |
| `PagesConverge` | `[]RosterConverges` |

`MemberInv` keeps `Story` (the lines about a person have a last one, and it gives
the role; the owner is the creator) with `Honest(r)` of each request: whoever is
past the role check had the role at a line since asking, and whoever is about to
change the creator's row has read that it is not an owner's, which needs a line
that made it so. The guard that keeps the owner is therefore carried through a
read outside the transaction by the log. `RosterInv` is about announcements:
of the members and of the name, there is a last write, and either somebody who
has read it or later is about to announce it, or it has been announced and is
the newest on every live page's way (`ToldSince`); whoever would announce less
would be late and is what `tidy` excludes.

### ListWrites and ActivityFeed

Assumed: the lists that are there at the start have distinct positions; each
request that creates has an id of its own; ids of lines are distinct; a page has
at least one line.

| theorem | says |
| --- | --- |
| `TableInvariant` | the inductive invariant of the table |
| `ListOrderIsTotal`, `ColumnsNotTakenBack`, `ClosedMeansClosed` | `[]ListPositionsUnique`, `[]EachColumnLastWritten`, `[]ClosedListsTakeNoNews` |
| `ListReadsHold` | `[]AllTrue`: what a lock read returned stays so until its transaction ends |
| `ListsKeepPromise` | `Spec => StoreSpec`: the transactions implement `ListStore` |
| `FeedTypes`, `FeedInvariant` | `[]TypeOK`; `[](TypeOK /\ FeedInv)` |
| `PagesGoBack`, `NothingSkipped`, `CursorIsUseful` | `[]PagesDescend`, `[]PagesSkipNothing`, `[]CursorLeadsSomewhere` |
| `OnlyCommittedIsShown`, `NothingShownTwice` | `[]ShownIsCommitted`, `[]NothingTwice` |
| `ColumnsCatchUp` | `[]ColumnsConverge` |

`TableInv` has the three properties of the table and `Fine(r)` of each
transaction: the list it names is there (`Named`), one that it will insert is not
(`Unborn`); a move has locked its list by the time it writes (`Locked`); what is
about to be committed is the row as it stands, under its lock, but for the columns
that the request writes (`Holds`); its key is nobody else's (`KeyReserved`); a list
that has been found was not archived when the request came (`Timely`); and it is in
the journal from its commit on (`Journaled`). `Holds` is why a rename cannot take
back a move that commits while the rename waits.

The refinement needs `AllTrue` besides: a sibling that a lock read has returned is
as it was read, and locked by the reader (`ReadTrue`), and a wanted position is
below the list it was to follow, which is among those read (`PlacedAbove`). With
these a commit is one `Apply` of `ListStore` (`CommitApplies`) and an answer one
`Reply`; every other step stutters.

`FeedInv` says of the reader who pages that the lines of the first snapshot are
those already read or those older than the cursor (`Reading`), from which both
halves of the paging argument follow, and of the page that whatever is shown or
on its way is committed (`Showing`). `Converging` relates a page to the journal:
the row of a list is what its last writer wrote (`History`), a column shows the
row as it was after what the page has heard of it, if that is a beginning of
what was written (`InStep`), and the rest is on its way (`ToBeTold`).

### The services

| theorem | says | invariant |
| --- | --- | --- |
| `GreenIsHeard` | `[]GreenMeansHeard` | who is in `finally`, or has its adapter ok, has heard its own nonce |
| `DeniedHasCause`, `SignOutReaches` | `[]DeniedForCause`; `SignOutHolds`, an action property | without a session, every token that may still be shown is at least as old as the sign-out; a token shown in a handshake is fresh or none |
| `HeartbeatKeeps` | `[]OneLostHeartbeatKeepsYou` | the age of an entry and the time to the next heartbeat together stay within what one loss allows; no handler that is under way has read an entry as expired whose owner is there |
| `DueIsDue` | `[]DueMeansWhatWasWritten` | the column holds what `toUtcDate` makes of the day that was accepted, and what a page shows is what `fromUtcDate` makes of that, a day past the year 99; of a day past the year 99 this is the day itself (`KeptDay`) |
| `LimiterImplementsWindow` | `LimiterIsAWindow`: the step simulation of `SlidingWindow` | for every age, the hits at least as old are the first of the list, so that what the loop shifts off is what the window has lost |
| `MemoryImplementsAtomic` | `MemoryIsAtomic`: the step simulation of `AtomicBoard` | a transaction has done nothing before its checks have passed, and then one row with its labels (`Since`) |

Assumed: a token lives at least a tick; a TTL of more than two heartbeats also
has room for how late a heartbeat may be, and ages are counted past it; the limit is
a positive integer, as the constructor demands; zones are
integers, and clocks past 1970 and short of the year 10000; the seed of the repository is numbered from 1.

`Calendar` rests on a proof about the civil calendar itself: `DateAndDay` and
`DayAndDate` show that the day number and the triple determine each other, for
every day of every year, leap centuries included, and `NextDay` that the next
number is the next day. The proof splits a day into its era of 400 years, the
year in it and the day of that year (`EraSplit`, `YearOfEra`, `DayOfYear`), as
the algorithm of engines does.

## What is only model-checked

- Liveness: `EveryRequestAnswered`, `RefusedDropUndone`, `RosterSettles`. The
  prover does not handle fairness and `ENABLED` here.
- The five properties that comments promise and the code does not keep: TLC's
  counterexample is the result.

Everything else that a passing run checks is also proved.

## The plan

The modules and the runs are complete, and every safety property and refinement
has its theorem. What could still be done:

1. State and prove the other limit of a violated property: which adjacency
   survives a lock read that misses rows. (Which cards can come into an archived
   list is `ArchivedRefused`.)
2. Shorten the proofs that grew with the model: the typing lemmas of
   `BoardSyncProofs` and `ListWritesProofs` share much.

## Not modelled

Nothing that any of these decide is state another component reads: rendering
and styling; filters and keyboard moves of the board page; HTTP routing,
validation of configuration and of payloads, logging; password hashing; the
characters of ordering keys and the ordering helpers without a caller; wording
(`formatDay`, `dueLabel`, `relative`); the cache methods of `RedisService`, which
nothing calls; `presence.clear`, for tests and the seed; the seed; build, CI and
deployment scripts. Signatures and hashes are taken to be sound.
