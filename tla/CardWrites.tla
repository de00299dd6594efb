------------------------------ MODULE CardWrites ------------------------------
(***************************************************************************)
(* moveCard, createCard, updateCard, archiveCard and archiveList of        *)
(* services/board-ops, run concurrently through PrismaBoardRepository      *)
(* (services/board-store) against Postgres.                                *)
(*                                                                         *)
(* Every request is a process of its own: the REST API and each gateway    *)
(* replica call the operations directly, so nothing but the database       *)
(* orders two of them. A step is one SQL statement, or the part of one     *)
(* between two waits. The permission check that precedes the transaction   *)
(* reads nothing this module changes: only admitted requests appear here.  *)
(*                                                                         *)
(* Postgres runs at READ COMMITTED, Prisma's default:                      *)
(*   - each statement sees what was committed when it began;               *)
(*   - SELECT .. FOR UPDATE takes its rows from that snapshot, locks them  *)
(*     in snapshot order and, after waiting, re-checks the WHERE clause on *)
(*     the newest version of the row: it drops a row that has left the     *)
(*     list and never learns of one that has come into it;                 *)
(*   - UPDATE .. WHERE version = v waits for the row, then re-checks;      *)
(*   - a unique index makes a writer wait for any open transaction that    *)
(*     holds or vacates the same key, and refuses a committed duplicate;   *)
(*   - a cycle of waits is broken by failing one transaction in it.        *)
(***************************************************************************)
EXTENDS CardStore, WaitGraph

CONSTANTS
  MaxAttempts,  \* MOVE_RETRY_ATTEMPTS
  Jitter        \* bound: how many keys jitter chooses from in one gap

ASSUME MaxAttemptsAssumption == MaxAttempts \in Nat \ {0}
ASSUME JitterAssumption == Jitter \in Nat

VARIABLES
  pc,       \* where request r is
  attempt,  \* which attempt of the retry loop it is in
  seen,     \* the card as findCard returned it to this attempt
  todo,     \* rows of the lock read's snapshot that are still to be locked
  read,     \* rows the lock read has returned so far
  want,     \* the version of the row this transaction is writing
  lock      \* lock[x]: the request whose transaction holds the row lock on x

txVars == <<pc, attempt, seen, todo, read, want, lock>>

vars == <<row, closed, inp, ans, pc, attempt, seen, todo, read, want, lock>>

(* A row as the lock read sees it.                                         *)
Entry == [id : Card, pos : 0 .. MaxKey - 1, state : {"absent", "live", "archived"}]

PC == {"idle", "start", "lists", "lock", "locking", "row", "key", "commit", "done"}

InTx(r) == pc[r] \notin {"idle", "done"}

TypeOK ==
  /\ StoreTypeOK
  /\ pc \in [Request -> PC]
  /\ attempt \in [Request -> 0 .. MaxAttempts]
  /\ seen \in [Request -> Row \union {None}]
  /\ todo \in [Request -> SUBSET Entry]
  /\ read \in [Request -> SUBSET Entry]
  /\ want \in [Request -> Row \union {None}]
  /\ lock \in [Card \union List -> Request \union {None}]

Init ==
  /\ StoreInit
  /\ pc = [r \in Request |-> "idle"]
  /\ attempt = [r \in Request |-> 0]
  /\ seen = [r \in Request |-> None]
  /\ todo = [r \in Request |-> {}]
  /\ read = [r \in Request |-> {}]
  /\ want = [r \in Request |-> None]
  /\ lock = [x \in Card \union List |-> None]

-----------------------------------------------------------------------------
(* Ordering: services/ordering and resolveBounds.                          *)

(* keyBetween: some key strictly between the bounds. Keys are strings in a *)
(* dense order; here the gap's middle and the Jitter - 1 keys above it.    *)
KeyBetween(lower, upper) ==
  LET mid == (lower + upper) \div 2
  IN  {k \in Key : lower < k /\ k < upper /\ mid <= k /\ k < mid + Jitter}

(* The neighbour set: the card being moved and archived cards left out.    *)
Siblings(r) == {s \in read[r] : s.id # inp[r].card /\ s.state = "live"}

AnchorKnown(r) ==
  inp[r].after = None \/ \E s \in Siblings(r) : s.id = inp[r].after

(* No anchor means the top of the list for moveCard, where 0 is the null   *)
(* bound, and the end of the list for createCard.                          *)
Lower(r) ==
  IF inp[r].after # None
  THEN (CHOOSE s \in Siblings(r) : s.id = inp[r].after).pos
  ELSE IF inp[r].op = "move" \/ Siblings(r) = {} THEN 0
  ELSE (CHOOSE s \in Siblings(r) : \A t \in Siblings(r) : t.pos <= s.pos).pos

(* What follows the lower bound in the list as it was read.                *)
NextSibling(r) ==
  {s \in Siblings(r) : /\ s.pos > Lower(r)
                       /\ \A t \in Siblings(r) : t.pos > Lower(r) => s.pos <= t.pos}

(* Mutant: the upper bound is the neighbour the client named.              *)
UpperTrustingClient(r) ==
  LET named == {s \in Siblings(r) : s.id = inp[r].before}
  IN  IF named = {} THEN MaxKey ELSE (CHOOSE s \in named : TRUE).pos

Upper(r) == IF NextSibling(r) = {} THEN MaxKey ELSE (CHOOSE s \in NextSibling(r) : TRUE).pos

(* The flag moveCard returns: the second neighbour the client named is not *)
(* the card that follows the first in the list as it was read.             *)
Reconciled(r) ==
  inp[r].before # IF NextSibling(r) = {} THEN None ELSE (CHOOSE s \in NextSibling(r) : TRUE).id

-----------------------------------------------------------------------------
(* The database.                                                           *)

Grantable(x, r) == lock[x] \in {None, r}

(* Mutant: a failed or finished transaction is left open.                  *)
LeakedLocks(r) == lock

Released(r) == [x \in Card \union List |-> IF lock[x] = r THEN None ELSE lock[x]]

(* SELECT .. FOR UPDATE as opposed to SELECT.                              *)
PlainRead(x, r) == lock  \* mutant

LockForUpdate(x, r) == [lock EXCEPT ![x] = r]

NotBumped(c) == row[c].ver  \* mutant: the write forgets the version

(* version: { increment: 1 }                                               *)
Bumped(c) == row[c].ver + 1

(* Mutant: the version is compared only when the card is first read.       *)
VersionMatchedAtRead(r) == seen[r].ver = inp[r].expected

(* The conditional update's WHERE clause, on the newest committed version. *)
VersionMatches(r) == row[inp[r].card].ver = inp[r].expected

(* q's transaction has written a new version of card c, or is about to:    *)
(* the committed version is being deleted.                                 *)
Rewriting(q, c) ==
  pc[q] \in {"key", "commit"} /\ inp[q].op # "create" /\ inp[q].card = c

SameKey(a, b) == a.list = b.list /\ a.pos = b.pos

(* Mutant: entries that are not committed yet are overlooked.              *)
KeyRewriters(r) ==
  {q \in Request \ {r} :
     \E c \in Card : Rewriting(q, c) /\ row[c].state # "absent" /\ SameKey(row[c], want[r])}

(* The transactions whose outcome decides whether r's key is free: those   *)
(* rewriting the row that has it, and those that have put it in the index. *)
KeyBlockers(r) ==
  {q \in Request \ {r} :
     \/ \E c \in Card : /\ Rewriting(q, c)
                        /\ row[c].state # "absent"
                        /\ SameKey(row[c], want[r])
     \/ /\ pc[q] = "commit"
        /\ inp[q].op \in {"move", "create"}
        /\ SameKey(want[q], want[r])}

(* Mutant: the unique index leaves archived cards out.                     *)
KeyTakenByLive(r) ==
  \E c \in Card \ {inp[r].card} :
    /\ row[c].state = "live"
    /\ SameKey(row[c], want[r])
    /\ \A q \in Request : ~Rewriting(q, c)

(* A committed row that nobody is rewriting has r's key.                   *)
KeyTaken(r) ==
  \E c \in Card \ {inp[r].card} :
    /\ row[c].state # "absent"
    /\ SameKey(row[c], want[r])
    /\ \A q \in Request : ~Rewriting(q, c)

(* Rows are locked in the order of the snapshot's positions.               *)
FirstOf(entries) == {e \in entries : \A f \in entries : e.pos <= f.pos}

(* The row lock r's current statement needs next.                          *)
Needed(r) ==
  CASE pc[r] = "locking" /\ todo[r] # {}
         -> {e.id : e \in FirstOf(todo[r])}
    [] pc[r] = "locking" /\ todo[r] = {} /\ inp[r].op = "move" /\ AnchorKnown(r)
         -> {inp[r].card}
    [] pc[r] = "row" -> {IF inp[r].op = "archiveList" THEN inp[r].list ELSE inp[r].card}
    [] OTHER -> {}

WaitsFor(r) ==
  IF pc[r] = "key" THEN IF KeyTaken(r) THEN {} ELSE KeyBlockers(r)
  ELSE {lock[x] : x \in {y \in Needed(r) : ~Grantable(y, r)}}

Waits == [r \in Request |-> WaitsFor(r)]

InDeadlock(r) == InCycle(r, Waits)

-----------------------------------------------------------------------------
(* How an attempt ends. Every row lock goes, and nothing it wrote stays,   *)
(* unless it commits.                                                      *)

EndAttempt(r) ==
  /\ seen' = [seen EXCEPT ![r] = None]
  /\ todo' = [todo EXCEPT ![r] = {}]
  /\ read' = [read EXCEPT ![r] = {}]
  /\ want' = [want EXCEPT ![r] = None]
  /\ lock' = Released(r)

Answer(r, code) ==
  /\ ans' = [ans EXCEPT ![r] = code]
  /\ pc' = [pc EXCEPT ![r] = "done"]
  /\ attempt' = [attempt EXCEPT ![r] = 0]
  /\ inp' = inp
  /\ EndAttempt(r)

Fail(r, code) == Answer(r, code) /\ UNCHANGED <<row, closed>>

Goto(r, label) == pc' = [pc EXCEPT ![r] = label]

-----------------------------------------------------------------------------
(* The steps of a request.                                                 *)

Ask(r) ==
  /\ pc[r] = "idle"
  /\ Submit(r)
  /\ Goto(r, "start")
  /\ attempt' = [attempt EXCEPT ![r] = 1]
  /\ UNCHANGED <<seen, todo, read, want, lock>>

(* findCard.                                                               *)
FindCard(r) ==
  /\ pc[r] = "start"
  /\ inp[r].op \in {"move", "update", "archive"}
  /\ \/ /\ row[inp[r].card].state # "live"
        /\ Fail(r, "NOT_FOUND")
     \/ /\ row[inp[r].card].state = "live"
        /\ seen' = [seen EXCEPT ![r] = row[inp[r].card]]
        /\ Goto(r, "lists")
        /\ UNCHANGED <<storeVars, attempt, todo, read, want, lock>>

(* Mutant: a retry does not look at the lists again.                       *)
ListGoneAtFirst(r) ==
  /\ inp[r].op \in {"move", "create", "archiveList"} /\ inp[r].list \in closed
  /\ attempt[r] = 1

(* The early returns after the findList calls, in the code's order.        *)
ListGone(r) ==
  inp[r].op \in {"move", "create", "archiveList"} /\ inp[r].list \in closed

OtherBoard(r) ==
  \/ inp[r].op \in {"move", "create", "archiveList"} /\ inp[r].list \in ForeignList
  \/ inp[r].op \in {"move", "update", "archive"} /\ seen[r].list \in ForeignList

ViewOutdated(r) ==
  inp[r].op \in {"move", "update"} /\ seen[r].ver # inp[r].expected

ListCheck(r) ==
  IF ListGone(r) THEN "NOT_FOUND"
  ELSE IF OtherBoard(r) THEN "INVALID"
  ELSE IF ViewOutdated(r) THEN "STALE"
  ELSE "OK"

(* findList, of the destination and of the origin, and the version check.  *)
FindLists(r) ==
  /\ \/ pc[r] = "start" /\ inp[r].op \in {"create", "archiveList"}
     \/ pc[r] = "lists"
  /\ \/ /\ ListCheck(r) # "OK"
        /\ Fail(r, ListCheck(r))
     \/ /\ ListCheck(r) = "OK"
        /\ Goto(r, IF inp[r].op \in {"move", "create"} THEN "lock" ELSE "row")
        /\ UNCHANGED <<storeVars, attempt, seen, todo, read, want, lock>>

(* SELECT .. FOR UPDATE begins: the snapshot. Archived rows are in it.     *)
StartLockRead(r) ==
  /\ pc[r] = "lock"
  /\ todo' = [todo EXCEPT ![r] =
       {[id |-> c, pos |-> row[c].pos, state |-> row[c].state] :
          c \in {d \in Card : row[d].state # "absent" /\ row[d].list = inp[r].list}}]
  /\ Goto(r, "locking")
  /\ UNCHANGED <<storeVars, attempt, seen, read, want, lock>>

(* .. and locks the next row, waiting for whoever holds it, then reads its *)
(* newest version if it is still in the list.                              *)
LockNextRow(r) ==
  /\ pc[r] = "locking"
  /\ \E e \in FirstOf(todo[r]) :
       /\ Grantable(e.id, r)
       /\ lock' = LockForUpdate(e.id, r)
       /\ todo' = [todo EXCEPT ![r] = todo[r] \ {e}]
       /\ read' = [read EXCEPT ![r] =
            IF row[e.id].list # inp[r].list THEN read[r]
            ELSE read[r] \union
                 {[id |-> e.id, pos |-> row[e.id].pos, state |-> row[e.id].state]}]
  /\ UNCHANGED <<storeVars, pc, attempt, seen, want>>

(* resolveBounds and createCard's anchor lookup.                           *)
RefuseAnchor(r) ==
  /\ pc[r] = "locking"
  /\ todo[r] = {}
  /\ ~AnchorKnown(r)
  /\ Fail(r, "INVALID")

(* tx.moveCard: the key is generated and the conditional UPDATE takes the  *)
(* card's row; a count of zero is STALE.                                   *)
WriteMove(r) ==
  LET c == inp[r].card
  IN  /\ pc[r] = "locking"
      /\ todo[r] = {}
      /\ inp[r].op = "move"
      /\ AnchorKnown(r)
      /\ Grantable(c, r)
      /\ \/ ~VersionMatches(r) /\ Fail(r, "STALE")
         \/ /\ VersionMatches(r)
            /\ \E k \in KeyBetween(Lower(r), Upper(r)) :
                 want' = [want EXCEPT ![r] =
                   [list |-> inp[r].list, pos |-> k, ver |-> Bumped(c),
                    state |-> row[c].state]]
            /\ lock' = [lock EXCEPT ![c] = r]
            /\ Goto(r, "key")
            /\ UNCHANGED <<storeVars, attempt, seen, todo, read>>

(* tx.insertCard.                                                          *)
WriteCreate(r) ==
  /\ pc[r] = "locking"
  /\ todo[r] = {}
  /\ inp[r].op = "create"
  /\ AnchorKnown(r)
  /\ \E k \in KeyBetween(Lower(r), Upper(r)) :
       want' = [want EXCEPT ![r] =
         [list |-> inp[r].list, pos |-> k, ver |-> 0, state |-> "live"]]
  /\ Goto(r, "key")
  /\ UNCHANGED <<storeVars, attempt, seen, todo, read, lock>>

(* tx.updateCard and tx.archiveCard: list and position keep their values,  *)
(* so the unique index has nothing to refuse.                              *)
Rewrite(r) ==
  LET c == inp[r].card
  IN  /\ pc[r] = "row"
      /\ inp[r].op \in {"update", "archive"}
      /\ Grantable(c, r)
      /\ \/ ~VersionMatches(r) /\ Fail(r, "STALE")
         \/ /\ VersionMatches(r)
            /\ want' = [want EXCEPT ![r] =
                 [row[c] EXCEPT !.ver = Bumped(c),
                                !.state = IF inp[r].op = "archive" THEN "archived"
                                          ELSE row[c].state]]
            /\ lock' = [lock EXCEPT ![c] = r]
            /\ Goto(r, "commit")
            /\ UNCHANGED <<storeVars, attempt, seen, todo, read>>

(* tx.archiveList: by id alone, whatever has become of the list meanwhile. *)
CloseList(r) ==
  /\ pc[r] = "row"
  /\ inp[r].op = "archiveList"
  /\ Grantable(inp[r].list, r)
  /\ lock' = [lock EXCEPT ![inp[r].list] = r]
  /\ Goto(r, "commit")
  /\ UNCHANGED <<storeVars, attempt, seen, todo, read, want>>

(* The new row's index entry goes in.                                      *)
EnterIndex(r) ==
  /\ pc[r] = "key"
  /\ ~KeyTaken(r)
  /\ KeyBlockers(r) = {}
  /\ Goto(r, "commit")
  /\ UNCHANGED <<storeVars, attempt, seen, todo, read, want, lock>>

RetryPastCeiling(r) == attempt[r] <= MaxAttempts  \* mutant: one too many

(* The loop's bound.                                                       *)
MayRetry(r) == attempt[r] < MaxAttempts

(* 23505 on (list_id, position): the whole transaction is run again, until *)
(* the attempts are used up.                                               *)
Collide(r) ==
  /\ pc[r] = "key"
  /\ KeyTaken(r)
  /\ \/ /\ MayRetry(r)
        /\ attempt' = [attempt EXCEPT ![r] = attempt[r] + 1]
        /\ Goto(r, "start")
        /\ EndAttempt(r)
        /\ UNCHANGED storeVars
     \/ /\ ~MayRetry(r)
        /\ Fail(r, "CONFLICT")

(* applyLabels, after the card is written: an unknown label undoes it.     *)
LabelsRefused(r) == inp[r].op \in {"create", "update"} /\ ~inp[r].labelsOk

RefuseLabels(r) ==
  /\ pc[r] = "commit"
  /\ LabelsRefused(r)
  /\ Fail(r, "INVALID")

Commit(r) ==
  /\ pc[r] = "commit"
  /\ ~LabelsRefused(r)
  /\ \/ /\ inp[r].op = "archiveList"
        /\ closed' = closed \union {inp[r].list}
        /\ row' = row
     \/ /\ inp[r].op # "archiveList"
        /\ row' = [row EXCEPT ![inp[r].card] = want[r]]
        /\ closed' = closed
  /\ Answer(r, "OK")

(* Postgres breaks a cycle of waits. Not a position collision, so the      *)
(* retry loop lets it through.                                             *)
DeadlockVictim(r) ==
  /\ InTx(r)
  /\ InDeadlock(r)
  /\ Fail(r, "INTERNAL")

(* $transaction's timeout and maxWait, at any point before the commit.     *)
TimeOut(r) == InTx(r) /\ Fail(r, "INTERNAL")

-----------------------------------------------------------------------------

Step(r) ==
  \/ FindCard(r)
  \/ FindLists(r)
  \/ StartLockRead(r)
  \/ LockNextRow(r)
  \/ RefuseAnchor(r)
  \/ WriteMove(r)
  \/ WriteCreate(r)
  \/ Rewrite(r)
  \/ CloseList(r)
  \/ EnterIndex(r)
  \/ Collide(r)
  \/ RefuseLabels(r)
  \/ Commit(r)
  \/ DeadlockVictim(r)

(* Nobody is in the middle of anything: the system may rest here.          *)
Quiet == (\A r \in Request : ~InTx(r)) /\ UNCHANGED vars

Next ==
  \/ \E r \in Request : Ask(r) \/ Step(r) \/ TimeOut(r)
  \/ Quiet

(* A transaction that can take its next step takes it: the process and the *)
(* database keep running. Callers and timeouts promise nothing.            *)
Spec == Init /\ [][Next]_vars /\ \A r \in Request : WF_vars(Step(r))
-----------------------------------------------------------------------------
(* Properties.                                                             *)

(* Two cards of one list, archived ones included, never share a position,  *)
(* however two writers of one gap interleave: UNIQUE (list_id, position).  *)
UniquePosition ==
  \A c, d \in Card :
    c # d /\ row[c].state # "absent" /\ row[d].state # "absent"
      => ~SameKey(row[c], row[d])

(* Of all the requests sent against one version of one card, at most one   *)
(* is answered OK: what the conditional update in tx.moveCard, updateCard  *)
(* and archiveCard is for.                                                 *)
NoLostUpdate ==
  \A q, r \in Request :
    /\ q # r
    /\ ans[q] = "OK"
    /\ ans[r] = "OK"
    /\ inp[q].op \in {"move", "update", "archive"}
    /\ inp[r].op \in {"move", "update", "archive"}
    /\ inp[q].card = inp[r].card
    => inp[q].expected # inp[r].expected

(* A card's version counts the requests on it that were answered OK: no    *)
(* refused, timed-out or retried attempt leaves a write behind, and no     *)
(* acknowledged one is missing.                                            *)
VersionCountsAnswers ==
  \A c \in Card :
    row[c].ver = InitRow[c].ver +
      Cardinality({r \in Request :
        /\ ans[r] = "OK"
        /\ inp[r].op \in {"move", "update", "archive"}
        /\ inp[r].card = c})

(* What the lock read of moveCard and createCard returned stays true until *)
(* the transaction ends: the bounds it computes are still the siblings'    *)
(* positions when the row is written.                                      *)
LockedReadHolds ==
  \A r \in Request : \A s \in read[r] :
    /\ row[s.id].list = inp[r].list
    /\ row[s.id].pos = s.pos
    /\ row[s.id].state = s.state

(* The step that makes r's new or moved card visible.                      *)
Places(r) ==
  pc[r] = "commit" /\ ans'[r] = "OK" /\ inp[r].op \in {"move", "create"}

(* A card that is moved or created below an anchor lands below it, the     *)
(* anchor being live in that list at that moment, and above every sibling  *)
(* the transaction read below the anchor: resolveBounds.                   *)
LandsBelowAnchor ==
  [][\A r \in Request : Places(r) /\ inp[r].after # None =>
       LET p == row'[inp[r].card].pos
           q == row[inp[r].after].pos
       IN  /\ Below(inp[r].after, inp[r].list, p)
           /\ \A s \in Siblings(r) : s.pos > q => row[s.id].pos > p]_vars

(* The fromListId that moveCard returns, and the broadcast carries, is the *)
(* list the card is in until the very step that moves it.                  *)
FromListIsTrue ==
  [][\A r \in Request : Places(r) /\ inp[r].op = "move" =>
       row[inp[r].card].list = seen[r].list]_vars

(* No interleaving of a move or an edit with an archiving changes, or      *)
(* brings back, a card once it is archived.                                *)
ArchivedIsFinal ==
  [][\A c \in Card : row[c].state = "archived" => row'[c] = row[c]]_vars

(* Nobody waits in vain: among those whom a waiting request waits for,     *)
(* directly or not, there is always a transaction under way that waits for *)
(* nobody, or that is in a cycle, which Postgres will break. No row lock,  *)
(* and no entry of the index, is left behind by a request that has ended.  *)
NobodyWaitsInVain ==
  \A r \in Request : \A T \in SUBSET Request :
    WaitsFor(r) # {} /\ WaitsFor(r) \subseteq T /\ ClosedUnder(T, Waits) =>
      \E q \in T : InTx(q) /\ (WaitsFor(q) = {} \/ InDeadlock(q))

(* Request r, once it has a look ahead at a list that is archived.         *)
RefusedIfClosed(r) ==
  [](/\ pc[r] \in {"start", "lists"}
     /\ inp[r].op \in {"move", "create", "archiveList"} /\ inp[r].list \in closed
     => [](ans[r] # "OK"))

(* A list that is archived by the time a move or a creation into it looks, *)
(* in its first attempt or in a later one, refuses it for good: only what  *)
(* has passed findList already can still come in (NeverIntoArchivedList).  *)
ClosedBeforeTheLook == \A r \in Request : RefusedIfClosed(r)

(* Every request that is made is answered in the end, whatever it waits    *)
(* for and however often its key collides.                                 *)
EveryRequestAnswered ==
  \A r \in Request : pc[r] = "start" ~> pc[r] = "done"

-----------------------------------------------------------------------------
(* What the sources say of the lock and of archived lists, and the code    *)
(* does not do.                                                            *)

(* "the second waits and then reads the list as the first left it"         *)
(* (ports.ts): when the lock read returns, it has returned the list's      *)
(* committed rows, all of them.                                            *)
LockReadIsCurrent ==
  [][\A r \in Request :
       pc[r] = "locking" /\ todo[r] # {} /\ todo'[r] = {} /\ pc'[r] = "locking" =>
         {e.id : e \in read'[r]} =
           {c \in Card : row[c].state # "absent" /\ row[c].list = inp[r].list}]_vars

(* A card never enters a list that is archived: moveCard and createCard    *)
(* refuse an archived destination.                                         *)
NeverIntoArchivedList ==
  [][\A c \in Card : row'[c].list # row[c].list => row'[c].list \notin closed]_vars
=============================================================================
