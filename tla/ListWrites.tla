----------------------------- MODULE ListWrites -----------------------------
(***************************************************************************)
(* createList, updateList, moveList and archiveList of services/board-ops, *)
(* run concurrently through PrismaBoardRepository, and the activity line   *)
(* that each of them appends in its transaction. The database behaves as   *)
(* described in CardWrites; here the rows are those of the lists table.    *)
(*                                                                         *)
(* A list has no version. moveList and createList lock every list of the   *)
(* board; updateList and archiveList write by id, and wait only for the    *)
(* row they write. Requests have been admitted (Membership).               *)
(***************************************************************************)
EXTENDS ListStore, WaitGraph

CONSTANTS
  Jitter,       \* bound: how many keys jitter chooses from in one gap
  MaxAttempts,  \* MOVE_RETRY_ATTEMPTS
  MaxTime,      \* bound: the clock's last value
  MaxFaults     \* bound: how many things go wrong

ASSUME BoundsAssumption ==
  /\ MaxKey \in Nat
  /\ MaxAttempts \in Nat \ {0}
  /\ MaxTime \in Nat
  /\ MaxFaults \in Nat

VARIABLES
  line,     \* line[r]: the activity line r has appended, committed or not
  clock,    \* the database's clock
  pc, attempt,
  begun,    \* how many had committed when the request was sent
  todo,     \* rows of the lock read's snapshot that are still to be locked
  read,     \* rows the lock read has returned so far
  want,     \* the row this transaction has written and not yet committed
  lock,     \* lock[l]: the request whose transaction holds the row lock on l
  faults

tx == <<todo, read, want, lock>>

writeVars == <<list, line, journal, clock, inp, ans, pc, attempt, begun, todo, read, want, lock,
               faults>>

WriteTypeOK ==
  /\ list \in [List -> Row]
  /\ line \in [Request -> 0 .. MaxTime \union {None}]
  /\ journal \in Seq(Request)
  /\ clock \in 0 .. MaxTime
  /\ inp \in [Request -> Input \union {None}]
  /\ ans \in [Request -> Code \union {None}]
  /\ pc \in [Request -> {"idle", "find", "lock", "locking", "write", "commit", "tell", "done"}]
  /\ attempt \in [Request -> 0 .. MaxAttempts]
  /\ begun \in [Request -> Nat]
  /\ todo \in [Request -> SUBSET Row]
  /\ read \in [Request -> SUBSET Row]
  /\ want \in [Request -> Row \union {None}]
  /\ lock \in [List -> Request \union {None}]
  /\ faults \in 0 .. MaxFaults
  /\ \A r \in Request : /\ pc[r] = "idle" <=> inp[r] = None
                        /\ pc[r] = "done" <=> ans[r] # None
                        /\ pc[r] \in {"commit", "tell"} => want[r] # None
                        /\ pc[r] \in {"idle", "tell", "done"} => \A l \in List : lock[l] # r

WriteInit ==
  /\ StoreInit
  /\ line = [r \in Request |-> None]
  /\ clock = 0
  /\ pc = [r \in Request |-> "idle"]
  /\ attempt = [r \in Request |-> 0]
  /\ begun = [r \in Request |-> 0]
  /\ todo = [r \in Request |-> {}]
  /\ read = [r \in Request |-> {}]
  /\ want = [r \in Request |-> None]
  /\ lock = [l \in List |-> None]
  /\ faults = 0

-----------------------------------------------------------------------------
(* The database.                                                           *)

(* Mutant: a transaction that ends keeps its row locks.                    *)
LeakedLocks(r) == lock

Released(r) == [l \in List |-> IF lock[l] = r THEN None ELSE lock[l]]

Grantable(l, r) == lock[l] \in {None, r}

(* UNIQUE (board_id, position), over archived lists as well.               *)
KeyTaken(k, l) == \E m \in List \ Foreign : m # l /\ OnBoard(m) /\ list[m].pos = k

(* Another transaction that has written a row with this key, or is about   *)
(* to take it from the row that has it: whom the index makes wait for.     *)
KeyPending(k, r) ==
  \E q \in Request \ {r} :
    /\ pc[q] = "commit" /\ inp[q].op \in {"create", "move"}
    /\ want[q].pos = k \/ (inp[q].op = "move" /\ list[want[q].id].pos = k)

Goto(r, l) == pc' = [pc EXCEPT ![r] = l]

EndAttempt(r) ==
  /\ todo' = [todo EXCEPT ![r] = {}]
  /\ read' = [read EXCEPT ![r] = {}]
  /\ lock' = Released(r)

(* The transaction is rolled back, its activity line with it.              *)
Fail(r, code) ==
  /\ EndAttempt(r)
  /\ want' = [want EXCEPT ![r] = None]
  /\ line' = [line EXCEPT ![r] = None]
  /\ ans' = [ans EXCEPT ![r] = code]
  /\ Goto(r, "done")

-----------------------------------------------------------------------------
(* The operations.                                                         *)

First(op) == IF op = "create" THEN "lock" ELSE "find"

(* createList and updateList refuse a limit below 1 before they begin. A   *)
(* list can be named once it has been there.                               *)
Ask(r) ==
  /\ pc[r] = "idle"
  /\ \E i \in {j \in Offered : j.list = None \/ list[j.list].state # "absent"} :
       /\ inp' = [inp EXCEPT ![r] = i]
       /\ IF i.wip
          THEN Goto(r, First(i.op)) /\ attempt' = [attempt EXCEPT ![r] = 1] /\ UNCHANGED ans
          ELSE Goto(r, "done") /\ ans' = [ans EXCEPT ![r] = "INVALID"] /\ UNCHANGED attempt
  /\ begun' = [begun EXCEPT ![r] = Len(journal)]
  /\ UNCHANGED <<list, line, journal, clock, tx, faults>>

(* Mutant: an archived list is found as well.                              *)
GoneIfAbsent(l) == list[l].state = "absent"

Gone(l) == list[l].state # "live"

FindList(r) ==
  LET l == inp[r].list
  IN  /\ pc[r] = "find"
      /\ IF Gone(l) THEN Fail(r, "NOT_FOUND")
         ELSE IF l \in Foreign THEN Fail(r, "INVALID")
         ELSE Goto(r, IF inp[r].op = "move" THEN "lock" ELSE "write") /\ UNCHANGED <<ans, line, tx>>
      /\ UNCHANGED <<list, journal, clock, inp, attempt, begun, faults>>

(* SELECT .. FROM lists WHERE board_id ORDER BY position FOR UPDATE.       *)
StartLockRead(r) ==
  /\ pc[r] = "lock"
  /\ todo' = [todo EXCEPT ![r] = {list[l] : l \in {m \in List : OnBoard(m)}}]
  /\ Goto(r, "locking")
  /\ UNCHANGED <<list, line, journal, clock, inp, ans, attempt, begun, read, want, lock, faults>>

FirstOf(rows) == {s \in rows : \A t \in rows : s.pos <= t.pos}

(* The rows are locked in the snapshot's order and returned as they are.   *)
LockNextRow(r) ==
  /\ pc[r] = "locking"
  /\ IF todo[r] = {}
     THEN Goto(r, "write") /\ UNCHANGED <<todo, read, lock>>
     ELSE \E s \in FirstOf(todo[r]) :
            /\ Grantable(s.id, r)
            /\ lock' = [lock EXCEPT ![s.id] = r]
            /\ todo' = [todo EXCEPT ![r] = @ \ {s}]
            /\ read' = [read EXCEPT ![r] = @ \union {list[s.id]}]
            /\ UNCHANGED pc
  /\ UNCHANGED <<list, line, journal, clock, inp, ans, attempt, begun, want, faults>>

(* Mutant: an archived list may be dropped below.                          *)
SiblingsOrArchived(r) == {s \in read[r] : s.id # inp[r].list}

Siblings(r) == {s \in read[r] : s.state = "live" /\ s.id # inp[r].list}

AnchorKnown(r) == inp[r].after = None \/ \E s \in Siblings(r) : s.id = inp[r].after

Highest(rows) == IF rows = {} THEN 0 ELSE (CHOOSE s \in rows : \A t \in rows : t.pos <= s.pos).pos

(* No anchor means the end of the board for createList, its start for      *)
(* moveList.                                                               *)
Lower(r) ==
  IF inp[r].after # None THEN Highest({s \in Siblings(r) : s.id = inp[r].after})
  ELSE IF inp[r].op = "create" THEN Highest(Siblings(r)) ELSE 0

Upper(r) ==
  LET above == {s \in Siblings(r) : s.pos > Lower(r)}
  IN  IF above = {} THEN MaxKey ELSE (CHOOSE s \in FirstOf(above) : TRUE).pos

KeyBetween(lower, upper) ==
  LET mid == (lower + upper) \div 2
  IN  {k \in Key : lower < k /\ k < upper /\ mid <= k /\ k < mid + Jitter}

RefuseAnchor(r) ==
  /\ pc[r] = "write" /\ inp[r].op \in {"create", "move"} /\ ~AnchorKnown(r)
  /\ Fail(r, "INVALID")
  /\ UNCHANGED <<list, journal, clock, inp, attempt, begun, faults>>

(* The statement has been carried out and the activity line appended, with *)
(* the time it then is; neither can be seen before the commit.             *)
Wrote(r, row) ==
  /\ want' = [want EXCEPT ![r] = row]
  /\ line' = [line EXCEPT ![r] = clock]
  /\ Goto(r, "commit")

(* INSERT, or UPDATE .. SET position: each waits for the transactions that *)
(* hold its key in the index.                                              *)
Position(r) ==
  /\ pc[r] = "write" /\ inp[r].op \in {"create", "move"} /\ AnchorKnown(r)
  /\ \E k \in KeyBetween(Lower(r), Upper(r)) :
       LET l == IF inp[r].op = "create" THEN Fresh[r] ELSE inp[r].list
       IN  /\ ~KeyPending(k, r) /\ ~KeyTaken(k, l)
           /\ Wrote(r, IF inp[r].op = "create"
                       THEN [id |-> l, state |-> "live", pos |-> k, name |-> r, wip |-> r]
                       ELSE [list[l] EXCEPT !.pos = k])
           /\ lock' = [lock EXCEPT ![l] = r]
  /\ UNCHANGED <<list, journal, clock, inp, ans, attempt, begun, todo, read, faults>>

(* withPositionRetry: a committed row holds the key. A new attempt begins  *)
(* from nothing, up to the ceiling.                                        *)
Collide(r) ==
  /\ pc[r] = "write" /\ inp[r].op \in {"create", "move"} /\ AnchorKnown(r)
  /\ \E k \in KeyBetween(Lower(r), Upper(r)) :
       ~KeyPending(k, r) /\ KeyTaken(k, IF inp[r].op = "create" THEN Fresh[r] ELSE inp[r].list)
  /\ IF attempt[r] < MaxAttempts
     THEN /\ EndAttempt(r)
          /\ attempt' = [attempt EXCEPT ![r] = @ + 1]
          /\ Goto(r, First(inp[r].op))
          /\ UNCHANGED <<line, want, ans>>
     ELSE Fail(r, "CONFLICT") /\ UNCHANGED attempt
  /\ UNCHANGED <<list, journal, clock, inp, begun, faults>>

(* Mutant: every column is written, as the list was when the request came. *)
ChangedWhole(r) == [list[inp[r].list] EXCEPT !.name = r, !.wip = r]

(* Only the fields that were sent are written.                             *)
Changed(r) ==
  [list[inp[r].list] EXCEPT !.name = IF "name" \in inp[r].sets THEN r ELSE @,
                            !.wip = IF "wip" \in inp[r].sets THEN r ELSE @]

(* UPDATE .. WHERE id: once the row's lock is free, on its newest version, *)
(* whatever has become of the list since it was found.                     *)
Rewrite(r) ==
  LET l == inp[r].list
  IN  /\ pc[r] = "write" /\ inp[r].op \in {"update", "archive"} /\ Grantable(l, r)
      /\ lock' = [lock EXCEPT ![l] = r]
      /\ Wrote(r, IF inp[r].op = "update" THEN Changed(r)
                  ELSE [list[l] EXCEPT !.state = "archived"])
      /\ UNCHANGED <<list, journal, clock, inp, ans, attempt, begun, todo, read, faults>>

Commit(r) ==
  /\ pc[r] = "commit"
  /\ list' = [list EXCEPT ![want[r].id] = want[r]]
  /\ journal' = Append(journal, r)
  /\ EndAttempt(r)
  /\ Goto(r, "tell")
  /\ UNCHANGED <<line, clock, inp, ans, attempt, begun, want, faults>>

-----------------------------------------------------------------------------
(* Waiting.                                                                *)

(* Whom r's next statement waits for.                                      *)
WaitsFor(r) ==
  LET row == IF pc[r] = "locking" THEN {s.id : s \in FirstOf(todo[r])}
             ELSE IF pc[r] = "write" /\ inp[r].op \in {"update", "archive"} THEN {inp[r].list}
             ELSE {}
  IN  {lock[l] : l \in row} \ {None, r}

Waits == [r \in Request |-> WaitsFor(r)]

InDeadlock(r) == InCycle(r, Waits)

(* Postgres fails one of them, and nothing retries that.                   *)
DeadlockVictim(r) ==
  /\ InDeadlock(r)
  /\ Fail(r, "INTERNAL")
  /\ UNCHANGED <<list, journal, clock, inp, attempt, begun, faults>>

(* The transaction's timeout, or a connection lost.                        *)
TimeOut(r) ==
  /\ pc[r] \in {"find", "lock", "locking", "write", "commit"} /\ faults < MaxFaults
  /\ faults' = faults + 1
  /\ Fail(r, "INTERNAL")
  /\ UNCHANGED <<list, journal, clock, inp, attempt, begun>>

Tick ==
  /\ clock < MaxTime
  /\ clock' = clock + 1
  /\ UNCHANGED <<list, line, journal, inp, ans, pc, attempt, begun, tx, faults>>

InTransaction(r) ==
  \/ FindList(r) \/ StartLockRead(r) \/ LockNextRow(r) \/ RefuseAnchor(r) \/ Position(r)
  \/ Collide(r) \/ Rewrite(r) \/ DeadlockVictim(r) \/ TimeOut(r)

-----------------------------------------------------------------------------
(* What must hold of the table.                                            *)

(* Two lists of the board never share a position, archived ones included:  *)
(* the order of the columns is never left to chance.                       *)
ListPositionsUnique ==
  \A l, m \in List \ Foreign :
    l # m /\ list[l].state # "absent" /\ list[m].state # "absent" => list[l].pos # list[m].pos

(* The last of the committed requests in S, in commit order.               *)
LastOf(S) ==
  LET at == {k \in DOMAIN journal : journal[k] \in S}
  IN  IF at = {} THEN None ELSE journal[CHOOSE k \in at : \A j \in at : j <= k]

(* Lists have no version: the last write of each column stands, and never  *)
(* takes another column of the row back, however writes of the name, the   *)
(* limit, the position and the archiving interleave.                       *)
EachColumnLastWritten ==
  \A l \in List \ Foreign :
    LET by(op, f) == {r \in Request : /\ Committed(r) /\ want[r].id = l /\ inp[r].op = op
                                      /\ op = "update" => f \in inp[r].sets}
        made(f) == LastOf(by("create", f) \union by("update", f))
        place == LastOf(by("create", "pos") \union by("move", "pos"))
    IN  /\ list[l].name = made("name")
        /\ list[l].wip = made("wip")
        /\ list[l].pos = IF place = None THEN Start[l].pos ELSE want[place].pos
        /\ list[l].state = IF by("archive", "state") # {} THEN "archived"
                           ELSE IF by("create", "state") # {} THEN "live"
                           ELSE Start[l].state

(* A list is archived without a look at anything but its own row before    *)
(* the write. Whoever still renames, moves or archives it afterwards was   *)
(* sent before that archiving committed: there is no other way to a second *)
(* LIST_ARCHIVED line.                                                     *)
ClosedListsTakeNoNews ==
  \A j, k \in DOMAIN journal :
    j < k /\ inp[journal[j]].op = "archive" /\ want[journal[k]].id = want[journal[j]].id =>
      begun[journal[k]] < j
=============================================================================
