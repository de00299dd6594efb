--------------------------- MODULE ListWritesProofs ---------------------------
(***************************************************************************)
(* Why the list writes are safe, for any number of requests, lists, keys   *)
(* and attempts: their types, the inductive invariant of the lists table,  *)
(* and the three properties that follow from it. The behaviours are those  *)
(* of ActivityFeed, whose other steps leave the table alone.               *)
(***************************************************************************)
EXTENDS ActivityFeed, TLAPS

PlaceOps == {"create", "move"}

(* The steps between BEGIN and COMMIT.                                     *)
InTx(r) == pc[r] \in {"find", "lock", "locking", "write", "commit"}

(* Which requests can be where.                                            *)
Stage(r) ==
  /\ inp[r] # None => inp[r] \in Offered
  /\ pc[r] = "find" => inp[r].op # "create"
  /\ pc[r] \in {"lock", "locking"} => inp[r].op \in PlaceOps
  /\ todo[r] # {} => pc[r] = "locking"

Stages == \A r \in Request : Stage(r)

-----------------------------------------------------------------------------
(* Types.                                                                  *)

(* A request that has been made names a list, unless it is a createList.   *)
LEMMA InputTyped ==
  ASSUME WriteTypeOK, Stages, NEW r \in Request, inp[r] # None
  PROVE  /\ inp[r] \in Input
         /\ inp[r].op \in Op
         /\ inp[r].op # "create" => inp[r].list \in List
         /\ inp[r].op = "create" => inp[r].list = None
BY OfferedAssumption DEF Stages, Stage, Input

(* A row may be changed in one of its fields.                              *)
LEMMA RowTyped ==
  ASSUME NEW x \in Row
  PROVE  /\ \A k \in Key : [x EXCEPT !.pos = k] \in Row
         /\ [x EXCEPT !.state = "archived"] \in Row
         /\ \A n, w \in Request \union {None} : [x EXCEPT !.name = n, !.wip = w] \in Row
BY DEF Row, State

(* What a transaction that ends leaves to it: no lock, nothing to read.    *)
LEMMA EndTyped ==
  ASSUME WriteTypeOK, NEW r \in Request, EndAttempt(r)
  PROVE  /\ todo' \in [Request -> SUBSET Row] /\ read' \in [Request -> SUBSET Row]
         /\ lock' \in [List -> Request \union {None}]
         /\ todo'[r] = {} /\ read'[r] = {}
         /\ \A q \in Request \ {r} : todo'[q] = todo[q] /\ read'[q] = read[q]
         /\ \A l \in List : lock'[l] # r /\ lock'[l] = IF lock[l] = r THEN None ELSE lock[l]
BY NoneAssumption DEF EndAttempt, Released, WriteTypeOK

(* A failed request keeps the types.                                       *)
LEMMA FailTyped ==
  ASSUME WriteTypeOK, Stages, NEW r \in Request, NEW code \in Code, InTx(r), Fail(r, code),
         UNCHANGED <<list, journal, clock, inp, attempt, begun>>, faults' \in 0 .. MaxFaults
  PROVE  WriteTypeOK' /\ Stages'
<1>1. /\ todo' \in [Request -> SUBSET Row] /\ read' \in [Request -> SUBSET Row]
      /\ lock' \in [List -> Request \union {None}]
      /\ todo'[r] = {}
      /\ \A q \in Request \ {r} : todo'[q] = todo[q]
      /\ \A l \in List : lock'[l] # r /\ lock'[l] = IF lock[l] = r THEN None ELSE lock[l]
  BY EndTyped DEF Fail
<1>2. /\ pc' = [pc EXCEPT ![r] = "done"]
      /\ ans' = [ans EXCEPT ![r] = code]
      /\ want' = [want EXCEPT ![r] = None]
      /\ line' = [line EXCEPT ![r] = None]
  BY DEF Fail, Goto
<1>3. /\ line' \in [Request -> 0 .. MaxTime \union {None}]
      /\ want' \in [Request -> Row \union {None}]
      /\ ans' \in [Request -> Code \union {None}]
      /\ pc' \in [Request -> {"idle", "find", "lock", "locking", "write", "commit", "tell", "done"}]
  BY <1>2 DEF WriteTypeOK
<1>4. ASSUME NEW q \in Request
      PROVE  /\ pc'[q] = "idle" <=> inp[q] = None
             /\ pc'[q] = "done" <=> ans'[q] # None
             /\ pc'[q] \in {"commit", "tell"} => want'[q] # None
             /\ pc'[q] \in {"idle", "tell", "done"} => \A l \in List : lock'[l] # q
  <2>1. CASE q = r
    BY <1>1, <1>2, <2>1, NoneAssumption DEF WriteTypeOK, InTx
  <2>2. CASE q # r
    <3>1. pc'[q] = pc[q] /\ ans'[q] = ans[q] /\ want'[q] = want[q]
      BY <1>2, <2>2 DEF WriteTypeOK
    <3>2. (\A l \in List : lock[l] # q) => \A l \in List : lock'[l] # q
      BY <1>1, <2>2, NoneAssumption
    <3> QED
      BY <3>1, <3>2 DEF WriteTypeOK
  <2> QED
    BY <2>1, <2>2
<1>5. WriteTypeOK'
  BY <1>1, <1>3, <1>4 DEF WriteTypeOK
<1>6. Stages'
  BY <1>1, <1>2 DEF Stages, Stage, WriteTypeOK
<1> QED
  BY <1>5, <1>6

(* A new request keeps the types.                                          *)
LEMMA AskTyped ==
  ASSUME WriteTypeOK, Stages, NEW r \in Request, Ask(r)
  PROVE  WriteTypeOK' /\ Stages'
<1>1. PICK i \in Offered :
        /\ inp' = [inp EXCEPT ![r] = i]
        /\ IF i.wip
           THEN Goto(r, First(i.op)) /\ attempt' = [attempt EXCEPT ![r] = 1] /\ UNCHANGED ans
           ELSE Goto(r, "done") /\ ans' = [ans EXCEPT ![r] = "INVALID"] /\ UNCHANGED attempt
  BY DEF Ask
<1>2. /\ pc[r] = "idle" /\ begun' = [begun EXCEPT ![r] = Len(journal)]
      /\ UNCHANGED <<list, line, journal, clock, todo, read, want, lock, faults>>
  BY DEF Ask, tx
<1>3. i \in Input /\ i # None
  BY OfferedAssumption, NoneAssumption
<1>4. Len(journal) \in Nat /\ 1 \in 0 .. MaxAttempts
  BY BoundsAssumption DEF WriteTypeOK
<1>5. /\ inp' \in [Request -> Input \union {None}]
      /\ begun' \in [Request -> Nat]
  BY <1>1, <1>2, <1>3, <1>4 DEF WriteTypeOK
<1>6. PICK p \in {"find", "lock", "done"} :
        /\ pc' = [pc EXCEPT ![r] = p]
        /\ p = "done" => ans' = [ans EXCEPT ![r] = "INVALID"] /\ UNCHANGED attempt
        /\ p # "done" => UNCHANGED ans /\ attempt' = [attempt EXCEPT ![r] = 1]
        /\ p = "lock" => i.op \in PlaceOps
        /\ p = "find" => i.op # "create"
  BY <1>1 DEF First, Goto, PlaceOps
<1>7. /\ ans' \in [Request -> Code \union {None}]
      /\ attempt' \in [Request -> 0 .. MaxAttempts]
      /\ pc' \in [Request -> {"idle", "find", "lock", "locking", "write", "commit", "tell", "done"}]
  BY <1>4, <1>6 DEF WriteTypeOK, Code
<1>8. "INVALID" # None
  BY NoneAssumption DEF Code
<1>9. ASSUME NEW q \in Request
      PROVE  /\ pc'[q] = "idle" <=> inp'[q] = None
             /\ pc'[q] = "done" <=> ans'[q] # None
             /\ pc'[q] \in {"commit", "tell"} => want[q] # None
             /\ pc'[q] \in {"idle", "tell", "done"} => \A l \in List : lock[l] # q
             /\ Stage(q)'
  <2>1. CASE q = r
    <3>1. pc'[r] = p /\ inp'[r] = i /\ (p = "done" => ans'[r] = "INVALID") /\ (p # "done" => ans'[r] = ans[r])
      BY <1>1, <1>6 DEF WriteTypeOK
    <3>2. ans[r] = None /\ (\A l \in List : lock[l] # r) /\ todo[r] = {}
      BY <1>2 DEF WriteTypeOK, Stages, Stage
    <3> QED
      BY <1>2, <1>3, <1>6, <1>8, <2>1, <3>1, <3>2 DEF Stage
  <2>2. CASE q # r
    BY <1>1, <1>2, <1>6, <2>2 DEF WriteTypeOK, Stages, Stage
  <2> QED
    BY <2>1, <2>2
<1>10. WriteTypeOK'
  BY <1>2, <1>5, <1>7, <1>9 DEF WriteTypeOK
<1> QED
  BY <1>9, <1>10 DEF Stages

(* A statement of r that leaves the row locks, the answers and the other   *)
(* requests alone, or takes one lock for r.                                *)
LEMMA StatementTyped ==
  ASSUME WriteTypeOK, Stages, NEW r \in Request, InTx(r),
         NEW p \in {"find", "lock", "locking", "write", "commit"}, Goto(r, p),
         UNCHANGED <<list, journal, clock, inp, ans, attempt, begun, faults>>,
         line' \in [Request -> 0 .. MaxTime \union {None}],
         want' \in [Request -> Row \union {None}], p = "commit" => want'[r] # None,
         \A q \in Request \ {r} : want'[q] = want[q] /\ todo'[q] = todo[q],
         todo' \in [Request -> SUBSET Row], read' \in [Request -> SUBSET Row],
         lock' \in [List -> Request \union {None}],
         \A l \in List : lock'[l] \in {lock[l], r},
         Stage(r)'
  PROVE  WriteTypeOK' /\ Stages'
<1>1. pc' \in [Request -> {"idle", "find", "lock", "locking", "write", "commit", "tell", "done"}]
  BY DEF Goto, WriteTypeOK
<1>2. ASSUME NEW q \in Request
      PROVE  /\ pc'[q] = "idle" <=> inp[q] = None
             /\ pc'[q] = "done" <=> ans[q] # None
             /\ pc'[q] \in {"commit", "tell"} => want'[q] # None
             /\ pc'[q] \in {"idle", "tell", "done"} => \A l \in List : lock'[l] # q
             /\ Stage(q)'
  <2>1. CASE q = r
    BY <2>1 DEF Goto, WriteTypeOK, InTx
  <2>2. CASE q # r
    <3>1. pc'[q] = pc[q] /\ want'[q] = want[q] /\ todo'[q] = todo[q]
      BY <2>2 DEF Goto, WriteTypeOK
    <3>2. (\A l \in List : lock[l] # q) => \A l \in List : lock'[l] # q
      BY <2>2
    <3>3. Stage(q)'
      BY <3>1 DEF Stages, Stage
    <3> QED
      BY <3>1, <3>2, <3>3 DEF WriteTypeOK
  <2> QED
    BY <2>1, <2>2
<1>3. WriteTypeOK'
  BY <1>1, <1>2 DEF WriteTypeOK
<1> QED
  BY <1>2, <1>3 DEF Stages

(* The steps of a transaction that read, and the ones that refuse.         *)
LEMMA ReadTyped ==
  ASSUME WriteTypeOK, Stages, NEW r \in Request,
         FindList(r) \/ StartLockRead(r) \/ LockNextRow(r) \/ RefuseAnchor(r)
  PROVE  WriteTypeOK' /\ Stages'
<1>0. {"OK", "NOT_FOUND", "INVALID", "CONFLICT", "INTERNAL"} = Code
  BY DEF Code
<1>1. CASE FindList(r)
  <2>1. pc[r] = "find" /\ UNCHANGED <<list, journal, clock, inp, attempt, begun, faults>>
    BY <1>1 DEF FindList
  <2>2. CASE \E code \in Code : Fail(r, code)
    BY <2>1, <2>2, FailTyped DEF InTx, WriteTypeOK
  <2>3. CASE ~\E code \in Code : Fail(r, code)
    <3>1. /\ Goto(r, IF inp[r].op = "move" THEN "lock" ELSE "write")
          /\ UNCHANGED <<ans, line, tx>>
      BY <1>0, <1>1, <2>3 DEF FindList
    <3>2. Stage(r)'
      BY <2>1, <3>1 DEF Stages, Stage, Goto, WriteTypeOK, PlaceOps, tx
    <3> QED
      BY <2>1, <3>1, <3>2, StatementTyped DEF InTx, WriteTypeOK, tx
  <2> QED
    BY <2>2, <2>3
<1>2. CASE StartLockRead(r)
  <2>1. {list[l] : l \in {m \in List : OnBoard(m)}} \in SUBSET Row
    BY DEF WriteTypeOK
  <2>2. /\ pc[r] = "lock" /\ Goto(r, "locking")
        /\ UNCHANGED <<list, line, journal, clock, inp, ans, attempt, begun, read, want, lock, faults>>
        /\ \A q \in Request \ {r} : todo'[q] = todo[q]
        /\ todo' \in [Request -> SUBSET Row]
    BY <1>2, <2>1 DEF StartLockRead, WriteTypeOK
  <2>3. Stage(r)'
    BY <2>2 DEF Stages, Stage, Goto, WriteTypeOK
  <2> QED
    BY <2>2, <2>3, StatementTyped DEF InTx, WriteTypeOK
<1>3. CASE LockNextRow(r)
  <2>1. /\ pc[r] = "locking"
        /\ UNCHANGED <<list, line, journal, clock, inp, ans, attempt, begun, want, faults>>
    BY <1>3 DEF LockNextRow
  <2>2. CASE todo[r] = {}
    <3>1. Goto(r, "write") /\ UNCHANGED <<todo, read, lock>>
      BY <1>3, <2>2 DEF LockNextRow
    <3>2. Stage(r)'
      BY <2>1, <2>2, <3>1 DEF Stages, Stage, Goto, WriteTypeOK
    <3> QED
      BY <2>1, <3>1, <3>2, StatementTyped DEF InTx, WriteTypeOK
  <2>3. CASE todo[r] # {}
    <3>1. PICK s \in todo[r] :
            /\ lock' = [lock EXCEPT ![s.id] = r]
            /\ todo' = [todo EXCEPT ![r] = todo[r] \ {s}]
            /\ read' = [read EXCEPT ![r] = read[r] \union {list[s.id]}]
            /\ UNCHANGED pc
      BY <1>3, <2>3 DEF LockNextRow, FirstOf
    <3>2. s.id \in List /\ list[s.id] \in Row
      BY <3>1 DEF WriteTypeOK, Row
    <3>3. /\ todo' \in [Request -> SUBSET Row] /\ read' \in [Request -> SUBSET Row]
          /\ lock' \in [List -> Request \union {None}]
          /\ \A l \in List : lock'[l] \in {lock[l], r}
          /\ \A q \in Request \ {r} : todo'[q] = todo[q]
      BY <3>1, <3>2 DEF WriteTypeOK
    <3>4. Goto(r, "locking")
      BY <2>1, <3>1 DEF Goto, WriteTypeOK
    <3>5. Stage(r)'
      BY <2>1, <3>1 DEF Stages, Stage, WriteTypeOK
    <3> QED
      BY <2>1, <3>3, <3>4, <3>5, StatementTyped DEF InTx, WriteTypeOK
  <2> QED
    BY <2>2, <2>3
<1>4. CASE RefuseAnchor(r)
  BY <1>0, <1>4, FailTyped DEF RefuseAnchor, InTx, WriteTypeOK
<1> QED
  BY <1>1, <1>2, <1>3, <1>4

(* The statements that write, and the commit.                              *)
LEMMA WriteTyped ==
  ASSUME WriteTypeOK, Stages, NEW r \in Request,
         Position(r) \/ Collide(r) \/ Rewrite(r) \/ Commit(r)
  PROVE  WriteTypeOK' /\ Stages'
<1>0. {"OK", "NOT_FOUND", "INVALID", "CONFLICT", "INTERNAL"} = Code
  BY DEF Code
<1>1. ASSUME NEW l \in List, NEW row \in Row, pc[r] = "write", Wrote(r, row),
             lock' = [lock EXCEPT ![l] = r],
             UNCHANGED <<list, journal, clock, inp, ans, attempt, begun, todo, read, faults>>
      PROVE  WriteTypeOK' /\ Stages'
  <2>1. /\ line' \in [Request -> 0 .. MaxTime \union {None}]
        /\ want' \in [Request -> Row \union {None}]
        /\ want'[r] # None
        /\ \A q \in Request \ {r} : want'[q] = want[q]
    BY <1>1, NoneAssumption DEF Wrote, WriteTypeOK
  <2>2. /\ lock' \in [List -> Request \union {None}]
        /\ \A m \in List : lock'[m] \in {lock[m], r}
    BY <1>1 DEF WriteTypeOK
  <2>3. Goto(r, "commit")
    BY <1>1 DEF Wrote
  <2>4. Stage(r)'
    BY <1>1, <2>3 DEF Stages, Stage, Goto, WriteTypeOK
  <2> QED
    BY <1>1, <2>1, <2>2, <2>3, <2>4, StatementTyped DEF InTx, WriteTypeOK
<1>2. CASE Position(r)
  <2>1. PICK k \in Key, l \in List :
          /\ l = IF inp[r].op = "create" THEN Fresh[r] ELSE inp[r].list
          /\ Wrote(r, IF inp[r].op = "create"
                      THEN [id |-> l, state |-> "live", pos |-> k, name |-> r, wip |-> r]
                      ELSE [list[l] EXCEPT !.pos = k])
          /\ lock' = [lock EXCEPT ![l] = r]
    <3> DEFINE l == IF inp[r].op = "create" THEN Fresh[r] ELSE inp[r].list
    <3>1. inp[r] # None
      BY <1>2 DEF Position, WriteTypeOK
    <3>2. l \in List
      BY <3>1, InputTyped, StartAssumption DEF StartAssumption
    <3>3. PICK k \in Key :
          /\ Wrote(r, IF inp[r].op = "create"
                      THEN [id |-> l, state |-> "live", pos |-> k, name |-> r, wip |-> r]
                      ELSE [list[l] EXCEPT !.pos = k])
          /\ lock' = [lock EXCEPT ![l] = r]
      BY <1>2 DEF Position, KeyBetween
    <3> QED
      BY <3>2, <3>3
  <2>2. [id |-> l, state |-> "live", pos |-> k, name |-> r, wip |-> r] \in Row
    BY DEF Row, State
  <2>3. [list[l] EXCEPT !.pos = k] \in Row
    BY RowTyped DEF WriteTypeOK
  <2> QED
    BY <1>1, <1>2, <2>1, <2>2, <2>3 DEF Position
<1>3. CASE Collide(r)
  <2>1. /\ pc[r] = "write" /\ inp[r].op \in {"create", "move"}
        /\ UNCHANGED <<list, journal, clock, inp, begun, faults>>
    BY <1>3 DEF Collide
  <2>2. CASE Fail(r, "CONFLICT") /\ UNCHANGED attempt
    BY <1>0, <2>1, <2>2, FailTyped DEF InTx, WriteTypeOK
  <2>3. CASE ~(Fail(r, "CONFLICT") /\ UNCHANGED attempt)
    <3>1. /\ EndAttempt(r)
          /\ attempt[r] < MaxAttempts /\ attempt' = [attempt EXCEPT ![r] = attempt[r] + 1]
          /\ pc' = [pc EXCEPT ![r] = First(inp[r].op)]
          /\ UNCHANGED <<line, want, ans>>
      BY <1>3, <2>3 DEF Collide, Goto
    <3>2. attempt' \in [Request -> 0 .. MaxAttempts]
      <4>1. attempt[r] \in 0 .. MaxAttempts
        BY DEF WriteTypeOK
      <4>2. attempt[r] + 1 \in 0 .. MaxAttempts
        BY <3>1, <4>1, BoundsAssumption
      <4> QED
        BY <3>1, <4>2 DEF WriteTypeOK
    <3>3. First(inp[r].op) \in {"find", "lock"} /\ (First(inp[r].op) = "find" <=> inp[r].op # "create")
      BY DEF First
    <3>4. ASSUME NEW q \in Request
          PROVE  /\ pc'[q] = "idle" <=> inp[q] = None
                 /\ pc'[q] = "done" <=> ans[q] # None
                 /\ pc'[q] \in {"commit", "tell"} => want[q] # None
                 /\ pc'[q] \in {"idle", "tell", "done"} => \A l \in List : lock'[l] # q
                 /\ Stage(q)'
      <4>1. CASE q = r
        BY <2>1, <3>1, <3>3, <4>1, EndTyped DEF WriteTypeOK, Stages, Stage, PlaceOps
      <4>2. CASE q # r
        <5>1. pc'[q] = pc[q] /\ todo'[q] = todo[q]
          BY <3>1, <4>2, EndTyped DEF WriteTypeOK
        <5>2. (\A l \in List : lock[l] # q) => \A l \in List : lock'[l] # q
          BY <3>1, <4>2, EndTyped, NoneAssumption
        <5>3. Stage(q)'
          BY <2>1, <5>1 DEF Stages, Stage
        <5> QED
          BY <5>1, <5>2, <5>3 DEF WriteTypeOK
      <4> QED
        BY <4>1, <4>2
    <3>5. pc' \in [Request -> {"idle", "find", "lock", "locking", "write", "commit", "tell", "done"}]
      BY <3>1, <3>3 DEF WriteTypeOK
    <3>6. WriteTypeOK'
      BY <2>1, <3>1, <3>2, <3>4, <3>5, EndTyped DEF WriteTypeOK
    <3> QED
      BY <3>4, <3>6 DEF Stages
  <2> QED
    BY <2>2, <2>3
<1>4. CASE Rewrite(r)
  <2>1. /\ pc[r] = "write" /\ inp[r].op \in {"update", "archive"}
        /\ lock' = [lock EXCEPT ![inp[r].list] = r]
        /\ Wrote(r, IF inp[r].op = "update" THEN Changed(r)
                    ELSE [list[inp[r].list] EXCEPT !.state = "archived"])
        /\ UNCHANGED <<list, journal, clock, inp, ans, attempt, begun, todo, read, faults>>
    BY <1>4 DEF Rewrite
  <2>2. inp[r].list \in List
    BY <2>1, InputTyped DEF WriteTypeOK
  <2>3. list[inp[r].list] \in Row
    BY <2>2 DEF WriteTypeOK
  <2>4. Changed(r) \in Row
    <3>1. /\ (IF "name" \in inp[r].sets THEN r ELSE list[inp[r].list].name) \in Request \union {None}
          /\ (IF "wip" \in inp[r].sets THEN r ELSE list[inp[r].list].wip) \in Request \union {None}
      BY <2>3 DEF Row
    <3> QED
      BY <2>3, <3>1, RowTyped DEF Changed
  <2>5. [list[inp[r].list] EXCEPT !.state = "archived"] \in Row
    BY <2>3, RowTyped
  <2> QED
    BY <1>1, <2>1, <2>2, <2>4, <2>5
<1>5. CASE Commit(r)
  <2>1. /\ pc[r] = "commit"
        /\ list' = [list EXCEPT ![want[r].id] = want[r]]
        /\ journal' = Append(journal, r)
        /\ EndAttempt(r)
        /\ pc' = [pc EXCEPT ![r] = "tell"]
        /\ UNCHANGED <<line, clock, inp, ans, attempt, begun, want, faults>>
    BY <1>5 DEF Commit, Goto
  <2>2. want[r] \in Row
    BY <2>1 DEF WriteTypeOK
  <2>3. list' \in [List -> Row] /\ journal' \in Seq(Request)
    BY <2>1, <2>2 DEF WriteTypeOK, Row
  <2>4. ASSUME NEW q \in Request
        PROVE  /\ pc'[q] = "idle" <=> inp[q] = None
               /\ pc'[q] = "done" <=> ans[q] # None
               /\ pc'[q] \in {"commit", "tell"} => want[q] # None
               /\ pc'[q] \in {"idle", "tell", "done"} => \A l \in List : lock'[l] # q
               /\ Stage(q)'
    <3>1. CASE q = r
      BY <2>1, <2>2, <3>1, EndTyped, NoneAssumption DEF WriteTypeOK, Stages, Stage
    <3>2. CASE q # r
      <4>1. pc'[q] = pc[q] /\ todo'[q] = todo[q]
        BY <2>1, <3>2, EndTyped DEF WriteTypeOK
      <4>2. (\A l \in List : lock[l] # q) => \A l \in List : lock'[l] # q
        BY <2>1, <3>2, EndTyped, NoneAssumption
      <4>3. Stage(q)'
        BY <2>1, <4>1 DEF Stages, Stage
      <4> QED
        BY <4>1, <4>2, <4>3 DEF WriteTypeOK
    <3> QED
      BY <3>1, <3>2
  <2>5. pc' \in [Request -> {"idle", "find", "lock", "locking", "write", "commit", "tell", "done"}]
    BY <2>1 DEF WriteTypeOK
  <2>6. WriteTypeOK'
    BY <2>1, <2>3, <2>4, <2>5, EndTyped DEF WriteTypeOK
  <2> QED
    BY <2>4, <2>6 DEF Stages
<1> QED
  BY <1>2, <1>3, <1>4, <1>5

(* Whoever waits is in a transaction.                                      *)
LEMMA WaiterInTx ==
  ASSUME NEW r \in Request, InDeadlock(r)
  PROVE  InTx(r)
<1>1. WaitsFor(r) # {}
  <2>1. SUFFICES ASSUME WaitsFor(r) = {} PROVE FALSE
    OBVIOUS
  <2>2. DOMAIN Waits = Request /\ Waits[r] = {}
    BY <2>1 DEF Waits
  <2> QED BY <2>2 DEF InDeadlock, InCycle, ClosedUnder
<1> QED
  BY <1>1 DEF WaitsFor, InTx

(* Every step of the writers keeps the types.                              *)
LEMMA WriterTyped ==
  ASSUME WriteTypeOK, Stages, NEW r \in Request, Ask(r) \/ InTransaction(r) \/ Commit(r)
  PROVE  WriteTypeOK' /\ Stages'
<1>1. CASE DeadlockVictim(r) \/ TimeOut(r)
  <2>1. /\ InTx(r) /\ Fail(r, "INTERNAL") /\ "INTERNAL" \in Code
        /\ UNCHANGED <<list, journal, clock, inp, attempt, begun>>
        /\ faults' = faults \/ (faults < MaxFaults /\ faults' = faults + 1)
    BY <1>1, WaiterInTx DEF DeadlockVictim, TimeOut, InTx, Code
  <2>2. faults' \in 0 .. MaxFaults
    BY <2>1, BoundsAssumption DEF WriteTypeOK
  <2> QED
    BY <2>1, <2>2, FailTyped
<1> QED
  BY <1>1, AskTyped, ReadTyped, WriteTyped DEF InTransaction

-----------------------------------------------------------------------------
(* The inductive invariant.                                                *)

Changing(r) == inp[r] # None /\ inp[r].op # "create"

Found(r) == Changing(r) /\ pc[r] \in {"lock", "locking", "write", "commit"}

Placing(r) == pc[r] = "commit" /\ inp[r].op \in PlaceOps

(* A list that is named exists, and is of this board once it is found.     *)
Named(r) ==
  /\ Changing(r) => list[inp[r].list].state # "absent"
  /\ Found(r) => inp[r].list \notin Foreign

(* A list that is to be inserted is not there before its call commits.     *)
Unborn(r) == list[Fresh[r]].state # "absent" => Committed(r)

(* A move has locked the list it moves by the time it writes.              *)
Locked(r) ==
  Changing(r) /\ inp[r].op = "move" =>
    /\ pc[r] = "locking" => lock[inp[r].list] = r \/ \E s \in todo[r] : s.id = inp[r].list
    /\ pc[r] = "write" => lock[inp[r].list] = r

(* What is about to be committed is the row as it stands, but for the      *)
(* columns that the request writes.                                        *)
Holds(r) ==
  pc[r] = "commit" =>
    LET now == list[want[r].id]
    IN  /\ want[r].id \notin Foreign
        /\ IF inp[r].op = "create"
           THEN /\ want[r].id = Fresh[r] /\ want[r].state = "live"
                /\ want[r].name = r /\ want[r].wip = r
           ELSE /\ want[r].id = inp[r].list /\ lock[inp[r].list] = r
                /\ inp[r].op # "move" => want[r].pos = now.pos
                /\ want[r].state = IF inp[r].op = "archive" THEN "archived" ELSE now.state
                /\ want[r].name = IF inp[r].op = "update" /\ "name" \in inp[r].sets
                                  THEN r ELSE now.name
                /\ want[r].wip = IF inp[r].op = "update" /\ "wip" \in inp[r].sets
                                 THEN r ELSE now.wip

(* A key in the index is nobody else's, committed or about to be.          *)
KeyReserved(r) ==
  Placing(r) =>
    /\ \A m \in List \ Foreign :
         m # want[r].id /\ list[m].state # "absent" => list[m].pos # want[r].pos
    /\ \A q \in Request \ {r} : Placing(q) => want[q].pos # want[r].pos

(* A list that has been found was not archived when the request came.      *)
Timely(r) ==
  /\ begun[r] <= Len(journal)
  /\ Found(r) => \A j \in DOMAIN journal :
       inp[journal[j]].op = "archive" /\ want[journal[j]].id = inp[r].list => begun[r] < j

Journaled(r) ==
  /\ Committed(r) => pc[r] \in {"tell", "done"}
  /\ pc[r] = "tell" => Committed(r)

Fine(r) ==
  /\ Named(r)
  /\ Unborn(r)
  /\ Locked(r)
  /\ Holds(r)
  /\ KeyReserved(r)
  /\ Timely(r)
  /\ Journaled(r)

(* The places in the journal of the requests in S, of which one is last.   *)
Turns(S) == {k \in DOMAIN journal : journal[k] \in S}

Ordered ==
  \A S \in SUBSET Request : Turns(S) # {} => \E k \in Turns(S) : \A j \in Turns(S) : j <= k

(* Who has written column f of l with an op; EachColumnLastWritten at l.   *)
Writers(l, op, f) ==
  {r \in Request : /\ Committed(r) /\ want[r].id = l /\ inp[r].op = op
                   /\ op = "update" => f \in inp[r].sets}

Makers(l, f) == Writers(l, "create", f) \union Writers(l, "update", f)

Placers(l) == Writers(l, "create", "pos") \union Writers(l, "move", "pos")

LastWritten(l) ==
  /\ list[l].name = LastOf(Makers(l, "name"))
  /\ list[l].wip = LastOf(Makers(l, "wip"))
  /\ list[l].pos = IF LastOf(Placers(l)) = None THEN Start[l].pos ELSE want[LastOf(Placers(l))].pos
  /\ list[l].state = IF Writers(l, "archive", "state") # {} THEN "archived"
                     ELSE IF Writers(l, "create", "state") # {} THEN "live"
                     ELSE Start[l].state

TableInv ==
  /\ \A l \in List : list[l].id = l
  /\ Ordered
  /\ ListPositionsUnique
  /\ \A l \in List \ Foreign : LastWritten(l)
  /\ ClosedListsTakeNoNews
  /\ \A r \in Request : Fine(r)

(* LastWritten of every column is what EachColumnLastWritten says.         *)
LEMMA LastWrittenIsProperty ==
  (\A l \in List \ Foreign : LastWritten(l)) <=> EachColumnLastWritten
BY DEF EachColumnLastWritten, LastWritten, Makers, Placers, Writers

-----------------------------------------------------------------------------
(* Steps that commit nothing.                                              *)

(* What a step of r leaves to the others: all that is theirs, and their    *)
(* locks on lists that exist.                                              *)
OthersKeep(r) ==
  \A q \in Request \ {r} :
    /\ inp'[q] = inp[q]
    /\ pc'[q] = pc[q]
    /\ want'[q] = want[q]
    /\ todo'[q] = todo[q]
    /\ begun'[q] = begun[q]
    /\ \A l \in List : list[l].state # "absent" /\ lock[l] = q => lock'[l] = q

(* A step of r that commits nothing changes nothing for the others.        *)
LEMMA OthersFine ==
  ASSUME WriteTypeOK, Stages, TableInv, NEW r \in Request, ~Committed(r),
         UNCHANGED <<list, journal>>, OthersKeep(r), KeyReserved(r)', NEW q \in Request \ {r}
  PROVE  Fine(q)'
<1>1. Fine(q)
  BY DEF TableInv
<1>2. /\ inp'[q] = inp[q] /\ pc'[q] = pc[q] /\ want'[q] = want[q] /\ todo'[q] = todo[q]
      /\ begun'[q] = begun[q]
      /\ \A l \in List : list[l].state # "absent" /\ lock[l] = q => lock'[l] = q
      /\ list' = list /\ journal' = journal
  BY DEF OthersKeep
<1>3. Changing(q) => inp[q].list \in List
  BY InputTyped DEF Changing
<1>4. Changing(q)' = Changing(q) /\ Found(q)' = Found(q) /\ Placing(q)' = Placing(q)
      /\ Committed(q)' = Committed(q)
  BY <1>2 DEF Changing, Found, Placing, Committed
<1>5. Named(q)' /\ Unborn(q)' /\ Journaled(q)'
  BY <1>1, <1>2, <1>4 DEF Fine, Named, Unborn, Journaled
<1>6. Locked(q)'
  BY <1>1, <1>2, <1>3, <1>4 DEF Fine, Named, Locked
<1>7. Holds(q)'
  <2> SUFFICES ASSUME pc[q] = "commit" PROVE Holds(q)'
    BY <1>2 DEF Holds
  <2>1. inp[q].op # "create" => lock'[inp[q].list] = q
    <3>1. inp[q] # None
      BY DEF WriteTypeOK
    <3> QED
      BY <1>1, <1>2, <1>3, <3>1 DEF Fine, Named, Holds, Changing
  <2> QED
    BY <1>1, <1>2, <2>1 DEF Fine, Holds
<1>8. KeyReserved(q)'
  <2> SUFFICES ASSUME Placing(q) PROVE KeyReserved(q)'
    BY <1>4 DEF KeyReserved
  <2>1. \A m \in List \ Foreign :
          m # want[q].id /\ list[m].state # "absent" => list[m].pos # want[q].pos
    BY <1>1 DEF Fine, KeyReserved
  <2>2. ASSUME NEW t \in Request \ {q}, Placing(t)' PROVE want'[t].pos # want'[q].pos
    <3>1. CASE t = r
      BY <1>4, <2>2, <3>1 DEF KeyReserved
    <3>2. CASE t # r
      <4>1. Placing(t) /\ want'[t] = want[t]
        BY <2>2, <3>2 DEF OthersKeep, Placing
      <4> QED
        BY <1>1, <1>2, <4>1 DEF Fine, KeyReserved
    <3> QED
      BY <3>1, <3>2
  <2> QED
    BY <1>2, <2>1, <2>2 DEF KeyReserved
<1>9. Timely(q)'
  <2>1. \A j \in DOMAIN journal : journal[j] \in Request \ {r}
    BY DEF Committed, WriteTypeOK
  <2>2. \A j \in DOMAIN journal : inp'[journal[j]] = inp[journal[j]] /\ want'[journal[j]] = want[journal[j]]
    BY <2>1 DEF OthersKeep
  <2> QED
    BY <1>1, <1>2, <1>4, <2>2 DEF Fine, Timely
<1> QED
  BY <1>5, <1>6, <1>7, <1>8, <1>9 DEF Fine

(* A step of r that commits nothing and leaves r as it should be keeps the *)
(* invariant: the journal's requests are not r.                            *)
LEMMA QuietTable ==
  ASSUME WriteTypeOK, Stages, TableInv, NEW r \in Request, ~Committed(r),
         UNCHANGED <<list, journal>>, OthersKeep(r), Fine(r)'
  PROVE  TableInv'
<1>1. \A q \in Request : Fine(q)'
  BY OthersFine DEF Fine
<1>2. \A j \in DOMAIN journal : journal[j] \in Request \ {r}
  BY DEF Committed, WriteTypeOK
<1>3. \A j \in DOMAIN journal : /\ inp'[journal[j]] = inp[journal[j]]
                               /\ want'[journal[j]] = want[journal[j]]
                               /\ begun'[journal[j]] = begun[journal[j]]
  BY <1>2 DEF OthersKeep
<1>4. \A q : Committed(q) => q \in Request \ {r}
  BY <1>2 DEF Committed
<1>5. \A q : Committed(q)' = Committed(q)
  BY DEF Committed
<1>6. \A l, op, f : Writers(l, op, f)' = Writers(l, op, f)
  BY <1>4, <1>5 DEF Writers, OthersKeep
<1>7. \A S : LastOf(S)' = LastOf(S)
  BY DEF LastOf
<1>8. ASSUME NEW l \in List \ Foreign PROVE LastWritten(l)'
  <2>1. LastWritten(l)
    BY DEF TableInv
  <2>2. /\ Makers(l, "name")' = Makers(l, "name") /\ Makers(l, "wip")' = Makers(l, "wip")
        /\ Placers(l)' = Placers(l)
    BY <1>6 DEF Makers, Placers
  <2>3. /\ LastOf(Makers(l, "name"))' = LastOf(Makers(l, "name"))
        /\ LastOf(Makers(l, "wip"))' = LastOf(Makers(l, "wip"))
        /\ LastOf(Placers(l))' = LastOf(Placers(l))
    BY <1>7, <2>2
  <2>4. LastOf(Placers(l)) # None => LastOf(Placers(l)) \in Request \ {r}
    <3>1. Placers(l) \in SUBSET Request
      BY DEF Placers, Writers
    <3>2. PICK S \in SUBSET Request : S = Placers(l)
      BY <3>1
    <3>3. Turns(S) # {} => \E k \in Turns(S) : \A j \in Turns(S) : j <= k
      BY DEF TableInv, Ordered
    <3>4. LastOf(S) # None => \E k \in Turns(S) : LastOf(S) = journal[k]
      BY <3>3 DEF LastOf, Turns
    <3> QED
      BY <1>2, <3>2, <3>4 DEF Turns
  <2>5. LastOf(Placers(l)) # None => want'[LastOf(Placers(l))] = want[LastOf(Placers(l))]
    BY <2>4 DEF OthersKeep
  <2> QED
    BY <1>6, <2>1, <2>3, <2>5 DEF LastWritten
<1>9. Ordered'
  BY DEF TableInv, Ordered, Turns
<1>10. ClosedListsTakeNoNews'
  BY <1>3 DEF TableInv, ClosedListsTakeNoNews
<1> QED
  BY <1>1, <1>8, <1>9, <1>10 DEF TableInv, ListPositionsUnique

(* A request in a transaction has not committed.                           *)
LEMMA InTxUncommitted ==
  ASSUME TableInv, NEW r \in Request, InTx(r) \/ pc[r] = "idle"
  PROVE  ~Committed(r)
BY DEF TableInv, Fine, Journaled, InTx

(* A transaction that fails.                                               *)
LEMMA FailTable ==
  ASSUME WriteTypeOK, Stages, TableInv, NEW r \in Request, NEW code, InTx(r), Fail(r, code),
         UNCHANGED <<list, journal, inp, begun>>
  PROVE  TableInv'
<1>1. /\ pc' = [pc EXCEPT ![r] = "done"]
      /\ want' = [want EXCEPT ![r] = None]
      /\ EndAttempt(r)
  BY DEF Fail, Goto
<1>2. OthersKeep(r)
  BY <1>1, EndTyped DEF OthersKeep, WriteTypeOK
<1>3. Fine(r) /\ ~Committed(r)
  BY InTxUncommitted DEF TableInv
<1>4. pc'[r] = "done"
  BY <1>1 DEF WriteTypeOK
<1>5. Fine(r)'
  BY <1>3, <1>4
     DEF Fine, Named, Unborn, Locked, Holds, KeyReserved, Timely, Journaled, Changing, Found,
         Placing, Committed
<1> QED
  BY <1>2, <1>3, <1>5, QuietTable

(* A request is made, and perhaps refused at once.                         *)
LEMMA AskTable ==
  ASSUME WriteTypeOK, Stages, TableInv, NEW r \in Request, Ask(r)
  PROVE  TableInv'
<1>1. PICK i \in Offered :
        /\ i.list = None \/ list[i.list].state # "absent"
        /\ inp' = [inp EXCEPT ![r] = i]
        /\ pc' = [pc EXCEPT ![r] = IF i.wip THEN First(i.op) ELSE "done"]
  BY DEF Ask, Goto
<1>2. /\ pc[r] = "idle" /\ begun' = [begun EXCEPT ![r] = Len(journal)]
      /\ UNCHANGED <<list, journal, todo, read, want, lock>>
  BY DEF Ask, tx
<1>3. OthersKeep(r)
  BY <1>1, <1>2 DEF OthersKeep, WriteTypeOK
<1>4. Fine(r) /\ ~Committed(r)
  BY <1>2, InTxUncommitted DEF TableInv
<1>5. /\ inp'[r] = i /\ begun'[r] = Len(journal) /\ Len(journal) \in Nat
      /\ pc'[r] \in {"find", "lock", "done"} /\ (pc'[r] = "lock" => i.op = "create")
  BY <1>1, <1>2 DEF WriteTypeOK, First
<1>6. ~Found(r)' /\ ~Placing(r)' /\ Committed(r)' = Committed(r)
  BY <1>2, <1>5 DEF Found, Changing, Placing, Committed
<1>7. Named(r)'
  BY <1>1, <1>2, <1>5, <1>6, OfferedAssumption DEF Named, Changing
<1>8. Fine(r)'
  BY <1>2, <1>4, <1>5, <1>6, <1>7
     DEF Fine, Unborn, Locked, Holds, KeyReserved, Timely, Journaled, Changing
<1> QED
  BY <1>2, <1>3, <1>4, <1>8, QuietTable

(* The steps of a transaction that read.                                   *)
LEMMA ReadTable ==
  ASSUME WriteTypeOK, Stages, TableInv, NEW r \in Request,
         FindList(r) \/ StartLockRead(r) \/ LockNextRow(r) \/ RefuseAnchor(r)
  PROVE  TableInv'
<1>0. ASSUME InTx(r), UNCHANGED <<list, journal, inp, begun, want>>, pc'[r] \in {"lock", "locking", "write"},
             OthersKeep(r), Named(r)', Locked(r)', Timely(r)'
      PROVE  TableInv'
  <2>1. Fine(r) /\ ~Committed(r)
    BY <1>0, InTxUncommitted DEF TableInv
  <2>2. Fine(r)'
    BY <1>0, <2>1 DEF Fine, Unborn, Holds, KeyReserved, Journaled, Placing, Committed
  <2> QED
    BY <1>0, <2>1, <2>2, QuietTable
<1>1. Fine(r) /\ (Changing(r) => inp[r].list \in List)
  BY InputTyped DEF TableInv, Changing
<1>2. CASE FindList(r)
  <2>1. pc[r] = "find" /\ UNCHANGED <<list, journal, inp, begun>>
    BY <1>2 DEF FindList
  <2>2. CASE \E code : Fail(r, code)
    BY <2>1, <2>2, FailTable DEF InTx
  <2>3. CASE ~\E code : Fail(r, code)
    <3> DEFINE l == inp[r].list
    <3>1. /\ list[l].state = "live" /\ l \notin Foreign
          /\ pc' = [pc EXCEPT ![r] = IF inp[r].op = "move" THEN "lock" ELSE "write"]
          /\ UNCHANGED <<todo, read, want, lock>>
      BY <1>2, <2>3 DEF FindList, Gone, Goto, tx
    <3>2. pc'[r] = IF inp[r].op = "move" THEN "lock" ELSE "write"
      BY <3>1 DEF WriteTypeOK
    <3>3. inp[r] # None /\ Changing(r)
      BY <2>1 DEF WriteTypeOK, Stages, Stage, Changing
    <3>4. Named(r)' /\ Locked(r)'
      BY <1>1, <2>1, <3>1, <3>2, <3>3 DEF Fine, Named, Locked, Changing
    <3>5. Timely(r)'
      <4>1. Writers(l, "archive", "state") = {}
        BY <1>1, <3>1, <3>3 DEF TableInv, LastWritten
      <4>2. \A j \in DOMAIN journal : journal[j] \in Request /\ Committed(journal[j])
        BY DEF Committed, WriteTypeOK
      <4>3. \A j \in DOMAIN journal :
              ~(inp[journal[j]].op = "archive" /\ want[journal[j]].id = l)
        BY <4>1, <4>2 DEF Writers
      <4> QED
        BY <1>1, <2>1, <3>1, <4>3 DEF Fine, Timely
    <3>6. OthersKeep(r)
      BY <2>1, <3>1 DEF OthersKeep, WriteTypeOK
    <3> QED
      BY <1>0, <2>1, <3>1, <3>2, <3>4, <3>5, <3>6 DEF InTx
  <2> QED
    BY <2>2, <2>3
<1>3. CASE StartLockRead(r)
  <2>1. /\ pc[r] = "lock" /\ pc' = [pc EXCEPT ![r] = "locking"]
        /\ todo' = [todo EXCEPT ![r] = {list[l] : l \in {m \in List : OnBoard(m)}}]
        /\ UNCHANGED <<list, journal, inp, begun, read, want, lock>>
    BY <1>3 DEF StartLockRead, Goto
  <2>2. pc'[r] = "locking" /\ todo'[r] = {list[l] : l \in {m \in List : OnBoard(m)}}
    BY <2>1 DEF WriteTypeOK
  <2>3. Found(r)' = Found(r) /\ Changing(r)' = Changing(r) /\ (Changing(r) => Found(r))
    BY <2>1, <2>2 DEF Found, Changing
  <2>4. Named(r)' /\ Timely(r)'
    BY <1>1, <2>1, <2>3 DEF Fine, Named, Timely
  <2>5. Changing(r) => \E s \in todo'[r] : s.id = inp[r].list
    <3> SUFFICES ASSUME Changing(r) PROVE \E s \in todo'[r] : s.id = inp[r].list
      OBVIOUS
    <3>1. OnBoard(inp[r].list) /\ inp[r].list \in List
      BY <1>1, <2>3 DEF Fine, Named, OnBoard
    <3>2. list[inp[r].list] \in todo'[r]
      BY <2>2, <3>1
    <3> QED
      BY <3>1, <3>2 DEF TableInv
  <2>6. Locked(r)'
    BY <2>1, <2>2, <2>3, <2>5 DEF Locked
  <2>7. OthersKeep(r)
    BY <2>1 DEF OthersKeep, WriteTypeOK
  <2> QED
    BY <1>0, <2>1, <2>2, <2>4, <2>6, <2>7 DEF InTx
<1>4. CASE LockNextRow(r)
  <2>1. /\ pc[r] = "locking" /\ UNCHANGED <<list, journal, inp, begun, want>>
    BY <1>4 DEF LockNextRow
  <2>2. CASE todo[r] = {}
    <3>1. pc' = [pc EXCEPT ![r] = "write"] /\ UNCHANGED <<todo, read, lock>>
      BY <1>4, <2>2 DEF LockNextRow, Goto
    <3>2. pc'[r] = "write"
      BY <3>1 DEF WriteTypeOK
    <3>3. Found(r)' = Found(r) /\ Changing(r)' = Changing(r)
      BY <2>1, <3>2 DEF Found, Changing
    <3>4. Named(r)' /\ Timely(r)' /\ Locked(r)'
      BY <1>1, <2>1, <2>2, <3>1, <3>2, <3>3 DEF Fine, Named, Timely, Locked
    <3>5. OthersKeep(r)
      BY <2>1, <3>1 DEF OthersKeep, WriteTypeOK
    <3> QED
      BY <1>0, <2>1, <3>2, <3>4, <3>5 DEF InTx
  <2>3. CASE todo[r] # {}
    <3>1. PICK s \in todo[r] :
            /\ Grantable(s.id, r)
            /\ lock' = [lock EXCEPT ![s.id] = r]
            /\ todo' = [todo EXCEPT ![r] = todo[r] \ {s}]
            /\ UNCHANGED pc
      BY <1>4, <2>3 DEF LockNextRow, FirstOf
    <3>2. todo'[r] = todo[r] \ {s} /\ s.id \in List /\ lock'[s.id] = r
      BY <3>1 DEF WriteTypeOK, Row
    <3>3. Found(r)' = Found(r) /\ Changing(r)' = Changing(r)
      BY <2>1, <3>1 DEF Found, Changing
    <3>4. Named(r)' /\ Timely(r)'
      BY <1>1, <2>1, <3>3 DEF Fine, Named, Timely
    <3>5. \A l \in List : lock'[l] = IF l = s.id THEN r ELSE lock[l]
      BY <3>1 DEF WriteTypeOK
    <3>6. Locked(r)'
      BY <1>1, <2>1, <3>1, <3>2, <3>3, <3>5 DEF Fine, Locked
    <3>7. OthersKeep(r)
      BY <2>1, <3>1, <3>5, NoneAssumption DEF OthersKeep, WriteTypeOK, Grantable
    <3> QED
      BY <1>0, <2>1, <3>1, <3>4, <3>6, <3>7 DEF InTx
  <2> QED
    BY <2>2, <2>3
<1>5. CASE RefuseAnchor(r)
  BY <1>5, FailTable DEF RefuseAnchor, InTx
<1> QED
  BY <1>2, <1>3, <1>4, <1>5

(* The statements that write, and the new attempt after a collision.       *)
LEMMA WriteTable ==
  ASSUME WriteTypeOK, Stages, TableInv, NEW r \in Request,
         Position(r) \/ Collide(r) \/ Rewrite(r)
  PROVE  TableInv'
<1>0. ASSUME NEW row, NEW l \in List, pc[r] = "write", Wrote(r, row),
             UNCHANGED <<list, journal, inp, begun, todo>>,
             list[l].state = "absent" \/ Grantable(l, r),
             lock' = [lock EXCEPT ![l] = r], Holds(r)', KeyReserved(r)'
      PROVE  TableInv'
  <2>1. Fine(r) /\ ~Committed(r)
    BY <1>0, InTxUncommitted DEF TableInv, InTx
  <2>2. /\ pc' = [pc EXCEPT ![r] = "commit"] /\ pc'[r] = "commit"
        /\ want' = [want EXCEPT ![r] = row]
    BY <1>0 DEF Wrote, Goto, WriteTypeOK
  <2>3. Found(r)' = Found(r) /\ Changing(r)' = Changing(r)
    BY <1>0, <2>2 DEF Found, Changing
  <2>4. \A j \in DOMAIN journal : journal[j] \in Request \ {r}
    BY <2>1 DEF Committed, WriteTypeOK
  <2>5. \A j \in DOMAIN journal : want'[journal[j]] = want[journal[j]]
    BY <2>2, <2>4 DEF WriteTypeOK
  <2>6. Named(r)' /\ Timely(r)'
    BY <1>0, <2>1, <2>3, <2>5 DEF Fine, Named, Timely
  <2>7. Fine(r)'
    BY <1>0, <2>1, <2>2, <2>6 DEF Fine, Unborn, Locked, Journaled, Committed
  <2>8. OthersKeep(r)
    BY <1>0, <2>2, NoneAssumption DEF OthersKeep, WriteTypeOK, Grantable
  <2> QED
    BY <1>0, <2>1, <2>7, <2>8, QuietTable
<1>1. Fine(r) /\ (inp[r] # None => inp[r].op \in Op /\ (Changing(r) => inp[r].list \in List))
  BY InputTyped DEF TableInv, Changing
<1>2. CASE Position(r)
  <2>1. /\ pc[r] = "write" /\ inp[r].op \in {"create", "move"} /\ inp[r] # None
        /\ UNCHANGED <<list, journal, inp, begun, todo>>
    BY <1>2 DEF Position, WriteTypeOK
  <2>k. PICK k \in Key : \E l :
          /\ l = IF inp[r].op = "create" THEN Fresh[r] ELSE inp[r].list
          /\ ~KeyPending(k, r) /\ ~KeyTaken(k, l)
          /\ Wrote(r, IF inp[r].op = "create"
                      THEN [id |-> l, state |-> "live", pos |-> k, name |-> r, wip |-> r]
                      ELSE [list[l] EXCEPT !.pos = k])
          /\ lock' = [lock EXCEPT ![l] = r]
    BY <1>2 DEF Position, KeyBetween
  <2>2. PICK l :
          /\ l = IF inp[r].op = "create" THEN Fresh[r] ELSE inp[r].list
          /\ ~KeyPending(k, r) /\ ~KeyTaken(k, l)
          /\ Wrote(r, IF inp[r].op = "create"
                      THEN [id |-> l, state |-> "live", pos |-> k, name |-> r, wip |-> r]
                      ELSE [list[l] EXCEPT !.pos = k])
          /\ lock' = [lock EXCEPT ![l] = r]
    BY <2>k
  <2>3. /\ l \in List /\ l \notin Foreign
        /\ inp[r].op = "move" => Changing(r) /\ Found(r) /\ lock[l] = r
        /\ inp[r].op = "create" => list[l].state = "absent"
    <3>1. CASE inp[r].op = "create"
      BY <1>1, <2>1, <2>2, <3>1, InTxUncommitted, StartAssumption
         DEF StartAssumption, Fine, Unborn, InTx
    <3>2. CASE inp[r].op = "move"
      BY <1>1, <2>1, <2>2, <3>2 DEF Fine, Named, Locked, Changing, Found
    <3> QED
      BY <2>1, <3>1, <3>2
  <2>4. list[l] \in Row /\ list[l].id = l
    BY <2>3 DEF TableInv, WriteTypeOK
  <2>5. /\ want'[r].id = l /\ want'[r].pos = k
        /\ inp[r].op = "create" => want'[r].state = "live" /\ want'[r].name = r /\ want'[r].wip = r
        /\ inp[r].op = "move" => /\ want'[r].state = list[l].state
                                /\ want'[r].name = list[l].name /\ want'[r].wip = list[l].wip
    <3>1. /\ inp[r].op = "create" =>
                want'[r] = [id |-> l, state |-> "live", pos |-> k, name |-> r, wip |-> r]
          /\ inp[r].op = "move" => want'[r] = [list[l] EXCEPT !.pos = k]
      BY <2>2 DEF Wrote, WriteTypeOK
    <3> QED
      BY <2>1, <2>4, <3>1 DEF Row
  <2>6. Holds(r)'
    <3>1. lock'[l] = r
      BY <2>2, <2>3 DEF WriteTypeOK
    <3> QED
      BY <2>1, <2>2, <2>3, <2>5, <3>1 DEF Holds
  <2>7. KeyReserved(r)'
    <3>1. \A m \in List \ Foreign : m # l /\ list[m].state # "absent" => list[m].pos # k
      BY <2>2 DEF KeyTaken, OnBoard
    <3>2. ASSUME NEW q \in Request \ {r}, Placing(q)' PROVE want'[q].pos # k
      <4>1. pc'[q] = pc[q] /\ want'[q] = want[q] /\ inp'[q] = inp[q]
        BY <2>1, <2>2 DEF Wrote, Goto, WriteTypeOK
      <4>2. Placing(q)
        BY <3>2, <4>1 DEF Placing
      <4> QED
        BY <2>2, <4>1, <4>2 DEF KeyPending, Placing, PlaceOps
    <3> QED
      BY <2>1, <2>5, <3>1, <3>2 DEF KeyReserved
  <2> QED
    BY <1>0, <2>1, <2>2, <2>3, <2>6, <2>7 DEF Grantable
<1>3. CASE Rewrite(r)
  <2> DEFINE l == inp[r].list
  <2>1. /\ pc[r] = "write" /\ inp[r].op \in {"update", "archive"} /\ inp[r] # None
        /\ Grantable(l, r) /\ lock' = [lock EXCEPT ![l] = r]
        /\ Wrote(r, IF inp[r].op = "update" THEN Changed(r) ELSE [list[l] EXCEPT !.state = "archived"])
        /\ UNCHANGED <<list, journal, inp, begun, todo>>
    BY <1>3 DEF Rewrite, WriteTypeOK
  <2>2. Changing(r) /\ Found(r) /\ l \in List /\ l \notin Foreign
    BY <1>1, <2>1 DEF Fine, Named, Changing, Found
  <2>3. list[l] \in Row /\ list[l].id = l
    BY <2>2 DEF TableInv, WriteTypeOK
  <2>4. /\ want'[r].id = l /\ want'[r].pos = list[l].pos
        /\ want'[r].state = IF inp[r].op = "archive" THEN "archived" ELSE list[l].state
        /\ want'[r].name = IF inp[r].op = "update" /\ "name" \in inp[r].sets THEN r ELSE list[l].name
        /\ want'[r].wip = IF inp[r].op = "update" /\ "wip" \in inp[r].sets THEN r ELSE list[l].wip
    <3>1. want'[r] = IF inp[r].op = "update" THEN Changed(r) ELSE [list[l] EXCEPT !.state = "archived"]
      BY <2>1 DEF Wrote, WriteTypeOK
    <3>2. CASE inp[r].op = "archive"
      BY <2>3, <3>1, <3>2 DEF Row
    <3>3. CASE inp[r].op = "update"
      <4>1. \A n, w : LET u == [list[l] EXCEPT !.name = n, !.wip = w]
                      IN  /\ u.id = list[l].id /\ u.pos = list[l].pos /\ u.state = list[l].state
                          /\ u.name = n /\ u.wip = w
        BY <2>3 DEF Row
      <4> QED
        BY <2>3, <3>1, <3>3, <4>1 DEF Changed
    <3> QED
      BY <2>1, <3>2, <3>3
  <2>5. Holds(r)'
    <3>1. lock'[l] = r
      BY <2>1, <2>2 DEF WriteTypeOK
    <3> QED
      BY <2>1, <2>2, <2>4, <3>1 DEF Holds
  <2>6. KeyReserved(r)'
    BY <2>1 DEF KeyReserved, Placing, PlaceOps
  <2> QED
    BY <1>0, <2>1, <2>2, <2>5, <2>6
<1>4. CASE Collide(r)
  <2>1. pc[r] = "write" /\ UNCHANGED <<list, journal, inp, begun>> /\ inp[r].op \in {"create", "move"}
    BY <1>4 DEF Collide
  <2>2. CASE \E code : Fail(r, code)
    BY <2>1, <2>2, FailTable DEF InTx
  <2>3. CASE ~\E code : Fail(r, code)
    <3>1. EndAttempt(r) /\ pc' = [pc EXCEPT ![r] = First(inp[r].op)] /\ UNCHANGED want
      BY <1>4, <2>3 DEF Collide, Goto
    <3>2. pc'[r] = IF inp[r].op = "create" THEN "lock" ELSE "find"
      BY <3>1 DEF WriteTypeOK, First
    <3>3. ~Found(r)' /\ Changing(r)' = Changing(r) /\ ~Committed(r)
      BY <2>1, <3>2, InTxUncommitted DEF Found, Changing, InTx
    <3>4. Fine(r)'
      BY <1>1, <2>1, <3>2, <3>3
         DEF Fine, Named, Unborn, Locked, Holds, KeyReserved, Placing, Timely, Journaled, Committed
    <3>5. OthersKeep(r)
      BY <2>1, <3>1, EndTyped DEF OthersKeep, WriteTypeOK
    <3> QED
      BY <2>1, <3>3, <3>4, <3>5, QuietTable
  <2> QED
    BY <2>2, <2>3
<1> QED
  BY <1>2, <1>3, <1>4

-----------------------------------------------------------------------------
(* The commit.                                                             *)

(* The journal grows by r: every turn is an old one or the last.           *)
LEMMA JournalGrows ==
  ASSUME journal \in Seq(Request), Ordered, NEW r \in Request, journal' = Append(journal, r)
  PROVE  /\ DOMAIN journal' = 1 .. Len(journal) + 1 /\ Len(journal') = Len(journal) + 1
         /\ DOMAIN journal = 1 .. Len(journal) /\ Len(journal) \in Nat
         /\ journal'[Len(journal) + 1] = r
         /\ \A j \in DOMAIN journal : journal[j] \in Request /\ journal'[j] = journal[j]
         /\ \A q : Committed(q)' <=> Committed(q) \/ q = r
         /\ \A S : Turns(S)' = IF r \in S THEN Turns(S) \union {Len(journal) + 1} ELSE Turns(S)
         /\ Ordered'
<1>1. /\ DOMAIN journal' = 1 .. Len(journal) + 1 /\ Len(journal') = Len(journal) + 1
      /\ DOMAIN journal = 1 .. Len(journal) /\ Len(journal) \in Nat
      /\ journal'[Len(journal) + 1] = r
      /\ \A j \in DOMAIN journal : journal[j] \in Request /\ journal'[j] = journal[j]
  OBVIOUS
<1>2. \A q : Committed(q)' <=> Committed(q) \/ q = r
  BY <1>1 DEF Committed
<1>3. \A S : Turns(S)' = IF r \in S THEN Turns(S) \union {Len(journal) + 1} ELSE Turns(S)
  BY <1>1 DEF Turns
<1>4. ASSUME NEW S \in SUBSET Request, Turns(S)' # {}
      PROVE  \E k \in Turns(S)' : \A j \in Turns(S)' : j <= k
  <2>1. \A j \in Turns(S) : j \in Nat /\ j <= Len(journal)
    BY <1>1 DEF Turns
  <2>2. CASE r \in S
    BY <1>1, <1>3, <2>1, <2>2
  <2>3. CASE r \notin S
    BY <1>3, <1>4, <2>3 DEF Ordered
  <2> QED
    BY <2>2, <2>3
<1>5. Ordered'
  BY <1>4 DEF Ordered
<1> QED
  BY <1>1, <1>2, <1>3, <1>5

(* .. and the last of S is r, if r is one of S, or who it was.             *)
LEMMA LastGrows ==
  ASSUME journal \in Seq(Request), Ordered, NEW r \in Request, journal' = Append(journal, r)
  PROVE  \A S \in SUBSET Request : LastOf(S)' = IF r \in S THEN r ELSE LastOf(S)
<1> SUFFICES ASSUME NEW S \in SUBSET Request
             PROVE  LastOf(S)' = IF r \in S THEN r ELSE LastOf(S)
  OBVIOUS
<1> DEFINE Latest(T) == CHOOSE k \in T : \A j \in T : j <= k
<1>1. LastOf(S) = IF Turns(S) = {} THEN None ELSE journal[Latest(Turns(S))]
  BY DEF LastOf, Turns
<1>2. LastOf(S)' = IF Turns(S)' = {} THEN None ELSE journal'[Latest(Turns(S)')]
  BY DEF LastOf, Turns
<1>3. \A T : (\E k \in T : \A j \in T : j <= k) => Latest(T) \in T /\ \A j \in T : j <= Latest(T)
  OBVIOUS
<1> HIDE DEF Latest
<1>4. CASE r \in S
  <2>1. Turns(S)' = Turns(S) \union {Len(journal) + 1}
    BY <1>4, JournalGrows
  <2>2. \A j \in Turns(S) : j \in 1 .. Len(journal)
    BY JournalGrows DEF Turns
  <2>3. PICK T : T = Turns(S) \union {Len(journal) + 1}
    OBVIOUS
  <2>4. Len(journal) + 1 \in T /\ \A j \in T : j \in Nat /\ j <= Len(journal) + 1
    BY <2>2, <2>3, JournalGrows
  <2>5. Latest(T) \in T /\ \A j \in T : j <= Latest(T)
    <3>1. \E k \in T : \A j \in T : j <= k
      BY <2>4
    <3> QED
      BY <1>3, <3>1
  <2>6. Latest(T) = Len(journal) + 1
    BY <2>4, <2>5
  <2>7. LastOf(S)' = journal'[Latest(T)]
    BY <1>2, <2>1, <2>3, <2>4
  <2> QED
    BY <1>4, <2>6, <2>7, JournalGrows
<1>5. CASE r \notin S
  <2>1. Turns(S)' = Turns(S)
    BY <1>5, JournalGrows
  <2>2. Turns(S) # {} => Latest(Turns(S)) \in DOMAIN journal
    BY <1>3 DEF Ordered, Turns
  <2> QED
    BY <1>1, <1>2, <1>5, <2>1, <2>2, JournalGrows
<1> QED
  BY <1>4, <1>5

(* A commit leaves the other requests' claims as they are.                 *)
LEMMA CommitFine ==
  ASSUME WriteTypeOK, Stages, TableInv, NEW r \in Request, Commit(r)
  PROVE  \A q \in Request : Fine(q)'
<1>1. /\ pc[r] = "commit"
      /\ list' = [list EXCEPT ![want[r].id] = want[r]]
      /\ journal' = Append(journal, r)
      /\ EndAttempt(r)
      /\ pc' = [pc EXCEPT ![r] = "tell"]
      /\ UNCHANGED <<inp, begun, want>>
  BY DEF Commit, Goto
<1>2. /\ want[r] \in Row /\ want[r].id \in List /\ inp[r] # None /\ inp[r].op \in Op
      /\ Fine(r) /\ ~Committed(r) /\ (Changing(r) => inp[r].list \in List)
  BY <1>1, InTxUncommitted, InputTyped DEF WriteTypeOK, Row, InTx, TableInv, Changing
<1>3. \A l \in List : list'[l] = IF l = want[r].id THEN want[r] ELSE list[l]
  BY <1>1 DEF WriteTypeOK
<1>4. want[r].state # "absent"
  BY <1>1, <1>2 DEF Fine, Holds, Named, Changing
<1>5. /\ journal \in Seq(Request) /\ Ordered
      /\ \A q : Committed(q)' <=> Committed(q) \/ q = r
      /\ DOMAIN journal' = 1 .. Len(journal) + 1 /\ Len(journal') = Len(journal) + 1
      /\ DOMAIN journal = 1 .. Len(journal) /\ Len(journal) \in Nat
      /\ journal'[Len(journal) + 1] = r
      /\ \A j \in DOMAIN journal : journal[j] \in Request /\ journal'[j] = journal[j]
  BY <1>1, JournalGrows DEF WriteTypeOK, TableInv
<1>6. /\ todo'[r] = {} /\ pc'[r] = "tell"
      /\ \A q \in Request \ {r} : todo'[q] = todo[q] /\ pc'[q] = pc[q]
      /\ \A l \in List : lock[l] # r => lock'[l] = lock[l]
  BY <1>1, EndTyped DEF WriteTypeOK
<1>7. ASSUME NEW q \in Request PROVE Fine(q)'
  <2>1. Fine(q) /\ (Changing(q) => inp[q].list \in List) /\ Fresh[q] \in List
    BY InputTyped, StartAssumption DEF TableInv, Changing, StartAssumption
  <2>2. Changing(q)' = Changing(q) /\ (Found(q)' => Found(q)) /\ (Placing(q)' => Placing(q) /\ q # r)
    BY <1>1, <1>6 DEF Changing, Found, Placing
  <2>3. Named(q)'
    <3>1. Changing(q) => list'[inp[q].list].state # "absent"
      BY <1>3, <1>4, <2>1 DEF Fine, Named
    <3> QED
      BY <1>1, <2>1, <2>2, <3>1 DEF Fine, Named
  <2>4. Unborn(q)'
    <3> SUFFICES ASSUME list'[Fresh[q]].state # "absent" PROVE Committed(q)'
      BY StartAssumption DEF Unborn
    <3>1. CASE list[Fresh[q]].state # "absent"
      BY <1>5, <2>1, <3>1 DEF Fine, Unborn
    <3>2. CASE list[Fresh[q]].state = "absent"
      <4>1. want[r].id = Fresh[q]
        BY <1>3, <2>1, <3>2
      <4>2. inp[r].op = "create"
        BY <1>1, <1>2, <3>2, <4>1 DEF Fine, Named, Holds, Changing
      <4>3. Fresh[r] = Fresh[q]
        BY <1>1, <1>2, <4>1, <4>2 DEF Fine, Holds
      <4> QED
        BY <1>5, <4>3, StartAssumption DEF StartAssumption
    <3> QED
      BY <3>1, <3>2
  <2>5. Locked(q)'
    <3>1. CASE q = r
      BY <1>6, <3>1 DEF Locked
    <3>2. CASE q # r
      BY <1>1, <1>6, <2>1, <2>2, <3>2 DEF Fine, Locked
    <3> QED
      BY <3>1, <3>2
  <2>6. Holds(q)'
    <3> SUFFICES ASSUME pc'[q] = "commit" PROVE Holds(q)'
      BY DEF Holds
    <3>1. q # r /\ pc[q] = "commit" /\ inp[q] # None /\ want[q] \in Row
      BY <1>6 DEF WriteTypeOK
    <3>2. CASE inp[q].op = "create"
      BY <1>1, <2>1, <3>1, <3>2 DEF Fine, Holds
    <3>3. CASE inp[q].op # "create"
      <4>1. /\ lock[inp[q].list] = q /\ inp[q].list \in List /\ want[q].id = inp[q].list
            /\ list[inp[q].list].state # "absent"
        BY <2>1, <3>1, <3>3 DEF Fine, Holds, Named, Changing
      <4>2. want[r].id # inp[q].list
        BY <1>1, <1>2, <3>1, <4>1 DEF Fine, Holds, Unborn
      <4>3. list'[want[q].id] = list[want[q].id] /\ lock'[inp[q].list] = q
        BY <1>3, <1>6, <3>1, <4>1, <4>2
      <4> QED
        BY <1>1, <2>1, <3>1, <3>3, <4>3 DEF Fine, Holds
    <3> QED
      BY <3>2, <3>3
  <2>7. KeyReserved(q)'
    <3> SUFFICES ASSUME Placing(q)' PROVE KeyReserved(q)'
      BY DEF KeyReserved
    <3>1. q # r /\ Placing(q) /\ want'[q] = want[q]
      BY <1>1, <2>2
    <3>2. ASSUME NEW m \in List \ Foreign, m # want[q].id, list'[m].state # "absent"
          PROVE  list'[m].pos # want[q].pos
      <4>1. CASE m = want[r].id
        <5>1. list'[m] = want[r]
          BY <1>3, <4>1
        <5>2. CASE inp[r].op \in PlaceOps
          <6>1. Placing(r)
            BY <1>1, <5>2 DEF Placing
          <6> QED
            BY <2>1, <3>1, <5>1, <6>1 DEF Fine, KeyReserved
        <5>3. CASE inp[r].op \notin PlaceOps
          <6>1. /\ want[r].pos = list[m].pos /\ list[m].state # "absent"
            BY <1>1, <1>2, <4>1, <5>3 DEF Fine, Holds, Named, Changing, PlaceOps
          <6> QED
            BY <2>1, <3>1, <3>2, <5>1, <6>1 DEF Fine, KeyReserved
        <5> QED
          BY <5>2, <5>3
      <4>2. CASE m # want[r].id
        BY <1>3, <2>1, <3>1, <3>2, <4>2 DEF Fine, KeyReserved
      <4> QED
        BY <4>1, <4>2
    <3>3. ASSUME NEW t \in Request \ {q}, Placing(t)' PROVE want'[t].pos # want[q].pos
      <4>1. Placing(t) /\ want'[t] = want[t]
        BY <1>1, <1>6, <3>3 DEF Placing
      <4> QED
        BY <2>1, <3>1, <4>1 DEF Fine, KeyReserved
    <3> QED
      BY <3>1, <3>2, <3>3 DEF KeyReserved
  <2>8. Timely(q)'
    <3>1. begun'[q] = begun[q] /\ begun[q] \in Nat /\ begun[q] <= Len(journal)
      BY <1>1, <2>1 DEF WriteTypeOK, Fine, Timely
    <3>2. ASSUME Found(q), NEW j \in DOMAIN journal', inp[journal'[j]].op = "archive",
                 want[journal'[j]].id = inp[q].list
          PROVE  begun[q] < j
      <4>1. CASE j \in DOMAIN journal
        BY <1>5, <2>1, <3>2, <4>1 DEF Fine, Timely
      <4>2. CASE j \notin DOMAIN journal
        BY <1>5, <3>1, <4>2
      <4> QED
        BY <4>1, <4>2
    <3> QED
      BY <1>1, <1>5, <2>2, <3>1, <3>2 DEF Timely
  <2>9. Journaled(q)'
    BY <1>5, <1>6, <2>1 DEF Fine, Journaled
  <2> QED
    BY <2>3, <2>4, <2>5, <2>6, <2>7, <2>8, <2>9 DEF Fine
<1> QED
  BY <1>7

(* A commit writes the requested columns of one row and no others.         *)
LEMMA CommitTable ==
  ASSUME WriteTypeOK, Stages, TableInv, NEW r \in Request, Commit(r)
  PROVE  TableInv'
<1> DEFINE w == want[r].id
<1>1. /\ pc[r] = "commit"
      /\ list' = [list EXCEPT ![w] = want[r]]
      /\ journal' = Append(journal, r)
      /\ UNCHANGED <<inp, begun, want>>
  BY DEF Commit
<1>2. /\ want[r] \in Row /\ w \in List /\ inp[r] # None /\ inp[r].op \in Op
      /\ Fine(r) /\ ~Committed(r)
  <2>1. want[r] \in Row /\ inp[r] # None
    BY <1>1 DEF WriteTypeOK
  <2>2. w \in List /\ inp[r].op \in Op
    BY <2>1, InputTyped DEF Row
  <2>3. Fine(r) /\ ~Committed(r)
    BY <1>1, InTxUncommitted DEF InTx, TableInv
  <2> QED
    BY <2>1, <2>2, <2>3
<1>3. \A l \in List : list'[l] = IF l = w THEN want[r] ELSE list[l]
  BY <1>1 DEF WriteTypeOK
<1>4. /\ journal \in Seq(Request) /\ Ordered /\ Ordered'
      /\ \A q : Committed(q)' <=> Committed(q) \/ q = r
      /\ DOMAIN journal' = 1 .. Len(journal) + 1
      /\ DOMAIN journal = 1 .. Len(journal) /\ Len(journal) \in Nat
      /\ journal'[Len(journal) + 1] = r
      /\ \A j \in DOMAIN journal : journal[j] \in Request /\ journal'[j] = journal[j]
      /\ \A S \in SUBSET Request : LastOf(S)' = IF r \in S THEN r ELSE LastOf(S)
  BY <1>1, JournalGrows, LastGrows DEF WriteTypeOK, TableInv
<1>5. w \notin Foreign /\ (inp[r].op = "create" => w = Fresh[r] /\ list[w].state = "absent")
  BY <1>1, <1>2 DEF Fine, Holds, Unborn
<1>6. ListPositionsUnique'
  <2> SUFFICES ASSUME NEW l \in List \ Foreign, NEW m \in List \ Foreign, l # m,
                      list'[l].state # "absent", list'[m].state # "absent"
               PROVE  list'[l].pos # list'[m].pos
    BY DEF ListPositionsUnique
  <2>1. \A x, y \in List \ Foreign :
          x # y /\ list[x].state # "absent" /\ list[y].state # "absent" => list[x].pos # list[y].pos
    BY DEF TableInv, ListPositionsUnique
  <2>2. ASSUME NEW m1 \in List \ Foreign, m1 # w, list[m1].state # "absent"
        PROVE  want[r].pos # list[m1].pos
    <3>1. CASE inp[r].op \in PlaceOps
      BY <1>1, <1>2, <2>2, <3>1 DEF Fine, KeyReserved, Placing
    <3>2. CASE inp[r].op \notin PlaceOps
      <4>1. want[r].pos = list[w].pos /\ list[w].state # "absent"
        BY <1>1, <1>2, <3>2 DEF Fine, Holds, Named, Changing, PlaceOps
      <4> QED
        BY <1>2, <1>5, <2>1, <2>2, <4>1
    <3> QED
      BY <3>1, <3>2
  <2> QED
    BY <1>3, <2>1, <2>2
<1>7. ASSUME NEW l, NEW op, NEW f
      PROVE  Writers(l, op, f)' = IF l = w /\ inp[r].op = op /\ (op = "update" => f \in inp[r].sets)
                                 THEN Writers(l, op, f) \union {r} ELSE Writers(l, op, f)
  BY <1>1, <1>4 DEF Writers
<1>8. \A l, op, f : Writers(l, op, f) \in SUBSET Request /\ r \notin Writers(l, op, f)
  BY <1>2 DEF Writers
<1>9. ASSUME NEW l \in List \ Foreign PROVE LastWritten(l)'
  <2>1. LastWritten(l)
    BY DEF TableInv
  <2>2. /\ Makers(l, "name") \in SUBSET Request /\ r \notin Makers(l, "name")
        /\ Makers(l, "wip") \in SUBSET Request /\ r \notin Makers(l, "wip")
        /\ Placers(l) \in SUBSET Request /\ r \notin Placers(l)
    BY <1>8 DEF Makers, Placers
  <2>3. LastOf(Placers(l)) # None => LastOf(Placers(l)) # r
    <3>1. PICK S \in SUBSET Request : S = Placers(l)
      BY <2>2
    <3>2. Turns(S) # {} => \E k \in Turns(S) : \A j \in Turns(S) : j <= k
      BY <1>4 DEF Ordered
    <3>3. LastOf(S) # None => LastOf(S) \in S
      BY <3>2 DEF LastOf, Turns
    <3> QED
      BY <2>2, <3>1, <3>3
  <2>4. CASE l # w
    <3>1. /\ Makers(l, "name")' = Makers(l, "name") /\ Makers(l, "wip")' = Makers(l, "wip")
          /\ Placers(l)' = Placers(l)
      BY <1>7, <2>4 DEF Makers, Placers
    <3>2. /\ LastOf(Makers(l, "name"))' = LastOf(Makers(l, "name"))
          /\ LastOf(Makers(l, "wip"))' = LastOf(Makers(l, "wip"))
          /\ LastOf(Placers(l))' = LastOf(Placers(l))
      BY <1>4, <2>2, <3>1
    <3>3. list'[l] = list[l]
      BY <1>3, <2>4
    <3> QED
      BY <1>1, <1>7, <2>1, <2>4, <3>2, <3>3 DEF LastWritten
  <2>5. CASE l = w
    <3>1. list'[l] = want[r]
      BY <1>3, <2>5
    <3>2. Holds(r)
      BY <1>2 DEF Fine
    <3>3. list'[l].name = LastOf(Makers(l, "name"))'
      <4>1. Makers(l, "name")' =
              IF inp[r].op = "create" \/ (inp[r].op = "update" /\ "name" \in inp[r].sets)
              THEN Makers(l, "name") \union {r} ELSE Makers(l, "name")
        BY <1>7, <2>5 DEF Makers
      <4>2. LastOf(Makers(l, "name"))' =
              IF inp[r].op = "create" \/ (inp[r].op = "update" /\ "name" \in inp[r].sets)
              THEN r ELSE LastOf(Makers(l, "name"))
        BY <1>4, <2>2, <4>1
      <4> QED
        BY <1>1, <2>1, <2>5, <3>1, <3>2, <4>2 DEF LastWritten, Holds
    <3>4. list'[l].wip = LastOf(Makers(l, "wip"))'
      <4>1. Makers(l, "wip")' =
              IF inp[r].op = "create" \/ (inp[r].op = "update" /\ "wip" \in inp[r].sets)
              THEN Makers(l, "wip") \union {r} ELSE Makers(l, "wip")
        BY <1>7, <2>5 DEF Makers
      <4>2. LastOf(Makers(l, "wip"))' =
              IF inp[r].op = "create" \/ (inp[r].op = "update" /\ "wip" \in inp[r].sets)
              THEN r ELSE LastOf(Makers(l, "wip"))
        BY <1>4, <2>2, <4>1
      <4> QED
        BY <1>1, <2>1, <2>5, <3>1, <3>2, <4>2 DEF LastWritten, Holds
    <3>5. list'[l].pos = IF LastOf(Placers(l))' = None THEN Start[l].pos
                         ELSE want[LastOf(Placers(l))'].pos
      <4>1. Placers(l)' = IF inp[r].op \in PlaceOps THEN Placers(l) \union {r} ELSE Placers(l)
        BY <1>7, <2>5 DEF Placers, PlaceOps
      <4>2. LastOf(Placers(l))' = IF inp[r].op \in PlaceOps THEN r ELSE LastOf(Placers(l))
        BY <1>4, <2>2, <4>1
      <4>3. inp[r].op \notin PlaceOps => want[r].pos = list[l].pos
        BY <1>1, <2>5, <3>2 DEF Holds, PlaceOps
      <4> QED
        BY <2>1, <3>1, <4>2, <4>3, NoneAssumption DEF LastWritten
    <3>6. list'[l].state = IF Writers(l, "archive", "state")' # {} THEN "archived"
                           ELSE IF Writers(l, "create", "state")' # {} THEN "live"
                           ELSE Start[l].state
      <4>1. CASE inp[r].op = "archive"
        BY <1>1, <1>7, <2>5, <3>1, <3>2, <4>1 DEF Holds
      <4>2. CASE inp[r].op = "create"
        <5>1. Writers(l, "archive", "state") = {}
          BY <1>5, <2>1, <2>5, <4>2 DEF LastWritten
        <5> QED
          BY <1>1, <1>7, <2>5, <3>1, <3>2, <4>2, <5>1 DEF Holds
      <4>3. CASE inp[r].op \notin {"archive", "create"}
        BY <1>1, <1>7, <2>1, <2>5, <3>1, <3>2, <4>3 DEF Holds, LastWritten
      <4> QED
        BY <4>1, <4>2, <4>3
    <3> QED
      BY <1>1, <3>3, <3>4, <3>5, <3>6 DEF LastWritten
  <2> QED
    BY <2>4, <2>5
<1>10. ClosedListsTakeNoNews'
  <2> SUFFICES ASSUME NEW j \in DOMAIN journal', NEW k \in DOMAIN journal', j < k,
                      inp[journal'[j]].op = "archive", want[journal'[k]].id = want[journal'[j]].id
               PROVE  begun[journal'[k]] < j
    BY <1>1 DEF ClosedListsTakeNoNews
  <2>1. j \in DOMAIN journal /\ journal'[j] = journal[j] /\ journal[j] \in Request
    BY <1>4
  <2>2. CASE k \in DOMAIN journal
    BY <1>4, <2>1, <2>2 DEF TableInv, ClosedListsTakeNoNews
  <2>3. CASE k \notin DOMAIN journal
    <3>1. journal'[k] = r
      BY <1>4, <2>3
    <3>2. journal[j] \in Writers(w, "archive", "state")
      BY <2>1, <3>1 DEF Writers, Committed
    <3>3. list[w].state = "archived"
      BY <1>2, <1>5, <3>2 DEF TableInv, LastWritten
    <3>4. Found(r) /\ inp[r].list = w
      BY <1>1, <1>2, <1>5, <3>3 DEF Found, Changing, Fine, Holds
    <3> QED
      BY <1>2, <2>1, <3>1, <3>4 DEF Fine, Timely
  <2> QED
    BY <2>2, <2>3
<1>11. \A l \in List : list'[l].id = l
  BY <1>2, <1>3 DEF TableInv
<1> QED
  BY <1>4, <1>6, <1>9, <1>10, <1>11, CommitFine DEF TableInv

(* Every step of the writers keeps the table's invariant.                  *)
LEMMA WriterTable ==
  ASSUME WriteTypeOK, Stages, TableInv, NEW r \in Request, Ask(r) \/ InTransaction(r) \/ Commit(r)
  PROVE  TableInv'
<1>1. CASE DeadlockVictim(r) \/ TimeOut(r)
  BY <1>1, FailTable, WaiterInTx DEF DeadlockVictim, TimeOut, InTx
<1> QED
  BY <1>1, AskTable, ReadTable, WriteTable, CommitTable DEF InTransaction

(* .. as does a step that at most answers a request that has committed.    *)
LEMMA OtherTable ==
  ASSUME WriteTypeOK, TableInv, UNCHANGED <<list, journal, inp, begun, want, todo, lock>>,
         \A q \in Request : pc'[q] = pc[q] \/ (pc[q] = "tell" /\ pc'[q] = "done")
  PROVE  TableInv'
<1>1. \A q \in Request : Committed(q)' = Committed(q)
  BY DEF Committed
<1>2. ASSUME NEW q \in Request PROVE Fine(q)'
  <2>1. Fine(q)
    BY DEF TableInv
  <2>2. \A p \in Request : /\ Changing(p)' = Changing(p) /\ Found(p)' = Found(p)
                           /\ Placing(p)' = Placing(p)
    BY DEF Changing, Found, Placing
  <2>3. KeyReserved(q)'
    BY <2>1, <2>2 DEF Fine, KeyReserved
  <2>4. Named(q)' /\ Unborn(q)' /\ Locked(q)' /\ Timely(q)' /\ Journaled(q)'
    BY <1>1, <2>1, <2>2 DEF Fine, Named, Unborn, Locked, Timely, Journaled
  <2>5. Holds(q)'
    BY <2>1 DEF Fine, Holds
  <2> QED
    BY <2>3, <2>4, <2>5 DEF Fine
<1>3. \A l, op, f : Writers(l, op, f)' = Writers(l, op, f)
  BY <1>1 DEF Writers
<1>4. \A S : LastOf(S)' = LastOf(S)
  BY DEF LastOf
<1>5. ASSUME NEW l \in List \ Foreign PROVE LastWritten(l)'
  <2>1. /\ Makers(l, "name")' = Makers(l, "name") /\ Makers(l, "wip")' = Makers(l, "wip")
        /\ Placers(l)' = Placers(l)
    BY <1>3 DEF Makers, Placers
  <2>2. /\ LastOf(Makers(l, "name"))' = LastOf(Makers(l, "name"))
        /\ LastOf(Makers(l, "wip"))' = LastOf(Makers(l, "wip"))
        /\ LastOf(Placers(l))' = LastOf(Placers(l))
    BY <1>4, <2>1
  <2> QED
    BY <1>3, <2>2 DEF TableInv, LastWritten
<1> QED
  BY <1>2, <1>5 DEF TableInv, Ordered, Turns, ListPositionsUnique, ClosedListsTakeNoNews

(* The table as it starts.                                                 *)
LEMMA TableInit ==
  ASSUME WriteInit
  PROVE  WriteTypeOK /\ Stages /\ TableInv
<1>1. WriteTypeOK
  BY StartAssumption, BoundsAssumption, NoneAssumption
     DEF StartAssumption, WriteInit, StoreInit, WriteTypeOK, Row
<1>2. Stages
  BY DEF WriteInit, StoreInit, Stages, Stage
<1>3. /\ \A r : ~Committed(r)
      /\ \A S : Turns(S) = {} /\ LastOf(S) = None
  BY DEF WriteInit, StoreInit, Committed, Turns, LastOf
<1>4. ASSUME NEW r \in Request PROVE Fine(r)
  BY <1>3, StartAssumption
     DEF StartAssumption, WriteInit, StoreInit, Fine, Named, Unborn, Locked, Holds, KeyReserved, Timely,
         Journaled, Changing, Found, Placing
<1>5. ASSUME NEW l \in List \ Foreign PROVE LastWritten(l)
  <2>1. \A op, f : Writers(l, op, f) = {}
    BY <1>3 DEF Writers
  <2> QED
    BY <1>3, <2>1 DEF WriteInit, StoreInit, LastWritten
<1>6. ListPositionsUnique
  BY StartAssumption DEF StartAssumption, WriteInit, StoreInit, ListPositionsUnique
<1>7. ClosedListsTakeNoNews
  BY DEF WriteInit, StoreInit, ClosedListsTakeNoNews
<1>8. Ordered
  BY <1>3 DEF Ordered
<1>9. \A l \in List : list[l].id = l
  BY DEF WriteInit, StoreInit
<1> QED
  BY <1>1, <1>2, <1>4, <1>5, <1>6, <1>7, <1>8, <1>9 DEF TableInv

-----------------------------------------------------------------------------
(* The steps of Next, as far as the table is concerned.                    *)

(* What the steps after the commits and those of the watchers do to it.    *)
OtherStep ==
  /\ UNCHANGED <<list, line, journal, inp, attempt, begun, tx>>
  /\ clock' \in 0 .. MaxTime /\ faults' \in 0 .. MaxFaults
  /\ \/ UNCHANGED <<pc, ans>>
     \/ \E r \in Request, code \in Code : /\ pc[r] = "tell" /\ pc' = [pc EXCEPT ![r] = "done"]
                                         /\ ans' = [ans EXCEPT ![r] = code]

(* .. which keeps the types,                                               *)
LEMMA OtherTyped ==
  ASSUME WriteTypeOK, Stages, OtherStep
  PROVE  WriteTypeOK' /\ Stages'
<1>1. CASE UNCHANGED <<pc, ans>>
  BY <1>1 DEF OtherStep, WriteTypeOK, Stages, Stage, tx
<1>2. CASE \E r \in Request, code \in Code : /\ pc[r] = "tell" /\ pc' = [pc EXCEPT ![r] = "done"]
                                           /\ ans' = [ans EXCEPT ![r] = code]
  <2>1. PICK r \in Request, code \in Code : /\ pc[r] = "tell" /\ pc' = [pc EXCEPT ![r] = "done"]
                                          /\ ans' = [ans EXCEPT ![r] = code]
    BY <1>2
  <2>2. UNCHANGED <<list, line, journal, inp, attempt, begun, todo, read, want, lock>>
    BY DEF OtherStep, tx
  <2>3. ASSUME NEW q \in Request
        PROVE  /\ pc'[q] = "idle" <=> inp[q] = None
               /\ pc'[q] = "done" <=> ans'[q] # None
               /\ pc'[q] \in {"commit", "tell"} => want[q] # None
               /\ pc'[q] \in {"idle", "tell", "done"} => \A l \in List : lock[l] # q
               /\ Stage(q)'
    BY <2>1, <2>2, NoneAssumption DEF WriteTypeOK, Stages, Stage
  <2>4. /\ pc' \in [Request -> {"idle", "find", "lock", "locking", "write", "commit", "tell", "done"}]
        /\ ans' \in [Request -> Code \union {None}]
    BY <2>1 DEF WriteTypeOK
  <2>5. WriteTypeOK'
    BY <2>2, <2>3, <2>4 DEF OtherStep, WriteTypeOK
  <2> QED
    BY <2>3, <2>5 DEF Stages
<1> QED
  BY <1>1, <1>2 DEF OtherStep

(* .. and is what every step is that is not a writer's.                    *)
LEMMA NextOther ==
  ASSUME WriteTypeOK, [Next]_vars,
         \A r \in Request : ~(Ask(r) \/ InTransaction(r) \/ Commit(r))
  PROVE  OtherStep
<1>1. clock \in 0 .. MaxTime /\ faults \in 0 .. MaxFaults
  BY DEF WriteTypeOK
<1>2. faults < MaxFaults => faults + 1 \in 0 .. MaxFaults
  BY <1>1, BoundsAssumption
<1>3. ASSUME NEW r \in Request, TellLine(r) PROVE OtherStep
  BY <1>1, <1>2, <1>3 DEF TellLine, OtherStep
<1>4. ASSUME NEW r \in Request, TellList(r) PROVE OtherStep
  <2>1. \E code \in Code : ans' = [ans EXCEPT ![r] = code]
    BY <1>4 DEF TellList, Code
  <2> QED
    BY <1>1, <1>2, <1>4, <2>1 DEF TellList, OtherStep, Goto
<1>5. CASE Tick
  <2>1. clock' \in 0 .. MaxTime
    BY <1>1, <1>5, BoundsAssumption DEF Tick
  <2> QED
    BY <1>1, <1>5, <2>1 DEF Tick, OtherStep
<1>6. CASE Drop
  BY <1>1, <1>2, <1>6 DEF Drop, OtherStep
<1>7. CASE UNCHANGED writeVars
  BY <1>1, <1>7 DEF writeVars, tx, OtherStep
<1> QED
  BY <1>3, <1>4, <1>5, <1>6, <1>7
     DEF Next, Write, ReadPage, RenderBoard, RenderFeed, JoinRead, JoinEnter, Deliver, vars

(* The inductive invariant of the lists table: what every open transaction *)
(* has locked, written and reserved fits the committed rows, and these are *)
(* what the journal says.                                                  *)
THEOREM TableInvariant == Spec => [](WriteTypeOK /\ Stages /\ TableInv)
<1>1. Init => WriteTypeOK /\ Stages /\ TableInv
  BY TableInit DEF Init
<1>2. WriteTypeOK /\ Stages /\ TableInv /\ [Next]_vars => (WriteTypeOK /\ Stages /\ TableInv)'
  <2> SUFFICES ASSUME WriteTypeOK, Stages, TableInv, [Next]_vars
               PROVE  WriteTypeOK' /\ Stages' /\ TableInv'
    OBVIOUS
  <2>1. ASSUME NEW r \in Request, Ask(r) \/ InTransaction(r) \/ Commit(r)
        PROVE  WriteTypeOK' /\ Stages' /\ TableInv'
    BY <2>1, WriterTyped, WriterTable
  <2>2. CASE OtherStep
    <3>1. UNCHANGED <<list, journal, inp, begun, want, todo, lock>>
      BY <2>2 DEF OtherStep, tx
    <3>2. \A q \in Request : pc'[q] = pc[q] \/ (pc[q] = "tell" /\ pc'[q] = "done")
      BY <2>2 DEF OtherStep, WriteTypeOK
    <3> QED
      BY <2>2, <3>1, <3>2, OtherTyped, OtherTable
  <2> QED
    BY <2>1, <2>2, NextOther
<1> QED
  BY <1>1, <1>2, PTL DEF Spec

(* moveList and createList: two lists of the board never share a position, *)
(* archived ones included, although updateList and archiveList take no     *)
(* lock on the board.                                                      *)
THEOREM ListOrderIsTotal == Spec => []ListPositionsUnique
<1>1. TableInv => ListPositionsUnique
  BY DEF TableInv
<1> QED
  BY <1>1, TableInvariant, PTL

(* updateList, moveList and archiveList: a list has no version, and still  *)
(* no write takes back another's column: each column is what its last      *)
(* writer in commit order has set.                                         *)
THEOREM ColumnsNotTakenBack == Spec => []EachColumnLastWritten
<1>1. TableInv => EachColumnLastWritten
  BY LastWrittenIsProperty DEF TableInv
<1> QED
  BY <1>1, TableInvariant, PTL

(* archiveList: what is written to an archived list was asked for before   *)
(* the archiving committed.                                                *)
THEOREM ClosedMeansClosed == Spec => []ClosedListsTakeNoNews
<1>1. TableInv => ClosedListsTakeNoNews
  BY DEF TableInv
<1> QED
  BY <1>1, TableInvariant, PTL

-----------------------------------------------------------------------------
(* ListWrites keeps the promise of ListStore.                              *)

(* The rows a lock read has returned are the committed ones, and locked.   *)
ReadTrue(r) ==
  /\ read[r] # {} => pc[r] \in {"locking", "write", "commit"}
  /\ \A s \in todo[r] : OnBoard(s.id)
  /\ \A s \in read[r] : OnBoard(s.id) /\ list[s.id] = s /\ lock[s.id] = r

(* The key of a list that is placed lies above the lower bound that its    *)
(* own lock read gives.                                                    *)
PlacedAbove(r) ==
  Placing(r) => AnchorKnown(r) /\ want[r].pos \in Key /\ Lower(r) < want[r].pos

AllTrue == \A r \in Request : ReadTrue(r) /\ PlacedAbove(r)

(* A step of a writer takes nothing from the others.                       *)
LEMMA WriterOthers ==
  ASSUME WriteTypeOK, Stages, TableInv, NEW r \in Request,
         Ask(r) \/ InTransaction(r) \/ Commit(r)
  PROVE  OthersKeep(r) /\ \A q \in Request \ {r} : read'[q] = read[q]
<1> USE DEF Goto
<1>1. ASSUME EndAttempt(r), \E l : pc' = [pc EXCEPT ![r] = l],
             want' = want \/ \E w : want' = [want EXCEPT ![r] = w], UNCHANGED <<inp, begun>>
      PROVE  OthersKeep(r) /\ \A q \in Request \ {r} : read'[q] = read[q]
  BY <1>1, EndTyped DEF OthersKeep, WriteTypeOK
<1>2. ASSUME NEW code, Fail(r, code), UNCHANGED <<inp, begun>>
      PROVE  OthersKeep(r) /\ \A q \in Request \ {r} : read'[q] = read[q]
  BY <1>1, <1>2 DEF Fail
<1>3. CASE Ask(r)
  BY <1>3 DEF Ask, tx, OthersKeep, WriteTypeOK
<1>4. CASE FindList(r)
  BY <1>2, <1>4 DEF FindList, tx, OthersKeep, WriteTypeOK
<1>5. CASE StartLockRead(r)
  BY <1>5 DEF StartLockRead, OthersKeep, WriteTypeOK
<1>6. CASE LockNextRow(r)
  BY <1>6, NoneAssumption DEF LockNextRow, FirstOf, Grantable, OthersKeep, WriteTypeOK
<1>7. CASE RefuseAnchor(r)
  BY <1>2, <1>7 DEF RefuseAnchor
<1>8. CASE Position(r)
  <2>1. PICK l :
          /\ l = IF inp[r].op = "create" THEN Fresh[r] ELSE inp[r].list
          /\ lock' = [lock EXCEPT ![l] = r]
    BY <1>8 DEF Position
  <2>2. /\ pc[r] = "write" /\ inp[r].op \in {"create", "move"} /\ inp[r] # None
        /\ UNCHANGED <<inp, begun, todo, read>> /\ pc' = [pc EXCEPT ![r] = "commit"]
        /\ \E w : want' = [want EXCEPT ![r] = w]
    BY <1>8 DEF Position, Wrote, WriteTypeOK
  <2>3. list[l].state = "absent" \/ lock[l] = r
    <3>1. Fine(r) /\ ~Committed(r)
      BY <2>2, InTxUncommitted DEF TableInv, InTx
    <3> QED BY <2>1, <2>2, <3>1 DEF Fine, Unborn, Locked, Changing
  <2> QED BY <2>1, <2>2, <2>3 DEF OthersKeep, WriteTypeOK
<1>9. CASE Collide(r)
  BY <1>1, <1>2, <1>9 DEF Collide
<1>10. CASE Rewrite(r)
  BY <1>10, NoneAssumption DEF Rewrite, Wrote, Grantable, OthersKeep, WriteTypeOK
<1>11. CASE DeadlockVictim(r) \/ TimeOut(r)
  BY <1>2, <1>11 DEF DeadlockVictim, TimeOut
<1>12. CASE Commit(r)
  BY <1>1, <1>12 DEF Commit
<1> QED
  BY <1>3, <1>4, <1>5, <1>6, <1>7, <1>8, <1>9, <1>10, <1>11, <1>12 DEF InTransaction

(* What the others have read stays true, whatever row r has written.       *)
LEMMA OthersTrue ==
  ASSUME WriteTypeOK, Stages, TableInv, AllTrue, NEW r \in Request,
         Ask(r) \/ InTransaction(r) \/ Commit(r), NEW q \in Request \ {r}
  PROVE  ReadTrue(q)' /\ PlacedAbove(q)'
<1>1. /\ inp'[q] = inp[q] /\ pc'[q] = pc[q] /\ want'[q] = want[q] /\ todo'[q] = todo[q]
      /\ read'[q] = read[q]
      /\ \A l \in List : list[l].state # "absent" /\ lock[l] = q => lock'[l] = q
  BY WriterOthers DEF OthersKeep
<1>2. ReadTrue(q) /\ PlacedAbove(q)
  BY DEF AllTrue
<1>3. /\ \A l \in List : OnBoard(l) => OnBoard(l)'
      /\ \A l \in List : OnBoard(l) /\ lock[l] = q => list'[l] = list[l]
  <2>1. CASE list' = list
    BY <2>1 DEF OnBoard
  <2>2. CASE Commit(r)
    <3>1. /\ pc[r] = "commit" /\ want[r] \in Row /\ inp[r] # None
          /\ list' = [list EXCEPT ![want[r].id] = want[r]]
          /\ Fine(r) /\ ~Committed(r)
      BY <2>2, InTxUncommitted DEF Commit, WriteTypeOK, InTx, TableInv
    <3>2. want[r].state # "absent" /\ want[r].id \in List
      BY <3>1 DEF Fine, Holds, Named, Changing, Row
    <3>3. list[want[r].id].state = "absent" \/ lock[want[r].id] = r
      BY <3>1 DEF Fine, Holds, Unborn
    <3>4. \A l \in List : list'[l] = IF l = want[r].id THEN want[r] ELSE list[l]
      BY <3>1 DEF WriteTypeOK
    <3> QED BY <3>2, <3>3, <3>4 DEF OnBoard
  <2>3. Commit(r) \/ list' = list
    BY DEF Ask, InTransaction, FindList, StartLockRead, LockNextRow, RefuseAnchor, Position, Collide,
           Rewrite, DeadlockVictim, TimeOut
  <2> QED BY <2>1, <2>2, <2>3
<1>4. ReadTrue(q)'
  <2>1. todo[q] \subseteq Row /\ read[q] \subseteq Row
    BY DEF WriteTypeOK
  <2>2. \A s \in todo[q] \union read[q] : s.id \in List
    BY <2>1 DEF Row
  <2>3. \A s \in todo[q] : OnBoard(s.id)'
    BY <1>2, <1>3, <2>2 DEF ReadTrue
  <2>4. \A s \in read[q] : OnBoard(s.id)' /\ list'[s.id] = s /\ lock'[s.id] = q
    BY <1>1, <1>2, <1>3, <2>2 DEF ReadTrue, OnBoard
  <2> QED BY <1>1, <1>2, <2>3, <2>4 DEF ReadTrue
<1>5. Siblings(q)' = Siblings(q)
  BY <1>1 DEF Siblings
<1>6. AnchorKnown(q)' = AnchorKnown(q) /\ Lower(q)' = Lower(q)
  BY <1>1, <1>5 DEF AnchorKnown, Lower, Highest
<1>7. PlacedAbove(q)'
  BY <1>1, <1>2, <1>6 DEF PlacedAbove, Placing
<1> QED BY <1>4, <1>7

(* .. and so does what r has read itself.                                  *)
LEMMA OwnTrue ==
  ASSUME WriteTypeOK, Stages, TableInv, AllTrue, NEW r \in Request,
         Ask(r) \/ InTransaction(r) \/ Commit(r)
  PROVE  ReadTrue(r)' /\ PlacedAbove(r)'
<1> USE DEF Goto
<1>0. ReadTrue(r) /\ todo[r] \subseteq Row /\ read[r] \subseteq Row
  BY DEF AllTrue, WriteTypeOK
<1>1. ASSUME EndAttempt(r), NEW l, pc' = [pc EXCEPT ![r] = l], l # "commit"
      PROVE  ReadTrue(r)' /\ PlacedAbove(r)'
  <2>1. todo'[r] = {} /\ read'[r] = {} /\ pc'[r] = l
    BY <1>1, EndTyped DEF WriteTypeOK
  <2> QED BY <1>1, <2>1 DEF ReadTrue, PlacedAbove, Placing
<1>2. ASSUME NEW code, Fail(r, code) PROVE ReadTrue(r)' /\ PlacedAbove(r)'
  BY <1>1, <1>2 DEF Fail
<1>3. ASSUME UNCHANGED <<list, todo, read, lock>>, pc'[r] # "commit",
             read[r] # {} => pc'[r] \in {"locking", "write", "commit"}
      PROVE  ReadTrue(r)' /\ PlacedAbove(r)'
  BY <1>0, <1>3 DEF ReadTrue, PlacedAbove, Placing, OnBoard
<1>4. CASE Ask(r)
  <2>1. /\ UNCHANGED <<list, todo, read, lock>> /\ pc[r] = "idle"
        /\ pc'[r] \in {"find", "lock", "done"}
    BY <1>4 DEF Ask, tx, First, WriteTypeOK
  <2> QED BY <1>0, <1>3, <2>1 DEF ReadTrue
<1>5. CASE FindList(r)
  <2>1. CASE \E code : Fail(r, code)
    BY <1>2, <2>1
  <2>2. CASE ~\E code : Fail(r, code)
    <3>1. /\ UNCHANGED <<list, todo, read, lock>> /\ pc[r] = "find"
          /\ pc'[r] \in {"lock", "write"}
      BY <1>5, <2>2 DEF FindList, tx, WriteTypeOK
    <3> QED BY <1>0, <1>3, <3>1 DEF ReadTrue
  <2> QED BY <2>1, <2>2
<1>6. CASE StartLockRead(r)
  <2>1. /\ todo'[r] = {list[l] : l \in {m \in List : OnBoard(m)}}
        /\ UNCHANGED <<list, read, lock>> /\ pc[r] = "lock" /\ pc'[r] = "locking"
    BY <1>6 DEF StartLockRead, WriteTypeOK
  <2>2. \A s \in todo'[r] : OnBoard(s.id)
    BY <2>1 DEF TableInv
  <2> QED BY <1>0, <2>1, <2>2 DEF ReadTrue, PlacedAbove, Placing, OnBoard
<1>7. CASE LockNextRow(r)
  <2>1. CASE todo[r] = {}
    <3>1. UNCHANGED <<list, todo, read, lock>> /\ pc'[r] = "write"
      BY <1>7, <2>1 DEF LockNextRow, WriteTypeOK
    <3> QED BY <1>3, <3>1
  <2>2. CASE todo[r] # {}
    <3>1. PICK s \in todo[r] :
            /\ lock' = [lock EXCEPT ![s.id] = r]
            /\ todo' = [todo EXCEPT ![r] = todo[r] \ {s}]
            /\ read' = [read EXCEPT ![r] = read[r] \union {list[s.id]}]
            /\ UNCHANGED <<pc, list>> /\ pc[r] = "locking"
      BY <1>7, <2>2 DEF LockNextRow, FirstOf
    <3>2. s.id \in List /\ OnBoard(s.id) /\ list[s.id].id = s.id
      BY <1>0, <3>1 DEF ReadTrue, Row, TableInv
    <3>3. todo'[r] = todo[r] \ {s} /\ read'[r] = read[r] \union {list[s.id]}
      BY <3>1 DEF WriteTypeOK
    <3>4. \A l \in List : lock'[l] = IF l = s.id THEN r ELSE lock[l]
      BY <3>1 DEF WriteTypeOK
    <3>5. \A t \in read[r] : t.id \in List
      BY <1>0 DEF Row
    <3>6. \A t \in read'[r] : OnBoard(t.id) /\ list[t.id] = t /\ lock'[t.id] = r
      BY <1>0, <3>2, <3>3, <3>4, <3>5 DEF ReadTrue
    <3> QED BY <1>0, <3>1, <3>3, <3>6 DEF ReadTrue, PlacedAbove, Placing, OnBoard
  <2> QED BY <2>1, <2>2
<1>8. CASE RefuseAnchor(r)
  BY <1>2, <1>8 DEF RefuseAnchor
<1>9. CASE Position(r)
  <2> DEFINE l == IF inp[r].op = "create" THEN Fresh[r] ELSE inp[r].list
             New(k) == IF inp[r].op = "create"
                       THEN [id |-> l, state |-> "live", pos |-> k, name |-> r, wip |-> r]
                       ELSE [list[l] EXCEPT !.pos = k]
  <2>1. PICK k \in KeyBetween(Lower(r), Upper(r)) :
          /\ lock' = [lock EXCEPT ![l] = r]
          /\ want' = [want EXCEPT ![r] = New(k)]
    BY <1>9 DEF Position, Wrote
  <2>2. /\ pc[r] = "write" /\ inp[r].op \in {"create", "move"} /\ inp[r] # None
        /\ UNCHANGED <<list, inp, todo, read>> /\ pc'[r] = "commit" /\ AnchorKnown(r)
    BY <1>9 DEF Position, Wrote, WriteTypeOK
  <2>3. k \in Key /\ Lower(r) < k
    BY <2>1 DEF KeyBetween
  <2>4. want'[r].pos = k
    <3>1. inp[r].op = "move" => inp[r].list \in List
      BY <2>2, InputTyped
    <3>2. inp[r].op = "move" => list[l] \in Row
      BY <2>1, <3>1 DEF WriteTypeOK
    <3> QED BY <2>1, <2>2, <3>2 DEF Row, WriteTypeOK
  <2>5. Siblings(r)' = Siblings(r)
    BY <2>2 DEF Siblings
  <2>6. AnchorKnown(r)' /\ Lower(r)' = Lower(r)
    BY <2>2, <2>5 DEF AnchorKnown, Lower, Highest
  <2>7. \A s \in read[r] : lock'[s.id] = r
    BY <1>0, <2>1 DEF ReadTrue, WriteTypeOK, Row
  <2>8. ReadTrue(r)'
    BY <1>0, <2>2, <2>7 DEF ReadTrue, OnBoard
  <2> QED BY <2>3, <2>4, <2>6, <2>8 DEF PlacedAbove
<1>10. CASE Collide(r)
  <2>1. CASE \E code : Fail(r, code)
    BY <1>2, <2>1
  <2>2. CASE ~\E code : Fail(r, code)
    BY <1>1, <1>10, <2>2 DEF Collide, First
  <2> QED BY <2>1, <2>2
<1>11. CASE Rewrite(r)
  <2>1. /\ UNCHANGED <<list, inp, todo, read>> /\ pc[r] = "write" /\ pc'[r] = "commit"
        /\ lock' = [lock EXCEPT ![inp[r].list] = r]
        /\ inp[r].op \in {"update", "archive"}
    BY <1>11 DEF Rewrite, Wrote, WriteTypeOK
  <2>2. \A s \in read[r] : lock'[s.id] = r
    BY <1>0, <2>1 DEF ReadTrue, WriteTypeOK, Row
  <2>3. ~Placing(r)'
    BY <2>1 DEF Placing, PlaceOps
  <2> QED BY <1>0, <2>1, <2>2, <2>3 DEF ReadTrue, PlacedAbove, OnBoard
<1>12. CASE DeadlockVictim(r) \/ TimeOut(r)
  BY <1>2, <1>12 DEF DeadlockVictim, TimeOut
<1>13. CASE Commit(r)
  BY <1>1, <1>13 DEF Commit
<1> QED
  BY <1>4, <1>5, <1>6, <1>7, <1>8, <1>9, <1>10, <1>11, <1>12, <1>13 DEF InTransaction

(* The rows that the lock read of moveList and createList has returned     *)
(* stay as they were read until the transaction ends.                      *)
THEOREM ListReadsHold == Spec => []AllTrue
<1>1. Init => AllTrue
  BY DEF Init, WriteInit, AllTrue, ReadTrue, PlacedAbove, Placing
<1>2. WriteTypeOK /\ Stages /\ TableInv /\ AllTrue /\ [Next]_vars => AllTrue'
  <2> SUFFICES ASSUME WriteTypeOK, Stages, TableInv, AllTrue, [Next]_vars PROVE AllTrue'
    OBVIOUS
  <2>1. ASSUME NEW r \in Request, Ask(r) \/ InTransaction(r) \/ Commit(r) PROVE AllTrue'
    BY <2>1, OthersTrue, OwnTrue DEF AllTrue
  <2>2. CASE OtherStep
    <3>1. /\ UNCHANGED <<list, inp, todo, read, want, lock>>
          /\ \A q \in Request : pc'[q] = pc[q] \/ (pc[q] = "tell" /\ pc'[q] = "done")
      BY <2>2 DEF OtherStep, tx, WriteTypeOK
    <3>2. ASSUME NEW q \in Request PROVE ReadTrue(q)' /\ PlacedAbove(q)'
      <4>1. ReadTrue(q) /\ PlacedAbove(q)
        BY DEF AllTrue
      <4>2. Siblings(q)' = Siblings(q) /\ AnchorKnown(q)' = AnchorKnown(q) /\ Lower(q)' = Lower(q)
        BY <3>1 DEF Siblings, AnchorKnown, Lower, Highest
      <4> QED BY <3>1, <4>1, <4>2 DEF ReadTrue, PlacedAbove, Placing, OnBoard
    <3> QED BY <3>2 DEF AllTrue
  <2> QED BY <2>1, <2>2, NextOther
<1> QED BY <1>1, <1>2, TableInvariant, PTL DEF Spec

(* The anchor that a lock read has found is live, and its key is below the *)
(* one that was chosen.                                                    *)
LEMMA AnchorStands ==
  ASSUME WriteTypeOK, TableInv, AllTrue, NEW r \in Request, Placing(r), inp[r] # None,
         inp[r].after # None
  PROVE  LET a == inp[r].after
         IN  /\ a # inp[r].list /\ OnBoard(a) /\ a \in List
             /\ list[a].state = "live" /\ list[a].pos < want[r].pos
<1> DEFINE a == inp[r].after
<1>1. ReadTrue(r) /\ PlacedAbove(r) /\ read[r] \subseteq Row
  BY DEF AllTrue, WriteTypeOK
<1>2. PICK s \in Siblings(r) : s.id = a
  BY <1>1 DEF PlacedAbove, AnchorKnown
<1>3. s \in read[r] /\ s.state = "live" /\ a # inp[r].list /\ a \in List /\ s.pos \in Nat
  BY <1>1, <1>2, BoundsAssumption DEF Siblings, Row, Key
<1>4. OnBoard(a) /\ list[a] = s
  BY <1>1, <1>2, <1>3 DEF ReadTrue
<1>5. \A t \in Siblings(r) : t.id = a => t = s
  BY <1>1, <1>4 DEF Siblings, ReadTrue
<1>6. {t \in Siblings(r) : t.id = a} = {s}
  BY <1>2, <1>5
<1>7. Lower(r) = s.pos
  BY <1>3, <1>6 DEF Lower, Highest
<1> QED BY <1>1, <1>3, <1>4, <1>7 DEF PlacedAbove

(* Two rows with the same columns are the same row.                        *)
LEMMA SameColumns ==
  ASSUME NEW x \in Row, NEW y \in Row, x.id = y.id, x.state = y.state, x.pos = y.pos,
         x.name = y.name, x.wip = y.wip
  PROVE  x = y
BY DEF Row

(* A commit is the whole effect of its request, on the rows as they then   *)
(* are.                                                                    *)
LEMMA CommitApplies ==
  ASSUME WriteTypeOK, Stages, TableInv, AllTrue, NEW r \in Request, Commit(r)
  PROVE  Apply(r)
<1> DEFINE w == want[r]
           l == w.id
<1>1. /\ pc[r] = "commit" /\ journal' = Append(journal, r) /\ UNCHANGED <<inp, ans>>
      /\ list' = [list EXCEPT ![l] = w]
  BY DEF Commit
<1>2. /\ inp[r] # None /\ ans[r] = None /\ w \in Row /\ l \in List
      /\ Fine(r) /\ ~Committed(r) /\ list[l] \in Row /\ list[l].id = l
  BY <1>1, InTxUncommitted DEF WriteTypeOK, Row, InTx, TableInv
<1>3. /\ inp[r].op \in Op
      /\ inp[r].op # "create" => inp[r].list \in List
      /\ inp[r].op = "create" => inp[r].list = None
  BY <1>2, InputTyped
<1>4. ASSUME inp[r].op # "create"
      PROVE  l = inp[r].list /\ OnBoard(l)
  BY <1>1, <1>2, <1>4 DEF Fine, Holds, Named, Changing, OnBoard
<1>5. ASSUME inp[r].op \in PlaceOps
      PROVE  w.pos \in Key /\ Fits(w.pos, l, inp[r].after)
  <2>1. Placing(r)
    BY <1>1, <1>5 DEF Placing
  <2>2. w.pos \in Key
    BY <2>1 DEF AllTrue, PlacedAbove
  <2>3. \A m \in List \ {l} : OnBoard(m) => list[m].pos # w.pos
    BY <1>2, <2>1 DEF Fine, KeyReserved, OnBoard
  <2>4. inp[r].after # None => inp[r].after # l
    <3>1. CASE inp[r].op = "create"
      <4>1. list[l].state = "absent"
        BY <1>1, <1>2, <3>1 DEF Fine, Holds, Unborn
      <4> QED BY <1>2, <2>1, <4>1, AnchorStands
    <3>2. CASE inp[r].op # "create"
      BY <1>2, <1>4, <2>1, <3>2, AnchorStands
    <3> QED BY <3>1, <3>2
  <2> QED BY <1>2, <2>1, <2>2, <2>3, <2>4, AnchorStands DEF Fits, OnBoard
<1>6. CASE inp[r].op = "create"
  <2>1. /\ l = Fresh[r] /\ w.state = "live" /\ w.name = r /\ w.wip = r /\ list[l].state = "absent"
    BY <1>1, <1>2, <1>6 DEF Fine, Holds, Unborn
  <2>2. w = [id |-> l, state |-> "live", pos |-> w.pos, name |-> r, wip |-> r]
    BY <1>2, <2>1 DEF Row
  <2>3. StoreCreate(r)
    BY <1>1, <1>5, <1>6, <2>1, <2>2 DEF StoreCreate, PlaceOps
  <2> QED BY <1>1, <1>2, <2>3 DEF Apply
<1>7. CASE inp[r].op = "move"
  <2>1. w.state = list[l].state /\ w.name = list[l].name /\ w.wip = list[l].wip
    BY <1>1, <1>2, <1>7 DEF Fine, Holds
  <2>2. PICK k \in Key : k = w.pos /\ Fits(k, l, inp[r].after)
    BY <1>5, <1>7 DEF PlaceOps
  <2>3. w = [list[l] EXCEPT !.pos = k]
    BY <1>2, <2>1, <2>2, SameColumns DEF Row
  <2>4. list' = [list EXCEPT ![l].pos = k]
    BY <1>1, <2>3
  <2>5. StoreMove(r)
    BY <1>4, <1>7, <2>2, <2>4 DEF StoreMove
  <2> QED BY <1>1, <1>2, <2>5 DEF Apply
<1>8. CASE inp[r].op = "archive"
  <2>1. w.state = "archived" /\ w.pos = list[l].pos /\ w.name = list[l].name /\ w.wip = list[l].wip
    BY <1>1, <1>2, <1>8 DEF Fine, Holds
  <2>2. w = [list[l] EXCEPT !.state = "archived"]
    BY <1>2, <2>1, SameColumns DEF Row
  <2>3. StoreArchive(r)
    BY <1>1, <1>2, <1>4, <1>8, <2>2 DEF StoreArchive, WriteTypeOK
  <2> QED BY <1>1, <1>2, <2>3 DEF Apply
<1>9. CASE inp[r].op = "update"
  <2> DEFINE n == IF "name" \in inp[r].sets THEN r ELSE list[l].name
             v == IF "wip" \in inp[r].sets THEN r ELSE list[l].wip
  <2>1. w.state = list[l].state /\ w.pos = list[l].pos /\ w.name = n /\ w.wip = v
    BY <1>1, <1>2, <1>9 DEF Fine, Holds
  <2>2. w = [list[l] EXCEPT !.name = n, !.wip = v]
    <3> HIDE DEF n, v
    <3> QED BY <1>2, <2>1, SameColumns DEF Row
  <2>3. list' = [list EXCEPT ![l].name = n, ![l].wip = v]
    <3> HIDE DEF n, v
    <3> QED BY <1>1, <1>2, <2>2 DEF WriteTypeOK
  <2>4. StoreUpdate(r)
    BY <1>1, <1>4, <1>9, <2>3 DEF StoreUpdate
  <2> QED BY <1>1, <1>2, <2>4 DEF Apply
<1> QED BY <1>3, <1>6, <1>7, <1>8, <1>9 DEF Op

(* Every other step is a request, an answer, or nothing to the store.      *)
LEMMA StepKeepsStore ==
  ASSUME WriteTypeOK, Stages, TableInv, AllTrue, [Next]_vars
  PROVE  StoreNext \/ UNCHANGED storeVars
<1> USE DEF storeVars
<1>1. ASSUME NEW r \in Request, NEW code \in Code \ {"OK"}, InTx(r), Fail(r, code),
             UNCHANGED <<list, journal, inp>>
      PROVE  Reply(r)
  <2>1. ~Committed(r) /\ inp[r] # None /\ ans[r] = None
    BY <1>1, InTxUncommitted DEF InTx, WriteTypeOK
  <2>2. ans' = [ans EXCEPT ![r] = code]
    BY <1>1 DEF Fail
  <2> QED BY <1>1, <2>1, <2>2 DEF Reply
<1>2. {"NOT_FOUND", "INVALID", "CONFLICT", "INTERNAL"} = Code \ {"OK"}
  BY DEF Code
<1>3. ASSUME NEW r \in Request, Ask(r) PROVE Submit(r)
  BY <1>3 DEF Ask, Submit, WriteTypeOK
<1>4. ASSUME NEW r \in Request, InTransaction(r) PROVE Reply(r) \/ UNCHANGED storeVars
  <2>1. CASE FindList(r) \/ Collide(r) \/ RefuseAnchor(r)
    BY <1>1, <1>2, <2>1 DEF FindList, Collide, RefuseAnchor, InTx
  <2>2. CASE DeadlockVictim(r) \/ TimeOut(r)
    BY <1>1, <1>2, <2>2, WaiterInTx DEF DeadlockVictim, TimeOut, InTx
  <2>3. CASE StartLockRead(r) \/ LockNextRow(r) \/ Position(r) \/ Rewrite(r)
    BY <2>3 DEF StartLockRead, LockNextRow, Position, Rewrite
  <2> QED BY <1>4, <2>1, <2>2, <2>3 DEF InTransaction
<1>5. ASSUME NEW r \in Request, TellList(r) PROVE Reply(r)
  <2>1. pc[r] = "tell" /\ UNCHANGED <<list, journal, inp>>
    BY <1>5 DEF TellList
  <2>2. Committed(r) /\ inp[r] # None /\ ans[r] = None
    BY <2>1 DEF TableInv, Fine, Journaled, WriteTypeOK
  <2>3. PICK code \in {"OK", "INTERNAL"} :
          ans' = [ans EXCEPT ![r] = code] /\ (code = "INTERNAL" => inp[r].op = "update")
    BY <1>5 DEF TellList
  <2> QED BY <2>1, <2>2, <2>3 DEF Reply, Code
<1>6. ASSUME NEW r \in Request, TellLine(r) PROVE UNCHANGED storeVars
  BY <1>6 DEF TellLine
<1>7. CASE Tick \/ ReadPage \/ RenderBoard \/ RenderFeed \/ JoinRead \/ JoinEnter \/ Drop \/ Deliver
  BY <1>7 DEF Tick, ReadPage, RenderBoard, RenderFeed, JoinRead, JoinEnter, Drop, Deliver, writeVars
<1>8. CASE UNCHANGED vars
  BY <1>8 DEF vars, writeVars
<1> QED
  BY <1>3, <1>4, <1>5, <1>6, <1>7, <1>8, CommitApplies DEF Next, Write, StoreNext

(* createList, updateList, moveList and archiveList, run concurrently with *)
(* their locks, retries, failures and timeouts, do what ListStore says:    *)
(* each takes effect in one step on the rows as they then are, with one    *)
(* line in the journal, or not at all; and OK is said only of what has.    *)
THEOREM ListsKeepPromise == Spec => StoreSpec
<1>1. Init => StoreInit
  BY DEF Init, WriteInit
<1>2. WriteTypeOK /\ Stages /\ TableInv /\ AllTrue /\ [Next]_vars => [StoreNext]_storeVars
  BY StepKeepsStore
<1> QED BY <1>1, <1>2, TableInvariant, ListReadsHold, PTL DEF Spec, StoreSpec
=============================================================================
