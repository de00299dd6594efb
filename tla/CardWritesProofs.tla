--------------------------- MODULE CardWritesProofs ---------------------------
(***************************************************************************)
(* Proofs about CardWrites, for any number of requests, cards, lists, keys *)
(* and attempts, and any rows the table starts with.                       *)
(***************************************************************************)
EXTENDS CardWrites, TLAPS

EditOps == {"move", "update", "archive"}
PlaceOps == {"move", "create"}

(* What every admitted request asks for is well formed.                    *)
GoodInput(r) ==
  /\ inp[r] \in Input
  /\ inp[r].op \in EditOps => inp[r].card \in Card
  /\ inp[r].op = "create" => inp[r].card = r
  /\ inp[r].op \in {"move", "create", "archiveList"} => inp[r].list \in List

(* Which requests can be where, and what they hold there.                  *)
Stage(r) ==
  /\ pc[r] = "idle" <=> inp[r] = None
  /\ pc[r] = "done" <=> ans[r] # None
  /\ inp[r] # None => GoodInput(r)
  /\ pc[r] = "lists" => inp[r].op \in EditOps
  /\ pc[r] \in {"lock", "locking", "key"} => inp[r].op \in PlaceOps
  /\ pc[r] = "row" => inp[r].op \notin PlaceOps
  /\ pc[r] \in {"lists", "lock", "locking", "row", "key", "commit"}
       /\ inp[r].op \in EditOps => seen[r] \in Row
  /\ pc[r] \in {"key", "commit"} /\ inp[r].op # "archiveList" => want[r] \in Row
  /\ todo[r] # {} => pc[r] = "locking"
  /\ read[r] # {} => InTx(r)

Stages == \A r \in Request : Stage(r)

-----------------------------------------------------------------------------
(* Types.                                                                  *)

(* A request that comes in.                                                *)
LEMMA AskTyped ==
  ASSUME TypeOK, Stages, NEW r \in Request, Ask(r)
  PROVE  TypeOK' /\ Stages'
<1> USE MaxKeyAssumption, NamesAssumption, MaxAttemptsAssumption DEF EditOps, PlaceOps
<1>1. PICK s \in Offered[r] :
        inp' = [inp EXCEPT ![r] =
            [op |-> s.op, card |-> s.card, list |-> s.list, after |-> s.after,
             labelsOk |-> s.labelsOk,
             expected |-> IF s.card = None THEN 0 ELSE row[s.card].ver,
             before |-> IF s.op # "move" THEN None
                        ELSE Following(s.list,
                               IF s.after = None THEN 0 ELSE row[s.after].pos, s.card)]]
  BY DEF Ask, Submit
<1>2. s \in Shape /\ (s.op \in EditOps => s.card \in Card) /\ (s.op = "create" => s.card = r)
      /\ (s.op \in {"move", "create", "archiveList"} => s.list \in List)
  BY OfferedAssumption
<1>3. ASSUME NEW l, NEW p, NEW c PROVE Following(l, p, c) \in Card \union {None}
  BY DEF Following
<1>4. PICK i \in Input :
        /\ inp' = [inp EXCEPT ![r] = i]
        /\ i.op = s.op /\ i.card = s.card /\ i.list = s.list
  <2> DEFINE e == IF s.card = None THEN 0 ELSE row[s.card].ver
             b == IF s.op # "move" THEN None
                  ELSE Following(s.list, IF s.after = None THEN 0 ELSE row[s.after].pos, s.card)
             i == [op |-> s.op, card |-> s.card, list |-> s.list, after |-> s.after,
                   labelsOk |-> s.labelsOk, expected |-> e, before |-> b]
  <2>1. /\ s.op \in Op /\ s.card \in Card \union {None} /\ s.list \in List \union {None}
        /\ s.after \in Card \union {None} /\ s.labelsOk \in BOOLEAN
    BY <1>2 DEF Shape
  <2>2. e \in Nat
    BY <2>1 DEF TypeOK, StoreTypeOK, Row
  <2>3. b \in Card \union {None}
    BY <1>3
  <2>4. i \in Input
    <3> HIDE DEF e, b
    <3> QED BY <2>1, <2>2, <2>3 DEF Input
  <2>5. inp' = [inp EXCEPT ![r] = i] /\ i.op = s.op /\ i.card = s.card /\ i.list = s.list
    BY <1>1
  <2> QED
    <3> HIDE DEF i
    <3> QED BY <2>4, <2>5
<1>5. /\ pc[r] = "idle"
      /\ pc' = [pc EXCEPT ![r] = "start"]
      /\ attempt' = [attempt EXCEPT ![r] = 1]
      /\ UNCHANGED <<row, closed, ans, seen, todo, read, want, lock>>
  BY DEF Ask, Submit, Goto
<1>6. TypeOK'
  BY <1>4, <1>5 DEF TypeOK, StoreTypeOK, PC
<1>7. Stages'
  BY <1>2, <1>4, <1>5 DEF TypeOK, StoreTypeOK, Stages, Stage, GoodInput, InTx
<1> QED BY <1>6, <1>7

(* An answer, with whatever it does to the tables.                         *)
LEMMA AnswerTyped ==
  ASSUME TypeOK, Stages, NEW r \in Request, InTx(r), NEW code \in Code, Answer(r, code),
         row' \in [Card -> Row], closed' \subseteq List
  PROVE  TypeOK' /\ Stages'
<1> USE NamesAssumption, MaxAttemptsAssumption DEF EditOps, PlaceOps
<1>1. TypeOK'
  BY DEF Answer, EndAttempt, Released, TypeOK, StoreTypeOK, PC
<1>2. Stages'
  BY DEF Answer, EndAttempt, TypeOK, StoreTypeOK, Stages, Stage, GoodInput, InTx
<1> QED BY <1>1, <1>2

(* A refusal or a failure, which gives the locks and the key back.         *)
LEMMA FailTyped ==
  ASSUME TypeOK, Stages, NEW r \in Request, InTx(r), NEW code \in Code, Fail(r, code)
  PROVE  TypeOK' /\ Stages'
BY AnswerTyped DEF Fail, TypeOK, StoreTypeOK

(* A step inside a transaction.                                            *)
LEMMA StepTyped ==
  ASSUME TypeOK, Stages, NEW r \in Request, Step(r)
  PROVE  TypeOK' /\ Stages'
<1> USE MaxKeyAssumption, NamesAssumption, MaxAttemptsAssumption DEF EditOps, PlaceOps
<1>0. {"OK", "INVALID", "NOT_FOUND", "STALE", "CONFLICT", "INTERNAL"} = Code
  BY DEF Code
<1>1. CASE FindCard(r)
  BY <1>0, <1>1, FailTyped DEF FindCard, Goto, storeVars, TypeOK, StoreTypeOK, PC, Stages, Stage,
       GoodInput, InTx
<1>2. CASE FindLists(r)
  <2>1. ListCheck(r) \in Code
    BY <1>0 DEF ListCheck
  <2> QED
    BY <1>0, <1>2, <2>1, FailTyped DEF FindLists, Goto, storeVars, TypeOK, StoreTypeOK, PC, Stages,
         Stage, GoodInput, InTx
<1>3. CASE StartLockRead(r)
  BY <1>3 DEF StartLockRead, Goto, storeVars, TypeOK, StoreTypeOK, PC, Stages, Stage, GoodInput,
       InTx, Entry, Row
<1>4. CASE LockNextRow(r)
  BY <1>4 DEF LockNextRow, FirstOf, LockForUpdate, storeVars, TypeOK, StoreTypeOK, Stages,
       Stage, GoodInput, InTx, Entry, Row
<1>5. CASE RefuseAnchor(r)
  BY <1>0, <1>5, FailTyped DEF RefuseAnchor, InTx
<1>6. CASE WriteMove(r)
  <2>1. CASE Fail(r, "STALE")
    BY <1>0, <1>6, <2>1, FailTyped DEF WriteMove, InTx
  <2>2. CASE ~Fail(r, "STALE")
    <3>1. PICK k \in KeyBetween(Lower(r), Upper(r)) :
            want' = [want EXCEPT ![r] = [list |-> inp[r].list, pos |-> k,
                       ver |-> Bumped(inp[r].card), state |-> row[inp[r].card].state]]
      BY <1>6, <2>2 DEF WriteMove
    <3>2. k \in 0 .. MaxKey - 1
      BY DEF KeyBetween, Key
    <3>3. inp[r].card \in Card /\ inp[r].list \in List
      BY <1>6 DEF WriteMove, Stages, Stage, GoodInput
    <3>4. PICK w \in Row : want' = [want EXCEPT ![r] = w]
      <4>1. row[inp[r].card].ver + 1 \in Nat /\ row[inp[r].card].state \in {"absent", "live", "archived"}
        BY <3>3 DEF TypeOK, StoreTypeOK, Row
      <4>2. [list |-> inp[r].list, pos |-> k, ver |-> Bumped(inp[r].card),
             state |-> row[inp[r].card].state] \in Row
        BY <3>2, <3>3, <4>1 DEF Bumped, Row
      <4> QED BY <3>1, <4>2
    <3>5. /\ pc[r] = "locking" /\ todo[r] = {} /\ inp[r].op = "move"
          /\ lock' = [lock EXCEPT ![inp[r].card] = r]
          /\ pc' = [pc EXCEPT ![r] = "key"]
          /\ UNCHANGED <<row, closed, inp, ans, attempt, seen, todo, read>>
      BY <1>6, <2>2 DEF WriteMove, Goto, storeVars
    <3>6. TypeOK'
      BY <3>3, <3>4, <3>5 DEF TypeOK, StoreTypeOK, PC
    <3>7. Stages'
      BY <3>4, <3>5 DEF TypeOK, StoreTypeOK, Stages, Stage, GoodInput, InTx
    <3> QED BY <3>6, <3>7
  <2> QED BY <2>1, <2>2
<1>7. CASE WriteCreate(r)
  <2>1. PICK k \in KeyBetween(Lower(r), Upper(r)) :
          want' = [want EXCEPT ![r] = [list |-> inp[r].list, pos |-> k,
                     ver |-> 0, state |-> "live"]]
    BY <1>7 DEF WriteCreate
  <2>2. k \in 0 .. MaxKey - 1
    BY DEF KeyBetween, Key
  <2>3. inp[r].list \in List
    BY <1>7 DEF WriteCreate, Stages, Stage, GoodInput
  <2>4. PICK w \in Row : want' = [want EXCEPT ![r] = w]
    BY <2>1, <2>2, <2>3 DEF TypeOK, StoreTypeOK, Row
  <2>5. /\ pc[r] = "locking" /\ todo[r] = {} /\ inp[r].op = "create"
        /\ pc' = [pc EXCEPT ![r] = "key"]
        /\ UNCHANGED <<row, closed, inp, ans, attempt, seen, todo, read, lock>>
    BY <1>7 DEF WriteCreate, Goto, storeVars
  <2> QED
    BY <2>4, <2>5 DEF TypeOK, StoreTypeOK, PC, Stages, Stage, GoodInput, InTx
<1>8. CASE Rewrite(r)
  <2>1. CASE Fail(r, "STALE")
    BY <1>0, <1>8, <2>1, FailTyped DEF Rewrite, InTx
  <2>2. CASE ~Fail(r, "STALE")
    <3>1. inp[r].card \in Card
      BY <1>8 DEF Rewrite, Stages, Stage, GoodInput
    <3>2. PICK w \in Row : want' = [want EXCEPT ![r] = w]
      <4> DEFINE c == inp[r].card
                 st == IF inp[r].op = "archive" THEN "archived" ELSE row[c].state
                 w == [row[c] EXCEPT !.ver = Bumped(c), !.state = st]
      <4>1. row[c] \in Row
        BY <3>1 DEF TypeOK, StoreTypeOK
      <4>2. w \in Row
        <5>1. ASSUME NEW x \in Row, NEW v \in Nat, NEW t \in {"absent", "live", "archived"}
              PROVE  [x EXCEPT !.ver = v, !.state = t] \in Row
          BY DEF Row
        <5>2. Bumped(c) \in Nat /\ st \in {"absent", "live", "archived"}
          BY <4>1 DEF Bumped, Row
        <5> QED BY <4>1, <5>1, <5>2
      <4>3. want' = [want EXCEPT ![r] = w]
        BY <1>8, <2>2 DEF Rewrite
      <4> QED
        <5> HIDE DEF w
        <5> QED BY <4>2, <4>3
    <3>3. /\ pc[r] = "row" /\ inp[r].op \in {"update", "archive"}
          /\ lock' = [lock EXCEPT ![inp[r].card] = r]
          /\ pc' = [pc EXCEPT ![r] = "commit"]
          /\ UNCHANGED <<row, closed, inp, ans, attempt, seen, todo, read>>
      BY <1>8, <2>2 DEF Rewrite, Goto, storeVars
    <3>4. TypeOK'
      BY <3>1, <3>2, <3>3 DEF TypeOK, StoreTypeOK, PC
    <3>5. Stages'
      BY <3>2, <3>3 DEF TypeOK, StoreTypeOK, Stages, Stage, GoodInput, InTx
    <3> QED BY <3>4, <3>5
  <2> QED BY <2>1, <2>2
<1>9. CASE CloseList(r)
  BY <1>9 DEF CloseList, Goto, storeVars, TypeOK, StoreTypeOK, PC, Stages, Stage, GoodInput,
       InTx
<1>10. CASE EnterIndex(r)
  BY <1>10 DEF EnterIndex, Goto, storeVars, TypeOK, StoreTypeOK, PC, Stages, Stage, GoodInput,
       InTx
<1>11. CASE Collide(r)
  <2>1. CASE Fail(r, "CONFLICT")
    BY <1>0, <1>11, <2>1, FailTyped DEF Collide, InTx
  <2>2. CASE ~Fail(r, "CONFLICT")
    <3>1. /\ pc' = [pc EXCEPT ![r] = "start"]
          /\ attempt' = [attempt EXCEPT ![r] = attempt[r] + 1]
          /\ attempt[r] < MaxAttempts
          /\ EndAttempt(r)
          /\ UNCHANGED storeVars
      BY <1>11, <2>2 DEF Collide, MayRetry, Goto
    <3>2. /\ seen' = [seen EXCEPT ![r] = None]
          /\ todo' = [todo EXCEPT ![r] = {}]
          /\ read' = [read EXCEPT ![r] = {}]
          /\ want' = [want EXCEPT ![r] = None]
          /\ lock' = Released(r)
      BY <3>1 DEF EndAttempt
    <3>3. TypeOK'
      BY <3>1, <3>2 DEF TypeOK, StoreTypeOK, PC, Released, storeVars
    <3>4. Stages'
      BY <1>11, <3>1, <3>2 DEF Collide, TypeOK, StoreTypeOK, Stages, Stage, GoodInput, InTx, storeVars
    <3> QED BY <3>3, <3>4
  <2> QED BY <2>1, <2>2
<1>12. CASE RefuseLabels(r)
  BY <1>0, <1>12, FailTyped DEF RefuseLabels, InTx
<1>13. CASE Commit(r)
  <2>1. row' \in [Card -> Row] /\ closed' \subseteq List
    BY <1>13 DEF Commit, TypeOK, StoreTypeOK, Stages, Stage, GoodInput, Input, Op
  <2> QED
    BY <1>0, <1>13, <2>1, AnswerTyped DEF Commit, InTx
<1>14. CASE DeadlockVictim(r)
  BY <1>0, <1>14, FailTyped DEF DeadlockVictim
<1> QED
  BY <1>1, <1>2, <1>3, <1>4, <1>5, <1>6, <1>7, <1>8, <1>9, <1>10, <1>11, <1>12, <1>13, <1>14
     DEF Step
(* Every variable keeps its type, whatever the interleaving.               *)
THEOREM TypeCorrect == Spec => [](TypeOK /\ Stages)
<1>1. Init => TypeOK /\ Stages
  BY InitRowAssumption, NamesAssumption, MaxAttemptsAssumption
     DEF Init, StoreInit, TypeOK, StoreTypeOK, Stages, Stage, InTx, PC
<1>2. TypeOK /\ Stages /\ [Next]_vars => TypeOK' /\ Stages'
  <2> SUFFICES ASSUME TypeOK, Stages, [Next]_vars
               PROVE  TypeOK' /\ Stages'
    OBVIOUS
  <2>1. ASSUME NEW r \in Request, Ask(r) PROVE TypeOK' /\ Stages'
    BY <2>1, AskTyped
  <2>2. ASSUME NEW r \in Request, Step(r) PROVE TypeOK' /\ Stages'
    BY <2>2, StepTyped
  <2>3. ASSUME NEW r \in Request, TimeOut(r) PROVE TypeOK' /\ Stages'
    BY <2>3, FailTyped DEF TimeOut, Code
  <2>4. CASE UNCHANGED vars
    BY <2>4 DEF vars, TypeOK, StoreTypeOK, Stages, Stage, GoodInput, InTx
  <2> QED
    BY <2>1, <2>2, <2>3, <2>4 DEF Next, Quiet
<1> QED
  BY <1>1, <1>2, PTL DEF Spec
=============================================================================
