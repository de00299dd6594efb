--------------------------- MODULE CardWritesSafety ---------------------------
(***************************************************************************)
(* Why CardWrites is safe, for any number of requests, cards, lists, keys  *)
(* and attempts: an inductive invariant over TypeOK and Stages, and the    *)
(* properties that follow from it.                                         *)
(***************************************************************************)
EXTENDS CardWritesProofs, FiniteSetTheorems, WellFoundedInduction

Edits(r) == inp[r] # None /\ inp[r].op \in EditOps

Placing(r) == inp[r] # None /\ inp[r].op \in PlaceOps

(* A card that is to be inserted is not there before its call commits.     *)
Unborn(r) == ans[r] # "OK" => row[r].state = "absent"

(* A card somebody asks to change exists, its version has not gone below   *)
(* the one asked for, and has gone above it once the request succeeds.     *)
Aged(r) ==
  Edits(r) =>
    LET now == row[inp[r].card]
    IN  /\ now.state # "absent"
        /\ inp[r].expected <= now.ver
        /\ ans[r] = "OK" => inp[r].expected < now.ver

(* What findCard returned was live, and is the row still if the version is.*)
SeenTrue(r) ==
  Edits(r) /\ pc[r] \in {"lists", "lock", "locking", "row", "key", "commit"} =>
    LET now == row[inp[r].card]
    IN  /\ seen[r].state = "live"
        /\ inp[r].expected <= seen[r].ver
        /\ seen[r].ver <= now.ver
        /\ seen[r].ver = now.ver => seen[r] = now

(* A transaction that has written a card holds its row, whose committed    *)
(* version is the expected one; an edit or archiving keeps the key.        *)
HoldsRow(r) ==
  Edits(r) /\ pc[r] \in {"key", "commit"} =>
    LET now == row[inp[r].card]
    IN  /\ lock[inp[r].card] = r
        /\ now.ver = inp[r].expected
        /\ want[r].ver = now.ver + 1
        /\ inp[r].op # "move" => SameKey(want[r], now)

(* What is about to be committed is a card that exists.                    *)
WritesCard(r) ==
  pc[r] \in {"key", "commit"} /\ inp[r].op # "archiveList" => want[r].state # "absent"

(* Every row a lock read is to lock exists; those it has read are locked,  *)
(* and as they were read.                                                  *)
ReadsHold(r) ==
  /\ \A e \in todo[r] : row[e.id].state # "absent"
  /\ \A s \in read[r] :
       /\ row[s.id].state # "absent"
       /\ lock[s.id] = r
       /\ row[s.id].list = inp[r].list
       /\ row[s.id].pos = s.pos
       /\ row[s.id].state = s.state

(* A key in the index is nobody else's, committed or about to be.          *)
KeyReserved(r) ==
  Placing(r) /\ pc[r] = "commit" =>
    /\ \A c \in Card \ {inp[r].card} :
         row[c].state # "absent" => ~SameKey(row[c], want[r])
    /\ \A q \in Request \ {r} :
         Placing(q) /\ pc[q] = "commit" => ~SameKey(want[q], want[r])

Good(r) ==
  /\ Unborn(r)
  /\ Aged(r)
  /\ SeenTrue(r)
  /\ HoldsRow(r)
  /\ WritesCard(r)
  /\ ReadsHold(r)
  /\ KeyReserved(r)

Safe == UniquePosition /\ NoLostUpdate /\ \A r \in Request : Good(r)
-----------------------------------------------------------------------------
(* A step of one request leaves the others as they are, and takes no lock  *)
(* from them.                                                              *)
OthersKeep(r) ==
  \A q \in Request \ {r} :
    /\ inp'[q] = inp[q]
    /\ ans'[q] = ans[q]
    /\ pc'[q] = pc[q]
    /\ seen'[q] = seen[q]
    /\ todo'[q] = todo[q]
    /\ read'[q] = read[q]
    /\ want'[q] = want[q]
    /\ \A x \in Card \union List : lock[x] = q => lock'[x] = q

(* An answer leaves the other requests alone.                              *)
LEMMA AnswerOthers ==
  ASSUME TypeOK, NEW r \in Request, NEW code, Answer(r, code)
  PROVE  OthersKeep(r)
BY DEF Answer, EndAttempt, Released, OthersKeep, TypeOK, StoreTypeOK

(* So does a failure.                                                      *)
LEMMA FailOthers ==
  ASSUME TypeOK, NEW r \in Request, NEW code, Fail(r, code)
  PROVE  OthersKeep(r)
BY AnswerOthers DEF Fail

(* And a step inside a transaction.                                        *)
LEMMA StepOthers ==
  ASSUME TypeOK, Stages, NEW r \in Request, Step(r)
  PROVE  OthersKeep(r)
<1> USE FailOthers DEF Goto, storeVars
<1>0. inp[r] # None /\ inp[r].op \in EditOps => inp[r].card \in Card
  BY DEF Stages, Stage, GoodInput
<1>1. CASE FindCard(r)
  BY <1>1 DEF FindCard, OthersKeep, TypeOK, StoreTypeOK
<1>2. CASE FindLists(r)
  BY <1>2 DEF FindLists, OthersKeep, TypeOK, StoreTypeOK
<1>3. CASE StartLockRead(r)
  BY <1>3 DEF StartLockRead, OthersKeep, TypeOK, StoreTypeOK
<1>4. CASE LockNextRow(r)
  <2>1. PICK e \in todo[r] :
          /\ Grantable(e.id, r)
          /\ lock' = [lock EXCEPT ![e.id] = r]
          /\ \E t : todo' = [todo EXCEPT ![r] = t]
          /\ \E t : read' = [read EXCEPT ![r] = t]
    BY <1>4 DEF LockNextRow, FirstOf, LockForUpdate
  <2>2. UNCHANGED <<inp, ans, pc, seen, want>>
    BY <1>4 DEF LockNextRow
  <2>3. lock[e.id] \in {None, r} /\ r # None
    BY <2>1, NamesAssumption DEF Grantable, Card
  <2> QED BY <2>1, <2>2, <2>3, NamesAssumption DEF OthersKeep, TypeOK, StoreTypeOK, Card
<1>5. CASE RefuseAnchor(r)
  BY <1>5 DEF RefuseAnchor
<1>6. CASE WriteMove(r)
  <2>1. CASE Fail(r, "STALE") BY <2>1
  <2>2. CASE ~Fail(r, "STALE")
    <3>1. /\ Grantable(inp[r].card, r)
          /\ lock' = [lock EXCEPT ![inp[r].card] = r]
          /\ pc' = [pc EXCEPT ![r] = "key"]
          /\ \E w : want' = [want EXCEPT ![r] = w]
          /\ UNCHANGED <<inp, ans, seen, todo, read>>
      BY <1>6, <2>2 DEF WriteMove
    <3> QED BY <3>1, NamesAssumption DEF OthersKeep, TypeOK, StoreTypeOK, Grantable, Card
  <2> QED BY <2>1, <2>2
<1>7. CASE WriteCreate(r)
  <2>1. /\ pc' = [pc EXCEPT ![r] = "key"]
        /\ \E w : want' = [want EXCEPT ![r] = w]
        /\ UNCHANGED <<inp, ans, seen, todo, read, lock>>
    BY <1>7 DEF WriteCreate
  <2> QED BY <2>1 DEF OthersKeep, TypeOK, StoreTypeOK
<1>8. CASE Rewrite(r)
  <2>1. CASE Fail(r, "STALE") BY <2>1
  <2>2. CASE ~Fail(r, "STALE")
    <3>1. /\ Grantable(inp[r].card, r)
          /\ lock' = [lock EXCEPT ![inp[r].card] = r]
          /\ pc' = [pc EXCEPT ![r] = "commit"]
          /\ \E w : want' = [want EXCEPT ![r] = w]
          /\ UNCHANGED <<inp, ans, seen, todo, read>>
      BY <1>8, <2>2 DEF Rewrite
    <3> QED BY <3>1, NamesAssumption DEF OthersKeep, TypeOK, StoreTypeOK, Grantable, Card
  <2> QED BY <2>1, <2>2
<1>9. CASE CloseList(r)
  BY <1>9, NamesAssumption DEF CloseList, OthersKeep, TypeOK, StoreTypeOK, Grantable, Card
<1>10. CASE EnterIndex(r)
  BY <1>10 DEF EnterIndex, OthersKeep, TypeOK, StoreTypeOK
<1>11. CASE Collide(r)
  BY <1>11 DEF Collide, EndAttempt, Released, OthersKeep, TypeOK, StoreTypeOK
<1>12. CASE RefuseLabels(r)
  BY <1>12 DEF RefuseLabels
<1>13. CASE Commit(r)
  BY <1>13, AnswerOthers DEF Commit
<1>14. CASE DeadlockVictim(r)
  BY <1>14 DEF DeadlockVictim
<1> QED
  BY <1>1, <1>2, <1>3, <1>4, <1>5, <1>6, <1>7, <1>8, <1>9, <1>10, <1>11, <1>12, <1>13, <1>14
     DEF Step

(* And a request that comes in.                                            *)
LEMMA AskOthers ==
  ASSUME TypeOK, NEW r \in Request, Ask(r)
  PROVE  OthersKeep(r)
<1>1. /\ \E i : inp' = [inp EXCEPT ![r] = i]
      /\ pc' = [pc EXCEPT ![r] = "start"]
      /\ UNCHANGED <<ans, seen, todo, read, want, lock>>
  BY DEF Ask, Submit, Goto
<1> QED BY <1>1 DEF OthersKeep, TypeOK, StoreTypeOK

-----------------------------------------------------------------------------
(* Steps that commit nothing.                                              *)

(* What another transaction may rely on still holds when no row has        *)
(* changed and the one that moved has its key reserved.                    *)
LEMMA OthersGood ==
  ASSUME TypeOK, Stages, Safe, NEW r \in Request, row' = row, OthersKeep(r), KeyReserved(r)',
         NEW q \in Request \ {r}
  PROVE  Good(q)'
<1> DEFINE c == inp[q].card
<1>1. Good(q) /\ Stage(q)
  BY DEF Safe, Stages
<1>2. Edits(q) => c \in Card
  BY <1>1 DEF Stage, GoodInput, Edits
<1>3. /\ inp'[q] = inp[q] /\ ans'[q] = ans[q] /\ pc'[q] = pc[q] /\ seen'[q] = seen[q]
      /\ todo'[q] = todo[q] /\ read'[q] = read[q] /\ want'[q] = want[q]
      /\ \A x \in Card \union List : lock[x] = q => lock'[x] = q
  BY DEF OthersKeep
<1>4. \A s \in read[q] : s.id \in Card
  BY DEF TypeOK, Entry
<1>5. Unborn(q)' /\ Aged(q)' /\ SeenTrue(q)' /\ WritesCard(q)'
  BY <1>1, <1>3 DEF Good, Unborn, Aged, SeenTrue, WritesCard, Edits
<1>6. HoldsRow(q)'
  BY <1>1, <1>2, <1>3 DEF Good, HoldsRow, Edits, SameKey
<1>7. ReadsHold(q)'
  BY <1>1, <1>3, <1>4 DEF Good, ReadsHold
<1>8. KeyReserved(q)'
  <2> SUFFICES ASSUME Placing(q), pc[q] = "commit"
               PROVE  /\ \A d \in Card \ {c} :
                           row[d].state # "absent" => ~SameKey(row[d], want[q])
                      /\ \A t \in Request \ {q} :
                           Placing(t)' /\ pc'[t] = "commit" => ~SameKey(want'[t], want[q])
    BY <1>3 DEF KeyReserved, Placing, SameKey
  <2>1. \A d \in Card \ {c} : row[d].state # "absent" => ~SameKey(row[d], want[q])
    BY <1>1 DEF Good, KeyReserved
  <2>2. ASSUME NEW t \in Request \ {q}, Placing(t)', pc'[t] = "commit"
        PROVE  ~SameKey(want'[t], want[q])
    <3>1. CASE t = r
      BY <2>2, <3>1, <1>3 DEF KeyReserved, Placing, SameKey
    <3>2. CASE t # r
      <4>1. Placing(t) /\ pc[t] = "commit" /\ want'[t] = want[t]
        BY <2>2, <3>2 DEF OthersKeep, Placing
      <4> QED BY <1>1, <4>1 DEF Good, KeyReserved
    <3> QED BY <3>1, <3>2
  <2> QED BY <2>1, <2>2
<1> QED BY <1>5, <1>6, <1>7, <1>8 DEF Good

(* A transaction that has failed relies on nothing.                        *)
LEMMA RefusedGood ==
  ASSUME TypeOK, Stages, Safe, NEW r \in Request, InTx(r), NEW code, code # "OK", Fail(r, code)
  PROVE  Good(r)'
<1>1. /\ row' = row /\ inp' = inp
      /\ ans'[r] = code /\ pc'[r] = "done" /\ todo'[r] = {} /\ read'[r] = {}
  BY DEF Fail, Answer, EndAttempt, TypeOK, StoreTypeOK
<1>2. ans[r] = None /\ None # "OK"
  BY NamesAssumption DEF InTx, Stages, Stage, Code
<1>3. Good(r)
  BY DEF Safe
<1> QED
  BY <1>1, <1>2, <1>3
     DEF Good, Unborn, Aged, SeenTrue, HoldsRow, WritesCard, ReadsHold, KeyReserved, Edits, Placing

(* Nor does a request that comes in.                                       *)
LEMMA AskGood ==
  ASSUME TypeOK, Stages, Safe, NEW r \in Request, Ask(r)
  PROVE  Good(r)' /\ row' = row
<1>1. PICK s \in Offered[r] :
        /\ InView(s)
        /\ inp'[r].op = s.op
        /\ inp'[r].card = s.card
        /\ inp'[r].expected = IF s.card = None THEN 0 ELSE row[s.card].ver
  BY DEF Ask, Submit, TypeOK, StoreTypeOK
<1>2. s.op \in EditOps => s.card \in Card
  BY OfferedAssumption DEF EditOps
<1>3. /\ row' = row /\ ans' = ans /\ todo' = todo /\ read' = read
      /\ pc[r] = "idle" /\ pc'[r] = "start"
  BY DEF Ask, Submit, Goto, TypeOK
<1>4. todo[r] = {} /\ read[r] = {} /\ ans[r] = None
  BY <1>3 DEF Stages, Stage, InTx
<1>5. Edits(r)' => /\ row[s.card].state = "live"
                   /\ inp'[r].expected = row[s.card].ver
                   /\ row[s.card].ver \in Nat
  BY <1>1, <1>2, NamesAssumption DEF Edits, EditOps, InView, TypeOK, StoreTypeOK, Row
<1>6. Unborn(r)'
  BY <1>3 DEF Safe, Good, Unborn
<1>7. Aged(r)'
  BY <1>1, <1>3, <1>4, <1>5, NamesAssumption DEF Aged, Edits, Code
<1> QED
  BY <1>3, <1>4, <1>6, <1>7 DEF Good, SeenTrue, HoldsRow, WritesCard, ReadsHold, KeyReserved

(* The steps within a transaction.                                         *)

(* The reads: what a transaction has read and locked is as it says.        *)
LEMMA ReadGood ==
  ASSUME TypeOK, Stages, Safe, NEW r \in Request,
         FindCard(r) \/ FindLists(r) \/ StartLockRead(r) \/ LockNextRow(r)
  PROVE  Good(r)' /\ row' = row
<1> DEFINE c == inp[r].card
<1>1. Good(r) /\ Stage(r)
  BY DEF Safe, Stages
<1>2. /\ Edits(r) => c \in Card
      /\ row \in [Card -> Row]
      /\ \A s \in read[r] : s.id \in Card
  BY <1>1 DEF Stage, GoodInput, Edits, TypeOK, StoreTypeOK, Entry
<1>3. ASSUME NEW code, code # "OK", InTx(r), Fail(r, code) PROVE Good(r)' /\ row' = row
  BY <1>3, RefusedGood DEF Fail
<1>4. CASE FindCard(r)
  <2>1. CASE Fail(r, "NOT_FOUND")
    BY <1>3, <1>4, <2>1 DEF FindCard, InTx
  <2>2. CASE ~Fail(r, "NOT_FOUND")
    <3>1. /\ pc[r] = "start" /\ inp[r].op \in EditOps
          /\ row[c].state = "live"
          /\ seen'[r] = row[c] /\ pc'[r] = "lists"
          /\ UNCHANGED <<row, inp, ans, todo, read, want, lock>>
      BY <1>4, <2>2 DEF FindCard, Goto, storeVars, TypeOK, EditOps
    <3>2. Unborn(r)' /\ Aged(r)' /\ ReadsHold(r)'
      BY <1>1, <3>1 DEF Good, Unborn, Aged, ReadsHold, Edits
    <3>3. SeenTrue(r)'
      BY <1>1, <1>2, <3>1 DEF Good, Aged, SeenTrue, Edits, Row
    <3> QED BY <3>1, <3>2, <3>3 DEF Good, HoldsRow, WritesCard, KeyReserved
  <2> QED BY <2>1, <2>2
<1>5. CASE FindLists(r)
  <2>1. CASE Fail(r, ListCheck(r)) /\ ListCheck(r) # "OK"
    BY <1>3, <1>5, <2>1 DEF FindLists, InTx
  <2>2. CASE ~(Fail(r, ListCheck(r)) /\ ListCheck(r) # "OK")
    <3>0. Goto(r, IF inp[r].op \in {"move", "create"} THEN "lock" ELSE "row")
      BY <1>5, <2>2 DEF FindLists
    <3>1. /\ pc[r] = "lists" \/ (pc[r] = "start" /\ inp[r].op \in {"create", "archiveList"})
          /\ pc'[r] \in {"lock", "row"}
          /\ UNCHANGED <<row, inp, ans, seen, todo, read, want, lock>>
      <4>1. UNCHANGED <<row, inp, ans, seen, todo, read, want, lock>>
        BY <1>5, <2>2 DEF FindLists, storeVars
      <4>2. pc'[r] \in {"lock", "row"}
        BY <3>0 DEF Goto, TypeOK
      <4>3. pc[r] = "lists" \/ (pc[r] = "start" /\ inp[r].op \in {"create", "archiveList"})
        BY <1>5 DEF FindLists
      <4> QED BY <4>1, <4>2, <4>3
    <3>2. Unborn(r)' /\ Aged(r)' /\ ReadsHold(r)' /\ SeenTrue(r)'
      BY <1>1, <3>1 DEF Good, Unborn, Aged, ReadsHold, SeenTrue, Edits, EditOps
    <3> QED BY <3>1, <3>2 DEF Good, HoldsRow, WritesCard, KeyReserved
  <2> QED BY <2>1, <2>2
<1>6. CASE StartLockRead(r)
  <2>1. /\ pc[r] = "lock" /\ pc'[r] = "locking"
        /\ \A e \in todo'[r] : row[e.id].state # "absent"
        /\ UNCHANGED <<row, inp, ans, seen, read, want, lock>>
    BY <1>6 DEF StartLockRead, Goto, storeVars, TypeOK
  <2>2. Unborn(r)' /\ Aged(r)' /\ ReadsHold(r)' /\ SeenTrue(r)'
    BY <1>1, <2>1 DEF Good, Unborn, Aged, ReadsHold, SeenTrue, Edits
  <2> QED BY <2>1, <2>2 DEF Good, HoldsRow, WritesCard, KeyReserved
<1>7. CASE LockNextRow(r)
  <2>1. PICK e \in todo[r] :
          /\ lock' = [lock EXCEPT ![e.id] = r]
          /\ todo'[r] = todo[r] \ {e}
          /\ read'[r] = IF row[e.id].list # inp[r].list THEN read[r]
                         ELSE read[r] \union
                              {[id |-> e.id, pos |-> row[e.id].pos, state |-> row[e.id].state]}
    BY <1>7 DEF LockNextRow, FirstOf, LockForUpdate, TypeOK
  <2>2. /\ pc[r] = "locking" /\ UNCHANGED <<row, inp, ans, seen, pc, want>>
    BY <1>7 DEF LockNextRow, storeVars
  <2>3. e.id \in Card /\ lock \in [Card \union List -> Request \union {None}]
    BY DEF TypeOK, Entry
  <2>4. Unborn(r)' /\ Aged(r)' /\ SeenTrue(r)'
    BY <1>1, <2>2 DEF Good, Unborn, Aged, SeenTrue, Edits
  <2>5. ReadsHold(r)'
    BY <1>1, <1>2, <2>1, <2>2, <2>3 DEF Good, ReadsHold
  <2> QED BY <2>2, <2>4, <2>5 DEF Good, HoldsRow, WritesCard, KeyReserved
<1> QED BY <1>4, <1>5, <1>6, <1>7

(* The writes, which nobody else sees yet.                                 *)
LEMMA WriteGood ==
  ASSUME TypeOK, Stages, Safe, NEW r \in Request,
         WriteMove(r) \/ WriteCreate(r) \/ Rewrite(r) \/ CloseList(r)
  PROVE  Good(r)' /\ row' = row
<1> DEFINE c == inp[r].card
<1>1. Good(r) /\ Stage(r)
  BY DEF Safe, Stages
<1>2. /\ Edits(r) => c \in Card
      /\ row \in [Card -> Row]
      /\ lock \in [Card \union List -> Request \union {None}]
      /\ want \in [Request -> Row \union {None}]
      /\ \A s \in read[r] : s.id \in Card
  BY <1>1 DEF Stage, GoodInput, Edits, TypeOK, StoreTypeOK, Entry
<1>3. CASE Fail(r, "STALE")
  BY <1>3, RefusedGood DEF Fail, WriteMove, WriteCreate, Rewrite, CloseList, InTx
<1>4. CASE WriteMove(r) /\ ~Fail(r, "STALE")
  <2>1. /\ pc[r] = "locking" /\ inp[r].op = "move"
        /\ row[c].ver = inp[r].expected
        /\ want'[r].ver = row[c].ver + 1
        /\ want'[r].state = row[c].state
        /\ lock' = [lock EXCEPT ![c] = r]
        /\ pc'[r] = "key"
        /\ UNCHANGED <<row, inp, ans, seen, todo, read>>
    BY <1>2, <1>4 DEF WriteMove, VersionMatches, Bumped, Goto, storeVars, TypeOK
  <2>2. Edits(r) /\ c \in Card /\ row[c].state # "absent"
    BY <1>1, <1>2, <2>1 DEF Good, Aged, Stage, GoodInput, Edits, EditOps
  <2>3. Unborn(r)' /\ Aged(r)' /\ SeenTrue(r)'
    BY <1>1, <2>1 DEF Good, Unborn, Aged, SeenTrue, Edits
  <2>4. HoldsRow(r)' /\ WritesCard(r)'
    BY <1>2, <2>1, <2>2 DEF HoldsRow, WritesCard, Edits, EditOps
  <2>5. ReadsHold(r)'
    BY <1>1, <1>2, <2>1, <2>2 DEF Good, ReadsHold
  <2> QED BY <2>1, <2>3, <2>4, <2>5 DEF Good, KeyReserved
<1>5. CASE WriteCreate(r)
  <2>1. /\ pc[r] = "locking" /\ inp[r].op = "create"
        /\ want'[r].state = "live"
        /\ pc'[r] = "key"
        /\ UNCHANGED <<row, inp, ans, seen, todo, read, lock>>
    BY <1>2, <1>5 DEF WriteCreate, Goto, storeVars, TypeOK
  <2>2. Unborn(r)' /\ Aged(r)' /\ SeenTrue(r)' /\ HoldsRow(r)' /\ WritesCard(r)' /\ ReadsHold(r)'
    BY <1>1, <2>1
       DEF Good, Unborn, Aged, SeenTrue, HoldsRow, WritesCard, ReadsHold, Edits, EditOps
  <2> QED BY <2>1, <2>2 DEF Good, KeyReserved
<1>6. CASE Rewrite(r) /\ ~Fail(r, "STALE")
  <2>1. /\ pc[r] = "row" /\ inp[r].op \in {"update", "archive"}
        /\ row[c].ver = inp[r].expected
        /\ want' = [want EXCEPT ![r] =
             [row[c] EXCEPT !.ver = Bumped(c),
                            !.state = IF inp[r].op = "archive" THEN "archived"
                                      ELSE row[c].state]]
        /\ lock' = [lock EXCEPT ![c] = r]
        /\ pc'[r] = "commit"
        /\ UNCHANGED <<row, inp, ans, seen, todo, read>>
    BY <1>6 DEF Rewrite, VersionMatches, Goto, storeVars, TypeOK
  <2>2. Edits(r) /\ c \in Card /\ row[c].state # "absent"
    BY <1>1, <1>2, <2>1 DEF Good, Aged, Stage, GoodInput, Edits, EditOps
  <2>3. Unborn(r)' /\ Aged(r)' /\ SeenTrue(r)'
    BY <1>1, <2>1 DEF Good, Unborn, Aged, SeenTrue, Edits
  <2>4. /\ want'[r].ver = row[c].ver + 1
        /\ want'[r].list = row[c].list /\ want'[r].pos = row[c].pos
        /\ want'[r].state # "absent"
    <3>1. ASSUME NEW x \in Row, NEW v, NEW t
          PROVE  LET y == [x EXCEPT !.ver = v, !.state = t]
                 IN  y.ver = v /\ y.state = t /\ y.list = x.list /\ y.pos = x.pos
      BY DEF Row
    <3>2. want'[r] = [row[c] EXCEPT !.ver = Bumped(c),
                                    !.state = IF inp[r].op = "archive" THEN "archived"
                                              ELSE row[c].state]
      BY <1>2, <2>1
    <3>3. row[c] \in Row
      BY <1>2, <2>2
    <3> QED BY <2>2, <3>1, <3>2, <3>3 DEF Bumped
  <2>5. HoldsRow(r)' /\ WritesCard(r)'
    BY <1>2, <2>1, <2>2, <2>4 DEF HoldsRow, WritesCard, Edits, EditOps, SameKey
  <2>6. ReadsHold(r)'
    BY <1>1, <1>2, <2>1, <2>2 DEF Good, ReadsHold
  <2>7. KeyReserved(r)'
    BY <2>1 DEF KeyReserved, Placing, PlaceOps
  <2> QED BY <2>1, <2>3, <2>5, <2>6, <2>7 DEF Good
<1>7. CASE CloseList(r)
  <2>1. /\ pc[r] = "row" /\ inp[r].op = "archiveList" /\ inp[r] # None
        /\ lock' = [lock EXCEPT ![inp[r].list] = r]
        /\ pc'[r] = "commit"
        /\ UNCHANGED <<row, inp, ans, seen, todo, read, want>>
    BY <1>1, <1>7 DEF CloseList, Goto, storeVars, TypeOK, Stage
  <2>2. ReadsHold(r)'
    BY <1>1, <1>2, <2>1 DEF Good, ReadsHold
  <2> QED
    BY <1>1, <2>1, <2>2
       DEF Good, Unborn, Aged, SeenTrue, HoldsRow, WritesCard, KeyReserved, Edits, EditOps,
           Placing, PlaceOps
<1> QED BY <1>3, <1>4, <1>5, <1>6, <1>7

(* The unique index, the refusals and the server's own interruptions.      *)
LEMMA KeyGood ==
  ASSUME TypeOK, Stages, Safe, NEW r \in Request,
         EnterIndex(r) \/ Collide(r) \/ RefuseAnchor(r) \/ RefuseLabels(r) \/ DeadlockVictim(r)
           \/ TimeOut(r)
  PROVE  Good(r)' /\ row' = row
<1>1. Good(r) /\ Stage(r)
  BY DEF Safe, Stages
<1>2. ASSUME NEW code, code # "OK", InTx(r), Fail(r, code) PROVE Good(r)' /\ row' = row
  BY <1>2, RefusedGood DEF Fail
<1>3. CASE EnterIndex(r)
  <2>1. /\ pc[r] = "key" /\ pc'[r] = "commit"
        /\ ~KeyTaken(r) /\ KeyBlockers(r) = {}
        /\ \A q \in Request \ {r} : pc'[q] = pc[q]
        /\ UNCHANGED <<row, inp, ans, seen, todo, read, want, lock>>
    BY <1>3 DEF EnterIndex, Goto, storeVars, TypeOK
  <2>2. Unborn(r)' /\ Aged(r)' /\ SeenTrue(r)' /\ HoldsRow(r)' /\ WritesCard(r)' /\ ReadsHold(r)'
    BY <1>1, <2>1
       DEF Good, Unborn, Aged, SeenTrue, HoldsRow, WritesCard, ReadsHold, Edits, SameKey
  <2>3. ASSUME NEW d \in Card \ {inp[r].card}, row[d].state # "absent", SameKey(row[d], want[r])
        PROVE  FALSE
    <3>1. PICK q \in Request : Rewriting(q, d)
      BY <2>1, <2>3 DEF KeyTaken
    <3>2. q # r
      BY <2>3, <3>1 DEF Rewriting
    <3> QED BY <2>1, <2>3, <3>1, <3>2 DEF KeyBlockers
  <2>4. ASSUME NEW q \in Request \ {r}, Placing(q), pc[q] = "commit", SameKey(want[q], want[r])
        PROVE  FALSE
    BY <2>1, <2>4 DEF KeyBlockers, Placing, PlaceOps
  <2>5. KeyReserved(r)'
    BY <2>1, <2>3, <2>4 DEF KeyReserved, Placing, SameKey
  <2> QED BY <2>1, <2>2, <2>5 DEF Good
<1>4. CASE Collide(r)
  <2>1. CASE Fail(r, "CONFLICT")
    BY <1>2, <1>4, <2>1 DEF Collide, InTx
  <2>2. CASE ~Fail(r, "CONFLICT")
    <3>1. /\ pc'[r] = "start" /\ todo'[r] = {} /\ read'[r] = {}
          /\ UNCHANGED <<row, inp, ans>>
      BY <1>4, <2>2 DEF Collide, EndAttempt, Goto, storeVars, TypeOK
    <3> QED
      BY <1>1, <3>1
         DEF Good, Unborn, Aged, SeenTrue, HoldsRow, WritesCard, ReadsHold, KeyReserved, Edits
  <2> QED BY <2>1, <2>2
<1>5. CASE RefuseAnchor(r)
  BY <1>2, <1>5 DEF RefuseAnchor, InTx
<1>6. CASE RefuseLabels(r)
  BY <1>2, <1>6 DEF RefuseLabels, InTx
<1>7. CASE DeadlockVictim(r)
  BY <1>2, <1>7 DEF DeadlockVictim
<1>8. CASE TimeOut(r)
  BY <1>2, <1>8 DEF TimeOut
<1> QED BY <1>3, <1>4, <1>5, <1>6, <1>7, <1>8
-----------------------------------------------------------------------------
(* The step that commits a card. If the card was there before, its row is  *)
(* locked by the transaction and its version grows by one.                 *)

(* A commit writes the one row its operation is about.                     *)
LEMMA CommitFacts ==
  ASSUME TypeOK, Stages, Safe, NEW r \in Request, Commit(r), inp[r].op # "archiveList"
  PROVE  LET c == inp[r].card
         IN  /\ c \in Card
             /\ want[r] \in Row
             /\ want[r].state # "absent"
             /\ row' = [row EXCEPT ![c] = want[r]]
             /\ inp' = inp
             /\ ans' = [ans EXCEPT ![r] = "OK"]
             /\ pc'[r] = "done" /\ todo'[r] = {} /\ read'[r] = {}
             /\ Placing(r) \/ Edits(r)
             /\ inp[r].op = "create" => c = r /\ row[c].state = "absent"
             /\ row[c].state # "absent" =>
                  /\ Edits(r)
                  /\ lock[c] = r
                  /\ row[c].ver = inp[r].expected
                  /\ want[r].ver = row[c].ver + 1
                  /\ inp[r].op # "move" => SameKey(want[r], row[c])
             /\ Edits(r) => row[c].state # "absent"
<1> DEFINE c == inp[r].card
<1>1. Good(r) /\ Stage(r) /\ pc[r] = "commit"
  BY DEF Safe, Stages, Commit
<1>2. inp[r] # None /\ ans[r] = None /\ inp[r] \in Input
  BY <1>1 DEF Stage, TypeOK, StoreTypeOK
<1>3. inp[r].op \in {"create"} \union EditOps
  BY <1>2 DEF Input, Op, EditOps
<1>4. GoodInput(r) /\ want[r] \in Row
  BY <1>1, <1>2 DEF Stage
<1>5. c \in Card /\ (inp[r].op = "create" => c = r)
  BY <1>3, <1>4 DEF GoodInput, EditOps, Card
<1>6. want[r].state # "absent"
  BY <1>1 DEF Good, WritesCard
<1>7. row' = [row EXCEPT ![c] = want[r]] /\ Answer(r, "OK")
  BY DEF Commit
<1>8. /\ inp' = inp /\ ans' = [ans EXCEPT ![r] = "OK"]
      /\ pc'[r] = "done" /\ todo'[r] = {} /\ read'[r] = {}
  BY <1>7 DEF Answer, EndAttempt, TypeOK
<1>9. Placing(r) \/ Edits(r)
  BY <1>2, <1>3 DEF Placing, Edits, PlaceOps
<1>10. inp[r].op = "create" => row[c].state = "absent"
  BY <1>1, <1>2, <1>5, NamesAssumption DEF Good, Unborn, Code
<1>11. Edits(r) => /\ row[c].state # "absent" /\ lock[c] = r
                   /\ row[c].ver = inp[r].expected /\ want[r].ver = row[c].ver + 1
                   /\ inp[r].op # "move" => SameKey(want[r], row[c])
  BY <1>1 DEF Good, Aged, HoldsRow
<1>12. inp[r].op # "create" => Edits(r)
  BY <1>2, <1>3 DEF Edits
<1> QED BY <1>4, <1>5, <1>6, <1>7, <1>8, <1>9, <1>10, <1>11, <1>12

(* A commit leaves what the others have locked and reserved.               *)
LEMMA CommitOthers ==
  ASSUME TypeOK, Stages, Safe, NEW r \in Request, Commit(r), inp[r].op # "archiveList",
         OthersKeep(r), NEW q \in Request \ {r}
  PROVE  Good(q)'
<1> DEFINE c == inp[r].card
           d == inp[q].card
<1>1. Good(q) /\ Stage(q)
  BY DEF Safe, Stages
<1>2. /\ c \in Card
      /\ want[r] \in Row
      /\ want[r].state # "absent"
      /\ row' = [row EXCEPT ![c] = want[r]]
      /\ pc'[r] = "done"
      /\ Placing(r) \/ Edits(r)
      /\ inp[r].op = "create" => c = r
      /\ row[c].state # "absent" =>
           /\ Edits(r)
           /\ lock[c] = r
           /\ want[r].ver = row[c].ver + 1
           /\ inp[r].op # "move" => SameKey(want[r], row[c])
      /\ Edits(r) => row[c].state # "absent"
  BY CommitFacts
<1>3. /\ inp'[q] = inp[q] /\ ans'[q] = ans[q] /\ pc'[q] = pc[q] /\ seen'[q] = seen[q]
      /\ todo'[q] = todo[q] /\ read'[q] = read[q] /\ want'[q] = want[q]
      /\ \A x \in Card \union List : lock[x] = q => lock'[x] = q
  BY DEF OthersKeep
<1>4. /\ row \in [Card -> Row]
      /\ row'[c] = want[r]
      /\ \A x \in Card : x # c => row'[x] = row[x]
      /\ row[c].ver \in Nat
  BY <1>2 DEF TypeOK, StoreTypeOK, Row
<1>5. Edits(q) => /\ d \in Card
                  /\ row[d].state # "absent"
                  /\ inp[q].expected \in Nat
                  /\ inp[q].expected <= row[d].ver
                  /\ ans[q] = "OK" => inp[q].expected < row[d].ver
  BY <1>1 DEF Stage, GoodInput, Edits, Good, Aged, TypeOK, StoreTypeOK, Input
<1>6. Unborn(q)'
  <2>1. CASE q = c
    BY <1>1, <1>2, <1>3, <2>1 DEF Good, Unborn, Placing, PlaceOps, Edits, EditOps
  <2>2. CASE q # c
    BY <1>1, <1>3, <1>4, <2>2 DEF Good, Unborn, Card
  <2> QED BY <2>1, <2>2
<1>7. Aged(q)'
  <2>1. CASE d = c
    BY <1>2, <1>3, <1>4, <1>5, <2>1 DEF Aged, Edits
  <2>2. CASE d # c
    BY <1>3, <1>4, <1>5, <2>2 DEF Aged, Edits
  <2> QED BY <2>1, <2>2
<1>8. SeenTrue(q)'
  <2> SUFFICES ASSUME Edits(q), pc[q] \in {"lists", "lock", "locking", "row", "key", "commit"}
               PROVE  /\ seen[q].state = "live"
                      /\ inp[q].expected <= seen[q].ver
                      /\ seen[q].ver <= row'[d].ver
                      /\ seen[q].ver = row'[d].ver => seen[q] = row'[d]
    BY <1>3 DEF SeenTrue, Edits
  <2>1. /\ seen[q].state = "live"
        /\ inp[q].expected <= seen[q].ver
        /\ seen[q].ver <= row[d].ver
        /\ seen[q].ver = row[d].ver => seen[q] = row[d]
    BY <1>1 DEF Good, SeenTrue
  <2>2. seen[q].ver \in Nat
    BY <1>1 DEF Stage, Edits, Row
  <2>3. CASE d = c
    BY <1>2, <1>4, <1>5, <2>1, <2>2, <2>3
  <2>4. CASE d # c
    BY <1>4, <1>5, <2>1, <2>4
  <2> QED BY <2>3, <2>4
<1>9. HoldsRow(q)'
  <2> SUFFICES ASSUME Edits(q), pc[q] \in {"key", "commit"}
               PROVE  /\ lock'[d] = q
                      /\ row'[d].ver = inp[q].expected
                      /\ want[q].ver = row'[d].ver + 1
                      /\ inp[q].op # "move" => SameKey(want[q], row'[d])
    BY <1>3 DEF HoldsRow, Edits, SameKey
  <2>1. /\ lock[d] = q
        /\ row[d].ver = inp[q].expected
        /\ want[q].ver = row[d].ver + 1
        /\ inp[q].op # "move" => SameKey(want[q], row[d])
    BY <1>1 DEF Good, HoldsRow
  <2>2. d # c
    BY <1>2, <1>5, <2>1
  <2> QED BY <1>3, <1>4, <1>5, <2>1, <2>2
<1>10. WritesCard(q)'
  BY <1>1, <1>3 DEF Good, WritesCard
<1>11. ReadsHold(q)'
  <2>1. ASSUME NEW e \in todo[q] PROVE row'[e.id].state # "absent"
    <3>1. e.id \in Card /\ row[e.id].state # "absent"
      BY <1>1 DEF Good, ReadsHold, TypeOK, Entry
    <3> QED BY <1>2, <1>4, <3>1
  <2>2. ASSUME NEW s \in read[q]
        PROVE  /\ row'[s.id].state # "absent"
               /\ lock'[s.id] = q
               /\ row'[s.id].list = inp[q].list
               /\ row'[s.id].pos = s.pos
               /\ row'[s.id].state = s.state
    <3>1. /\ s.id \in Card
          /\ row[s.id].state # "absent"
          /\ lock[s.id] = q
          /\ row[s.id].list = inp[q].list
          /\ row[s.id].pos = s.pos
          /\ row[s.id].state = s.state
      BY <1>1 DEF Good, ReadsHold, TypeOK, Entry
    <3>2. s.id # c
      BY <1>2, <3>1
    <3> QED BY <1>3, <1>4, <3>1, <3>2
  <2> QED BY <1>3, <2>1, <2>2 DEF ReadsHold
<1>12. KeyReserved(q)'
  <2> SUFFICES ASSUME Placing(q), pc[q] = "commit"
               PROVE  /\ \A x \in Card \ {d} :
                           row'[x].state # "absent" => ~SameKey(row'[x], want[q])
                      /\ \A t \in Request \ {q} :
                           Placing(t)' /\ pc'[t] = "commit" => ~SameKey(want'[t], want[q])
    BY <1>3 DEF KeyReserved, Placing, SameKey
  <2>1. /\ \A x \in Card \ {d} : row[x].state # "absent" => ~SameKey(row[x], want[q])
        /\ \A t \in Request \ {q} :
             Placing(t) /\ pc[t] = "commit" => ~SameKey(want[t], want[q])
    BY <1>1 DEF Good, KeyReserved
  <2>2. c # d => ~SameKey(want[r], want[q])
    <3>1. CASE Placing(r)
      BY <2>1, <3>1 DEF Commit
    <3>2. CASE ~Placing(r)
      <4>1. row[c].state # "absent" /\ SameKey(want[r], row[c])
        BY <1>2, <3>2 DEF Edits, Placing, PlaceOps
      <4> QED BY <1>2, <2>1, <4>1 DEF SameKey
    <3> QED BY <3>1, <3>2
  <2>3. ASSUME NEW x \in Card \ {d}, row'[x].state # "absent"
        PROVE  ~SameKey(row'[x], want[q])
    BY <1>4, <2>1, <2>2, <2>3
  <2>4. ASSUME NEW t \in Request \ {q}, Placing(t)', pc'[t] = "commit"
        PROVE  ~SameKey(want'[t], want[q])
    <3>1. t # r
      BY <1>2, <2>4
    <3>2. Placing(t) /\ pc[t] = "commit" /\ want'[t] = want[t]
      BY <2>4, <3>1 DEF OthersKeep, Placing
    <3> QED BY <2>1, <3>2
  <2> QED BY <2>3, <2>4
<1> QED BY <1>6, <1>7, <1>8, <1>9, <1>10, <1>11, <1>12 DEF Good

(* A commit leaves everything safe.                                        *)
LEMMA CommitSafe ==
  ASSUME TypeOK, Stages, Safe, NEW r \in Request, Commit(r), inp[r].op # "archiveList",
         OthersKeep(r)
  PROVE  Safe'
<1> DEFINE c == inp[r].card
<1>1. /\ c \in Card
      /\ want[r] \in Row
      /\ row' = [row EXCEPT ![c] = want[r]]
      /\ inp' = inp
      /\ ans' = [ans EXCEPT ![r] = "OK"]
      /\ pc'[r] = "done" /\ todo'[r] = {} /\ read'[r] = {}
      /\ want[r].state # "absent"
      /\ Placing(r) \/ Edits(r)
      /\ row[c].state # "absent" =>
           /\ Edits(r)
           /\ row[c].ver = inp[r].expected
           /\ want[r].ver = row[c].ver + 1
           /\ inp[r].op # "move" => SameKey(want[r], row[c])
      /\ Edits(r) => row[c].state # "absent"
  BY CommitFacts
<1>2. /\ row'[c] = want[r]
      /\ \A x \in Card : x # c => row'[x] = row[x]
      /\ row[c].ver \in Nat
  BY <1>1 DEF TypeOK, StoreTypeOK, Row
<1>3. Good(r) /\ UniquePosition /\ NoLostUpdate
  BY DEF Safe
<1>4. Good(r)'
  <2>1. Aged(r)' /\ Unborn(r)'
    BY <1>1, <1>2, <1>3 DEF Aged, Unborn, Edits, TypeOK, StoreTypeOK
  <2> QED
    BY <1>1, <2>1 DEF Good, SeenTrue, HoldsRow, WritesCard, ReadsHold, KeyReserved
<1>5. UniquePosition'
  <2>1. ASSUME NEW x \in Card, x # c, row[x].state # "absent"
        PROVE  ~SameKey(row[x], want[r])
    <3>1. CASE Placing(r)
      BY <1>3, <2>1, <3>1 DEF Good, KeyReserved, Commit
    <3>2. CASE ~Placing(r)
      <4>1. row[c].state # "absent" /\ SameKey(want[r], row[c])
        BY <1>1, <3>2 DEF Edits, Placing, PlaceOps
      <4> QED BY <1>1, <1>3, <2>1, <4>1 DEF UniquePosition, SameKey
    <3> QED BY <3>1, <3>2
  <2>2. ASSUME NEW x \in Card, NEW y \in Card, x # y,
               row'[x].state # "absent", row'[y].state # "absent"
        PROVE  ~SameKey(row'[x], row'[y])
    <3>1. CASE x = c
      BY <1>2, <2>1, <2>2, <3>1 DEF SameKey
    <3>2. CASE y = c
      BY <1>2, <2>1, <2>2, <3>2
    <3>3. CASE x # c /\ y # c
      BY <1>2, <1>3, <2>2, <3>3 DEF UniquePosition
    <3> QED BY <3>1, <3>2, <3>3
  <2> QED BY <2>2 DEF UniquePosition, SameKey
<1>6. NoLostUpdate'
  <2>1. ASSUME NEW s \in Request, s # r, ans[s] = "OK", inp[s].op \in EditOps,
               inp[r].op \in EditOps, inp[s].card = c
        PROVE  inp[s].expected # inp[r].expected
    <3>1. inp[s] # None /\ inp[r] # None
      BY <2>1, NamesAssumption DEF Stages, Stage, Commit, Code
    <3>2. inp[s] \in Input /\ Good(s)
      BY <3>1 DEF Safe, TypeOK, StoreTypeOK
    <3>3. inp[s].expected \in Nat /\ inp[s].expected < row[c].ver
      BY <2>1, <3>1, <3>2 DEF Good, Aged, Edits, Input
    <3>4. row[c].ver = inp[r].expected
      BY <1>1, <2>1, <3>1 DEF Edits
    <3> QED BY <1>2, <3>3, <3>4
  <2>2. \A s \in Request : s # r => ans'[s] = ans[s]
    BY <1>1 DEF TypeOK, StoreTypeOK
  <2> QED BY <1>1, <1>3, <2>1, <2>2 DEF NoLostUpdate, EditOps
<1>7. \A q \in Request \ {r} : Good(q)'
  BY CommitOthers
<1> QED BY <1>4, <1>5, <1>6, <1>7 DEF Safe
-----------------------------------------------------------------------------
(* The invariant is inductive.                                             *)

(* So does every step that changes no row.                                 *)
LEMMA QuietKeeps ==
  ASSUME TypeOK, Stages, Safe, NEW r \in Request, row' = row, OthersKeep(r), Good(r)',
         inp'[r] = inp[r] \/ ans'[r] # "OK",
         ans'[r] = "OK" => (ans[r] = "OK" \/ inp[r].op = "archiveList")
  PROVE  Safe'
<1>1. \A q \in Request \ {r} : Good(q)'
  BY OthersGood DEF Good
<1>2. UniquePosition'
  BY DEF Safe, UniquePosition, SameKey
<1>3. NoLostUpdate'
  BY DEF Safe, NoLostUpdate, OthersKeep
<1> QED BY <1>1, <1>2, <1>3 DEF Safe

(* Everything is safe at the start.                                        *)
LEMMA SafeInitially ==
  ASSUME Init
  PROVE  Safe
<1>1. /\ row = InitRow
      /\ \A r \in Request : /\ inp[r] = None /\ ans[r] = None /\ pc[r] = "idle"
                            /\ todo[r] = {} /\ read[r] = {}
  BY DEF Init, StoreInit
<1>2. UniquePosition
  BY <1>1, InitRowAssumption DEF UniquePosition, SameKey
<1>3. NoLostUpdate
  BY <1>1, NamesAssumption DEF NoLostUpdate, Code
<1>4. \A r \in Request : Good(r)
  BY <1>1, InitRowAssumption
     DEF Good, Unborn, Aged, SeenTrue, HoldsRow, WritesCard, ReadsHold, KeyReserved, Edits, Placing
<1> QED BY <1>2, <1>3, <1>4 DEF Safe

(* And after every step.                                                   *)
LEMMA SafeKept ==
  ASSUME TypeOK, Stages, Safe, [Next]_vars
  PROVE  Safe'
<1>1. CASE UNCHANGED vars
  BY <1>1
     DEF vars, Safe, UniquePosition, NoLostUpdate, Good, Unborn, Aged, SeenTrue, HoldsRow,
         WritesCard, ReadsHold, KeyReserved, Edits, Placing, SameKey
<1>2. ASSUME NEW r \in Request, Ask(r) PROVE Safe'
  <2>1. Good(r)' /\ row' = row /\ OthersKeep(r)
    BY <1>2, AskGood, AskOthers
  <2>2. ans'[r] # "OK"
    BY <1>2, NamesAssumption DEF Ask, Submit, Stages, Stage, Code
  <2> QED BY <2>1, <2>2, QuietKeeps
<1>3. ASSUME NEW r \in Request, Commit(r) PROVE Safe'
  <2>1. OthersKeep(r)
    BY <1>3, AnswerOthers DEF Commit
  <2>2. CASE inp[r].op # "archiveList"
    BY <1>3, <2>1, <2>2, CommitSafe
  <2>3. CASE inp[r].op = "archiveList"
    <3>1. /\ row' = row /\ inp' = inp
          /\ ans'[r] = "OK" /\ pc'[r] = "done" /\ todo'[r] = {} /\ read'[r] = {}
      BY <1>3, <2>3 DEF Commit, Answer, EndAttempt, TypeOK, StoreTypeOK
    <3>2. Good(r)'
      BY <2>3, <3>1
         DEF Good, Unborn, Aged, SeenTrue, HoldsRow, WritesCard, ReadsHold, KeyReserved,
             Edits, EditOps
    <3> QED BY <2>1, <2>3, <3>1, <3>2, QuietKeeps
  <2> QED BY <2>2, <2>3
<1>4. ASSUME NEW r \in Request, Step(r) \/ TimeOut(r), ~Commit(r) PROVE Safe'
  <2>1. Good(r)' /\ row' = row
    BY <1>4, ReadGood, WriteGood, KeyGood DEF Step
  <2>2. OthersKeep(r)
    BY <1>4, StepOthers, FailOthers DEF TimeOut
  <2>3. inp' = inp /\ (ans' = ans \/ ans'[r] # "OK")
    <3>1. ASSUME NEW code, code # "OK", Fail(r, code) PROVE inp' = inp /\ ans'[r] # "OK"
      BY <3>1 DEF Fail, Answer, TypeOK, StoreTypeOK
    <3>2. ListCheck(r) # "OK" => "OK" # ListCheck(r)
      OBVIOUS
    <3> QED
      BY <1>4, <3>1
         DEF Step, TimeOut, FindCard, FindLists, StartLockRead, LockNextRow, RefuseAnchor,
             WriteMove, WriteCreate, Rewrite, CloseList, EnterIndex, Collide, RefuseLabels,
             DeadlockVictim, storeVars
  <2> QED BY <2>1, <2>2, <2>3, QuietKeeps
<1>5. CASE Quiet
  BY <1>1, <1>5 DEF Quiet
<1> QED BY <1>1, <1>2, <1>3, <1>4, <1>5 DEF Next
-----------------------------------------------------------------------------
(* The results.                                                            *)

(* However the transactions of moveCard, createCard, updateCard,           *)
(* archiveCard and archiveList interleave, collide, retry, deadlock or     *)
(* time out, what each has read, locked and is about to write fits the     *)
(* committed rows in the way Good says.                                    *)
THEOREM Invariant == Spec => [](TypeOK /\ Stages /\ Safe)
<1>1. Init => Safe
  BY SafeInitially
<1>2. TypeOK /\ Stages /\ Safe /\ [Next]_vars => Safe'
  BY SafeKept
<1>3. Spec => [](TypeOK /\ Stages)
  BY TypeCorrect
<1>4. Init /\ [](TypeOK /\ Stages) /\ [][Next]_vars => []Safe
  BY <1>1, <1>2, PTL
<1> QED BY <1>3, <1>4, PTL DEF Spec

(* No two cards, archived ones included, ever share a list and position:   *)
(* the wait for open writers of a key and the retry after a collision are  *)
(* enough, whatever the lock read has missed.                              *)
THEOREM PositionsUnique == Spec => []UniquePosition
<1>1. Safe => UniquePosition
  BY DEF Safe
<1> QED BY <1>1, Invariant, PTL

(* Two requests that name the same version of the same card are never both *)
(* answered OK: the version test of the conditional update is made on the  *)
(* locked row.                                                             *)
THEOREM NoUpdateLost == Spec => []NoLostUpdate
<1>1. Safe => NoLostUpdate
  BY DEF Safe
<1> QED BY <1>1, Invariant, PTL

(* The rows that the lock read of moveCard and createCard has returned     *)
(* keep their list, position and state until the transaction ends.         *)
THEOREM LockedRowsHold == Spec => []LockedReadHolds
<1>1. Safe => LockedReadHolds
  BY DEF Safe, Good, ReadsHold, LockedReadHolds
<1> QED BY <1>1, Invariant, PTL

(* A transaction about to commit a card that was there before has seen the *)
(* very version it replaces.                                               *)
LEMMA SeenIsCommitted ==
  ASSUME TypeOK, Stages, Safe, NEW r \in Request, Edits(r), pc[r] = "commit"
  PROVE  seen[r] = row[inp[r].card] /\ seen[r].state = "live"
<1> DEFINE c == inp[r].card
<1>1. /\ seen[r].state = "live"
      /\ inp[r].expected <= seen[r].ver
      /\ seen[r].ver <= row[c].ver
      /\ seen[r].ver = row[c].ver => seen[r] = row[c]
      /\ row[c].ver = inp[r].expected
  BY DEF Safe, Good, SeenTrue, HoldsRow
<1>2. seen[r].ver \in Nat /\ row[c].ver \in Nat
  BY DEF Stages, Stage, GoodInput, Edits, TypeOK, StoreTypeOK, Row
<1> QED BY <1>1, <1>2

(* A card is never changed, and never comes back, once it is archived.     *)
THEOREM ArchivedStays == Spec => ArchivedIsFinal
<1>1. ASSUME TypeOK, Stages, Safe, [Next]_vars, NEW c \in Card, row[c].state = "archived"
      PROVE  row'[c] = row[c]
  <2>1. CASE UNCHANGED vars \/ Quiet
    BY <2>1 DEF Quiet, vars
  <2>2. ASSUME NEW r \in Request, Ask(r) PROVE row' = row
    BY <1>1, <2>2, AskGood
  <2>3. ASSUME NEW r \in Request, Step(r) \/ TimeOut(r), ~Commit(r) PROVE row' = row
    BY <1>1, <2>3, ReadGood, WriteGood, KeyGood DEF Step
  <2>4. ASSUME NEW r \in Request, Commit(r) PROVE row'[c] = row[c]
    <3>1. CASE inp[r].op = "archiveList"
      BY <2>4, <3>1 DEF Commit
    <3>2. CASE inp[r].op # "archiveList"
      <4>1. /\ row' = [row EXCEPT ![inp[r].card] = want[r]]
            /\ row[inp[r].card].state # "absent" => Edits(r)
        BY <1>1, <2>4, <3>2, CommitFacts
      <4>2. pc[r] = "commit"
        BY <2>4 DEF Commit
      <4>3. inp[r].card # c
        BY <1>1, <4>1, <4>2, SeenIsCommitted
      <4> QED BY <4>1, <4>3 DEF TypeOK, StoreTypeOK
    <3> QED BY <3>1, <3>2
  <2> QED BY <1>1, <2>1, <2>2, <2>3, <2>4 DEF Next
<1>2. TypeOK /\ Stages /\ Safe /\ [Next]_vars
        => [\A c \in Card : row[c].state = "archived" => row'[c] = row[c]]_vars
  BY <1>1
<1> QED BY <1>2, Invariant, PTL DEF Spec, ArchivedIsFinal

(* The list a successful move reports as the card's origin is the list the *)
(* card is in up to the step that moves it, though findCard read it before *)
(* the transaction had any lock.                                           *)
THEOREM FromListTrue == Spec => FromListIsTrue
<1>1. ASSUME TypeOK, Stages, Safe, NEW r \in Request, Places(r), inp[r].op = "move"
      PROVE  row[inp[r].card].list = seen[r].list
  <2>1. pc[r] = "commit" /\ inp[r] # None
    BY <1>1, NamesAssumption DEF Places, Stages, Stage
  <2>2. Edits(r)
    BY <1>1, <2>1 DEF Edits, EditOps
  <2> QED BY <1>1, <2>1, <2>2, SeenIsCommitted
<1>2. TypeOK /\ Stages /\ Safe
        => [\A r \in Request : Places(r) /\ inp[r].op = "move" =>
              row[inp[r].card].list = seen[r].list]_vars
  BY <1>1
<1> QED BY <1>2, Invariant, PTL DEF Spec, FromListIsTrue
-----------------------------------------------------------------------------
(* CardWrites keeps the promise of CardStore.                              *)

(* What findList has checked stays so; the key of a card that is placed    *)
(* lies between the bounds that its own lock read gives; and what an edit  *)
(* writes was live.                                                        *)
Kept(r) ==
  /\ pc[r] \in {"lock", "locking", "row", "key", "commit"} =>
       /\ inp[r].op \in {"move", "create", "archiveList"} => inp[r].list \notin ForeignList
       /\ Edits(r) => seen[r].list \notin ForeignList
  /\ Placing(r) /\ pc[r] \in {"key", "commit"} =>
       /\ AnchorKnown(r)
       /\ want[r].list = inp[r].list /\ want[r].state = "live"
       /\ want[r].pos \in Key /\ Lower(r) < want[r].pos /\ want[r].pos < Upper(r)
       /\ inp[r].op = "create" => want[r].ver = 0
  /\ pc[r] = "commit" /\ inp[r].op \in {"update", "archive"} =>
       want[r].state = IF inp[r].op = "archive" THEN "archived" ELSE "live"

AllKept == \A r \in Request : Kept(r)

(* The bounds depend on the request and its own reads alone.               *)
LEMMA BoundsStand ==
  ASSUME NEW r \in Request, inp'[r] = inp[r], read'[r] = read[r]
  PROVE  /\ AnchorKnown(r)' = AnchorKnown(r)
         /\ Lower(r)' = Lower(r) /\ Upper(r)' = Upper(r)
<1>1. Siblings(r)' = Siblings(r)
  BY DEF Siblings
<1>2. Lower(r)' = Lower(r) /\ AnchorKnown(r)' = AnchorKnown(r)
  BY <1>1 DEF Lower, AnchorKnown
<1>3. NextSibling(r)' = NextSibling(r)
  BY <1>1, <1>2 DEF NextSibling
<1> QED
  BY <1>2, <1>3 DEF Upper

(* A request that others leave alone keeps what it has.                    *)
LEMMA KeptByOthers ==
  ASSUME AllKept, NEW r \in Request, OthersKeep(r), NEW q \in Request \ {r}
  PROVE  Kept(q)'
<1>1. /\ inp'[q] = inp[q] /\ pc'[q] = pc[q] /\ seen'[q] = seen[q] /\ read'[q] = read[q]
      /\ want'[q] = want[q]
  BY DEF OthersKeep
<1>2. AnchorKnown(q)' = AnchorKnown(q) /\ Lower(q)' = Lower(q) /\ Upper(q)' = Upper(q)
  BY <1>1, BoundsStand
<1> QED
  BY <1>1, <1>2 DEF AllKept, Kept, Edits, Placing

(* A card is live when an edit or a move writes it: it was found live, and *)
(* its version is still that one.                                          *)
LEMMA WritesLive ==
  ASSUME TypeOK, Stages, Safe, NEW r \in Request, Edits(r), pc[r] \in {"locking", "row"},
         VersionMatches(r)
  PROVE  row[inp[r].card].state = "live"
<1>1. Good(r) /\ Stage(r)
  BY DEF Safe, Stages
<1>2. row[inp[r].card].ver \in Nat /\ seen[r].ver \in Nat
  BY <1>1 DEF Stage, GoodInput, Edits, TypeOK, StoreTypeOK, Row
<1> QED
  BY <1>1, <1>2 DEF Good, SeenTrue, VersionMatches

(* .. and so do its own steps, the commit included.                        *)
LEMMA KeptByStep ==
  ASSUME TypeOK, Stages, Safe, AllKept, NEW r \in Request, Ask(r) \/ Step(r) \/ TimeOut(r)
  PROVE  Kept(r)'
<1>0. Kept(r) /\ Stage(r)
  BY DEF AllKept, Stages
<1>1. ASSUME NEW code, Answer(r, code) PROVE Kept(r)'
  BY <1>1 DEF Answer, Kept, TypeOK
<1>2. CASE Ask(r)
  BY <1>2 DEF Ask, Goto, Kept, TypeOK
<1>3. CASE FindCard(r)
  BY <1>1, <1>3 DEF FindCard, Fail, Goto, Kept, TypeOK
<1>4. CASE FindLists(r)
  <2>1. CASE ListCheck(r) # "OK"
    BY <1>1, <1>4, <2>1 DEF FindLists, Fail
  <2>2. CASE ListCheck(r) = "OK"
    <3>1. ~OtherBoard(r)
      BY <2>2 DEF ListCheck
    <3>2. /\ pc'[r] \in {"lock", "row"} /\ UNCHANGED <<inp, seen>>
      BY <1>4, <2>2 DEF FindLists, Goto, storeVars, TypeOK
    <3> QED
      BY <3>1, <3>2 DEF OtherBoard, Kept, Edits, EditOps
  <2> QED
    BY <2>1, <2>2
<1>5. CASE StartLockRead(r) \/ LockNextRow(r)
  <2>1. pc[r] \in {"lock", "locking"} /\ pc'[r] = "locking" /\ UNCHANGED <<inp, seen>>
    BY <1>5 DEF StartLockRead, LockNextRow, Goto, storeVars, TypeOK
  <2> QED
    BY <1>0, <2>1 DEF Kept, Edits
<1>6. CASE RefuseAnchor(r) \/ RefuseLabels(r) \/ Commit(r) \/ DeadlockVictim(r) \/ TimeOut(r)
  BY <1>1, <1>6 DEF RefuseAnchor, RefuseLabels, Commit, DeadlockVictim, TimeOut, Fail
<1>7. ASSUME (WriteMove(r) /\ ~Fail(r, "STALE")) \/ WriteCreate(r)
      PROVE  Kept(r)'
  <2>1. /\ pc[r] = "locking" /\ pc'[r] = "key" /\ AnchorKnown(r)
        /\ UNCHANGED <<row, inp, seen, read>>
        /\ inp[r].op \in {"move", "create"}
    BY <1>7 DEF WriteMove, WriteCreate, Goto, storeVars, TypeOK
  <2>2. PICK k \in KeyBetween(Lower(r), Upper(r)) :
          /\ want'[r].list = inp[r].list /\ want'[r].pos = k
          /\ inp[r].op = "create" => want'[r].state = "live" /\ want'[r].ver = 0
          /\ inp[r].op = "move" => want'[r].state = row[inp[r].card].state /\ VersionMatches(r)
    BY <1>7 DEF WriteMove, WriteCreate, TypeOK
  <2>3. inp[r].op = "move" => row[inp[r].card].state = "live"
    <3>1. inp[r] # None
      BY <1>0, <2>1 DEF Stage
    <3> QED
      BY <2>1, <2>2, <3>1, WritesLive DEF Edits, EditOps
  <2>4. AnchorKnown(r)' /\ Lower(r)' = Lower(r) /\ Upper(r)' = Upper(r)
    BY <2>1, BoundsStand
  <2>5. k \in Key /\ Lower(r) < k /\ k < Upper(r)
    BY <2>2 DEF KeyBetween
  <2> QED
    BY <1>0, <2>1, <2>2, <2>3, <2>4, <2>5 DEF Kept, Edits
<1>8. CASE Rewrite(r) /\ ~Fail(r, "STALE")
  <2>1. /\ pc[r] = "row" /\ pc'[r] = "commit" /\ inp[r].op \in {"update", "archive"}
        /\ VersionMatches(r) /\ UNCHANGED <<inp, seen>>
    BY <1>8 DEF Rewrite, Goto, storeVars, TypeOK
  <2>2. inp[r] # None /\ inp[r].card \in Card /\ row[inp[r].card] \in Row
    BY <1>0, <2>1 DEF Stage, GoodInput, TypeOK, StoreTypeOK, EditOps
  <2>3. row[inp[r].card].state = "live"
    BY <2>1, <2>2, WritesLive DEF Edits, EditOps
  <2>4. want'[r] = [row[inp[r].card] EXCEPT !.ver = Bumped(inp[r].card),
                      !.state = IF inp[r].op = "archive" THEN "archived" ELSE row[inp[r].card].state]
    BY <1>8 DEF Rewrite, TypeOK
  <2>5. want'[r].state = IF inp[r].op = "archive" THEN "archived" ELSE "live"
    <3>1. ASSUME NEW x \in Row, NEW v, NEW t
          PROVE  LET y == [x EXCEPT !.ver = v, !.state = t] IN y.state = t
      BY DEF Row
    <3> QED
      BY <2>2, <2>3, <2>4, <3>1
  <2> QED
    BY <1>0, <2>1, <2>5 DEF Kept, Edits, Placing, PlaceOps
<1>9. CASE CloseList(r)
  <2>1. pc[r] = "row" /\ pc'[r] = "commit" /\ inp[r].op = "archiveList" /\ UNCHANGED <<inp, seen>>
    BY <1>9 DEF CloseList, Goto, storeVars, TypeOK
  <2> QED
    BY <1>0, <2>1 DEF Kept, Edits, EditOps, Placing, PlaceOps
<1>10. CASE EnterIndex(r)
  <2>1. pc[r] = "key" /\ pc'[r] = "commit" /\ UNCHANGED <<inp, seen, read, want>>
    BY <1>10 DEF EnterIndex, Goto, storeVars, TypeOK
  <2>2. AnchorKnown(r)' = AnchorKnown(r) /\ Lower(r)' = Lower(r) /\ Upper(r)' = Upper(r)
    BY <2>1, BoundsStand
  <2> QED
    BY <1>0, <2>1, <2>2 DEF Kept, Edits, Placing, Stage, PlaceOps
<1>11. CASE Collide(r)
  <2>1. CASE Fail(r, "CONFLICT")
    BY <1>1, <2>1 DEF Fail
  <2>2. CASE ~Fail(r, "CONFLICT")
    BY <1>11, <2>2 DEF Collide, Goto, Kept, TypeOK
  <2> QED
    BY <2>1, <2>2
<1>12. CASE Fail(r, "STALE")
  BY <1>1, <1>12 DEF Fail
<1> QED
  BY <1>2, <1>3, <1>4, <1>5, <1>6, <1>7, <1>8, <1>9, <1>10, <1>11, <1>12 DEF Step

(* What is read below the anchor, and what the anchor is.                  *)
LEMMA AnchorIsBelow ==
  ASSUME TypeOK, Stages, Safe, AllKept, NEW r \in Request, pc[r] = "commit", Placing(r),
         inp[r].after # None
  PROVE  /\ IsLiveIn(inp[r].after, inp[r].list)
         /\ Lower(r) = row[inp[r].after].pos
         /\ Below(inp[r].after, inp[r].list, want[r].pos)
<1>1. Kept(r) /\ Good(r) /\ inp[r].after \in Card
  BY DEF AllKept, Safe, Placing, TypeOK, StoreTypeOK, Input
<1>2. \E s \in Siblings(r) : s.id = inp[r].after
  BY <1>1 DEF Kept, AnchorKnown
<1>3. \A s \in Siblings(r) : s.id = inp[r].after =>
         IsLiveIn(inp[r].after, inp[r].list) /\ s.pos = row[inp[r].after].pos
  BY <1>1 DEF Siblings, Good, ReadsHold, IsLiveIn
<1>4. Lower(r) = row[inp[r].after].pos
  <2> DEFINE a == CHOOSE s \in Siblings(r) : s.id = inp[r].after
  <2>1. a \in Siblings(r) /\ a.id = inp[r].after
    BY <1>2
  <2>2. Lower(r) = a.pos
    BY DEF Lower
  <2> QED
    BY <1>3, <2>1, <2>2
<1> QED
  BY <1>1, <1>2, <1>3, <1>4 DEF Below, Kept

(* The commit of a transaction is the operation's one step in CardStore:   *)
(* its guards hold at the commit, however long ago they were tested.       *)
LEMMA CommitApplies ==
  ASSUME TypeOK, Stages, Safe, AllKept, NEW r \in Request, Commit(r)
  PROVE  Apply(r)
<1> DEFINE c == inp[r].card
           l == inp[r].list
<1>1. Kept(r) /\ Good(r) /\ Stage(r) /\ pc[r] = "commit" /\ ~LabelsRefused(r)
  BY DEF AllKept, Safe, Stages, Commit
<1>2. inp[r] \in Input /\ inp[r] # None /\ ans[r] = None /\ GoodInput(r) /\ Pending(r)
  BY <1>1 DEF Stage, TypeOK, StoreTypeOK, Pending
<1>3. ans' = [ans EXCEPT ![r] = "OK"] /\ inp' = inp
  BY DEF Commit, Answer
<1>4. CASE inp[r].op = "archiveList"
  <2>1. StoreArchiveList(r)
    BY <1>1, <1>4 DEF Commit, Kept, StoreArchiveList
  <2> QED
    BY <1>2, <1>3, <2>1 DEF Apply
<1>5. CASE inp[r].op # "archiveList"
  <2>1. /\ c \in Card /\ want[r] \in Row /\ closed' = closed
        /\ row' = [row EXCEPT ![c] = want[r]]
        /\ inp[r].op = "create" => row[c].state = "absent"
        /\ Edits(r) => /\ row[c].ver = inp[r].expected
                       /\ want[r].ver = row[c].ver + 1
                       /\ inp[r].op # "move" => SameKey(want[r], row[c])
    BY <1>5, CommitFacts DEF Commit
  <2>2. Edits(r) => row[c].state = "live" /\ row[c].list \notin ForeignList
    BY <1>1, SeenIsCommitted DEF Kept
  <2>3. CASE inp[r].op \in PlaceOps
    <3>1. /\ want[r].list = l /\ want[r].state = "live" /\ want[r].pos \in Key /\ l \notin ForeignList
          /\ inp[r].op = "create" => want[r].ver = 0
          /\ \A d \in Card \ {c} : row[d].state # "absent" => ~SameKey(row[d], want[r])
      BY <1>1, <1>2, <2>3 DEF Kept, Good, KeyReserved, Placing, PlaceOps
    <3>2. Below(inp[r].after, l, want[r].pos)
      BY <1>1, <1>2, <2>3, AnchorIsBelow DEF Below, Placing
    <3>3. FreeKey(l, want[r].pos, c)
      BY <3>1 DEF FreeKey, SameKey
    <3>4. \A x \in Row : x = [list |-> x.list, pos |-> x.pos, ver |-> x.ver, state |-> x.state]
      BY DEF Row
    <3>5. want[r] = [list |-> l, pos |-> want[r].pos, ver |-> want[r].ver, state |-> "live"]
      BY <2>1, <3>1, <3>4
    <3>6. CASE inp[r].op = "move"
      <4>1. Edits(r)
        BY <1>2, <3>6 DEF Edits, EditOps
      <4>2. StoreMove(r)
        BY <2>1, <2>2, <3>1, <3>2, <3>3, <3>5, <3>6, <4>1 DEF StoreMove
      <4> QED
        BY <1>2, <1>3, <4>2 DEF Apply
    <3>7. CASE inp[r].op = "create"
      <4>1. StoreCreate(r)
        BY <1>1, <2>1, <3>1, <3>2, <3>3, <3>5, <3>7 DEF StoreCreate, LabelsRefused
      <4> QED
        BY <1>2, <1>3, <4>1 DEF Apply
    <3> QED
      BY <2>3, <3>6, <3>7 DEF PlaceOps
  <2>4. CASE inp[r].op \in {"update", "archive"}
    <3>1. Edits(r)
      BY <1>2, <2>4 DEF Edits, EditOps
    <3>2. want[r].state = IF inp[r].op = "archive" THEN "archived" ELSE "live"
      BY <1>1, <2>4 DEF Kept
    <3>3. /\ want[r].list = row[c].list /\ want[r].pos = row[c].pos
          /\ want[r].ver = row[c].ver + 1 /\ row[c] \in Row
      BY <2>1, <2>4, <3>1 DEF SameKey, TypeOK, StoreTypeOK
    <3>4. \A x, y \in Row : y.list = x.list /\ y.pos = x.pos =>
            y = [[x EXCEPT !.ver = y.ver] EXCEPT !.state = y.state]
      BY DEF Row
    <3>5. want[r] = [[row[c] EXCEPT !.ver = want[r].ver] EXCEPT !.state = want[r].state]
      BY <2>1, <3>3, <3>4
    <3>6. row' = [row EXCEPT ![c].ver = row[c].ver + 1,
                             ![c].state = IF inp[r].op = "archive" THEN "archived" ELSE "live"]
      <4>1. ASSUME NEW v, NEW t
            PROVE  [row EXCEPT ![c].ver = v, ![c].state = t]
                     = [row EXCEPT ![c] = [[row[c] EXCEPT !.ver = v] EXCEPT !.state = t]]
        BY <2>1 DEF TypeOK, StoreTypeOK
      <4> QED
        BY <2>1, <3>2, <3>3, <3>5, <4>1
    <3>7. StoreRewrite(r)
      BY <1>1, <2>1, <2>2, <2>4, <3>1, <3>6 DEF StoreRewrite, LabelsRefused
    <3> QED
      BY <1>2, <1>3, <3>7 DEF Apply
  <2> QED
    BY <1>2, <1>5, <2>3, <2>4 DEF Input, Op, PlaceOps
<1> QED
  BY <1>4, <1>5

(* Every other step is a call, a refusal, or nothing to CardStore.         *)
LEMMA StepKeepsPromise ==
  ASSUME TypeOK, Stages, Safe, AllKept, [Next]_vars
  PROVE  [StoreNext]_storeVars
<1>1. ASSUME NEW r \in Request, NEW code \in Code \ {"OK"}, InTx(r), Fail(r, code)
      PROVE  Refuse(r)
  <2>1. Pending(r)
    BY <1>1 DEF Stages, Stage, InTx, Pending
  <2> QED
    BY <1>1, <2>1 DEF Fail, Answer, Refuse
<1>2. ASSUME NEW r \in Request, Ask(r) PROVE Submit(r)
  BY <1>2 DEF Ask
<1>3. ASSUME NEW r \in Request, Step(r) \/ TimeOut(r), ~Commit(r)
      PROVE  Refuse(r) \/ UNCHANGED storeVars
  <2>1. {"OK", "INVALID", "NOT_FOUND", "STALE", "CONFLICT", "INTERNAL"} = Code
    BY DEF Code
  <2>2. ListCheck(r) \in Code
    BY <2>1 DEF ListCheck
  <2>3. (\E code \in Code \ {"OK"} : InTx(r) /\ Fail(r, code)) \/ UNCHANGED storeVars
    <3>1. CASE FindCard(r) \/ FindLists(r)
      BY <2>1, <2>2, <3>1 DEF FindCard, FindLists, InTx
    <3>2. CASE StartLockRead(r) \/ LockNextRow(r) \/ RefuseAnchor(r) \/ WriteCreate(r)
                 \/ CloseList(r) \/ EnterIndex(r)
      BY <2>1, <3>2 DEF StartLockRead, LockNextRow, RefuseAnchor, WriteCreate, CloseList,
                        EnterIndex, InTx
    <3>3. CASE WriteMove(r) \/ Rewrite(r)
      BY <2>1, <3>3 DEF WriteMove, Rewrite, InTx
    <3>4. CASE Collide(r) \/ RefuseLabels(r) \/ DeadlockVictim(r) \/ TimeOut(r)
      BY <2>1, <3>4 DEF Collide, RefuseLabels, DeadlockVictim, TimeOut, InTx
    <3> QED
      BY <1>3, <3>1, <3>2, <3>3, <3>4 DEF Step
  <2> QED
    BY <1>1, <2>3
<1>4. CASE UNCHANGED vars
  BY <1>4 DEF vars, storeVars
<1> QED
  BY <1>2, <1>3, <1>4, CommitApplies DEF Next, Quiet, StoreNext, Step

(* Kept is inductive over the invariant above: what a transaction tested   *)
(* in one statement still holds when it commits in a later one.            *)
THEOREM KeptInvariant == Spec => []AllKept
<1>1. Init => AllKept
  BY DEF Init, AllKept, Kept
<1>2. TypeOK /\ Stages /\ Safe /\ AllKept /\ [Next]_vars => AllKept'
  <2> SUFFICES ASSUME TypeOK, Stages, Safe, AllKept, [Next]_vars, NEW q \in Request PROVE Kept(q)'
    BY DEF AllKept
  <2>1. ASSUME NEW r \in Request, Ask(r) \/ Step(r) \/ TimeOut(r) PROVE Kept(q)'
    <3>1. OthersKeep(r)
      BY <2>1, AskOthers, StepOthers, FailOthers DEF TimeOut
    <3> QED
      BY <2>1, <3>1, KeptByOthers, KeptByStep
  <2>2. CASE UNCHANGED vars
    <3>1. AnchorKnown(q)' = AnchorKnown(q) /\ Lower(q)' = Lower(q) /\ Upper(q)' = Upper(q)
      BY <2>2, BoundsStand DEF vars
    <3> QED
      BY <2>2, <3>1 DEF vars, AllKept, Kept, Edits, Placing
  <2> QED
    BY <2>1, <2>2 DEF Next, Quiet
<1> QED
  BY <1>1, <1>2, Invariant, PTL DEF Spec

(* moveCard, createCard, updateCard, archiveCard and archiveList, run      *)
(* concurrently against Postgres with all their locks, waits, retries and  *)
(* timeouts, do what CardStore promises: each takes effect in one step,    *)
(* with its conditions true at that step, or leaves nothing behind.        *)
THEOREM KeepsPromise == Spec => StoreSpec
<1>1. Init => StoreInit
  BY DEF Init
<1>2. TypeOK /\ Stages /\ Safe /\ AllKept /\ [Next]_vars => [StoreNext]_storeVars
  BY StepKeepsPromise
<1> QED
  BY <1>1, <1>2, Invariant, KeptInvariant, PTL DEF Spec, StoreSpec

(* A set of naturals that is not empty has a least member.                 *)
LEMMA LeastMember ==
  ASSUME NEW S, S \subseteq Nat, S # {}
  PROVE  \E x \in S : \A y \in S : x <= y
<1> DEFINE R == OpToRel(<, Nat)
<1>1. IsWellFoundedOn(R, Nat)
  BY NatLessThanWellFounded
<1>2. \A x, y \in Nat : y < x => <<y, x>> \in R
  BY DEF OpToRel
<1> HIDE DEF R
<1>3. PICK x \in S : \A y \in S : ~(<<y, x>> \in R)
  BY <1>1, WFMin
<1>4. \A y \in S : ~(y < x)
  BY <1>2, <1>3
<1> QED
  BY <1>4

(* The upper bound is no higher than any sibling above the lower one.      *)
LEMMA UpperIsNearest ==
  ASSUME TypeOK, NEW r \in Request, NEW s \in Siblings(r), s.pos > Lower(r)
  PROVE  Upper(r) <= s.pos
<1> DEFINE above == {t \in Siblings(r) : t.pos > Lower(r)}
           P == {t.pos : t \in above}
<1>1. \A t \in Siblings(r) : t.pos \in Nat
  BY MaxKeyAssumption DEF Siblings, TypeOK, Entry
<1>2. PICK p \in P : \A y \in P : p <= y
  BY <1>1, LeastMember
<1>3. NextSibling(r) = {t \in Siblings(r) : t.pos > Lower(r) /\ \A u \in above : t.pos <= u.pos}
  BY DEF NextSibling
<1>4. NextSibling(r) # {}
  BY <1>2, <1>3
<1>5. PICK n \in NextSibling(r) : Upper(r) = n.pos
  BY <1>4 DEF Upper
<1> QED
  BY <1>3, <1>5

(* Only its own commit tells a request OK.                                 *)
LEMMA OnlyCommitTellsOK ==
  ASSUME TypeOK, Stages, [Next]_vars, NEW r \in Request, ans[r] # "OK", ans'[r] = "OK"
  PROVE  Commit(r)
<1>1. ASSUME NEW q \in Request, Ask(q) \/ Step(q) \/ TimeOut(q) PROVE q = r
  <2>1. OthersKeep(q)
    BY <1>1, AskOthers, StepOthers, FailOthers DEF TimeOut
  <2> QED
    BY <2>1 DEF OthersKeep
<1>2. ASSUME NEW code, code # "OK", Fail(r, code) PROVE FALSE
  BY <1>2 DEF Fail, Answer, TypeOK, StoreTypeOK
<1>3. ~Ask(r)
  BY DEF Ask, Submit
<1>4. Step(r) \/ TimeOut(r)
  BY <1>1, <1>3 DEF Next, Quiet, vars
<1>5. ListCheck(r) # "OK" => "OK" # ListCheck(r)
  OBVIOUS
<1> QED
  BY <1>2, <1>4, <1>5
     DEF Step, TimeOut, FindCard, FindLists, StartLockRead, LockNextRow, RefuseAnchor, WriteMove,
         WriteCreate, Rewrite, CloseList, EnterIndex, Collide, RefuseLabels, DeadlockVictim, storeVars

(* resolveBounds: a card lands below the anchor its caller named, which is *)
(* live in the list at the commit, and above whatever the transaction read *)
(* below that anchor, the client's own second neighbour notwithstanding.   *)
THEOREM LandsWhereAsked == Spec => LandsBelowAnchor
<1>1. ASSUME TypeOK, Stages, Safe, AllKept, [Next]_vars, NEW r \in Request, Places(r),
             inp[r].after # None
      PROVE  LET p == row'[inp[r].card].pos
                 q == row[inp[r].after].pos
             IN  /\ Below(inp[r].after, inp[r].list, p)
                 /\ \A s \in Siblings(r) : s.pos > q => row[s.id].pos > p
  <2>1. pc[r] = "commit" /\ inp[r] # None /\ ans[r] # "OK" /\ Placing(r) /\ Kept(r) /\ Good(r)
    BY <1>1, NamesAssumption
       DEF Places, Stages, Stage, Placing, PlaceOps, AllKept, Safe, Code, TypeOK, StoreTypeOK
  <2>2. Commit(r)
    BY <1>1, <2>1, OnlyCommitTellsOK DEF Places
  <2>3. inp[r].card \in Card /\ row' = [row EXCEPT ![inp[r].card] = want[r]]
    BY <1>1, <2>2, CommitFacts DEF Places
  <2>4. row'[inp[r].card] = want[r]
    BY <1>1, <2>3 DEF TypeOK, StoreTypeOK
  <2>5. /\ Lower(r) = row[inp[r].after].pos
        /\ Below(inp[r].after, inp[r].list, want[r].pos)
    BY <1>1, <2>1, AnchorIsBelow
  <2>6. ASSUME NEW s \in Siblings(r), s.pos > Lower(r) PROVE row[s.id].pos > want[r].pos
    <3>1. Upper(r) <= s.pos /\ want[r].pos < Upper(r) /\ row[s.id].pos = s.pos
      BY <1>1, <2>1, <2>6, UpperIsNearest DEF Kept, Good, ReadsHold, Siblings
    <3>2. s.pos \in Nat /\ want[r].pos \in Nat
      BY <1>1, <2>1, MaxKeyAssumption DEF Siblings, TypeOK, Entry, Kept, Key
    <3>3. Upper(r) \in Nat
      BY <1>1, MaxKeyAssumption DEF Upper, NextSibling, Siblings, TypeOK, Entry
    <3> QED
      BY <3>1, <3>2, <3>3
  <2> QED
    BY <2>4, <2>5, <2>6
<1>2. TypeOK /\ Stages /\ Safe /\ AllKept /\ [Next]_vars
        => [\A r \in Request : Places(r) /\ inp[r].after # None =>
              LET p == row'[inp[r].card].pos
                  q == row[inp[r].after].pos
              IN  /\ Below(inp[r].after, inp[r].list, p)
                  /\ \A s \in Siblings(r) : s.pos > q => row[s.id].pos > p]_vars
  BY <1>1
<1> QED
  BY <1>2, Invariant, KeptInvariant, PTL DEF Spec, LandsBelowAnchor
-----------------------------------------------------------------------------
(* Versions count.                                                         *)

(* The requests on card c that were answered OK.                           *)
Counted(c) ==
  {r \in Request :
     /\ ans[r] = "OK"
     /\ inp[r].op \in {"move", "update", "archive"}
     /\ inp[r].card = c}

(* A request that was answered OK stays so.                                *)
LEMMA OKStays ==
  ASSUME TypeOK, Stages, [Next]_vars, NEW r \in Request, ans[r] = "OK"
  PROVE  ans'[r] = "OK" /\ inp'[r] = inp[r]
<1>1. pc[r] = "done" /\ inp[r] # None
  BY NamesAssumption DEF Stages, Stage, Code
<1>2. ASSUME NEW q \in Request, Ask(q) \/ Step(q) \/ TimeOut(q), q # r
      PROVE  ans'[r] = ans[r] /\ inp'[r] = inp[r]
  <2>1. OthersKeep(q)
    BY <1>2, AskOthers, StepOthers, FailOthers DEF TimeOut
  <2> QED
    BY <1>2, <2>1 DEF OthersKeep
<1>3. ~Ask(r) /\ ~TimeOut(r)
  BY <1>1 DEF Ask, TimeOut, InTx
<1>4. ~Step(r)
  BY <1>1
     DEF Step, FindCard, FindLists, StartLockRead, LockNextRow, RefuseAnchor, WriteMove,
         WriteCreate, Rewrite, CloseList, EnterIndex, Collide, RefuseLabels, Commit,
         DeadlockVictim, InTx
<1> QED
  BY <1>2, <1>3, <1>4 DEF Next, Quiet, vars

(* A step that commits no edit of c leaves the count of c alone.           *)
LEMMA CountStands ==
  ASSUME TypeOK, Stages, [Next]_vars, NEW c \in Card,
         \A r \in Request : Commit(r) => inp[r].op \notin EditOps \/ inp[r].card # c
  PROVE  Counted(c)' = Counted(c)
<1>1. ASSUME NEW r \in Counted(c) PROVE r \in Counted(c)'
  BY <1>1, OKStays DEF Counted
<1>2. ASSUME NEW r \in Request, ans'[r] = "OK", inp'[r].op \in EditOps, inp'[r].card = c
      PROVE  ans[r] = "OK" /\ inp'[r] = inp[r]
  <2>1. CASE ans[r] = "OK"
    BY <2>1, OKStays
  <2>2. CASE ans[r] # "OK"
    <3>1. Commit(r)
      BY <1>2, <2>2, OnlyCommitTellsOK
    <3>2. inp' = inp
      BY <3>1 DEF Commit, Answer
    <3> QED
      BY <1>2, <3>1, <3>2
  <2> QED
    BY <2>1, <2>2
<1> QED
  BY <1>1, <1>2 DEF Counted, EditOps

(* .. and one that does adds itself to it.                                 *)
LEMMA CountGrows ==
  ASSUME TypeOK, Stages, [Next]_vars, NEW c, NEW r \in Request, Commit(r),
         inp[r].op \in EditOps, inp[r].card = c
  PROVE  Counted(c)' = Counted(c) \union {r} /\ r \notin Counted(c)
<1>1. /\ pc[r] = "commit" /\ inp' = inp
      /\ ans' = [ans EXCEPT ![r] = "OK"]
  BY DEF Commit, Answer
<1>2. ans[r] # "OK"
  BY <1>1, NamesAssumption DEF Stages, Stage, Code
<1>3. ans \in [Request -> Code \union {None}]
  BY DEF TypeOK, StoreTypeOK
<1> QED
  BY <1>1, <1>2, <1>3 DEF Counted, EditOps

(* A version goes up by one with each edit of its card that commits, and   *)
(* by nothing else.                                                        *)
LEMMA CountingStep ==
  ASSUME TypeOK, Stages, Safe, AllKept, VersionCountsAnswers, [Next]_vars
  PROVE  VersionCountsAnswers'
<1> SUFFICES ASSUME NEW c \in Card
             PROVE  row'[c].ver = InitRow[c].ver + Cardinality(Counted(c)')
  BY DEF VersionCountsAnswers, Counted
<1>1. row[c].ver = InitRow[c].ver + Cardinality(Counted(c))
  BY DEF VersionCountsAnswers, Counted
<1>2. IsFiniteSet(Counted(c))
  BY RequestAssumption, FS_Subset DEF Counted
<1>3. CASE \A r \in Request : ~Commit(r)
  <2>1. row' = row
    <3>1. CASE UNCHANGED vars \/ Quiet
      BY <3>1 DEF Quiet, vars
    <3>2. ASSUME NEW r \in Request, Ask(r) PROVE row' = row
      BY <3>2, AskGood
    <3>3. ASSUME NEW r \in Request, Step(r) \/ TimeOut(r) PROVE row' = row
      BY <1>3, <3>3, ReadGood, WriteGood, KeyGood DEF Step
    <3> QED
      BY <3>1, <3>2, <3>3 DEF Next
  <2>2. Counted(c)' = Counted(c)
    BY <1>3, CountStands
  <2> QED
    BY <1>1, <2>1, <2>2
<1>4. ASSUME NEW r \in Request, Commit(r)
      PROVE  row'[c].ver = InitRow[c].ver + Cardinality(Counted(c)')
  <2>1. \A q \in Request : Commit(q) => q = r
    BY <1>4 DEF Commit, Answer, TypeOK, StoreTypeOK, Stages, Stage
  <2>2. CASE inp[r].op = "archiveList"
    <3>1. row' = row
      BY <1>4, <2>2 DEF Commit
    <3>2. Counted(c)' = Counted(c)
      BY <2>1, <2>2, CountStands DEF EditOps
    <3> QED
      BY <1>1, <3>1, <3>2
  <2>3. CASE inp[r].op # "archiveList" /\ inp[r].card # c
    <3>1. row' = [row EXCEPT ![inp[r].card] = want[r]]
      BY <1>4, <2>3, CommitFacts
    <3>2. row'[c] = row[c]
      BY <2>3, <3>1 DEF TypeOK, StoreTypeOK
    <3>3. Counted(c)' = Counted(c)
      BY <2>1, <2>3, CountStands
    <3> QED
      BY <1>1, <3>2, <3>3
  <2>4. CASE inp[r].op \in EditOps /\ inp[r].card = c
    <3>1. /\ row' = [row EXCEPT ![c] = want[r]]
          /\ row[c].state # "absent"
          /\ want[r].ver = row[c].ver + 1
      <4>1. inp[r].op # "archiveList" /\ Edits(r)
        BY <1>4, <2>4, NamesAssumption DEF Edits, EditOps, Commit, Stages, Stage
      <4> QED
        BY <1>4, <2>4, <4>1, CommitFacts
    <3>2. row'[c].ver = row[c].ver + 1
      BY <3>1 DEF TypeOK, StoreTypeOK
    <3>3. Counted(c)' = Counted(c) \union {r} /\ r \notin Counted(c)
      BY <1>4, <2>4, CountGrows
    <3>4. Cardinality(Counted(c)') = Cardinality(Counted(c)) + 1
      BY <1>2, <3>3, FS_AddElement
    <3>5. InitRow[c].ver \in Nat /\ Cardinality(Counted(c)) \in Nat
      BY <1>2, InitRowAssumption, FS_CardinalityType DEF Row
    <3> QED
      BY <1>1, <3>2, <3>4, <3>5
  <2>5. CASE inp[r].op = "create" /\ inp[r].card = c
    <3>1. /\ row' = [row EXCEPT ![c] = want[r]]
          /\ c = r
          /\ row[c].state = "absent"
      BY <1>4, <2>5, CommitFacts
    <3>2. row'[c].ver = 0
      <4>1. pc[r] = "commit" /\ Kept(r)
        BY <1>4 DEF Commit, AllKept
      <4>2. want[r].ver = 0
        BY <2>5, <4>1, NamesAssumption DEF Kept, Placing, PlaceOps, Stages, Stage
      <4> QED
        BY <3>1, <4>2 DEF TypeOK, StoreTypeOK
    <3>3. Counted(c)' = Counted(c)
      BY <2>1, <2>5, CountStands DEF EditOps
    <3>4. Counted(c) = {}
      <4>1. ASSUME NEW q \in Counted(c) PROVE FALSE
        <5>1. Edits(q) /\ Aged(q)
          BY NamesAssumption DEF Counted, Edits, EditOps, Safe, Good, Stages, Stage, Code
        <5> QED
          BY <3>1, <5>1 DEF Aged, Counted
      <4> QED
        BY <4>1
    <3>5. InitRow[c].ver = 0
      BY <3>1, InitRowAssumption
    <3> QED
      BY <3>2, <3>3, <3>4, <3>5, FS_EmptySet
  <2>6. inp[r].op \in EditOps \union {"create", "archiveList"}
    BY <1>4 DEF Commit, Stages, Stage, GoodInput, Input, Op, EditOps
  <2> QED
    BY <2>2, <2>3, <2>4, <2>5, <2>6
<1> QED
  BY <1>3, <1>4

(* The version of a card is the one it began with and one more for every   *)
(* request on it that was answered OK: no retried, refused or timed-out    *)
(* attempt of an operation leaves a write behind, and no acknowledged      *)
(* write is lost.                                                          *)
THEOREM VersionsCount == Spec => []VersionCountsAnswers
<1>1. Init => VersionCountsAnswers
  <2> SUFFICES ASSUME Init, NEW c \in Card
               PROVE  row[c].ver = InitRow[c].ver + Cardinality(Counted(c))
    BY DEF VersionCountsAnswers, Counted
  <2>1. Counted(c) = {} /\ row[c] = InitRow[c]
    BY NamesAssumption DEF Init, StoreInit, Counted, Code
  <2>2. InitRow[c].ver \in Nat
    BY InitRowAssumption DEF Row
  <2> QED
    BY <2>1, <2>2, FS_EmptySet
<1>2. TypeOK /\ Stages /\ Safe /\ AllKept /\ VersionCountsAnswers /\ [Next]_vars
        => VersionCountsAnswers'
  BY CountingStep
<1>3. Init /\ [](TypeOK /\ Stages /\ Safe) /\ []AllKept /\ [][Next]_vars
        => []VersionCountsAnswers
  BY <1>1, <1>2, PTL
<1> QED
  BY <1>3, Invariant, KeptInvariant, PTL DEF Spec

-----------------------------------------------------------------------------
(* Waiting.                                                                *)

(* Row locks belong to transactions that are under way.                    *)
HoldersInTx ==
  \A x \in Card \union List : lock[x] # None => InTx(lock[x])

(* In a finite graph of waits, a set that nobody in it waits outside of    *)
(* has a member that waits for nobody or is in a cycle: take the smallest  *)
(* such set within it. If one of its members is in no cycle, leaving that  *)
(* member out of what it waits for gives a smaller one.                    *)
LEMMA SomebodyGoesOn ==
  ASSUME NEW S, IsFiniteSet(S), NEW w \in [S -> SUBSET S],
         NEW T \in SUBSET S, T # {}, ClosedUnder(T, w)
  PROVE  \E q \in T : w[q] = {} \/ InCycle(q, w)
<1> DEFINE R == StrictSubsetOrdering(S)
           F == {U \in SUBSET T : U # {} /\ ClosedUnder(U, w)}
<1>1. IsWellFoundedOn(R, SUBSET S)
  BY FS_StrictSubsetOrderingWellFounded, FS_FiniteSubsetsOfFinite
<1>2. F \subseteq SUBSET S /\ T \in F
  OBVIOUS
<1>3. \A U, V \in SUBSET S : U \subseteq V /\ U # V => <<U, V>> \in R
  BY DEF StrictSubsetOrdering
<1>4. PICK U \in F : \A V \in F : ~(<<V, U>> \in R)
  <2> HIDE DEF R, F
  <2> QED BY <1>1, <1>2, WFMin
<1>5. U \subseteq T /\ U # {} /\ ClosedUnder(U, w)
  OBVIOUS
<1>6. PICK q \in U : TRUE
  BY <1>5
<1>7. SUFFICES ASSUME w[q] # {}, ~InCycle(q, w) PROVE FALSE
  BY <1>5
<1>8. PICK V \in SUBSET S : w[q] \subseteq V /\ ClosedUnder(V, w) /\ q \notin V
  <2>1. DOMAIN w = S
    OBVIOUS
  <2> QED BY <1>7, <2>1 DEF InCycle
<1>9. ClosedUnder(U \intersect V, w)
  BY <1>5, <1>8 DEF ClosedUnder
<1>10. w[q] \subseteq U \intersect V
  BY <1>5, <1>8 DEF ClosedUnder
<1>11. U \intersect V \in F
  BY <1>5, <1>7, <1>9, <1>10
<1>12. <<U \intersect V, U>> \in R
  <2> HIDE DEF R
  <2> QED BY <1>3, <1>5, <1>8
<1> QED BY <1>4, <1>11, <1>12

(* A step gives locks to nobody but its own transaction, which has none    *)
(* left once it is over.                                                   *)
LEMMA LockStep ==
  ASSUME TypeOK, Stages, NEW r \in Request, Ask(r) \/ Step(r) \/ TimeOut(r),
         NEW x \in Card \union List
  PROVE  lock'[x] \in {lock[x], None, r} /\ (lock'[x] = r => InTx(r)')
<1> USE DEF Goto, storeVars, InTx
<1>1. r # None
  BY NamesAssumption DEF Card
<1>2. ASSUME NEW code, Fail(r, code) \/ Answer(r, code)
      PROVE  lock'[x] \in {lock[x], None, r} /\ lock'[x] # r
  BY <1>1, <1>2 DEF Fail, Answer, EndAttempt, Released
<1>3. CASE TimeOut(r)
  BY <1>2, <1>3 DEF TimeOut
<1>4. CASE Ask(r)
  BY <1>4 DEF Ask, TypeOK
<1>5. CASE FindCard(r)
  BY <1>2, <1>5 DEF FindCard, TypeOK
<1>6. CASE FindLists(r)
  BY <1>2, <1>6 DEF FindLists, TypeOK
<1>7. CASE StartLockRead(r) \/ LockNextRow(r)
  BY <1>7 DEF StartLockRead, LockNextRow, LockForUpdate, TypeOK
<1>8. CASE RefuseAnchor(r) \/ RefuseLabels(r) \/ DeadlockVictim(r) \/ Commit(r)
  BY <1>2, <1>8 DEF RefuseAnchor, RefuseLabels, DeadlockVictim, Commit
<1>9. CASE WriteMove(r)
  BY <1>2, <1>9 DEF WriteMove, TypeOK
<1>10. CASE WriteCreate(r)
  BY <1>10 DEF WriteCreate, TypeOK
<1>11. CASE Rewrite(r)
  BY <1>2, <1>11 DEF Rewrite, TypeOK
<1>12. CASE CloseList(r) \/ EnterIndex(r)
  BY <1>12 DEF CloseList, EnterIndex, TypeOK
<1>13. CASE Collide(r)
  BY <1>1, <1>2, <1>13 DEF Collide, EndAttempt, Released, TypeOK
<1> QED
  BY <1>3, <1>4, <1>5, <1>6, <1>7, <1>8, <1>9, <1>10, <1>11, <1>12, <1>13 DEF Step

(* Nobody waits for a request that is not in a transaction.                *)
LEMMA WaitsInTx ==
  ASSUME TypeOK, Stages, HoldersInTx, NEW r \in Request
  PROVE  WaitsFor(r) \subseteq {q \in Request : InTx(q)}
<1>1. CASE pc[r] = "key"
  BY <1>1 DEF WaitsFor, KeyBlockers, Rewriting, InTx
<1>2. CASE pc[r] # "key"
  <2>1. Needed(r) \subseteq Card \union List
    <3>1. Stage(r) /\ todo[r] \subseteq Entry
      BY DEF Stages, TypeOK
    <3>2. {e.id : e \in FirstOf(todo[r])} \subseteq Card
      BY <3>1 DEF FirstOf, Entry
    <3>3. CASE pc[r] = "locking"
      BY <3>1, <3>2, <3>3 DEF Needed, Stage, GoodInput, EditOps, PlaceOps
    <3>4. CASE pc[r] = "row"
      <4>1. inp[r] # None /\ inp[r].op \in Op /\ inp[r].op \notin PlaceOps
        BY <3>1, <3>4 DEF Stage, GoodInput, Input
      <4> QED BY <3>1, <3>4, <4>1 DEF Needed, Stage, GoodInput, EditOps, PlaceOps, Op
    <3>5. CASE pc[r] \notin {"locking", "row"}
      BY <3>5 DEF Needed
    <3> QED BY <3>3, <3>4, <3>5
  <2>2. ASSUME NEW x \in Needed(r), ~Grantable(x, r)
        PROVE  lock[x] \in Request /\ InTx(lock[x])
    BY <2>1, <2>2 DEF Grantable, HoldersInTx, TypeOK
  <2> QED
    BY <1>2, <2>2 DEF WaitsFor
<1> QED BY <1>1, <1>2

(* Whatever the interleaving, no request of the card operations waits for  *)
(* something that nobody will give it: what it waits for, directly or not, *)
(* comes down to a transaction that can go on, or to a cycle that Postgres *)
(* breaks. No refusal, failure or retry leaves a row locked.               *)
THEOREM WaitsEnd == Spec => []NobodyWaitsInVain
<1>1. Init => HoldersInTx
  BY DEF Init, HoldersInTx
<1>2. ASSUME TypeOK, Stages, HoldersInTx, [Next]_vars PROVE HoldersInTx'
  <2>1. ASSUME NEW r \in Request, Ask(r) \/ Step(r) \/ TimeOut(r) PROVE HoldersInTx'
    <3>1. OthersKeep(r)
      BY <1>2, <2>1, AskOthers, StepOthers, FailOthers DEF TimeOut
    <3>2. ASSUME NEW x \in Card \union List, lock'[x] # None PROVE InTx(lock[x])'
      <4>1. lock'[x] \in {lock[x], None, r} /\ (lock'[x] = r => InTx(r)')
        BY <1>2, <2>1, LockStep
      <4>2. CASE lock'[x] = r
        BY <4>1, <4>2
      <4>3. CASE lock'[x] # r
        <5>1. lock'[x] = lock[x] /\ lock[x] \in Request \ {r}
          BY <1>2, <3>2, <4>1, <4>3 DEF TypeOK
        <5> QED BY <1>2, <3>1, <3>2, <5>1 DEF HoldersInTx, OthersKeep, InTx
      <4> QED BY <4>2, <4>3
    <3> QED BY <3>2 DEF HoldersInTx
  <2>2. CASE UNCHANGED vars
    BY <1>2, <2>2 DEF vars, HoldersInTx, InTx
  <2> QED BY <1>2, <2>1, <2>2 DEF Next, Quiet
<1>3. ASSUME TypeOK, Stages, HoldersInTx PROVE NobodyWaitsInVain
  <2> SUFFICES ASSUME NEW r \in Request, NEW T \in SUBSET Request,
                      WaitsFor(r) # {}, WaitsFor(r) \subseteq T, ClosedUnder(T, Waits)
               PROVE  \E q \in T : InTx(q) /\ (WaitsFor(q) = {} \/ InDeadlock(q))
    BY DEF NobodyWaitsInVain
  <2> DEFINE U == {q \in T : InTx(q)}
  <2>1. \A q \in Request : WaitsFor(q) \subseteq {p \in Request : InTx(p)}
    BY <1>3, WaitsInTx
  <2>2. Waits \in [Request -> SUBSET Request] /\ \A q \in Request : Waits[q] = WaitsFor(q)
    BY <2>1 DEF Waits
  <2>3. U \in SUBSET Request /\ U # {}
    BY <2>1
  <2>4. ClosedUnder(U, Waits)
    BY <2>1, <2>2 DEF ClosedUnder
  <2>5. PICK q \in U : Waits[q] = {} \/ InCycle(q, Waits)
    <3> HIDE DEF U
    <3> QED BY <2>2, <2>3, <2>4, RequestAssumption, SomebodyGoesOn
  <2> QED BY <2>2, <2>5 DEF InDeadlock
<1>4. Spec => [](TypeOK /\ Stages)
  BY TypeCorrect
<1> QED BY <1>1, <1>2, <1>3, <1>4, PTL DEF Spec

(* A request for a list that is archived, and not yet past its look at it. *)
Shut(r) ==
  /\ pc[r] \in {"start", "lists", "done"}
  /\ inp[r].op \in {"move", "create", "archiveList"} /\ inp[r].list \in closed
  /\ ans[r] # "OK"

(* It stays one, or is refused: findList is the only way on.               *)
LEMMA ShutStays ==
  ASSUME TypeOK, Stages, [Next]_vars, NEW r \in Request, Shut(r)
  PROVE  Shut(r)'
<1> USE DEF Shut
<1>1. ASSUME NEW q \in Request \ {r}, Ask(q) \/ Step(q) \/ TimeOut(q)
      PROVE  inp'[r] = inp[r] /\ pc'[r] = pc[r]
  BY <1>1, AskOthers, StepOthers, FailOthers DEF TimeOut, OthersKeep
<1>2. ASSUME NEW q \in Request, Ask(q) \/ Step(q) \/ TimeOut(q) PROVE closed \subseteq closed'
  BY <1>2
     DEF Ask, Submit, Step, TimeOut, FindCard, FindLists, StartLockRead, LockNextRow, RefuseAnchor,
         WriteMove, WriteCreate, Rewrite, CloseList, EnterIndex, Collide, RefuseLabels, Commit,
         DeadlockVictim, Fail, storeVars
<1>3. ASSUME Ask(r) \/ Step(r) \/ TimeOut(r)
      PROVE  inp'[r] = inp[r] /\ pc'[r] \in {"lists", "done"}
  <2>1. ListCheck(r) # "OK"
    BY DEF ListCheck, ListGone
  <2>2. ASSUME NEW code, Fail(r, code) PROVE inp' = inp /\ pc'[r] = "done"
    BY <2>2 DEF Fail, Answer, TypeOK
  <2> QED
    BY <1>3, <2>1, <2>2
       DEF Ask, Step, TimeOut, FindCard, FindLists, StartLockRead, LockNextRow, RefuseAnchor,
           WriteMove, WriteCreate, Rewrite, CloseList, EnterIndex, Collide, RefuseLabels, Commit,
           DeadlockVictim, storeVars, Goto, InTx, TypeOK
<1>4. ans'[r] # "OK"
  BY OnlyCommitTellsOK DEF Commit
<1>5. CASE UNCHANGED vars
  BY <1>5 DEF vars
<1> QED BY <1>1, <1>2, <1>3, <1>4, <1>5 DEF Next, Quiet

(* A move or a creation that has its destination still to look for refuses *)
(* it if the list is archived by then, and goes on refusing it whatever    *)
(* happens: no retry, and no other request, lets it through after all.     *)
THEOREM ArchivedRefused == Spec => ClosedBeforeTheLook
<1> SUFFICES ASSUME NEW r \in Request PROVE Spec => RefusedIfClosed(r)
  BY DEF ClosedBeforeTheLook
<1> DEFINE Looks == /\ pc[r] \in {"start", "lists"}
                    /\ inp[r].op \in {"move", "create", "archiveList"}
                    /\ inp[r].list \in closed
<1>1. TypeOK /\ Stages /\ Looks => Shut(r)
  BY NamesAssumption DEF Shut, Stages, Stage, Code
<1>2. TypeOK /\ Stages /\ [Next]_vars /\ Shut(r) => Shut(r)'
  BY ShutStays
<1>3. Shut(r) => ans[r] # "OK"
  BY DEF Shut
<1>4. Spec => [](TypeOK /\ Stages)
  BY TypeCorrect
<1> QED BY <1>1, <1>2, <1>3, <1>4, PTL DEF Spec, RefusedIfClosed
=============================================================================
