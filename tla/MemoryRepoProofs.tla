-------------------------- MODULE MemoryRepoProofs --------------------------
(***************************************************************************)
(* The in-memory repository implements the atomic board: for any tables,   *)
(* any seed, any number of attempts and of calls.  The invariant says what *)
(* a transaction has done since it began: nothing until its operation has  *)
(* checked, and then one row, with the labels of that row.                 *)
(***************************************************************************)
EXTENDS MemoryRepo, FiniteSetTheorems, TLAPS


CardRow == [state : {"absent", "live", "archived"}, list : ListId \union {0}, writes : Nat]
ListRow == [state : {"absent", "live", "archived"}, writes : Nat]

Tables == [cards : [CardId -> CardRow], lists : [ListId -> ListRow],
           labels : [CardId -> SUBSET (OwnLabel \union {OtherLabel})], feed : Nat]

(* No id that has yet to be given out is in a table.                       *)
IdsFree(t) ==
  /\ \A c \in CardId : c > sequence.cards => t.cards[c] = NoRow
  /\ \A l \in ListId : l > sequence.lists => t.lists[l].state = "absent" /\ t.lists[l].writes = 0

(* The tables are b, but for the one row that a call has written and the   *)
(* labels that go with it.                                                 *)
CardWritten(b) ==
  /\ work.found \in CardId
  /\ mem.cards = [b.cards EXCEPT ![work.found] = mem.cards[work.found]]
  /\ mem.cards[work.found].writes = b.cards[work.found].writes + 1
  /\ mem.lists = b.lists
  /\ \A c \in CardId : c # work.found => mem.labels[c] = b.labels[c]

ListWritten(b) ==
  /\ \E l \in ListId : /\ mem.lists = [b.lists EXCEPT ![l] = mem.lists[l]]
                       /\ mem.lists[l].writes = b.lists[l].writes + 1
  /\ mem.cards = b.cards /\ mem.labels = b.labels

InTransaction == {"check", "write", "labels", "append"}

(* What a transaction that started from b has done.                        *)
Since(b) ==
  /\ b \in Tables /\ IdsFree(b)
  /\ saved = {b}
  /\ work.step \in {"check", "write"} => mem = b
  /\ work.step = "write" => Refusal = ""
  /\ work.step \in {"labels", "append"} =>
       mem.feed = b.feed /\ (IF Asked.op \in CardOp THEN CardWritten(b) ELSE ListWritten(b))

MemoryTypes ==
  /\ mem \in Tables
  /\ sequence \in [cards : Nat, lists : Nat]
  /\ work \in [step : {"idle", "forbidden", "begin", "conflict"} \union InTransaction,
               ask : Wishes, found : Nat]
  /\ attempt \in Nat

MemoryInv ==
  /\ MemoryTypes
  /\ IdsFree(mem)
  /\ IF work.step \in InTransaction THEN \E b \in Tables : Since(b) ELSE saved = {}
  /\ work.step \in {"forbidden", "begin"} \union InTransaction => attempt \in 1 .. Tries
  /\ work.step = "conflict" => attempt = Tries + 1
  /\ result = "none" <=> work.step # "idle"

(* What the calls ask for.                                                 *)
LEMMA WishTypes ==
  ASSUME NEW w \in Wishes
  PROVE  /\ w.op \in CardOp \union ListOp
         /\ w.op \in CardOp => w.card \in CardId
         /\ w.op \in ListOp => w.labels = {}
         /\ w.list \in ListId
         /\ w.labels \subseteq SUBSET (OwnLabel \union {OtherLabel})
BY DEF Wishes, Wish, CardOp, ListOp

(* There is a call to make.                                                *)
LEMMA SomeWish == Wishes # {}
<1> DEFINE w == [op |-> "createCard", may |-> TRUE, card |-> 1, list |-> 1, anchor |-> TRUE,
                 current |-> TRUE, labels |-> {}]
<1>1. w \in Wish
  BY RepositoryAssumption DEF Wish, CardOp
<1>2. Sensible(w)
  BY DEF Sensible, Places
<1> QED
  BY <1>1, <1>2 DEF Wishes

(* A rollback is a transaction that never was.                             *)
LEMMA ThrowRestores ==
  ASSUME MemoryInv, work.step \in InTransaction, NEW code, code # "none", Throw(code),
         UNCHANGED <<sequence, attempt>>
  PROVE  MemoryInv'
<1>1. PICK b \in Tables : Since(b)
  BY DEF MemoryInv
<1>2. mem' = b /\ saved' = {}
  BY <1>1 DEF Throw, Rollback, Since
<1>3. work' = [work EXCEPT !.step = "idle"] /\ result' = code
  BY DEF Throw, Step
<1>4. MemoryTypes' /\ work'.step = "idle"
  BY <1>2, <1>3 DEF MemoryInv, MemoryTypes
<1>5. IdsFree(mem)'
  BY <1>1, <1>2 DEF Since, IdsFree
<1> QED
  BY <1>2, <1>3, <1>4, <1>5 DEF MemoryInv, InTransaction

(* The invariant holds at first: the seed has the first ids.               *)
LEMMA MemoryInit0 == MemoryInit => MemoryInv
<1> SUFFICES ASSUME MemoryInit PROVE MemoryInv
  OBVIOUS
<1> USE RepositoryAssumption
<1>1. PICK n, k \in Nat : /\ DOMAIN SeedCards = 1 .. n /\ 1 .. n \subseteq CardId
                          /\ SeedLists = 1 .. k /\ 1 .. k \subseteq ListId
  OBVIOUS
<1>2. Cardinality(1 .. n) = n /\ Cardinality(1 .. k) = k
  BY FS_Interval
<1>3. sequence.cards = n /\ sequence.lists = k /\ sequence \in [cards : Nat, lists : Nat]
  BY <1>1, <1>2 DEF MemoryInit
<1>4. mem \in Tables
  BY <1>1 DEF MemoryInit, Tables, CardRow, ListRow, NoRow
<1>5. IdsFree(mem)
  <2>1. \A c \in CardId : c > n => c \notin DOMAIN SeedCards /\ mem.cards[c] = NoRow
    BY <1>1 DEF MemoryInit
  <2>2. \A l \in ListId : l > k => mem.lists[l].state = "absent" /\ mem.lists[l].writes = 0
    <3>1. \A l \in ListId : l > k => l \notin SeedLists
      BY <1>1
    <3> QED
      BY <3>1 DEF MemoryInit
  <2> QED
    BY <1>3, <2>1, <2>2 DEF IdsFree
<1>6. work.step = "idle" /\ work \in [step : {"idle"}, ask : Wishes, found : Nat]
  BY SomeWish DEF MemoryInit
<1> QED
  BY <1>3, <1>4, <1>5, <1>6 DEF MemoryInit, MemoryInv, MemoryTypes, InTransaction

(* What a write to one row of a table does to the tables.                  *)
LEMMA OneCard ==
  \A t \in Tables, c \in CardId, r \in CardRow :
    LET u == [t EXCEPT !.cards[c] = r]
    IN  /\ u \in Tables /\ u.cards = [t.cards EXCEPT ![c] = r]
        /\ u.lists = t.lists /\ u.labels = t.labels /\ u.feed = t.feed
BY DEF Tables

(* Replacing one list row leaves the rest of the tables.                   *)
LEMMA OneList ==
  \A t \in Tables, l \in ListId, r \in ListRow :
    LET u == [t EXCEPT !.lists[l] = r]
    IN  /\ u \in Tables /\ u.lists = [t.lists EXCEPT ![l] = r]
        /\ u.cards = t.cards /\ u.labels = t.labels /\ u.feed = t.feed
BY DEF Tables

(* Replacing the labels of one card leaves the rest of the tables.         *)
LEMMA OneLabel ==
  \A t \in Tables, c \in CardId, ls \in SUBSET (OwnLabel \union {OtherLabel}) :
    LET u == [t EXCEPT !.labels[c] = ls]
    IN  /\ u \in Tables /\ u.labels = [t.labels EXCEPT ![c] = ls]
        /\ u.cards = t.cards /\ u.lists = t.lists /\ u.feed = t.feed
BY DEF Tables

(* Appending to the feed leaves the rest of the tables.                    *)
LEMMA OneActivity ==
  \A t \in Tables :
    LET u == [t EXCEPT !.feed = @ + 1]
    IN  /\ u \in Tables /\ u.feed = t.feed + 1
        /\ u.cards = t.cards /\ u.lists = t.lists /\ u.labels = t.labels
BY DEF Tables

(* What an operation makes of a row.                                       *)
LEMMA RewrittenCard ==
  ASSUME NEW r \in CardRow
  PROVE  Rewritten(r) \in CardRow /\ Rewritten(r).list = r.list /\ Rewritten(r).writes = r.writes + 1
<1>1. r.writes + 1 \in Nat
  BY DEF CardRow
<1>2. (IF Asked.op \in {"archiveCard", "archiveList"} THEN "archived" ELSE "live")
        \in {"absent", "live", "archived"}
  OBVIOUS
<1> QED
  BY <1>1, <1>2 DEF Rewritten, CardRow

(* A rewritten list row is a list row, written once more.                  *)
LEMMA RewrittenList ==
  ASSUME NEW r \in ListRow
  PROVE  Rewritten(r) \in ListRow /\ Rewritten(r).writes = r.writes + 1
<1>1. r.writes + 1 \in Nat
  BY DEF ListRow
<1>2. (IF Asked.op \in {"archiveCard", "archiveList"} THEN "archived" ELSE "live")
        \in {"absent", "live", "archived"}
  OBVIOUS
<1> QED
  BY <1>1, <1>2 DEF Rewritten, ListRow

(* A row that is live has an id that has been given out.                   *)
LEMMA LiveIsGivenOut ==
  ASSUME MemoryInv
  PROVE  /\ \A c \in CardId : mem.cards[c].state = "live" => c <= sequence.cards
         /\ \A l \in ListId : mem.lists[l].state = "live" => l <= sequence.lists
<1>1. CardId \subseteq Nat /\ ListId \subseteq Nat
  BY RepositoryAssumption
<1>2. sequence.cards \in Nat /\ sequence.lists \in Nat
  BY DEF MemoryInv, MemoryTypes
<1>3. /\ \A c \in CardId : c > sequence.cards => mem.cards[c].state # "live"
      /\ \A l \in ListId : l > sequence.lists => mem.lists[l].state # "live"
  BY DEF MemoryInv, IdsFree, NoRow
<1> QED
  BY <1>1, <1>2, <1>3

(* The row that an operation writes, when nothing stands in its way, is    *)
(* one that is there, or has the next id.                                  *)
LEMMA WriteRowWrites ==
  ASSUME MemoryInv, WriteRow, NEW b \in Tables, Since(b)
  PROVE  \/ /\ Asked.op \in CardOp /\ work'.found \in CardId
            /\ \E r \in CardRow : /\ mem' = [mem EXCEPT !.cards[work'.found] = r]
                                  /\ r.writes = mem.cards[work'.found].writes + 1
            /\ work'.found <= sequence'.cards
         \/ /\ Asked.op \in ListOp
            /\ \E l \in ListId, r \in ListRow : /\ mem' = [mem EXCEPT !.lists[l] = r]
                                                /\ r.writes = mem.lists[l].writes + 1
                                                /\ l <= sequence'.lists
<1>0. CardId \subseteq Nat /\ ListId \subseteq Nat
  BY RepositoryAssumption
<1>1. /\ Asked \in Wishes /\ mem \in Tables /\ sequence \in [cards : Nat, lists : Nat]
      /\ work.step = "write" /\ Refusal = "" /\ IdsFree(mem)
  BY DEF WriteRow, Since, MemoryInv, MemoryTypes, Asked
<1>2. /\ Asked.op \in CardOp \union ListOp /\ Asked.list \in ListId
      /\ Asked.op \in CardOp => Asked.card \in CardId
  BY <1>1, WishTypes
<1>3. /\ work \in [step : {"write"}, ask : Wishes, found : Nat]
  BY <1>1 DEF MemoryInv, MemoryTypes
<1>9. /\ sequence.cards \in Nat /\ sequence.lists \in Nat
      /\ mem.cards \in [CardId -> CardRow] /\ mem.lists \in [ListId -> ListRow]
      /\ \A c \in CardId : c > sequence.cards => mem.cards[c].state = "absent" /\ mem.cards[c].writes = 0
      /\ \A l \in ListId : l > sequence.lists => mem.lists[l].state = "absent" /\ mem.lists[l].writes = 0
  <2>1. /\ sequence.cards \in Nat /\ sequence.lists \in Nat
        /\ mem.cards \in [CardId -> CardRow] /\ mem.lists \in [ListId -> ListRow]
    BY <1>1 DEF Tables
  <2>2. /\ NoRow.state = "absent" /\ NoRow.writes = 0
    BY DEF NoRow
  <2>3. \A c \in CardId : c > sequence.cards => mem.cards[c] = NoRow
    BY <1>1 DEF IdsFree
  <2>4. \A l \in ListId : l > sequence.lists => mem.lists[l].state = "absent" /\ mem.lists[l].writes = 0
    BY <1>1 DEF IdsFree
  <2> QED
    BY <2>1, <2>2, <2>3, <2>4
<1>4. CASE Asked.op = "createCard"
  <2> DEFINE id == sequence.cards + 1
             row == [state |-> "live", list |-> Asked.list, writes |-> 1]
  <2>1. Insert("cards", id, row)
    BY <1>4 DEF WriteRow, ListOp
  <2>2. id \in CardId
    BY <1>1, <2>1 DEF Insert, Tables
  <2>3. mem' = [mem EXCEPT !.cards[id] = row] /\ row \in CardRow
    BY <1>2, <2>1 DEF Insert, CardRow
  <2>4. work'.found = id /\ sequence'.cards = id
    BY <1>1, <1>3, <2>1 DEF Insert
  <2>5. mem.cards[id].writes = 0
    BY <1>0, <1>9, <2>2
  <2> QED
    <3>1. row.writes = mem.cards[id].writes + 1 /\ id <= id
      BY <1>9, <2>5
    <3> QED
      BY <1>4, <2>2, <2>3, <2>4, <3>1 DEF CardOp
<1>5. CASE Asked.op = "createList"
  <2> DEFINE id == sequence.lists + 1
             row == [state |-> "live", writes |-> 1]
  <2>1. Insert("lists", id, row)
    BY <1>5 DEF WriteRow, ListOp
  <2>2. id \in ListId
    BY <1>1, <2>1 DEF Insert, Tables
  <2>3. mem' = [mem EXCEPT !.lists[id] = row] /\ row \in ListRow
    BY <1>2, <2>1 DEF Insert, ListRow
  <2>4. sequence'.lists = id
    BY <1>1, <2>1 DEF Insert
  <2>5. mem.lists[id].writes = 0
    BY <1>0, <1>9, <2>2
  <2> QED
    <3>1. row.writes = mem.lists[id].writes + 1 /\ id <= id
      BY <1>9, <2>5
    <3> QED
      BY <1>5, <2>2, <2>3, <2>4, <3>1 DEF ListOp
<1>6. CASE Asked.op \in ListOp \ {"createList"}
  <2> DEFINE l == Asked.list
             row == Rewritten(mem.lists[l])
  <2>1. mem' = [mem EXCEPT !.lists[l] = row] /\ sequence' = sequence
    BY <1>6 DEF WriteRow, ListOp
  <2>2. mem.lists[l] \in ListRow /\ mem.lists[l].state = "live"
    BY <1>1, <1>2, <1>6 DEF Tables, Refusal, CardOp, ListOp
  <2>3. row \in ListRow /\ row.writes = mem.lists[l].writes + 1
    BY <2>2, RewrittenList
  <2>4. l <= sequence.lists
    BY <1>2, <2>2, LiveIsGivenOut
  <2> QED
    BY <1>2, <1>6, <2>1, <2>3, <2>4
<1>7. CASE Asked.op \in CardOp \ {"createCard"}
  <2> DEFINE c == Asked.card
             row == [Rewritten(mem.cards[c]) EXCEPT !.list =
                       IF Asked.op = "moveCard" THEN Asked.list ELSE @]
  <2>0. c \in CardId /\ mem.cards[c] \in CardRow /\ mem.cards[c].state = "live"
    BY <1>1, <1>2, <1>7 DEF Tables, Refusal, CardOp, ListOp
  <2>1. /\ mem' = [mem EXCEPT !.cards[c] = row]
        /\ work' = [work EXCEPT !.step = "labels", !.found = c] /\ UNCHANGED sequence
    <3>1. /\ Asked.op \notin {"createCard", "createList"} /\ Asked.op \notin ListOp \ {"createList"}
      BY <1>7 DEF ListOp, CardOp
    <3> QED
      BY <3>1 DEF WriteRow
  <2>2. /\ Rewritten(mem.cards[c]) \in CardRow
        /\ Rewritten(mem.cards[c]).writes = mem.cards[c].writes + 1
    BY <2>0, RewrittenCard
  <2>5. row \in CardRow /\ row.writes = mem.cards[c].writes + 1
    BY <1>2, <2>2 DEF CardRow
  <2>6. c <= sequence.cards
    BY <2>0, LiveIsGivenOut
  <2>7. work'.found = c
    BY <1>3, <2>1
  <2> QED
    BY <1>7, <2>0, <2>1, <2>5, <2>6, <2>7
<1> QED
  BY <1>2, <1>4, <1>5, <1>6, <1>7

(* A step that changes nothing that a transaction is about.                *)
LEMMA MemoryKept ==
  ASSUME MemoryInv, UNCHANGED <<mem, saved, sequence, work, attempt, result>>
  PROVE  MemoryInv'
<1>1. MemoryTypes' /\ IdsFree(mem)'
  BY DEF MemoryInv, MemoryTypes, IdsFree
<1>2. ASSUME NEW b \in Tables, Since(b) PROVE Since(b)'
  <2>1. IdsFree(b)' /\ (CardWritten(b)' <=> CardWritten(b)) /\ (ListWritten(b)' <=> ListWritten(b))
    BY <1>2 DEF Since, IdsFree, CardWritten, ListWritten
  <2>2. Refusal' = Refusal /\ Asked' = Asked
    BY DEF Refusal, Asked
  <2> QED
    BY <1>2, <2>1, <2>2 DEF Since
<1> QED
  BY <1>1, <1>2 DEF MemoryInv

(* Every step keeps the invariant.                                         *)
LEMMA MemoryStep == MemoryInv /\ [MemoryNext]_memoryVars => MemoryInv'
<1> SUFFICES ASSUME MemoryInv, [MemoryNext]_memoryVars PROVE MemoryInv'
  OBVIOUS
<1>0. CardId \subseteq Nat /\ ListId \subseteq Nat /\ Tries \in Nat \ {0}
  BY RepositoryAssumption
<1>1. CASE SetOptions \/ UNCHANGED memoryVars
  BY <1>1, MemoryKept DEF SetOptions, memoryVars
<1>2. CASE CallOperation
  <2>1. PICK w \in Wishes :
          work' = [step |-> IF w.may THEN "begin" ELSE "forbidden", ask |-> w, found |-> 0]
    BY <1>2 DEF CallOperation
  <2>2. attempt' = 1 /\ result' = "none" /\ UNCHANGED <<mem, saved, sequence>> /\ work.step = "idle"
    BY <1>2 DEF CallOperation
  <2>3. MemoryTypes' /\ work'.step \in {"begin", "forbidden"}
    BY <2>1, <2>2 DEF MemoryInv, MemoryTypes
  <2>4. IdsFree(mem)'
    BY <2>2 DEF MemoryInv, IdsFree
  <2> QED
    BY <1>0, <2>2, <2>3, <2>4 DEF MemoryInv, InTransaction
<1>3. CASE Forbidden \/ GiveUp
  BY <1>3 DEF Forbidden, GiveUp, Step, MemoryInv, MemoryTypes, IdsFree, InTransaction
<1>4. CASE BeginWork
  <2>1. Since(mem)'
    BY <1>4 DEF BeginWork, Step, MemoryInv, MemoryTypes, IdsFree, Since
  <2> QED
    BY <1>4, <2>1 DEF BeginWork, Step, MemoryInv, MemoryTypes, IdsFree, InTransaction
<1>5. CASE Check
  <2>1. CASE Refusal = ""
    <3>1. PICK b \in Tables : Since(b)
      BY <1>5 DEF Check, MemoryInv, InTransaction
    <3>2. /\ work.step = "check" /\ work' = [work EXCEPT !.step = "write"]
          /\ UNCHANGED <<mem, saved, sequence, attempt, result>>
      BY <1>5, <2>1 DEF Check, Step
    <3>3. Asked' = Asked /\ work'.step = "write" /\ MemoryTypes'
      BY <3>2 DEF Asked, MemoryInv, MemoryTypes, InTransaction
    <3>4. Refusal' = ""
      BY <2>1, <3>2, <3>3 DEF Refusal
    <3>5. IdsFree(b)' /\ IdsFree(mem)'
      BY <3>1, <3>2 DEF Since, IdsFree, MemoryInv
    <3>6. Since(b)'
      BY <3>1, <3>2, <3>3, <3>4, <3>5 DEF Since
    <3> QED
      BY <3>2, <3>3, <3>5, <3>6 DEF MemoryInv, InTransaction
  <2>2. CASE Refusal # ""
    <3>1. Refusal # "none"
      BY DEF Refusal
    <3> QED
      BY <1>5, <2>2, <3>1, ThrowRestores DEF Check, InTransaction
  <2> QED
    BY <2>1, <2>2
<1>6. CASE ArchiveStale
  BY <1>6, ThrowRestores DEF ArchiveStale, InTransaction
<1>7. CASE CollidePosition
  <2>1. PICK b \in Tables : Since(b)
    BY <1>7 DEF CollidePosition, MemoryInv, InTransaction
  <2>2. mem' = b /\ saved' = {} /\ attempt' = attempt + 1 /\ UNCHANGED <<sequence, result>>
    BY <1>7, <2>1 DEF CollidePosition, Rollback, Since
  <2>3. /\ work.step = "write"
        /\ work' = [work EXCEPT !.step = IF attempt < Tries THEN "begin" ELSE "conflict"]
    BY <1>7 DEF CollidePosition, Step
  <2>4. MemoryTypes' /\ work'.step = IF attempt < Tries THEN "begin" ELSE "conflict"
    BY <1>0, <2>1, <2>2, <2>3 DEF MemoryInv, MemoryTypes
  <2>5. IdsFree(mem)'
    BY <2>1, <2>2 DEF Since, IdsFree
  <2>6. attempt \in 1 .. Tries /\ result = "none"
    BY <2>3 DEF MemoryInv, InTransaction
  <2> QED
    BY <1>0, <2>2, <2>4, <2>5, <2>6 DEF MemoryInv, InTransaction
<1>8. CASE WriteRow
  <2>1. PICK b \in Tables : Since(b)
    BY <1>8 DEF WriteRow, MemoryInv, InTransaction
  <2>2. /\ mem = b /\ saved = {b} /\ IdsFree(b) /\ mem \in Tables /\ result = "none"
        /\ work.step = "write" /\ attempt \in 1 .. Tries
    BY <1>8, <2>1 DEF WriteRow, Since, MemoryInv, InTransaction, MemoryTypes
  <2>3. UNCHANGED <<saved, attempt, result>>
    BY <1>8 DEF WriteRow
  <2>4. /\ work' \in [step : {"labels"}, ask : Wishes, found : Nat] /\ Asked' = Asked
        /\ sequence' \in [cards : Nat, lists : Nat]
        /\ sequence'.cards >= sequence.cards /\ sequence'.lists >= sequence.lists
    <3>1. work \in [step : {"write"}, ask : Wishes, found : Nat] /\ Asked \in Wishes
          /\ sequence \in [cards : Nat, lists : Nat]
      BY <2>2 DEF MemoryInv, MemoryTypes, Asked
    <3>2. \E found \in Nat : work' = [work EXCEPT !.step = "labels", !.found = found]
      <4>1. sequence.cards + 1 \in Nat /\ sequence.lists + 1 \in Nat
        BY <3>1
      <4>2. ASSUME Asked.op \in ListOp \ {"createList"} PROVE work' = [work EXCEPT !.step = "labels"]
        BY <1>8, <4>2 DEF WriteRow, Step, ListOp
      <4>3. ASSUME Asked.op \notin ListOp
            PROVE  \E found \in Nat : work' = [work EXCEPT !.step = "labels", !.found = found]
        <5>1. \E found \in {Asked.card, sequence.cards + 1} :
                 work' = [work EXCEPT !.step = "labels", !.found = found]
          BY <1>8, <4>3 DEF WriteRow, Insert, ListOp, CardOp
        <5>2. Asked.card \in CardId
          BY <3>1, <4>3, WishTypes
        <5>3. Asked.card \in Nat
          BY <1>0, <5>2
        <5> QED
          BY <4>1, <5>1, <5>3
      <4>4. ASSUME Asked.op = "createList"
            PROVE  \E found \in Nat : work' = [work EXCEPT !.step = "labels", !.found = found]
        <5>1. work' = [work EXCEPT !.step = "labels", !.found = sequence.lists + 1]
          BY <1>8, <4>4 DEF WriteRow, Insert, ListOp
        <5> QED
          BY <4>1, <5>1
      <4>5. work' = [work EXCEPT !.step = "labels"]
              => work' = [work EXCEPT !.step = "labels", !.found = work.found] /\ work.found \in Nat
        BY <3>1
      <4> QED
        BY <4>2, <4>3, <4>4, <4>5
    <3>3. \/ sequence' = sequence
          \/ sequence' = [sequence EXCEPT !["cards"] = sequence.cards + 1]
          \/ sequence' = [sequence EXCEPT !["lists"] = sequence.lists + 1]
      BY <1>8 DEF WriteRow, Insert
    <3>4. work' \in [step : {"labels"}, ask : Wishes, found : Nat] /\ Asked' = Asked
      BY <3>1, <3>2 DEF Asked
    <3>5. sequence.cards \in Nat /\ sequence.lists \in Nat
      BY <3>1
    <3>6. /\ sequence' \in [cards : Nat, lists : Nat]
          /\ sequence'.cards \in {sequence.cards, sequence.cards + 1}
          /\ sequence'.lists \in {sequence.lists, sequence.lists + 1}
      BY <3>1, <3>3, <3>5
    <3> QED
      BY <3>4, <3>5, <3>6
  <2>5. IdsFree(b)'
    <3>1. sequence.cards \in Nat /\ sequence.lists \in Nat
      BY DEF MemoryInv, MemoryTypes
    <3>2. /\ \A c \in CardId : c > sequence'.cards => c > sequence.cards
          /\ \A l \in ListId : l > sequence'.lists => l > sequence.lists
      BY <1>0, <2>4, <3>1
    <3> QED
      BY <2>2, <3>2 DEF IdsFree
  <2>6. CASE /\ Asked.op \in CardOp /\ work'.found \in CardId
             /\ \E r \in CardRow : /\ mem' = [mem EXCEPT !.cards[work'.found] = r]
                                   /\ r.writes = mem.cards[work'.found].writes + 1
             /\ work'.found <= sequence'.cards
    <3>1. PICK r \in CardRow : /\ mem' = [mem EXCEPT !.cards[work'.found] = r]
                               /\ r.writes = mem.cards[work'.found].writes + 1
      BY <2>6
    <3>2. /\ mem' \in Tables /\ mem'.cards = [mem.cards EXCEPT ![work'.found] = r]
          /\ mem'.lists = mem.lists /\ mem'.labels = mem.labels /\ mem'.feed = mem.feed
      <4>1. mem \in Tables /\ work'.found \in CardId /\ mem' = [mem EXCEPT !.cards[work'.found] = r]
        BY <2>2, <2>6, <3>1
      <4> QED
        BY <4>1, OneCard
    <3>3. mem'.cards[work'.found] = r /\ \A c \in CardId : c # work'.found => mem'.cards[c] = mem.cards[c]
      BY <2>2, <2>6, <3>2 DEF Tables
    <3>4. CardWritten(b)'
      BY <2>2, <2>6, <3>1, <3>2, <3>3 DEF CardWritten
    <3>5. IdsFree(mem)'
      BY <2>2, <2>4, <2>5, <2>6, <3>2, <3>3 DEF IdsFree
    <3>6. Since(b)' /\ MemoryTypes'
      BY <2>2, <2>3, <2>4, <2>5, <2>6, <3>2, <3>4 DEF Since, MemoryInv, MemoryTypes, InTransaction
    <3> QED
      BY <2>2, <2>3, <2>4, <3>5, <3>6 DEF MemoryInv, InTransaction
  <2>7. CASE /\ Asked.op \in ListOp
             /\ \E l \in ListId, r \in ListRow : /\ mem' = [mem EXCEPT !.lists[l] = r]
                                                 /\ r.writes = mem.lists[l].writes + 1
                                                 /\ l <= sequence'.lists
    <3>1. PICK l \in ListId, r \in ListRow : /\ mem' = [mem EXCEPT !.lists[l] = r]
                                             /\ r.writes = mem.lists[l].writes + 1
                                             /\ l <= sequence'.lists
      BY <2>7
    <3>2. /\ mem' \in Tables /\ mem'.lists = [mem.lists EXCEPT ![l] = r]
          /\ mem'.cards = mem.cards /\ mem'.labels = mem.labels /\ mem'.feed = mem.feed
      BY <2>2, <3>1, OneList
    <3>3. mem'.lists[l] = r /\ \A k \in ListId : k # l => mem'.lists[k] = mem.lists[k]
      BY <2>2, <3>2 DEF Tables
    <3>4. ListWritten(b)'
      BY <2>2, <3>1, <3>2, <3>3 DEF ListWritten
    <3>5. IdsFree(mem)'
      <4>1. sequence'.lists \in Nat /\ l \in Nat /\ ~ (l > sequence'.lists)
        BY <1>0, <2>4, <3>1
      <4>2. mem'.cards = b.cards /\ \A k \in ListId : k # l => mem'.lists[k] = b.lists[k]
        BY <2>2, <3>2, <3>3
      <4> QED
        BY <2>5, <4>1, <4>2 DEF IdsFree
    <3>6. Since(b)' /\ MemoryTypes'
      BY <2>2, <2>3, <2>4, <2>5, <2>7, <3>2, <3>4
         DEF Since, MemoryInv, MemoryTypes, InTransaction, ListOp, CardOp
    <3> QED
      BY <2>2, <2>3, <2>4, <3>5, <3>6 DEF MemoryInv, InTransaction
  <2> QED
    BY <1>8, <2>1, <2>6, <2>7, WriteRowWrites
<1>9. CASE ApplyLabels
  <2>1. CASE \E ls \in Asked.labels : ~ (ls \subseteq OwnLabel)
    BY <1>9, <2>1, ThrowRestores DEF ApplyLabels, InTransaction
  <2>2. CASE ~ \E ls \in Asked.labels : ~ (ls \subseteq OwnLabel)
    <3>1. PICK b \in Tables : Since(b)
      BY <1>9 DEF ApplyLabels, MemoryInv, InTransaction
    <3>2. /\ saved = {b} /\ IdsFree(b) /\ mem \in Tables /\ result = "none" /\ IdsFree(mem)
          /\ work.step = "labels" /\ attempt \in 1 .. Tries /\ Asked \in Wishes
      BY <1>9, <3>1 DEF ApplyLabels, Since, MemoryInv, InTransaction, MemoryTypes, Asked
    <3>3. /\ UNCHANGED <<saved, attempt, result, sequence>>
          /\ work' = [work EXCEPT !.step = "append"]
          /\ mem' = IF Asked.labels = {} THEN mem
                    ELSE [mem EXCEPT !.labels[work.found] = UNION Asked.labels]
      BY <1>9, <2>2 DEF ApplyLabels, Step
    <3>4. /\ work' \in [step : {"append"}, ask : Wishes, found : Nat]
          /\ Asked' = Asked /\ work'.found = work.found
      BY <3>2, <3>3 DEF MemoryInv, MemoryTypes, Asked
    <3>5. /\ mem' \in Tables /\ mem'.cards = mem.cards /\ mem'.lists = mem.lists
          /\ mem'.feed = mem.feed
          /\ Asked.op \in ListOp => mem'.labels = mem.labels
          /\ Asked.op \in CardOp =>
               \A c \in CardId : c # work.found => mem'.labels[c] = mem.labels[c]
      <4>1. CASE Asked.labels = {}
        BY <3>2, <3>3, <4>1
      <4>2. CASE Asked.labels # {}
        <5>1. Asked.op \in CardOp /\ Asked.op \notin ListOp
          BY <3>2, <4>2, WishTypes DEF CardOp, ListOp
        <5>2. work.found \in CardId
          BY <3>1, <3>2, <5>1 DEF Since, CardWritten
        <5>3. UNION Asked.labels \in SUBSET (OwnLabel \union {OtherLabel})
          BY <2>2
        <5>4. mem' = [mem EXCEPT !.labels[work.found] = UNION Asked.labels]
          BY <3>3, <4>2
        <5>5. /\ mem' \in Tables /\ mem'.labels = [mem.labels EXCEPT ![work.found] = UNION Asked.labels]
              /\ mem'.cards = mem.cards /\ mem'.lists = mem.lists /\ mem'.feed = mem.feed
          <6>1. mem \in Tables
            BY <3>2
          <6> QED
            BY <5>2, <5>3, <5>4, <6>1, OneLabel
        <5> QED
          BY <3>2, <5>1, <5>5 DEF Tables
      <4> QED
        BY <4>1, <4>2
    <3>6. Asked.op \in CardOp => CardWritten(b)'
      BY <3>1, <3>2, <3>4, <3>5 DEF Since, CardWritten
    <3>7. Asked.op \notin CardOp => ListWritten(b)'
      BY <3>1, <3>2, <3>4, <3>5, WishTypes DEF Since, ListWritten
    <3>8. IdsFree(mem)' /\ IdsFree(b)'
      BY <3>2, <3>3, <3>5 DEF IdsFree
    <3>9. Since(b)'
      BY <3>1, <3>2, <3>3, <3>4, <3>5, <3>6, <3>7, <3>8 DEF Since
    <3> QED
      BY <3>2, <3>3, <3>4, <3>5, <3>8, <3>9 DEF MemoryInv, MemoryTypes, InTransaction
  <2> QED
    BY <2>1, <2>2
<1>10. CASE AppendActivity
  <2>1. /\ saved' = {}
        /\ work' = [work EXCEPT !.step = "idle"] /\ result' = "OK"
        /\ UNCHANGED <<sequence, attempt>>
    BY <1>10 DEF AppendActivity, Step
  <2>2. /\ mem' \in Tables /\ mem'.cards = mem.cards /\ mem'.lists = mem.lists
    BY <1>10, OneActivity DEF AppendActivity, MemoryInv, MemoryTypes
  <2>3. MemoryTypes' /\ work'.step = "idle"
    BY <2>1, <2>2 DEF MemoryInv, MemoryTypes
  <2>4. IdsFree(mem)'
    BY <2>1, <2>2 DEF MemoryInv, IdsFree
  <2> QED
    BY <2>1, <2>3, <2>4 DEF MemoryInv, InTransaction
<1> QED
  BY <1>1, <1>2, <1>3, <1>4, <1>5, <1>6, <1>7, <1>8, <1>9, <1>10 DEF MemoryNext

(* The invariant, and its temporal form.                                   *)
LEMMA MemoryInvariant == MemorySpec => []MemoryInv
BY MemoryInit0, MemoryStep, PTL DEF MemorySpec

(* What a caller sees of the tables.                                       *)
Board == IF saved = {} THEN mem ELSE CHOOSE t \in saved : TRUE
Collided == IF attempt = 0 THEN 0 ELSE attempt - 1

(* While a transaction runs, callers still see what it started from.       *)
LEMMA BoardSeen ==
  ASSUME MemoryInv
  PROVE  /\ work.step \notin InTransaction => Board = mem
         /\ \A b \in Tables : Since(b) => Board = b
         /\ Board \in Tables
         /\ result = "none" => Collided = attempt - 1 /\ attempt \in 1 .. Tries + 1
<1>1. ASSUME work.step \notin InTransaction PROVE Board = mem
  BY <1>1 DEF MemoryInv, Board
<1>2. ASSUME NEW b \in Tables, Since(b) PROVE Board = b
  BY <1>2 DEF Since, Board
<1>3. Board \in Tables
  BY <1>1, <1>2 DEF MemoryInv, MemoryTypes
<1>4. ASSUME result = "none" PROVE attempt \in 1 .. Tries + 1
  <2>1. Tries \in Nat \ {0}
    BY RepositoryAssumption
  <2>2. work.step \in {"forbidden", "begin", "conflict"} \union InTransaction
    BY <1>4 DEF MemoryInv, MemoryTypes
  <2>3. attempt \in 1 .. Tries \/ attempt = Tries + 1
    BY <2>2 DEF MemoryInv
  <2> QED
    BY <2>1, <2>3
<1>5. attempt \in 1 .. Tries + 1 => Collided = attempt - 1
  BY RepositoryAssumption DEF Collided
<1> QED
  BY <1>1, <1>2, <1>3, <1>4, <1>5

(* A refusal leaves the tables as the caller saw them.                     *)
LEMMA RefusalMaps ==
  ASSUME MemoryInv, MemoryInv', UNCHANGED attempt, result = "none",
         result' \notin {"none", "OK"}, result' = "CONFLICT" <=> work.step = "conflict",
         Board' = Board
  PROVE  Atomic!RefuseCall
<1>1. Collided' = Collided /\ Collided = attempt - 1
  BY BoardSeen DEF Collided
<1>2. work.step = "conflict" <=> attempt = Tries + 1
  BY RepositoryAssumption DEF MemoryInv, InTransaction, MemoryTypes
<1>3. attempt = Tries + 1 <=> Collided = Tries
  BY <1>1, RepositoryAssumption DEF MemoryInv, MemoryTypes
<1> QED
  BY <1>1, <1>2, <1>3 DEF Atomic!RefuseCall, Board, Collided

(* Each step of the repository is one step of the atomic board, or none.   *)
LEMMA MemoryMaps ==
  ASSUME MemoryInv, MemoryInv', [MemoryNext]_memoryVars
  PROVE  [Atomic!Call \/ Atomic!Collision \/ Atomic!Commit \/ Atomic!RefuseCall]_(Atomic!atomicVars)
<1> DEFINE Stutter == Board' = Board /\ result' = result /\ Collided' = Collided
<1>0. Stutter => UNCHANGED Atomic!atomicVars
  BY DEF Atomic!atomicVars, Board, Collided
<1>1. CASE SetOptions \/ UNCHANGED memoryVars
  <2>1. UNCHANGED <<mem, saved, attempt, result>>
    BY <1>1 DEF SetOptions, memoryVars
  <2>2. Stutter
    BY <2>1 DEF Board, Collided
  <2> QED
    BY <1>0, <2>2
<1>2. CASE CallOperation
  <2>1. Board' = Board /\ result # "none" /\ result' = "none" /\ Collided' = 0
    BY <1>2 DEF CallOperation, Board, Collided, MemoryInv
  <2> QED
    BY <2>1 DEF Atomic!Call, Board, Collided
<1>3. CASE Forbidden \/ GiveUp
  <2>1. /\ UNCHANGED <<saved, mem, attempt>> /\ result = "none"
        /\ result' = IF work.step = "conflict" THEN "CONFLICT" ELSE "FORBIDDEN"
    BY <1>3 DEF Forbidden, GiveUp, MemoryInv
  <2>2. Board' = Board
    BY <2>1 DEF Board
  <2> QED
    BY <2>1, <2>2, RefusalMaps
<1>4. CASE BeginWork
  <2>1. saved = {} /\ saved' = {mem} /\ UNCHANGED <<mem, attempt, result>>
    BY <1>4 DEF BeginWork, MemoryInv, InTransaction
  <2> QED
    BY <1>0, <2>1 DEF Board, Collided
<1>5. ASSUME work.step \in InTransaction,
             UNCHANGED <<saved, attempt, result>> \/ \E code \in {"NOT_FOUND", "STALE", "INVALID"} :
                                                        Throw(code) /\ UNCHANGED attempt
      PROVE  [Atomic!Call \/ Atomic!Collision \/ Atomic!Commit \/ Atomic!RefuseCall]_(Atomic!atomicVars)
  <2>1. PICK b \in Tables : Since(b)
    BY <1>5 DEF MemoryInv
  <2>2. Board = b /\ saved = {b} /\ result = "none" /\ work.step # "conflict"
    BY <1>5, <2>1, BoardSeen DEF Since, MemoryInv, InTransaction
  <2>3. CASE UNCHANGED <<saved, attempt, result>>
    <3>1. Stutter
      BY <2>2, <2>3 DEF Board, Collided
    <3> QED
      BY <1>0, <3>1
  <2>4. ASSUME NEW code \in {"NOT_FOUND", "STALE", "INVALID"}, Throw(code), UNCHANGED attempt
        PROVE  Atomic!RefuseCall
    <3>1. saved' = {} /\ mem' = b /\ result' = code
      BY <2>2, <2>4 DEF Throw, Rollback
    <3>2. Board' = Board
      BY <2>2, <3>1 DEF Board
    <3> QED
      BY <2>2, <2>4, <3>1, <3>2, RefusalMaps
  <2> QED
    BY <1>5, <2>3, <2>4
<1>6. CASE Check
  <2>1. Refusal \in {"NOT_FOUND", "STALE", "INVALID", ""}
    BY DEF Refusal
  <2> QED
    BY <1>5, <1>6, <2>1 DEF Check, InTransaction
<1>7. CASE ArchiveStale
  BY <1>5, <1>7 DEF ArchiveStale, InTransaction
<1>8. CASE WriteRow
  BY <1>5, <1>8 DEF WriteRow, InTransaction
<1>9. CASE ApplyLabels
  BY <1>5, <1>9 DEF ApplyLabels, InTransaction
<1>10. CASE CollidePosition
  <2>1. PICK b \in Tables : Since(b)
    BY <1>10 DEF CollidePosition, MemoryInv, InTransaction
  <2>2. /\ Board = b /\ saved = {b} /\ result = "none" /\ attempt \in 1 .. Tries
        /\ Tries \in Nat
    BY <1>10, <2>1, BoardSeen, RepositoryAssumption
       DEF CollidePosition, Since, MemoryInv, InTransaction
  <2>3. saved' = {} /\ mem' = b /\ UNCHANGED result /\ attempt' = attempt + 1
    BY <1>10, <2>2 DEF CollidePosition, Rollback
  <2>4. Board' = Board
    BY <2>2, <2>3 DEF Board
  <2>5. Collided = attempt - 1 /\ Collided' = attempt
    BY <2>2, <2>3 DEF Collided
  <2>6. Collided < Tries /\ Collided' = Collided + 1
    BY <2>2, <2>5
  <2> QED
    BY <2>2, <2>3, <2>4, <2>6 DEF Atomic!Collision, Board, Collided
<1>11. CASE AppendActivity
  <2>1. PICK b \in Tables : Since(b)
    BY <1>11 DEF AppendActivity, MemoryInv, InTransaction
  <2>2. Board = b /\ result = "none" /\ mem \in Tables
    BY <1>11, <2>1, BoardSeen DEF AppendActivity, MemoryInv, MemoryTypes, InTransaction
  <2>3. /\ saved' = {} /\ result' = "OK" /\ UNCHANGED attempt
        /\ mem' = [mem EXCEPT !.feed = @ + 1]
    BY <1>11 DEF AppendActivity
  <2>4. Board' = mem'
    BY <2>3 DEF Board
  <2>5. /\ mem'.cards = mem.cards /\ mem'.lists = mem.lists /\ mem'.labels = mem.labels
        /\ mem'.feed = mem.feed + 1
    BY <2>2, <2>3, OneActivity
  <2>6. /\ mem.feed = b.feed
        /\ IF Asked.op \in CardOp THEN CardWritten(b) ELSE ListWritten(b)
    BY <1>11, <2>1 DEF AppendActivity, Since
  <2>7. /\ b.cards \in [CardId -> CardRow] /\ b.lists \in [ListId -> ListRow]
    BY <2>1 DEF Since, Tables
  <2>8. Board'.feed = Board.feed + 1
    BY <2>2, <2>4, <2>5, <2>6
  <2>9. ASSUME CardWritten(b)
        PROVE  /\ Atomic!OneWritten(Board.cards, Board'.cards)
               /\ \A c \in DOMAIN Board.cards :
                    Board'.labels[c] # Board.labels[c] => Board'.cards[c] # Board.cards[c]
               /\ Board'.lists = Board.lists
    <3>1. Board.cards = b.cards /\ Board'.cards = mem.cards /\ Board'.labels = mem.labels
          /\ Board.labels = b.labels
      BY <2>2, <2>4, <2>5
    <3>2. /\ work.found \in DOMAIN b.cards
          /\ mem.cards = [b.cards EXCEPT ![work.found] = mem.cards[work.found]]
          /\ mem.cards[work.found].writes = b.cards[work.found].writes + 1
      BY <2>7, <2>9 DEF CardWritten
    <3>3. Atomic!OneWritten(Board.cards, Board'.cards)
      BY <3>1, <3>2 DEF Atomic!OneWritten
    <3>4. b.cards[work.found].writes \in Nat
      BY <2>7, <3>2 DEF CardRow
    <3>5. mem.cards[work.found] # b.cards[work.found]
      BY <3>2, <3>4
    <3>6. \A c \in CardId : c # work.found => mem.labels[c] = b.labels[c]
      BY <2>9 DEF CardWritten
    <3>7. DOMAIN b.cards = CardId
      BY <2>7
    <3>8. Board'.lists = Board.lists
      BY <2>2, <2>4, <2>5, <2>9 DEF CardWritten
    <3> QED
      BY <3>1, <3>3, <3>5, <3>6, <3>7, <3>8
  <2>10. ASSUME ListWritten(b)
         PROVE  /\ Atomic!OneWritten(Board.lists, Board'.lists)
                /\ Board'.cards = Board.cards /\ Board'.labels = Board.labels
    <3>1. Board.lists = b.lists /\ Board'.lists = mem.lists
      BY <2>2, <2>4, <2>5
    <3>2. \E l \in DOMAIN b.lists : /\ mem.lists = [b.lists EXCEPT ![l] = mem.lists[l]]
                                    /\ mem.lists[l].writes = b.lists[l].writes + 1
      BY <2>7, <2>10 DEF ListWritten
    <3>3. Atomic!OneWritten(Board.lists, Board'.lists)
      BY <3>1, <3>2 DEF Atomic!OneWritten
    <3> QED
      BY <2>2, <2>4, <2>5, <2>10, <3>3 DEF ListWritten
  <2>11. Collided' = Collided
    BY <2>3 DEF Collided
  <2> QED
    BY <2>2, <2>3, <2>6, <2>8, <2>9, <2>10, <2>11 DEF Atomic!Commit, Board, Collided
<1> QED
  BY <1>1, <1>2, <1>3, <1>4, <1>6, <1>7, <1>8, <1>9, <1>10, <1>11 DEF MemoryNext

(* The repository is a board on which a call does all of its work or none, *)
(* whatever it throws and however often a position collides: what          *)
(* withTransaction of memory-repository.ts owes to board-ops.              *)
THEOREM MemoryImplementsAtomic == MemorySpec => MemoryIsAtomic
<1>1. MemoryInit => Atomic!AtomicInit
  BY DEF MemoryInit, Atomic!AtomicInit
<1>2. MemoryInv /\ MemoryInv' /\ [MemoryNext]_memoryVars
        => [Atomic!Call \/ Atomic!Collision \/ Atomic!Commit \/ Atomic!RefuseCall]_(Atomic!atomicVars)
  BY MemoryMaps
<1> QED
  BY <1>1, <1>2, MemoryInvariant, PTL DEF MemorySpec, MemoryIsAtomic, Atomic!AtomicSpec
=============================================================================
