-------------------------- MODULE ActivityFeedProofs --------------------------
(***************************************************************************)
(* Proofs about ActivityFeed, on top of those about the lists table: what  *)
(* the pages of the feed and a board page show, for any number of requests *)
(* and lines, any page size and any loss and order of the broadcasts.      *)
(***************************************************************************)
EXTENDS ListWritesProofs, FiniteSetTheorems

(* A line that has committed has a time, and its request the row it wrote. *)
Dated(r) ==
  /\ pc[r] = "commit" \/ Committed(r) => line[r] \in 0 .. MaxTime
  /\ Committed(r) => want[r] # None

AllDated == \A r \in Request : Dated(r)

-----------------------------------------------------------------------------
(* What any step does to the lines.                                        *)

Same(q) == line'[q] = line[q] /\ want'[q] = want[q] /\ pc'[q] = pc[q] /\ inp'[q] = inp[q]

(* A writer's step touches its own line only, and commits at most that.    *)
LEMMA WriterLine ==
  ASSUME WriteTypeOK, Stages, TableInv, NEW r \in Request, Ask(r) \/ InTransaction(r) \/ Commit(r)
  PROVE  /\ ~Committed(r)
         /\ \A q \in Request \ {r} : Same(q)
         /\ \/ journal' = journal /\ (pc'[r] = "commit" => line'[r] \in 0 .. MaxTime)
            \/ pc[r] = "commit" /\ journal' = Append(journal, r) /\ UNCHANGED <<line, want>>
<1>0. (InTx(r) \/ pc[r] = "idle") => ~Committed(r)
  BY InTxUncommitted
<1>1. ASSUME NEW code, Fail(r, code), InTx(r), UNCHANGED <<journal, inp>>
      PROVE  /\ ~Committed(r)
             /\ \A q \in Request \ {r} : Same(q)
             /\ pc'[r] = "done" /\ journal' = journal
  BY <1>0, <1>1 DEF Same, Fail, Goto, WriteTypeOK
<1>2. CASE Ask(r)
  BY <1>0, <1>2 DEF Same, Ask, First, Goto, tx, WriteTypeOK
<1>3. CASE FindList(r)
  BY <1>0, <1>1, <1>3 DEF Same, FindList, InTx, Goto, tx, WriteTypeOK
<1>4. CASE StartLockRead(r) \/ LockNextRow(r)
  BY <1>0, <1>4 DEF Same, StartLockRead, LockNextRow, InTx, Goto, WriteTypeOK
<1>5. CASE RefuseAnchor(r) \/ DeadlockVictim(r) \/ TimeOut(r)
  BY <1>1, <1>5, WaiterInTx DEF Same, RefuseAnchor, DeadlockVictim, TimeOut, InTx
<1>6. ASSUME NEW row, Wrote(r, row), pc[r] = "write", UNCHANGED <<journal, inp>>
      PROVE  /\ ~Committed(r) /\ journal' = journal /\ line'[r] \in 0 .. MaxTime
             /\ \A q \in Request \ {r} : Same(q)
  BY <1>0, <1>6 DEF Same, Wrote, Goto, InTx, WriteTypeOK
<1>7. CASE Position(r) \/ Rewrite(r)
  BY <1>6, <1>7 DEF Same, Position, Rewrite
<1>8. CASE Collide(r)
  <2>1. pc[r] = "write" /\ UNCHANGED <<journal, inp>>
    BY <1>8 DEF Same, Collide
  <2>2. CASE \E code : Fail(r, code)
    BY <1>1, <2>1, <2>2 DEF Same, InTx
  <2>3. CASE ~\E code : Fail(r, code)
    BY <1>0, <1>8, <2>1, <2>3 DEF Same, Collide, First, Goto, InTx, WriteTypeOK
  <2> QED
    BY <2>2, <2>3
<1>9. CASE Commit(r)
  BY <1>0, <1>9 DEF Same, Commit, Goto, InTx, WriteTypeOK
<1> QED
  BY <1>2, <1>3, <1>4, <1>5, <1>7, <1>8, <1>9 DEF Same, InTransaction

(* Lines are never lost, keep their time, and what their request wrote.    *)
LEMMA LinesKept ==
  ASSUME WriteTypeOK, Stages, TableInv, AllDated, [Next]_vars
  PROVE  /\ AllDated'
         /\ Lines \subseteq Lines'
         /\ \A x \in Lines : At(x)' = At(x)
         /\ \A r \in Request : Committed(r) => Committed(r)' /\ want'[r] = want[r] /\ inp'[r] = inp[r]
<1>0. /\ Lines = Past \union {r \in Request : Committed(r)}
      /\ journal' \in Seq(Request) => Lines' = Past \union {r \in Request : Committed(r)'}
  BY DEF Lines, ToSet, Committed, WriteTypeOK
<1>1. ASSUME NEW r \in Request, Ask(r) \/ InTransaction(r) \/ Commit(r)
      PROVE  /\ AllDated'
             /\ Lines \subseteq Lines'
             /\ \A x \in Lines : At(x)' = At(x)
             /\ \A q \in Request : Committed(q) => Committed(q)' /\ want'[q] = want[q] /\ inp'[q] = inp[q]
  <2>1. /\ ~Committed(r)
        /\ \A q \in Request \ {r} : Same(q)
        /\ \/ journal' = journal /\ (pc'[r] = "commit" => line'[r] \in 0 .. MaxTime)
           \/ pc[r] = "commit" /\ journal' = Append(journal, r) /\ UNCHANGED <<line, want>>
    BY <1>1, WriterLine
  <2>2. /\ journal' \in Seq(Request)
        /\ \/ \A q : Committed(q)' <=> Committed(q)
           \/ pc[r] = "commit" /\ (\A q : Committed(q)' <=> Committed(q) \/ q = r) /\ UNCHANGED <<line, want>>
    <3>1. CASE journal' = journal
      BY <3>1 DEF WriteTypeOK, Committed
    <3>2. CASE pc[r] = "commit" /\ journal' = Append(journal, r) /\ UNCHANGED <<line, want>>
      BY <3>2, JournalGrows DEF WriteTypeOK, TableInv
    <3> QED
      BY <2>1, <3>1, <3>2
  <2>3. want[r] = None => pc[r] # "commit"
    BY DEF WriteTypeOK
  <2>4. AllDated'
    BY <2>1, <2>2, <2>3 DEF Same, AllDated, Dated
  <2>5. \A x \in Lines : At(x)' = At(x)
    BY <1>0, <2>1 DEF Same, At
  <2> QED
    BY <1>0, <2>1, <2>2, <2>4, <2>5 DEF Same
<1>2. CASE OtherStep
  <2>1. UNCHANGED <<journal, line, want, inp>>
    BY <1>2 DEF OtherStep, tx
  <2>2. \A q : Committed(q)' = Committed(q)
    BY <2>1 DEF Committed
  <2>3. \A q \in Request : pc'[q] = "commit" => pc[q] = "commit"
    BY <1>2 DEF OtherStep, WriteTypeOK
  <2>4. Lines' = Lines /\ \A x \in Lines : At(x)' = At(x)
    BY <2>1 DEF Lines, At
  <2> QED
    BY <2>1, <2>2, <2>3, <2>4 DEF AllDated, Dated
<1> QED
  BY <1>1, <1>2, NextOther

-----------------------------------------------------------------------------
(* The order of the lines, and pages of them.                              *)

(* No line is newer than itself, and newer is transitive.                  *)
LEMMA NewerOrder ==
  ASSUME WriteTypeOK, AllDated
  PROVE  /\ Lines \subseteq Past \union Request
         /\ \A x \in Lines : ~Newer(x, x)
         /\ \A x, y, z \in Lines : Newer(x, y) /\ Newer(y, z) => Newer(x, z)
<1>1. \A r \in ToSet(journal) : r \in Request /\ Committed(r)
  BY DEF ToSet, Committed, WriteTypeOK
<1>2. Lines \subseteq Past \union Request
  BY <1>1 DEF Lines
<1>3. \A x \in Lines : At(x) \in Nat /\ Rank[x] \in Nat
  <2>1. \A x \in Lines : At(x) \in 0 .. MaxTime
    BY <1>1, FeedAssumption DEF FeedAssumption, Lines, At, AllDated, Dated
  <2> QED
    BY <1>2, <2>1, BoundsAssumption, FeedAssumption DEF FeedAssumption
<1>4. \A x \in Lines : ~Newer(x, x)
  BY <1>3 DEF Newer
<1>5. \A x, y, z \in Lines : Newer(x, y) /\ Newer(y, z) => Newer(x, z)
  BY <1>3 DEF Newer
<1> QED
  BY <1>2, <1>4, <1>5

(* A bounded sequence is a sequence.                                       *)
LEMMA BoundedTyped ==
  ASSUME NEW S, NEW n \in Nat, NEW s \in BoundedSeq(S, n)
  PROVE  s \in Seq(S) /\ Len(s) <= n /\ DOMAIN s = 1 .. Len(s) /\ ToSet(s) \subseteq S
<1>1. PICK m \in 0 .. n : s \in [1 .. m -> S]
  BY DEF BoundedSeq, SeqOf
<1>2. s \in Seq(S) /\ Len(s) = m
  BY <1>1
<1> QED
  BY <1>1, <1>2 DEF ToSet

(* A page of S has no line twice; if there is more it is full, and leaves  *)
(* older lines, of which there is one.                                     *)
LEMMA PageOf ==
  ASSUME WriteTypeOK, AllDated, NEW S \in SUBSET Lines, NEW s \in Newest(S)
  PROVE  /\ s \in Seq(S) /\ DOMAIN s = 1 .. Len(s) /\ ToSet(s) \subseteq S
         /\ \A j, k \in DOMAIN s : s[j] = s[k] => j = k
         /\ \A j, k \in DOMAIN s : j < k => Newer(s[j], s[k])
         /\ ~HasMore(S) => ToSet(s) = S
         /\ HasMore(S) => /\ Len(s) >= 1 /\ Last(s) \in ToSet(s)
                          /\ \A x \in S \ ToSet(s) : Newer(Last(s), x)
                          /\ S \ ToSet(s) # {}
<1>1. PageSize \in Nat \ {0}
  BY FeedAssumption DEF FeedAssumption
<1>2. s \in BoundedSeq(S, PageSize) /\ \A j, k \in DOMAIN s : j < k => Newer(s[j], s[k])
  BY DEF Newest
<1>3. s \in Seq(S) /\ DOMAIN s = 1 .. Len(s) /\ ToSet(s) \subseteq S /\ Len(s) \in Nat
  BY <1>1, <1>2, BoundedTyped
<1>4. ASSUME NEW j \in DOMAIN s, NEW k \in DOMAIN s, s[j] = s[k] PROVE j = k
  <2>1. s[j] \in Lines /\ ~Newer(s[j], s[j]) /\ j \in Nat /\ k \in Nat
    BY <1>3, NewerOrder
  <2> QED
    BY <1>2, <1>4, <2>1
<1>5. ~HasMore(S) => ToSet(s) = S
  BY DEF Newest
<1>6. ASSUME HasMore(S)
      PROVE  /\ Len(s) >= 1 /\ Last(s) \in ToSet(s)
             /\ \A x \in S \ ToSet(s) : Newer(Last(s), x)
             /\ S \ ToSet(s) # {}
  <2>1. Len(s) = PageSize /\ \A x \in S \ ToSet(s) : Newer(Last(s), x)
    BY <1>6 DEF Newest
  <2>2. Last(s) \in ToSet(s) /\ Len(s) >= 1
    BY <1>1, <1>3, <2>1 DEF Last, ToSet
  <2>3. S \ ToSet(s) # {}
    <3> SUFFICES ASSUME S \subseteq ToSet(s) PROVE FALSE
      OBVIOUS
    <3>1. s \in Surjection(1 .. PageSize, S)
      BY <1>3, <2>1 DEF Surjection, ToSet
    <3>2. ExistsSurjection(1 .. PageSize, S)
      BY <3>1 DEF ExistsSurjection
    <3>3. Cardinality(S) <= PageSize
      BY <1>1, <3>2, FS_SurjCardinalityBound
    <3>4. IsFiniteSet(S)
      BY <1>1, <3>2, FS_NatSurjection
    <3>5. Cardinality(S) \in Nat
      BY <3>4, FS_CardinalityType
    <3> QED
      BY <1>1, <1>6, <3>3, <3>5 DEF HasMore
  <2> QED
    BY <2>1, <2>2, <2>3
<1> QED
  BY <1>2, <1>3, <1>4, <1>5, <1>6

(* One sequence after another: which place comes from which.               *)
LEMMA Joined ==
  ASSUME NEW S, NEW s \in Seq(S), NEW t \in Seq(S)
  PROVE  /\ s \o t \in Seq(S) /\ Len(s \o t) = Len(s) + Len(t)
         /\ DOMAIN s = 1 .. Len(s) /\ DOMAIN (s \o t) = 1 .. Len(s) + Len(t)
         /\ \A i \in 1 .. Len(s) : (s \o t)[i] = s[i]
         /\ \A i \in 1 .. Len(t) : (s \o t)[Len(s) + i] = t[i]
         /\ \A i \in 1 .. Len(s) + Len(t) :
              i \in 1 .. Len(s) \/ \E j \in 1 .. Len(t) : i = Len(s) + j
         /\ Len(s) \in Nat /\ Len(t) \in Nat
         /\ ToSet(s \o t) = ToSet(s) \union ToSet(t)
<1>1. /\ s \o t \in Seq(S) /\ Len(s \o t) = Len(s) + Len(t)
      /\ DOMAIN s = 1 .. Len(s) /\ DOMAIN t = 1 .. Len(t)
      /\ Len(s) \in Nat /\ Len(t) \in Nat
  OBVIOUS
<1>2. DOMAIN (s \o t) = 1 .. Len(s) + Len(t)
  BY <1>1
<1>3. \A i \in 1 .. Len(s) : (s \o t)[i] = s[i]
  OBVIOUS
<1>4. \A i \in 1 .. Len(t) : (s \o t)[Len(s) + i] = t[i]
  OBVIOUS
<1>5. \A i \in 1 .. Len(s) + Len(t) :
        i \in 1 .. Len(s) \/ \E j \in 1 .. Len(t) : i = Len(s) + j
  <2> SUFFICES ASSUME NEW i \in 1 .. Len(s) + Len(t), i \notin 1 .. Len(s)
               PROVE  \E j \in 1 .. Len(t) : i = Len(s) + j
    OBVIOUS
  <2>1. i - Len(s) \in 1 .. Len(t) /\ i = Len(s) + (i - Len(s))
    BY <1>1
  <2> QED
    BY <2>1
<1>6. /\ \A i \in 1 .. Len(s) : i \in 1 .. Len(s) + Len(t)
      /\ \A i \in 1 .. Len(t) : Len(s) + i \in 1 .. Len(s) + Len(t)
  BY <1>1
<1>7. ToSet(s) = {s[i] : i \in 1 .. Len(s)} /\ ToSet(t) = {t[i] : i \in 1 .. Len(t)}
      /\ ToSet(s \o t) = {(s \o t)[i] : i \in 1 .. Len(s) + Len(t)}
  BY <1>1, <1>2 DEF ToSet
<1>8. ToSet(s \o t) = ToSet(s) \union ToSet(t)
  <2>1. ASSUME NEW i \in 1 .. Len(s) + Len(t) PROVE (s \o t)[i] \in ToSet(s) \union ToSet(t)
    BY <1>3, <1>4, <1>5, <1>7
  <2>2. ASSUME NEW i \in 1 .. Len(s) PROVE s[i] \in ToSet(s \o t)
    <3>1. (s \o t)[i] \in ToSet(s \o t)
      BY <1>6, <1>7
    <3> QED
      BY <1>3, <3>1
  <2>3. ASSUME NEW i \in 1 .. Len(t) PROVE t[i] \in ToSet(s \o t)
    <3>1. (s \o t)[Len(s) + i] \in ToSet(s \o t)
      BY <1>6, <1>7
    <3> QED
      BY <1>4, <3>1
  <2> QED
    BY <1>7, <2>1, <2>2, <2>3
<1> QED
  BY <1>1, <1>2, <1>3, <1>4, <1>5, <1>8

-----------------------------------------------------------------------------
(* The reader of the feed.                                                 *)

(* What has been read, and what there is still to read.                    *)
Reading ==
  /\ got \in Seq(Past \union Request)
  /\ ToSet(got) \subseteq Lines
  /\ PagesDescend
  /\ owed \subseteq Lines
  /\ reader \in {"off", "first", "more", "end"}
  /\ reader = "first" => got = <<>> /\ cursor = None
  /\ reader = "more" => /\ got # <<>> /\ cursor = got[Len(got)] /\ cursor # None
                        /\ owed \subseteq ToSet(got) \union Older(cursor)
                        /\ Older(cursor) # {}
  /\ reader \in {"off", "end"} => cursor = None
  /\ reader = "end" => owed \subseteq ToSet(got)

(* A page is read.                                                         *)
LEMMA ReadPageReading ==
  ASSUME WriteTypeOK, AllDated, Reading, ReadPage
  PROVE  Reading'
<1> DEFINE rows == Older(cursor)
<1>1. /\ reader \in {"first", "more"}
      /\ owed' = IF reader = "first" THEN Lines ELSE owed
      /\ reader' = IF HasMore(rows) THEN "more" ELSE "end"
      /\ UNCHANGED <<journal, line>>
  BY DEF ReadPage, writeVars
<1>2. PICK items \in Newest(rows) :
        got' = got \o items /\ cursor' = IF HasMore(rows) THEN Last(items) ELSE None
  BY DEF ReadPage
<1>3. rows \in SUBSET Lines
  BY DEF Older
<1>4. /\ items \in Seq(rows) /\ DOMAIN items = 1 .. Len(items) /\ ToSet(items) \subseteq rows
      /\ \A j, k \in DOMAIN items : j < k => Newer(items[j], items[k])
      /\ ~HasMore(rows) => ToSet(items) = rows
      /\ HasMore(rows) => /\ Len(items) >= 1 /\ Last(items) \in ToSet(items)
                          /\ \A x \in rows \ ToSet(items) : Newer(Last(items), x)
                          /\ rows \ ToSet(items) # {}
  BY <1>3, PageOf
<1>5. Lines \subseteq Past \union Request /\ None \notin Lines
  BY NewerOrder, NoneAssumption, FeedAssumption DEF FeedAssumption
<1>6. got \in Seq(Past \union Request) /\ items \in Seq(Past \union Request)
  BY <1>3, <1>4, <1>5 DEF Reading
<1>7. /\ got' \in Seq(Past \union Request) /\ Len(got') = Len(got) + Len(items)
      /\ DOMAIN got = 1 .. Len(got) /\ DOMAIN got' = 1 .. Len(got) + Len(items)
      /\ \A i \in 1 .. Len(got) : got'[i] = got[i]
      /\ \A i \in 1 .. Len(items) : got'[Len(got) + i] = items[i]
      /\ \A i \in DOMAIN got' : i \in 1 .. Len(got) \/ \E j \in 1 .. Len(items) : i = Len(got) + j
      /\ Len(got) \in Nat /\ Len(items) \in Nat
      /\ ToSet(got') = ToSet(got) \union ToSet(items)
  BY <1>2, <1>6, Joined
<1>8. ToSet(got') = ToSet(got) \union ToSet(items)
  BY <1>7
<1>9. Lines' = Lines /\ (\A x, y : Newer(x, y)' = Newer(x, y)) /\ \A c : Older(c)' = Older(c)
  BY <1>1 DEF Lines, Newer, At, Older
<1>10. \A i \in 1 .. Len(got), x \in ToSet(items) : Newer(got[i], x)
  <2> SUFFICES ASSUME NEW i \in 1 .. Len(got), NEW x \in ToSet(items) PROVE Newer(got[i], x)
    OBVIOUS
  <2>1. reader = "more" /\ cursor = got[Len(got)] /\ cursor # None
    BY <1>1 DEF Reading
  <2>2. x \in Lines /\ Newer(cursor, x)
    BY <1>3, <1>4, <2>1 DEF Older
  <2>3. got[i] \in Lines /\ cursor \in Lines
    BY <1>7, <2>1 DEF Reading, ToSet
  <2>4. i = Len(got) \/ Newer(got[i], cursor)
    <3>1. Len(got) \in DOMAIN got /\ i \in DOMAIN got /\ i <= Len(got)
      BY <1>7
    <3> QED
      BY <2>1, <3>1 DEF Reading, PagesDescend
  <2> QED
    BY <2>1, <2>2, <2>3, <2>4, NewerOrder
<1>11. PagesDescend'
  <2> SUFFICES ASSUME NEW j \in DOMAIN got', NEW k \in DOMAIN got', j < k
               PROVE  Newer(got'[j], got'[k])
    BY <1>9 DEF PagesDescend
  <2>1. CASE k \in 1 .. Len(got)
    <3>1. j \in 1 .. Len(got)
      BY <1>7, <2>1
    <3> QED
      BY <1>7, <2>1, <3>1 DEF Reading, PagesDescend
  <2>2. CASE k \notin 1 .. Len(got)
    <3>1. PICK n \in 1 .. Len(items) : k = Len(got) + n
      BY <1>7, <2>2
    <3>2. CASE j \in 1 .. Len(got)
      <4>1. items[n] \in ToSet(items)
        BY <1>4, <3>1 DEF ToSet
      <4> QED
        BY <1>7, <1>10, <3>1, <3>2, <4>1
    <3>3. CASE j \notin 1 .. Len(got)
      <4>1. PICK m \in 1 .. Len(items) : j = Len(got) + m
        BY <1>7, <3>3
      <4>2. m < n
        BY <1>7, <3>1, <4>1
      <4> QED
        BY <1>4, <1>7, <3>1, <4>1, <4>2
    <3> QED
      BY <3>2, <3>3
  <2> QED
    BY <2>1, <2>2
<1>12. owed' \subseteq ToSet(got) \union rows
  <2>1. CASE reader = "first"
    BY <1>1, <2>1 DEF Reading, Older
  <2>2. CASE reader # "first"
    BY <1>1, <2>2 DEF Reading
  <2> QED
    BY <2>1, <2>2
<1>13. CASE HasMore(rows)
  <2>1. got' # <<>> /\ cursor' = got'[Len(got')]
    <3>1. Len(got') >= 1 /\ got'[Len(got')] = items[Len(items)]
      BY <1>4, <1>7, <1>13
    <3> QED
      BY <1>2, <1>13, <3>1 DEF Last
  <2>2. cursor' = Last(items) /\ Last(items) \in Lines /\ cursor' # None
    BY <1>2, <1>3, <1>4, <1>5, <1>13
  <2>3. rows \ ToSet(items) \subseteq Older(Last(items))
    BY <1>3, <1>4, <1>13 DEF Older
  <2>4. /\ owed' \subseteq ToSet(got') \union Older(Last(items))
        /\ Older(Last(items)) # {}
    BY <1>4, <1>8, <1>12, <1>13, <2>3
  <2>5. Older(cursor)' = Older(Last(items))
    BY <1>9, <2>2
  <2>6. owed' \subseteq Lines /\ ToSet(got') \subseteq Lines
    BY <1>1, <1>3, <1>4, <1>8 DEF Reading
  <2> QED
    BY <1>1, <1>7, <1>9, <1>11, <1>13, <2>1, <2>2, <2>4, <2>5, <2>6 DEF Reading
<1>14. CASE ~HasMore(rows)
  <2>1. owed' \subseteq Lines /\ ToSet(got') \subseteq Lines
    BY <1>1, <1>3, <1>4, <1>8 DEF Reading
  <2>2. owed' \subseteq ToSet(got')
    BY <1>4, <1>8, <1>12, <1>14
  <2> QED
    BY <1>1, <1>2, <1>7, <1>9, <1>11, <1>14, <2>1, <2>2 DEF Reading
<1> QED
  BY <1>13, <1>14

(* A step that does not read leaves the reader at least what there was.    *)
LEMMA OtherReading ==
  ASSUME WriteTypeOK, AllDated, Reading, UNCHANGED <<reader, cursor, got, owed>>,
         Lines \subseteq Lines', \A x \in Lines : At(x)' = At(x)
  PROVE  Reading'
<1>1. \A x, y \in Lines : Newer(x, y)' = Newer(x, y)
  BY DEF Newer
<1>2. ASSUME NEW j \in DOMAIN got PROVE got[j] \in Lines
  BY <1>2 DEF Reading, ToSet
<1>3. PagesDescend'
  BY <1>1, <1>2 DEF Reading, PagesDescend
<1>4. reader = "more" => Older(cursor) \subseteq Older(cursor)'
  <2> SUFFICES ASSUME reader = "more" PROVE Older(cursor) \subseteq Older(cursor)'
    OBVIOUS
  <2>1. cursor \in Lines
    BY <1>2 DEF Reading
  <2> QED
    BY <1>1, <2>1 DEF Older
<1> QED
  BY <1>3, <1>4 DEF Reading

-----------------------------------------------------------------------------
(* The board page.                                                         *)

(* What the page shows, and what is on its way to it.                      *)
Showing ==
  /\ told \subseteq Request
  /\ link \in {"off", "board", "feed", "down", "entering", "live"}
  /\ columns \subseteq HeaderType
  /\ feed \in Seq(Past \union Request)
  /\ air \subseteq Event
  /\ news \subseteq ToSet(journal)
  /\ tidy \in BOOLEAN
  /\ air # {} => link = "live"
  /\ \A e \in air : Committed(e.by) /\ e.kind \in {"activity", Kind(e.by)}
  /\ ToSet(feed) \subseteq Lines
  /\ NoLineTwice
  /\ NoColumnTwice

(* The committed requests, and what is told of one.                        *)
LEMMA CommittedSet ==
  ASSUME WriteTypeOK
  PROVE  /\ ToSet(journal) = {r \in Request : Committed(r)}
         /\ Lines = Past \union {r \in Request : Committed(r)}
BY DEF Lines, ToSet, Committed, WriteTypeOK

(* The event a write announces is one, and no activity line.               *)
LEMMA KindTyped ==
  ASSUME WriteTypeOK, Stages, NEW r \in Request, inp[r] # None
  PROVE  [kind |-> Kind(r), by |-> r] \in Event /\ Kind(r) # "activity"
BY InputTyped DEF Kind, Op, Event

(* A header is that of a row; the board has one for each of its lists.     *)
LEMMA BoardTyped ==
  ASSUME WriteTypeOK, \A l \in List : list[l].id = l
  PROVE  /\ Board \subseteq HeaderType
         /\ \A c, d \in Board : c.id = d.id => c = d
         /\ \A c \in Board : c.id \in List \ Foreign /\ c = Header(c.id)
<1>1. \A l \in List : Header(l) \in HeaderType /\ Header(l).id = l
  BY DEF Header, HeaderType, WriteTypeOK, Row
<1> QED
  BY <1>1 DEF Board, OnBoard

(* A committed row gives a header.                                         *)
LEMMA HeaderTyped ==
  ASSUME NEW r \in Request, want[r] \in Row
  PROVE  NewHeader(r) \in HeaderType /\ NewHeader(r).id = want[r].id
BY DEF NewHeader, HeaderType, Row

(* The reducer's list events keep one column per list.                     *)
LEMMA ReduceTyped ==
  ASSUME Showing, NEW e \in air, e.kind # "activity", e.by \in Request, want[e.by] \in Row
  PROVE  /\ ReduceList(e) \subseteq HeaderType
         /\ \A c, d \in ReduceList(e) : c.id = d.id => c = d
<1> DEFINE r == e.by
           h == NewHeader(r)
           moved(c) == IF c.id = want[r].id THEN [c EXCEPT !.pos = want[r].pos] ELSE c
<1>1. h \in HeaderType /\ h.id = want[r].id
  BY HeaderTyped
<1>2. \A c, d \in columns : c.id = d.id => c = d
  BY DEF Showing, NoColumnTwice
<1>3. columns \subseteq HeaderType
  BY DEF Showing
<1>4. \A c \in HeaderType : [c EXCEPT !.pos = want[r].pos] \in HeaderType
                            /\ [c EXCEPT !.pos = want[r].pos].id = c.id
  BY DEF HeaderType, Row
<1>5. \A c \in columns : moved(c) \in HeaderType /\ moved(c).id = c.id
  BY <1>3, <1>4
<1>6. e.kind \in {"list.created", "list.updated", "list.moved", "list.archived"}
  BY DEF Showing, Event
<1>7. CASE e.kind = "list.created"
  <2>1. ReduceList(e) = IF Known(want[r].id) THEN columns ELSE columns \union {h}
    BY <1>7 DEF ReduceList, Created
  <2> HIDE DEF h
  <2> QED
    BY <1>1, <1>2, <1>3, <2>1 DEF Known
<1>8. CASE e.kind = "list.updated"
  <2>1. ReduceList(e) = {IF c.id = want[r].id THEN h ELSE c : c \in columns}
    BY <1>8 DEF ReduceList, Updated
  <2> HIDE DEF h
  <2> QED
    BY <1>1, <1>2, <1>3, <2>1
<1>9. CASE e.kind = "list.moved"
  <2>1. ReduceList(e) = {moved(c) : c \in columns}
    BY <1>9 DEF ReduceList
  <2> HIDE DEF moved
  <2> QED
    BY <1>2, <1>5, <2>1
<1>10. CASE e.kind = "list.archived"
  BY <1>2, <1>3, <1>10 DEF ReduceList
<1> QED
  BY <1>6, <1>7, <1>8, <1>9, <1>10

(* The page's own steps.                                                   *)
LEMMA PageShowing ==
  ASSUME WriteTypeOK, Stages, TableInv, AllDated, Showing,
         RenderBoard \/ RenderFeed \/ JoinRead \/ JoinEnter \/ Drop \/ Deliver
  PROVE  Showing'
<1>1. UNCHANGED <<list, line, journal, inp, want>>
  BY DEF RenderBoard, RenderFeed, JoinRead, JoinEnter, Drop, Deliver, writeVars, tx
<1>2. /\ ToSet(journal)' = ToSet(journal) /\ Lines' = Lines
      /\ (\A r : Committed(r)' = Committed(r)) /\ \A r : Kind(r)' = Kind(r)
  BY <1>1 DEF ToSet, Lines, Committed, Kind
<1>3. CASE RenderBoard \/ JoinRead
  <2>1. /\ columns' = Board /\ news' = ToSet(journal) /\ link' \in {"feed", "entering"}
        /\ link # "live" /\ UNCHANGED <<told, feed, air, tidy>>
    BY <1>3 DEF RenderBoard, JoinRead
  <2>2. Board \subseteq HeaderType /\ \A c, d \in Board : c.id = d.id => c = d
    BY BoardTyped DEF TableInv
  <2>3. NoColumnTwice' /\ NoLineTwice'
    BY <2>1, <2>2 DEF NoColumnTwice, NoLineTwice, Showing
  <2> QED
    BY <1>2, <2>1, <2>2, <2>3 DEF Showing
<1>4. CASE RenderFeed
  <2>1. /\ feed' \in Newest(Lines) /\ link = "feed" /\ link' = "down"
        /\ UNCHANGED <<told, columns, air, news, tidy>>
    BY <1>4 DEF RenderFeed
  <2>2. /\ feed' \in Seq(Lines) /\ ToSet(feed') \subseteq Lines
        /\ \A j, k \in DOMAIN feed' : feed'[j] = feed'[k] => j = k
    BY <2>1, PageOf
  <2>3. feed' \in Seq(Past \union Request)
    BY <2>2, NewerOrder
  <2>4. NoColumnTwice' /\ NoLineTwice'
    BY <2>1, <2>2 DEF NoColumnTwice, NoLineTwice, Showing
  <2> QED
    BY <1>2, <2>1, <2>2, <2>3, <2>4 DEF Showing
<1>5. CASE JoinEnter \/ Drop
  <2>1. /\ UNCHANGED <<told, columns, feed, news>> /\ link' \in {"down", "live"} /\ tidy' \in BOOLEAN
        /\ air' \subseteq air /\ (link' # "live" => air' = {})
    BY <1>5 DEF JoinEnter, Drop, Showing
  <2>2. NoColumnTwice' /\ NoLineTwice'
    BY <2>1 DEF NoColumnTwice, NoLineTwice, Showing
  <2> QED
    BY <1>2, <2>1, <2>2 DEF Showing
<1>6. CASE Deliver
  <2>1. PICK e \in air :
          /\ air' = air \ {e}
          /\ IF e.kind = "activity"
             THEN feed' = Shown(e.by) /\ UNCHANGED <<columns, news, tidy>>
             ELSE /\ columns' = ReduceList(e)
                  /\ news' = news \union {e.by}
                  /\ tidy' = (tidy /\ ~\E q \in news : want[q].id = want[e.by].id
                                                     /\ CommittedBefore(e.by, q))
                  /\ UNCHANGED feed
    BY <1>6 DEF Deliver
  <2>2. UNCHANGED <<told, link>>
    BY <1>6 DEF Deliver
  <2>3. e.by \in Request /\ Committed(e.by) /\ e.by \in ToSet(journal) /\ e.by \in Lines
    BY CommittedSet DEF Showing, Event
  <2>4. CASE e.kind = "activity"
    <3>1. /\ feed' \in Seq(Past \union Request) /\ ToSet(feed') \subseteq Lines
          /\ \A j, k \in DOMAIN feed' : feed'[j] = feed'[k] => j = k
      <4>1. CASE e.by \in ToSet(feed)
        BY <2>1, <2>4, <4>1 DEF Shown, Showing, NoLineTwice
      <4>2. CASE e.by \notin ToSet(feed)
        <5>1. feed' = <<e.by>> \o feed
          BY <2>1, <2>4, <4>2 DEF Shown
        <5>2. /\ <<e.by>> \in Seq(Past \union Request) /\ Len(<<e.by>>) = 1 /\ <<e.by>>[1] = e.by
              /\ feed \in Seq(Past \union Request)
          BY <2>3 DEF Showing
        <5>3. /\ feed' \in Seq(Past \union Request)
              /\ DOMAIN feed = 1 .. Len(feed) /\ DOMAIN feed' = 1 .. 1 + Len(feed)
              /\ feed'[1] = e.by
              /\ \A i \in 1 .. Len(feed) : feed'[1 + i] = feed[i]
              /\ \A i \in 1 .. 1 + Len(feed) : i = 1 \/ \E j \in 1 .. Len(feed) : i = 1 + j
              /\ ToSet(feed') = ToSet(<<e.by>>) \union ToSet(feed)
          <6>1. \A i : i \in 1 .. 1 <=> i = 1
            OBVIOUS
          <6> DEFINE one == <<e.by>>
          <6>2. one \in Seq(Past \union Request) /\ Len(one) = 1 /\ one[1] = e.by /\ feed' = one \o feed
            BY <5>1, <5>2
          <6>3. feed \in Seq(Past \union Request)
            BY <5>2
          <6>4. one \in Seq(Past \union Request)
            BY <6>2
          <6> HIDE DEF one
          <6>5. /\ one \o feed \in Seq(Past \union Request)
                /\ DOMAIN feed = 1 .. Len(feed) /\ DOMAIN (one \o feed) = 1 .. Len(one) + Len(feed)
                /\ \A i \in 1 .. Len(one) : (one \o feed)[i] = one[i]
                /\ \A i \in 1 .. Len(feed) : (one \o feed)[Len(one) + i] = feed[i]
                /\ \A i \in 1 .. Len(one) + Len(feed) :
                     i \in 1 .. Len(one) \/ \E j \in 1 .. Len(feed) : i = Len(one) + j
                /\ ToSet(one \o feed) = ToSet(one) \union ToSet(feed)
            BY <6>3, <6>4, Joined
          <6> QED
            BY <6>1, <6>2, <6>5 DEF one
        <5>4. ToSet(<<e.by>>) = {e.by}
          BY DEF ToSet
        <5>5. \A i \in 1 .. Len(feed) : feed[i] # e.by
          BY <4>2, <5>3 DEF ToSet
        <5>6. \A i, j \in 1 .. Len(feed) : feed[i] = feed[j] => i = j
          BY <5>3 DEF Showing, NoLineTwice
        <5>7. ASSUME NEW j \in DOMAIN feed', NEW k \in DOMAIN feed', feed'[j] = feed'[k] PROVE j = k
          BY <5>3, <5>5, <5>6, <5>7
        <5> QED
          BY <2>3, <5>3, <5>4, <5>7 DEF Showing
      <4> QED
        BY <4>1, <4>2
    <3>2. NoLineTwice' /\ NoColumnTwice'
      BY <2>1, <2>4, <3>1 DEF NoLineTwice, NoColumnTwice, Showing
    <3> QED
      BY <1>2, <2>1, <2>2, <2>4, <3>1, <3>2 DEF Showing
  <2>5. CASE e.kind # "activity"
    <3>1. want[e.by] \in Row
      BY <2>3 DEF AllDated, Dated, WriteTypeOK
    <3>2. columns' \subseteq HeaderType /\ \A c, d \in columns' : c.id = d.id => c = d
      BY <2>1, <2>3, <2>5, <3>1, ReduceTyped
    <3>3. NoLineTwice' /\ NoColumnTwice'
      BY <2>1, <2>5, <3>2 DEF NoLineTwice, NoColumnTwice, Showing
    <3>4. tidy' \in BOOLEAN
      BY <2>1, <2>5
    <3> QED
      BY <1>2, <2>1, <2>2, <2>3, <2>5, <3>2, <3>3, <3>4 DEF Showing
  <2> QED
    BY <2>4, <2>5
<1> QED
  BY <1>3, <1>4, <1>5, <1>6

(* The broadcasts, and the steps that leave the page alone.                *)
LEMMA OtherShowing ==
  ASSUME WriteTypeOK, Stages, TableInv, AllDated, Showing, Lines \subseteq Lines', WriteTypeOK',
         \A r \in Request : Committed(r) => Committed(r)' /\ inp'[r] = inp[r],
         UNCHANGED <<link, columns, feed, news>>, told' \subseteq Request, tidy' \in BOOLEAN,
         air' = air \/ \E r \in Request :
            pc[r] = "tell" /\ \E k \in {"activity", Kind(r)} : air' = Sent([kind |-> k, by |-> r])
  PROVE  Showing'
<1>1. ToSet(journal) \subseteq ToSet(journal')
  <2>1. \A r \in ToSet(journal) : r \in Request /\ Committed(r)'
    BY CommittedSet
  <2> QED
    BY <2>1 DEF Committed, ToSet
<1>2. NoLineTwice' /\ NoColumnTwice'
  BY DEF Showing, NoLineTwice, NoColumnTwice
<1>3. ASSUME NEW e \in air
      PROVE  e \in Event /\ Committed(e.by)' /\ e.kind \in {"activity", Kind(e.by)'}
  <2>1. e.by \in Request /\ Committed(e.by) /\ e.kind \in {"activity", Kind(e.by)} /\ e \in Event
    BY DEF Showing, Event
  <2>2. Kind(e.by)' = Kind(e.by) /\ Committed(e.by)'
    BY <2>1 DEF Kind
  <2> QED
    BY <2>1, <2>2
<1>4. ASSUME NEW e \in air'
      PROVE  e \in Event /\ Committed(e.by)' /\ e.kind \in {"activity", Kind(e.by)'}
  <2>1. CASE e \in air
    BY <1>3, <2>1
  <2>2. CASE e \notin air
    <3>0. PICK r \in Request :
            pc[r] = "tell" /\ \E k \in {"activity", Kind(r)} : e = [kind |-> k, by |-> r]
      BY <1>4, <2>2 DEF Sent
    <3>1. PICK k \in {"activity", Kind(r)} : pc[r] = "tell" /\ e = [kind |-> k, by |-> r]
      BY <3>0
    <3>2. Committed(r) /\ inp[r] # None
      BY <3>1 DEF TableInv, Fine, Journaled, WriteTypeOK
    <3>3. [kind |-> k, by |-> r] \in Event
      BY <3>1, <3>2, KindTyped DEF Event
    <3>4. Kind(r)' = Kind(r) /\ Committed(r)'
      BY <3>2 DEF Kind
    <3> QED
      BY <3>1, <3>3, <3>4
  <2> QED
    BY <2>1, <2>2
<1>5. air' # {} => link = "live"
  BY DEF Sent, Showing
<1> QED
  BY <1>1, <1>2, <1>4, <1>5 DEF Showing

-----------------------------------------------------------------------------
(* The invariant of the feed, and what follows.                            *)

FeedInv == AllDated /\ Reading /\ Showing

(* Every step keeps it, given the table's.                                 *)
LEMMA FeedStep ==
  ASSUME WriteTypeOK, Stages, TableInv, FeedInv, [Next]_vars, WriteTypeOK'
  PROVE  FeedInv'
<1>1. /\ AllDated /\ AllDated' /\ Reading /\ Showing
      /\ Lines \subseteq Lines' /\ \A x \in Lines : At(x)' = At(x)
      /\ \A r \in Request : Committed(r) => Committed(r)' /\ want'[r] = want[r] /\ inp'[r] = inp[r]
  BY LinesKept DEF FeedInv
<1>2. CASE ReadPage
  <2>1. Reading'
    BY <1>1, <1>2, ReadPageReading
  <2>2. UNCHANGED <<told, link, columns, feed, air, news, tidy>>
    BY <1>2 DEF ReadPage, page
  <2>3. Showing'
    BY <1>1, <2>2, OtherShowing DEF Showing
  <2> QED
    BY <1>1, <2>1, <2>3 DEF FeedInv
<1>3. CASE RenderBoard \/ RenderFeed \/ JoinRead \/ JoinEnter \/ Drop \/ Deliver
  <2>1. UNCHANGED <<reader, cursor, got, owed>>
    BY <1>3 DEF RenderBoard, RenderFeed, JoinRead, JoinEnter, Drop, Deliver
  <2> QED
    BY <1>1, <1>3, <2>1, OtherReading, PageShowing DEF FeedInv
<1>4. ASSUME UNCHANGED watchers, told' \subseteq Request, tidy' \in BOOLEAN,
             air' = air \/ \E r \in Request :
               pc[r] = "tell" /\ \E k \in {"activity", Kind(r)} : air' = Sent([kind |-> k, by |-> r])
      PROVE  FeedInv'
  <2>1. UNCHANGED <<reader, cursor, got, owed, link, columns, feed, news>>
    BY <1>4 DEF watchers
  <2> QED
    BY <1>1, <1>4, <2>1, OtherReading, OtherShowing DEF FeedInv
<1>5. told \subseteq Request /\ tidy \in BOOLEAN
  BY <1>1 DEF Showing
<1>6. ASSUME NEW r \in Request, TellLine(r) PROVE FeedInv'
  <2>1. /\ pc[r] = "tell" /\ told' \subseteq Request /\ UNCHANGED <<watchers, tidy>>
        /\ air' = air \/ air' = Sent([kind |-> "activity", by |-> r])
    BY <1>5, <1>6 DEF TellLine, MayTell
  <2> QED
    BY <1>4, <1>5, <2>1
<1>7. ASSUME NEW r \in Request, TellList(r) PROVE FeedInv'
  <2>1. /\ pc[r] = "tell" /\ UNCHANGED <<told, watchers>> /\ tidy' \in BOOLEAN
        /\ air' = air \/ air' = Sent([kind |-> Kind(r), by |-> r])
    BY <1>5, <1>7 DEF TellList
  <2> QED
    BY <1>4, <1>5, <2>1
<1>8. CASE UNCHANGED <<told, watchers, air, tidy>>
  BY <1>4, <1>5, <1>8
<1> QED
  BY <1>2, <1>3, <1>6, <1>7, <1>8 DEF Next, Write, vars, watchers

(* The feed as it starts.                                                  *)
LEMMA FeedInit ==
  ASSUME Init, WriteTypeOK
  PROVE  FeedInv
<1>1. \A r : ~Committed(r)
  BY DEF Init, WriteInit, StoreInit, Committed
<1>2. AllDated
  BY <1>1 DEF Init, WriteInit, StoreInit, AllDated, Dated
<1>3. ToSet(<<>>) = {} /\ <<>> \in Seq(Past \union Request)
  BY DEF ToSet
<1>4. Reading
  BY <1>3 DEF Init, Reading, PagesDescend
<1>5. Showing
  BY <1>3 DEF Init, Showing, NoLineTwice, NoColumnTwice
<1> QED
  BY <1>2, <1>4, <1>5 DEF FeedInv

(* Every variable keeps its type, and FeedInv holds, whatever the writers, *)
(* the broadcasts, the reader and the page do, and in which order.         *)
THEOREM FeedInvariant == Spec => [](TypeOK /\ FeedInv)
<1>1. Init /\ WriteTypeOK => FeedInv
  BY FeedInit
<1>2. WriteTypeOK /\ Stages /\ TableInv /\ FeedInv /\ [Next]_vars /\ WriteTypeOK' => FeedInv'
  BY FeedStep
<1>3. WriteTypeOK /\ TableInv /\ FeedInv => TypeOK
  <2> SUFFICES ASSUME WriteTypeOK, TableInv, AllDated, Reading, Showing PROVE TypeOK
    BY DEF FeedInv
  <2>1. Lines \subseteq Past \union Request /\ ToSet(journal) \subseteq Request
    BY NewerOrder, CommittedSet
  <2>2. cursor \in Past \union Request \union {None}
    <3>1. reader = "more" => Len(got) \in DOMAIN got
      BY DEF Reading
    <3> QED
      BY <3>1 DEF Reading
  <2>3. \A e \in air : pc[e.by] \in {"tell", "done"}
    BY DEF Showing, Event, TableInv, Fine, Journaled
  <2>4. owed \subseteq Past \union Request /\ news \subseteq Request
    BY <2>1 DEF Reading, Showing
  <2> QED
    BY <2>2, <2>3, <2>4 DEF Reading, Showing, TypeOK
<1> QED
  BY <1>1, <1>2, <1>3, TableInvariant, PTL DEF Spec

(* Every variable keeps its type, the order of the feed's lines, the rows  *)
(* of the lists and what a page and a reader hold included.                *)
THEOREM FeedTypes == Spec => []TypeOK
BY FeedInvariant, PTL

(* BoardsService.activity, read page by page: whatever commits between two *)
(* pages, and with whatever time, the pages go strictly from newer lines   *)
(* to older ones and never repeat one,                                     *)
THEOREM PagesGoBack == Spec => []PagesDescend
<1>1. FeedInv => PagesDescend
  BY DEF FeedInv, Reading
<1> QED
  BY <1>1, FeedInvariant, PTL

(* who reads to the end has all that had committed when they began,        *)
THEOREM NothingSkipped == Spec => []PagesSkipNothing
<1>1. FeedInv => PagesSkipNothing
  BY DEF FeedInv, Reading, PagesSkipNothing
<1> QED
  BY <1>1, FeedInvariant, PTL

(* and a cursor leads to a page that is not empty.                         *)
THEOREM CursorIsUseful == Spec => []CursorLeadsSomewhere
<1>1. FeedInv => CursorLeadsSomewhere
  BY DEF FeedInv, Reading, CursorLeadsSomewhere
<1> QED
  BY <1>1, FeedInvariant, PTL

(* The commit hook: no page is ever told of a write that is rolled back,   *)
THEOREM OnlyCommittedIsShown == Spec => []ShownIsCommitted
<1>1. WriteTypeOK /\ FeedInv => ShownIsCommitted
  BY CommittedSet DEF FeedInv, Showing, ShownIsCommitted, Event
<1> QED
  BY <1>1, FeedInvariant, TableInvariant, PTL

(* onActivity and the reducer: a line is never shown twice, be it rendered,*)
(* broadcast or both, and neither is a column, whatever the order of the   *)
(* list events.                                                            *)
THEOREM NothingShownTwice == Spec => []NothingTwice
<1>1. FeedInv => NothingTwice
  BY DEF FeedInv, Showing, NothingTwice
<1> QED
  BY <1>1, FeedInvariant, PTL

-----------------------------------------------------------------------------
(* Convergence of the columns. First, what the journal says of a list.     *)

(* The committed writes of l; those that came before r's; and the row l is *)
(* after the last of some.                                                 *)
On(l) == {r \in Request : Committed(r) /\ want[r].id = l}

Before(r) == {q \in Request : CommittedBefore(q, r) /\ want[q].id = want[r].id}

Original(l) ==
  [id |-> l, state |-> Start[l].state, pos |-> Start[l].pos, name |-> None, wip |-> None]

RowAfter(l, S) == IF LastOf(S) = None THEN Original(l) ELSE want[LastOf(S)]

(* What r has written, given the row before: its op's columns only, so far *)
(* as its event relies on the others.                                      *)
Follows(r, row) ==
  /\ inp[r].op = "create" => want[r].state = "live" /\ (row.state = "live" => row = want[r])
  /\ inp[r].op = "update" => want[r].state = row.state
  /\ inp[r].op = "move" => want[r].state = row.state /\ want[r].name = row.name /\ want[r].wip = row.wip
  /\ inp[r].op = "archive" => want[r].state = "archived"

History ==
  /\ \A j, k \in DOMAIN journal : journal[j] = journal[k] => j = k
  /\ \A l \in List \ Foreign : list[l] = RowAfter(l, On(l))
  /\ \A r \in Request : Committed(r) =>
       want[r].id \in List \ Foreign /\ Follows(r, RowAfter(want[r].id, Before(r)))

(* The last of a set of requests is one of them, and has committed.        *)
LEMMA LastIsOne ==
  ASSUME Ordered
  PROVE  \A S \in SUBSET Request : LastOf(S) # None => LastOf(S) \in S /\ Committed(LastOf(S))
<1> SUFFICES ASSUME NEW S \in SUBSET Request, LastOf(S) # None
             PROVE  LastOf(S) \in S /\ Committed(LastOf(S))
  OBVIOUS
<1>1. Turns(S) # {} => \E k \in Turns(S) : \A j \in Turns(S) : j <= k
  BY DEF Ordered
<1>2. \E k \in Turns(S) : LastOf(S) = journal[k]
  BY <1>1 DEF LastOf, Turns
<1> QED
  BY <1>2 DEF Turns, Committed

(* A committed request of S that none of S comes after is the last of S.   *)
LEMMA LastIsLatest ==
  ASSUME WriteTypeOK, Ordered, NEW S \in SUBSET Request, NEW r \in S, Committed(r),
         \A q \in S : ~CommittedBefore(r, q)
  PROVE  LastOf(S) = r
<1> DEFINE Latest(T) == CHOOSE k \in T : \A j \in T : j <= k
<1>1. PICK n \in DOMAIN journal : journal[n] = r
  BY DEF Committed
<1>2. n \in Turns(S)
  BY <1>1 DEF Turns
<1>3. \E k \in Turns(S) : \A j \in Turns(S) : j <= k
  BY <1>2 DEF Ordered
<1>4. Latest(Turns(S)) \in Turns(S) /\ \A j \in Turns(S) : j <= Latest(Turns(S))
  BY <1>3
<1>5. LastOf(S) = journal[Latest(Turns(S))]
  BY <1>2 DEF LastOf, Turns
<1> HIDE DEF Latest
<1>6. PICK m : m = Latest(Turns(S))
  OBVIOUS
<1>7. m \in DOMAIN journal /\ journal[m] \in S /\ n <= m /\ n \in Nat /\ m \in Nat
  BY <1>1, <1>2, <1>4, <1>6 DEF Turns, WriteTypeOK
<1>8. n = m
  BY <1>1, <1>7 DEF CommittedBefore
<1> QED
  BY <1>1, <1>5, <1>6, <1>8

(* Of two that have committed, one came before.                            *)
LEMMA OneCameFirst ==
  ASSUME WriteTypeOK, NEW r, NEW q, Committed(r), Committed(q), r # q
  PROVE  CommittedBefore(r, q) \/ CommittedBefore(q, r)
<1>1. PICK j \in DOMAIN journal, k \in DOMAIN journal : journal[j] = r /\ journal[k] = q
  BY DEF Committed
<1>2. j \in Nat /\ k \in Nat /\ j # k
  BY <1>1 DEF WriteTypeOK
<1> QED
  BY <1>1, <1>2 DEF CommittedBefore

(* A step that commits nothing rewrites no history.                        *)
LEMMA HistoryKept ==
  ASSUME WriteTypeOK, Ordered, UNCHANGED <<list, journal>>,
         \A r \in Request : Committed(r) => want'[r] = want[r] /\ inp'[r] = inp[r]
  PROVE  /\ \A l : On(l)' = On(l)
         /\ \A l : \A S \in SUBSET Request : RowAfter(l, S)' = RowAfter(l, S)
         /\ \A r, q : CommittedBefore(r, q)' = CommittedBefore(r, q)
         /\ History => History'
<1>1. /\ \A r : Committed(r)' = Committed(r)
      /\ \A r, q : CommittedBefore(r, q)' = CommittedBefore(r, q)
      /\ \A r, q : CommittedBefore(r, q) => Committed(r) /\ Committed(q)
  BY DEF Committed, CommittedBefore
<1>2. \A l : On(l)' = On(l)
  BY <1>1 DEF On
<1>3. \A S : LastOf(S)' = LastOf(S)
  BY DEF LastOf
<1>4. ASSUME NEW l, NEW S \in SUBSET Request PROVE RowAfter(l, S)' = RowAfter(l, S)
  <2>1. LastOf(S) # None => want'[LastOf(S)] = want[LastOf(S)]
    BY LastIsOne
  <2> QED
    BY <1>3, <2>1 DEF RowAfter, Original
<1>5. ASSUME NEW r \in Request, Committed(r), History
      PROVE  want'[r].id \in List \ Foreign /\ Follows(r, RowAfter(want[r].id, Before(r)))'
  <2>1. want'[r] = want[r] /\ inp'[r] = inp[r]
    BY <1>5
  <2>2. Before(r)' = Before(r) /\ Before(r) \in SUBSET Request
    BY <1>1, <2>1 DEF Before
  <2>3. RowAfter(want[r].id, Before(r))' = RowAfter(want[r].id, Before(r))
    BY <1>4, <2>1, <2>2
  <2>4. \A row : Follows(r, row)' <=> Follows(r, row)
    BY <2>1 DEF Follows
  <2> QED
    BY <1>5, <2>1, <2>3, <2>4 DEF History
<1>6. ASSUME NEW l \in List \ Foreign, History PROVE list'[l] = RowAfter(l, On(l))'
  <2>1. On(l) \in SUBSET Request
    BY DEF On
  <2>2. RowAfter(l, On(l))' = RowAfter(l, On(l))
    BY <1>2, <1>4, <2>1
  <2> QED
    BY <1>6, <2>2 DEF History
<1>7. History => History'
  BY <1>1, <1>5, <1>6 DEF History
<1> QED
  BY <1>1, <1>2, <1>4, <1>7

(* A commit adds one page to it: the row as it was, and then r's.          *)
LEMMA HistoryCommit ==
  ASSUME WriteTypeOK, Stages, TableInv, History, NEW r \in Request, Commit(r)
  PROVE  /\ History'
         /\ \A l : On(l)' = IF l = want[r].id THEN On(l) \union {r} ELSE On(l)
         /\ \A l : \A S \in SUBSET Request : r \notin S => RowAfter(l, S)' = RowAfter(l, S)
         /\ \A q, s : CommittedBefore(q, s) => CommittedBefore(q, s)'
<1>1. /\ pc[r] = "commit" /\ list' = [list EXCEPT ![want[r].id] = want[r]]
      /\ journal' = Append(journal, r) /\ UNCHANGED <<inp, want>>
  BY DEF Commit
<1>2. /\ want[r] \in Row /\ want[r].id \in List /\ inp[r] # None /\ inp[r].op \in Op
      /\ Fine(r) /\ ~Committed(r)
  <2>1. want[r] \in Row /\ inp[r] # None
    BY <1>1 DEF WriteTypeOK
  <2>2. want[r].id \in List /\ inp[r].op \in Op
    BY <2>1, InputTyped DEF Row
  <2> QED
    BY <1>1, <2>1, <2>2, InTxUncommitted DEF InTx, TableInv
<1>3. /\ journal \in Seq(Request) /\ Ordered
      /\ DOMAIN journal' = 1 .. Len(journal) + 1
      /\ DOMAIN journal = 1 .. Len(journal) /\ Len(journal) \in Nat
      /\ journal'[Len(journal) + 1] = r
      /\ \A j \in DOMAIN journal : journal[j] \in Request /\ journal'[j] = journal[j] /\ journal[j] # r
      /\ \A q : Committed(q)' <=> Committed(q) \/ q = r
  BY <1>1, <1>2, JournalGrows DEF WriteTypeOK, TableInv, Committed
<1>4. \A S \in SUBSET Request : LastOf(S)' = IF r \in S THEN r ELSE LastOf(S)
  BY <1>1, <1>3, LastGrows
<1>5. \A l : On(l)' = IF l = want[r].id THEN On(l) \union {r} ELSE On(l)
  BY <1>1, <1>3 DEF On
<1>6. \A l : \A S \in SUBSET Request : r \notin S => RowAfter(l, S)' = RowAfter(l, S)
  BY <1>1, <1>4 DEF RowAfter, Original
<1>7. \A q, s : CommittedBefore(q, s)' <=> CommittedBefore(q, s) \/ (s = r /\ Committed(q))
  BY <1>3 DEF CommittedBefore, Committed
<1>8. \A q \in Request : Before(q)' = IF q = r THEN On(want[r].id) ELSE Before(q)
  <2>1. \A q : ~CommittedBefore(q, r)
    BY <1>3 DEF CommittedBefore
  <2> QED
    BY <1>1, <1>7, <2>1 DEF Before, On
<1>9. \A q \in Request : On(want[q].id) \in SUBSET Request /\ r \notin On(want[q].id)
                         /\ Before(q) \in SUBSET Request /\ r \notin Before(q)
  BY <1>3 DEF On, Before, CommittedBefore, Committed
<1>10. \A j, k \in DOMAIN journal' : journal'[j] = journal'[k] => j = k
  <2>1. \A j \in DOMAIN journal' : j \in DOMAIN journal \/ j = Len(journal) + 1
    BY <1>3
  <2> QED
    BY <1>3, <2>1 DEF History
<1>11. ASSUME NEW l \in List \ Foreign PROVE list'[l] = RowAfter(l, On(l))'
  <2>1. CASE l = want[r].id
    <3>1. On(l) \union {r} \in SUBSET Request
      BY DEF On
    <3>2. \A S \in SUBSET Request : r \in S => RowAfter(l, S)' = want[r]
      <4>1. r # None
        BY NoneAssumption
      <4> QED
        BY <1>1, <1>4, <4>1 DEF RowAfter
    <3>3. RowAfter(l, On(l))' = want[r]
      BY <1>5, <2>1, <3>1, <3>2
    <3> QED
      BY <1>1, <2>1, <3>3 DEF WriteTypeOK
  <2>2. CASE l # want[r].id
    <3>1. On(l) \in SUBSET Request /\ r \notin On(l) /\ On(l)' = On(l)
      BY <1>2, <1>5, <2>2 DEF On
    <3>2. RowAfter(l, On(l))' = RowAfter(l, On(l))
      BY <1>6, <3>1
    <3> QED
      BY <1>1, <2>2, <3>2 DEF History, WriteTypeOK
  <2> QED
    BY <2>1, <2>2
<1>12. want[r].id \in List \ Foreign /\ Follows(r, list[want[r].id])
  <2>1. want[r].id \in List \ Foreign
    BY <1>1, <1>2 DEF Fine, Holds
  <2>2. inp[r].op = "create" => want[r].state = "live" /\ list[want[r].id].state = "absent"
    BY <1>1, <1>2 DEF Fine, Holds, Unborn
  <2> QED
    BY <1>1, <1>2, <2>1, <2>2 DEF Fine, Holds, Follows
<1>13. ASSUME NEW q \in Request, Committed(q)'
       PROVE  want'[q].id \in List \ Foreign /\ Follows(q, RowAfter(want[q].id, Before(q)))'
  <2>1. \A row : Follows(q, row)' <=> Follows(q, row)
    BY <1>1 DEF Follows
  <2>2. CASE q = r
    <3>1. RowAfter(want[r].id, Before(r))' = RowAfter(want[r].id, On(want[r].id))
      BY <1>1, <1>6, <1>8, <1>9
    <3> QED
      BY <1>1, <1>12, <2>1, <2>2, <3>1 DEF History
  <2>3. CASE q # r
    <3>1. RowAfter(want[q].id, Before(q))' = RowAfter(want[q].id, Before(q))
      BY <1>1, <1>6, <1>8, <1>9, <2>3
    <3> QED
      BY <1>1, <1>3, <1>13, <2>1, <2>3, <3>1 DEF History
  <2> QED
    BY <2>2, <2>3
<1>14. History'
  BY <1>10, <1>11, <1>13 DEF History
<1> QED
  BY <1>5, <1>6, <1>7, <1>14

(* The columns as a row shows itself, and as the page shows them.          *)
HeadOf(row) == [id |-> row.id, pos |-> row.pos, name |-> row.name, wip |-> row.wip]

ColumnOf(row) == IF row.state = "live" THEN {HeadOf(row)} ELSE {}

ShownOf(cs, l) == {c \in cs : c.id = l}

(* A list event leaves the columns of the other lists alone,               *)
LEMMA ReduceOthers ==
  ASSUME columns \subseteq HeaderType, NEW e, NEW r \in Request, e.by = r, e.kind = Kind(r),
         inp[r].op \in Op
  PROVE  /\ \A m : m # want[r].id => ShownOf(ReduceList(e), m) = ShownOf(columns, m)
         /\ \A c \in ReduceList(e) : c.id = want[r].id \/ c \in columns
<1> DEFINE h == NewHeader(r)
           moved(c) == [c EXCEPT !.pos = want[r].pos]
<1>1. h.id = want[r].id
  BY DEF NewHeader
<1>2. \A c \in columns : moved(c).id = c.id
  BY DEF HeaderType
<1>3. \/ ReduceList(e) \in {columns, columns \union {h}, {c \in columns : c.id # want[r].id}}
      \/ ReduceList(e) = {IF c.id = want[r].id THEN h ELSE c : c \in columns}
      \/ ReduceList(e) = {IF c.id = want[r].id THEN moved(c) ELSE c : c \in columns}
  BY DEF ReduceList, Created, Updated, Kind, Op
<1> HIDE DEF h, moved
<1> QED
  BY <1>1, <1>2, <1>3 DEF ShownOf

(* .. and if it follows what is shown of its own, brings that column       *)
(* to what its request has written.                                        *)
LEMMA ReduceFollows ==
  ASSUME columns \subseteq HeaderType, NEW e, NEW r \in Request, e.by = r, e.kind = Kind(r),
         inp[r].op \in Op, want[r] \in Row, NEW row \in Row, row.id = want[r].id,
         Follows(r, row), ShownOf(columns, row.id) = ColumnOf(row)
  PROVE  ShownOf(ReduceList(e), row.id) = ColumnOf(want[r])
<1> DEFINE l == row.id
           h == NewHeader(r)
           moved(c) == [c EXCEPT !.pos = want[r].pos]
<1>1. h.id = l /\ HeadOf(want[r]) = h /\ HeadOf(row).id = l
  BY DEF NewHeader, HeadOf
<1>2. \A c \in columns : moved(c).id = c.id
  BY DEF HeaderType
<1>3. moved(HeadOf(row)) = [id |-> row.id, pos |-> want[r].pos, name |-> row.name, wip |-> row.wip]
  BY DEF HeadOf
<1>4. \A c \in columns : c.id = l => row.state = "live" /\ c = HeadOf(row)
  BY DEF ShownOf, ColumnOf
<1>5. row.state = "live" => HeadOf(row) \in columns
  BY DEF ShownOf, ColumnOf
<1>6. want[r].state = "live" => ColumnOf(want[r]) = {h}
  BY <1>1 DEF ColumnOf
<1>7. want[r].state # "live" => ColumnOf(want[r]) = {}
  BY DEF ColumnOf
<1>8. CASE inp[r].op = "create"
  <2>1. ReduceList(e) = IF Known(l) THEN columns ELSE columns \union {h}
    BY <1>8 DEF ReduceList, Created, Kind
  <2>2. want[r].state = "live" /\ (row.state = "live" => HeadOf(row) = h)
    BY <1>1, <1>8 DEF Follows
  <2>3. Known(l) <=> row.state = "live"
    BY <1>1, <1>4, <1>5 DEF Known
  <2> HIDE DEF h, l
  <2> QED
    BY <1>1, <1>4, <1>5, <1>6, <2>1, <2>2, <2>3 DEF ShownOf, l
<1>9. CASE inp[r].op = "update"
  <2>1. ReduceList(e) = {IF c.id = l THEN h ELSE c : c \in columns}
    BY <1>9 DEF ReduceList, Updated, Kind
  <2>2. want[r].state = row.state
    BY <1>9 DEF Follows
  <2> HIDE DEF h, l
  <2> QED
    BY <1>1, <1>4, <1>5, <1>6, <1>7, <2>1, <2>2 DEF ShownOf, l
<1>10. CASE inp[r].op = "move"
  <2>1. ReduceList(e) = {IF c.id = l THEN moved(c) ELSE c : c \in columns}
    BY <1>10 DEF ReduceList, Kind
  <2>2. want[r].state = row.state /\ moved(HeadOf(row)) = h
    BY <1>3, <1>10 DEF Follows, NewHeader
  <2> HIDE DEF h, l, moved
  <2>3. \A c \in columns : c.id = l => row.state = "live" /\ moved(c) = h
    BY <1>4, <2>2
  <2>4. row.state = "live" => h \in ReduceList(e)
    BY <1>1, <1>5, <2>1, <2>3 DEF l
  <2> QED
    BY <1>1, <1>6, <1>7, <2>1, <2>2, <2>3, <2>4 DEF ShownOf, l
<1>11. CASE inp[r].op = "archive"
  <2>1. ReduceList(e) = {c \in columns : c.id # l} /\ want[r].state # "live"
    BY <1>11 DEF ReduceList, Kind, Follows
  <2> QED
    BY <1>7, <2>1 DEF ShownOf
<1> QED
  BY <1>8, <1>9, <1>10, <1>11 DEF Op

(* What the page has heard of l is a beginning of what has been written.   *)
Heard(l) == On(l) \intersect news

Whole(l) == \A q \in Heard(l) : \A s \in On(l) \ news : ~CommittedBefore(s, q)

(* Every column that the page could know of shows the row after what it    *)
(* has heard, and what it has not heard is on its way.                     *)
InStep ==
  link \in {"entering", "live"} /\ tidy =>
    \A l \in List \ Foreign : Whole(l) => ShownOf(columns, l) = ColumnOf(RowAfter(l, Heard(l)))

ToBeTold ==
  link = "live" /\ tidy =>
    \A r \in Request : Committed(r) =>
      r \in news \/ pc[r] = "tell" \/ [kind |-> Kind(r), by |-> r] \in air

Converging ==
  /\ History
  /\ \A c \in columns : c.id \in List \ Foreign
  /\ InStep
  /\ ToBeTold

(* A list event is heard.                                                  *)
LEMMA HearsConverging ==
  ASSUME WriteTypeOK, Stages, TableInv, FeedInv, Converging, NEW e \in air, e.kind # "activity",
         columns' = ReduceList(e), news' = news \union {e.by}, air' = air \ {e},
         tidy' = (tidy /\ ~\E q \in news : want[q].id = want[e.by].id /\ CommittedBefore(e.by, q)),
         UNCHANGED <<writeVars, link>>
  PROVE  Converging'
<1> DEFINE r == e.by
<1>1. /\ UNCHANGED <<list, journal, inp, want, pc>> /\ Ordered
      /\ columns \subseteq HeaderType /\ link = "live"
  BY DEF writeVars, TableInv, FeedInv, Showing
<1>2. /\ r \in Request /\ Committed(r) /\ e.kind = Kind(r) /\ want[r] \in Row /\ inp[r].op \in Op
      /\ want[r].id \in List \ Foreign
  <2>1. r \in Request /\ Committed(r) /\ e.kind = Kind(r)
    BY DEF FeedInv, Showing, Event
  <2>2. want[r] \in Row /\ inp[r] # None
    <3>1. want[r] # None
      BY <2>1 DEF FeedInv, AllDated, Dated
    <3>2. pc[r] # "idle"
      BY <2>1 DEF TableInv, Fine, Journaled
    <3> QED
      BY <2>1, <3>1, <3>2 DEF WriteTypeOK
  <2> QED
    BY <2>1, <2>2, InputTyped DEF Converging, History
<1>0. PICK l \in List \ Foreign : want[r].id = l
  BY <1>2
<1>3. /\ \A m : On(m)' = On(m)
      /\ \A m : \A S \in SUBSET Request : RowAfter(m, S)' = RowAfter(m, S)
      /\ \A s, q : CommittedBefore(s, q)' = CommittedBefore(s, q)
      /\ History'
  BY <1>1, HistoryKept DEF Converging
<1>4. \A m : Heard(m)' = IF m = l THEN Heard(m) \union {r} ELSE Heard(m)
  BY <1>2, <1>0, <1>3 DEF Heard, On
<1>5. \A m : On(m) \in SUBSET Request /\ Heard(m) \in SUBSET Request
  BY DEF On, Heard
<1>6. columns' = ReduceList(e)
  OBVIOUS
<1> HIDE DEF r
<1>7. ASSUME NEW m \in List \ Foreign, m # l
      PROVE  Heard(m)' = Heard(m) /\ Whole(m)' = Whole(m) /\ RowAfter(m, Heard(m))' = RowAfter(m, Heard(m))
  <2>1. Heard(m)' = Heard(m)
    BY <1>4, <1>7
  <2>2. (On(m) \ news)' = On(m) \ news
    BY <1>2, <1>0, <1>3, <1>7 DEF On, r
  <2>3. RowAfter(m, Heard(m))' = RowAfter(m, Heard(m))
    BY <1>3, <1>5, <2>1
  <2> QED
    BY <1>3, <2>1, <2>2, <2>3 DEF Whole
<1>8. ASSUME tidy', Whole(l)'
      PROVE  \E row \in Row : /\ row.id = l /\ Follows(r, row)
                              /\ ShownOf(columns, l) = ColumnOf(row)
                              /\ RowAfter(l, Heard(l))' = want[r]
  <2>1. tidy /\ \A q \in Heard(l) : ~CommittedBefore(r, q)
    BY <1>2, <1>0, <1>8 DEF Heard, On, r
  <2>2. ~CommittedBefore(r, r)
    BY DEF Converging, History, CommittedBefore, WriteTypeOK
  <2>3. Whole(l)
    BY <1>3, <1>4, <1>8, <2>1 DEF Whole, r
  <2>4. ShownOf(columns, l) = ColumnOf(RowAfter(l, Heard(l)))
    BY <1>1, <1>2, <1>0, <2>1, <2>3 DEF Converging, InStep
  <2>5. \A T \in SUBSET Request : T = Heard(l) \union {r} => LastOf(T) = r
    <3> SUFFICES ASSUME NEW T \in SUBSET Request, T = Heard(l) \union {r} PROVE LastOf(T) = r
      OBVIOUS
    <3>1. r \in T /\ \A q \in T : ~CommittedBefore(r, q)
      BY <2>1, <2>2
    <3> QED
      BY <1>1, <1>2, <1>0, <3>1, LastIsLatest
  <2>6. Heard(l)' \in SUBSET Request /\ Heard(l)' = Heard(l) \union {r}
    BY <1>2, <1>0, <1>4, <1>5
  <2>7. RowAfter(l, Heard(l))' = want[r]
    <3>1. \A T \in SUBSET Request : T = Heard(l) \union {r} => RowAfter(l, T) = want[r]
      BY <1>2, <1>0, <2>5, NoneAssumption DEF RowAfter
    <3> QED
      BY <1>3, <2>6, <3>1
  <2>8. CASE r \in news
    <3>1. Heard(l) = Heard(l) \union {r}
      BY <1>2, <1>0, <2>8 DEF Heard, On
    <3>2. RowAfter(l, Heard(l)) = want[r]
      BY <1>2, <1>0, <1>5, <2>5, <3>1, NoneAssumption DEF RowAfter
    <3>3. Follows(r, want[r])
      BY <1>2, <1>0 DEF Converging, History, Follows
    <3> QED
      BY <1>2, <1>0, <2>4, <2>7, <3>2, <3>3
  <2>9. CASE r \notin news
    <3>1. Heard(l) = Before(r)
      <4>1. ASSUME NEW q \in Heard(l) PROVE q \in Before(r)
        <5>1. q \in Request /\ Committed(q) /\ want[q].id = l /\ q # r
          BY <2>9, <4>1 DEF Heard, On
        <5> QED
          BY <1>2, <1>0, <2>1, <4>1, <5>1, OneCameFirst DEF Before
      <4>2. ASSUME NEW q \in Before(r) PROVE q \in Heard(l)
        <5>1. q \in Request /\ CommittedBefore(q, r) /\ q \in On(l)
          BY <1>2, <1>0, <4>2 DEF Before, On, CommittedBefore, Committed
        <5>2. q # r
          BY <2>2, <5>1
        <5>3. q \in news'
          BY <1>3, <1>4, <1>8, <5>1, <5>2 DEF Whole
        <5> QED
          BY <5>1, <5>2, <5>3 DEF Heard, r
      <4> QED
        BY <4>1, <4>2
    <3>2. Follows(r, RowAfter(l, Heard(l)))
      BY <1>2, <1>0, <3>1 DEF Converging, History
    <3>3. RowAfter(l, Heard(l)) \in Row /\ RowAfter(l, Heard(l)).id = l
      <4>1. Original(l) \in Row /\ Original(l).id = l
        BY <1>2, <1>0, StartAssumption DEF Original, Row, StartAssumption
      <4>2. LastOf(Heard(l)) # None => LastOf(Heard(l)) \in Heard(l)
        BY <1>1, <1>5, LastIsOne
      <4>3. \A q \in Heard(l) : want[q] \in Row /\ want[q].id = l
        BY DEF Heard, On, FeedInv, AllDated, Dated, WriteTypeOK
      <4> QED
        BY <4>1, <4>2, <4>3 DEF RowAfter
    <3> QED
      BY <2>4, <2>7, <3>2, <3>3
  <2> QED
    BY <2>8, <2>9
<1>9. ASSUME tidy' PROVE InStep'
  <2>1. ASSUME NEW m \in List \ Foreign, Whole(m)'
        PROVE  ShownOf(columns', m) = ColumnOf(RowAfter(m, Heard(m))')
    <3>1. CASE m = l
      <4>1. PICK row \in Row : /\ row.id = l /\ Follows(r, row)
                               /\ ShownOf(columns, l) = ColumnOf(row)
                               /\ RowAfter(l, Heard(l))' = want[r]
        BY <1>8, <1>9, <2>1, <3>1
      <4>2. ShownOf(ReduceList(e), row.id) = ColumnOf(want[r])
        BY <1>1, <1>2, <1>0, <4>1, ReduceFollows DEF r
      <4> QED
        BY <1>6, <3>1, <4>1, <4>2
    <3>2. CASE m # l
      <4>1. ShownOf(ReduceList(e), m) = ShownOf(columns, m)
        BY <1>1, <1>2, <1>0, <3>2, ReduceOthers DEF r
      <4> QED
        BY <1>1, <1>6, <1>7, <1>9, <2>1, <3>2, <4>1 DEF Converging, InStep
    <3> QED
      BY <3>1, <3>2
  <2> QED
    BY <2>1 DEF InStep, ShownOf, ColumnOf
<1>10. \A c \in columns' : c.id \in List \ Foreign
  <2>1. \A c \in columns : c.id \in List \ Foreign
    BY DEF Converging
  <2>2. \A c \in ReduceList(e) : c.id = l \/ c \in columns
    BY <1>1, <1>2, <1>0, ReduceOthers DEF r
  <2> QED
    BY <1>0, <1>6, <2>1, <2>2
<1>11. ToBeTold'
  <2>1. \A q : Committed(q)' = Committed(q) /\ Kind(q)' = Kind(q) /\ pc'[q] = pc[q]
    BY <1>1 DEF Committed, Kind
  <2>2. ASSUME NEW q \in Request, [kind |-> Kind(q), by |-> q] \in air
        PROVE  q \in news' \/ [kind |-> Kind(q), by |-> q] \in air'
    BY <2>2
  <2> QED
    BY <2>1, <2>2 DEF Converging, ToBeTold
<1> QED
  BY <1>3, <1>9, <1>10, <1>11 DEF Converging, InStep

(* A board taken from the database is in step with it.                     *)
LEMMA BoardInStep ==
  ASSUME WriteTypeOK, TableInv, History
  PROVE  /\ \A c \in Board : c.id \in List \ Foreign
         /\ \A l \in List \ Foreign : ShownOf(Board, l) = ColumnOf(RowAfter(l, On(l)))
<1>1. \A l \in List : list[l].id = l /\ Header(l) = HeadOf(list[l]) /\ Header(l).id = l
  BY DEF TableInv, Header, HeadOf
<1>2. Board = {Header(m) : m \in {n \in List \ Foreign : list[n].state = "live"}}
  BY DEF Board, OnBoard
<1>3. ASSUME NEW l \in List \ Foreign PROVE ShownOf(Board, l) = ColumnOf(list[l])
  <2>1. ShownOf(Board, l) = {c \in {Header(m) : m \in {n \in List \ Foreign : list[n].state = "live"}} : c.id = l}
    BY <1>2 DEF ShownOf
  <2>2. \A m \in List \ Foreign : Header(m).id = l <=> m = l
    BY <1>1
  <2>3. ColumnOf(list[l]) = IF list[l].state = "live" THEN {Header(l)} ELSE {}
    BY <1>1 DEF ColumnOf
  <2> QED
    BY <2>1, <2>2, <2>3
<1>4. \A c \in Board : c.id \in List \ Foreign
  BY <1>1, <1>2
<1>5. \A l \in List \ Foreign : list[l] = RowAfter(l, On(l))
  BY DEF History
<1> QED
  BY <1>3, <1>4, <1>5

(* A step that neither commits nor delivers keeps the page in step, if it  *)
(* takes nothing off the air and tells all it has to.                      *)
LEMMA QuietConverging ==
  ASSUME WriteTypeOK, TableInv, FeedInv, Converging, UNCHANGED <<list, journal, columns, news>>,
         \A r \in Request : Committed(r) => want'[r] = want[r] /\ inp'[r] = inp[r],
         link' \in {"entering", "live"} /\ tidy' =>
           link \in {"entering", "live"} /\ tidy,
         ToBeTold'
  PROVE  Converging'
<1>1. /\ \A m : On(m)' = On(m)
      /\ \A m : \A S \in SUBSET Request : RowAfter(m, S)' = RowAfter(m, S)
      /\ \A s, q : CommittedBefore(s, q)' = CommittedBefore(s, q)
      /\ History'
  BY HistoryKept DEF Converging, TableInv
<1>2. \A m : Heard(m)' = Heard(m) /\ Heard(m) \in SUBSET Request
  BY <1>1 DEF Heard, On
<1>3. \A m : RowAfter(m, Heard(m))' = RowAfter(m, Heard(m))
  BY <1>1, <1>2
<1>4. \A m : (On(m) \ news)' = On(m) \ news
  BY <1>1
<1>5. \A m : Whole(m)' = Whole(m)
  BY <1>1, <1>2, <1>4 DEF Whole
<1>6. InStep'
  BY <1>3, <1>5 DEF Converging, InStep, ShownOf, ColumnOf, HeadOf
<1> QED
  BY <1>1, <1>6 DEF Converging

(* A commit says nothing yet.                                              *)
LEMMA CommitConverging ==
  ASSUME WriteTypeOK, Stages, TableInv, FeedInv, Converging, NEW r \in Request, Commit(r),
         UNCHANGED <<link, columns, air, news, tidy>>
  PROVE  Converging'
<1>1. /\ pc[r] = "commit" /\ pc' = [pc EXCEPT ![r] = "tell"] /\ UNCHANGED <<inp, want>>
      /\ journal' = Append(journal, r) /\ journal \in Seq(Request) /\ Ordered
  BY DEF Commit, Goto, WriteTypeOK, TableInv
<1>2. /\ History'
      /\ \A l : On(l)' = IF l = want[r].id THEN On(l) \union {r} ELSE On(l)
      /\ \A l : \A S \in SUBSET Request : r \notin S => RowAfter(l, S)' = RowAfter(l, S)
      /\ \A q, s : CommittedBefore(q, s) => CommittedBefore(q, s)'
  BY HistoryCommit DEF Converging
<1>3. ~Committed(r) /\ r \notin news /\ \A q : Committed(q)' <=> Committed(q) \/ q = r
  BY <1>1, InTxUncommitted, JournalGrows, CommittedSet DEF InTx, FeedInv, Showing
<1>4. \A l : Heard(l)' = Heard(l) /\ Heard(l) \in SUBSET Request /\ r \notin Heard(l)
  BY <1>2, <1>3 DEF Heard, On
<1>5. \A l : RowAfter(l, Heard(l))' = RowAfter(l, Heard(l))
  BY <1>2, <1>4
<1>6. \A l : On(l) \ news \subseteq (On(l) \ news)'
  BY <1>2
<1>7. \A l : Whole(l)' => Whole(l)
  BY <1>2, <1>4, <1>6 DEF Whole
<1>8. InStep'
  BY <1>5, <1>7 DEF Converging, InStep, ShownOf, ColumnOf, HeadOf
<1>9. ToBeTold'
  <2>1. ASSUME NEW q \in Request PROVE Kind(q)' = Kind(q) /\ (pc[q] = "tell" => pc'[q] = "tell")
    BY <1>1 DEF Kind, WriteTypeOK
  <2>2. pc'[r] = "tell"
    BY <1>1 DEF WriteTypeOK
  <2> QED
    BY <1>3, <2>1, <2>2 DEF Converging, ToBeTold
<1> QED
  BY <1>2, <1>8, <1>9 DEF Converging

(* Every step keeps the page converging, given the other invariants.       *)
LEMMA ConvergingStep ==
  ASSUME WriteTypeOK, Stages, TableInv, FeedInv, Converging, [Next]_vars
  PROVE  Converging'
<1>1. \A r \in Request : Committed(r) => want'[r] = want[r] /\ inp'[r] = inp[r]
  BY LinesKept DEF FeedInv
<1>2. \A r \in Request : Committed(r) => Kind(r)' = Kind(r)
  BY <1>1 DEF Kind
<1>3. ASSUME UNCHANGED <<list, journal, link, columns, news, tidy>>, air \subseteq air',
             \A r \in Request : Committed(r) /\ pc[r] = "tell" => pc'[r] = "tell"
      PROVE  Converging'
  <2>1. \A r : Committed(r)' = Committed(r)
    BY <1>3 DEF Committed
  <2>2. ToBeTold'
    BY <1>2, <1>3, <2>1 DEF Converging, ToBeTold
  <2> QED
    BY <1>1, <1>3, <2>2, QuietConverging
<1>4. ASSUME NEW r \in Request, Write(r) PROVE Converging'
  <2>1. UNCHANGED <<link, columns, news, air, tidy>>
    BY <1>4 DEF Write, watchers
  <2>2. CASE Commit(r)
    BY <2>1, <2>2, CommitConverging
  <2>3. CASE Ask(r) \/ InTransaction(r)
    <3>1. UNCHANGED <<list, journal>>
      BY <2>3 DEF Ask, InTransaction, FindList, StartLockRead, LockNextRow, RefuseAnchor, Position,
                  Collide, Rewrite, DeadlockVictim, TimeOut
    <3>2. \A q \in Request : Committed(q) => pc'[q] = pc[q]
      BY <2>3, WriterLine DEF Same
    <3> QED
      BY <1>3, <2>1, <3>1, <3>2
  <2> QED
    BY <1>4, <2>2, <2>3 DEF Write
<1>5. ASSUME NEW r \in Request, TellLine(r) PROVE Converging'
  BY <1>3, <1>5 DEF TellLine, Sent, watchers
<1>6. ASSUME NEW r \in Request, TellList(r) PROVE Converging'
  <2>1. /\ UNCHANGED <<list, journal, link, columns, news>>
        /\ pc' = [pc EXCEPT ![r] = "done"]
        /\ \/ air' = Sent([kind |-> Kind(r), by |-> r]) /\ tidy' = tidy
           \/ tidy' = FALSE
    BY <1>6 DEF TellList, Goto, watchers
  <2>2. \A q : Committed(q)' = Committed(q)
    BY <2>1 DEF Committed
  <2>3. \A q \in Request \ {r} : pc'[q] = pc[q]
    BY <2>1 DEF WriteTypeOK
  <2>4. ToBeTold'
    <3> SUFFICES ASSUME link = "live", tidy', NEW q \in Request, Committed(q), q \notin news, pc'[q] # "tell"
                 PROVE  [kind |-> Kind(q), by |-> q] \in air'
      BY <1>2, <2>1, <2>2 DEF ToBeTold
    <3>1. air' = air \union {[kind |-> Kind(r), by |-> r]} /\ tidy
      BY <2>1 DEF Sent
    <3>2. q # r => [kind |-> Kind(q), by |-> q] \in air
      BY <2>3, <3>1 DEF Converging, ToBeTold
    <3> QED
      BY <3>1, <3>2
  <2> QED
    BY <1>1, <2>1, <2>4, QuietConverging
<1>7. CASE UNCHANGED <<list, journal, pc, link, columns, news, tidy, air>>
  BY <1>3, <1>7
<1>8. CASE RenderBoard \/ JoinRead
  <2>1. /\ UNCHANGED <<list, journal>> /\ columns' = Board /\ news' = ToSet(journal)
        /\ link' # "live"
    BY <1>8 DEF RenderBoard, JoinRead, writeVars
  <2>2. /\ History' /\ \A l : On(l)' = On(l)
        /\ \A l : \A S \in SUBSET Request : RowAfter(l, S)' = RowAfter(l, S)
    BY <1>1, <2>1, HistoryKept DEF Converging, TableInv
  <2>3. \A l : Heard(l)' = On(l) /\ On(l) \in SUBSET Request
    BY <2>1, <2>2, CommittedSet DEF Heard, On
  <2>4. \A l : RowAfter(l, Heard(l))' = RowAfter(l, On(l))
    BY <2>2, <2>3
  <2>5. /\ \A c \in Board : c.id \in List \ Foreign
        /\ \A l \in List \ Foreign : ShownOf(Board, l) = ColumnOf(RowAfter(l, On(l)))
    BY BoardInStep DEF Converging
  <2>6. InStep'
    BY <2>1, <2>4, <2>5 DEF InStep, ShownOf, ColumnOf, HeadOf
  <2> QED
    BY <2>1, <2>2, <2>5, <2>6 DEF Converging, ToBeTold
<1>9. CASE RenderFeed \/ Drop
  <2>1. UNCHANGED <<list, journal, columns, news>> /\ link' = "down"
    BY <1>9 DEF RenderFeed, Drop, writeVars
  <2> QED
    BY <1>1, <2>1, QuietConverging DEF ToBeTold
<1>10. CASE JoinEnter
  <2>1. /\ UNCHANGED <<list, journal, pc, columns, news>> /\ link = "entering"
        /\ tidy' = (tidy /\ \A r \in ToSet(journal) : pc[r] = "done" => r \in news)
    BY <1>10 DEF JoinEnter, writeVars
  <2>2. ToBeTold'
    <3> SUFFICES ASSUME tidy', NEW r \in Request, Committed(r)' PROVE r \in news \/ pc[r] = "tell"
      BY <2>1 DEF ToBeTold
    <3>1. Committed(r) /\ r \in ToSet(journal)
      BY <2>1, CommittedSet DEF Committed
    <3> QED
      BY <2>1, <3>1 DEF TableInv, Fine, Journaled
  <2> QED
    BY <1>1, <2>1, <2>2, QuietConverging
<1>11. CASE Deliver
  <2>1. PICK e \in air :
          /\ air' = air \ {e}
          /\ IF e.kind = "activity"
             THEN feed' = Shown(e.by) /\ UNCHANGED <<columns, news, tidy>>
             ELSE /\ columns' = ReduceList(e)
                  /\ news' = news \union {e.by}
                  /\ tidy' = (tidy /\ ~\E q \in news : want[q].id = want[e.by].id
                                                     /\ CommittedBefore(e.by, q))
                  /\ UNCHANGED feed
          /\ UNCHANGED <<writeVars, link>>
    BY <1>11 DEF Deliver
  <2>2. CASE e.kind # "activity"
    BY <2>1, <2>2, HearsConverging
  <2>3. CASE e.kind = "activity"
    <3>1. UNCHANGED <<list, journal, inp, pc, link, columns, news, tidy>>
      BY <2>1, <2>3 DEF writeVars
    <3>2. ASSUME NEW r \in Request, Committed(r), [kind |-> Kind(r), by |-> r] \in air
          PROVE  [kind |-> Kind(r), by |-> r] \in air'
      <4>1. Kind(r) # "activity"
        BY <3>2, KindTyped DEF TableInv, Fine, Journaled, WriteTypeOK
      <4> QED
        BY <2>1, <2>3, <3>2, <4>1
    <3>3. ToBeTold'
      BY <1>2, <3>1, <3>2 DEF Converging, ToBeTold, Committed
    <3> QED
      BY <1>1, <3>1, <3>3, QuietConverging
  <2> QED
    BY <2>2, <2>3
<1> QED
  BY <1>4, <1>5, <1>6, <1>7, <1>8, <1>9, <1>10, <1>11
     DEF Next, vars, writeVars, Tick, ReadPage, page, watchers

(* The page as it starts: nothing has been heard, nothing is shown.        *)
LEMMA ConvergingInit ==
  ASSUME Init
  PROVE  Converging
<1>1. journal = <<>> /\ columns = {} /\ link \in {"off", "board"}
  BY DEF Init, WriteInit, StoreInit
<1>2. \A r : ~Committed(r)
  BY <1>1 DEF Committed
<1>3. \A S : LastOf(S) = None
  BY <1>1 DEF LastOf
<1>4. \A l \in List : list[l] = Original(l)
  BY DEF Init, WriteInit, StoreInit, Original
<1>5. History
  BY <1>1, <1>2, <1>3, <1>4 DEF History, RowAfter
<1> QED
  BY <1>1, <1>5 DEF Converging, InStep, ToBeTold

(* What the page shows once everything has been told and delivered.        *)
LEMMA ConvergedIsBoard ==
  ASSUME WriteTypeOK, TableInv, Converging
  PROVE  ColumnsConverge
<1> SUFFICES ASSUME link = "live", air = {}, tidy, \A r \in Request : pc[r] \in {"idle", "done"}
             PROVE  columns = Board
  BY DEF ColumnsConverge
<1>1. \A r \in Request : Committed(r) => r \in news
  BY DEF Converging, ToBeTold
<1>2. \A l : Heard(l) = On(l) /\ Whole(l)
  BY <1>1 DEF Heard, On, Whole
<1>3. /\ \A c \in Board : c.id \in List \ Foreign
      /\ \A l \in List \ Foreign : ShownOf(Board, l) = ColumnOf(RowAfter(l, On(l)))
  BY BoardInStep DEF Converging
<1>4. \A l \in List \ Foreign : ShownOf(columns, l) = ShownOf(Board, l)
  BY <1>2, <1>3 DEF Converging, InStep
<1>5. \A c \in columns : c.id \in List \ Foreign
  BY DEF Converging
<1> QED
  BY <1>3, <1>4, <1>5 DEF ShownOf

(* The reducer's list events carry no version. A page that has missed      *)
(* nothing, and heard of each list in commit order, ends with the columns  *)
(* of the database, whatever else was renamed, moved or archived meanwhile *)
(* and however the events of different lists overtook each other.          *)
THEOREM ColumnsCatchUp == Spec => []ColumnsConverge
<1>1. Init => Converging
  BY ConvergingInit
<1>2. WriteTypeOK /\ Stages /\ TableInv /\ FeedInv /\ Converging /\ [Next]_vars => Converging'
  BY ConvergingStep
<1>3. WriteTypeOK /\ TableInv /\ Converging => ColumnsConverge
  BY ConvergedIsBoard
<1> QED
  BY <1>1, <1>2, <1>3, TableInvariant, FeedInvariant, PTL DEF Spec
=============================================================================
