---------------------------- MODULE ActivityFeed ----------------------------
(***************************************************************************)
(* What follows a list write: the activity line announced by the commit    *)
(* hook, the list's own event, the pages of GET /boards/:id/activity, and  *)
(* a board page that shows columns and the feed.                           *)
(*                                                                         *)
(* Each request is served by a process of its own, the API's or a gateway  *)
(* replica's, so their broadcasts reach a page in any order. The one who   *)
(* reads the feed page by page and the one with the board open do nothing  *)
(* to each other: a behaviour has one of them.                             *)
(***************************************************************************)
EXTENDS ListWrites, SequencesExt

CONSTANTS
  Past,      \* the lines the feed begins with ..
  PastTime,  \* .. when each was written ..
  Rank,      \* .. and the order of all lines' ids
  PageSize   \* how many lines a page of the feed has

ASSUME FeedAssumption ==
  /\ Past \intersect Request = {}
  /\ None \notin Past
  /\ PastTime \in [Past -> 0 .. MaxTime]
  /\ Rank \in [Past \union Request -> Nat]
  /\ \A x, y \in Past \union Request : Rank[x] = Rank[y] => x = y
  /\ PageSize \in Nat \ {0}

VARIABLES
  told,     \* the requests whose activity line has been announced
  reader,   \* who pages through the feed: "off", "first", "more" or "end"
  cursor,   \* the last line of the page before
  got,      \* the lines read so far
  owed,     \* the lines that had committed when the first page was read
  link,     \* the board page: being rendered, or its socket
  columns,  \* the lists it shows
  feed,     \* the lines it shows
  air,      \* events on their way to it
  news,     \* the list writes it has heard of, by an event or in a snapshot
  tidy      \* whether it has been told everything, of each list in commit order

watchers == <<reader, cursor, got, owed, link, columns, feed, news>>
page == <<link, columns, feed, air, news, tidy>>

vars == <<writeVars, told, reader, cursor, got, owed, link, columns, feed, air, news, tidy>>

-----------------------------------------------------------------------------
(* The feed: rows of this board, newest first, ids breaking ties.          *)

Lines == Past \union ToSet(journal)

At(x) == IF x \in Past THEN PastTime[x] ELSE line[x]

Newer(x, y) == At(x) > At(y) \/ (At(x) = At(y) /\ Rank[x] > Rank[y])

(* Mutant: the cursor is the time alone.                                   *)
OlderByTime(c) == {x \in Lines : c = None \/ At(x) < At(c)}

(* Mutant: lines of the cursor's own instant are read again.               *)
OlderOrSame(c) == {x \in Lines : c = None \/ At(x) <= At(c)}

(* What the keyset cursor c leaves: everything, or what is older.          *)
Older(c) == {x \in Lines : c = None \/ Newer(c, x)}

(* One row more than the page was asked for.                               *)
HasMore(S) == Cardinality(S) > PageSize

(* What the query may return of the lines S: PageSize of them that are     *)
(* newer than the others, or all that there are, newest first.             *)
Newest(S) ==
  {items \in BoundedSeq(S, PageSize) :
     /\ \A j, k \in DOMAIN items : j < k => Newer(items[j], items[k])
     /\ IF HasMore(S)
        THEN Len(items) = PageSize /\ \A x \in S \ ToSet(items) : Newer(Last(items), x)
        ELSE ToSet(items) = S}

-----------------------------------------------------------------------------
Header(l) == [id |-> l, pos |-> list[l].pos, name |-> list[l].name, wip |-> list[l].wip]

Board == {Header(l) : l \in {m \in List : OnBoard(m) /\ list[m].state = "live"}}

HeaderType == [id : List, pos : Key \union {0}, name : Request \union {None},
               wip : Request \union {None}]

Event == [kind : {"activity", "list.created", "list.updated", "list.moved", "list.archived"},
          by : Request]

TypeOK ==
  /\ WriteTypeOK
  /\ told \subseteq Request
  /\ reader \in {"off", "first", "more", "end"}
  /\ cursor \in Past \union Request \union {None}
  /\ got \in Seq(Past \union Request)
  /\ owed \subseteq Past \union Request
  /\ link \in {"off", "board", "feed", "down", "entering", "live"}
  /\ columns \subseteq HeaderType
  /\ feed \in Seq(Past \union Request)
  /\ air \subseteq Event
  /\ news \subseteq Request
  /\ tidy \in BOOLEAN
  /\ air # {} => link = "live"
  /\ \A e \in air : pc[e.by] \in {"tell", "done"}

Init ==
  /\ WriteInit
  /\ told = {}
  /\ cursor = None /\ got = <<>> /\ owed = {}
  /\ columns = {} /\ feed = <<>> /\ air = {} /\ news = {}
  /\ tidy = TRUE
  /\ \/ reader = "first" /\ link = "off"
     \/ reader = "off" /\ link = "board"

(* A page of the feed: BoardsService.activity.                             *)
ReadPage ==
  LET rows == Older(cursor)
  IN  /\ reader \in {"first", "more"}
      /\ \E items \in Newest(rows) :
           /\ got' = got \o items
           /\ cursor' = IF HasMore(rows) THEN Last(items) ELSE None
      /\ owed' = IF reader = "first" THEN Lines ELSE owed
      /\ reader' = IF HasMore(rows) THEN "more" ELSE "end"
      /\ UNCHANGED <<writeVars, told, page>>

-----------------------------------------------------------------------------
(* Broadcasts.                                                             *)

Kind(r) == CASE inp[r].op = "create"  -> "list.created"
             [] inp[r].op = "update"  -> "list.updated"
             [] inp[r].op = "move"    -> "list.moved"
             [] inp[r].op = "archive" -> "list.archived"

Sent(e) == IF link = "live" THEN air \union {e} ELSE air

(* Mutant: the hook fires when the line is appended.                       *)
MayTellAtOnce(r) == pc[r] \in {"commit", "tell"}

(* withTransaction announces what was appended once it has committed.      *)
MayTell(r) == pc[r] = "tell"

(* Redis may be gone: a broadcast that fails is swallowed.                 *)
TellLine(r) ==
  /\ MayTell(r) /\ r \notin told
  /\ told' = told \union {r}
  /\ \/ air' = Sent([kind |-> "activity", by |-> r]) /\ UNCHANGED faults
     \/ faults < MaxFaults /\ faults' = faults + 1 /\ UNCHANGED air
  /\ UNCHANGED <<list, line, journal, clock, inp, ans, pc, attempt, begun, tx, watchers, tidy>>

(* The list's event. updateList's carries a card count, which is read from *)
(* the database first, and may fail: the caller is told INTERNAL then.     *)
TellList(r) ==
  /\ pc[r] = "tell" /\ r \in told
  /\ Goto(r, "done")
  /\ \/ /\ ans' = [ans EXCEPT ![r] = "OK"]
        /\ air' = Sent([kind |-> Kind(r), by |-> r])
        /\ UNCHANGED <<faults, tidy>>
     \/ /\ faults < MaxFaults /\ faults' = faults + 1
        /\ ans' = [ans EXCEPT ![r] = IF inp[r].op = "update" THEN "INTERNAL" ELSE "OK"]
        /\ tidy' = FALSE
        /\ UNCHANGED air
  /\ UNCHANGED <<list, line, journal, clock, inp, attempt, begun, tx, told, watchers>>

-----------------------------------------------------------------------------
(* The board page. It is rendered from two requests, the board and then    *)
(* the feed; its socket then joins and takes the board again.              *)

RenderBoard ==
  /\ link = "board"
  /\ columns' = Board /\ news' = ToSet(journal)
  /\ link' = "feed"
  /\ UNCHANGED <<writeVars, told, reader, cursor, got, owed, feed, air, tidy>>

RenderFeed ==
  /\ link = "feed"
  /\ feed' \in Newest(Lines)
  /\ link' = "down"
  /\ UNCHANGED <<writeVars, told, reader, cursor, got, owed, columns, air, news, tidy>>

JoinRead ==
  /\ link = "down"
  /\ columns' = Board /\ news' = ToSet(journal)
  /\ link' = "entering"
  /\ UNCHANGED <<writeVars, told, reader, cursor, got, owed, feed, air, tidy>>

(* What was announced since the board was read, the page has missed.       *)
JoinEnter ==
  /\ link = "entering"
  /\ link' = "live"
  /\ tidy' = (tidy /\ \A r \in ToSet(journal) : pc[r] = "done" => r \in news)
  /\ UNCHANGED <<writeVars, told, reader, cursor, got, owed, columns, feed, air, news>>

Drop ==
  /\ link = "live" /\ faults < MaxFaults
  /\ link' = "down"
  /\ air' = {}
  /\ faults' = faults + 1
  /\ UNCHANGED <<list, line, journal, clock, inp, ans, pc, attempt, begun, tx, told, reader,
                 cursor, got, owed, columns, feed, news, tidy>>

Known(id) == \E c \in columns : c.id = id

NewHeader(r) == [id |-> want[r].id, pos |-> want[r].pos, name |-> want[r].name, wip |-> want[r].wip]

Created(r) == IF Known(want[r].id) THEN columns ELSE columns \union {NewHeader(r)}

(* Mutant: a limit that has changed is not taken over.                     *)
UpdatedButLimit(r) ==
  {IF c.id = want[r].id THEN [NewHeader(r) EXCEPT !.wip = c.wip] ELSE c : c \in columns}

Updated(r) == {IF c.id = want[r].id THEN NewHeader(r) ELSE c : c \in columns}

(* The reducer's list events. list.updated brings the whole header of the  *)
(* row as its transaction left it, list.moved the position alone.          *)
ReduceList(e) ==
  LET r == e.by
  IN  CASE e.kind = "list.created"  -> Created(r)
        [] e.kind = "list.updated"  -> Updated(r)
        [] e.kind = "list.moved"    -> {IF c.id = want[r].id THEN [c EXCEPT !.pos = want[r].pos]
                                        ELSE c : c \in columns}
        [] e.kind = "list.archived" -> {c \in columns : c.id # want[r].id}

(* Mutant: a line is shown as often as it arrives.                         *)
ShownAgain(r) == <<r>> \o feed

(* onActivity: a line that is there already is not added again.            *)
Shown(r) == IF r \in ToSet(feed) THEN feed ELSE <<r>> \o feed

CommittedBefore(r, q) ==
  \E j, k \in DOMAIN journal : j < k /\ journal[j] = r /\ journal[k] = q

Deliver ==
  \E e \in air :
    /\ air' = air \ {e}
    /\ IF e.kind = "activity"
       THEN feed' = Shown(e.by) /\ UNCHANGED <<columns, news, tidy>>
       ELSE /\ columns' = ReduceList(e)
            /\ news' = news \union {e.by}
            /\ tidy' = (tidy /\ ~\E q \in news : want[q].id = want[e.by].id /\ CommittedBefore(e.by, q))
            /\ UNCHANGED feed
    /\ UNCHANGED <<writeVars, told, reader, cursor, got, owed, link>>

-----------------------------------------------------------------------------
Write(r) ==
  /\ Ask(r) \/ InTransaction(r) \/ Commit(r)
  /\ UNCHANGED <<told, watchers, air, tidy>>

Next ==
  \/ \E r \in Request : Write(r) \/ TellLine(r) \/ TellList(r)
  \/ Tick /\ UNCHANGED <<told, watchers, air, tidy>>
  \/ ReadPage
  \/ RenderBoard \/ RenderFeed \/ JoinRead \/ JoinEnter \/ Drop \/ Deliver

Spec == Init /\ [][Next]_vars

-----------------------------------------------------------------------------
(* What must hold of the feed and of the page.                             *)

(* Pages never overlap and never go back: the lines read are strictly from *)
(* newest to oldest, whatever commits between two pages, late lines with   *)
(* an early time and equal times included.                                 *)
PagesDescend == \A j, k \in DOMAIN got : j < k => Newer(got[j], got[k])

(* Who reads to the end has every line that had committed when the first   *)
(* page was read; lines that commit meanwhile may be missing.              *)
PagesSkipNothing == reader = "end" => owed \subseteq ToSet(got)

(* A cursor is only ever given when the page it leads to is not empty.     *)
CursorLeadsSomewhere == reader = "more" => Older(cursor) # {}

(* The page never shows a line of a write that has not committed: a failed *)
(* transaction has not been announced.                                     *)
ShownIsCommitted == ToSet(feed) \union {e.by : e \in air} \subseteq Lines

(* .. nor a line twice, be it rendered, broadcast or both; nor two columns *)
(* for one list, whatever comes first, the board or list.created.          *)
NoLineTwice == \A j, k \in DOMAIN feed : feed[j] = feed[k] => j = k

NoColumnTwice == \A c, d \in columns : c.id = d.id => c = d

NothingTwice == NoLineTwice /\ NoColumnTwice

(* List events carry no version. A page ends with the committed columns    *)
(* provided that nothing it should have been told was lost, and that what  *)
(* it heard of each list came in commit order.                             *)
ColumnsConverge ==
  /\ link = "live" /\ air = {} /\ tidy
  /\ \A r \in Request : pc[r] \in {"idle", "done"}
  => columns = Board
=============================================================================
