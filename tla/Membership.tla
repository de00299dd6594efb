----------------------------- MODULE Membership -----------------------------
(***************************************************************************)
(* Who is on a board, and what a role may do: BoardsService of apps/api,   *)
(* the matrix of packages/shared/src/roles.ts, the member.changed and      *)
(* board.renamed broadcasts, and the open pages that show them.            *)
(*                                                                         *)
(* One board is followed. Every request to the API is a process: it reads  *)
(* the caller's role, perhaps the target's, and only then opens the        *)
(* transaction that writes; what it broadcasts it reads after the commit.  *)
(* A transaction writes one row and its activity line and reads nothing    *)
(* before it writes, so it is one step. One request kind, "write", stands  *)
(* for the card and list operations, which read the role the same way.     *)
(*                                                                         *)
(* The API publishes through one Redis: its messages reach every page in   *)
(* the order in which they were published.                                 *)
(***************************************************************************)
EXTENDS Naturals, Sequences, FiniteSets

CONSTANTS
  Person,      \* the email addresses anybody names
  Creator,     \* who creates the board
  Start,       \* the members of the board at the start
  Page,        \* members with the board open in a browser at the start
  Request,     \* requests to the API
  Offered,     \* the inputs they choose from
  None,        \* null
  MaxFaults    \* bound: how many transactions or publications fail, sockets drop

Role == {"OWNER", "EDITOR", "VIEWER"}

ASSUME StartAssumption ==
  /\ Creator \in Person
  /\ Start \in [Person -> Role \union {None}]
  /\ \A p \in Person : Start[p] = "OWNER" <=> p = Creator
  /\ Page \subseteq {p \in Person : Start[p] # None}
  /\ MaxFaults \in Nat

VARIABLES
  account,   \* people with an account
  board,     \* whether the board exists: "none", "open" or "deleted"
  role,      \* board_members: role[p], None for somebody who is not a member
  name,      \* the request that named the board last
  log,       \* the board's activity lines about members, in commit order
  inp, ans,  \* each request's input and its answer
  pc,        \* where the request is
  asked,     \* how many lines the log had when it was sent
  old,       \* the role it read of the person it is about
  got,       \* the roster it read after its commit
  shown,     \* shown[p]: the roster and the name p's page shows
  link,      \* link[p]: p's socket
  inbox,     \* inbox[p]: broadcasts on their way to it
  writes,    \* how often the members or the name have been written
  sent,      \* the newest roster and the newest name that have been published
  tidy,      \* whether pages were told everything, and the newest of it last
  faults

vars == <<account, board, role, name, log, inp, ans, pc, asked, old, got, shown, link,
          inbox, writes, sent, tidy, faults>>

db == <<account, board, role, name, log, writes>>
pages == <<shown, link, inbox>>

-----------------------------------------------------------------------------
(* The permission matrix.                                                  *)

Operation ==
  {"board.read", "board.rename", "board.delete", "board.manageMembers", "list.create",
   "list.rename", "list.move", "list.archive", "card.create", "card.update", "card.move",
   "card.archive", "activity.read", "presence.join"}

Matrix ==
  [OWNER  |-> Operation,
   EDITOR |-> Operation \ {"board.rename", "board.delete", "board.manageMembers"},
   VIEWER |-> {"board.read", "activity.read", "presence.join"}]

(* Mutant: a null role slips through as the least one.                     *)
CanAnyone(r, o) == o \in Matrix[IF r = None THEN "EDITOR" ELSE r]

(* No role, no operation.                                                  *)
Can(r, o) == r # None /\ o \in Matrix[r]

(* What each kind of request asks require for.                             *)
Needs ==
  [add    |-> "board.manageMembers", update |-> "board.manageMembers",
   remove |-> "board.manageMembers", rename |-> "board.rename",
   delete |-> "board.delete",        write  |-> "card.move"]

-----------------------------------------------------------------------------
Op == DOMAIN Needs \union {"signup", "create"}

Input == [op : Op, actor : Person, target : Person, role : Role]

Code == {"OK", "FORBIDDEN", "NOT_FOUND", "CONFLICT", "INTERNAL"}

Roster == [members : [Person -> Role \union {None}], name : Request \union {None}, at : Nat]

Line == [kind : {"MEMBER_ADDED", "MEMBER_ROLE_CHANGED", "MEMBER_REMOVED"}, who : Person,
         was : Role \union {None}, now : Role \union {None}]

(* None is null, and nothing else; and requests are well formed. *)
ASSUME NoneAssumption ==
  /\ None \notin Role \union Person \union Request
  /\ None \notin Input /\ None \notin Code /\ None \notin Roster

ASSUME OfferedAssumption == Offered \subseteq Input

TypeOK ==
  /\ account \subseteq Person
  /\ board \in {"none", "open", "deleted"}
  /\ role \in [Person -> Role \union {None}]
  /\ name \in Request \union {None}
  /\ log \in Seq(Line)
  /\ inp \in [Request -> Input \union {None}]
  /\ ans \in [Request -> Code \union {None}]
  /\ pc \in [Request -> {"idle", "require", "find", "tx", "recheck", "read", "announce", "done"}]
  /\ asked \in [Request -> Nat]
  /\ old \in [Request -> Role \union {None}]
  /\ got \in [Request -> Roster \union {None}]
  /\ shown \in [Page -> Roster \union {None}]
  /\ link \in [Page -> {"live", "down", "entering"}]
  /\ inbox \in [Page -> Seq([about : {"members", "name"}, roster : Roster])]
  /\ writes \in Nat
  /\ sent \in [{"members", "name"} -> Nat]
  /\ tidy \in BOOLEAN
  /\ faults \in 0 .. MaxFaults
  /\ \A r \in Request : /\ pc[r] = "idle" <=> inp[r] = None
                        /\ pc[r] = "done" <=> ans[r] # None
                        /\ pc[r] = "announce" => got[r] # None
  /\ \A p \in Page : /\ link[p] # "down" => shown[p] # None
                     /\ inbox[p] # <<>> => link[p] = "live"

Now == [members |-> role, name |-> name, at |-> writes]

(* Nobody has created the board yet, or it has its first members and some  *)
(* of them look at it.                                                     *)
Init ==
  /\ account = {p \in Person : Start[p] # None}
  /\ \/ board = "none" /\ role = [p \in Person |-> None]
     \/ board = "open" /\ role = Start
  /\ name = None
  /\ log = <<>>
  /\ inp = [r \in Request |-> None]
  /\ ans = [r \in Request |-> None]
  /\ pc = [r \in Request |-> "idle"]
  /\ asked = [r \in Request |-> 0]
  /\ old = [r \in Request |-> None]
  /\ got = [r \in Request |-> None]
  /\ writes = 0
  /\ shown = [p \in Page |-> IF board = "open" THEN Now ELSE None]
  /\ link = [p \in Page |-> IF board = "open" THEN "live" ELSE "down"]
  /\ inbox = [p \in Page |-> <<>>]
  /\ sent = [a \in {"members", "name"} |-> 0]
  /\ tidy = TRUE
  /\ faults = 0

-----------------------------------------------------------------------------
(* A request, up to its transaction.                                       *)

Goto(r, l) == pc' = [pc EXCEPT ![r] = l]

Answer(r, code) ==
  /\ ans' = [ans EXCEPT ![r] = code]
  /\ Goto(r, "done")

(* The forms of the members panel and the boards list, or any REST client. *)
Ask(r) ==
  /\ pc[r] = "idle"
  /\ \E i \in Offered :
       /\ i.op # "signup" => i.actor \in account
       /\ inp' = [inp EXCEPT ![r] = i]
       /\ asked' = [asked EXCEPT ![r] = Len(log)]
       /\ Goto(r, IF i.op \in {"signup", "create"} THEN "tx" ELSE "require")
  /\ UNCHANGED <<db, ans, old, got, pages, sent, tidy, faults>>

(* The role, read before and outside the transaction. board-ops tells a    *)
(* stranger FORBIDDEN, the board routes NOT_FOUND. addMember grants no     *)
(* ownership.                                                              *)
Require(r) ==
  LET i == inp[r]
      mine == role[i.actor]
  IN  /\ pc[r] = "require"
      /\ IF ~Can(mine, Needs[i.op])
         THEN Answer(r, IF mine = None /\ i.op # "write" THEN "NOT_FOUND" ELSE "FORBIDDEN")
         ELSE IF i.op = "add" /\ i.role = "OWNER"
         THEN Answer(r, "FORBIDDEN")
         ELSE UNCHANGED ans /\ Goto(r, IF i.op \in {"add", "update", "remove"} THEN "find" ELSE "tx")
      /\ UNCHANGED <<db, inp, asked, old, got, pages, sent, tidy, faults>>

(* addMember looks the address up among the accounts.                      *)
FindAccount(r) ==
  /\ pc[r] = "find" /\ inp[r].op = "add"
  /\ IF inp[r].target \in account
     THEN Goto(r, "tx") /\ UNCHANGED ans
     ELSE Answer(r, "NOT_FOUND")
  /\ UNCHANGED <<db, inp, asked, old, got, pages, sent, tidy, faults>>

(* Mutant: only the promotion is refused, not the demotion of the owner.   *)
OwnerRefusedNew(r, was) == inp[r].op = "update" /\ inp[r].role = "OWNER"

(* What updateMemberRole and removeMember refuse once they know the role   *)
(* of the person they are about.                                           *)
OwnerRefused(r, was) == was = "OWNER" \/ (inp[r].op = "update" /\ inp[r].role = "OWNER")

(* They read that role outside the transaction as well.                    *)
FindMember(r) ==
  LET was == role[inp[r].target]
  IN  /\ pc[r] = "find" /\ inp[r].op \in {"update", "remove"}
      /\ old' = [old EXCEPT ![r] = was]
      /\ IF was = None THEN Answer(r, "NOT_FOUND")
         ELSE IF OwnerRefused(r, was) THEN Answer(r, "FORBIDDEN")
         ELSE /\ Goto(r, IF inp[r].op = "update" /\ was = inp[r].role THEN "recheck" ELSE "tx")
              /\ UNCHANGED ans
      /\ UNCHANGED <<db, inp, asked, got, pages, sent, tidy, faults>>

-----------------------------------------------------------------------------
(* The transactions.                                                       *)

Logged(kind, r, was, now) ==
  Append(log, [kind |-> kind, who |-> inp[r].target, was |-> was, now |-> now])

Written == writes' = writes + 1

(* The account and its starter board are one transaction; that board is    *)
(* not the one followed.                                                   *)
Signup(r) ==
  /\ pc[r] = "tx" /\ inp[r].op = "signup"
  /\ account' = account \union {inp[r].actor}
  /\ Answer(r, IF inp[r].actor \in account THEN "CONFLICT" ELSE "OK")
  /\ UNCHANGED <<board, role, name, log, writes, inp, asked, old, got, pages, sent, tidy, faults>>

(* The board and its OWNER membership together. The first board that the   *)
(* creator makes is the one followed.                                      *)
CreateBoard(r) ==
  /\ pc[r] = "tx" /\ inp[r].op = "create"
  /\ IF board = "none" /\ inp[r].actor = Creator
     THEN /\ board' = "open"
          /\ role' = [role EXCEPT ![Creator] = "OWNER"]
          /\ name' = r
          /\ Written
     ELSE UNCHANGED <<board, role, name, writes>>
  /\ Answer(r, "OK")
  /\ UNCHANGED <<account, log, inp, asked, old, got, pages, sent, tidy, faults>>

(* The upsert: a new member, or a new role for an old one, whoever it is.  *)
AddMember(r) ==
  LET p == inp[r].target
  IN  /\ pc[r] = "tx" /\ inp[r].op = "add" /\ board = "open"
      /\ role' = [role EXCEPT ![p] = inp[r].role]
      /\ log' = Logged("MEMBER_ADDED", r, role[p], inp[r].role)
      /\ Written
      /\ Goto(r, "recheck")
      /\ UNCHANGED <<account, board, name, inp, ans, asked, old, got, pages, sent, tidy, faults>>

(* Mutant: the line is written although the row is gone.                   *)
RowFoundAnyway(r) == TRUE

(* update and delete by key fail when the row is gone by now.              *)
RowFound(r) == role[inp[r].target] # None

(* The line quotes the role as it was read, not as it is overwritten.      *)
ChangeMember(r) ==
  LET p == inp[r].target
      now == IF inp[r].op = "update" THEN inp[r].role ELSE None
  IN  /\ pc[r] = "tx" /\ inp[r].op \in {"update", "remove"} /\ RowFound(r)
      /\ role' = [role EXCEPT ![p] = IF @ = None THEN None ELSE now]
      /\ log' = Logged(IF inp[r].op = "update" THEN "MEMBER_ROLE_CHANGED" ELSE "MEMBER_REMOVED",
                       r, old[r], now)
      /\ Written
      /\ Goto(r, "recheck")
      /\ UNCHANGED <<account, board, name, inp, ans, asked, old, got, pages, sent, tidy, faults>>

(* The broadcast carries the row the update returned: it is at hand when   *)
(* the transaction has committed.                                          *)
RenameBoard(r) ==
  /\ pc[r] = "tx" /\ inp[r].op = "rename" /\ board = "open"
  /\ name' = r
  /\ Written
  /\ got' = [got EXCEPT ![r] = [members |-> role, name |-> r, at |-> writes + 1]]
  /\ Goto(r, "announce")
  /\ UNCHANGED <<account, board, role, log, inp, ans, asked, old, pages, sent, tidy, faults>>

(* The cascade takes the memberships and the activity lines along.         *)
DeleteBoard(r) ==
  /\ pc[r] = "tx" /\ inp[r].op = "delete" /\ board = "open"
  /\ board' = "deleted"
  /\ role' = [p \in Person |-> None]
  /\ log' = <<>>
  /\ Written
  /\ Answer(r, "OK")
  /\ UNCHANGED <<account, name, inp, asked, old, got, pages, sent, tidy, faults>>

(* A card or list operation on the board, whose rows are CardWrites'.      *)
WriteCard(r) ==
  /\ pc[r] = "tx" /\ inp[r].op = "write"
  /\ Answer(r, IF board = "open" THEN "OK" ELSE "NOT_FOUND")
  /\ UNCHANGED <<db, inp, asked, old, got, pages, sent, tidy, faults>>

(* The row is gone, or the board it refers to.                             *)
RowGone(r) ==
  \/ inp[r].op \in {"add", "rename", "delete"} /\ board # "open"
  \/ inp[r].op \in {"update", "remove"} /\ role[inp[r].target] = None

(* A transaction fails for that, or for reasons of its own.                *)
TxFails(r) ==
  /\ pc[r] = "tx"
  /\ \/ RowGone(r) /\ UNCHANGED faults
     \/ faults < MaxFaults /\ faults' = faults + 1
  /\ Answer(r, "INTERNAL")
  /\ UNCHANGED <<db, inp, asked, old, got, pages, sent, tidy>>

-----------------------------------------------------------------------------
(* After the commit: announceMembers.                                      *)

(* Mutant: the roster is for those who may manage it.                      *)
MayReadForManagers(p) == Can(role[p], "board.manageMembers")

MayRead(p) == Can(role[p], "board.read")

(* members() asks again whether the caller may read the board.             *)
Recheck(r) ==
  /\ pc[r] = "recheck"
  /\ IF MayRead(inp[r].actor)
     THEN Goto(r, "read") /\ UNCHANGED <<ans, tidy>>
     ELSE /\ Answer(r, IF role[inp[r].actor] = None THEN "NOT_FOUND" ELSE "FORBIDDEN")
          /\ tidy' = FALSE
  /\ UNCHANGED <<db, inp, asked, old, got, pages, sent, faults>>

(* updateMemberRole returns the roster of an unchanged role unannounced.   *)
ReadRoster(r) ==
  /\ pc[r] = "read"
  /\ got' = [got EXCEPT ![r] = Now]
  /\ IF inp[r].op = "update" /\ old[r] = inp[r].role THEN Answer(r, "OK")
     ELSE Goto(r, "announce") /\ UNCHANGED ans
  /\ UNCHANGED <<db, inp, asked, old, pages, sent, tidy, faults>>

(* Any of these reads may fail, before the write or after it.              *)
ReadFails(r) ==
  /\ pc[r] \in {"require", "find", "recheck", "read"} /\ faults < MaxFaults
  /\ faults' = faults + 1
  /\ tidy' = (tidy /\ pc[r] \in {"require", "find"})
  /\ Answer(r, "INTERNAL")
  /\ UNCHANGED <<db, inp, asked, old, got, pages, sent>>

(* Mutant: it goes to everybody who has the page open, joined or not.      *)
ToldOpen(m) == [p \in Page |-> Append(inbox[p], m)]

(* What is sent to a room reaches the sockets that are in it.              *)
Told(m) == [p \in Page |-> IF link[p] = "live" THEN Append(inbox[p], m) ELSE inbox[p]]

(* Mutant: what the caller meant to write is announced, not what was read. *)
AnnouncedOld(r) == [got[r] EXCEPT !.members[inp[r].target] = old[r]]

Announced(r) == got[r]

(* The whole roster, or the name. A publication that fails is swallowed.   *)
Announce(r) ==
  LET about == IF inp[r].op = "rename" THEN "name" ELSE "members"
  IN  /\ pc[r] = "announce"
      /\ \/ /\ inbox' = Told([about |-> about, roster |-> Announced(r)])
            /\ sent' = [sent EXCEPT ![about] = IF @ < got[r].at THEN got[r].at ELSE @]
            /\ tidy' = (tidy /\ sent[about] <= got[r].at)
            /\ UNCHANGED faults
         \/ /\ faults < MaxFaults /\ faults' = faults + 1
            /\ tidy' = FALSE
            /\ UNCHANGED <<inbox, sent>>
      /\ Answer(r, "OK")
      /\ UNCHANGED <<db, inp, asked, old, got, shown, link>>

-----------------------------------------------------------------------------
(* The pages: board.state, member.changed and board.renamed.               *)

Deliver(p) ==
  /\ inbox[p] # <<>>
  /\ LET m == Head(inbox[p])
     IN  shown' = [shown EXCEPT ![p] =
           IF m.about = "name" THEN [@ EXCEPT !.name = m.roster.name]
                               ELSE [@ EXCEPT !.members = m.roster.members]]
  /\ inbox' = [inbox EXCEPT ![p] = Tail(@)]
  /\ UNCHANGED <<db, inp, ans, pc, asked, old, got, link, sent, tidy, faults>>

(* A connection breaks: what is under way to it is lost.                   *)
Drop(p) ==
  /\ link[p] = "live" /\ faults < MaxFaults
  /\ link' = [link EXCEPT ![p] = "down"]
  /\ inbox' = [inbox EXCEPT ![p] = <<>>]
  /\ faults' = faults + 1
  /\ UNCHANGED <<db, inp, ans, pc, asked, old, got, shown, sent, tidy>>

(* board.join reads the board, for a member, ..                            *)
JoinRead(p) ==
  /\ link[p] = "down" /\ board = "open" /\ MayRead(p)
  /\ shown' = [shown EXCEPT ![p] = Now]
  /\ link' = [link EXCEPT ![p] = "entering"]
  /\ UNCHANGED <<db, inp, ans, pc, asked, old, got, inbox, sent, tidy, faults>>

(* .. and enters the room; what was announced in between it never gets.    *)
JoinEnter(p) ==
  /\ link[p] = "entering"
  /\ link' = [link EXCEPT ![p] = "live"]
  /\ tidy' = (tidy /\ shown[p].at = writes)
  /\ UNCHANGED <<db, inp, ans, pc, asked, old, got, shown, inbox, sent, faults>>

-----------------------------------------------------------------------------
Transaction(r) ==
  \/ Signup(r) \/ CreateBoard(r) \/ AddMember(r) \/ ChangeMember(r) \/ RenameBoard(r)
  \/ DeleteBoard(r) \/ WriteCard(r) \/ TxFails(r)

Serve(r) ==
  \/ Require(r) \/ FindAccount(r) \/ FindMember(r)
  \/ Transaction(r)
  \/ Recheck(r) \/ ReadRoster(r) \/ ReadFails(r) \/ Announce(r)

PageStep(p) == Deliver(p) \/ Drop(p) \/ JoinRead(p) \/ JoinEnter(p)

Next ==
  \/ \E r \in Request : Ask(r) \/ Serve(r)
  \/ \E p \in Page : PageStep(p)

Spec == Init /\ [][Next]_vars

-----------------------------------------------------------------------------
(* What must hold.                                                         *)

(* The lines about p among the first n.                                    *)
Lines(p, n) == {k \in 1 .. n : log[k].who = p}

(* p's role after the first n lines of the log, if it has a line there.    *)
RoleAfter(p, n) ==
  LET about == Lines(p, n)
  IN  IF about = {} THEN Start[p]
      ELSE log[CHOOSE k \in about : \A l \in about : l <= k].now

(* The migration's "A board has exactly one owner", and what               *)
(* updateMemberRole says of the index. Violated: addMember's upsert takes  *)
(* the owner's own address.                                                *)
OneOwner == board = "open" => Cardinality({p \in Person : role[p] = "OWNER"}) = 1

(* Nothing but that takes the board from who created it: no other request, *)
(* in no order with others, although the roles the requests go by may be   *)
(* out of date when they write.                                            *)
OwnerKeepsBoard ==
  board = "open" => \/ role[Creator] = "OWNER"
                    \/ \E k \in Lines(Creator, Len(log)) : log[k].kind = "MEMBER_ADDED"

(* The activity feed tells the whole story of the members: who has a line  *)
(* is in the last role it gives, although lines quote roles read outside   *)
(* the transaction and requests fail between the two reads and the write.  *)
LogExplainsRoster ==
  board = "open" =>
    \A p \in Person :
      IF Lines(p, Len(log)) # {} THEN role[p] = RoleAfter(p, Len(log))
      ELSE role[p] = Start[p] \/ (role[p] = None /\ p # Creator)

(* The role is read once, before the transaction, so a member who is       *)
(* removed or demoted may still finish what is under way; but whoever      *)
(* succeeds has held a sufficient role at some time since asking.          *)
PermittedMeanwhile ==
  board = "open" =>
    \A r \in Request :
      ans[r] = "OK" /\ inp[r].op \in DOMAIN Needs =>
        \E n \in asked[r] .. Len(log) :
          \E x \in Role : x = RoleAfter(inp[r].actor, n) /\ Needs[inp[r].op] \in Matrix[x]

(* announceMembers asks for permission again when the write has long been  *)
(* committed: nobody who is still a member is told that it was refused.    *)
CommittedThenRefused ==
  [][\A r \in Request :
       pc[r] = "recheck" /\ ans'[r] \in {"FORBIDDEN", "NOT_FOUND"} => role[inp[r].actor] = None]_vars

(* Every page has what was sent to it; every request has been answered.    *)
Quiet ==
  /\ \A r \in Request : pc[r] \in {"idle", "done"}
  /\ \A p \in Page : inbox[p] = <<>>

(* Pages end with the true roster and name, unless something was not       *)
(* announced, was announced late, or was written while a page joined.      *)
(* Each membership request announces whatever the roster is by then.       *)
RosterConverges ==
  Quiet /\ tidy /\ board = "open" =>
    \A p \in Page : link[p] = "live" => shown[p].members = role /\ shown[p].name = name
=============================================================================
